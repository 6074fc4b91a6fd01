---------------------------- MODULE PurchaseLedger ----------------------------
(***************************************************************************)
(* What buying promises, without saying how: one ledger line per purchase. *)
(* Money is taken at most once for a line and before anything is entered   *)
(* for it; the subscription is entered before its invoice, each once; a    *)
(* line is settled, that is, the buyer is told it went well, only with     *)
(* both entered; a line may be dropped at any point and is then as it was. *)
(* Access is given only to an e-mail that money was taken for.             *)
(***************************************************************************)
CONSTANTS Lines, Emails, None

VARIABLES
    line,     \* the lines of the ledger
    entitled  \* the e-mails whose users have access to a bought period

ledgerVars == <<line, entitled>>

Entries == {"charge", "subscription", "invoice"}

\* What must have been entered on a line before.
Needs(entry) ==
    CASE entry = "charge"       -> {}
      [] entry = "subscription" -> {"charge"}
      [] entry = "invoice"      -> {"charge", "subscription"}

Line(state, email, entries) ==
    [state |-> state, email |-> email, entries |-> entries]

Blank == Line("none", None, {})

LedgerInit ==
    /\ line = [l \in Lines |-> Blank]
    /\ entitled = {}

Open(l) == line[l].state = "open"

Write(l, state, email, entries) ==
    /\ line' = [line EXCEPT ![l] = Line(state, email, entries)]
    /\ UNCHANGED entitled

Begin(l, e) ==
    /\ line[l] = Blank
    /\ Write(l, "open", e, {})

Enter(l, entry) ==
    /\ Open(l)
    /\ entry \notin line[l].entries
    /\ Needs(entry) \subseteq line[l].entries
    /\ Write(l, "open", line[l].email, line[l].entries \cup {entry})

Settle(l) ==
    /\ Open(l)
    /\ line[l].entries = Entries
    /\ Write(l, "settled", line[l].email, Entries)

Drop(l) ==
    /\ Open(l)
    /\ Write(l, "dropped", line[l].email, line[l].entries)

Entitle(e) ==
    /\ \E l \in Lines :
          Open(l) /\ line[l].email = e /\ "charge" \in line[l].entries
    /\ entitled' = entitled \cup {e}
    /\ UNCHANGED line

Leave(e) ==
    /\ entitled' = entitled \ {e}
    /\ UNCHANGED line

LedgerNext ==
    \/ \E l \in Lines :
          \/ \E e \in Emails : Begin(l, e)
          \/ \E entry \in Entries : Enter(l, entry)
          \/ Settle(l) \/ Drop(l)
    \/ \E e \in Emails : Entitle(e) \/ Leave(e)

LedgerSpec == LedgerInit /\ [][LedgerNext]_ledgerVars
===============================================================================
