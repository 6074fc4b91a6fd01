------------------------- MODULE PurchasesRefinement -------------------------
(* Purchases implements PurchaseLedger: the mapping.                        *)
EXTENDS Purchases

EntriesOf(r) ==
    {entry \in {"charge", "subscription", "invoice"} :
        \/ entry = "charge"       /\ charged[r] # None
        \/ entry = "subscription" /\ tsrSubscription[r] # None
        \/ entry = "invoice"      /\ tsrInvoice[r] # None}

\* The ledger's line of a request that buys; other requests have none.
LineOf(r) ==
    IF request[r].kind = "reader" \/ request[r].status \in {"idle", "refused"}
    THEN [state |-> "none", email |-> None, entries |-> {}]
    ELSE [state |-> CASE request[r].status = "running" -> "open"
                      [] request[r].status = "ok"      -> "settled"
                      [] OTHER                         -> "dropped",
          email |-> request[r].email, entries |-> EntriesOf(r)]

Ledger == INSTANCE PurchaseLedger WITH
    Lines    <- Requests,
    line     <- [r \in Requests |-> LineOf(r)],
    entitled <- {e \in Emails :
                   \E u \in FindByEmail(e) : users[u].access = "paid"}

\* Every behaviour of the purchase requests is one of the ledger: whatever
\* interleaves, fails or is abandoned, no money is taken twice for a form, no
\* row is saved without it, and nobody is told "successful" before both rows.
ImplementsLedger == Ledger!LedgerSpec
==============================================================================
