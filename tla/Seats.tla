------------------------------- MODULE Seats -------------------------------
(***************************************************************************)
(* Subscriptions that are shared.  Who buys one becomes the boss of an     *)
(* account, and may link others to the seats of the subscription from the  *)
(* page users/edit, unlink them, and buy more seats.  Whether a seat is    *)
(* left is looked up when the page is drawn and never again, the form      *)
(* takes any e-mail, and the new number of seats goes to Stripe first and  *)
(* then into the row.                                                      *)
(*                                                                         *)
(* A request here is a page with a form and what comes of sending it, once.*)
(* When it is over the same request serves for another page, so that       *)
(* sequences of any length are covered.  Users are known by their e-mails. *)
(* Buying is modelled in detail in Purchases; of it only the charge,       *)
(* user_account and the row are here.  The plans, which decide between     *)
(* kinds of subscriber, and the access dates are left out, and so are      *)
(* cancelled subscriptions, for which no form is drawn any more.           *)
(***************************************************************************)
EXTENDS Naturals, FiniteSets

CONSTANTS
    Requests,  \* pages and handlers that are there at the same time
    Emails,    \* the people
    Subs,      \* the subscriptions there may be
    Accounts,  \* the accounts there may be
    MaxSeats,  \* the most seats a form asks for
    None       \* nothing there

ASSUME EmailsFinite  == IsFiniteSet(Emails)
ASSUME SeatsAssumption == MaxSeats \in Nat
ASSUME NoneIsNothing == None \notin Emails \cup Subs \cup Accounts

VARIABLES
    user,       \* rows of table users
    row,        \* rows of table subscriptions
    stripe,     \* the quantity of a subscription at Stripe, 0 before it is
    used,       \* accounts that have been made
    request,    \* the pages and handlers
    strained,   \* history: subscriptions whose seats a stale page, or a lower
                \* number of seats, may have exceeded
    unsettled,  \* history: subscriptions whose seats were bought by two
                \* forms at once, or by one that failed half-way, and have not
                \* been set right since
    displaced   \* history: subscriptions whose buyer was linked, unlinked or
                \* gone after they were paid for

vars == <<user, row, stripe, used, request, strained, unsettled, displaced>>

-----------------------------------------------------------------------------
Quantities == 1 .. MaxSeats

\* account_id, account_role, account_subscription_id, which nothing reads but
\* for members, and whether the role is one of a subscriber's.
UserRow ==
    [account : Accounts \cup {None}, accountRole : {"none", "boss", "member"},
     sub : Subs \cup {None}, subscriber : BOOLEAN]

\* The owner is nobody after they have unsubscribed.
Row == [owner : Emails \cup {None}, seats : Quantities]

Tasks  == {"none", "buy", "link", "unlink", "buyMore"}
Stages == {"page", "account", "newAccount", "row", "update", "here"}

\* email: whom the form is about.  account, seen, seats: what the page of a form
\* for linking was drawn with.  quantity: the seats asked for.
RequestState ==
    [task : Tasks, stage : Stages, email : Emails \cup {None},
     sub : Subs \cup {None}, account : Accounts \cup {None},
     seen : SUBSET Emails, seats : Nat, quantity : Quantities \cup {0}]

ASSUME NoneAssumption == None \notin UserRow \cup Row

Idle ==
    [task |-> "none", stage |-> "page", email |-> None, sub |-> None,
     account |-> None, seen |-> {}, seats |-> 0, quantity |-> 0]

NewUser ==
    [account |-> None, accountRole |-> "none", sub |-> None, subscriber |-> FALSE]

Exists(e) == user[e] # None
Bought(s) == row[s] # None

\* What somebody owns or has just paid for.
BoughtBy(e) ==
    {s \in Subs :
        \/ Bought(s) /\ row[s].owner = e
        \/ \E r \in Requests :
              request[r].task = "buy" /\ request[r].sub = s /\ request[r].email = e}

\* Whom the row of a subscription, or only its account, counts.
MembersOf(s) ==
    {e \in Emails :
        Exists(e) /\ user[e].accountRole = "member" /\ user[e].sub = s}
MembersIn(a, s) == {e \in MembersOf(s) : user[e].account = a}

Init ==
    /\ user = [e \in Emails |-> None]
    /\ row = [s \in Subs |-> None]
    /\ stripe = [s \in Subs |-> 0]
    /\ used = {}
    /\ request = [r \in Requests |-> Idle]
    /\ strained = {}
    /\ unsettled = {}
    /\ displaced = {}

-----------------------------------------------------------------------------
Is(r, task, stage) == request[r].task = task /\ request[r].stage = stage

Goes(r, state) == request' = [request EXCEPT ![r] = state]

\* An error, a page that is closed, the end of the process.
Abandon(r) ==
    /\ request[r].task # "none"
    /\ Goes(r, Idle)
    /\ unsettled' = IF Is(r, "buyMore", "here")
                    THEN unsettled \cup {request[r].sub} ELSE unsettled
    /\ UNCHANGED <<user, row, stripe, used, strained, displaced>>

-----------------------------------------------------------------------------
(* Buying.                                                                 *)

\* new_subscription: the user is there, has paid and has a subscriber's role.
Buy(r, e, s, quantity) ==
    /\ request[r] = Idle
    /\ stripe[s] = 0
    /\ stripe' = [stripe EXCEPT ![s] = quantity]
    /\ user' = [user EXCEPT ![e] =
           IF Exists(e) THEN [@ EXCEPT !.subscriber = TRUE]
           ELSE [NewUser EXCEPT !.subscriber = TRUE]]
    /\ Goes(r, [Idle EXCEPT !.task = "buy", !.stage = "account", !.email = e,
                            !.sub = s, !.quantity = quantity])
    /\ UNCHANGED <<row, used, strained, unsettled, displaced>>

\* What comes after user_account: the row of a purchase, or the answer.
AfterAccount(r) ==
    IF request[r].task = "buy" THEN [request[r] EXCEPT !.stage = "row"] ELSE Idle

\* Deliberate mistake: the role of a member is left as it is.
KeepAccountAndRole(r) ==
    LET e == request[r].email IN
    /\ request[r].stage = "account"
    /\ Exists(e)
    /\ user[e].account # None
    /\ Goes(r, AfterAccount(r))
    /\ UNCHANGED <<user, row, stripe, used, strained, unsettled, displaced>>

\* user_account: a user with an account becomes its boss, whosever it is.
KeepAccount(r) ==
    LET e == request[r].email IN
    /\ request[r].stage = "account"
    /\ Exists(e)
    /\ user[e].account # None
    /\ user' = [user EXCEPT ![e].accountRole = "boss", ![e].sub = None]
    /\ Goes(r, AfterAccount(r))
    /\ UNCHANGED <<row, stripe, used, strained, unsettled, displaced>>

\* One without an account, and nobody too, has one made ...
CreateAccount(r, a) ==
    LET e == request[r].email IN
    /\ request[r].stage = "account"
    /\ Exists(e) => user[e].account = None
    /\ a \notin used
    /\ used' = used \cup {a}
    /\ Goes(r, [request[r] EXCEPT !.stage = "newAccount", !.account = a])
    /\ UNCHANGED <<user, row, stripe, strained, unsettled, displaced>>

\* ... and is put into it.
LinkAccount(r) ==
    LET e == request[r].email IN
    /\ request[r].stage = "newAccount"
    /\ Exists(e)
    /\ user' = [user EXCEPT ![e].account = request[r].account,
                            ![e].accountRole = "boss"]
    /\ Goes(r, AfterAccount(r))
    /\ UNCHANGED <<row, stripe, used, strained, unsettled, displaced>>

\* create_tsr_subscription_invoice.
NewRow(r) ==
    LET q == request[r] IN
    /\ Is(r, "buy", "row")
    /\ Exists(q.email)
    /\ row' = [row EXCEPT ![q.sub] = [owner |-> q.email, seats |-> q.quantity]]
    /\ Goes(r, Idle)
    /\ UNCHANGED <<user, stripe, used, strained, unsettled, displaced>>

-----------------------------------------------------------------------------
(* The page of the owner of a subscription, and its forms.                 *)

\* Deliberate mistake: the boss's own seat is forgotten.
SeatLeftForgetsBoss(seats, members) == seats > Cardinality(members)

\* Is "Add User" drawn?
SeatLeft(seats, members) == seats > Cardinality(members) + 1

\* A page that shows the subscription can be drawn.
Open(s) == Bought(s) /\ row[s].owner # None

\* The page speaks of members when its user is a boss.
BossPage(r, s, state) ==
    /\ request[r] = Idle
    /\ Open(s)
    /\ user[row[s].owner].accountRole = "boss"
    /\ Goes(r, state)
    /\ UNCHANGED <<user, row, stripe, used, strained, unsettled, displaced>>

DrawLink(r, s) ==
    LET a == user[row[s].owner].account IN
    /\ Open(s)
    /\ SeatLeft(row[s].seats, MembersIn(a, s))
    /\ BossPage(r, s, [Idle EXCEPT
            !.task = "link", !.sub = s, !.account = a,
            !.seen = MembersIn(a, s), !.seats = row[s].seats])

DrawUnlink(r, s, e) ==
    /\ Open(s)
    /\ e \in MembersIn(user[row[s].owner].account, s)
    /\ BossPage(r, s, [Idle EXCEPT !.task = "unlink", !.email = e])

\* This one is for owners who are not bosses, too.
DrawBuyMore(r, s) ==
    /\ request[r] = Idle
    /\ Open(s)
    /\ Goes(r, [Idle EXCEPT !.task = "buyMore", !.email = row[s].owner, !.sub = s])
    /\ UNCHANGED <<user, row, stripe, used, strained, unsettled, displaced>>

\* link_by_account_boss: makes the user when there is none ...
LinkFind(r, e) ==
    /\ Is(r, "link", "page")
    /\ user' = [user EXCEPT ![e] = IF Exists(e) THEN @ ELSE NewUser]
    /\ Goes(r, [request[r] EXCEPT !.stage = "update", !.email = e])
    /\ UNCHANGED <<row, stripe, used, strained, unsettled, displaced>>

\* ... and overwrites account, role and subscription of whoever it is.
LinkUpdate(r) ==
    LET q == request[r] IN
    /\ Is(r, "link", "update")
    /\ Exists(q.email)
    /\ user' = [user EXCEPT ![q.email] =
           [account |-> q.account, accountRole |-> "member", sub |-> q.sub,
            subscriber |-> TRUE]]
    /\ displaced' = displaced \cup BoughtBy(q.email)
    /\ strained' = IF q.seen # MembersOf(q.sub) \/ q.seats # row[q.sub].seats
                   THEN strained \cup {q.sub} ELSE strained
    /\ Goes(r, Idle)
    /\ UNCHANGED <<row, stripe, used, unsettled>>

\* unlink_by_account_boss.
Unlink(r) ==
    LET e == request[r].email IN
    /\ Is(r, "unlink", "page")
    /\ Exists(e)
    /\ user' = [user EXCEPT ![e] = NewUser]
    /\ displaced' = displaced \cup BoughtBy(e)
    /\ Goes(r, Idle)
    /\ UNCHANGED <<row, stripe, used, strained, unsettled>>

\* Forms for more seats that Stripe knows of, and the row does not yet.
HalfWay(s) ==
    {r \in Requests : Is(r, "buyMore", "here") /\ request[r].sub = s}

\* buy_more_users: the total number of seats, at Stripe ...
BuyMoreAtStripe(r, quantity) ==
    LET s == request[r].sub IN
    /\ Is(r, "buyMore", "page")
    /\ stripe' = [stripe EXCEPT ![s] = quantity]
    /\ unsettled' = IF HalfWay(s) # {} THEN unsettled \cup {s} ELSE unsettled
    /\ Goes(r, [request[r] EXCEPT !.stage = "here", !.quantity = quantity])
    /\ UNCHANGED <<user, row, used, strained, displaced>>

\* Deliberate mistake: the discount is updated and the quantity is not.
BuyMoreHereNoQuantity(r) ==
    /\ Is(r, "buyMore", "here")
    /\ Goes(r, [request[r] EXCEPT !.stage = "account"])
    /\ UNCHANGED <<user, row, stripe, used, strained, unsettled, displaced>>

\* ... and in the row.  user_account follows.
BuyMoreHere(r) ==
    LET q == request[r] IN
    /\ Is(r, "buyMore", "here")
    /\ row' = [row EXCEPT ![q.sub].seats = q.quantity]
    /\ strained' = IF q.quantity < row[q.sub].seats
                   THEN strained \cup {q.sub} ELSE strained
    /\ unsettled' = IF HalfWay(q.sub) = {r} /\ q.quantity = stripe[q.sub]
                    THEN unsettled \ {q.sub} ELSE unsettled
    /\ Goes(r, [q EXCEPT !.stage = "account"])
    /\ UNCHANGED <<user, stripe, used, displaced>>

-----------------------------------------------------------------------------
(* What others do.                                                         *)

\* unsubscribe: the row is deleted for all purposes, the e-mail is free again.
Unsubscribe(e) ==
    /\ Exists(e)
    /\ user' = [user EXCEPT ![e] = None]
    /\ row' = [s \in Subs |->
           IF Bought(s) /\ row[s].owner = e
           THEN [row[s] EXCEPT !.owner = None] ELSE row[s]]
    /\ displaced' = displaced \cup BoughtBy(e)
    /\ UNCHANGED <<stripe, used, request, strained, unsettled>>

-----------------------------------------------------------------------------
Buying(r) ==
    \/ \E e \in Emails, s \in Subs, quantity \in Quantities :
          Buy(r, e, s, quantity)
    \/ NewRow(r)

UserAccount(r) ==
    \/ KeepAccount(r)
    \/ \E a \in Accounts : CreateAccount(r, a)
    \/ LinkAccount(r)

Drawing(r) ==
    \E s \in Subs :
        \/ DrawLink(r, s)
        \/ \E e \in Emails : DrawUnlink(r, s, e)
        \/ DrawBuyMore(r, s)

Sending(r) ==
    \/ \E e \in Emails : LinkFind(r, e)
    \/ LinkUpdate(r)
    \/ Unlink(r)
    \/ \E quantity \in Quantities : BuyMoreAtStripe(r, quantity)
    \/ BuyMoreHere(r)

Next ==
    \/ \E r \in Requests :
          Buying(r) \/ UserAccount(r) \/ Drawing(r) \/ Sending(r) \/ Abandon(r)
    \/ \E e \in Emails : Unsubscribe(e)

Spec == Init /\ [][Next]_vars

-----------------------------------------------------------------------------
(* What must hold.                                                         *)

\* Every variable keeps its type.
TypeOK ==
    /\ user \in [Emails -> UserRow \cup {None}]
    /\ row \in [Subs -> Row \cup {None}]
    /\ stripe \in [Subs -> Quantities \cup {0}]
    /\ used \subseteq Accounts
    /\ request \in [Requests -> RequestState]
    /\ strained \subseteq Subs
    /\ unsettled \subseteq Subs
    /\ displaced \subseteq Subs

\* Members and the owner do not exceed the seats in the row, although they are
\* counted only when a page is drawn, in the owner's present account, and the
\* form of the page is handled later: unless a page had become untrue by then,
\* or somebody has lowered the number of seats.
SeatsRespected ==
    \A s \in Subs \ strained :
        Bought(s) => Cardinality(MembersOf(s)) + 1 <= row[s].seats

\* Stripe is paid for the number of seats that the site gives, except between
\* the two halves of buy_more_users, and where these were interrupted or mixed
\* with another's.
SeatsArePaid ==
    \A s \in Subs \ unsettled :
        Bought(s) => \/ row[s].seats = stripe[s]
                     \/ HalfWay(s) # {}

\* Whoever owns a subscription has a subscriber's role and is the boss of an
\* account, also when they were a member of somebody else's before, until
\* somebody links or unlinks them: then they pay, and can link nobody, or may
\* not even read.
PayersAreBosses ==
    \A s \in Subs \ displaced :
        Bought(s)
            => /\ Exists(row[s].owner)
               /\ user[row[s].owner].accountRole = "boss"
               /\ user[row[s].owner].account # None
               /\ user[row[s].owner].subscriber
=============================================================================
