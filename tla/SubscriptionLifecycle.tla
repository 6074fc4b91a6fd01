------------------------ MODULE SubscriptionLifecycle ------------------------
(***************************************************************************)
(* One user's subscriptions after they were bought: Stripe renews them and *)
(* lets them lapse, the site's handlers change their plan, cancel them, or *)
(* make more of them, and an editor imports what Stripe knows.  Nobody     *)
(* tells the site what Stripe does: stripe_hooks prints the event.  What   *)
(* the site knows is in its rows, and what the user may read depends on    *)
(* the role and the access date of the user's row; all of these lag.       *)
(*                                                                         *)
(* A handler that calls Stripe and then commits is two steps or more, with *)
(* everything else in between, and it can die there.  Buying is modelled   *)
(* in detail in Purchases: here it is one step at Stripe and one at home.  *)
(*                                                                         *)
(* Time is counted in billing periods.  The Stripe account of Spain and    *)
(* the other one have keys of their own, and a handler takes the key from  *)
(* the country in the row of the subscription it is called for.            *)
(***************************************************************************)
EXTENDS Naturals, FiniteSets

CONSTANTS
    Requests,    \* the web requests
    Subs,        \* the subscriptions that Stripe may come to know
    Workers,     \* how many requests the web server handles at a time
    LastPeriod,  \* a bound: time stops there
    None         \* nothing there

ASSUME RequestsFinite    == IsFiniteSet(Requests)
ASSUME SubsFinite        == IsFiniteSet(Subs)
ASSUME WorkersAssumption == Workers \in Nat
ASSUME NoneNoSub         == None \notin Subs

VARIABLES
    now,        \* the billing period
    stripe,     \* subscriptions at Stripe
    row,        \* rows of table subscriptions, by the request that made them
    last,       \* what user.subscriptions.last returns
    role,       \* users.role
    access,     \* users.access_date, 0 when there is none
    request,    \* the requests: what they do, how far they are, their locals
    granted,    \* history: the latest end of a period that was given
    overlapped  \* history: the requests that were not alone

vars == <<now, stripe, row, last, role, access, request, granted, overlapped>>

-----------------------------------------------------------------------------
Accounts == {"spain", "uk"}
Plans    == {"one_story", "all_stories", "paused"}
Roles    == {"reader", "subscriber", "subscriber_one_story",
             "subscriber_all_stories", "subscriber_paused"}

\* born: the order in which Stripe got to know them.  ended: canceled_at.
StripeSub == [account : Accounts, plan : Plans, status : {"active", "canceled"},
              born : Nat, end : Nat, ended : Nat]

\* country picks the key: it need not be that of the subscription's account.
Row     == [country : Accounts, status : {"active", "canceled"}, end : Nat]

\* The last row created; the row of a pre-payment names no subscription.
LastRow == [sub : Subs \cup {None}, country : Accounts]

Tasks  == {"none", "buy", "change", "import", "other"}
Stages == {"here", "look", "create", "access", "end"}

\* sub: the subscription in hand.  end: the date in hand.  list, todo: what
\* Stripe listed for an import and what of it is left.  found: the row in hand.
RequestState ==
    [status : {"idle", "running", "ok", "failed"}, task : Tasks,
     stage : Stages, plan : Plans, sub : Subs \cup {None}, end : Nat,
     list : [Subs -> StripeSub \cup {None}], todo : SUBSET Subs,
     found : Requests \cup {None}]

ASSUME NoneAssumption ==
    /\ None \notin StripeSub \cup Row \cup LastRow
    /\ None \notin Requests

NoList == [s \in Subs |-> None]

IdleRequest ==
    [status |-> "idle", task |-> "none", stage |-> "here",
     plan |-> "all_stories", sub |-> None, end |-> 0, list |-> NoList,
     todo |-> {}, found |-> None]

Known   == {s \in Subs : stripe[s] # None}
Running == {r \in Requests : request[r].status = "running"}

RowsOf(s) == {r \in Requests : row[r][s] # None}

Max2(a, b) == IF a > b THEN a ELSE b

\* Where the period ends of what Stripe says of a subscription.
DateOf(sub) == IF sub.status = "canceled" THEN sub.ended ELSE sub.end

RoleOf(plan) ==
    CASE plan = "one_story"   -> "subscriber_one_story"
      [] plan = "all_stories" -> "subscriber_all_stories"
      [] OTHER                -> "subscriber_paused"

Init ==
    /\ now = 1
    /\ stripe = [s \in Subs |-> None]
    /\ row = [r \in Requests |-> [s \in Subs |-> None]]
    /\ last = None
    /\ role = "reader"
    /\ access = 0
    /\ request = [r \in Requests |-> IdleRequest]
    /\ granted = 0
    /\ overlapped = {}

-----------------------------------------------------------------------------
(* How requests start and end.                                             *)

\* A request starts with the first thing it does that others can see.
Start(r, state) ==
    /\ request[r].status = "idle"
    /\ Cardinality(Running) < Workers
    /\ request' = [request EXCEPT ![r] = state]
    /\ overlapped' = IF Running = {} THEN overlapped
                     ELSE overlapped \cup Running \cup {r}

Continue(r, state) ==
    /\ request' = [request EXCEPT ![r] = state]
    /\ UNCHANGED overlapped

InStage(r, task, stage) ==
    /\ request[r].status = "running"
    /\ request[r].task = task
    /\ request[r].stage = stage

\* An error or a lost reply of Stripe, a second redirect, the process's end.
Abandon(r) ==
    /\ request[r].status = "running"
    /\ Continue(r, [request[r] EXCEPT !.status = "failed"])
    /\ UNCHANGED <<now, stripe, row, last, role, access, granted>>

-----------------------------------------------------------------------------
(* Stripe's own steps.                                                     *)

NewSub(account, plan) ==
    [account |-> account, plan |-> plan, status |-> "active",
     born |-> Cardinality(Known) + 1, end |-> now + 1, ended |-> 0]

\* A subscription comes to be, with its first period.
Create(s, account, plan) ==
    /\ s \notin Known
    /\ stripe' = [stripe EXCEPT ![s] = NewSub(account, plan)]
    /\ granted' = Max2(granted, now + 1)

Active(s) == s \in Known /\ stripe[s].status = "active"

\* stripe_hooks prints the event and answers 200.
Renew(s) ==
    /\ Active(s)
    /\ stripe[s].end = now
    /\ stripe' = [stripe EXCEPT ![s].end = now + 1]
    /\ granted' = Max2(granted, now + 1)
    /\ UNCHANGED <<now, row, last, role, access, request, overlapped>>

\* The payment fails for good, or someone cancels on Stripe's own pages.
Lapse(s) ==
    /\ Active(s)
    /\ stripe' = [stripe EXCEPT ![s].status = "canceled", ![s].ended = now]
    /\ UNCHANGED <<now, row, last, role, access, request, granted, overlapped>>

\* By the end of a period Stripe has renewed or cancelled.
Tick ==
    /\ now < LastPeriod
    /\ \A s \in Subs : Active(s) => stripe[s].end > now
    /\ now' = now + 1
    /\ UNCHANGED <<stripe, row, last, role, access, request, granted, overlapped>>

-----------------------------------------------------------------------------
(* Buying.                                                                 *)

\* new_subscription: the charge ...
BuyAtStripe(r, s, account, plan) ==
    /\ plan # "paused"
    /\ Create(s, account, plan)
    /\ Start(r, [IdleRequest EXCEPT !.status = "running", !.task = "buy",
                                    !.sub = s, !.end = now + 1])
    /\ UNCHANGED <<now, row, last, role, access>>

NewRow(r, s, country, end, status) ==
    /\ row' = [row EXCEPT ![r][s] =
                  [country |-> country, status |-> status, end |-> end]]
    /\ last' = [sub |-> s, country |-> country]

\* Deliberate mistake: the date is reckoned here and not taken from Stripe.
BuyHereByClock(r) ==
    /\ InStage(r, "buy", "here")
    /\ role' = "subscriber"
    /\ access' = now + 1
    /\ NewRow(r, request[r].sub, stripe[request[r].sub].account,
              request[r].end, "active")
    /\ Continue(r, [request[r] EXCEPT !.status = "ok"])
    /\ UNCHANGED <<now, stripe, granted>>

\* ... and then the role, the access date and the row.
BuyHere(r) ==
    /\ InStage(r, "buy", "here")
    /\ role' = "subscriber"
    /\ access' = request[r].end
    /\ NewRow(r, request[r].sub, stripe[request[r].sub].account,
              request[r].end, "active")
    /\ Continue(r, [request[r] EXCEPT !.status = "ok"])
    /\ UNCHANGED <<now, stripe, granted>>

\* new_prepayment: the months are reckoned from now, whatever was bought.
Prepay(r, country) ==
    /\ Start(r, [IdleRequest EXCEPT !.status = "ok", !.task = "other"])
    /\ access' = now + 1
    /\ granted' = Max2(granted, now + 1)
    /\ role' = "subscriber"
    /\ last' = [sub |-> None, country |-> country]
    /\ UNCHANGED <<now, stripe, row>>

-----------------------------------------------------------------------------
(* Changing and cancelling.                                                *)

\* subscription_details finds the last row's subscription with the row's key.
Retrieved(s) ==
    /\ last # None
    /\ last.sub = s
    /\ s \in Known
    /\ stripe[s].account = last.country

\* Deliberate mistake: the new items are never saved.
ChangeNotSaved(r, s, plan) ==
    /\ Retrieved(s)
    /\ Active(s)
    /\ UNCHANGED stripe
    /\ Start(r, [IdleRequest EXCEPT
            !.status = "running", !.task = "change", !.plan = plan,
            !.sub = s, !.end = stripe[s].end])
    /\ UNCHANGED <<now, row, last, role, access, granted>>

\* one_story, all_stories, pause: the plan at Stripe, which refuses a
\* subscription that is over ...
ChangeAtStripe(r, s, plan) ==
    /\ Retrieved(s)
    /\ Active(s)
    /\ stripe' = [stripe EXCEPT ![s].plan = plan]
    /\ Start(r, [IdleRequest EXCEPT
            !.status = "running", !.task = "change", !.plan = plan,
            !.sub = s, !.end = stripe[s].end])
    /\ UNCHANGED <<now, row, last, role, access, granted>>

\* ... and then role and access date.  The plan in the row stays as it was.
ChangeHere(r) ==
    /\ InStage(r, "change", "here")
    /\ role' = RoleOf(request[r].plan)
    /\ access' = IF request[r].plan = "paused" THEN now ELSE request[r].end
    /\ Continue(r, [request[r] EXCEPT !.status = "ok"])
    /\ UNCHANGED <<now, stripe, row, last, granted>>

\* Deliberate mistake: the row is marked although Stripe was not asked.
CancelRowToo(r, s) ==
    /\ s \in Known
    /\ Start(r, [IdleRequest EXCEPT !.status = "ok", !.task = "other"])
    /\ row' = [m \in Requests |-> [row[m] EXCEPT ![s] =
                  IF @ = None THEN None ELSE [@ EXCEPT !.status = "canceled"]]]
    /\ UNCHANGED <<now, stripe, last, role, access, granted>>

\* cancel_subscription: found with the default key only.  It sets is_active of
\* the row, which nothing reads, and leaves status, role and access alone.
CancelSubscription(r, s) ==
    /\ Active(s)
    /\ stripe[s].account = "uk"
    /\ RowsOf(s) # {}
    /\ stripe' = [stripe EXCEPT ![s].status = "canceled", ![s].ended = now]
    /\ Start(r, [IdleRequest EXCEPT !.status = "ok", !.task = "other"])
    /\ UNCHANGED <<now, row, last, role, access, granted>>

\* resubscribe_all: for the customer in the column that is not Spain's, with
\* the key of the last row; no row, no role and no access date come of it.
ResubscribeAll(r, s, old) ==
    /\ Retrieved(old)
    /\ stripe[old].account = "uk"
    /\ Create(s, "uk", "all_stories")
    /\ Start(r, [IdleRequest EXCEPT !.status = "ok", !.task = "other"])
    /\ UNCHANGED <<now, row, last, role, access>>

-----------------------------------------------------------------------------
(* get_subscription_history.                                               *)

Listed(account) ==
    [s \in Subs |->
        IF s \in Known /\ stripe[s].account = account THEN stripe[s] ELSE None]

InList(list) == {s \in Subs : list[s] # None}

\* The customer that is not Spain's, listed with the key of the last row.
ImportList(r, s) ==
    /\ Retrieved(s)
    /\ stripe[s].account = "uk"
    /\ Start(r, [IdleRequest EXCEPT
            !.status = "running", !.task = "import", !.stage = "look",
            !.list = Listed("uk"), !.todo = InList(Listed("uk"))])
    /\ UNCHANGED <<now, stripe, row, last, role, access, granted>>

\* Deliberate mistake: the oldest comes first.
NextInOldestFirst(r) ==
    {s \in request[r].todo : \A t \in request[r].todo :
        request[r].list[s].born <= request[r].list[t].born}

\* Stripe lists the newest first.
NextIn(r) ==
    {s \in request[r].todo : \A t \in request[r].todo :
        request[r].list[t].born <= request[r].list[s].born}

\* Deliberate mistake: a row is made whether there is one or not.
ImportLookNotAtAll(r, s) ==
    /\ InStage(r, "import", "look")
    /\ s \in NextIn(r)
    /\ Continue(r, [request[r] EXCEPT !.sub = s, !.stage = "create"])
    /\ UNCHANGED <<now, stripe, row, last, role, access, granted>>

\* Is there a row for the next of the list?  If so its status is brought up to
\* date; of two rows, the database says which one is found.
ImportLook(r, s) ==
    /\ InStage(r, "import", "look")
    /\ s \in NextIn(r)
    /\ \/ /\ RowsOf(s) = {}
          /\ Continue(r, [request[r] EXCEPT !.sub = s, !.stage = "create"])
          /\ UNCHANGED row
       \/ \E m \in RowsOf(s) :
          /\ row' = [row EXCEPT ![m][s].status = request[r].list[s].status]
          /\ Continue(r, [request[r] EXCEPT !.sub = s, !.stage = "access",
                                            !.found = m])
    /\ UNCHANGED <<now, stripe, last, role, access, granted>>

\* The row's country is the one of the card, whatever account the key was of.
ImportCreate(r, country) ==
    LET s == request[r].sub IN
    /\ InStage(r, "import", "create")
    /\ NewRow(r, s, country, request[r].list[s].end, request[r].list[s].status)
    /\ Continue(r, [request[r] EXCEPT !.stage = "look", !.todo = @ \ {s}])
    /\ UNCHANGED <<now, stripe, role, access, granted>>

ImportAccess(r) ==
    /\ InStage(r, "import", "access")
    /\ access' = DateOf(request[r].list[request[r].sub])
    /\ Continue(r, [request[r] EXCEPT !.stage = "end"])
    /\ UNCHANGED <<now, stripe, row, last, role, granted>>

ImportEnd(r) ==
    LET s == request[r].sub IN
    /\ InStage(r, "import", "end")
    /\ row' = [row EXCEPT ![request[r].found][s].end = DateOf(request[r].list[s])]
    /\ Continue(r, [request[r] EXCEPT !.stage = "look", !.todo = @ \ {s}])
    /\ UNCHANGED <<now, stripe, last, role, access, granted>>

\* The invoices follow, of which InvoiceNumbers tells; then the answer.
ImportDone(r) ==
    /\ InStage(r, "import", "look")
    /\ request[r].todo = {}
    /\ Continue(r, [request[r] EXCEPT !.status = "ok"])
    /\ UNCHANGED <<now, stripe, row, last, role, access, granted>>

-----------------------------------------------------------------------------
Buying(r) ==
    \/ \E s \in Subs, account \in Accounts, plan \in Plans :
          BuyAtStripe(r, s, account, plan)
    \/ BuyHere(r)
    \/ \E country \in Accounts : Prepay(r, country)

Changing(r) ==
    \/ \E s \in Subs, plan \in Plans : ChangeAtStripe(r, s, plan)
    \/ ChangeHere(r)
    \/ \E s \in Subs : CancelSubscription(r, s)
    \/ \E s, old \in Subs : ResubscribeAll(r, s, old)

Importing(r) ==
    \/ \E s \in Subs : ImportList(r, s) \/ ImportLook(r, s)
    \/ \E country \in Accounts : ImportCreate(r, country)
    \/ ImportAccess(r) \/ ImportEnd(r) \/ ImportDone(r)

Next ==
    \/ \E r \in Requests :
          Buying(r) \/ Changing(r) \/ Importing(r) \/ Abandon(r)
    \/ \E s \in Subs : Renew(s) \/ Lapse(s)
    \/ Tick

Spec == Init /\ [][Next]_vars

-----------------------------------------------------------------------------
(* What must hold.                                                         *)

\* Every variable keeps its type.
TypeOK ==
    /\ now \in Nat
    /\ stripe \in [Subs -> StripeSub \cup {None}]
    /\ row \in [Requests -> [Subs -> Row \cup {None}]]
    /\ last \in LastRow \cup {None}
    /\ role \in Roles
    /\ access \in Nat
    /\ request \in [Requests -> RequestState]
    /\ granted \in Nat
    /\ overlapped \subseteq Requests

\* However late and in whatever order handlers, imports and Stripe act, the
\* user's access date is never past the last period that was given: the lag is
\* always to the user's loss or within what was bought.
AccessGranted == access <= Max2(granted, now)

\* What the site believes of a subscription is something Stripe has said: a row
\* that is canceled is so at Stripe, where it is final, and no row promises a
\* period that Stripe has not begun.
RowsLagBehind ==
    \A r \in Requests, s \in Subs : row[r][s] # None =>
        /\ s \in Known
        /\ row[r][s].status = "canceled" => stripe[s].status = "canceled"
        /\ row[r][s].end <= stripe[s].end

\* Imports and purchases that overlap make several rows for one subscription,
\* because nothing but a query before the insert prevents it: never more of
\* them than the server handles requests, however many are handled in all.
CopiesNeedOverlap == \A s \in Subs : Cardinality(RowsOf(s)) <= Workers

\* The role is that of a plan at Stripe, unless a change was interrupted
\* between the two, or did not have the server for itself.
RoleFollowsPlan ==
    \/ \E r \in Requests :
          /\ request[r].task = "change"
          /\ r \in overlapped \/ request[r].status \in {"running", "failed"}
    \/ \A plan \in Plans :
          role = RoleOf(plan) => \E s \in Known : stripe[s].plan = plan

\* The subscriptions of an import's list that had a row before it.
HadRow(r) ==
    {s \in InList(request[r].list) : RowsOf(s) \ {r} # {}}

\* An import that is alone leaves the access date of the oldest subscription
\* it has found a row for, be that one over and a younger one paid for: the
\* loop goes on to the end of a list that begins with the newest.
OldestDecides ==
    [][\A r \in Requests :
          /\ request[r].task = "import"
          /\ request[r].status = "running"
          /\ request'[r].status = "ok"
          /\ r \notin overlapped
          /\ HadRow(r) # {}
          => \E s \in HadRow(r) :
                /\ \A t \in HadRow(r) :
                      request[r].list[s].born <= request[r].list[t].born
                /\ access = DateOf(request[r].list[s])]_vars
=============================================================================
