---------------------- MODULE SubscriptionLifecycleProofs ----------------------
(***************************************************************************)
(* Proofs about SubscriptionLifecycle, for any numbers of requests,        *)
(* subscriptions, workers and periods.                                     *)
(*                                                                         *)
(* Everything that the site writes about a subscription it has from Stripe,*)
(* but from an earlier state of Stripe: in a request's locals, or in the   *)
(* list of an import.  HeldSane says that what a request holds is no later *)
(* than what Stripe says now, and it stays so because at Stripe a period   *)
(* only moves forward and a cancellation is final (StripeMoves).           *)
(*                                                                         *)
(* Copies of a row are counted together with the requests that are about   *)
(* to make one: the sum cannot grow once there is a row, and before that   *)
(* it is a number of running requests.                                     *)
(***************************************************************************)
EXTENDS SubscriptionLifecycle, FiniteSetTheorems, TLAPS

RunningBounded == Cardinality(Running) <= Workers

StripeSane ==
    \A s \in Known :
        /\ stripe[s].end <= granted
        /\ stripe[s].ended <= stripe[s].end
        /\ stripe[s].status = "active" => now <= stripe[s].end

\* A member of a list, against the same subscription now.
Outdated(snapshot, sub) ==
    /\ snapshot.end <= sub.end
    /\ snapshot.ended <= snapshot.end
    /\ snapshot.status = "canceled" => sub.status = "canceled"

InProgress(q, task) == q.status = "running" /\ q.task = task

Held(q) ==
    /\ q.end <= granted
    /\ \A s \in InList(q.list) : s \in Known /\ Outdated(q.list[s], stripe[s])
    /\ q.todo \subseteq InList(q.list)
    /\ InProgress(q, "import") /\ q.stage \in {"create", "access", "end"}
          => q.sub \in InList(q.list)
    /\ InProgress(q, "import") /\ q.stage \in {"access", "end"}
          => q.found \in RowsOf(q.sub)
    /\ InProgress(q, "buy")
          => q.sub \in Known /\ q.end <= stripe[q.sub].end

HeldSane == \A r \in Requests : Held(request[r])

\* About to make a row for s.
Making(q, s) ==
    /\ q.sub = s
    /\ \/ InProgress(q, "buy")
       \/ InProgress(q, "import") /\ q.stage = "create"

Makers(s) == {r \in Requests : Making(request[r], s)}

MakersBounded == \A s \in Subs : Cardinality(RowsOf(s) \cup Makers(s)) <= Workers

IInv ==
    /\ TypeOK
    /\ RunningBounded
    /\ StripeSane
    /\ HeldSane
    /\ RowsLagBehind
    /\ MakersBounded
    /\ AccessGranted

-----------------------------------------------------------------------------
(* Types.                                                                  *)

LEMMA RequestTyped ==
    ASSUME TypeOK, NEW r \in Requests
    PROVE  request[r] \in RequestState
BY DEF TypeOK

LEMMA ListedType ==
    ASSUME TypeOK, NEW account
    PROVE  /\ Listed(account) \in [Subs -> StripeSub \cup {None}]
           /\ InList(Listed(account)) \subseteq Known
BY DEF TypeOK, Listed, InList, Known

LEMMA KnownType ==
    ASSUME TypeOK, NEW s \in Known
    PROVE  s \in Subs /\ stripe[s] \in StripeSub
BY DEF TypeOK, Known

LEMMA IdleType == IdleRequest \in RequestState
BY DEF IdleRequest, RequestState, NoList, Tasks, Stages, Plans

\* What the handlers start with.
LEMMA BoughtType ==
    ASSUME NEW s \in Subs, NEW end \in Nat
    PROVE  [IdleRequest EXCEPT !.status = "running", !.task = "buy",
                               !.sub = s, !.end = end] \in RequestState
BY DEF IdleRequest, RequestState, NoList, Tasks, Stages, Plans

LEMMA ChangedType ==
    ASSUME NEW s \in Subs, NEW end \in Nat, NEW plan \in Plans
    PROVE  [IdleRequest EXCEPT !.status = "running", !.task = "change",
                    !.plan = plan, !.sub = s, !.end = end] \in RequestState
BY DEF IdleRequest, RequestState, NoList, Tasks, Stages, Plans

LEMMA ListingType ==
    ASSUME NEW list \in [Subs -> StripeSub \cup {None}], NEW todo \in SUBSET Subs
    PROVE  [IdleRequest EXCEPT !.status = "running", !.task = "import",
                    !.stage = "look", !.list = list, !.todo = todo]
               \in RequestState
BY DEF IdleRequest, RequestState, NoList, Tasks, Stages, Plans

LEMMA DoneType ==
    [IdleRequest EXCEPT !.status = "ok", !.task = "other"] \in RequestState
BY DEF IdleRequest, RequestState, NoList, Tasks, Stages, Plans

\* What they go on with.
LEMMA ContinuedType ==
    ASSUME NEW q \in RequestState
    PROVE  /\ [q EXCEPT !.status = "failed"] \in RequestState
           /\ [q EXCEPT !.status = "ok"] \in RequestState
           /\ [q EXCEPT !.stage = "end"] \in RequestState
           /\ \A todo \in SUBSET Subs :
                 [q EXCEPT !.stage = "look", !.todo = todo] \in RequestState
           /\ \A s \in Subs :
                 [q EXCEPT !.sub = s, !.stage = "create"] \in RequestState
           /\ \A s \in Subs, m \in Requests :
                 [q EXCEPT !.sub = s, !.stage = "access", !.found = m]
                     \in RequestState
<1>1. [q EXCEPT !.status = "failed"] \in RequestState
  BY DEF RequestState
<1>2. [q EXCEPT !.status = "ok"] \in RequestState
  BY DEF RequestState
<1>3. [q EXCEPT !.stage = "end"] \in RequestState
  BY DEF RequestState, Stages
<1>4. \A todo \in SUBSET Subs :
          [q EXCEPT !.stage = "look", !.todo = todo] \in RequestState
  BY DEF RequestState, Stages
<1>5. \A s \in Subs : [q EXCEPT !.sub = s, !.stage = "create"] \in RequestState
  BY DEF RequestState, Stages
<1>6. \A s \in Subs, m \in Requests :
          [q EXCEPT !.sub = s, !.stage = "access", !.found = m] \in RequestState
  BY DEF RequestState, Stages
<1>7. QED
  BY <1>1, <1>2, <1>3, <1>4, <1>5, <1>6

LEMMA RequestType ==
    ASSUME TypeOK, NEW r \in Requests, NEW state \in RequestState,
           Start(r, state) \/ Continue(r, state)
    PROVE  /\ request' \in [Requests -> RequestState]
           /\ overlapped' \subseteq Requests
           /\ request'[r] = state
           /\ \A x \in Requests \ {r} : request'[x] = request[x]
BY DEF Start, Continue, TypeOK, Running

LEMMA NewSubType ==
    ASSUME TypeOK, NEW account \in Accounts, NEW plan \in Plans
    PROVE  NewSub(account, plan) \in StripeSub
<1>1. Cardinality(Known) + 1 \in Nat
  BY SubsFinite, FS_Subset, FS_CardinalityType DEF Known
<1>2. QED
  BY <1>1 DEF NewSub, StripeSub, TypeOK

LEMMA CreateType ==
    ASSUME TypeOK, NEW s \in Subs, NEW account \in Accounts, NEW plan \in Plans,
           Create(s, account, plan)
    PROVE  /\ stripe' \in [Subs -> StripeSub \cup {None}]
           /\ granted' \in Nat
BY NewSubType DEF Create, TypeOK, Max2

LEMMA NewRowType ==
    ASSUME TypeOK, NEW r \in Requests, NEW s \in Subs,
           NEW country \in Accounts, NEW end \in Nat,
           NEW status \in {"active", "canceled"},
           NewRow(r, s, country, end, status)
    PROVE  /\ row' \in [Requests -> [Subs -> Row \cup {None}]]
           /\ last' \in LastRow
BY DEF NewRow, TypeOK, Row, LastRow

LEMMA InitType == Init => TypeOK
BY IdleType DEF Init, TypeOK, Roles

LEMMA StripeType ==
    ASSUME TypeOK, NEW s \in Subs, Renew(s) \/ Lapse(s)
    PROVE  TypeOK'
<1>1. stripe[s] \in StripeSub
  BY KnownType DEF Renew, Lapse, Active, Known
<1>2. CASE Renew(s)
  <2>1. [stripe[s] EXCEPT !.end = now + 1] \in StripeSub
    BY <1>1 DEF StripeSub, TypeOK
  <2>2. stripe' \in [Subs -> StripeSub \cup {None}]
    BY <1>2, <2>1 DEF Renew, TypeOK
  <2>3. granted' \in Nat
    BY <1>2 DEF Renew, TypeOK, Max2
  <2>4. QED
    BY <1>2, <2>2, <2>3 DEF Renew, TypeOK
<1>3. CASE Lapse(s)
  <2>1. [stripe[s] EXCEPT !.status = "canceled", !.ended = now] \in StripeSub
    BY <1>1 DEF StripeSub, TypeOK
  <2>2. stripe' \in [Subs -> StripeSub \cup {None}]
    BY <1>3, <2>1 DEF Lapse, TypeOK
  <2>3. QED
    BY <1>3, <2>2 DEF Lapse, TypeOK
<1>4. QED
  BY <1>2, <1>3

LEMMA BuyingType ==
    ASSUME IInv, NEW r \in Requests, Buying(r)
    PROVE  TypeOK'
<1>1. TypeOK /\ now + 1 \in Nat
  BY DEF IInv, TypeOK
<1>2. ASSUME NEW s \in Subs, NEW account \in Accounts, NEW plan \in Plans,
             BuyAtStripe(r, s, account, plan)
      PROVE  TypeOK'
  BY <1>1, <1>2, BoughtType, RequestType, CreateType DEF BuyAtStripe, TypeOK
<1>3. CASE BuyHere(r)
  <2>1. /\ request[r] \in RequestState
        /\ request[r].sub \in Known
        /\ stripe[request[r].sub].account \in Accounts
        /\ request[r].end \in Nat
    BY <1>1, <1>3, RequestTyped, KnownType
       DEF BuyHere, InStage, IInv, HeldSane, Held, InProgress, RequestState,
           StripeSub
  <2>2. row' \in [Requests -> [Subs -> Row \cup {None}]] /\ last' \in LastRow
    BY <1>1, <1>3, <2>1, KnownType, NewRowType DEF BuyHere
  <2>3. request' \in [Requests -> RequestState] /\ overlapped' \subseteq Requests
    BY <1>1, <1>3, <2>1, ContinuedType, RequestType DEF BuyHere
  <2>4. QED
    BY <1>1, <1>3, <2>1, <2>2, <2>3 DEF BuyHere, TypeOK, Roles
<1>4. ASSUME NEW country \in Accounts, Prepay(r, country)
      PROVE  TypeOK'
  <2>1. request' \in [Requests -> RequestState] /\ overlapped' \subseteq Requests
    BY <1>1, <1>4, DoneType, RequestType DEF Prepay
  <2>2. granted' \in Nat /\ last' \in LastRow
    BY <1>1, <1>4 DEF Prepay, Max2, LastRow, TypeOK
  <2>3. QED
    BY <1>1, <1>4, <2>1, <2>2 DEF Prepay, TypeOK, Roles
<1>5. QED
  BY <1>2, <1>3, <1>4 DEF Buying

LEMMA ChangingType ==
    ASSUME IInv, NEW r \in Requests, Changing(r)
    PROVE  TypeOK'
<1>1. TypeOK
  BY DEF IInv
<1>2. ASSUME NEW s \in Subs, NEW plan \in Plans, ChangeAtStripe(r, s, plan)
      PROVE  TypeOK'
  <2>1. stripe[s] \in StripeSub
    BY <1>1, <1>2, KnownType DEF ChangeAtStripe, Retrieved
  <2>2. [stripe[s] EXCEPT !.plan = plan] \in StripeSub /\ stripe[s].end \in Nat
    BY <2>1 DEF StripeSub
  <2>3. stripe' \in [Subs -> StripeSub \cup {None}]
    BY <1>1, <1>2, <2>2 DEF ChangeAtStripe, TypeOK
  <2>4. request' \in [Requests -> RequestState] /\ overlapped' \subseteq Requests
    BY <1>1, <1>2, <2>2, ChangedType, RequestType DEF ChangeAtStripe
  <2>5. QED
    BY <1>1, <1>2, <2>3, <2>4 DEF ChangeAtStripe, TypeOK
<1>3. CASE ChangeHere(r)
  <2>1. request[r] \in RequestState
    BY <1>1, RequestTyped
  <2>2. request' \in [Requests -> RequestState] /\ overlapped' \subseteq Requests
    BY <1>1, <1>3, <2>1, ContinuedType, RequestType DEF ChangeHere
  <2>3. role' \in Roles
    BY <1>3 DEF ChangeHere, RoleOf, Roles
  <2>4. access' \in Nat
    BY <1>1, <1>3, <2>1 DEF ChangeHere, RequestState, TypeOK
  <2>5. QED
    BY <1>1, <1>3, <2>2, <2>3, <2>4 DEF ChangeHere, TypeOK
<1>4. ASSUME NEW s \in Subs, CancelSubscription(r, s)
      PROVE  TypeOK'
  <2>1. stripe[s] \in StripeSub
    BY <1>1, <1>4, KnownType DEF CancelSubscription, Active
  <2>2. [stripe[s] EXCEPT !.status = "canceled", !.ended = now] \in StripeSub
    BY <1>1, <2>1 DEF StripeSub, TypeOK
  <2>3. stripe' \in [Subs -> StripeSub \cup {None}]
    BY <1>1, <1>4, <2>2 DEF CancelSubscription, TypeOK
  <2>4. request' \in [Requests -> RequestState] /\ overlapped' \subseteq Requests
    BY <1>1, <1>4, DoneType, RequestType DEF CancelSubscription
  <2>5. QED
    BY <1>1, <1>4, <2>3, <2>4 DEF CancelSubscription, TypeOK
<1>5. ASSUME NEW s \in Subs, NEW old \in Subs, ResubscribeAll(r, s, old)
      PROVE  TypeOK'
  <2>1. stripe' \in [Subs -> StripeSub \cup {None}] /\ granted' \in Nat
    BY <1>1, <1>5, CreateType DEF ResubscribeAll, Accounts, Plans
  <2>2. request' \in [Requests -> RequestState] /\ overlapped' \subseteq Requests
    BY <1>1, <1>5, DoneType, RequestType DEF ResubscribeAll
  <2>3. QED
    BY <1>1, <1>5, <2>1, <2>2 DEF ResubscribeAll, TypeOK
<1>6. QED
  BY <1>2, <1>3, <1>4, <1>5 DEF Changing

\* What an import has in hand.
LEMMA InHand ==
    ASSUME IInv, NEW r \in Requests,
           NEW stage \in {"create", "access", "end"}, InStage(r, "import", stage),
           NEW s, s = request[r].sub
    PROVE  /\ s \in Subs /\ s \in Known
           /\ request[r].list[s] \in StripeSub
           /\ DateOf(request[r].list[s]) \in Nat
           /\ Outdated(request[r].list[s], stripe[s])
           /\ stage # "create" => request[r].found \in RowsOf(s)
<1>1. request[r] \in RequestState /\ Held(request[r])
  BY RequestTyped DEF IInv, HeldSane
<1>2. s \in InList(request[r].list)
  BY <1>1 DEF InStage, Held, InProgress
<1>3. s \in Subs /\ request[r].list[s] \in StripeSub
  BY <1>1, <1>2 DEF InList, RequestState
<1>4. DateOf(request[r].list[s]) \in Nat
  BY <1>3 DEF DateOf, StripeSub
<1>5. s \in Known /\ Outdated(request[r].list[s], stripe[s])
  BY <1>1, <1>2 DEF Held
<1>6. stage # "create" => request[r].found \in RowsOf(s)
  BY <1>1 DEF InStage, Held, InProgress
<1>7. QED
  BY <1>3, <1>4, <1>5, <1>6

\* What an import looks at next.
LEMMA LooksAt ==
    ASSUME IInv, NEW r \in Requests, NEW s \in NextIn(r)
    PROVE  /\ s \in Subs /\ s \in InList(request[r].list) /\ s \in Known
           /\ request[r].list[s] \in StripeSub
           /\ Outdated(request[r].list[s], stripe[s])
<1>1. request[r] \in RequestState /\ Held(request[r])
  BY RequestTyped DEF IInv, HeldSane
<1>2. s \in InList(request[r].list)
  BY <1>1 DEF NextIn, Held
<1>3. QED
  BY <1>1, <1>2 DEF InList, Held, RequestState

\* A row keeps its type when its status or its end is changed.
LEMMA RowType ==
    ASSUME TypeOK, NEW s \in Subs, NEW m \in RowsOf(s),
           NEW status \in {"active", "canceled"}, NEW end \in Nat
    PROVE  /\ m \in Requests
           /\ row[m][s] \in Row
           /\ [row[m][s] EXCEPT !.status = status] \in Row
           /\ [row[m][s] EXCEPT !.end = end] \in Row
<1>1. m \in Requests /\ row[m][s] \in Row
  BY DEF RowsOf, TypeOK
<1>2. QED
  BY <1>1 DEF Row

LEMMA ImportingType ==
    ASSUME IInv, NEW r \in Requests, Importing(r)
    PROVE  TypeOK'
<1>1. TypeOK /\ request[r] \in RequestState
  BY RequestTyped DEF IInv
<1>2. ASSUME NEW s \in Subs, ImportList(r, s)
      PROVE  TypeOK'
  <2>1. /\ Listed("uk") \in [Subs -> StripeSub \cup {None}]
        /\ InList(Listed("uk")) \in SUBSET Subs
    BY <1>1, ListedType DEF InList
  <2>2. request' \in [Requests -> RequestState] /\ overlapped' \subseteq Requests
    BY <1>1, <1>2, <2>1, ListingType, RequestType DEF ImportList
  <2>3. QED
    BY <1>1, <1>2, <2>2 DEF ImportList, TypeOK
<1>3. ASSUME NEW s \in Subs, ImportLook(r, s)
      PROVE  TypeOK'
  <2>0. s \in NextIn(r)
    BY <1>3 DEF ImportLook
  <2>1. CASE /\ Continue(r, [request[r] EXCEPT !.sub = s, !.stage = "create"])
             /\ UNCHANGED row
    <3>1. request' \in [Requests -> RequestState] /\ overlapped' \subseteq Requests
      BY <1>1, <2>1, ContinuedType, RequestType
    <3>2. QED
      BY <1>1, <1>3, <2>1, <3>1 DEF ImportLook, TypeOK
  <2>2. ASSUME NEW m \in RowsOf(s),
               row' = [row EXCEPT ![m][s].status = request[r].list[s].status],
               Continue(r, [request[r] EXCEPT !.sub = s, !.stage = "access",
                                              !.found = m])
        PROVE  TypeOK'
    <3>1. m \in Requests
      BY <2>2 DEF RowsOf
    <3>2. request' \in [Requests -> RequestState] /\ overlapped' \subseteq Requests
      BY <1>1, <2>2, <3>1, ContinuedType, RequestType
    <3>3. request[r].list[s].status \in {"active", "canceled"}
      BY <2>0, LooksAt DEF StripeSub
    <3>4. [row[m][s] EXCEPT !.status = request[r].list[s].status] \in Row
      BY <1>1, <3>3, RowType
    <3>5. row' \in [Requests -> [Subs -> Row \cup {None}]]
      BY <1>1, <2>2, <3>4 DEF TypeOK
    <3>6. QED
      BY <1>1, <1>3, <3>2, <3>5 DEF ImportLook, TypeOK
  <2>3. QED
    BY <1>3, <2>1, <2>2 DEF ImportLook
<1>4. ASSUME NEW country \in Accounts, ImportCreate(r, country)
      PROVE  TypeOK'
  <2> DEFINE s == request[r].sub
  <2>1. s \in Subs /\ request[r].list[s] \in StripeSub
    BY <1>4, InHand DEF ImportCreate
  <2>2. request[r].list[s].end \in Nat
        /\ request[r].list[s].status \in {"active", "canceled"}
    BY <2>1 DEF StripeSub
  <2>3. row' \in [Requests -> [Subs -> Row \cup {None}]] /\ last' \in LastRow
    BY <1>1, <1>4, <2>1, <2>2, NewRowType DEF ImportCreate
  <2>4. request[r].todo \ {s} \in SUBSET Subs
    BY <1>1 DEF RequestState
  <2>5. request' \in [Requests -> RequestState] /\ overlapped' \subseteq Requests
    BY <1>1, <1>4, <2>4, ContinuedType, RequestType DEF ImportCreate
  <2>6. QED
    BY <1>1, <1>4, <2>3, <2>5 DEF ImportCreate, TypeOK
<1>5. CASE ImportAccess(r)
  <2>1. access' \in Nat
    BY <1>5, InHand DEF ImportAccess
  <2>2. request' \in [Requests -> RequestState] /\ overlapped' \subseteq Requests
    BY <1>1, <1>5, ContinuedType, RequestType DEF ImportAccess
  <2>3. QED
    BY <1>1, <1>5, <2>1, <2>2 DEF ImportAccess, TypeOK
<1>6. CASE ImportEnd(r)
  <2> DEFINE s == request[r].sub
             m == request[r].found
             date == DateOf(request[r].list[s])
  <2>1. s \in Subs /\ date \in Nat /\ m \in RowsOf(s)
    BY <1>6, InHand DEF ImportEnd
  <2>2. m \in Requests /\ [row[m][s] EXCEPT !.end = date] \in Row
    BY <1>1, <2>1, RowType
  <2>3. row' \in [Requests -> [Subs -> Row \cup {None}]]
    BY <1>1, <1>6, <2>1, <2>2 DEF ImportEnd, TypeOK
  <2>4. request[r].todo \ {s} \in SUBSET Subs
    BY <1>1 DEF RequestState
  <2>5. request' \in [Requests -> RequestState] /\ overlapped' \subseteq Requests
    BY <1>1, <1>6, <2>4, ContinuedType, RequestType DEF ImportEnd
  <2>6. QED
    BY <1>1, <1>6, <2>3, <2>5 DEF ImportEnd, TypeOK
<1>7. CASE ImportDone(r)
  <2>1. request' \in [Requests -> RequestState] /\ overlapped' \subseteq Requests
    BY <1>1, <1>7, ContinuedType, RequestType DEF ImportDone
  <2>2. QED
    BY <1>1, <1>7, <2>1 DEF ImportDone, TypeOK
<1>8. QED
  BY <1>2, <1>3, <1>4, <1>5, <1>6, <1>7 DEF Importing

LEMMA TypeStep ==
    ASSUME IInv, [Next]_vars
    PROVE  TypeOK'
<1>1. TypeOK
  BY DEF IInv
<1>2. ASSUME NEW r \in Requests, Abandon(r)
      PROVE  TypeOK'
  <2>1. request' \in [Requests -> RequestState] /\ overlapped' \subseteq Requests
    BY <1>1, <1>2, RequestTyped, ContinuedType, RequestType DEF Abandon
  <2>2. QED
    BY <1>1, <1>2, <2>1 DEF Abandon, TypeOK
<1>3. CASE Tick
  BY <1>1, <1>3 DEF Tick, TypeOK
<1>4. CASE UNCHANGED vars
  BY <1>1, <1>4 DEF vars, TypeOK
<1>5. QED
  BY <1>1, <1>2, <1>3, <1>4, BuyingType, ChangingType, ImportingType, StripeType
     DEF Next

-----------------------------------------------------------------------------
(* Stripe moves forward.                                                   *)

\* Subscription s after a step: still known, no earlier, and over if it was.
Later(s) ==
    /\ s \in Known'
    /\ stripe[s].end <= stripe'[s].end
    /\ stripe[s].status = "canceled" => stripe'[s].status = "canceled"

LEMMA CreateMoves ==
    ASSUME TypeOK, StripeSane, NEW s \in Subs, NEW account \in Accounts,
           NEW plan \in Plans, Create(s, account, plan), UNCHANGED now
    PROVE  /\ granted <= granted' /\ now + 1 <= granted'
           /\ \A x \in Known : stripe'[x] = stripe[x]
           /\ Known' = Known \cup {s}
           /\ stripe'[s].end = now + 1
           /\ StripeSane'
<1>1. granted <= granted' /\ now + 1 <= granted' /\ granted' \in Nat
  BY DEF Create, Max2, TypeOK
<1>2. /\ stripe'[s] = NewSub(account, plan)
      /\ \A x \in Subs \ {s} : stripe'[x] = stripe[x]
  BY DEF Create, TypeOK
<1>3. NewSub(account, plan) # None
  BY NewSubType, NoneAssumption
<1>4. Known' = Known \cup {s} /\ s \notin Known
  BY <1>2, <1>3 DEF Known, Create
<1>5. \A x \in Known : stripe'[x] = stripe[x]
  BY <1>2, <1>4 DEF Known
<1>6. stripe'[s].end = now + 1 /\ stripe'[s].ended = 0
  BY <1>2 DEF NewSub
<1>7. StripeSane'
  <2>1. \A x \in Known : stripe[x].end \in Nat
    BY KnownType DEF StripeSub
  <2>2. QED
    BY <1>1, <1>4, <1>5, <1>6, <2>1 DEF StripeSane, TypeOK
<1>8. QED
  BY <1>1, <1>4, <1>5, <1>6, <1>7

LEMMA StripeMoves ==
    ASSUME IInv, [Next]_vars
    PROVE  /\ \A s \in Known : Later(s)
           /\ granted <= granted' /\ now <= now'
           /\ StripeSane'
<1>1. TypeOK /\ StripeSane /\ \A s \in Known : stripe[s] \in StripeSub
  BY KnownType DEF IInv
<1>2. CASE UNCHANGED <<stripe, granted, now>>
  BY <1>1, <1>2 DEF Later, Known, StripeSane, TypeOK, StripeSub
<1>3. ASSUME NEW s \in Subs, NEW account \in Accounts, NEW plan \in Plans,
             Create(s, account, plan), UNCHANGED now
      PROVE  /\ \A x \in Known : Later(x)
             /\ granted <= granted' /\ now <= now'
             /\ StripeSane'
  BY <1>1, <1>3, CreateMoves DEF Later, StripeSub, TypeOK
<1>4. ASSUME NEW s \in Known, UNCHANGED now, granted' \in Nat,
             granted <= granted',
             NEW new \in StripeSub, stripe' = [stripe EXCEPT ![s] = new],
             stripe[s].end <= new.end, new.end <= granted',
             new.ended <= new.end, new.status = "active" => now <= new.end,
             stripe[s].status = "canceled" => new.status = "canceled"
      PROVE  /\ \A x \in Known : Later(x)
             /\ granted <= granted' /\ now <= now'
             /\ StripeSane'
  <2>1. stripe'[s] = new /\ \A x \in Subs \ {s} : stripe'[x] = stripe[x]
    BY <1>1, <1>4, KnownType DEF TypeOK
  <2>2. Known' = Known
    BY <1>4, <2>1, NoneAssumption, KnownType DEF Known
  <2>3. \A x \in Known : Later(x)
    BY <1>1, <1>4, <2>1, <2>2, KnownType DEF Later, StripeSub
  <2>4. StripeSane'
    <3>1. SUFFICES ASSUME NEW x \in Known'
                   PROVE  /\ stripe'[x].end <= granted'
                          /\ stripe'[x].ended <= stripe'[x].end
                          /\ stripe'[x].status = "active"
                                => now' <= stripe'[x].end
      BY DEF StripeSane
    <3>2. CASE x = s
      BY <1>4, <2>1, <3>2
    <3>3. CASE x # s
      BY <1>1, <1>4, <2>1, <2>2, <3>3, KnownType DEF StripeSane, StripeSub, TypeOK
    <3>4. QED
      BY <3>2, <3>3
  <2>5. QED
    BY <1>1, <1>4, <2>3, <2>4 DEF TypeOK
<1>5. ASSUME NEW s \in Subs, Renew(s)
      PROVE  /\ \A x \in Known : Later(x)
             /\ granted <= granted' /\ now <= now'
             /\ StripeSane'
  <2> DEFINE new == [stripe[s] EXCEPT !.end = now + 1]
  <2>1. s \in Known /\ stripe[s] \in StripeSub
    BY <1>1, <1>5 DEF Renew, Active
  <2>2. /\ new \in StripeSub /\ new.end = now + 1
        /\ new.ended = stripe[s].ended /\ new.status = "active"
    BY <1>1, <1>5, <2>1 DEF Renew, Active, StripeSub, TypeOK
  <2>3. granted' \in Nat /\ granted <= granted' /\ now + 1 <= granted'
    BY <1>1, <1>5 DEF Renew, Max2, TypeOK
  <2>4. /\ stripe[s].end = now /\ stripe[s].ended <= now /\ now \in Nat
        /\ stripe[s].ended \in Nat /\ stripe[s].status = "active"
    BY <1>1, <1>5, <2>1 DEF Renew, Active, StripeSane, StripeSub, TypeOK
  <2>5. new.ended <= new.end /\ stripe[s].end <= new.end /\ now <= new.end
    BY <2>2, <2>4
  <2>6. stripe' = [stripe EXCEPT ![s] = new] /\ UNCHANGED now
    BY <1>1, <1>5 DEF Renew, TypeOK
  <2>7. QED
    BY <1>4, <2>1, <2>2, <2>3, <2>4, <2>5, <2>6
<1>6. ASSUME NEW s \in Subs, Active(s),
             stripe' = [stripe EXCEPT ![s].status = "canceled",
                                      ![s].ended = now],
             UNCHANGED <<now, granted>>
      PROVE  /\ \A x \in Known : Later(x)
             /\ granted <= granted' /\ now <= now'
             /\ StripeSane'
  <2> DEFINE new == [stripe[s] EXCEPT !.status = "canceled", !.ended = now]
  <2>1. s \in Known /\ stripe[s] \in StripeSub
    BY <1>1, <1>6 DEF Active
  <2>2. /\ new \in StripeSub /\ new.end = stripe[s].end
        /\ new.ended = now /\ new.status = "canceled"
    BY <1>1, <2>1 DEF StripeSub, TypeOK
  <2>3. /\ stripe[s].end \in Nat /\ stripe[s].end <= granted
        /\ now <= stripe[s].end /\ granted \in Nat
    BY <1>1, <1>6, <2>1 DEF Active, StripeSane, StripeSub, TypeOK
  <2>4. stripe' = [stripe EXCEPT ![s] = new]
    BY <1>1, <1>6 DEF TypeOK
  <2>5. /\ granted' \in Nat /\ granted <= granted' /\ new.end <= granted'
        /\ stripe[s].end <= new.end /\ new.ended <= new.end
        /\ new.status = "active" => now <= new.end
        /\ stripe[s].status = "canceled" => new.status = "canceled"
    BY <1>6, <2>2, <2>3
  <2>6. QED
    BY <1>4, <1>6, <2>1, <2>2, <2>4, <2>5
<1>7. ASSUME NEW r \in Requests, NEW s \in Subs, NEW plan \in Plans,
             ChangeAtStripe(r, s, plan)
      PROVE  /\ \A x \in Known : Later(x)
             /\ granted <= granted' /\ now <= now'
             /\ StripeSane'
  <2> DEFINE new == [stripe[s] EXCEPT !.plan = plan]
  <2>1. s \in Known /\ stripe[s] \in StripeSub /\ stripe[s].status = "active"
    BY <1>1, <1>7 DEF ChangeAtStripe, Active
  <2>2. /\ new \in StripeSub /\ new.end = stripe[s].end
        /\ new.ended = stripe[s].ended /\ new.status = stripe[s].status
    BY <2>1 DEF StripeSub
  <2>3. /\ stripe[s].end \in Nat /\ stripe[s].end <= granted
        /\ stripe[s].ended <= stripe[s].end /\ now <= stripe[s].end
        /\ granted \in Nat
    BY <1>1, <2>1 DEF StripeSane, StripeSub, TypeOK
  <2>4. stripe' = [stripe EXCEPT ![s] = new] /\ UNCHANGED <<now, granted>>
    BY <1>1, <1>7 DEF ChangeAtStripe, TypeOK
  <2>5. /\ granted' \in Nat /\ granted <= granted' /\ new.end <= granted'
        /\ stripe[s].end <= new.end /\ new.ended <= new.end
        /\ new.status = "active" => now <= new.end
        /\ stripe[s].status = "canceled" => new.status = "canceled"
    BY <2>2, <2>3, <2>4
  <2>6. QED
    BY <1>4, <2>1, <2>2, <2>4, <2>5
<1>8. CASE Tick
  <2>1. now' = now + 1 /\ UNCHANGED <<stripe, granted>>
    BY <1>8 DEF Tick
  <2>2. \A s \in Known : stripe[s].status = "active" => now < stripe[s].end
    BY <1>8 DEF Tick, Active, Known
  <2>3. QED
    BY <1>1, <2>1, <2>2 DEF Later, Known, StripeSane, StripeSub, TypeOK
<1>9. ASSUME NEW r \in Requests, NEW country, Prepay(r, country)
      PROVE  /\ \A x \in Known : Later(x)
             /\ granted <= granted' /\ now <= now'
             /\ StripeSane'
  <2>1. granted <= granted' /\ granted' \in Nat /\ UNCHANGED <<stripe, now>>
    BY <1>1, <1>9 DEF Prepay, Max2, TypeOK
  <2>2. QED
    BY <1>1, <2>1 DEF Later, Known, StripeSane, StripeSub, TypeOK
<1>10. ASSUME NEW r \in Requests, Buying(r) \/ Changing(r)
       PROVE  /\ \A x \in Known : Later(x)
              /\ granted <= granted' /\ now <= now'
              /\ StripeSane'
  <2>1. CASE BuyHere(r) \/ ChangeHere(r)
    BY <1>2, <2>1 DEF BuyHere, ChangeHere
  <2>2. ASSUME NEW s \in Subs, NEW account \in Accounts, NEW plan \in Plans,
               BuyAtStripe(r, s, account, plan)
        PROVE  /\ \A x \in Known : Later(x)
               /\ granted <= granted' /\ now <= now'
               /\ StripeSane'
    BY <1>3, <2>2 DEF BuyAtStripe
  <2>3. ASSUME NEW s \in Subs, CancelSubscription(r, s)
        PROVE  /\ \A x \in Known : Later(x)
               /\ granted <= granted' /\ now <= now'
               /\ StripeSane'
    BY <1>6, <2>3 DEF CancelSubscription
  <2>4. ASSUME NEW s \in Subs, NEW old \in Subs, ResubscribeAll(r, s, old)
        PROVE  /\ \A x \in Known : Later(x)
               /\ granted <= granted' /\ now <= now'
               /\ StripeSane'
    BY <1>3, <2>4 DEF ResubscribeAll, Accounts, Plans
  <2>5. QED
    BY <1>7, <1>9, <1>10, <2>1, <2>2, <2>3, <2>4 DEF Buying, Changing
<1>11. ASSUME NEW r \in Requests, Importing(r) \/ Abandon(r)
       PROVE  UNCHANGED <<stripe, granted, now>>
  BY <1>11 DEF Importing, ImportList, ImportLook, ImportCreate, ImportAccess,
               ImportEnd, ImportDone, Abandon
<1>12. QED
  BY <1>2, <1>5, <1>6, <1>8, <1>10, <1>11 DEF Next, vars, Lapse


-----------------------------------------------------------------------------
(* Rows are made by their makers only, and stay.                           *)

RowMade(r, s, country, end, status) ==
    /\ row'[r][s] = [country |-> country, status |-> status, end |-> end]
    /\ \A m \in Requests, x \in Subs :
          m # r \/ x # s => row'[m][x] = row[m][x]
    /\ RowsOf(s)' = RowsOf(s) \cup {r}
    /\ \A x \in Subs \ {s} : RowsOf(x)' = RowsOf(x)

RowChanged(m, s, new) ==
    /\ row'[m][s] = new
    /\ \A k \in Requests, x \in Subs :
          k # m \/ x # s => row'[k][x] = row[k][x]
    /\ \A x \in Subs : RowsOf(x)' = RowsOf(x)

LEMMA NewRowMoves ==
    ASSUME TypeOK, NEW r \in Requests, NEW s \in Subs,
           NEW country \in Accounts, NEW end \in Nat,
           NEW status \in {"active", "canceled"},
           NewRow(r, s, country, end, status)
    PROVE  RowMade(r, s, country, end, status)
<1> DEFINE new == [country |-> country, status |-> status, end |-> end]
<1>1. row'[r][s] = new
  BY DEF NewRow, TypeOK
<1>2. \A m \in Requests, x \in Subs :
          m # r \/ x # s => row'[m][x] = row[m][x]
  BY DEF NewRow, TypeOK
<1>3. new # None
  BY NoneAssumption DEF Row
<1>4. RowsOf(s)' = RowsOf(s) \cup {r}
  BY <1>1, <1>2, <1>3 DEF RowsOf
<1>5. \A x \in Subs \ {s} : RowsOf(x)' = RowsOf(x)
  BY <1>2 DEF RowsOf
<1>6. QED
  BY <1>1, <1>2, <1>4, <1>5 DEF RowMade

\* One row of subscription s gets another status or end.
LEMMA RowChange ==
    ASSUME TypeOK, NEW s \in Subs, NEW m \in RowsOf(s), NEW new \in Row,
           row' = [row EXCEPT ![m][s] = new]
    PROVE  RowChanged(m, s, new)
<1>1. m \in Requests /\ row[m][s] # None
  BY DEF RowsOf
<1>2. row'[m][s] = new
  BY <1>1 DEF TypeOK
<1>3. \A k \in Requests, x \in Subs :
          k # m \/ x # s => row'[k][x] = row[k][x]
  BY <1>1 DEF TypeOK
<1>4. new # None
  BY NoneAssumption
<1>5. \A x \in Subs : RowsOf(x)' = RowsOf(x)
  BY <1>1, <1>2, <1>3, <1>4 DEF RowsOf
<1>6. QED
  BY <1>2, <1>3, <1>5 DEF RowChanged

\* What the two actions that make a row do.
LEMMA BuyHereRow ==
    ASSUME IInv, NEW r \in Requests, BuyHere(r), NEW s, s = request[r].sub
    PROVE  /\ s \in Subs /\ s \in Known
           /\ row'[r][s].status = "active" /\ row'[r][s].end <= stripe[s].end
           /\ \A m \in Requests, x \in Subs :
                 m # r \/ x # s => row'[m][x] = row[m][x]
           /\ RowsOf(s)' = RowsOf(s) \cup {r}
           /\ \A x \in Subs \ {s} : RowsOf(x)' = RowsOf(x)
<1>1. TypeOK /\ request[r] \in RequestState /\ Held(request[r])
  BY RequestTyped DEF IInv, HeldSane
<1>2. InProgress(request[r], "buy")
  BY DEF BuyHere, InStage, InProgress
<1>3. s \in Known /\ request[r].end <= stripe[s].end
  BY <1>1, <1>2 DEF Held
<1>4. s \in Subs /\ stripe[s].account \in Accounts /\ request[r].end \in Nat
  BY <1>1, <1>3, KnownType DEF StripeSub, RequestState
<1>5. NewRow(r, s, stripe[s].account, request[r].end, "active")
  BY DEF BuyHere
<1>6. RowMade(r, s, stripe[s].account, request[r].end, "active")
  BY <1>1, <1>4, <1>5, NewRowMoves
<1>7. row'[r][s].status = "active" /\ row'[r][s].end <= stripe[s].end
  BY <1>3, <1>6 DEF RowMade
<1>8. QED
  BY <1>3, <1>4, <1>6, <1>7 DEF RowMade

LEMMA ImportCreateRow ==
    ASSUME IInv, NEW r \in Requests, NEW country \in Accounts,
           ImportCreate(r, country), NEW s, s = request[r].sub
    PROVE  /\ s \in Subs /\ s \in Known
           /\ row'[r][s].status = request[r].list[s].status
           /\ row'[r][s].end = request[r].list[s].end
           /\ Outdated(request[r].list[s], stripe[s])
           /\ \A m \in Requests, x \in Subs :
                 m # r \/ x # s => row'[m][x] = row[m][x]
           /\ RowsOf(s)' = RowsOf(s) \cup {r}
           /\ \A x \in Subs \ {s} : RowsOf(x)' = RowsOf(x)
<1>1. TypeOK
  BY DEF IInv
<1>2. /\ s \in Subs /\ s \in Known
      /\ request[r].list[s] \in StripeSub
      /\ Outdated(request[r].list[s], stripe[s])
  BY InHand DEF ImportCreate
<1>3. PICK end \in Nat, status \in {"active", "canceled"} :
          end = request[r].list[s].end /\ status = request[r].list[s].status
  BY <1>2 DEF StripeSub
<1>4. NewRow(r, s, country, end, status)
  BY <1>3 DEF ImportCreate
<1>5. RowMade(r, s, country, end, status)
  BY <1>1, <1>2, <1>4, NewRowMoves
<1>6. row'[r][s].status = status /\ row'[r][s].end = end
  BY <1>5 DEF RowMade
<1>7. QED
  BY <1>2, <1>3, <1>5, <1>6 DEF RowMade

\* The two that change one.
LEMMA ImportLookRow ==
    ASSUME IInv, NEW r \in Requests, NEW s \in Subs, ImportLook(r, s)
    PROVE  /\ \A x \in Subs : RowsOf(x)' = RowsOf(x)
           /\ s \in Known /\ Outdated(request[r].list[s], stripe[s])
           /\ \A k \in Requests, x \in Subs :
                 \/ row'[k][x] = row[k][x]
                 \/ /\ x = s /\ row'[k][x].end = row[k][x].end
                    /\ row'[k][x].status = request[r].list[s].status
<1>1. TypeOK
  BY DEF IInv
<1>2. /\ s \in Known /\ request[r].list[s] \in StripeSub
      /\ Outdated(request[r].list[s], stripe[s])
  BY LooksAt DEF ImportLook
<1>3. CASE UNCHANGED row
  BY <1>2, <1>3 DEF RowsOf
<1>4. ASSUME NEW m \in RowsOf(s),
             row' = [row EXCEPT ![m][s].status = request[r].list[s].status]
      PROVE  /\ \A x \in Subs : RowsOf(x)' = RowsOf(x)
             /\ \A k \in Requests, x \in Subs :
                   \/ row'[k][x] = row[k][x]
                   \/ /\ x = s /\ row'[k][x].end = row[k][x].end
                      /\ row'[k][x].status = request[r].list[s].status
  <2> DEFINE new == [row[m][s] EXCEPT !.status = request[r].list[s].status]
  <2>1. request[r].list[s].status \in {"active", "canceled"}
    BY <1>2 DEF StripeSub
  <2>2. m \in Requests /\ row[m][s] \in Row /\ new \in Row
    BY <1>1, <2>1, RowType, 0 \in Nat
  <2>3. row' = [row EXCEPT ![m][s] = new]
    BY <1>1, <1>4, <2>2 DEF TypeOK
  <2>4. new.end = row[m][s].end /\ new.status = request[r].list[s].status
    BY <2>2 DEF Row
  <2> HIDE DEF new
  <2>5. RowChanged(m, s, new)
    BY <1>1, <2>2, <2>3, RowChange
  <2>6. QED
    BY <2>4, <2>5 DEF RowChanged
<1>5. QED
  BY <1>2, <1>3, <1>4 DEF ImportLook

LEMMA ImportEndRow ==
    ASSUME IInv, NEW r \in Requests, ImportEnd(r), NEW s, s = request[r].sub
    PROVE  /\ \A x \in Subs : RowsOf(x)' = RowsOf(x)
           /\ s \in Known /\ Outdated(request[r].list[s], stripe[s])
           /\ \A k \in Requests, x \in Subs :
                 \/ row'[k][x] = row[k][x]
                 \/ /\ x = s /\ row'[k][x].status = row[k][x].status
                    /\ row'[k][x].end = DateOf(request[r].list[s])
<1>1. TypeOK
  BY DEF IInv
<1>2. /\ s \in Subs /\ s \in Known
      /\ DateOf(request[r].list[s]) \in Nat
      /\ Outdated(request[r].list[s], stripe[s])
      /\ request[r].found \in RowsOf(s)
  BY InHand DEF ImportEnd
<1>3. PICK m \in RowsOf(s), date \in Nat :
          m = request[r].found /\ date = DateOf(request[r].list[s])
  BY <1>2
<1>4. m \in Requests /\ row[m][s] \in Row
      /\ [row[m][s] EXCEPT !.end = date] \in Row
  BY <1>1, <1>2, <1>3, RowType
<1>5. PICK new \in Row : new = [row[m][s] EXCEPT !.end = date]
  BY <1>4
<1>6. row' = [row EXCEPT ![m][s] = new]
  BY <1>1, <1>2, <1>3, <1>4, <1>5 DEF ImportEnd, TypeOK
<1>7. new.status = row[m][s].status /\ new.end = date
  BY <1>4, <1>5 DEF Row
<1>8. RowChanged(m, s, new)
  BY <1>1, <1>2, <1>6, RowChange
<1>9. QED
  BY <1>2, <1>3, <1>7, <1>8 DEF RowChanged

\* All other actions leave the rows alone.
LEMMA RowsUnchanged ==
    ASSUME IInv, [Next]_vars
    PROVE  \/ UNCHANGED row
           \/ \E r \in Requests : BuyHere(r) \/ ImportEnd(r)
           \/ \E r \in Requests, country \in Accounts : ImportCreate(r, country)
           \/ \E r \in Requests, s \in Subs : ImportLook(r, s)
<1>1. ASSUME NEW r \in Requests, Buying(r)
      PROVE  UNCHANGED row \/ BuyHere(r)
  BY <1>1 DEF Buying, BuyAtStripe, Prepay
<1>2. ASSUME NEW r \in Requests, Changing(r) \/ Abandon(r)
      PROVE  UNCHANGED row
  BY <1>2 DEF Changing, ChangeAtStripe, ChangeHere, CancelSubscription,
              ResubscribeAll, Abandon
<1>3. ASSUME NEW r \in Requests, Importing(r)
      PROVE  \/ UNCHANGED row
             \/ ImportEnd(r)
             \/ \E country \in Accounts : ImportCreate(r, country)
             \/ \E s \in Subs : ImportLook(r, s)
  BY <1>3 DEF Importing, ImportList, ImportAccess, ImportDone
<1>4. CASE (\E s \in Subs : Renew(s) \/ Lapse(s)) \/ Tick \/ UNCHANGED vars
  BY <1>4 DEF Renew, Lapse, Tick, vars
<1>5. QED
  BY <1>1, <1>2, <1>3, <1>4 DEF Next

LEMMA RowsStay ==
    ASSUME IInv, [Next]_vars, NEW s \in Subs
    PROVE  RowsOf(s) \subseteq RowsOf(s)'
<1>1. CASE UNCHANGED row
  BY <1>1 DEF RowsOf
<1>2. ASSUME NEW r \in Requests, BuyHere(r)
      PROVE  RowsOf(s) \subseteq RowsOf(s)'
  BY <1>2, BuyHereRow
<1>3. ASSUME NEW r \in Requests, ImportEnd(r)
      PROVE  RowsOf(s) \subseteq RowsOf(s)'
  BY <1>3, ImportEndRow
<1>4. ASSUME NEW r \in Requests, NEW country \in Accounts,
             ImportCreate(r, country)
      PROVE  RowsOf(s) \subseteq RowsOf(s)'
  BY <1>4, ImportCreateRow
<1>5. ASSUME NEW r \in Requests, NEW x \in Subs, ImportLook(r, x)
      PROVE  RowsOf(s) \subseteq RowsOf(s)'
  BY <1>5, ImportLookRow
<1>6. QED
  BY <1>1, <1>2, <1>3, <1>4, <1>5, RowsUnchanged

LEMMA RowsLagStep ==
    ASSUME IInv, [Next]_vars
    PROVE  RowsLagBehind'
<1>1. RowsLagBehind /\ TypeOK
  BY DEF IInv
<1>2. \A s \in Known : Later(s) /\ stripe'[s].end \in Nat /\ stripe[s].end \in Nat
  BY <1>1, StripeMoves, TypeStep, KnownType DEF Later, Known, TypeOK, StripeSub
<1>3. SUFFICES ASSUME NEW m \in Requests, NEW x \in Subs, row'[m][x] # None
               PROVE  /\ x \in Known'
                      /\ row'[m][x].status = "canceled"
                            => stripe'[x].status = "canceled"
                      /\ row'[m][x].end <= stripe'[x].end
  BY DEF RowsLagBehind
<1>4. row'[m][x] \in Row /\ row'[m][x].end \in Nat
  BY <1>3, TypeStep DEF TypeOK, Row
<1>5. CASE row'[m][x] = row[m][x]
  <2>1. /\ x \in Known
        /\ row[m][x].status = "canceled" => stripe[x].status = "canceled"
        /\ row[m][x].end <= stripe[x].end
    BY <1>1, <1>3, <1>5 DEF RowsLagBehind
  <2>2. QED
    BY <1>2, <1>4, <1>5, <2>1 DEF Later
<1>6. ASSUME x \in Known, row'[m][x].end <= stripe[x].end,
             row'[m][x].status = "canceled" => stripe[x].status = "canceled"
      PROVE  /\ x \in Known'
             /\ row'[m][x].status = "canceled"
                   => stripe'[x].status = "canceled"
             /\ row'[m][x].end <= stripe'[x].end
  BY <1>2, <1>4, <1>6 DEF Later
<1>7. ASSUME NEW r \in Requests, BuyHere(r), row'[m][x] # row[m][x]
      PROVE  /\ x \in Known /\ row'[m][x].end <= stripe[x].end
             /\ row'[m][x].status = "active"
  <2>1. m = r /\ x = request[r].sub
    BY <1>7, BuyHereRow
  <2>2. QED
    BY <1>7, <2>1, BuyHereRow
<1>8. ASSUME NEW r \in Requests, NEW country \in Accounts,
             ImportCreate(r, country), row'[m][x] # row[m][x]
      PROVE  /\ x \in Known /\ row'[m][x].end <= stripe[x].end
             /\ row'[m][x].status = "canceled" => stripe[x].status = "canceled"
  <2>1. m = r /\ x = request[r].sub
    BY <1>8, ImportCreateRow
  <2>2. QED
    BY <1>8, <2>1, ImportCreateRow DEF Outdated
<1>9. ASSUME row[m][x] # None
      PROVE  /\ row[m][x] \in Row /\ row[m][x].end <= stripe[x].end
             /\ row[m][x].status = "canceled" => stripe[x].status = "canceled"
  BY <1>1, <1>9 DEF RowsLagBehind, TypeOK
<1>10. ASSUME RowsOf(x)' = RowsOf(x)
       PROVE  row[m][x] # None
  <2>1. m \in RowsOf(x)'
    BY <1>3 DEF RowsOf
  <2>2. QED
    BY <1>10, <2>1 DEF RowsOf
<1>11. ASSUME NEW r \in Requests, NEW s \in Subs, ImportLook(r, s),
              row'[m][x] # row[m][x]
       PROVE  /\ x \in Known /\ row'[m][x].end <= stripe[x].end
              /\ row'[m][x].status = "canceled" => stripe[x].status = "canceled"
  <2>1. /\ x = s /\ s \in Known
        /\ row'[m][x].end = row[m][x].end
        /\ row'[m][x].status = request[r].list[s].status
        /\ Outdated(request[r].list[s], stripe[s])
        /\ row[m][x] # None
    BY <1>10, <1>11, ImportLookRow
  <2>2. QED
    BY <1>9, <2>1 DEF Outdated
<1>12. ASSUME NEW r \in Requests, ImportEnd(r), row'[m][x] # row[m][x]
       PROVE  /\ x \in Known /\ row'[m][x].end <= stripe[x].end
              /\ row'[m][x].status = "canceled" => stripe[x].status = "canceled"
  <2> DEFINE s == request[r].sub
  <2>1. /\ x = s /\ s \in Known
        /\ row'[m][x].status = row[m][x].status
        /\ row'[m][x].end = DateOf(request[r].list[s])
        /\ Outdated(request[r].list[s], stripe[s])
        /\ row[m][x] # None
    BY <1>10, <1>12, ImportEndRow
  <2>2. request[r].list[s] \in StripeSub /\ stripe[s].end \in Nat
    BY <1>2, <1>12, <2>1, InHand DEF ImportEnd
  <2>3. DateOf(request[r].list[s]) <= stripe[s].end
    BY <2>1, <2>2 DEF DateOf, Outdated, StripeSub
  <2>4. QED
    BY <1>9, <2>1, <2>3
<1>13. QED
  BY <1>5, <1>6, <1>7, <1>8, <1>11, <1>12, RowsUnchanged

-----------------------------------------------------------------------------
(* One request at a time.                                                  *)

\* A step is of one request, the others stay as they are; and it starts one
\* only when there is a worker.
LEMMA RequestMoves ==
    ASSUME IInv, [Next]_vars
    PROVE  \/ UNCHANGED request
           \/ \E r \in Requests :
                 /\ Buying(r) \/ Changing(r) \/ Importing(r) \/ Abandon(r)
                 /\ \A x \in Requests \ {r} : request'[x] = request[x]
                 /\ r \in Running \/ Cardinality(Running) < Workers
<1>1. request \in [Requests -> RequestState]
  BY DEF IInv, TypeOK
<1>2. ASSUME NEW r \in Requests, NEW state,
             \/ Start(r, state)
             \/ Continue(r, state) /\ request[r].status = "running"
      PROVE  /\ \A x \in Requests \ {r} : request'[x] = request[x]
             /\ r \in Running \/ Cardinality(Running) < Workers
  BY <1>1, <1>2 DEF Start, Continue, Running
<1>3. ASSUME NEW r \in Requests, Buying(r)
      PROVE  /\ \A x \in Requests \ {r} : request'[x] = request[x]
             /\ r \in Running \/ Cardinality(Running) < Workers
  BY <1>2, <1>3 DEF Buying, BuyAtStripe, BuyHere, Prepay, InStage
<1>4. ASSUME NEW r \in Requests, Changing(r)
      PROVE  /\ \A x \in Requests \ {r} : request'[x] = request[x]
             /\ r \in Running \/ Cardinality(Running) < Workers
  BY <1>2, <1>4 DEF Changing, ChangeAtStripe, ChangeHere, CancelSubscription,
                    ResubscribeAll, InStage
<1>5. ASSUME NEW r \in Requests, Importing(r)
      PROVE  /\ \A x \in Requests \ {r} : request'[x] = request[x]
             /\ r \in Running \/ Cardinality(Running) < Workers
  BY <1>2, <1>5 DEF Importing, ImportList, ImportLook, ImportCreate,
                    ImportAccess, ImportEnd, ImportDone, InStage
<1>6. ASSUME NEW r \in Requests, Abandon(r)
      PROVE  /\ \A x \in Requests \ {r} : request'[x] = request[x]
             /\ r \in Running \/ Cardinality(Running) < Workers
  BY <1>2, <1>6 DEF Abandon
<1>7. CASE (\E s \in Subs : Renew(s) \/ Lapse(s)) \/ Tick \/ UNCHANGED vars
  BY <1>7 DEF Renew, Lapse, Tick, vars
<1>8. QED
  BY <1>3, <1>4, <1>5, <1>6, <1>7 DEF Next

LEMMA OthersWait ==
    ASSUME IInv, [Next]_vars, NEW r \in Requests, request'[r] # request[r]
    PROVE  Buying(r) \/ Changing(r) \/ Importing(r) \/ Abandon(r)
BY RequestMoves

LEMMA RunningFinite ==
    /\ IsFiniteSet(Running) /\ Running \subseteq Requests
    /\ IsFiniteSet(Running') /\ Running' \subseteq Requests
<1>1. Running \subseteq Requests /\ Running' \subseteq Requests
  BY DEF Running
<1>2. QED
  BY <1>1, RequestsFinite, FS_Subset

LEMMA RunningStep ==
    ASSUME IInv, [Next]_vars
    PROVE  RunningBounded'
<1>1. /\ Cardinality(Running) \in Nat /\ Cardinality(Running) <= Workers
      /\ Workers \in Nat
  BY RunningFinite, FS_CardinalityType, WorkersAssumption
     DEF IInv, RunningBounded
<1>2. ASSUME Running' \subseteq Running
      PROVE  Cardinality(Running') <= Workers
  <2>1. /\ Cardinality(Running') <= Cardinality(Running)
        /\ Cardinality(Running') \in Nat
    BY <1>2, RunningFinite, FS_Subset, FS_CardinalityType
  <2>2. QED
    BY <1>1, <2>1
<1>3. ASSUME NEW r \in Requests, Running' \subseteq Running \cup {r},
             Cardinality(Running) < Workers
      PROVE  Cardinality(Running') <= Workers
  <2>1. /\ IsFiniteSet(Running \cup {r})
        /\ Cardinality(Running \cup {r}) <= Cardinality(Running) + 1
        /\ Cardinality(Running \cup {r}) \in Nat
    <3>1. /\ IsFiniteSet(Running \cup {r})
          /\ \/ Cardinality(Running \cup {r}) = Cardinality(Running)
             \/ Cardinality(Running \cup {r}) = Cardinality(Running) + 1
      BY RunningFinite, FS_AddElement
    <3>2. QED
      BY <1>1, <3>1
  <2>2. /\ Cardinality(Running') <= Cardinality(Running \cup {r})
        /\ Cardinality(Running') \in Nat
    BY <1>3, <2>1, RunningFinite, FS_Subset, FS_CardinalityType
  <2>3. QED
    BY <1>1, <1>3, <2>1, <2>2
<1>4. CASE UNCHANGED request
  BY <1>2, <1>4 DEF Running, RunningBounded
<1>5. ASSUME NEW r \in Requests,
             \A x \in Requests \ {r} : request'[x] = request[x],
             r \in Running \/ Cardinality(Running) < Workers
      PROVE  RunningBounded'
  <2>1. Running' \subseteq Running \cup {r}
    BY <1>5 DEF Running
  <2>2. QED
    BY <1>2, <1>3, <1>5, <2>1 DEF RunningBounded
<1>6. QED
  BY <1>4, <1>5, RequestMoves

-----------------------------------------------------------------------------
(* What requests hold.                                                     *)

\* What is held stays good while others act.
LEMMA HeldKept ==
    ASSUME IInv, [Next]_vars, NEW q \in RequestState, Held(q)
    PROVE  Held(q)'
<1>1. granted \in Nat /\ granted' \in Nat /\ granted <= granted'
  BY StripeMoves, TypeStep DEF IInv, TypeOK
<1>2. \A s \in Known : /\ Later(s) /\ s \in Subs
                       /\ stripe[s].end \in Nat /\ stripe'[s].end \in Nat
  BY StripeMoves, TypeStep, KnownType DEF IInv, Later, Known, TypeOK, StripeSub
<1>3. q.end \in Nat
      /\ \A s \in InList(q.list) : s \in Subs /\ q.list[s].end \in Nat
  BY DEF RequestState, InList, StripeSub
<1>4. q.end <= granted'
  BY <1>1, <1>3 DEF Held
<1>5. \A s \in InList(q.list) : s \in Known' /\ Outdated(q.list[s], stripe'[s])
  <2>1. SUFFICES ASSUME NEW s \in InList(q.list)
                 PROVE  s \in Known' /\ Outdated(q.list[s], stripe'[s])
    OBVIOUS
  <2>2. s \in Known /\ Outdated(q.list[s], stripe[s])
    BY DEF Held
  <2>3. QED
    BY <1>2, <1>3, <2>2 DEF Later, Outdated
<1>6. InProgress(q, "import") /\ q.stage \in {"access", "end"}
         => q.found \in RowsOf(q.sub)'
  <2>1. SUFFICES ASSUME InProgress(q, "import"), q.stage \in {"access", "end"}
                 PROVE  q.found \in RowsOf(q.sub)'
    OBVIOUS
  <2>2. q.sub \in InList(q.list) /\ q.found \in RowsOf(q.sub)
    BY <2>1 DEF Held
  <2>3. QED
    BY <1>3, <2>2, RowsStay
<1>7. InProgress(q, "buy") => q.sub \in Known' /\ q.end <= stripe'[q.sub].end
  <2>1. SUFFICES ASSUME InProgress(q, "buy")
                 PROVE  q.sub \in Known' /\ q.end <= stripe'[q.sub].end
    OBVIOUS
  <2>2. q.sub \in Known /\ q.end <= stripe[q.sub].end
    BY <2>1 DEF Held
  <2>3. QED
    BY <1>2, <1>3, <2>2 DEF Later
<1>8. q.todo \subseteq InList(q.list)
  BY DEF Held
<1>9. InProgress(q, "import") /\ q.stage \in {"create", "access", "end"}
         => q.sub \in InList(q.list)
  BY DEF Held
<1>10. QED
  BY <1>4, <1>5, <1>6, <1>7, <1>8, <1>9 DEF Held

\* A request that is given a date and nothing else to hold.
LEMMA WillHoldDate ==
    ASSUME NEW q, q.list = NoList, q.todo = {}, q.end <= granted',
           ~InProgress(q, "import"),
           InProgress(q, "buy")
              => q.sub \in Known' /\ q.end <= stripe'[q.sub].end
    PROVE  Held(q)'
<1>1. InList(NoList) = {}
  BY DEF InList, NoList
<1>2. QED
  BY <1>1 DEF Held

LEMMA BuyingHolds ==
    ASSUME IInv, [Next]_vars, NEW r \in Requests, Buying(r),
           NEW q \in RequestState, q = request[r], Held(q)',
           NEW new, new = request'[r]
    PROVE  Held(new)'
<1>1. TypeOK /\ StripeSane /\ granted' \in Nat
  BY TypeStep DEF IInv, TypeOK
<1>2. ASSUME NEW s \in Subs, NEW account \in Accounts, NEW plan \in Plans,
             BuyAtStripe(r, s, account, plan)
      PROVE  Held(new)'
  <2>1. new = [IdleRequest EXCEPT !.status = "running", !.task = "buy",
                                  !.sub = s, !.end = now + 1]
    BY <1>1, <1>2 DEF BuyAtStripe, Start, TypeOK
  <2>2. /\ new.list = NoList /\ new.todo = {} /\ new.end = now + 1
        /\ new.sub = s /\ new.task = "buy"
    BY <2>1 DEF IdleRequest
  <2>3. /\ now + 1 <= granted' /\ s \in Known' /\ stripe'[s].end = now + 1
        /\ now + 1 \in Nat
    BY <1>1, <1>2, CreateMoves DEF BuyAtStripe, TypeOK
  <2>4. QED
    BY <2>2, <2>3, WillHoldDate DEF InProgress
<1>3. CASE BuyHere(r)
  <2>1. new = [q EXCEPT !.status = "ok"]
    BY <1>1, <1>3 DEF BuyHere, Continue, TypeOK
  <2>2. QED
    BY <2>1 DEF Held, InProgress, RequestState
<1>4. ASSUME NEW country \in Accounts, Prepay(r, country)
      PROVE  Held(new)'
  <2>1. new = [IdleRequest EXCEPT !.status = "ok", !.task = "other"]
    BY <1>1, <1>4 DEF Prepay, Start, TypeOK
  <2>2. new.list = NoList /\ new.todo = {} /\ new.end = 0 /\ new.task = "other"
    BY <2>1 DEF IdleRequest
  <2>3. QED
    BY <1>1, <2>2, WillHoldDate DEF InProgress
<1>5. QED
  BY <1>2, <1>3, <1>4 DEF Buying

LEMMA ChangingHolds ==
    ASSUME IInv, [Next]_vars, NEW r \in Requests, Changing(r),
           NEW q \in RequestState, q = request[r], Held(q)',
           NEW new, new = request'[r]
    PROVE  Held(new)'
<1>1. TypeOK /\ StripeSane /\ granted' \in Nat
  BY TypeStep DEF IInv, TypeOK
<1>2. ASSUME NEW s \in Subs, NEW plan \in Plans, ChangeAtStripe(r, s, plan)
      PROVE  Held(new)'
  <2>1. new = [IdleRequest EXCEPT
                  !.status = "running", !.task = "change", !.plan = plan,
                  !.sub = s, !.end = stripe[s].end]
    BY <1>1, <1>2 DEF ChangeAtStripe, Start, TypeOK
  <2>2. /\ new.list = NoList /\ new.todo = {} /\ new.end = stripe[s].end
        /\ new.task = "change"
    BY <2>1 DEF IdleRequest
  <2>3. s \in Known /\ stripe[s].end <= granted /\ granted' = granted
    BY <1>1, <1>2 DEF ChangeAtStripe, Retrieved, StripeSane
  <2>4. QED
    BY <2>2, <2>3, WillHoldDate DEF InProgress
<1>3. CASE ChangeHere(r)
  <2>1. new = [q EXCEPT !.status = "ok"]
    BY <1>1, <1>3 DEF ChangeHere, Continue, TypeOK
  <2>2. QED
    BY <2>1 DEF Held, InProgress, RequestState
<1>4. ASSUME request' = [request EXCEPT ![r] =
                 [IdleRequest EXCEPT !.status = "ok", !.task = "other"]]
      PROVE  Held(new)'
  <2>1. new = [IdleRequest EXCEPT !.status = "ok", !.task = "other"]
    BY <1>1, <1>4 DEF TypeOK
  <2>2. new.list = NoList /\ new.todo = {} /\ new.end = 0 /\ new.task = "other"
    BY <2>1 DEF IdleRequest
  <2>3. QED
    BY <1>1, <2>2, WillHoldDate DEF InProgress
<1>5. ASSUME NEW s \in Subs, CancelSubscription(r, s)
      PROVE  Held(new)'
  BY <1>4, <1>5 DEF CancelSubscription, Start
<1>6. ASSUME NEW s \in Subs, NEW old \in Subs, ResubscribeAll(r, s, old)
      PROVE  Held(new)'
  BY <1>4, <1>6 DEF ResubscribeAll, Start
<1>7. QED
  BY <1>2, <1>3, <1>5, <1>6 DEF Changing

LEMMA ImportingHolds ==
    ASSUME IInv, [Next]_vars, NEW r \in Requests, Importing(r),
           NEW q \in RequestState, q = request[r], Held(q)',
           NEW new, new = request'[r]
    PROVE  Held(new)'
<1>1. TypeOK /\ StripeSane /\ granted' \in Nat
  BY TypeStep DEF IInv, TypeOK
<1>2. ASSUME NEW s \in Subs, ImportList(r, s)
      PROVE  Held(new)'
  <2>1. PICK list : list = Listed("uk")
    OBVIOUS
  <2>2. new = [IdleRequest EXCEPT
                  !.status = "running", !.task = "import", !.stage = "look",
                  !.list = list, !.todo = InList(list)]
    BY <1>1, <1>2, <2>1 DEF ImportList, Start, TypeOK
  <2>3. /\ new.list = list /\ new.todo = InList(list) /\ new.end = 0
        /\ new.task = "import" /\ new.stage = "look"
    BY <2>2 DEF IdleRequest
  <2>4. UNCHANGED <<stripe, granted>> /\ 0 <= granted
    BY <1>1, <1>2 DEF ImportList, TypeOK
  <2>5. \A x \in InList(list) : x \in Known /\ Outdated(list[x], stripe[x])
    <3>1. SUFFICES ASSUME NEW x \in InList(list)
                   PROVE  x \in Known /\ Outdated(list[x], stripe[x])
      OBVIOUS
    <3>2. x \in Known /\ list[x] = stripe[x]
      BY <2>1 DEF InList, Listed
    <3>3. stripe[x].end \in Nat /\ stripe[x].ended <= stripe[x].end
      BY <1>1, <3>2, KnownType DEF StripeSane, StripeSub
    <3>4. QED
      BY <3>2, <3>3 DEF Outdated
  <2>6. \A x \in InList(list) : x \in Known' /\ Outdated(list[x], stripe'[x])
    BY <2>4, <2>5 DEF Known
  <2>7. QED
    BY <2>3, <2>4, <2>6 DEF Held, InProgress
<1>3. ASSUME NEW s \in Subs, ImportLook(r, s)
      PROVE  Held(new)'
  <2>1. s \in InList(q.list)
    BY <1>3, LooksAt DEF ImportLook
  <2>2. CASE new = [q EXCEPT !.sub = s, !.stage = "create"]
    BY <1>3, <2>1, <2>2 DEF Held, InProgress, RequestState, ImportLook, InStage
  <2>3. ASSUME NEW m \in RowsOf(s),
               new = [q EXCEPT !.sub = s, !.stage = "access", !.found = m]
        PROVE  Held(new)'
    <3>1. m \in RowsOf(s)'
      BY RowsStay
    <3>2. q.task = "import"
      BY <1>3 DEF ImportLook, InStage
    <3>3. QED
      BY <2>1, <2>3, <3>1, <3>2 DEF Held, InProgress, RequestState
  <2>4. QED
    BY <1>1, <1>3, <2>2, <2>3 DEF ImportLook, Continue, TypeOK
<1>4. ASSUME NEW todo \in SUBSET q.todo,
             new = [q EXCEPT !.stage = "look", !.todo = todo],
             q.task = "import"
      PROVE  Held(new)'
  BY <1>4 DEF Held, InProgress, RequestState
<1>5. ASSUME NEW country \in Accounts, ImportCreate(r, country)
      PROVE  Held(new)'
  <2>1. new = [q EXCEPT !.stage = "look", !.todo = q.todo \ {q.sub}]
    BY <1>1, <1>5 DEF ImportCreate, Continue, TypeOK, RequestState
  <2>2. q.task = "import"
    BY <1>5 DEF ImportCreate, InStage
  <2>3. PICK todo \in SUBSET q.todo : todo = q.todo \ {q.sub}
    OBVIOUS
  <2>4. QED
    BY <1>4, <2>1, <2>2, <2>3
<1>6. CASE ImportAccess(r)
  <2>1. /\ new = [q EXCEPT !.stage = "end"]
        /\ q.stage = "access" /\ q.task = "import"
    BY <1>1, <1>6 DEF ImportAccess, Continue, InStage, TypeOK
  <2>2. QED
    BY <2>1 DEF Held, InProgress, RequestState
<1>7. CASE ImportEnd(r)
  <2>1. new = [q EXCEPT !.stage = "look", !.todo = q.todo \ {q.sub}]
    BY <1>1, <1>7 DEF ImportEnd, Continue, TypeOK, RequestState
  <2>2. q.task = "import"
    BY <1>7 DEF ImportEnd, InStage
  <2>3. PICK todo \in SUBSET q.todo : todo = q.todo \ {q.sub}
    OBVIOUS
  <2>4. QED
    BY <1>4, <2>1, <2>2, <2>3
<1>8. CASE ImportDone(r)
  <2>1. new = [q EXCEPT !.status = "ok"]
    BY <1>1, <1>8 DEF ImportDone, Continue, TypeOK
  <2>2. QED
    BY <2>1 DEF Held, InProgress, RequestState
<1>9. QED
  BY <1>2, <1>3, <1>5, <1>6, <1>7, <1>8 DEF Importing

LEMMA HeldStep ==
    ASSUME IInv, [Next]_vars
    PROVE  HeldSane'
<1>1. SUFFICES ASSUME NEW r \in Requests
               PROVE  Held(request[r])'
  BY DEF HeldSane
<1>2. PICK q, new : q = request[r] /\ new = request'[r]
  OBVIOUS
<1>3. q \in RequestState /\ Held(q)
  BY <1>2, RequestTyped DEF IInv, HeldSane
<1>4. Held(q)'
  BY <1>3, HeldKept
<1>5. SUFFICES Held(new)'
  BY <1>2 DEF Held
<1>6. CASE Buying(r) \/ Changing(r) \/ Importing(r)
  BY <1>2, <1>3, <1>4, <1>6, BuyingHolds, ChangingHolds, ImportingHolds
<1>7. CASE Abandon(r)
  <2>1. new = [q EXCEPT !.status = "failed"]
    BY <1>2, <1>7 DEF Abandon, Continue, IInv, TypeOK
  <2>2. QED
    BY <1>3, <1>4, <2>1 DEF Held, InProgress, RequestState
<1>8. CASE new = q
  BY <1>4, <1>8
<1>9. QED
  BY <1>2, <1>6, <1>7, <1>8, OthersWait

-----------------------------------------------------------------------------
(* Rows and their makers.                                                  *)

\* The request that moves is not making a row for s when it has moved ...
LEMMA MakerGone ==
    ASSUME NEW r \in Requests, NEW s,
           \A x \in Requests \ {r} : request'[x] = request[x],
           ~Making(request'[r], s)
    PROVE  Makers(s)' \subseteq Makers(s)
BY DEF Makers, Making, InProgress

\* ... which is so except after the step that decides to.
LEMMA MakingMoves ==
    ASSUME IInv, [Next]_vars, NEW r \in Requests, NEW s \in Subs,
           Buying(r) \/ Changing(r) \/ Importing(r) \/ Abandon(r)
    PROVE  \/ ~Making(request'[r], s)
           \/ RowsOf(s)' = {}
<1>1. TypeOK /\ request[r] \in RequestState
  BY RequestTyped DEF IInv
<1>2. ASSUME request'[r].status # "running"
      PROVE  ~Making(request'[r], s)
  BY <1>2 DEF Making, InProgress
<1>3. ASSUME request'[r].task # "buy",
             request'[r].task = "import" => request'[r].stage # "create"
      PROVE  ~Making(request'[r], s)
  BY <1>3 DEF Making, InProgress
<1>4. CASE Buying(r)
  <2>1. ASSUME NEW x \in Subs, NEW account \in Accounts, NEW plan \in Plans,
               BuyAtStripe(r, x, account, plan)
        PROVE  ~Making(request'[r], s) \/ RowsOf(s)' = {}
    <3>1. RowsOf(x)' = {}
      <4>1. x \notin Known /\ UNCHANGED row
        BY <2>1 DEF BuyAtStripe, Create
      <4>2. \A m \in Requests : row[m][x] = None
        BY <4>1 DEF IInv, RowsLagBehind
      <4>3. QED
        BY <4>1, <4>2 DEF RowsOf
    <3>2. request'[r] = [IdleRequest EXCEPT
              !.status = "running", !.task = "buy", !.sub = x, !.end = now + 1]
      BY <1>1, <2>1 DEF BuyAtStripe, Start, TypeOK
    <3>3. request'[r].sub = x
      BY <3>2 DEF IdleRequest
    <3>4. QED
      BY <3>1, <3>3 DEF Making
  <2>2. CASE BuyHere(r)
    <3>1. request'[r] = [request[r] EXCEPT !.status = "ok"]
      BY <1>1, <2>2 DEF BuyHere, Continue, TypeOK
    <3>2. QED
      BY <1>1, <1>2, <3>1 DEF RequestState
  <2>3. ASSUME NEW country, Prepay(r, country)
        PROVE  ~Making(request'[r], s)
    <3>1. request'[r] = [IdleRequest EXCEPT !.status = "ok", !.task = "other"]
      BY <1>1, <2>3 DEF Prepay, Start, TypeOK
    <3>2. QED
      BY <1>2, <3>1 DEF IdleRequest
  <2>4. QED
    BY <1>4, <2>1, <2>2, <2>3 DEF Buying
<1>5. CASE Changing(r)
  <2>1. ASSUME NEW x \in Subs, NEW plan \in Plans, ChangeAtStripe(r, x, plan)
        PROVE  ~Making(request'[r], s)
    <3>1. request'[r] = [IdleRequest EXCEPT
              !.status = "running", !.task = "change", !.plan = plan,
              !.sub = x, !.end = stripe[x].end]
      BY <1>1, <2>1 DEF ChangeAtStripe, Start, TypeOK
    <3>2. request'[r].task = "change"
      BY <3>1 DEF IdleRequest
    <3>3. QED
      BY <1>3, <3>2
  <2>2. CASE ChangeHere(r)
    <3>1. request'[r] = [request[r] EXCEPT !.status = "ok"]
      BY <1>1, <2>2 DEF ChangeHere, Continue, TypeOK
    <3>2. QED
      BY <1>1, <1>2, <3>1 DEF RequestState
  <2>3. ASSUME request' = [request EXCEPT ![r] =
                   [IdleRequest EXCEPT !.status = "ok", !.task = "other"]]
        PROVE  ~Making(request'[r], s)
    <3>1. request'[r] = [IdleRequest EXCEPT !.status = "ok", !.task = "other"]
      BY <1>1, <2>3 DEF TypeOK
    <3>2. QED
      BY <1>2, <3>1 DEF IdleRequest
  <2>4. QED
    BY <1>5, <2>1, <2>2, <2>3
       DEF Changing, CancelSubscription, ResubscribeAll, Start
<1>6. CASE Importing(r)
  <2>1. ASSUME NEW x \in Subs, ImportList(r, x)
        PROVE  ~Making(request'[r], s)
    <3>1. request'[r] = [IdleRequest EXCEPT
              !.status = "running", !.task = "import", !.stage = "look",
              !.list = Listed("uk"), !.todo = InList(Listed("uk"))]
      BY <1>1, <2>1 DEF ImportList, Start, TypeOK
    <3>2. request'[r].task = "import" /\ request'[r].stage = "look"
      BY <3>1 DEF IdleRequest
    <3>3. QED
      BY <1>3, <3>2
  <2>2. ASSUME NEW x \in Subs, ImportLook(r, x)
        PROVE  ~Making(request'[r], s) \/ RowsOf(s)' = {}
    <3>1. CASE /\ RowsOf(x) = {} /\ UNCHANGED row
               /\ Continue(r, [request[r] EXCEPT !.sub = x, !.stage = "create"])
      <4>1. request'[r] = [request[r] EXCEPT !.sub = x, !.stage = "create"]
        BY <1>1, <3>1 DEF Continue, TypeOK
      <4>2. request'[r].sub = x
        BY <1>1, <4>1 DEF RequestState
      <4>3. RowsOf(x)' = {}
        BY <3>1 DEF RowsOf
      <4>4. QED
        BY <4>2, <4>3 DEF Making
    <3>2. ASSUME NEW m \in RowsOf(x),
                 Continue(r, [request[r] EXCEPT !.sub = x, !.stage = "access",
                                                !.found = m])
          PROVE  ~Making(request'[r], s)
      <4>1. request'[r] = [request[r] EXCEPT !.sub = x, !.stage = "access",
                                             !.found = m]
        BY <1>1, <3>2 DEF Continue, TypeOK
      <4>2. request'[r].stage = "access" /\ request[r].task = "import"
            /\ request'[r].task = "import"
        BY <1>1, <2>2, <4>1 DEF RequestState, ImportLook, InStage
      <4>3. QED
        BY <1>3, <4>2
    <3>3. QED
      BY <2>2, <3>1, <3>2 DEF ImportLook
  <2>3. ASSUME NEW stage \in {"look", "end"}, NEW todo,
               request[r].task = "import",
               request'[r] = [request[r] EXCEPT !.stage = stage, !.todo = todo]
        PROVE  ~Making(request'[r], s)
    <3>1. request'[r].stage = stage /\ request'[r].task = "import"
      BY <1>1, <2>3 DEF RequestState
    <3>2. QED
      BY <1>3, <3>1
  <2>4. ASSUME NEW country, ImportCreate(r, country)
        PROVE  ~Making(request'[r], s)
    <3>1. request'[r] = [request[r] EXCEPT !.stage = "look",
                            !.todo = request[r].todo \ {request[r].sub}]
      BY <1>1, <2>4 DEF ImportCreate, Continue, TypeOK, RequestState
    <3>2. QED
      BY <2>3, <2>4, <3>1 DEF ImportCreate, InStage
  <2>5. CASE ImportAccess(r)
    <3>1. request'[r] = [request[r] EXCEPT !.stage = "end"]
      BY <1>1, <2>5 DEF ImportAccess, Continue, TypeOK
    <3>2. request'[r].stage = "end" /\ request'[r].task = "import"
      BY <1>1, <2>5, <3>1 DEF RequestState, ImportAccess, InStage
    <3>3. QED
      BY <1>3, <3>2
  <2>6. CASE ImportEnd(r)
    <3>1. request'[r] = [request[r] EXCEPT !.stage = "look",
                            !.todo = request[r].todo \ {request[r].sub}]
      BY <1>1, <2>6 DEF ImportEnd, Continue, TypeOK, RequestState
    <3>2. QED
      BY <2>3, <2>6, <3>1 DEF ImportEnd, InStage
  <2>7. CASE ImportDone(r)
    <3>1. request'[r] = [request[r] EXCEPT !.status = "ok"]
      BY <1>1, <2>7 DEF ImportDone, Continue, TypeOK
    <3>2. QED
      BY <1>1, <1>2, <3>1 DEF RequestState
  <2>8. QED
    BY <1>6, <2>1, <2>2, <2>4, <2>5, <2>6, <2>7 DEF Importing
<1>7. CASE Abandon(r)
  <2>1. request'[r] = [request[r] EXCEPT !.status = "failed"]
    BY <1>1, <1>7 DEF Abandon, Continue, TypeOK
  <2>2. QED
    BY <1>1, <1>2, <2>1 DEF RequestState
<1>8. QED
  BY <1>4, <1>5, <1>6, <1>7

\* A row appears where it was being made.
LEMMA RowsFromMakers ==
    ASSUME IInv, [Next]_vars, NEW s \in Subs
    PROVE  RowsOf(s)' \subseteq RowsOf(s) \cup Makers(s)
<1>1. ASSUME NEW r \in Requests, BuyHere(r)
      PROVE  RowsOf(s)' \subseteq RowsOf(s) \cup Makers(s)
  <2>1. r \in Makers(request[r].sub)
    BY <1>1 DEF BuyHere, InStage, Makers, Making, InProgress
  <2>2. QED
    BY <1>1, <2>1, BuyHereRow
<1>2. ASSUME NEW r \in Requests, NEW country \in Accounts,
             ImportCreate(r, country)
      PROVE  RowsOf(s)' \subseteq RowsOf(s) \cup Makers(s)
  <2>1. r \in Makers(request[r].sub)
    BY <1>2 DEF ImportCreate, InStage, Makers, Making, InProgress
  <2>2. QED
    BY <1>2, <2>1, ImportCreateRow
<1>3. ASSUME NEW r \in Requests, ImportEnd(r)
      PROVE  RowsOf(s)' \subseteq RowsOf(s)
  BY <1>3, ImportEndRow
<1>4. ASSUME NEW r \in Requests, NEW x \in Subs, ImportLook(r, x)
      PROVE  RowsOf(s)' \subseteq RowsOf(s)
  BY <1>4, ImportLookRow
<1>5. CASE UNCHANGED row
  BY <1>5 DEF RowsOf
<1>6. QED
  BY <1>1, <1>2, <1>3, <1>4, <1>5, RowsUnchanged

LEMMA MakersStep ==
    ASSUME IInv, [Next]_vars
    PROVE  MakersBounded'
<1>1. SUFFICES ASSUME NEW s \in Subs
               PROVE  Cardinality(RowsOf(s)' \cup Makers(s)') <= Workers
  BY DEF MakersBounded
<1> DEFINE old == RowsOf(s) \cup Makers(s)
           new == RowsOf(s)' \cup Makers(s)'
<1>2. IsFiniteSet(old)
  <2>1. old \subseteq Requests
    BY DEF RowsOf, Makers
  <2>2. QED
    BY <2>1, RequestsFinite, FS_Subset
<1>3. Cardinality(old) \in Nat /\ Cardinality(old) <= Workers /\ Workers \in Nat
  BY <1>2, FS_CardinalityType, WorkersAssumption DEF IInv, MakersBounded
<1>4. ASSUME NEW T, IsFiniteSet(T), new \subseteq T, Cardinality(T) <= Workers,
             Cardinality(T) \in Nat
      PROVE  Cardinality(new) <= Workers
  <2>1. Cardinality(new) <= Cardinality(T) /\ Cardinality(new) \in Nat
    BY <1>4, FS_Subset, FS_CardinalityType
  <2>2. QED
    BY <1>3, <1>4, <2>1
<1>5. CASE new \subseteq old
  <2>1. PICK T : T = old
    OBVIOUS
  <2>2. QED
    BY <1>2, <1>3, <1>4, <1>5, <2>1
<1>6. CASE RowsOf(s)' = {}
  <2>1. new \subseteq Running'
    BY <1>6 DEF Makers, Making, InProgress, Running
  <2>2. Cardinality(Running') <= Workers /\ Cardinality(Running') \in Nat
    BY RunningStep, RunningFinite, FS_CardinalityType DEF RunningBounded
  <2>3. PICK T : T = Running'
    OBVIOUS
  <2>4. QED
    BY <1>4, <2>1, <2>2, <2>3, RunningFinite
<1>7. CASE Makers(s)' \subseteq Makers(s)
  BY <1>5, <1>7, RowsFromMakers
<1>8. CASE UNCHANGED request
  BY <1>7, <1>8 DEF Makers, Making, InProgress
<1>9. ASSUME NEW r \in Requests,
             Buying(r) \/ Changing(r) \/ Importing(r) \/ Abandon(r),
             \A x \in Requests \ {r} : request'[x] = request[x]
      PROVE  Cardinality(new) <= Workers
  BY <1>6, <1>7, <1>9, MakerGone, MakingMoves
<1>10. QED
  BY <1>8, <1>9, RequestMoves

-----------------------------------------------------------------------------
(* The access date.                                                        *)

LEMMA AccessStep ==
    ASSUME IInv, [Next]_vars
    PROVE  AccessGranted'
<1>1. /\ TypeOK /\ access <= Max2(granted, now)
      /\ now \in Nat /\ granted \in Nat /\ access \in Nat
  BY DEF IInv, TypeOK, AccessGranted
<1>2. granted' \in Nat /\ now' \in Nat /\ granted <= granted' /\ now <= now'
  BY StripeMoves, TypeStep DEF TypeOK
<1>3. CASE UNCHANGED access
  BY <1>1, <1>2, <1>3 DEF AccessGranted, Max2
<1>4. CASE access' \in Nat /\ (access' <= granted' \/ access' <= now')
  BY <1>2, <1>4 DEF AccessGranted, Max2
<1>5. ASSUME NEW r \in Requests
      PROVE  /\ request[r] \in RequestState /\ request[r].end \in Nat
             /\ request[r].end <= granted
  BY <1>1, RequestTyped DEF IInv, HeldSane, Held, RequestState
<1>6. ASSUME NEW r \in Requests, Buying(r)
      PROVE  AccessGranted'
  <2>1. CASE BuyHere(r)
    BY <1>2, <1>1, <1>4, <1>5, <2>1 DEF BuyHere
  <2>2. ASSUME NEW country, Prepay(r, country)
        PROVE  AccessGranted'
    <3>1. access' = now + 1 /\ granted' = Max2(granted, now + 1)
      BY <2>2 DEF Prepay
    <3>2. access' \in Nat /\ access' <= granted'
      BY <1>1, <3>1 DEF Max2
    <3>3. QED
      BY <1>4, <3>2
  <2>3. QED
    BY <1>3, <1>6, <2>1, <2>2 DEF Buying, BuyAtStripe
<1>7. ASSUME NEW r \in Requests, Changing(r)
      PROVE  AccessGranted'
  <2>1. CASE ChangeHere(r)
    <3>1. access' = now \/ access' = request[r].end
      BY <2>1 DEF ChangeHere
    <3>2. QED
      BY <1>1, <1>2, <1>4, <1>5, <3>1
  <2>2. QED
    BY <1>3, <1>7, <2>1
       DEF Changing, ChangeAtStripe, CancelSubscription, ResubscribeAll
<1>8. ASSUME NEW r \in Requests, Importing(r)
      PROVE  AccessGranted'
  <2>1. CASE ImportAccess(r)
    <3>1. PICK s, snapshot : /\ s = request[r].sub
                             /\ snapshot = request[r].list[s]
      OBVIOUS
    <3>2. /\ s \in Known /\ snapshot \in StripeSub
          /\ Outdated(snapshot, stripe[s])
      BY <2>1, <3>1, InHand DEF ImportAccess
    <3>3. /\ snapshot.ended <= snapshot.end /\ snapshot.end <= stripe[s].end
          /\ stripe[s].end <= granted
          /\ snapshot.end \in Nat /\ snapshot.ended \in Nat
          /\ stripe[s].end \in Nat
      BY <1>1, <3>2, KnownType DEF Outdated, IInv, StripeSane, StripeSub
    <3>4. access' = DateOf(snapshot)
      BY <2>1, <3>1 DEF ImportAccess
    <3>5. access' \in Nat /\ access' <= granted
      BY <1>1, <3>3, <3>4 DEF DateOf
    <3>6. QED
      BY <1>1, <1>2, <1>4, <3>5
  <2>2. QED
    BY <1>3, <1>8, <2>1
       DEF Importing, ImportList, ImportLook, ImportCreate, ImportEnd, ImportDone
<1>9. CASE \/ \E r \in Requests : Abandon(r)
           \/ \E s \in Subs : Renew(s) \/ Lapse(s)
           \/ Tick \/ UNCHANGED vars
  BY <1>3, <1>9 DEF Abandon, Renew, Lapse, Tick, vars
<1>10. QED
  BY <1>6, <1>7, <1>8, <1>9 DEF Next

-----------------------------------------------------------------------------
(* The theorems.                                                           *)

LEMMA InitInv == Init => IInv
<1> SUFFICES ASSUME Init PROVE IInv
  OBVIOUS
<1>1. Known = {} /\ TypeOK
  BY InitType DEF Init, Known
<1>2. Running = {} /\ \A s \in Subs : RowsOf(s) \cup Makers(s) = {}
  BY DEF Init, Running, RowsOf, Makers, Making, InProgress, IdleRequest
<1>3. RunningBounded /\ MakersBounded
  <2>1. Cardinality({}) = 0 /\ 0 <= Workers
    BY FS_EmptySet, WorkersAssumption
  <2>2. QED
    BY <1>2, <2>1 DEF RunningBounded, MakersBounded
<1>4. HeldSane
  <2>1. InList(NoList) = {}
    BY DEF InList, NoList
  <2>2. /\ IdleRequest.list = NoList /\ IdleRequest.todo = {}
        /\ IdleRequest.end = 0 /\ IdleRequest.status = "idle"
    BY DEF IdleRequest
  <2>3. Held(IdleRequest)
    BY <2>1, <2>2 DEF Held, InProgress, Init
  <2>4. QED
    BY <2>3 DEF HeldSane, Init
<1>5. StripeSane /\ RowsLagBehind /\ AccessGranted
  BY <1>1 DEF StripeSane, RowsLagBehind, AccessGranted, Init, Max2
<1>6. QED
  BY <1>1, <1>3, <1>4, <1>5 DEF IInv

LEMMA Invariant == Spec => []IInv
<1>1. IInv /\ [Next]_vars => IInv'
  BY TypeStep, RunningStep, StripeMoves, HeldStep, RowsLagStep, MakersStep,
     AccessStep DEF IInv
<1>2. QED
  BY <1>1, InitInv, PTL DEF Spec

\* Every variable keeps its type, with any number of requests and periods.
THEOREM LifecycleTyped == Spec => []TypeOK
<1>1. IInv => TypeOK
  BY DEF IInv
<1>2. QED
  BY <1>1, Invariant, PTL

\* The access date is never past the last period that was given, in whatever
\* order handlers, imports, Stripe and time move.
THEOREM AccessWithinGranted == Spec => []AccessGranted
<1>1. IInv => AccessGranted
  BY DEF IInv
<1>2. QED
  BY <1>1, Invariant, PTL

\* A row says of its subscription what Stripe says, or what it said before.
THEOREM RowsNeverAhead == Spec => []RowsLagBehind
<1>1. IInv => RowsLagBehind
  BY DEF IInv
<1>2. QED
  BY <1>1, Invariant, PTL

\* However many purchases and imports there are, a subscription has no more
\* rows than the server handles requests at a time.
THEOREM CopiesBounded == Spec => []CopiesNeedOverlap
<1>1. ASSUME IInv, NEW s \in Subs
      PROVE  Cardinality(RowsOf(s)) <= Workers
  <2> DEFINE both == RowsOf(s) \cup Makers(s)
  <2>1. IsFiniteSet(both) /\ RowsOf(s) \subseteq both
    <3>1. both \subseteq Requests
      BY DEF RowsOf, Makers
    <3>2. QED
      BY <3>1, RequestsFinite, FS_Subset
  <2>2. /\ Cardinality(RowsOf(s)) <= Cardinality(both)
        /\ Cardinality(RowsOf(s)) \in Nat /\ Cardinality(both) \in Nat
    BY <2>1, FS_Subset, FS_CardinalityType
  <2>3. Cardinality(both) <= Workers
    BY <1>1 DEF IInv, MakersBounded
  <2>4. QED
    BY <2>2, <2>3, WorkersAssumption
<1>2. IInv => CopiesNeedOverlap
  BY <1>1 DEF CopiesNeedOverlap
<1>3. QED
  BY <1>2, Invariant, PTL

-----------------------------------------------------------------------------
(***************************************************************************)
(* A second invariant, of what a request knows that has been alone since   *)
(* it started.  A change knows that the plan at Stripe is the one it has   *)
(* asked for; an import knows which of the subscriptions it has been at    *)
(* had a row, and that the access date is that of the oldest of them.      *)
(***************************************************************************)
Lone(r) == request[r].status = "running" /\ r \notin overlapped

LoneRuns == \A r \in Requests : Lone(r) => Running = {r}

\* A request that was not made has left nothing.
FreshIdle ==
    \A r \in Requests :
        request[r].status = "idle" =>
            request[r].task = "none" /\ \A s \in Subs : row[r][s] = None

PlanKnown(r) ==
    Lone(r) /\ request[r].task = "change" =>
        /\ request[r].sub \in Known
        /\ stripe[request[r].sub].plan = request[r].plan

\* This is the access date of the oldest of these subscriptions.
OldestIs(r, subs, date) ==
    \E s \in subs :
        /\ \A t \in subs : request[r].list[s].born <= request[r].list[t].born
        /\ date = DateOf(request[r].list[s])

OldestOf(r, subs) == OldestIs(r, subs, access)

ImportKnows(r) ==
    /\ request[r].stage \in {"look", "create", "access", "end"}
    /\ \A s \in InList(request[r].list) \ request[r].todo, t \in request[r].todo :
          request[r].list[t].born <= request[r].list[s].born
    /\ \A s \in request[r].todo : r \notin RowsOf(s)
    /\ request[r].stage \in {"look", "create"}
          => \/ HadRow(r) \ request[r].todo = {}
             \/ OldestOf(r, HadRow(r) \ request[r].todo)
    /\ request[r].stage # "look" => request[r].sub \in NextIn(r)
    /\ request[r].stage = "create" => RowsOf(request[r].sub) = {}
    /\ request[r].stage \in {"access", "end"}
          => request[r].sub \in HadRow(r)
    /\ request[r].stage = "end"
          => access = DateOf(request[r].list[request[r].sub])

ImportKnown(r) == Lone(r) /\ request[r].task = "import" => ImportKnows(r)

LoneInv ==
    /\ LoneRuns
    /\ FreshIdle
    /\ \A r \in Requests : PlanKnown(r) /\ ImportKnown(r)
    /\ RoleFollowsPlan

-----------------------------------------------------------------------------
(* Who acts, and who is alone.                                             *)

Acts(r) == Buying(r) \/ Changing(r) \/ Importing(r) \/ Abandon(r)

\* A request goes from idle to what it starts with, or on from where it is.
LEMMA ActsMove ==
    ASSUME IInv, NEW r \in Requests, Acts(r)
    PROVE  /\ request'[r].status # "idle"
           /\ \A x \in Requests \ {r} : request'[x] = request[x]
           /\ \/ r \in Running /\ overlapped' = overlapped
              \/ /\ request[r].status = "idle"
                 /\ overlapped' = IF Running = {} THEN overlapped
                                  ELSE overlapped \cup Running \cup {r}
<1> DEFINE Goal ==
             /\ request'[r].status # "idle"
             /\ \A x \in Requests \ {r} : request'[x] = request[x]
             /\ \/ r \in Running /\ overlapped' = overlapped
                \/ /\ request[r].status = "idle"
                   /\ overlapped' = IF Running = {} THEN overlapped
                                    ELSE overlapped \cup Running \cup {r}
<1>1. request \in [Requests -> RequestState] /\ request[r] \in RequestState
  BY RequestTyped DEF IInv, TypeOK
<1>2. ASSUME NEW state, Start(r, state), state.status # "idle"
      PROVE  Goal
  BY <1>1, <1>2 DEF Start
<1>3. ASSUME NEW state, Continue(r, state), state.status # "idle",
             request[r].status = "running"
      PROVE  Goal
  BY <1>1, <1>3 DEF Continue, Running
<1>4. /\ [request[r] EXCEPT !.status = "ok"].status # "idle"
      /\ [request[r] EXCEPT !.status = "failed"].status # "idle"
  BY <1>1 DEF RequestState
<1>5. [IdleRequest EXCEPT !.status = "ok", !.task = "other"].status # "idle"
  BY DEF IdleRequest
<1>6. CASE Buying(r)
  <2>1. ASSUME NEW s, NEW account, NEW plan, BuyAtStripe(r, s, account, plan)
        PROVE  Goal
    <3>1. PICK state :
            /\ Start(r, state)
            /\ state = [IdleRequest EXCEPT !.status = "running", !.task = "buy",
                                           !.sub = s, !.end = now + 1]
      BY <2>1 DEF BuyAtStripe
    <3>2. QED
      BY <1>2, <3>1 DEF IdleRequest
  <2>2. CASE BuyHere(r)
    BY <1>3, <1>4, <2>2 DEF BuyHere, InStage
  <2>3. ASSUME NEW country, Prepay(r, country)
        PROVE  Goal
    BY <1>2, <1>5, <2>3 DEF Prepay
  <2>4. QED
    BY <1>6, <2>1, <2>2, <2>3 DEF Buying
<1>7. CASE Changing(r)
  <2>1. ASSUME NEW s, NEW plan, ChangeAtStripe(r, s, plan)
        PROVE  Goal
    <3>1. PICK state :
            /\ Start(r, state)
            /\ state = [IdleRequest EXCEPT
                    !.status = "running", !.task = "change", !.plan = plan,
                    !.sub = s, !.end = stripe[s].end]
      BY <2>1 DEF ChangeAtStripe
    <3>2. QED
      BY <1>2, <3>1 DEF IdleRequest
  <2>2. CASE ChangeHere(r)
    BY <1>3, <1>4, <2>2 DEF ChangeHere, InStage
  <2>3. ASSUME NEW s, CancelSubscription(r, s)
        PROVE  Goal
    BY <1>2, <1>5, <2>3 DEF CancelSubscription
  <2>4. ASSUME NEW s, NEW old, ResubscribeAll(r, s, old)
        PROVE  Goal
    BY <1>2, <1>5, <2>4 DEF ResubscribeAll
  <2>5. QED
    BY <1>7, <2>1, <2>2, <2>3, <2>4 DEF Changing
<1>8. CASE Importing(r)
  <2>1. ASSUME NEW s, ImportList(r, s)
        PROVE  Goal
    <3>1. PICK state :
            /\ Start(r, state)
            /\ state = [IdleRequest EXCEPT
                 !.status = "running", !.task = "import", !.stage = "look",
                 !.list = Listed("uk"), !.todo = InList(Listed("uk"))]
      BY <2>1 DEF ImportList
    <3>2. QED
      BY <1>2, <3>1 DEF IdleRequest
  <2>2. ASSUME NEW s, ImportLook(r, s)
        PROVE  Goal
    <3>1. PICK state :
            /\ Continue(r, state)
            /\ \/ state = [request[r] EXCEPT !.sub = s, !.stage = "create"]
               \/ \E m \in RowsOf(s) :
                     state = [request[r] EXCEPT !.sub = s, !.stage = "access",
                                                !.found = m]
      BY <2>2 DEF ImportLook
    <3>2. request[r].status = "running"
      BY <2>2 DEF ImportLook, InStage
    <3>3. state.status = "running"
      BY <1>1, <3>1, <3>2 DEF RequestState
    <3>4. QED
      BY <1>3, <3>1, <3>2, <3>3
  <2>3. ASSUME \/ \E country : ImportCreate(r, country)
               \/ ImportEnd(r)
        PROVE  Goal
    <3>1. PICK state, todo :
            /\ Continue(r, state)
            /\ state = [request[r] EXCEPT !.stage = "look", !.todo = todo]
      <4>1. CASE ImportEnd(r)
        BY <1>1, <4>1 DEF ImportEnd, RequestState
      <4>2. CASE \E country : ImportCreate(r, country)
        BY <1>1, <4>2 DEF ImportCreate, RequestState
      <4>3. QED
        BY <2>3, <4>1, <4>2
    <3>2. request[r].status = "running"
      BY <2>3 DEF ImportCreate, ImportEnd, InStage
    <3>3. state.status = "running"
      BY <1>1, <3>1, <3>2 DEF RequestState
    <3>4. QED
      BY <1>3, <3>1, <3>2, <3>3
  <2>4. CASE ImportAccess(r)
    <3>1. PICK state :
            /\ Continue(r, state)
            /\ state = [request[r] EXCEPT !.stage = "end"]
      BY <2>4 DEF ImportAccess
    <3>2. request[r].status = "running"
      BY <2>4 DEF ImportAccess, InStage
    <3>3. state.status = "running"
      BY <1>1, <3>1, <3>2 DEF RequestState
    <3>4. QED
      BY <1>3, <3>1, <3>2, <3>3
  <2>5. CASE ImportDone(r)
    BY <1>3, <1>4, <2>5 DEF ImportDone, InStage
  <2>6. QED
    BY <1>8, <2>1, <2>2, <2>3, <2>4, <2>5 DEF Importing
<1>9. CASE Abandon(r)
  BY <1>3, <1>4, <1>9 DEF Abandon
<1>10. QED
  BY <1>6, <1>7, <1>8, <1>9 DEF Acts

\* Whoever is alone after a step has made it, and was alone, or started alone.
LEMMA ActsAlone ==
    ASSUME IInv, LoneRuns, NEW r \in Requests, Acts(r),
           NEW x \in Requests, Lone(x)'
    PROVE  /\ x = r
           /\ Running \subseteq {r}
           /\ r \in Running => Lone(r)
<1>1. request'[x].status = "running" /\ x \notin overlapped'
  BY DEF Lone
<1>2. CASE r \in Running /\ overlapped' = overlapped
  <2>1. Lone(x) => Running = {x}
    BY DEF LoneRuns
  <2>2. x # r => Lone(x)
    BY <1>1, <1>2, ActsMove DEF Lone
  <2>3. x = r
    BY <1>2, <2>1, <2>2
  <2>4. Lone(r)
    BY <1>1, <1>2, <2>3 DEF Lone, Running
  <2>5. QED
    BY <2>1, <2>3, <2>4
<1>3. CASE /\ request[r].status = "idle"
           /\ overlapped' = IF Running = {} THEN overlapped
                            ELSE overlapped \cup Running \cup {r}
  <2>1. x # r => x \in Running
    BY <1>1, ActsMove DEF Running
  <2>2. Running = {}
    BY <1>1, <1>3, <2>1
  <2>3. QED
    BY <2>1, <2>2
<1>4. QED
  BY <1>2, <1>3, ActsMove

LEMMA OverlappedGrows ==
    ASSUME IInv, [Next]_vars
    PROVE  overlapped \subseteq overlapped'
<1>1. ASSUME NEW r \in Requests, Acts(r)
      PROVE  overlapped \subseteq overlapped'
  BY <1>1, ActsMove
<1>2. CASE \/ \E s \in Subs : Renew(s) \/ Lapse(s)
           \/ Tick \/ UNCHANGED vars
  BY <1>2 DEF Renew, Lapse, Tick, vars
<1>3. QED
  BY <1>1, <1>2 DEF Next, Acts

\* What Stripe does by itself, and time, and nothing.
Elsewhere ==
    \/ \E s \in Subs : Renew(s) \/ Lapse(s)
    \/ Tick
    \/ UNCHANGED vars

LEMMA ActsOrElsewhere ==
    ASSUME [Next]_vars
    PROVE  (\E r \in Requests : Acts(r)) \/ Elsewhere
BY DEF Next, Acts, Elsewhere

LEMMA ElsewhereStays ==
    ASSUME Elsewhere
    PROVE  UNCHANGED <<row, last, role, access, request, overlapped>>
BY DEF Elsewhere, Renew, Lapse, Tick, vars

LEMMA LoneRunsStep ==
    ASSUME IInv, LoneRuns, [Next]_vars
    PROVE  LoneRuns'
<1>1. CASE Elsewhere
  BY <1>1, ElsewhereStays DEF LoneRuns, Lone, Running
<1>2. ASSUME NEW r \in Requests, Acts(r)
      PROVE  LoneRuns'
  <2>1. SUFFICES ASSUME NEW x \in Requests, Lone(x)'
                 PROVE  Running' = {x}
    BY DEF LoneRuns
  <2>2. x = r /\ Running \subseteq {r}
    BY <1>2, <2>1, ActsAlone
  <2>3. request'[x].status = "running"
    BY <2>1 DEF Lone
  <2>4. \A y \in Requests \ {x} : request'[y].status # "running"
    BY <1>2, <2>2, ActsMove DEF Running
  <2>5. QED
    BY <2>3, <2>4 DEF Running
<1>3. QED
  BY <1>1, <1>2, ActsOrElsewhere

\* Rows come of a request that is running.
LEMMA FreshIdleStep ==
    ASSUME IInv, FreshIdle, [Next]_vars
    PROVE  FreshIdle'
<1>1. SUFFICES ASSUME NEW r \in Requests, request'[r].status = "idle"
               PROVE  /\ request'[r].task = "none"
                      /\ \A s \in Subs : row'[r][s] = None
  BY DEF FreshIdle
<1>2. ~Acts(r)
  BY <1>1, ActsMove
<1>3. request'[r] = request[r]
  BY <1>2, OthersWait DEF Acts
<1>4. request[r].task = "none" /\ \A s \in Subs : row[r][s] = None
  BY <1>1, <1>3 DEF FreshIdle
<1>5. ASSUME NEW s \in Subs
      PROVE  r \notin RowsOf(s)'
  <2>1. r \notin RowsOf(s)
    BY <1>4, <1>5 DEF RowsOf
  <2>2. r \notin Makers(s)
    BY <1>1, <1>3 DEF Makers, Making, InProgress
  <2>3. QED
    BY <1>5, <2>1, <2>2, RowsFromMakers
<1>6. QED
  BY <1>3, <1>4, <1>5 DEF RowsOf

-----------------------------------------------------------------------------
(* Changes of the plan.                                                    *)

\* What a request that runs on is at.
LEMMA RunsOn ==
    ASSUME IInv, NEW r \in Requests, Acts(r), request'[r].status = "running"
    PROVE  \/ request'[r].task = "buy"
           \/ /\ request'[r].task = "change"
              /\ \E s \in Subs, plan \in Plans : ChangeAtStripe(r, s, plan)
           \/ /\ request'[r].task = "import"
              /\ \/ \E s \in Subs : ImportList(r, s) \/ ImportLook(r, s)
                 \/ \E country \in Accounts : ImportCreate(r, country)
                 \/ ImportAccess(r)
                 \/ ImportEnd(r)
<1>1. request \in [Requests -> RequestState] /\ request[r] \in RequestState
  BY RequestTyped DEF IInv, TypeOK
<1>2. /\ ~ Continue(r, [request[r] EXCEPT !.status = "ok"])
      /\ ~ Continue(r, [request[r] EXCEPT !.status = "failed"])
  <2>1. /\ [request[r] EXCEPT !.status = "ok"].status # "running"
        /\ [request[r] EXCEPT !.status = "failed"].status # "running"
    BY <1>1 DEF RequestState
  <2>2. QED
    BY <1>1, <2>1 DEF Continue
<1>3. ~ Start(r, [IdleRequest EXCEPT !.status = "ok", !.task = "other"])
  <2>1. [IdleRequest EXCEPT !.status = "ok", !.task = "other"].status # "running"
    BY DEF IdleRequest
  <2>2. QED
    BY <1>1, <2>1 DEF Start
<1>4. ASSUME Buying(r)
      PROVE  request'[r].task = "buy"
  <2>1. PICK s, state :
          /\ Start(r, state)
          /\ state = [IdleRequest EXCEPT !.status = "running", !.task = "buy",
                                         !.sub = s, !.end = now + 1]
    BY <1>2, <1>3, <1>4 DEF Buying, BuyAtStripe, BuyHere, Prepay
  <2>2. QED
    BY <1>1, <2>1 DEF Start, IdleRequest
<1>5. ASSUME Changing(r)
      PROVE  /\ request'[r].task = "change"
             /\ \E s \in Subs, plan \in Plans : ChangeAtStripe(r, s, plan)
  <2>1. PICK s \in Subs, plan \in Plans : ChangeAtStripe(r, s, plan)
    BY <1>2, <1>3, <1>5
       DEF Changing, ChangeHere, CancelSubscription, ResubscribeAll
  <2>2. PICK state :
          /\ Start(r, state)
          /\ state = [IdleRequest EXCEPT
                  !.status = "running", !.task = "change", !.plan = plan,
                  !.sub = s, !.end = stripe[s].end]
    BY <2>1 DEF ChangeAtStripe
  <2>3. request'[r].task = "change"
    BY <1>1, <2>2 DEF Start, IdleRequest
  <2>4. QED
    BY <2>1, <2>3
<1>6. ASSUME Importing(r)
      PROVE  /\ request'[r].task = "import"
             /\ \/ \E s \in Subs : ImportList(r, s) \/ ImportLook(r, s)
                \/ \E country \in Accounts : ImportCreate(r, country)
                \/ ImportAccess(r)
                \/ ImportEnd(r)
  <2>1. \/ \E s \in Subs : ImportList(r, s) \/ ImportLook(r, s)
        \/ \E country \in Accounts : ImportCreate(r, country)
        \/ ImportAccess(r)
        \/ ImportEnd(r)
    BY <1>2, <1>6 DEF Importing, ImportDone
  <2>2. ASSUME NEW s, ImportList(r, s)
        PROVE  request'[r].task = "import"
    <3>1. PICK state :
            /\ Start(r, state)
            /\ state = [IdleRequest EXCEPT
                 !.status = "running", !.task = "import", !.stage = "look",
                 !.list = Listed("uk"), !.todo = InList(Listed("uk"))]
      BY <2>2 DEF ImportList
    <3>2. QED
      BY <1>1, <3>1 DEF Start, IdleRequest
  <2>3. ASSUME NEW s, ImportLook(r, s)
        PROVE  request'[r].task = "import"
    <3>1. PICK state :
            /\ Continue(r, state)
            /\ \/ state = [request[r] EXCEPT !.sub = s, !.stage = "create"]
               \/ \E m \in RowsOf(s) :
                     state = [request[r] EXCEPT !.sub = s, !.stage = "access",
                                                !.found = m]
      BY <2>3 DEF ImportLook
    <3>2. request'[r].task = request[r].task
      BY <1>1, <3>1 DEF Continue, RequestState
    <3>3. QED
      BY <2>3, <3>2 DEF ImportLook, InStage
  <2>4. ASSUME \/ \E country : ImportCreate(r, country)
               \/ ImportEnd(r)
        PROVE  request'[r].task = "import"
    <3>1. PICK todo :
            Continue(r, [request[r] EXCEPT !.stage = "look", !.todo = todo])
      <4>1. CASE ImportEnd(r)
        BY <1>1, <4>1 DEF ImportEnd, RequestState
      <4>2. CASE \E country : ImportCreate(r, country)
        BY <1>1, <4>2 DEF ImportCreate, RequestState
      <4>3. QED
        BY <2>4, <4>1, <4>2
    <3>2. request'[r].task = request[r].task
      BY <1>1, <3>1 DEF Continue, RequestState
    <3>3. QED
      BY <2>4, <3>2 DEF ImportCreate, ImportEnd, InStage
  <2>5. ASSUME ImportAccess(r)
        PROVE  request'[r].task = "import"
    BY <1>1, <2>5 DEF ImportAccess, Continue, InStage, RequestState
  <2>6. QED
    BY <2>1, <2>2, <2>3, <2>4, <2>5
<1>7. ~ Abandon(r)
  BY <1>2 DEF Abandon
<1>8. QED
  BY <1>4, <1>5, <1>6, <1>7 DEF Acts

\* What a change has asked for is what Stripe has.
LEMMA ChangeAsks ==
    ASSUME IInv, NEW r \in Requests, NEW s \in Subs, NEW plan \in Plans,
           ChangeAtStripe(r, s, plan)
    PROVE  /\ request'[r].status = "running" /\ request'[r].task = "change"
           /\ request'[r].sub = s /\ request'[r].plan = plan
           /\ s \in Known /\ s \in Known' /\ stripe'[s].plan = plan
           /\ \A x \in Subs \ {s} : stripe'[x] = stripe[x]
<1>1. TypeOK /\ s \in Known /\ stripe[s] \in StripeSub
  BY KnownType DEF IInv, ChangeAtStripe, Active
<1>2. PICK state :
        /\ Start(r, state)
        /\ state = [IdleRequest EXCEPT
                !.status = "running", !.task = "change", !.plan = plan,
                !.sub = s, !.end = stripe[s].end]
  BY DEF ChangeAtStripe
<1>3. request'[r] = state
  BY <1>1, <1>2 DEF Start, TypeOK
<1>4. /\ request'[r].status = "running" /\ request'[r].task = "change"
      /\ request'[r].sub = s /\ request'[r].plan = plan
  BY <1>2, <1>3 DEF IdleRequest
<1>5. PICK new : new = [stripe[s] EXCEPT !.plan = plan]
  OBVIOUS
<1>6. new \in StripeSub /\ new.plan = plan
  BY <1>1, <1>5 DEF StripeSub
<1>7. stripe' = [stripe EXCEPT ![s] = new]
  BY <1>5 DEF ChangeAtStripe
<1>8. stripe'[s] = new /\ \A x \in Subs \ {s} : stripe'[x] = stripe[x]
  BY <1>1, <1>7 DEF TypeOK
<1>9. s \in Known'
  BY <1>6, <1>8, NoneAssumption DEF Known
<1>10. QED
  BY <1>1, <1>4, <1>6, <1>8, <1>9

\* Stripe keeps the plans but for a change.
LEMMA PlansMove ==
    ASSUME IInv, [Next]_vars, NEW s \in Known
    PROVE  /\ s \in Known'
           /\ \/ stripe'[s].plan = stripe[s].plan
              \/ \E r \in Requests, plan \in Plans : ChangeAtStripe(r, s, plan)
<1>1. TypeOK /\ s \in Subs /\ stripe[s] \in StripeSub
  BY KnownType DEF IInv
<1> DEFINE Goal == /\ s \in Known'
                   /\ \/ stripe'[s].plan = stripe[s].plan
                      \/ \E r \in Requests, plan \in Plans :
                            ChangeAtStripe(r, s, plan)
<1>2. CASE stripe'[s] = stripe[s]
  BY <1>1, <1>2 DEF Known
<1>3. ASSUME NEW new \in StripeSub, new.plan = stripe[s].plan,
             stripe'[s] = new
      PROVE  Goal
  BY <1>1, <1>3, NoneAssumption DEF Known
<1>4. ASSUME NEW ended \in Nat, NEW x \in Known,
             stripe' = [stripe EXCEPT ![x].status = "canceled",
                                      ![x].ended = ended]
      PROVE  Goal
  <2>1. CASE x = s
    <3>1. PICK new :
            new = [stripe[s] EXCEPT !.status = "canceled", !.ended = ended]
      OBVIOUS
    <3>2. new \in StripeSub /\ new.plan = stripe[s].plan
      BY <1>1, <1>4, <3>1 DEF StripeSub
    <3>3. stripe'[s] = new
      BY <1>1, <1>4, <2>1, <3>1 DEF TypeOK
    <3>4. QED
      BY <1>3, <3>2, <3>3
  <2>2. CASE x # s
    BY <1>1, <1>2, <1>4, <2>2 DEF TypeOK
  <2>3. QED
    BY <2>1, <2>2
<1>5. ASSUME NEW x \in Subs, NEW account, NEW plan, Create(x, account, plan)
      PROVE  Goal
  BY <1>1, <1>2, <1>5 DEF Create, TypeOK
<1>6. ASSUME NEW r \in Requests, Buying(r)
      PROVE  Goal
  BY <1>2, <1>5, <1>6 DEF Buying, BuyAtStripe, BuyHere, Prepay
<1>7. ASSUME NEW r \in Requests, Changing(r)
      PROVE  Goal
  <2>1. ASSUME NEW x \in Subs, NEW plan \in Plans, ChangeAtStripe(r, x, plan)
        PROVE  Goal
    BY <1>1, <1>2, <2>1, ChangeAsks
  <2>2. ASSUME NEW x \in Subs, CancelSubscription(r, x)
        PROVE  Goal
    <3>1. now \in Nat /\ x \in Known
      BY <1>1, <2>2 DEF TypeOK, CancelSubscription, Active
    <3>2. QED
      BY <1>4, <2>2, <3>1 DEF CancelSubscription
  <2>3. QED
    BY <1>2, <1>5, <1>7, <2>1, <2>2 DEF Changing, ChangeHere, ResubscribeAll
<1>8. ASSUME NEW r \in Requests, Importing(r) \/ Abandon(r)
      PROVE  Goal
  BY <1>2, <1>8 DEF Importing, ImportList, ImportLook, ImportCreate,
                    ImportAccess, ImportEnd, ImportDone, Abandon
<1>9. ASSUME NEW x \in Subs, Lapse(x)
      PROVE  Goal
  <2>1. now \in Nat /\ x \in Known
    BY <1>1, <1>9 DEF TypeOK, Lapse, Active
  <2>2. QED
    BY <1>4, <1>9, <2>1 DEF Lapse
<1>10. ASSUME NEW x \in Subs, Renew(x)
       PROVE  Goal
  <2>1. CASE x = s
    <3>1. PICK new : new = [stripe[s] EXCEPT !.end = now + 1]
      OBVIOUS
    <3>2. new \in StripeSub /\ new.plan = stripe[s].plan
      BY <1>1, <3>1 DEF StripeSub, TypeOK
    <3>3. stripe'[s] = new
      BY <1>1, <1>10, <2>1, <3>1 DEF Renew, TypeOK
    <3>4. QED
      BY <1>3, <3>2, <3>3
  <2>2. CASE x # s
    BY <1>1, <1>2, <1>10, <2>2 DEF Renew, TypeOK
  <2>3. QED
    BY <2>1, <2>2
<1>11. CASE Tick \/ UNCHANGED vars
  BY <1>2, <1>11 DEF Tick, vars
<1>12. QED
  BY <1>6, <1>7, <1>8, <1>9, <1>10, <1>11 DEF Next

LEMMA ElsewherePlans ==
    ASSUME IInv, [Next]_vars, Elsewhere, NEW s \in Known
    PROVE  s \in Known' /\ stripe'[s].plan = stripe[s].plan
<1>1. ASSUME NEW r \in Requests, NEW plan \in Plans, ChangeAtStripe(r, s, plan)
      PROVE  FALSE
  <2>1. request[r].status = "idle" /\ request'[r].status = "running"
    BY <1>1, ChangeAsks, KnownType DEF ChangeAtStripe, Start, IInv
  <2>2. QED
    BY <2>1, ElsewhereStays
<1>2. QED
  BY <1>1, PlansMove

LEMMA PlanKnownStep ==
    ASSUME IInv, LoneRuns, [Next]_vars, NEW x \in Requests, PlanKnown(x)
    PROVE  PlanKnown(x)'
<1>1. SUFFICES ASSUME Lone(x)', request'[x].task = "change"
               PROVE  /\ request'[x].sub \in Known'
                      /\ stripe'[request'[x].sub].plan = request'[x].plan
  BY DEF PlanKnown
<1>2. CASE Elsewhere
  <2>1. /\ Lone(x) /\ request[x].task = "change"
        /\ request'[x] = request[x]
    BY <1>1, <1>2, ElsewhereStays DEF Lone
  <2>2. /\ request[x].sub \in Known
        /\ stripe[request[x].sub].plan = request[x].plan
    BY <2>1 DEF PlanKnown
  <2>3. QED
    BY <1>2, <2>1, <2>2, ElsewherePlans
<1>3. ASSUME NEW r \in Requests, Acts(r)
      PROVE  /\ request'[x].sub \in Known'
             /\ stripe'[request'[x].sub].plan = request'[x].plan
  <2>1. x = r /\ request'[r].status = "running"
    BY <1>1, <1>3, ActsAlone DEF Lone
  <2>2. PICK s \in Subs, plan \in Plans : ChangeAtStripe(r, s, plan)
    BY <1>1, <1>3, <2>1, RunsOn
  <2>3. QED
    BY <2>1, <2>2, ChangeAsks
<1>4. QED
  BY <1>2, <1>3, ActsOrElsewhere

-----------------------------------------------------------------------------
(* The role.                                                               *)

\* A change that is not over, or went wrong, or was not alone.
Disturbed(r) ==
    /\ request[r].task = "change"
    /\ r \in overlapped \/ request[r].status \in {"running", "failed"}

LEMMA DisturbedStays ==
    ASSUME IInv, FreshIdle, [Next]_vars, NEW x \in Requests, Disturbed(x)
    PROVE  Disturbed(x)' \/ (ChangeHere(x) /\ x \notin overlapped)
<1>1. request \in [Requests -> RequestState] /\ request[x] \in RequestState
  BY RequestTyped DEF IInv, TypeOK
<1>2. request[x].task = "change" /\ request[x].status # "idle"
  BY DEF Disturbed, FreshIdle
<1>3. CASE request'[x] = request[x]
  BY <1>3, OverlappedGrows DEF Disturbed
<1>4. CASE Acts(x)
  <2>1. \A state : ~ Start(x, state)
    BY <1>2 DEF Start
  <2>2. ChangeHere(x) \/ Abandon(x)
    BY <1>2, <1>4, <2>1
       DEF Acts, Buying, BuyAtStripe, BuyHere, Prepay, Changing, ChangeAtStripe,
           CancelSubscription, ResubscribeAll, Importing, ImportList, ImportLook,
           ImportCreate, ImportAccess, ImportEnd, ImportDone, InStage
  <2>3. CASE Abandon(x)
    <3>1. request'[x] = [request[x] EXCEPT !.status = "failed"]
      BY <1>1, <2>3 DEF Abandon, Continue
    <3>2. request'[x].task = "change" /\ request'[x].status = "failed"
      BY <1>1, <1>2, <3>1 DEF RequestState
    <3>3. QED
      BY <3>2 DEF Disturbed
  <2>4. CASE ChangeHere(x) /\ x \in overlapped
    <3>1. request'[x] = [request[x] EXCEPT !.status = "ok"]
      BY <1>1, <2>4 DEF ChangeHere, Continue
    <3>2. request'[x].task = "change"
      BY <1>1, <1>2, <3>1 DEF RequestState
    <3>3. QED
      BY <2>4, <3>2, OverlappedGrows DEF Disturbed
  <2>5. QED
    BY <2>2, <2>3, <2>4
<1>5. QED
  BY <1>3, <1>4, OthersWait DEF Acts

LEMMA RoleMoves ==
    ASSUME IInv, [Next]_vars
    PROVE  \/ role' = role
           \/ role' = "subscriber"
           \/ \E r \in Requests : ChangeHere(r)
<1>1. ASSUME NEW r \in Requests, Buying(r)
      PROVE  role' = role \/ role' = "subscriber"
  BY <1>1 DEF Buying, BuyAtStripe, BuyHere, Prepay
<1>2. ASSUME NEW r \in Requests, Changing(r)
      PROVE  role' = role \/ ChangeHere(r)
  BY <1>2 DEF Changing, ChangeAtStripe, CancelSubscription, ResubscribeAll
<1>3. ASSUME NEW r \in Requests, Importing(r) \/ Abandon(r)
      PROVE  role' = role
  BY <1>3 DEF Importing, ImportList, ImportLook, ImportCreate, ImportAccess,
              ImportEnd, ImportDone, Abandon
<1>4. CASE Elsewhere
  BY <1>4, ElsewhereStays
<1>5. QED
  BY <1>1, <1>2, <1>3, <1>4, ActsOrElsewhere DEF Acts

LEMMA RolesDiffer ==
    ASSUME NEW plan \in Plans
    PROVE  /\ RoleOf(plan) # "subscriber"
           /\ \A other \in Plans : RoleOf(plan) = RoleOf(other) => plan = other
BY DEF RoleOf, Plans

LEMMA RoleStep ==
    ASSUME IInv, FreshIdle, RoleFollowsPlan, [Next]_vars,
           \A r \in Requests : PlanKnown(r)
    PROVE  RoleFollowsPlan'
<1>1. SUFFICES ASSUME \A r \in Requests : ~ Disturbed(r)',
                      NEW plan \in Plans, role' = RoleOf(plan)
               PROVE  \E s \in Known' : stripe'[s].plan = plan
  BY DEF RoleFollowsPlan, Disturbed
<1>2. ASSUME NEW r \in Requests, ChangeHere(r)
      PROVE  \E s \in Known' : stripe'[s].plan = plan
  <2>1. Disturbed(r)
    BY <1>2 DEF ChangeHere, InStage, Disturbed
  <2>2. r \notin overlapped
    BY <1>1, <2>1, DisturbedStays
  <2>3. /\ request[r].sub \in Known
        /\ stripe[request[r].sub].plan = request[r].plan
    BY <1>2, <2>2 DEF PlanKnown, Lone, ChangeHere, InStage
  <2>4. request[r].plan \in Plans /\ role' = RoleOf(request[r].plan)
    BY <1>2, RequestTyped DEF ChangeHere, RequestState, IInv
  <2>5. request[r].plan = plan
    BY <1>1, <2>4, RolesDiffer
  <2>6. stripe' = stripe
    BY <1>2 DEF ChangeHere
  <2>7. QED
    BY <2>3, <2>5, <2>6 DEF Known
<1>3. ASSUME \A r \in Requests : ~ ChangeHere(r)
      PROVE  \E s \in Known' : stripe'[s].plan = plan
  <2>1. \A r \in Requests : ~ Disturbed(r)
    BY <1>1, <1>3, DisturbedStays
  <2>2. role = RoleOf(plan)
    BY <1>1, <1>3, RoleMoves, RolesDiffer
  <2>3. PICK s \in Known : stripe[s].plan = plan
    BY <2>1, <2>2 DEF RoleFollowsPlan, Disturbed
  <2>4. ASSUME NEW r \in Requests, NEW other \in Plans,
               ChangeAtStripe(r, s, other)
        PROVE  FALSE
    <3>1. request'[r].status = "running" /\ request'[r].task = "change"
      BY <2>4, ChangeAsks DEF Known
    <3>2. QED
      BY <1>1, <3>1 DEF Disturbed
  <2>5. QED
    BY <2>3, <2>4, PlansMove
<1>4. QED
  BY <1>2, <1>3

-----------------------------------------------------------------------------
(* Imports.                                                                *)

\* Nothing of what an import knows changes but the stage and the one in hand.
LEMMA HadRowStays ==
    ASSUME NEW r \in Requests, request'[r].list = request[r].list,
           \A s \in Subs : RowsOf(s)' \ {r} = RowsOf(s) \ {r}
    PROVE  HadRow(r)' = HadRow(r)
BY DEF HadRow, InList

LEMMA ImportListKnown ==
    ASSUME IInv, FreshIdle, NEW r \in Requests, NEW s \in Subs, ImportList(r, s)
    PROVE  ImportKnows(r)'
<1>1. request \in [Requests -> RequestState]
  BY DEF IInv, TypeOK
<1>2. PICK state :
        /\ Start(r, state)
        /\ state = [IdleRequest EXCEPT
             !.status = "running", !.task = "import", !.stage = "look",
             !.list = Listed("uk"), !.todo = InList(Listed("uk"))]
  BY DEF ImportList
<1>3. /\ request'[r].stage = "look"
      /\ request'[r].todo = InList(request'[r].list)
  BY <1>1, <1>2 DEF Start, IdleRequest
<1>4. \A x \in Subs : r \notin RowsOf(x)'
  BY <1>2 DEF FreshIdle, Start, ImportList, RowsOf
<1>5. request'[r].todo \subseteq Subs
  BY <1>3 DEF InList
<1>6. HadRow(r)' \ request'[r].todo = {}
  BY <1>3 DEF HadRow
<1>7. QED
  BY <1>3, <1>4, <1>5, <1>6 DEF ImportKnows

LEMMA ImportLookKnown ==
    ASSUME IInv, NEW r \in Requests, NEW s \in Subs, ImportLook(r, s),
           ImportKnows(r)
    PROVE  ImportKnows(r)'
<1>1. request \in [Requests -> RequestState] /\ request[r] \in RequestState
  BY RequestTyped DEF IInv, TypeOK
<1>2. \A x \in Subs : RowsOf(x)' = RowsOf(x)
  BY ImportLookRow
<1>3. /\ s \in NextIn(r) /\ s \in InList(request[r].list)
      /\ s \in request[r].todo /\ UNCHANGED access
      /\ request[r].stage = "look"
  BY LooksAt DEF ImportLook, NextIn, InStage
<1>4. /\ request'[r].sub = s
      /\ request'[r].list = request[r].list
      /\ request'[r].todo = request[r].todo
      /\ \/ request'[r].stage = "create" /\ RowsOf(s) = {}
         \/ request'[r].stage = "access" /\ RowsOf(s) # {}
  <2>1. ASSUME RowsOf(s) = {},
               Continue(r, [request[r] EXCEPT !.sub = s, !.stage = "create"])
        PROVE  /\ request'[r].stage = "create" /\ request'[r].sub = s
               /\ request'[r].list = request[r].list
               /\ request'[r].todo = request[r].todo
    BY <1>1, <2>1 DEF Continue, RequestState
  <2>2. ASSUME NEW m \in RowsOf(s),
               Continue(r, [request[r] EXCEPT !.sub = s, !.stage = "access",
                                              !.found = m])
        PROVE  /\ request'[r].stage = "access" /\ request'[r].sub = s
               /\ request'[r].list = request[r].list
               /\ request'[r].todo = request[r].todo
    BY <1>1, <2>2 DEF Continue, RequestState
  <2>3. CASE RowsOf(s) = {}
    BY <2>1, <2>3 DEF ImportLook
  <2>4. CASE RowsOf(s) # {}
    <3>1. PICK m \in RowsOf(s) :
            Continue(r, [request[r] EXCEPT !.sub = s, !.stage = "access",
                                           !.found = m])
      BY <2>4 DEF ImportLook
    <3>2. QED
      BY <2>2, <2>4, <3>1
  <2>5. QED
    BY <2>3, <2>4
<1>5. HadRow(r)' = HadRow(r)
  BY <1>2, <1>4, HadRowStays
<1>6. NextIn(r)' = NextIn(r)
  BY <1>4 DEF NextIn
<1>7. \A x \in request[r].todo : x \in Subs
  BY <1>1 DEF RequestState
<1>8. request'[r].stage = "access" => s \in HadRow(r)
  <2>1. r \notin RowsOf(s)
    BY <1>3 DEF ImportKnows
  <2>2. QED
    BY <1>3, <1>4, <2>1 DEF HadRow
<1>9. request'[r].stage = "create"
      => \/ HadRow(r)' \ request'[r].todo = {}
         \/ OldestOf(r, HadRow(r) \ request[r].todo)'
  <2>1. CASE HadRow(r) \ request[r].todo = {}
    BY <1>4, <1>5, <2>1
  <2>2. CASE OldestOf(r, HadRow(r) \ request[r].todo)
    BY <1>3, <1>4, <1>5, <2>2 DEF OldestOf, OldestIs
  <2>3. QED
    BY <1>3, <2>1, <2>2 DEF ImportKnows
<1>10. /\ \A x \in InList(request[r].list) \ request[r].todo,
             t \in request[r].todo :
             request[r].list[t].born <= request[r].list[x].born
       /\ \A x \in request[r].todo : r \notin RowsOf(x)
  BY DEF ImportKnows
<1>11. /\ \A x \in InList(request'[r].list) \ request'[r].todo,
             t \in request'[r].todo :
             request'[r].list[t].born <= request'[r].list[x].born
       /\ \A x \in request'[r].todo : r \notin RowsOf(x)'
  BY <1>2, <1>4, <1>7, <1>10
<1>12. /\ request'[r].stage \in {"create", "access"}
       /\ request'[r].sub \in NextIn(r)'
       /\ request'[r].stage = "create" => (RowsOf(request[r].sub) = {})'
       /\ request'[r].stage = "access" => request'[r].sub \in HadRow(r)'
  BY <1>2, <1>3, <1>4, <1>5, <1>6, <1>8
<1>13. QED
  BY <1>4, <1>9, <1>11, <1>12 DEF ImportKnows

\* What both ways to be through with a subscription have in common.
LEMMA ImportGoesOn ==
    ASSUME IInv, NEW r \in Requests, ImportKnows(r), request[r].stage # "look",
           NEW s \in Subs, s = request[r].sub,
           NEW todo, todo = request[r].todo \ {s},
           Continue(r, [request[r] EXCEPT !.stage = "look", !.todo = todo]),
           \A x \in Subs \ {s} : RowsOf(x)' = RowsOf(x),
           RowsOf(s)' \ {r} = RowsOf(s) \ {r},
           \/ HadRow(r) \ todo = {}
           \/ OldestIs(r, HadRow(r) \ todo, access')
    PROVE  ImportKnows(r)'
<1>1. request \in [Requests -> RequestState] /\ request[r] \in RequestState
  BY RequestTyped DEF IInv, TypeOK
<1>2. /\ request'[r].stage = "look" /\ request'[r].todo = todo
      /\ request'[r].list = request[r].list
  BY <1>1 DEF Continue, RequestState
<1>3. HadRow(r)' = HadRow(r)
  BY <1>2, HadRowStays
<1>4. \/ HadRow(r)' \ request'[r].todo = {}
      \/ OldestOf(r, HadRow(r) \ request[r].todo)'
  BY <1>2, <1>3 DEF OldestOf, OldestIs
<1>5. s \in NextIn(r)
  BY DEF ImportKnows
<1>6. /\ \A x \in InList(request[r].list) \ request[r].todo,
            t \in request[r].todo :
            request[r].list[t].born <= request[r].list[x].born
      /\ \A x \in request[r].todo : r \notin RowsOf(x)
  BY DEF ImportKnows
<1>7. \A x \in InList(request'[r].list) \ request'[r].todo,
         t \in request'[r].todo :
         request'[r].list[t].born <= request'[r].list[x].born
  BY <1>2, <1>5, <1>6 DEF NextIn
<1>8. \A x \in request'[r].todo : r \notin RowsOf(x)'
  BY <1>1, <1>2, <1>6 DEF RequestState
<1>9. QED
  BY <1>2, <1>4, <1>7, <1>8 DEF ImportKnows

LEMMA ImportCreateKnown ==
    ASSUME IInv, NEW r \in Requests, NEW country \in Accounts,
           ImportCreate(r, country), ImportKnows(r)
    PROVE  ImportKnows(r)'
<1>1. request[r] \in RequestState /\ request[r].stage = "create"
  BY RequestTyped DEF IInv, ImportCreate, InStage
<1>2. PICK s, todo : s = request[r].sub /\ todo = request[r].todo \ {s}
  OBVIOUS
<1>3. /\ s \in Subs
      /\ RowsOf(s)' = RowsOf(s) \cup {r}
      /\ \A x \in Subs \ {s} : RowsOf(x)' = RowsOf(x)
  BY <1>2, ImportCreateRow
<1>4. Continue(r, [request[r] EXCEPT !.stage = "look", !.todo = todo])
  BY <1>1, <1>2 DEF ImportCreate, RequestState
<1>5. RowsOf(s) = {}
  BY <1>1, <1>2 DEF ImportKnows
<1>6. HadRow(r) \ todo = HadRow(r) \ request[r].todo
  BY <1>2, <1>5 DEF HadRow
<1>7. \/ HadRow(r) \ todo = {}
      \/ OldestIs(r, HadRow(r) \ todo, access')
  BY <1>1, <1>6 DEF ImportKnows, OldestOf, ImportCreate
<1>8. RowsOf(s)' \ {r} = RowsOf(s) \ {r} /\ request[r].stage # "look"
  BY <1>1, <1>3
<1>9. QED
  BY <1>2, <1>3, <1>4, <1>7, <1>8, ImportGoesOn

LEMMA ImportAccessKnown ==
    ASSUME IInv, NEW r \in Requests, ImportAccess(r), ImportKnows(r)
    PROVE  ImportKnows(r)'
<1>1. request \in [Requests -> RequestState] /\ request[r] \in RequestState
  BY RequestTyped DEF IInv, TypeOK
<1>2. /\ request'[r].stage = "end" /\ request'[r].todo = request[r].todo
      /\ request'[r].list = request[r].list /\ request'[r].sub = request[r].sub
  BY <1>1 DEF ImportAccess, Continue, RequestState
<1>3. /\ UNCHANGED row /\ request[r].stage = "access"
      /\ access' = DateOf(request[r].list[request[r].sub])
  BY DEF ImportAccess, InStage
<1>4. HadRow(r)' = HadRow(r) /\ NextIn(r)' = NextIn(r)
  BY <1>2, <1>3 DEF HadRow, NextIn, RowsOf
<1>5. /\ request'[r].sub \in NextIn(r)' /\ request'[r].sub \in HadRow(r)'
      /\ access' = DateOf(request'[r].list[request'[r].sub])
  BY <1>2, <1>3, <1>4 DEF ImportKnows
<1>6. /\ \A s \in InList(request'[r].list) \ request'[r].todo,
            t \in request'[r].todo :
            request'[r].list[t].born <= request'[r].list[s].born
      /\ \A s \in request'[r].todo : r \notin RowsOf(s)'
  BY <1>2, <1>3 DEF ImportKnows, RowsOf
<1>7. QED
  BY <1>2, <1>5, <1>6 DEF ImportKnows

LEMMA ImportEndKnown ==
    ASSUME IInv, NEW r \in Requests, ImportEnd(r), ImportKnows(r)
    PROVE  ImportKnows(r)'
<1>1. request[r] \in RequestState /\ request[r].stage = "end"
  BY RequestTyped DEF IInv, ImportEnd, InStage
<1>2. PICK s, todo : s = request[r].sub /\ todo = request[r].todo \ {s}
  OBVIOUS
<1>3. s \in Subs /\ \A x \in Subs : RowsOf(x)' = RowsOf(x)
  BY <1>2, ImportEndRow DEF Known
<1>4. Continue(r, [request[r] EXCEPT !.stage = "look", !.todo = todo])
  BY <1>1, <1>2 DEF ImportEnd, RequestState
<1>5. /\ s \in HadRow(r) /\ s \in NextIn(r)
      /\ access = DateOf(request[r].list[s]) /\ UNCHANGED access
  BY <1>1, <1>2 DEF ImportKnows, ImportEnd
<1>6. \A t \in HadRow(r) \ todo :
         request[r].list[s].born <= request[r].list[t].born
  <2>1. SUFFICES ASSUME NEW t \in HadRow(r) \ todo
                 PROVE  request[r].list[s].born <= request[r].list[t].born
    OBVIOUS
  <2>2. CASE t = s
    BY <1>5, <2>2 DEF NextIn
  <2>3. CASE t # s
    BY <1>2, <1>5, <2>1, <2>3 DEF ImportKnows, HadRow, NextIn
  <2>4. QED
    BY <2>2, <2>3
<1>7. OldestIs(r, HadRow(r) \ todo, access')
  BY <1>2, <1>5, <1>6 DEF OldestIs
<1>8. QED
  BY <1>1, <1>2, <1>3, <1>4, <1>7, ImportGoesOn

LEMMA ImportKnownStep ==
    ASSUME IInv, LoneRuns, FreshIdle, [Next]_vars, NEW x \in Requests,
           ImportKnown(x)
    PROVE  ImportKnown(x)'
<1>1. SUFFICES ASSUME Lone(x)', request'[x].task = "import"
               PROVE  ImportKnows(x)'
  BY DEF ImportKnown
<1>2. CASE Elsewhere
  <2>1. UNCHANGED <<row, access, request, overlapped>>
    BY <1>2, ElsewhereStays
  <2>2. ImportKnows(x)
    BY <1>1, <2>1 DEF ImportKnown, Lone
  <2>3. /\ HadRow(x)' = HadRow(x) /\ NextIn(x)' = NextIn(x)
        /\ \A s : RowsOf(s)' = RowsOf(s)
    BY <2>1 DEF HadRow, NextIn, RowsOf
  <2>4. OldestOf(x, HadRow(x) \ request[x].todo)
           => OldestOf(x, HadRow(x) \ request[x].todo)'
    BY <2>1, <2>3 DEF OldestOf, OldestIs
  <2>5. QED
    BY <2>1, <2>2, <2>3, <2>4 DEF ImportKnows
<1>3. ASSUME NEW r \in Requests, Acts(r)
      PROVE  ImportKnows(x)'
  <2>1. /\ x = r /\ request'[r].status = "running"
        /\ r \in Running => Lone(r)
    BY <1>1, <1>3, ActsAlone DEF Lone
  <2>2. \/ \E s \in Subs : ImportList(r, s) \/ ImportLook(r, s)
        \/ \E country \in Accounts : ImportCreate(r, country)
        \/ ImportAccess(r)
        \/ ImportEnd(r)
    BY <1>1, <1>3, <2>1, RunsOn
  <2>3. InProgress(request[r], "import") => ImportKnows(r)
    BY <2>1 DEF InProgress, Running, ImportKnown
  <2>4. ASSUME NEW s \in Subs, ImportLook(r, s)
        PROVE  ImportKnows(r)'
    BY <2>3, <2>4, ImportLookKnown DEF ImportLook, InStage, InProgress
  <2>5. ASSUME NEW country \in Accounts, ImportCreate(r, country)
        PROVE  ImportKnows(r)'
    BY <2>3, <2>5, ImportCreateKnown DEF ImportCreate, InStage, InProgress
  <2>6. CASE ImportAccess(r)
    BY <2>1, <2>3, <2>6, ImportAccessKnown DEF ImportAccess, InStage, InProgress
  <2>7. CASE ImportEnd(r)
    BY <2>1, <2>3, <2>7, ImportEndKnown DEF ImportEnd, InStage, InProgress
  <2>8. QED
    BY <2>1, <2>2, <2>4, <2>5, <2>6, <2>7, ImportListKnown
<1>4. QED
  BY <1>2, <1>3, ActsOrElsewhere

-----------------------------------------------------------------------------
(* The theorems of requests that are alone.                                *)

LEMMA InitAlone == Init => LoneInv
<1> SUFFICES ASSUME Init PROVE LoneInv
  OBVIOUS
<1>1. \A r \in Requests : ~ Lone(r)
  BY DEF Init, Lone, IdleRequest
<1>2. FreshIdle
  BY DEF Init, FreshIdle, IdleRequest
<1>3. RoleFollowsPlan
  BY DEF Init, RoleFollowsPlan, RoleOf
<1>4. QED
  BY <1>1, <1>2, <1>3 DEF LoneInv, LoneRuns, PlanKnown, ImportKnown

LEMMA AloneInvariant == Spec => [](IInv /\ LoneInv)
<1>1. IInv /\ LoneInv /\ [Next]_vars => LoneInv'
  BY LoneRunsStep, FreshIdleStep, PlanKnownStep, ImportKnownStep, RoleStep
     DEF LoneInv
<1>2. QED
  BY <1>1, InitAlone, Invariant, PTL DEF Spec

\* The role is that of a plan at Stripe unless a change was interrupted or
\* disturbed: nothing else takes the two apart, however many requests there are.
THEOREM RoleFollows == Spec => []RoleFollowsPlan
<1>1. LoneInv => RoleFollowsPlan
  BY DEF LoneInv
<1>2. QED
  BY <1>1, AloneInvariant, PTL

\* An import that is alone ends with the access date of the oldest subscription
\* it has found a row for, for any list that Stripe sends it.
THEOREM OldestComesLast == Spec => OldestDecides
<1> DEFINE Decided(r) ==
      /\ request[r].task = "import"
      /\ request[r].status = "running"
      /\ request'[r].status = "ok"
      /\ r \notin overlapped
      /\ HadRow(r) # {}
      => \E s \in HadRow(r) :
            /\ \A t \in HadRow(r) :
                  request[r].list[s].born <= request[r].list[t].born
            /\ access = DateOf(request[r].list[s])
<1>1. ASSUME IInv, LoneInv, [Next]_vars, NEW r \in Requests,
             request[r].task = "import", request[r].status = "running",
             request'[r].status = "ok", r \notin overlapped, HadRow(r) # {}
      PROVE  OldestOf(r, HadRow(r))
  <2>1. request \in [Requests -> RequestState] /\ request[r] \in RequestState
    BY <1>1, RequestTyped DEF IInv, TypeOK
  <2>2. Acts(r)
    BY <1>1, OthersWait DEF Acts
  <2>3. ASSUME NEW stage, NEW state, Continue(r, state),
               state.status = request[r].status
        PROVE  FALSE
    BY <1>1, <2>1, <2>3 DEF Continue
  <2>4. ImportDone(r)
    <3>1. \A state : ~ Start(r, state)
      BY <1>1 DEF Start
    <3>2. ~ Buying(r) /\ ~ Changing(r)
      BY <1>1, <3>1 DEF Buying, BuyAtStripe, BuyHere, Prepay, Changing,
         ChangeAtStripe, ChangeHere, CancelSubscription, ResubscribeAll, InStage
    <3>3. ~ Abandon(r)
      BY <1>1, <2>1 DEF Abandon, Continue, RequestState
    <3>4. ASSUME NEW s, ImportLook(r, s)
          PROVE  FALSE
      <4>1. PICK state :
              /\ Continue(r, state)
              /\ \/ state = [request[r] EXCEPT !.sub = s, !.stage = "create"]
                 \/ \E m \in RowsOf(s) :
                       state = [request[r] EXCEPT !.sub = s, !.stage = "access",
                                                  !.found = m]
        BY <3>4 DEF ImportLook
      <4>2. state.status = request[r].status
        BY <2>1, <4>1 DEF RequestState
      <4>3. QED
        BY <2>3, <4>1, <4>2
    <3>5. ASSUME \/ \E country : ImportCreate(r, country)
                 \/ ImportEnd(r)
          PROVE  FALSE
      <4>1. PICK todo :
              Continue(r, [request[r] EXCEPT !.stage = "look", !.todo = todo])
        <5>1. CASE ImportEnd(r)
          BY <2>1, <5>1 DEF ImportEnd, RequestState
        <5>2. CASE \E country : ImportCreate(r, country)
          BY <2>1, <5>2 DEF ImportCreate, RequestState
        <5>3. QED
          BY <3>5, <5>1, <5>2
      <4>2. [request[r] EXCEPT !.stage = "look", !.todo = todo].status
               = request[r].status
        BY <2>1 DEF RequestState
      <4>3. QED
        BY <2>3, <4>1, <4>2
    <3>6. ~ ImportAccess(r)
      <4>1. [request[r] EXCEPT !.stage = "end"].status = request[r].status
        BY <2>1 DEF RequestState
      <4>2. QED
        BY <2>3, <4>1 DEF ImportAccess
    <3>7. QED
      BY <2>2, <3>1, <3>2, <3>3, <3>4, <3>5, <3>6 DEF Acts, Importing, ImportList
  <2>5. ImportKnows(r)
    BY <1>1 DEF LoneInv, ImportKnown, Lone
  <2>6. request[r].stage = "look" /\ HadRow(r) \ request[r].todo = HadRow(r)
    BY <2>4 DEF ImportDone, InStage
  <2>7. QED
    BY <1>1, <2>5, <2>6 DEF ImportKnows
<1>2. IInv /\ LoneInv /\ [Next]_vars => \A r \in Requests : Decided(r)
  BY <1>1 DEF OldestOf, OldestIs
<1>3. QED
  BY <1>2, AloneInvariant, PTL DEF Spec, OldestDecides
=============================================================================
