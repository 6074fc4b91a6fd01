----------------------------- MODULE SeatsProofs -----------------------------
(***************************************************************************)
(* Proofs about Seats, for any pages, people, subscriptions and seats.     *)
(*                                                                         *)
(* A subscription is bought by one request at a time (BuyersAlone) that    *)
(* nobody can meet before its row is there (Sold, KnowsItsRow), and who is *)
(* buying has their role (BuyersServed); of the forms for more seats that  *)
(* are half-way, Stripe has the quantity of the only one (HalfPaid); a     *)
(* page for linking was drawn with a seat left over (SeenLeft).  Of what a *)
(* step does, RowsMove, StripeMoves, MembersMove, UsersMove, BuyersMove    *)
(* and HalvesMove each say one thing; the parts of the invariant are then  *)
(* by a few cases each.                                                    *)
(***************************************************************************)
EXTENDS Seats, FiniteSetTheorems, TLAPS

\* What a page or handler holds, by its task.
ShapeOf(r) ==
    /\ request[r].task = "buy" =>
          /\ request[r].stage \in {"account", "newAccount", "row"}
          /\ request[r].email \in Emails
          /\ request[r].sub \in Subs
          /\ request[r].quantity \in Quantities
    /\ request[r].task = "link" =>
          /\ request[r].stage \in {"page", "update"}
          /\ request[r].sub \in Subs
          /\ request[r].stage = "update" => request[r].email \in Emails
    /\ request[r].task = "unlink" =>
          request[r].stage = "page" /\ request[r].email \in Emails
    /\ request[r].task = "buyMore" =>
          /\ request[r].stage # "row"
          /\ request[r].email \in Emails
          /\ request[r].sub \in Subs
          /\ request[r].stage = "here" => request[r].quantity \in Quantities
    /\ request[r].task = "none" => request[r].stage = "page"
    /\ request[r].stage = "newAccount" => request[r].account \in Accounts

Shape == \A r \in Requests : ShapeOf(r)

Apart(r, q) ==
    request[r].task = "buy" /\ request[q].task = "buy" /\ r # q
        => request[r].sub # request[q].sub

BuyersAlone == \A r \in Requests, q \in Requests : Apart(r, q)

\* A subscription has a row only once it is at Stripe, and members only once it
\* has a row.
SoldAt(s) ==
    /\ Bought(s) => stripe[s] # 0
    /\ ~Bought(s) => MembersOf(s) = {}

Sold == \A s \in Subs : SoldAt(s)

KnowsItsRowAt(r) ==
    /\ request[r].task = "buy" =>
          ~Bought(request[r].sub) /\ stripe[request[r].sub] = request[r].quantity
    /\ request[r].task \in {"link", "buyMore"} => Bought(request[r].sub)

KnowsItsRow == \A r \in Requests : KnowsItsRowAt(r)

HalfPaidAt(s, r) ==
    s \notin unsettled /\ r \in HalfWay(s)
        => request[r].quantity = stripe[s] /\ HalfWay(s) = {r}

HalfPaid == \A s \in Subs, r \in Requests : HalfPaidAt(s, r)

BuyerServed(r) ==
    LET e == request[r].email IN
    request[r].task = "buy" /\ request[r].sub \notin displaced =>
        /\ Exists(e)
        /\ user[e].subscriber
        /\ request[r].stage = "row" =>
              user[e].accountRole = "boss" /\ user[e].account # None

BuyersServed == \A r \in Requests : BuyerServed(r)

SeenLeftBy(r) ==
    request[r].task = "link" =>
        request[r].seats > Cardinality(request[r].seen) + 1

SeenLeft == \A r \in Requests : SeenLeftBy(r)

\* Who owns a subscription is there.
OwnersExist == \A s \in Subs : Open(s) => Exists(row[s].owner)

OwnersKnown == \A s \in Subs \ displaced : Bought(s) => row[s].owner # None

IInv ==
    /\ TypeOK
    /\ Shape
    /\ OwnersExist
    /\ OwnersKnown
    /\ BuyersAlone
    /\ Sold
    /\ KnowsItsRow
    /\ HalfPaid
    /\ BuyersServed
    /\ SeenLeft
    /\ SeatsRespected
    /\ SeatsArePaid
    /\ PayersAreBosses

-----------------------------------------------------------------------------
(***************************************************************************)
(* Requests: what a step makes of its own, and that it leaves the others.  *)
(***************************************************************************)
OthersKept(r) == \A q \in Requests \ {r} : request'[q] = request[q]

Typed == request' \in [Requests -> RequestState]

LEMMA GoesTo ==
    ASSUME TypeOK, NEW r \in Requests, NEW state \in RequestState, Goes(r, state)
    PROVE  request'[r] = state /\ OthersKept(r) /\ Typed
  BY DEF Goes, TypeOK, OthersKept, Typed

LEMMA IdleFields ==
    /\ Idle \in RequestState
    /\ Idle.task = "none"
    /\ Idle.stage = "page"
  BY DEF Idle, RequestState, Tasks, Stages

\* The request goes on to another stage.
LEMMA NextStage ==
    ASSUME TypeOK, NEW r \in Requests, NEW stage \in Stages,
           Goes(r, [request[r] EXCEPT !.stage = stage])
    PROVE  /\ request'[r].task = request[r].task
           /\ request'[r].stage = stage
           /\ request'[r].email = request[r].email
           /\ request'[r].sub = request[r].sub
           /\ request'[r].account = request[r].account
           /\ request'[r].seen = request[r].seen
           /\ request'[r].seats = request[r].seats
           /\ request'[r].quantity = request[r].quantity
           /\ OthersKept(r)
           /\ Typed
  <1> DEFINE state == [request[r] EXCEPT !.stage = stage]
  <1>1. request[r] \in RequestState
    BY DEF TypeOK
  <1>2. /\ state \in RequestState
        /\ state.task = request[r].task
        /\ state.stage = stage
        /\ state.email = request[r].email
        /\ state.sub = request[r].sub
        /\ state.account = request[r].account
        /\ state.seen = request[r].seen
        /\ state.seats = request[r].seats
        /\ state.quantity = request[r].quantity
    BY <1>1 DEF RequestState
  <1> HIDE DEF state
  <1>3. Goes(r, state)
    BY DEF state
  <1> QED
    BY <1>2, <1>3, GoesTo

LEMMA BuyFields ==
    ASSUME TypeOK, NEW r \in Requests, NEW e \in Emails, NEW s \in Subs,
           NEW quantity \in Quantities, Buy(r, e, s, quantity)
    PROVE  /\ request[r] = Idle
           /\ request'[r].task = "buy"
           /\ request'[r].stage = "account"
           /\ request'[r].email = e
           /\ request'[r].sub = s
           /\ request'[r].quantity = quantity
           /\ OthersKept(r)
           /\ Typed
           /\ stripe[s] = 0
           /\ stripe'[s] = quantity
           /\ \A t \in Subs \ {s} : stripe'[t] = stripe[t]
           /\ UNCHANGED <<row, used, strained, unsettled, displaced>>
  <1> DEFINE state == [Idle EXCEPT !.task = "buy", !.stage = "account", !.email = e,
                                   !.sub = s, !.quantity = quantity]
  <1>1. /\ state \in RequestState
        /\ state.task = "buy"
        /\ state.stage = "account"
        /\ state.email = e
        /\ state.sub = s
        /\ state.quantity = quantity
    BY DEF Idle, RequestState, Tasks, Stages
  <1>2. Goes(r, state)
    BY DEF Buy
  <1> HIDE DEF state
  <1>3. request'[r] = state /\ OthersKept(r) /\ Typed
    BY <1>1, <1>2, GoesTo
  <1> QED
    BY <1>1, <1>3 DEF Buy, TypeOK

\* user_account is over: a purchase goes on to its row, anything else ends.
LEMMA AfterAccountFields ==
    ASSUME TypeOK, NEW r \in Requests, Goes(r, AfterAccount(r))
    PROVE  /\ request[r].task = "buy" =>
                 /\ request'[r].task = "buy"
                 /\ request'[r].stage = "row"
                 /\ request'[r].email = request[r].email
                 /\ request'[r].sub = request[r].sub
                 /\ request'[r].quantity = request[r].quantity
           /\ request[r].task # "buy" => request'[r] = Idle
           /\ OthersKept(r)
           /\ Typed
  <1>1. CASE request[r].task = "buy"
    BY <1>1, NextStage DEF AfterAccount, Stages
  <1>2. CASE request[r].task # "buy"
    BY <1>2, GoesTo, IdleFields DEF AfterAccount
  <1> QED
    BY <1>1, <1>2

LEMMA CreateAccountFields ==
    ASSUME TypeOK, NEW r \in Requests, NEW a \in Accounts, CreateAccount(r, a)
    PROVE  /\ request[r].stage = "account"
           /\ request'[r].task = request[r].task
           /\ request'[r].stage = "newAccount"
           /\ request'[r].email = request[r].email
           /\ request'[r].sub = request[r].sub
           /\ request'[r].account = a
           /\ request'[r].seen = request[r].seen
           /\ request'[r].seats = request[r].seats
           /\ request'[r].quantity = request[r].quantity
           /\ OthersKept(r)
           /\ Typed
           /\ used' = used \cup {a}
           /\ UNCHANGED <<user, row, stripe, strained, unsettled, displaced>>
  <1> DEFINE state == [request[r] EXCEPT !.stage = "newAccount", !.account = a]
  <1>1. request[r] \in RequestState
    BY DEF TypeOK
  <1>2. /\ state \in RequestState
        /\ state.task = request[r].task
        /\ state.stage = "newAccount"
        /\ state.email = request[r].email
        /\ state.sub = request[r].sub
        /\ state.account = a
        /\ state.seen = request[r].seen
        /\ state.seats = request[r].seats
        /\ state.quantity = request[r].quantity
    BY <1>1 DEF RequestState, Stages
  <1>3. Goes(r, state)
    BY DEF CreateAccount
  <1> HIDE DEF state
  <1>4. request'[r] = state /\ OthersKept(r) /\ Typed
    BY <1>2, <1>3, GoesTo
  <1> QED
    BY <1>2, <1>4 DEF CreateAccount

\* A page for linking has seen its members, and has a seat left over.
LEMMA DrawLinkFields ==
    ASSUME TypeOK, OwnersExist, NEW r \in Requests, NEW s \in Subs, DrawLink(r, s)
    PROVE  /\ request[r] = Idle
           /\ Open(s)
           /\ request'[r].task = "link"
           /\ request'[r].stage = "page"
           /\ request'[r].sub = s
           /\ request'[r].seats > Cardinality(request'[r].seen) + 1
           /\ OthersKept(r)
           /\ Typed
           /\ UNCHANGED <<user, row, stripe, used, strained, unsettled, displaced>>
  <1> DEFINE a == user[row[s].owner].account
             seen == MembersIn(a, s)
             state == [Idle EXCEPT !.task = "link", !.sub = s, !.account = a,
                                   !.seen = seen, !.seats = row[s].seats]
  <1>1. row[s] \in Row /\ row[s].owner \in Emails
    BY DEF DrawLink, Open, Bought, TypeOK, Row
  <1>2. user[row[s].owner] \in UserRow \cup {None}
    BY <1>1 DEF TypeOK
  <1>3. user[row[s].owner].accountRole = "boss" /\ Goes(r, state)
    BY DEF DrawLink, BossPage
  <1>4. Idle = request[r] /\ Open(s)
    BY DEF DrawLink, BossPage
  <1>5. a \in Accounts \cup {None}
    <2>1. user[row[s].owner] \in UserRow
      BY <1>2, <1>4 DEF OwnersExist, Exists
    <2> QED
      BY <2>1 DEF UserRow
  <1>6. seen \in SUBSET Emails /\ row[s].seats \in Nat
    BY <1>1 DEF MembersIn, MembersOf, Row, Quantities
  <1>7. row[s].seats > Cardinality(seen) + 1
    BY DEF DrawLink, SeatLeft
  <1> HIDE DEF a, seen
  <1>8. /\ state \in RequestState
        /\ state.task = "link"
        /\ state.stage = "page"
        /\ state.sub = s
        /\ state.seats = row[s].seats
        /\ state.seen = seen
    BY <1>5, <1>6 DEF Idle, RequestState, Tasks, Stages
  <1> HIDE DEF state
  <1>9. request'[r] = state /\ OthersKept(r) /\ Typed
    BY <1>3, <1>8, GoesTo
  <1> QED
    BY <1>4, <1>7, <1>8, <1>9 DEF DrawLink, BossPage


LEMMA NewRowFields ==
    ASSUME TypeOK, NEW r \in Requests, NewRow(r)
    PROVE  /\ request[r].task = "buy"
           /\ request[r].stage = "row"
           /\ Exists(request[r].email)
           /\ request'[r] = Idle
           /\ OthersKept(r)
           /\ Typed
           /\ UNCHANGED <<user, stripe, used, strained, unsettled, displaced>>
  <1>1. request'[r] = Idle /\ OthersKept(r) /\ Typed
    BY GoesTo, IdleFields DEF NewRow
  <1> QED
    BY <1>1 DEF NewRow, Is

LEMMA DrawUnlinkFields ==
    ASSUME TypeOK, NEW r \in Requests, NEW s \in Subs, NEW e \in Emails,
           DrawUnlink(r, s, e)
    PROVE  /\ request[r] = Idle
           /\ request'[r].task = "unlink"
           /\ request'[r].stage = "page"
           /\ request'[r].email = e
           /\ OthersKept(r)
           /\ Typed
           /\ UNCHANGED <<user, row, stripe, used, strained, unsettled, displaced>>
  <1> DEFINE state == [Idle EXCEPT !.task = "unlink", !.email = e]
  <1>1. /\ state \in RequestState
        /\ state.task = "unlink"
        /\ state.stage = "page"
        /\ state.email = e
    BY DEF Idle, RequestState, Tasks, Stages
  <1>2. Goes(r, state)
    BY DEF DrawUnlink, BossPage
  <1> HIDE DEF state
  <1>3. request'[r] = state /\ OthersKept(r) /\ Typed
    BY <1>1, <1>2, GoesTo
  <1> QED
    BY <1>1, <1>3 DEF DrawUnlink, BossPage

LEMMA DrawBuyMoreFields ==
    ASSUME TypeOK, NEW r \in Requests, NEW s \in Subs, DrawBuyMore(r, s)
    PROVE  /\ request[r] = Idle
           /\ Open(s)
           /\ request'[r].task = "buyMore"
           /\ request'[r].stage = "page"
           /\ request'[r].email \in Emails
           /\ request'[r].sub = s
           /\ OthersKept(r)
           /\ Typed
           /\ UNCHANGED <<user, row, stripe, used, strained, unsettled, displaced>>
  <1> DEFINE e == row[s].owner
             state == [Idle EXCEPT !.task = "buyMore", !.email = e, !.sub = s]
  <1>1. e \in Emails
    BY DEF DrawBuyMore, Open, Bought, TypeOK, Row
  <1>2. Goes(r, state)
    BY DEF DrawBuyMore
  <1> HIDE DEF e
  <1>3. /\ state \in RequestState
        /\ state.task = "buyMore"
        /\ state.stage = "page"
        /\ state.email = e
        /\ state.sub = s
    BY <1>1 DEF Idle, RequestState, Tasks, Stages
  <1> HIDE DEF state
  <1>4. request'[r] = state /\ OthersKept(r) /\ Typed
    BY <1>2, <1>3, GoesTo
  <1> QED
    BY <1>1, <1>3, <1>4 DEF DrawBuyMore

LEMMA LinkFindFields ==
    ASSUME TypeOK, NEW r \in Requests, NEW e \in Emails, LinkFind(r, e)
    PROVE  /\ request[r].task = "link"
           /\ request'[r].task = "link"
           /\ request'[r].stage = "update"
           /\ request'[r].email = e
           /\ request'[r].sub = request[r].sub
           /\ request'[r].seen = request[r].seen
           /\ request'[r].seats = request[r].seats
           /\ OthersKept(r)
           /\ Typed
           /\ UNCHANGED <<row, stripe, used, strained, unsettled, displaced>>
  <1> DEFINE state == [request[r] EXCEPT !.stage = "update", !.email = e]
  <1>1. request[r] \in RequestState
    BY DEF TypeOK
  <1>2. /\ state \in RequestState
        /\ state.task = request[r].task
        /\ state.stage = "update"
        /\ state.email = e
        /\ state.sub = request[r].sub
        /\ state.seen = request[r].seen
        /\ state.seats = request[r].seats
    BY <1>1 DEF RequestState, Stages
  <1>3. Goes(r, state)
    BY DEF LinkFind
  <1> HIDE DEF state
  <1>4. request'[r] = state /\ OthersKept(r) /\ Typed
    BY <1>2, <1>3, GoesTo
  <1> QED
    BY <1>2, <1>4 DEF LinkFind, Is

LEMMA BuyMoreAtStripeFields ==
    ASSUME TypeOK, NEW r \in Requests, NEW quantity \in Quantities,
           BuyMoreAtStripe(r, quantity)
    PROVE  /\ request[r].task = "buyMore"
           /\ request[r].stage = "page"
           /\ request'[r].task = "buyMore"
           /\ request'[r].stage = "here"
           /\ request'[r].email = request[r].email
           /\ request'[r].sub = request[r].sub
           /\ request'[r].quantity = quantity
           /\ OthersKept(r)
           /\ Typed
           /\ UNCHANGED <<user, row, used, strained, displaced>>
  <1> DEFINE state == [request[r] EXCEPT !.stage = "here", !.quantity = quantity]
  <1>1. request[r] \in RequestState
    BY DEF TypeOK
  <1>2. /\ state \in RequestState
        /\ state.task = request[r].task
        /\ state.stage = "here"
        /\ state.email = request[r].email
        /\ state.sub = request[r].sub
        /\ state.quantity = quantity
    BY <1>1 DEF RequestState, Stages
  <1>3. Goes(r, state)
    BY DEF BuyMoreAtStripe
  <1> HIDE DEF state
  <1>4. request'[r] = state /\ OthersKept(r) /\ Typed
    BY <1>2, <1>3, GoesTo
  <1> QED
    BY <1>2, <1>4 DEF BuyMoreAtStripe, Is

LEMMA BuyMoreHereFields ==
    ASSUME TypeOK, NEW r \in Requests, BuyMoreHere(r)
    PROVE  /\ request[r].task = "buyMore"
           /\ request[r].stage = "here"
           /\ request'[r].task = "buyMore"
           /\ request'[r].stage = "account"
           /\ request'[r].email = request[r].email
           /\ request'[r].sub = request[r].sub
           /\ OthersKept(r)
           /\ Typed
           /\ UNCHANGED <<user, stripe, used, displaced>>
  <1>1. Goes(r, [request[r] EXCEPT !.stage = "account"])
    BY DEF BuyMoreHere
  <1>2. /\ request'[r].task = request[r].task
        /\ request'[r].stage = "account"
        /\ request'[r].email = request[r].email
        /\ request'[r].sub = request[r].sub
        /\ OthersKept(r)
        /\ Typed
    BY <1>1, NextStage DEF Stages
  <1> QED
    BY <1>2 DEF BuyMoreHere, Is

LEMMA EndsFields ==
    ASSUME TypeOK, NEW r \in Requests, Abandon(r) \/ LinkUpdate(r) \/ Unlink(r)
    PROVE  /\ request'[r] = Idle
           /\ OthersKept(r)
           /\ Typed
           /\ UNCHANGED <<row, stripe, used>>
  <1>1. Goes(r, Idle) /\ UNCHANGED <<row, stripe, used>>
    BY DEF Abandon, LinkUpdate, Unlink
  <1> QED
    BY <1>1, GoesTo, IdleFields

-----------------------------------------------------------------------------
(***************************************************************************)
(* Every step leaves the types as they are.                                *)
(***************************************************************************)
UsersTyped == user' \in [Emails -> UserRow \cup {None}]

LEMMA NewUserTyped == NewUser \in UserRow
  BY DEF NewUser, UserRow

LEMMA UserSet ==
    ASSUME TypeOK, NEW e \in Emails, NEW x \in UserRow,
           user' = [user EXCEPT ![e] = x]
    PROVE  /\ user'[e] = x
           /\ user'[e] # None
           /\ \A f \in Emails \ {e} : user'[f] = user[f]
           /\ UsersTyped
  <1>1. user'[e] = x /\ UsersTyped /\ \A f \in Emails \ {e} : user'[f] = user[f]
    BY DEF TypeOK, UsersTyped
  <1> QED
    BY <1>1, NoneAssumption DEF Exists

\* The role of a subscriber, with or without a user before.
LEMMA BuyUser ==
    ASSUME TypeOK, NEW r \in Requests, NEW e \in Emails, NEW s \in Subs,
           NEW quantity \in Quantities, Buy(r, e, s, quantity)
    PROVE  /\ user'[e] # None
           /\ user'[e].subscriber
           /\ Exists(e) => /\ user'[e].account = user[e].account
                           /\ user'[e].accountRole = user[e].accountRole
                           /\ user'[e].sub = user[e].sub
           /\ ~Exists(e) => user'[e].accountRole = "none"
           /\ \A f \in Emails \ {e} : user'[f] = user[f]
           /\ UsersTyped
  <1> DEFINE x == IF Exists(e) THEN [user[e] EXCEPT !.subscriber = TRUE]
                  ELSE [NewUser EXCEPT !.subscriber = TRUE]
  <1>1. /\ x \in UserRow
        /\ x.subscriber
        /\ Exists(e) => /\ x.account = user[e].account
                        /\ x.accountRole = user[e].accountRole
                        /\ x.sub = user[e].sub
        /\ ~Exists(e) => x.accountRole = "none"
    <2>1. CASE Exists(e)
      <3>1. user[e] \in UserRow
        BY <2>1 DEF TypeOK, Exists
      <3> QED
        BY <2>1, <3>1 DEF UserRow
    <2>2. CASE ~Exists(e)
      BY <2>2 DEF UserRow, NewUser
    <2> QED
      BY <2>1, <2>2
  <1>2. user' = [user EXCEPT ![e] = x]
    BY DEF Buy
  <1> HIDE DEF x
  <1> QED
    BY <1>1, <1>2, UserSet

LEMMA KeepAccountUser ==
    ASSUME TypeOK, Shape, NEW r \in Requests, KeepAccount(r)
    PROVE  LET e == request[r].email IN
           /\ e \in Emails
           /\ Exists(e)
           /\ user'[e] # None
           /\ user'[e].accountRole = "boss"
           /\ user'[e].account = user[e].account
           /\ user'[e].account # None
           /\ user'[e].subscriber = user[e].subscriber
           /\ \A f \in Emails \ {e} : user'[f] = user[f]
           /\ UsersTyped
  <1> DEFINE e == request[r].email
  <1>1. e \in Emails
    <2>1. ShapeOf(r) /\ request[r] \in RequestState /\ request[r].stage = "account"
      BY DEF Shape, TypeOK, KeepAccount
    <2> QED
      BY <2>1 DEF ShapeOf, RequestState, Tasks
  <1>2. Exists(e) /\ user[e].account # None
    BY DEF KeepAccount
  <1>3. user[e] \in UserRow
    BY <1>1, <1>2 DEF TypeOK, Exists
  <1> DEFINE x == [user[e] EXCEPT !.accountRole = "boss", !.sub = None]
  <1>4. user' = [user EXCEPT ![e] = x]
    BY <1>1 DEF KeepAccount, TypeOK
  <1>5. /\ x \in UserRow
        /\ x.accountRole = "boss"
        /\ x.account = user[e].account
        /\ x.subscriber = user[e].subscriber
    BY <1>3 DEF UserRow
  <1> HIDE DEF x, e
  <1>6. /\ user'[e] = x
        /\ user'[e] # None
        /\ \A f \in Emails \ {e} : user'[f] = user[f]
        /\ UsersTyped
    BY <1>1, <1>4, <1>5, UserSet
  <1>7. user'[e].account # None
    BY <1>2, <1>5, <1>6
  <1> QED
    BY <1>1, <1>2, <1>5, <1>6, <1>7 DEF e

LEMMA LinkAccountUser ==
    ASSUME TypeOK, Shape, NEW r \in Requests, LinkAccount(r)
    PROVE  LET e == request[r].email IN
           /\ e \in Emails
           /\ Exists(e)
           /\ user'[e] # None
           /\ user'[e].accountRole = "boss"
           /\ user'[e].account # None
           /\ user'[e].subscriber = user[e].subscriber
           /\ \A f \in Emails \ {e} : user'[f] = user[f]
           /\ UsersTyped
  <1> DEFINE e == request[r].email
             a == request[r].account
  <1>1. e \in Emails /\ a \in Accounts
    <2>1. /\ ShapeOf(r)
          /\ request[r] \in RequestState
          /\ request[r].stage = "newAccount"
      BY DEF Shape, TypeOK, LinkAccount
    <2> QED
      BY <2>1 DEF ShapeOf, RequestState, Tasks
  <1>2. Exists(e)
    BY DEF LinkAccount
  <1>3. user[e] \in UserRow
    BY <1>1, <1>2 DEF TypeOK, Exists
  <1>4. a # None
    BY <1>1, NoneIsNothing
  <1> DEFINE x == [user[e] EXCEPT !.account = a, !.accountRole = "boss"]
  <1>5. user' = [user EXCEPT ![e] = x]
    BY <1>1 DEF LinkAccount, TypeOK
  <1>6. /\ x \in UserRow
        /\ x.accountRole = "boss"
        /\ x.account = a
        /\ x.subscriber = user[e].subscriber
    BY <1>1, <1>3 DEF UserRow
  <1> HIDE DEF x, a, e
  <1>7. /\ user'[e] = x
        /\ user'[e] # None
        /\ \A f \in Emails \ {e} : user'[f] = user[f]
        /\ UsersTyped
    BY <1>1, <1>5, <1>6, UserSet
  <1>8. user'[e].account # None
    BY <1>4, <1>6, <1>7
  <1> QED
    BY <1>1, <1>2, <1>6, <1>7, <1>8 DEF e

LEMMA LinkFindUser ==
    ASSUME TypeOK, NEW r \in Requests, NEW e \in Emails, LinkFind(r, e)
    PROVE  /\ user'[e] # None
           /\ Exists(e) => user'[e] = user[e]
           /\ ~Exists(e) => user'[e].accountRole = "none"
           /\ \A f \in Emails \ {e} : user'[f] = user[f]
           /\ UsersTyped
  <1>1. CASE Exists(e)
    <2>1. user' = [user EXCEPT ![e] = user[e]] /\ user[e] \in UserRow
      BY <1>1 DEF LinkFind, TypeOK, Exists
    <2> QED
      BY <1>1, <2>1, UserSet
  <1>2. CASE ~Exists(e)
    <2>1. user' = [user EXCEPT ![e] = NewUser]
      BY <1>2 DEF LinkFind
    <2>2. NewUser.accountRole = "none"
      BY DEF NewUser
    <2> QED
      BY <1>2, <2>1, <2>2, UserSet, NewUserTyped
  <1> QED
    BY <1>1, <1>2

LEMMA LinkUpdateUser ==
    ASSUME TypeOK, Shape, NEW r \in Requests, LinkUpdate(r)
    PROVE  LET e == request[r].email IN
           /\ request[r].task = "link"
           /\ request[r].sub \in Subs
           /\ e \in Emails
           /\ user'[e] # None
           /\ user'[e].sub = request[r].sub
           /\ \A f \in Emails \ {e} : user'[f] = user[f]
           /\ UsersTyped
  <1> DEFINE q == request[r]
             x == [account |-> q.account, accountRole |-> "member",
                   sub |-> q.sub, subscriber |-> TRUE]
  <1>1. q \in RequestState /\ ShapeOf(r) /\ q.task = "link" /\ q.stage = "update"
    BY DEF TypeOK, Shape, LinkUpdate, Is
  <1>2. q.email \in Emails /\ q.sub \in Subs
    BY <1>1 DEF ShapeOf
  <1>3. x \in UserRow /\ x.sub = q.sub
    BY <1>1, <1>2 DEF RequestState, UserRow
  <1>4. user' = [user EXCEPT ![q.email] = x]
    BY DEF LinkUpdate
  <1> HIDE DEF x
  <1> QED
    BY <1>1, <1>2, <1>3, <1>4, UserSet

LEMMA UnlinkUser ==
    ASSUME TypeOK, Shape, NEW r \in Requests, Unlink(r)
    PROVE  LET e == request[r].email IN
           /\ e \in Emails
           /\ user'[e] # None
           /\ user'[e].accountRole = "none"
           /\ \A f \in Emails \ {e} : user'[f] = user[f]
           /\ UsersTyped
  <1> DEFINE e == request[r].email
  <1>1. ShapeOf(r) /\ request[r].task = "unlink"
    BY DEF Shape, Unlink, Is
  <1>2. e \in Emails
    BY <1>1 DEF ShapeOf
  <1>3. user' = [user EXCEPT ![e] = NewUser] /\ NewUser.accountRole = "none"
    BY DEF Unlink, NewUser
  <1> HIDE DEF e
  <1>4. /\ user'[e] = NewUser
        /\ user'[e] # None
        /\ \A f \in Emails \ {e} : user'[f] = user[f]
        /\ UsersTyped
    BY <1>2, <1>3, UserSet, NewUserTyped
  <1> QED
    BY <1>2, <1>3, <1>4 DEF e

LEMMA UnsubscribeUser ==
    ASSUME TypeOK, NEW e \in Emails, Unsubscribe(e)
    PROVE  /\ user'[e] = None
           /\ \A f \in Emails \ {e} : user'[f] = user[f]
           /\ UsersTyped
  BY DEF Unsubscribe, UsersTyped, TypeOK


-----------------------------------------------------------------------------
(***************************************************************************)
(* What a step of a request other than Buy makes of it: nobody who was not *)
(* buying is now, nobody comes to their row but as a boss, a form is about *)
(* a subscription that has a row, and a page for linking has a seat left.  *)
(***************************************************************************)
SameBuyer(r) ==
    request'[r].task = "buy" =>
        /\ request[r].task = "buy"
        /\ request'[r].email = request[r].email
        /\ request'[r].sub = request[r].sub
        /\ request'[r].quantity = request[r].quantity

BossBeforeRow(r) ==
    request'[r].task = "buy" /\ request'[r].stage = "row" =>
        /\ user'[request'[r].email].accountRole = "boss"
        /\ user'[request'[r].email].account # None

AboutARow(r) ==
    request'[r].task \in {"link", "buyMore"} => Bought(request'[r].sub)

Steady(r) ==
    /\ OthersKept(r)
    /\ Typed
    /\ ShapeOf(r)'
    /\ SameBuyer(r)
    /\ BossBeforeRow(r)
    /\ AboutARow(r)
    /\ SeenLeftBy(r)'

\* A form for seats is half-way neither before the step nor after it.
NotHalfWay(r) == ~Is(r, "buyMore", "here") /\ ~Is(r, "buyMore", "here")'

\* Steps that leave the users as they are, or give them more than they had.
Pages(r) ==
    \/ \E a \in Accounts : CreateAccount(r, a)
    \/ Drawing(r)

Given(r) ==
    \/ KeepAccount(r)
    \/ LinkAccount(r)
    \/ \E e \in Emails : LinkFind(r, e)

Ends(r) == Abandon(r) \/ LinkUpdate(r) \/ Unlink(r) \/ NewRow(r)

LEMMA IdleIsSteady ==
    ASSUME NEW r \in Requests, OthersKept(r), Typed, request'[r] = Idle
    PROVE  Steady(r) /\ ~Is(r, "buyMore", "here")'
  <1>1. request'[r].task = "none" /\ request'[r].stage = "page"
    BY IdleFields
  <1>2. ShapeOf(r)'
    BY <1>1 DEF ShapeOf
  <1>3. SeenLeftBy(r)'
    BY <1>1 DEF SeenLeftBy
  <1>4. ~Is(r, "buyMore", "here")'
    BY <1>1 DEF Is
  <1>5. SameBuyer(r) /\ BossBeforeRow(r) /\ AboutARow(r)
    BY <1>1 DEF SameBuyer, BossBeforeRow, AboutARow
  <1> QED
    BY <1>2, <1>3, <1>4, <1>5 DEF Steady

LEMMA PagesSteady ==
    ASSUME IInv, NEW r \in Requests, Pages(r)
    PROVE  /\ Steady(r)
           /\ NotHalfWay(r)
           /\ UNCHANGED <<user, row, stripe, strained, unsettled, displaced>>
  <1>1. ASSUME NEW a \in Accounts, CreateAccount(r, a)
        PROVE  /\ Steady(r)
               /\ NotHalfWay(r)
               /\ UNCHANGED <<user, row, stripe, strained, unsettled, displaced>>
    <2>1. TypeOK /\ ShapeOf(r) /\ KnowsItsRowAt(r)
      BY DEF IInv, Shape, KnowsItsRow
    <2>2. /\ request[r].stage = "account"
          /\ request'[r].task = request[r].task
          /\ request'[r].stage = "newAccount"
          /\ request'[r].email = request[r].email
          /\ request'[r].sub = request[r].sub
          /\ request'[r].account = a
          /\ request'[r].quantity = request[r].quantity
          /\ OthersKept(r)
          /\ Typed
          /\ UNCHANGED <<user, row, stripe, strained, unsettled, displaced>>
      BY <1>1, <2>1, CreateAccountFields
    <2>3. ShapeOf(r)'
      BY <2>1, <2>2 DEF ShapeOf
    <2>4. SameBuyer(r) /\ BossBeforeRow(r)
      BY <2>2 DEF SameBuyer, BossBeforeRow
    <2>5. AboutARow(r)
      BY <2>1, <2>2 DEF AboutARow, KnowsItsRowAt
    <2>6. request[r].task # "link"
      BY <2>1, <2>2 DEF ShapeOf
    <2>7. SeenLeftBy(r)'
      BY <2>2, <2>6 DEF SeenLeftBy
    <2>8. NotHalfWay(r)
      BY <2>2 DEF NotHalfWay, Is
    <2> QED
      BY <2>2, <2>3, <2>4, <2>5, <2>7, <2>8 DEF Steady
  <1>2. ASSUME NEW s \in Subs, DrawLink(r, s)
        PROVE  /\ Steady(r)
               /\ NotHalfWay(r)
               /\ UNCHANGED <<user, row, stripe, strained, unsettled, displaced>>
    <2>1. /\ request[r] = Idle
          /\ Open(s)
          /\ request'[r].task = "link"
          /\ request'[r].stage = "page"
          /\ request'[r].sub = s
          /\ request'[r].seats > Cardinality(request'[r].seen) + 1
          /\ OthersKept(r)
          /\ Typed
          /\ UNCHANGED <<user, row, stripe, strained, unsettled, displaced>>
      BY <1>2, DrawLinkFields DEF IInv
    <2>2. ShapeOf(r)'
      BY <2>1 DEF ShapeOf
    <2>3. SameBuyer(r) /\ BossBeforeRow(r)
      BY <2>1 DEF SameBuyer, BossBeforeRow
    <2>4. AboutARow(r)
      BY <2>1 DEF AboutARow, Open
    <2>5. SeenLeftBy(r)'
      BY <2>1 DEF SeenLeftBy
    <2>6. NotHalfWay(r)
      BY <2>1, IdleFields DEF NotHalfWay, Is
    <2> QED
      BY <2>1, <2>2, <2>3, <2>4, <2>5, <2>6 DEF Steady
  <1>3. ASSUME NEW s \in Subs, NEW e \in Emails, DrawUnlink(r, s, e)
        PROVE  /\ Steady(r)
               /\ NotHalfWay(r)
               /\ UNCHANGED <<user, row, stripe, strained, unsettled, displaced>>
    <2>1. /\ request[r] = Idle
          /\ request'[r].task = "unlink"
          /\ request'[r].stage = "page"
          /\ request'[r].email = e
          /\ OthersKept(r)
          /\ Typed
          /\ UNCHANGED <<user, row, stripe, strained, unsettled, displaced>>
      BY <1>3, DrawUnlinkFields DEF IInv
    <2>2. ShapeOf(r)' /\ SeenLeftBy(r)'
      BY <2>1 DEF ShapeOf, SeenLeftBy
    <2>3. SameBuyer(r) /\ BossBeforeRow(r) /\ AboutARow(r)
      BY <2>1 DEF SameBuyer, BossBeforeRow, AboutARow
    <2>4. NotHalfWay(r)
      BY <2>1, IdleFields DEF NotHalfWay, Is
    <2> QED
      BY <2>1, <2>2, <2>3, <2>4 DEF Steady
  <1>4. ASSUME NEW s \in Subs, DrawBuyMore(r, s)
        PROVE  /\ Steady(r)
               /\ NotHalfWay(r)
               /\ UNCHANGED <<user, row, stripe, strained, unsettled, displaced>>
    <2>1. /\ request[r] = Idle
          /\ Open(s)
          /\ request'[r].task = "buyMore"
          /\ request'[r].stage = "page"
          /\ request'[r].email \in Emails
          /\ request'[r].sub = s
          /\ OthersKept(r)
          /\ Typed
          /\ UNCHANGED <<user, row, stripe, strained, unsettled, displaced>>
      BY <1>4, DrawBuyMoreFields DEF IInv
    <2>2. ShapeOf(r)' /\ SeenLeftBy(r)'
      BY <2>1 DEF ShapeOf, SeenLeftBy
    <2>3. SameBuyer(r) /\ BossBeforeRow(r)
      BY <2>1 DEF SameBuyer, BossBeforeRow
    <2>4. AboutARow(r)
      BY <2>1 DEF AboutARow, Open
    <2>5. NotHalfWay(r)
      BY <2>1, IdleFields DEF NotHalfWay, Is
    <2> QED
      BY <2>1, <2>2, <2>3, <2>4, <2>5 DEF Steady
  <1> QED
    BY <1>1, <1>2, <1>3, <1>4 DEF Pages, Drawing

\* user_account, when it is over.
LEMMA AccountSteady ==
    ASSUME IInv, NEW r \in Requests,
           request[r].stage \in {"account", "newAccount"},
           Goes(r, AfterAccount(r)),
           user'[request[r].email].accountRole = "boss",
           user'[request[r].email].account # None
    PROVE  Steady(r) /\ NotHalfWay(r)
  <1>1. ~Is(r, "buyMore", "here")
    BY DEF Is
  <1>2. /\ request[r].task = "buy" =>
              /\ request'[r].task = "buy"
              /\ request'[r].stage = "row"
              /\ request'[r].email = request[r].email
              /\ request'[r].sub = request[r].sub
              /\ request'[r].quantity = request[r].quantity
        /\ request[r].task # "buy" => request'[r] = Idle
        /\ OthersKept(r)
        /\ Typed
    BY AfterAccountFields DEF IInv
  <1>3. CASE request[r].task # "buy"
    BY <1>1, <1>2, <1>3, IdleIsSteady DEF NotHalfWay
  <1>4. CASE request[r].task = "buy"
    <2>1. ShapeOf(r)
      BY DEF IInv, Shape
    <2>2. ShapeOf(r)' /\ SeenLeftBy(r)'
      BY <1>2, <1>4, <2>1 DEF ShapeOf, SeenLeftBy
    <2>3. SameBuyer(r) /\ AboutARow(r)
      BY <1>2, <1>4 DEF SameBuyer, AboutARow
    <2>4. BossBeforeRow(r)
      BY <1>2, <1>4 DEF BossBeforeRow
    <2>5. ~Is(r, "buyMore", "here")'
      BY <1>2, <1>4 DEF Is
    <2> QED
      BY <1>1, <1>2, <2>2, <2>3, <2>4, <2>5 DEF Steady, NotHalfWay
  <1> QED
    BY <1>3, <1>4

LEMMA GivenSteady ==
    ASSUME IInv, NEW r \in Requests, Given(r)
    PROVE  /\ Steady(r)
           /\ NotHalfWay(r)
           /\ UNCHANGED <<row, stripe, strained, unsettled, displaced>>
  <1>1. CASE KeepAccount(r)
    <2>1. /\ user'[request[r].email].accountRole = "boss"
          /\ user'[request[r].email].account # None
      BY <1>1, KeepAccountUser DEF IInv
    <2>2. request[r].stage = "account" /\ Goes(r, AfterAccount(r))
      BY <1>1 DEF KeepAccount
    <2>3. Steady(r) /\ NotHalfWay(r)
      BY <2>1, <2>2, AccountSteady
    <2> QED
      BY <1>1, <2>3 DEF KeepAccount
  <1>2. CASE LinkAccount(r)
    <2>1. /\ user'[request[r].email].accountRole = "boss"
          /\ user'[request[r].email].account # None
      BY <1>2, LinkAccountUser DEF IInv
    <2>2. request[r].stage = "newAccount" /\ Goes(r, AfterAccount(r))
      BY <1>2 DEF LinkAccount
    <2>3. Steady(r) /\ NotHalfWay(r)
      BY <2>1, <2>2, AccountSteady
    <2> QED
      BY <1>2, <2>3 DEF LinkAccount
  <1>3. ASSUME NEW e \in Emails, LinkFind(r, e)
        PROVE  /\ Steady(r)
               /\ NotHalfWay(r)
               /\ UNCHANGED <<row, stripe, strained, unsettled, displaced>>
    <2>1. ShapeOf(r) /\ KnowsItsRowAt(r) /\ SeenLeftBy(r)
      BY DEF IInv, Shape, KnowsItsRow, SeenLeft
    <2>2. /\ request[r].task = "link"
          /\ request'[r].task = "link"
          /\ request'[r].stage = "update"
          /\ request'[r].email = e
          /\ request'[r].sub = request[r].sub
          /\ request'[r].seen = request[r].seen
          /\ request'[r].seats = request[r].seats
          /\ OthersKept(r)
          /\ Typed
          /\ UNCHANGED <<row, stripe, used, strained, unsettled, displaced>>
      BY <1>3, LinkFindFields DEF IInv
    <2>3. ShapeOf(r)'
      BY <2>1, <2>2 DEF ShapeOf
    <2>4. SeenLeftBy(r)'
      BY <2>1, <2>2 DEF SeenLeftBy
    <2>5. SameBuyer(r) /\ BossBeforeRow(r)
      BY <2>2 DEF SameBuyer, BossBeforeRow
    <2>6. AboutARow(r)
      BY <2>1, <2>2 DEF AboutARow, KnowsItsRowAt
    <2>7. NotHalfWay(r)
      BY <2>2 DEF NotHalfWay, Is
    <2> QED
      BY <2>2, <2>3, <2>4, <2>5, <2>6, <2>7 DEF Steady
  <1> QED
    BY <1>1, <1>2, <1>3 DEF Given

LEMMA EndsSteady ==
    ASSUME IInv, NEW r \in Requests, Ends(r)
    PROVE  /\ Steady(r)
           /\ ~Is(r, "buyMore", "here")'
           /\ ~Abandon(r) => ~Is(r, "buyMore", "here")
  <1>1. request'[r] = Idle /\ OthersKept(r) /\ Typed
    BY EndsFields, NewRowFields DEF Ends, IInv
  <1>2. ~Abandon(r) => ~Is(r, "buyMore", "here")
    BY DEF Ends, LinkUpdate, Unlink, NewRow, Is
  <1> QED
    BY <1>1, <1>2, IdleIsSteady

LEMMA BuyMoreSteady ==
    ASSUME IInv, NEW r \in Requests,
           \/ \E quantity \in Quantities : BuyMoreAtStripe(r, quantity)
           \/ BuyMoreHere(r)
    PROVE  Steady(r)
  <1>1. ShapeOf(r) /\ KnowsItsRowAt(r)
    BY DEF IInv, Shape, KnowsItsRow
  <1>2. /\ request[r].task = "buyMore"
        /\ request'[r].task = "buyMore"
        /\ request'[r].stage = "here" => request'[r].quantity \in Quantities
        /\ request'[r].stage \in {"here", "account"}
        /\ request'[r].email = request[r].email
        /\ request'[r].sub = request[r].sub
        /\ OthersKept(r)
        /\ Typed
    <2>1. CASE BuyMoreHere(r)
      BY <2>1, BuyMoreHereFields DEF IInv
    <2>2. ASSUME NEW quantity \in Quantities, BuyMoreAtStripe(r, quantity)
          PROVE  /\ request[r].task = "buyMore"
                 /\ request'[r].task = "buyMore"
                 /\ request'[r].stage = "here"
                 /\ request'[r].quantity = quantity
                 /\ request'[r].email = request[r].email
                 /\ request'[r].sub = request[r].sub
                 /\ OthersKept(r)
                 /\ Typed
      BY <2>2, BuyMoreAtStripeFields DEF IInv
    <2> QED
      BY <2>1, <2>2
  <1>3. ShapeOf(r)' /\ SeenLeftBy(r)'
    BY <1>1, <1>2 DEF ShapeOf, SeenLeftBy
  <1>4. SameBuyer(r) /\ BossBeforeRow(r)
    BY <1>2 DEF SameBuyer, BossBeforeRow
  <1>5. AboutARow(r)
    BY <1>1, <1>2 DEF AboutARow, KnowsItsRowAt
  <1> QED
    BY <1>2, <1>3, <1>4, <1>5 DEF Steady


-----------------------------------------------------------------------------
(***************************************************************************)
(* What a step does to users, members, rows and to Stripe.                 *)
(***************************************************************************)
LEMMA NextByKind ==
    ASSUME [Next]_vars
    PROVE  \/ \E r \in Requests : Pages(r) \/ Given(r) \/ Ends(r)
           \/ \E r \in Requests, e \in Emails, s \in Subs, quantity \in Quantities :
                 Buy(r, e, s, quantity)
           \/ \E r \in Requests, quantity \in Quantities :
                 BuyMoreAtStripe(r, quantity)
           \/ \E r \in Requests : BuyMoreHere(r)
           \/ \E e \in Emails : Unsubscribe(e)
           \/ UNCHANGED vars
  BY DEF Next, Buying, UserAccount, Sending, Pages, Given, Ends

RowWritten(s, r) ==
    /\ NewRow(r)
    /\ request[r].sub = s
    /\ row'[s] = [owner |-> request[r].email, seats |-> request[r].quantity]

SeatsWritten(s, r) ==
    /\ BuyMoreHere(r)
    /\ request[r].sub = s
    /\ Bought(s)
    /\ row'[s] \in Row
    /\ row'[s].owner = row[s].owner
    /\ row'[s].seats = request[r].quantity

OwnerGone(s, e) ==
    /\ Unsubscribe(e)
    /\ Bought(s)
    /\ row[s].owner = e
    /\ row'[s] \in Row
    /\ row'[s].owner = None
    /\ row'[s].seats = row[s].seats

LEMMA BuyMoreHereRow ==
    ASSUME IInv, NEW r \in Requests, BuyMoreHere(r)
    PROVE  /\ request[r].sub \in Subs
           /\ SeatsWritten(request[r].sub, r)
           /\ \A s \in Subs \ {request[r].sub} : row'[s] = row[s]
           /\ row' \in [Subs -> Row \cup {None}]
  <1> DEFINE s == request[r].sub
             x == [row[s] EXCEPT !.seats = request[r].quantity]
  <1>1. ShapeOf(r) /\ KnowsItsRowAt(r) /\ TypeOK
    BY DEF IInv, Shape, KnowsItsRow
  <1>2. request[r].task = "buyMore" /\ request[r].stage = "here"
    BY DEF BuyMoreHere, Is
  <1>3. s \in Subs /\ request[r].quantity \in Quantities /\ Bought(s)
    BY <1>1, <1>2 DEF ShapeOf, KnowsItsRowAt
  <1>4. row[s] \in Row
    BY <1>1, <1>3 DEF TypeOK, Bought
  <1>5. x \in Row /\ x.owner = row[s].owner /\ x.seats = request[r].quantity
    BY <1>3, <1>4 DEF Row
  <1>6. row' = [row EXCEPT ![s] = x]
    BY <1>1, <1>3 DEF BuyMoreHere, TypeOK
  <1> HIDE DEF x, s
  <1>7. /\ row'[s] = x
        /\ \A t \in Subs \ {s} : row'[t] = row[t]
        /\ row' \in [Subs -> Row \cup {None}]
    BY <1>1, <1>3, <1>5, <1>6 DEF TypeOK
  <1>8. SeatsWritten(s, r)
    BY <1>3, <1>5, <1>7 DEF SeatsWritten, s
  <1> QED
    BY <1>3, <1>7, <1>8 DEF s

LEMMA NewRowRow ==
    ASSUME IInv, NEW r \in Requests, NewRow(r)
    PROVE  /\ request[r].sub \in Subs
           /\ RowWritten(request[r].sub, r)
           /\ \A s \in Subs \ {request[r].sub} : row'[s] = row[s]
           /\ row' \in [Subs -> Row \cup {None}]
  <1> DEFINE s == request[r].sub
             x == [owner |-> request[r].email, seats |-> request[r].quantity]
  <1>1. ShapeOf(r) /\ request[r].task = "buy" /\ TypeOK
    BY DEF IInv, Shape, NewRow, Is
  <1>2. /\ s \in Subs
        /\ request[r].email \in Emails
        /\ request[r].quantity \in Quantities
    BY <1>1 DEF ShapeOf
  <1>3. x \in Row
    BY <1>2 DEF Row
  <1>4. row' = [row EXCEPT ![s] = x]
    BY DEF NewRow
  <1> HIDE DEF s
  <1>5. row'[s] = x /\ \A t \in Subs \ {s} : row'[t] = row[t]
    BY <1>1, <1>2, <1>4 DEF TypeOK
  <1> HIDE DEF x
  <1>6. row' \in [Subs -> Row \cup {None}]
    BY <1>1, <1>2, <1>3, <1>4 DEF TypeOK
  <1>7. RowWritten(s, r)
    BY <1>5 DEF RowWritten, s, x
  <1> QED
    BY <1>2, <1>5, <1>6, <1>7 DEF s

LEMMA UnsubscribeRow ==
    ASSUME IInv, NEW e \in Emails, Unsubscribe(e)
    PROVE  /\ \A s \in Subs : row'[s] = row[s] \/ OwnerGone(s, e)
           /\ \A s \in Subs : row'[s] = None \/ row'[s].owner # e
           /\ row' \in [Subs -> Row \cup {None}]
  <1>1. TypeOK
    BY DEF IInv
  <1>2. ASSUME NEW s \in Subs
        PROVE  /\ row'[s] \in Row \cup {None}
               /\ row'[s] = row[s] \/ OwnerGone(s, e)
               /\ row'[s] = None \/ row'[s].owner # e
    <2>1. CASE Bought(s) /\ row[s].owner = e
      <3> DEFINE x == [row[s] EXCEPT !.owner = None]
      <3>1. row[s] \in Row
        BY <1>1, <2>1 DEF TypeOK, Bought
      <3>2. x \in Row /\ x.owner = None /\ x.seats = row[s].seats
        BY <3>1 DEF Row
      <3>3. row'[s] = x
        BY <2>1 DEF Unsubscribe
      <3>4. e # None
        BY NoneIsNothing
      <3> HIDE DEF x
      <3> QED
        BY <2>1, <3>2, <3>3, <3>4 DEF OwnerGone
    <2>2. CASE ~(Bought(s) /\ row[s].owner = e)
      <3>1. row'[s] = row[s]
        BY <2>2 DEF Unsubscribe
      <3> QED
        BY <1>1, <2>2, <3>1 DEF TypeOK, Bought
    <2> QED
      BY <2>1, <2>2
  <1>3. row' = [s \in Subs |-> row'[s]]
    BY DEF Unsubscribe
  <1> QED
    BY <1>2, <1>3

LEMMA EndsKeepRows ==
    ASSUME NEW r \in Requests, Ends(r), ~NewRow(r)
    PROVE  UNCHANGED row
  BY DEF Ends, Abandon, LinkUpdate, Unlink

LEMMA RowsMove ==
    ASSUME IInv, [Next]_vars, NEW s \in Subs
    PROVE  \/ row'[s] = row[s]
           \/ \E r \in Requests : RowWritten(s, r) \/ SeatsWritten(s, r)
           \/ \E e \in Emails : OwnerGone(s, e)
  <1>1. ASSUME NEW r \in Requests, Pages(r) \/ Given(r) \/ Ends(r)
        PROVE  row'[s] = row[s] \/ RowWritten(s, r)
    <2>1. CASE ~NewRow(r)
      BY <1>1, <2>1, PagesSteady, GivenSteady, EndsKeepRows
    <2>2. CASE NewRow(r)
      BY <2>2, NewRowRow
    <2> QED
      BY <2>1, <2>2
  <1>2. ASSUME NEW r \in Requests, BuyMoreHere(r)
        PROVE  row'[s] = row[s] \/ SeatsWritten(s, r)
    BY <1>2, BuyMoreHereRow
  <1>3. ASSUME NEW e \in Emails, Unsubscribe(e)
        PROVE  row'[s] = row[s] \/ OwnerGone(s, e)
    BY <1>3, UnsubscribeRow
  <1>4. ASSUME NEW r \in Requests, NEW e \in Emails, NEW t \in Subs,
               NEW quantity \in Quantities, Buy(r, e, t, quantity)
        PROVE  row' = row
    BY <1>4 DEF Buy
  <1>5. ASSUME NEW r \in Requests, NEW quantity \in Quantities,
               BuyMoreAtStripe(r, quantity)
        PROVE  row' = row
    BY <1>5 DEF BuyMoreAtStripe
  <1>6. CASE UNCHANGED vars
    BY <1>6 DEF vars
  <1> QED
    BY <1>1, <1>2, <1>3, <1>4, <1>5, <1>6, NextByKind

LEMMA RowsStay ==
    ASSUME IInv, [Next]_vars, NEW s \in Subs
    PROVE  /\ Bought(s) => Bought(s)'
           /\ Bought(s)' => Bought(s) \/ \E r \in Requests : RowWritten(s, r)
  <1>1. ASSUME NEW r \in Requests, RowWritten(s, r)
        PROVE  ~Bought(s)
    BY <1>1 DEF IInv, KnowsItsRow, KnowsItsRowAt, RowWritten, NewRow, Is
  <1>2. ASSUME NEW r \in Requests, SeatsWritten(s, r)
        PROVE  Bought(s) /\ Bought(s)'
    BY <1>2, NoneAssumption DEF SeatsWritten, Bought
  <1>3. ASSUME NEW e \in Emails, OwnerGone(s, e)
        PROVE  Bought(s) /\ Bought(s)'
    BY <1>3, NoneAssumption DEF OwnerGone, Bought
  <1>4. CASE row'[s] = row[s]
    BY <1>4 DEF Bought
  <1> QED
    BY <1>1, <1>2, <1>3, <1>4, RowsMove

LEMMA StripeMoves ==
    ASSUME IInv, [Next]_vars, NEW s \in Subs
    PROVE  \/ stripe'[s] = stripe[s]
           \/ /\ stripe[s] = 0
              /\ \E r \in Requests, e \in Emails, quantity \in Quantities :
                    Buy(r, e, s, quantity)
           \/ \E r \in Requests, quantity \in Quantities :
                 /\ BuyMoreAtStripe(r, quantity)
                 /\ request[r].sub = s
                 /\ stripe'[s] = quantity
  <1>1. TypeOK
    BY DEF IInv
  <1>2. ASSUME NEW r \in Requests, Pages(r) \/ Given(r) \/ Ends(r)
        PROVE  stripe' = stripe
    BY <1>1, <1>2, PagesSteady, GivenSteady, EndsFields, NewRowFields DEF Ends
  <1>3. ASSUME NEW r \in Requests, NEW e \in Emails, NEW t \in Subs,
               NEW quantity \in Quantities, Buy(r, e, t, quantity), t # s
        PROVE  stripe'[s] = stripe[s]
    BY <1>1, <1>3 DEF Buy, TypeOK
  <1>4. ASSUME NEW r \in Requests, NEW e \in Emails,
               NEW quantity \in Quantities, Buy(r, e, s, quantity)
        PROVE  stripe[s] = 0
    BY <1>4 DEF Buy
  <1>5. ASSUME NEW r \in Requests, NEW quantity \in Quantities,
               BuyMoreAtStripe(r, quantity)
        PROVE  \/ stripe'[s] = stripe[s]
               \/ request[r].sub = s /\ stripe'[s] = quantity
    BY <1>1, <1>5 DEF BuyMoreAtStripe, TypeOK
  <1>6. ASSUME NEW r \in Requests, BuyMoreHere(r)
        PROVE  stripe' = stripe
    BY <1>6 DEF BuyMoreHere
  <1>7. ASSUME NEW e \in Emails, Unsubscribe(e)
        PROVE  stripe' = stripe
    BY <1>7 DEF Unsubscribe
  <1>8. CASE UNCHANGED vars
    BY <1>8 DEF vars
  <1> QED
    BY <1>2, <1>3, <1>4, <1>5, <1>6, <1>7, <1>8, NextByKind


LEMMA MembersShrink ==
    ASSUME NEW e \in Emails,
           \A f \in Emails \ {e} : user'[f] = user[f],
           \/ user'[e] = None
           \/ user'[e].accountRole # "member"
           \/ /\ Exists(e)
              /\ user'[e].accountRole = user[e].accountRole
              /\ user'[e].sub = user[e].sub,
           NEW s \in Subs
    PROVE  MembersOf(s)' \subseteq MembersOf(s)
  BY DEF MembersOf, Exists

\* Members are made by LinkUpdate, one of them and for its own subscription.
LEMMA MembersMove ==
    ASSUME IInv, [Next]_vars, NEW s \in Subs
    PROVE  \/ MembersOf(s)' \subseteq MembersOf(s)
           \/ \E r \in Requests :
                 /\ LinkUpdate(r)
                 /\ request[r].sub = s
                 /\ MembersOf(s)' \subseteq MembersOf(s) \cup {request[r].email}
  <1>1. TypeOK /\ Shape
    BY DEF IInv
  <1>2. ASSUME user' = user
        PROVE  MembersOf(s)' \subseteq MembersOf(s)
    BY <1>2 DEF MembersOf, Exists
  <1>3. ASSUME NEW r \in Requests, Pages(r)
        PROVE  user' = user
    BY <1>3, PagesSteady
  <1>4. ASSUME NEW r \in Requests, KeepAccount(r)
        PROVE  MembersOf(s)' \subseteq MembersOf(s)
    BY <1>1, <1>4, KeepAccountUser, MembersShrink
  <1>5. ASSUME NEW r \in Requests, LinkAccount(r)
        PROVE  MembersOf(s)' \subseteq MembersOf(s)
    BY <1>1, <1>5, LinkAccountUser, MembersShrink
  <1>6. ASSUME NEW r \in Requests, NEW e \in Emails, LinkFind(r, e)
        PROVE  MembersOf(s)' \subseteq MembersOf(s)
    BY <1>1, <1>6, LinkFindUser, MembersShrink
  <1>7. ASSUME NEW r \in Requests, LinkUpdate(r)
        PROVE  \/ MembersOf(s)' \subseteq MembersOf(s)
               \/ /\ request[r].sub = s
                  /\ MembersOf(s)' \subseteq MembersOf(s) \cup {request[r].email}
    <2> DEFINE e == request[r].email
               t == request[r].sub
    <2>1. /\ e \in Emails
          /\ user'[e].sub = t
          /\ \A f \in Emails \ {e} : user'[f] = user[f]
      BY <1>1, <1>7, LinkUpdateUser
    <2> HIDE DEF e, t
    <2>2. t # s => e \notin MembersOf(s)'
      <3>1. e \in MembersOf(s)' => user'[e].sub = s
        BY DEF MembersOf, e
      <3> QED
        BY <2>1, <3>1
    <2>3. MembersOf(s)' \subseteq MembersOf(s) \cup {e}
      BY <2>1 DEF MembersOf, Exists
    <2> QED
      BY <2>2, <2>3 DEF e, t
  <1>8. ASSUME NEW r \in Requests, Unlink(r)
        PROVE  MembersOf(s)' \subseteq MembersOf(s)
    <2>1. /\ request[r].email \in Emails
          /\ user'[request[r].email].accountRole # "member"
          /\ \A f \in Emails \ {request[r].email} : user'[f] = user[f]
      BY <1>1, <1>8, UnlinkUser
    <2> QED
      BY <2>1, MembersShrink
  <1>9. ASSUME NEW r \in Requests, Abandon(r) \/ NewRow(r)
        PROVE  user' = user
    BY <1>9 DEF Abandon, NewRow
  <1>10. ASSUME NEW r \in Requests, NEW e \in Emails, NEW t \in Subs,
                NEW quantity \in Quantities, Buy(r, e, t, quantity)
         PROVE  MembersOf(s)' \subseteq MembersOf(s)
    BY <1>1, <1>10, BuyUser, MembersShrink
  <1>11. ASSUME NEW r \in Requests,
                \/ BuyMoreHere(r)
                \/ \E quantity \in Quantities : BuyMoreAtStripe(r, quantity)
         PROVE  user' = user
    BY <1>11 DEF BuyMoreHere, BuyMoreAtStripe
  <1>12. ASSUME NEW e \in Emails, Unsubscribe(e)
         PROVE  MembersOf(s)' \subseteq MembersOf(s)
    BY <1>1, <1>12, UnsubscribeUser, MembersShrink
  <1>13. CASE UNCHANGED vars
    BY <1>2, <1>13 DEF vars
  <1>14. ASSUME NEW r \in Requests, Given(r)
         PROVE  MembersOf(s)' \subseteq MembersOf(s)
    BY <1>4, <1>5, <1>6, <1>14 DEF Given
  <1>15. ASSUME NEW r \in Requests, Ends(r)
         PROVE  \/ MembersOf(s)' \subseteq MembersOf(s)
                \/ /\ LinkUpdate(r)
                   /\ request[r].sub = s
                   /\ MembersOf(s)' \subseteq MembersOf(s) \cup {request[r].email}
    BY <1>2, <1>7, <1>8, <1>9, <1>15 DEF Ends
  <1> QED
    BY <1>2, <1>3, <1>10, <1>11, <1>12, <1>13, <1>14, <1>15, NextByKind

\* A user keeps what a buyer has.
Improved(e) ==
    /\ Exists(e) => user'[e] # None
    /\ Exists(e) /\ user[e].subscriber => user'[e].subscriber
    /\ Exists(e) /\ user[e].accountRole = "boss" /\ user[e].account # None
          => user'[e].accountRole = "boss" /\ user'[e].account # None

UsersKept ==
    /\ UsersTyped
    /\ displaced' \in SUBSET Subs
    /\ displaced \subseteq displaced'
    /\ \A e \in Emails : Improved(e) \/ BoughtBy(e) \subseteq displaced'

LEMMA AllImproved ==
    ASSUME TypeOK, NEW e \in Emails, Improved(e), UsersTyped,
           \A f \in Emails \ {e} : user'[f] = user[f], displaced' = displaced
    PROVE  UsersKept
  <1>1. \A f \in Emails \ {e} : Improved(f)
    BY DEF Improved, Exists
  <1>2. displaced \in SUBSET Subs
    BY DEF TypeOK
  <1> QED
    BY <1>1, <1>2 DEF UsersKept

LEMMA OneDisplaced ==
    ASSUME TypeOK, NEW e \in Emails, UsersTyped,
           \A f \in Emails \ {e} : user'[f] = user[f],
           displaced' = displaced \cup BoughtBy(e)
    PROVE  UsersKept
  <1>1. \A f \in Emails \ {e} : Improved(f)
    BY DEF Improved, Exists
  <1>2. displaced \in SUBSET Subs /\ BoughtBy(e) \in SUBSET Subs
    BY DEF TypeOK, BoughtBy
  <1> QED
    BY <1>1, <1>2 DEF UsersKept

LEMMA UsersMove ==
    ASSUME IInv, [Next]_vars
    PROVE  UsersKept
  <1>1. TypeOK /\ Shape
    BY DEF IInv
  <1>2. ASSUME user' = user, displaced' = displaced
        PROVE  UsersKept
    <2>1. UsersTyped /\ \A e \in Emails : Improved(e)
      BY <1>1, <1>2 DEF UsersTyped, TypeOK, Improved, Exists
    <2> QED
      BY <1>1, <1>2, <2>1 DEF UsersKept, TypeOK
  <1>3. ASSUME NEW r \in Requests, Pages(r)
        PROVE  user' = user /\ displaced' = displaced
    BY <1>3, PagesSteady
  <1>4. ASSUME NEW r \in Requests, KeepAccount(r)
        PROVE  UsersKept
    <2>1. displaced' = displaced
      BY <1>4 DEF KeepAccount
    <2>2. Improved(request[r].email)
      BY <1>1, <1>4, KeepAccountUser DEF Improved
    <2> QED
      BY <1>1, <1>4, <2>1, <2>2, KeepAccountUser, AllImproved
  <1>5. ASSUME NEW r \in Requests, LinkAccount(r)
        PROVE  UsersKept
    <2>1. displaced' = displaced
      BY <1>5 DEF LinkAccount
    <2>2. Improved(request[r].email)
      BY <1>1, <1>5, LinkAccountUser DEF Improved
    <2> QED
      BY <1>1, <1>5, <2>1, <2>2, LinkAccountUser, AllImproved
  <1>6. ASSUME NEW r \in Requests, NEW e \in Emails, LinkFind(r, e)
        PROVE  UsersKept
    <2>1. displaced' = displaced
      BY <1>6 DEF LinkFind
    <2>2. Improved(e)
      BY <1>1, <1>6, LinkFindUser DEF Improved
    <2> QED
      BY <1>1, <1>6, <2>1, <2>2, LinkFindUser, AllImproved
  <1>7. ASSUME NEW r \in Requests, LinkUpdate(r)
        PROVE  UsersKept
    <2>1. displaced' = displaced \cup BoughtBy(request[r].email)
      BY <1>7 DEF LinkUpdate
    <2>2. /\ request[r].email \in Emails
          /\ \A f \in Emails \ {request[r].email} : user'[f] = user[f]
          /\ UsersTyped
      BY <1>1, <1>7, LinkUpdateUser
    <2> QED
      BY <1>1, <2>1, <2>2, OneDisplaced
  <1>8. ASSUME NEW r \in Requests, Unlink(r)
        PROVE  UsersKept
    <2>1. displaced' = displaced \cup BoughtBy(request[r].email)
      BY <1>8 DEF Unlink
    <2>2. /\ request[r].email \in Emails
          /\ \A f \in Emails \ {request[r].email} : user'[f] = user[f]
          /\ UsersTyped
      BY <1>1, <1>8, UnlinkUser
    <2> QED
      BY <1>1, <2>1, <2>2, OneDisplaced
  <1>9. ASSUME NEW r \in Requests, Abandon(r) \/ NewRow(r)
        PROVE  user' = user /\ displaced' = displaced
    BY <1>9 DEF Abandon, NewRow
  <1>10. ASSUME NEW r \in Requests, NEW e \in Emails, NEW s \in Subs,
                NEW quantity \in Quantities, Buy(r, e, s, quantity)
         PROVE  UsersKept
    <2>1. displaced' = displaced
      BY <1>10 DEF Buy
    <2>2. Improved(e)
      BY <1>1, <1>10, BuyUser DEF Improved
    <2> QED
      BY <1>1, <1>10, <2>1, <2>2, BuyUser, AllImproved
  <1>11. ASSUME NEW r \in Requests,
                \/ BuyMoreHere(r)
                \/ \E quantity \in Quantities : BuyMoreAtStripe(r, quantity)
         PROVE  user' = user /\ displaced' = displaced
    BY <1>11 DEF BuyMoreHere, BuyMoreAtStripe
  <1>12. ASSUME NEW e \in Emails, Unsubscribe(e)
         PROVE  UsersKept
    <2>1. displaced' = displaced \cup BoughtBy(e)
      BY <1>12 DEF Unsubscribe
    <2> QED
      BY <1>1, <1>12, <2>1, UnsubscribeUser, OneDisplaced
  <1>13. CASE UNCHANGED vars
    BY <1>2, <1>13 DEF vars
  <1>14. ASSUME NEW r \in Requests, Given(r)
         PROVE  UsersKept
    BY <1>4, <1>5, <1>6, <1>14 DEF Given
  <1>15. ASSUME NEW r \in Requests, Ends(r)
         PROVE  UsersKept
    BY <1>2, <1>7, <1>8, <1>9, <1>15 DEF Ends
  <1> QED
    BY <1>2, <1>3, <1>10, <1>11, <1>12, <1>13, <1>14, <1>15, NextByKind


-----------------------------------------------------------------------------
(***************************************************************************)
(* Every part of the invariant is left as it is.                           *)
(***************************************************************************)
LEMMA RequestsMove ==
    ASSUME IInv, [Next]_vars
    PROVE  \/ \E r \in Requests : Steady(r)
           \/ \E r \in Requests, e \in Emails, s \in Subs, quantity \in Quantities :
                 Buy(r, e, s, quantity)
           \/ request' = request
  <1>1. ASSUME NEW e \in Emails, Unsubscribe(e)
        PROVE  request' = request
    BY <1>1 DEF Unsubscribe
  <1>2. CASE UNCHANGED vars
    BY <1>2 DEF vars
  <1> QED
    BY <1>1, <1>2, NextByKind, PagesSteady, GivenSteady, EndsSteady, BuyMoreSteady

LEMMA TypeStep ==
    ASSUME IInv, [Next]_vars
    PROVE  TypeOK'
  <1>1. TypeOK
    BY DEF IInv
  <1>2. user' \in [Emails -> UserRow \cup {None}] /\ displaced' \subseteq Subs
    BY UsersMove DEF UsersKept, UsersTyped
  <1>3. request' \in [Requests -> RequestState]
    <2>1. ASSUME NEW r \in Requests, Steady(r)
          PROVE  request' \in [Requests -> RequestState]
      BY <2>1 DEF Steady, Typed
    <2>2. ASSUME NEW r \in Requests, NEW e \in Emails, NEW s \in Subs,
                 NEW quantity \in Quantities, Buy(r, e, s, quantity)
          PROVE  request' \in [Requests -> RequestState]
      BY <1>1, <2>2, BuyFields DEF Typed
    <2> QED
      BY <1>1, <2>1, <2>2, RequestsMove DEF TypeOK
  <1>4. row' \in [Subs -> Row \cup {None}]
    <2>1. ASSUME NEW r \in Requests, Pages(r) \/ Given(r) \/ Ends(r)
          PROVE  row' \in [Subs -> Row \cup {None}]
      <3>1. CASE ~NewRow(r)
        <4>1. row' = row
          BY <2>1, <3>1, PagesSteady, GivenSteady, EndsKeepRows
        <4> QED
          BY <1>1, <4>1 DEF TypeOK
      <3> QED
        BY <3>1, NewRowRow
    <2>2. ASSUME row' = row
          PROVE  row' \in [Subs -> Row \cup {None}]
      BY <1>1, <2>2 DEF TypeOK
    <2>3. ASSUME NEW r \in Requests, NEW e \in Emails, NEW s \in Subs,
                 NEW quantity \in Quantities, Buy(r, e, s, quantity)
          PROVE  row' = row
      BY <2>3 DEF Buy
    <2>4. ASSUME NEW r \in Requests, NEW quantity \in Quantities,
                 BuyMoreAtStripe(r, quantity)
          PROVE  row' = row
      BY <2>4 DEF BuyMoreAtStripe
    <2>5. CASE UNCHANGED vars
      BY <2>2, <2>5 DEF vars
    <2> QED
      BY <2>1, <2>2, <2>3, <2>4, <2>5, BuyMoreHereRow, UnsubscribeRow, NextByKind
  <1>5. stripe' \in [Subs -> Quantities \cup {0}]
    <2>1. ASSUME NEW r \in Requests, Pages(r) \/ Given(r) \/ Ends(r)
          PROVE  stripe' = stripe
      BY <1>1, <2>1, PagesSteady, GivenSteady, EndsFields, NewRowFields DEF Ends
    <2>2. ASSUME NEW r \in Requests, NEW e \in Emails, NEW s \in Subs,
                 NEW quantity \in Quantities, Buy(r, e, s, quantity)
          PROVE  stripe' \in [Subs -> Quantities \cup {0}]
      BY <1>1, <2>2 DEF Buy, TypeOK
    <2>3. ASSUME NEW r \in Requests, NEW quantity \in Quantities,
                 BuyMoreAtStripe(r, quantity)
          PROVE  stripe' \in [Subs -> Quantities \cup {0}]
      BY <1>1, <2>3 DEF BuyMoreAtStripe, TypeOK
    <2>4. ASSUME NEW r \in Requests, BuyMoreHere(r)
          PROVE  stripe' = stripe
      BY <2>4 DEF BuyMoreHere
    <2>5. ASSUME NEW e \in Emails, Unsubscribe(e)
          PROVE  stripe' = stripe
      BY <2>5 DEF Unsubscribe
    <2>6. CASE UNCHANGED vars
      BY <1>1, <2>6 DEF vars, TypeOK
    <2>7. stripe' = stripe => stripe' \in [Subs -> Quantities \cup {0}]
      BY <1>1 DEF TypeOK
    <2> QED
      BY <2>1, <2>2, <2>3, <2>4, <2>5, <2>6, <2>7, NextByKind
  <1>6. used' \subseteq Accounts
    <2>1. ASSUME NEW r \in Requests, NEW a \in Accounts, CreateAccount(r, a)
          PROVE  used' \subseteq Accounts
      BY <1>1, <2>1 DEF CreateAccount, TypeOK
    <2>2. ASSUME NEW r \in Requests, Drawing(r)
          PROVE  used' = used
      BY <2>2 DEF Drawing, DrawLink, DrawUnlink, DrawBuyMore, BossPage
    <2>3. ASSUME NEW r \in Requests, Given(r) \/ Ends(r)
          PROVE  used' = used
      BY <2>3 DEF Given, KeepAccount, LinkAccount, LinkFind, Ends, Abandon,
                  LinkUpdate, Unlink, NewRow
    <2>4. ASSUME NEW r \in Requests, NEW e \in Emails, NEW s \in Subs,
                 NEW quantity \in Quantities, Buy(r, e, s, quantity)
          PROVE  used' = used
      BY <2>4 DEF Buy
    <2>5. ASSUME NEW r \in Requests,
                 \/ BuyMoreHere(r)
                 \/ \E quantity \in Quantities : BuyMoreAtStripe(r, quantity)
          PROVE  used' = used
      BY <2>5 DEF BuyMoreHere, BuyMoreAtStripe
    <2>6. ASSUME NEW e \in Emails, Unsubscribe(e)
          PROVE  used' = used
      BY <2>6 DEF Unsubscribe
    <2>7. UNCHANGED vars => used' = used
      BY DEF vars
    <2>8. used' = used => used' \subseteq Accounts
      BY <1>1 DEF TypeOK
    <2> QED
      BY <2>1, <2>2, <2>3, <2>4, <2>5, <2>6, <2>7, <2>8, NextByKind DEF Pages
  <1>7. strained' \subseteq Subs /\ unsettled' \subseteq Subs
    <2>1. ASSUME NEW r \in Requests, Pages(r) \/ Given(r)
          PROVE  strained' = strained /\ unsettled' = unsettled
      BY <2>1, PagesSteady, GivenSteady
    <2>2. ASSUME NEW r \in Requests, Abandon(r)
          PROVE  strained' \subseteq Subs /\ unsettled' \subseteq Subs
      <3>1. Is(r, "buyMore", "here") => request[r].sub \in Subs
        BY DEF IInv, Shape, ShapeOf, Is
      <3> QED
        BY <1>1, <2>2, <3>1 DEF Abandon, TypeOK
    <2>3. ASSUME NEW r \in Requests, LinkUpdate(r)
          PROVE  strained' \subseteq Subs /\ unsettled' \subseteq Subs
      <3>1. request[r].sub \in Subs
        BY <2>3 DEF IInv, Shape, ShapeOf, LinkUpdate, Is
      <3> QED
        BY <1>1, <2>3, <3>1 DEF LinkUpdate, TypeOK
    <2>4. ASSUME NEW r \in Requests, Unlink(r) \/ NewRow(r)
          PROVE  strained' = strained /\ unsettled' = unsettled
      BY <2>4 DEF Unlink, NewRow
    <2>5. ASSUME NEW r \in Requests, NEW e \in Emails, NEW s \in Subs,
                 NEW quantity \in Quantities, Buy(r, e, s, quantity)
          PROVE  strained' = strained /\ unsettled' = unsettled
      BY <2>5 DEF Buy
    <2>6. ASSUME NEW r \in Requests, NEW quantity \in Quantities,
                 BuyMoreAtStripe(r, quantity)
          PROVE  strained' \subseteq Subs /\ unsettled' \subseteq Subs
      <3>1. request[r].sub \in Subs
        BY <2>6 DEF IInv, Shape, ShapeOf, BuyMoreAtStripe, Is
      <3> QED
        BY <1>1, <2>6, <3>1 DEF BuyMoreAtStripe, TypeOK
    <2>7. ASSUME NEW r \in Requests, BuyMoreHere(r)
          PROVE  strained' \subseteq Subs /\ unsettled' \subseteq Subs
      <3>1. request[r].sub \in Subs
        BY <2>7, BuyMoreHereRow
      <3> QED
        BY <1>1, <2>7, <3>1 DEF BuyMoreHere, TypeOK
    <2>8. ASSUME NEW e \in Emails, Unsubscribe(e)
          PROVE  strained' = strained /\ unsettled' = unsettled
      BY <2>8 DEF Unsubscribe
    <2>9. CASE UNCHANGED vars
      BY <1>1, <2>9 DEF vars, TypeOK
    <2>10. strained \subseteq Subs /\ unsettled \subseteq Subs
      BY <1>1 DEF TypeOK
    <2>11. ASSUME NEW r \in Requests, Ends(r)
           PROVE  strained' \subseteq Subs /\ unsettled' \subseteq Subs
      BY <2>2, <2>3, <2>4, <2>10, <2>11 DEF Ends
    <2> QED
      BY <2>1, <2>5, <2>6, <2>7, <2>8, <2>9, <2>10, <2>11, NextByKind
  <1> QED
    BY <1>2, <1>3, <1>4, <1>5, <1>6, <1>7 DEF TypeOK

LEMMA ShapeStep ==
    ASSUME IInv, [Next]_vars
    PROVE  Shape'
  <1> SUFFICES ASSUME NEW q \in Requests
               PROVE  ShapeOf(q)'
    BY DEF Shape
  <1>1. ShapeOf(q)
    BY DEF IInv, Shape
  <1>2. request'[q] = request[q] => ShapeOf(q)'
    BY <1>1 DEF ShapeOf
  <1>3. ASSUME NEW r \in Requests, Steady(r)
        PROVE  ShapeOf(q)'
    BY <1>2, <1>3 DEF Steady, OthersKept
  <1>4. ASSUME NEW r \in Requests, NEW e \in Emails, NEW s \in Subs,
               NEW quantity \in Quantities, Buy(r, e, s, quantity)
        PROVE  ShapeOf(q)'
    <2>1. CASE q # r
      BY <1>2, <1>4, <2>1, BuyFields DEF IInv, OthersKept
    <2>2. CASE q = r
      BY <1>4, <2>2, BuyFields DEF IInv, ShapeOf
    <2> QED
      BY <2>1, <2>2
  <1> QED
    BY <1>2, <1>3, <1>4, RequestsMove

\* Who is buying after a step was before it, or has just bought what nobody had.
BuyingBefore(q) ==
    /\ request[q].task = "buy"
    /\ request'[q].email = request[q].email
    /\ request'[q].sub = request[q].sub
    /\ request'[q].quantity = request[q].quantity
    /\ request'[q].stage = "row" /\ request[q].stage # "row" =>
          /\ user'[request'[q].email].accountRole = "boss"
          /\ user'[request'[q].email].account # None

NewBuyer(q) ==
    /\ OthersKept(q)
    /\ row' = row
    /\ request'[q].stage = "account"
    /\ request'[q].email \in Emails
    /\ request'[q].sub \in Subs
    /\ stripe[request'[q].sub] = 0
    /\ stripe'[request'[q].sub] = request'[q].quantity
    /\ user'[request'[q].email] # None
    /\ user'[request'[q].email].subscriber

LEMMA BuyersMove ==
    ASSUME IInv, [Next]_vars, NEW q \in Requests, request'[q].task = "buy"
    PROVE  BuyingBefore(q) \/ NewBuyer(q)
  <1>1. ASSUME request'[q] = request[q]
        PROVE  BuyingBefore(q)
    BY <1>1 DEF BuyingBefore
  <1>2. ASSUME NEW r \in Requests, Steady(r)
        PROVE  BuyingBefore(q)
    <2>1. CASE q = r
      BY <1>2, <2>1 DEF Steady, SameBuyer, BossBeforeRow, BuyingBefore
    <2>2. CASE q # r
      BY <1>1, <1>2, <2>2 DEF Steady, OthersKept
    <2> QED
      BY <2>1, <2>2
  <1>3. ASSUME NEW r \in Requests, NEW e \in Emails, NEW s \in Subs,
               NEW quantity \in Quantities, Buy(r, e, s, quantity)
        PROVE  BuyingBefore(q) \/ NewBuyer(q)
    <2>1. TypeOK
      BY DEF IInv
    <2>2. /\ request'[r].stage = "account"
          /\ request'[r].email = e
          /\ request'[r].sub = s
          /\ request'[r].quantity = quantity
          /\ OthersKept(r)
          /\ stripe[s] = 0
          /\ stripe'[s] = quantity
          /\ row' = row
      BY <1>3, <2>1, BuyFields
    <2>3. user'[e] # None /\ user'[e].subscriber
      BY <1>3, <2>1, BuyUser DEF Exists
    <2>4. CASE q = r
      BY <2>2, <2>3, <2>4 DEF NewBuyer
    <2>5. CASE q # r
      BY <1>1, <2>2, <2>5 DEF OthersKept
    <2> QED
      BY <2>4, <2>5
  <1> QED
    BY <1>1, <1>2, <1>3, RequestsMove

\* Nobody was buying what has just been bought.
LEMMA NewBuyerAlone ==
    ASSUME IInv, NEW q \in Requests, NewBuyer(q), NEW p \in Requests, p # q,
           request'[p].task = "buy"
    PROVE  request'[p].sub # request'[q].sub
  <1>1. request'[p] = request[p]
    BY DEF NewBuyer, OthersKept
  <1>2. KnowsItsRowAt(p) /\ ShapeOf(p)
    BY DEF IInv, KnowsItsRow, Shape
  <1>3. stripe[request[p].sub] \in Quantities
    BY <1>1, <1>2 DEF KnowsItsRowAt, ShapeOf
  <1> QED
    BY <1>1, <1>3 DEF NewBuyer, Quantities

LEMMA BuyersAloneStep ==
    ASSUME IInv, [Next]_vars
    PROVE  BuyersAlone'
  <1> SUFFICES ASSUME NEW p \in Requests, NEW q \in Requests, p # q,
                      request'[p].task = "buy", request'[q].task = "buy"
               PROVE  request'[p].sub # request'[q].sub
    BY DEF BuyersAlone, Apart
  <1>1. CASE BuyingBefore(p) /\ BuyingBefore(q)
    <2>1. Apart(p, q)
      BY DEF IInv, BuyersAlone
    <2> QED
      BY <1>1, <2>1 DEF Apart, BuyingBefore
  <1>2. CASE NewBuyer(p)
    BY <1>2, NewBuyerAlone
  <1>3. CASE NewBuyer(q)
    BY <1>3, NewBuyerAlone
  <1> QED
    BY <1>1, <1>2, <1>3, BuyersMove

LEMMA SoldStep ==
    ASSUME IInv, [Next]_vars
    PROVE  Sold'
  <1> SUFFICES ASSUME NEW s \in Subs
               PROVE  SoldAt(s)'
    BY DEF Sold
  <1>1. SoldAt(s)
    BY DEF IInv, Sold
  <1>2. stripe[s] # 0 => stripe'[s] # 0
    BY StripeMoves DEF Quantities
  <1>3. Bought(s)' => stripe'[s] # 0
    <2>1. ASSUME NEW r \in Requests, RowWritten(s, r)
          PROVE  stripe[s] # 0
      <3>1. KnowsItsRowAt(r) /\ ShapeOf(r) /\ request[r].task = "buy"
        BY <2>1 DEF IInv, KnowsItsRow, Shape, RowWritten, NewRow, Is
      <3> QED
        BY <2>1, <3>1 DEF KnowsItsRowAt, ShapeOf, RowWritten, Quantities
    <2> QED
      BY <1>1, <1>2, <2>1, RowsStay DEF SoldAt
  <1>4. ~Bought(s)' => MembersOf(s)' = {}
    <2>1. ASSUME NEW r \in Requests, LinkUpdate(r), request[r].sub = s
          PROVE  Bought(s)
      BY <2>1 DEF IInv, KnowsItsRow, KnowsItsRowAt, LinkUpdate, Is
    <2> QED
      BY <1>1, <2>1, MembersMove, RowsStay DEF SoldAt
  <1> QED
    BY <1>3, <1>4 DEF SoldAt


LEMMA KnowsItsRowStep ==
    ASSUME IInv, [Next]_vars
    PROVE  KnowsItsRow'
  <1> SUFFICES ASSUME NEW q \in Requests
               PROVE  KnowsItsRowAt(q)'
    BY DEF KnowsItsRow
  <1>1. ShapeOf(q)'
    BY ShapeStep DEF Shape
  <1>2. ASSUME request'[q].task = "buy", BuyingBefore(q)
        PROVE  /\ row'[request'[q].sub] = None
               /\ stripe'[request'[q].sub] = request'[q].quantity
    <2> DEFINE s == request[q].sub
    <2>1. request[q].task = "buy" /\ request'[q].sub = s
      BY <1>2 DEF BuyingBefore
    <2>2. s \in Subs
      BY <1>1, <1>2, <2>1 DEF ShapeOf
    <2>3. KnowsItsRowAt(q) /\ ShapeOf(q)
      BY DEF IInv, KnowsItsRow, Shape
    <2>4. row[s] = None /\ stripe[s] = request[q].quantity /\ stripe[s] # 0
      BY <2>1, <2>3 DEF KnowsItsRowAt, ShapeOf, Bought, Quantities
    <2>5. ASSUME NEW r \in Requests, RowWritten(s, r)
          PROVE  FALSE
      <3>1. request[r].task = "buy" /\ request[r].sub = s /\ request'[r].task = "none"
        BY <2>5, NewRowFields, IdleFields DEF IInv, RowWritten
      <3>2. Apart(r, q)
        BY DEF IInv, BuyersAlone
      <3> QED
        BY <1>2, <2>1, <3>1, <3>2 DEF Apart
    <2>6. row'[s] = None
      BY <2>2, <2>4, <2>5, RowsStay DEF Bought
    <2>7. ASSUME NEW r \in Requests, NEW quantity \in Quantities,
                 BuyMoreAtStripe(r, quantity), request[r].sub = s
          PROVE  FALSE
      <3>1. KnowsItsRowAt(r) /\ request[r].task = "buyMore"
        BY <2>7 DEF IInv, KnowsItsRow, BuyMoreAtStripe, Is
      <3> QED
        BY <2>4, <2>7, <3>1 DEF KnowsItsRowAt, Bought
    <2>8. stripe'[s] = stripe[s]
      BY <2>2, <2>4, <2>7, StripeMoves
    <2> QED
      BY <1>2, <2>4, <2>6, <2>8 DEF BuyingBefore
  <1>3. ASSUME request'[q].task = "buy", NewBuyer(q)
        PROVE  /\ row'[request'[q].sub] = None
               /\ stripe'[request'[q].sub] = request'[q].quantity
    <2>1. SoldAt(request'[q].sub)
      BY <1>3 DEF IInv, Sold, NewBuyer
    <2> QED
      BY <1>3, <2>1 DEF NewBuyer, SoldAt, Bought
  <1>4. ASSUME request'[q].task \in {"link", "buyMore"}
        PROVE  row'[request'[q].sub] # None
    <2>1. request'[q].sub \in Subs
      BY <1>1, <1>4 DEF ShapeOf
    <2>2. request'[q] = request[q] => Bought(request'[q].sub)
      BY <1>4 DEF IInv, KnowsItsRow, KnowsItsRowAt
    <2>3. ASSUME NEW r \in Requests, Steady(r)
          PROVE  Bought(request'[q].sub)
      BY <1>4, <2>2, <2>3 DEF Steady, OthersKept, AboutARow
    <2>4. ASSUME NEW r \in Requests, NEW e \in Emails, NEW s \in Subs,
                 NEW quantity \in Quantities, Buy(r, e, s, quantity)
          PROVE  Bought(request'[q].sub)
      BY <1>4, <2>2, <2>4, BuyFields DEF IInv, OthersKept
    <2>5. Bought(request'[q].sub)
      BY <2>2, <2>3, <2>4, RequestsMove
    <2> QED
      BY <2>1, <2>5, RowsStay DEF Bought
  <1> QED
    BY <1>2, <1>3, <1>4, BuyersMove DEF KnowsItsRowAt, Bought

LEMMA SeenLeftStep ==
    ASSUME IInv, [Next]_vars
    PROVE  SeenLeft'
  <1> SUFFICES ASSUME NEW q \in Requests
               PROVE  SeenLeftBy(q)'
    BY DEF SeenLeft
  <1>1. request'[q] = request[q] => SeenLeftBy(q)'
    BY DEF IInv, SeenLeft, SeenLeftBy
  <1>2. ASSUME NEW r \in Requests, Steady(r)
        PROVE  SeenLeftBy(q)'
    BY <1>1, <1>2 DEF Steady, OthersKept
  <1>3. ASSUME NEW r \in Requests, NEW e \in Emails, NEW s \in Subs,
               NEW quantity \in Quantities, Buy(r, e, s, quantity)
        PROVE  SeenLeftBy(q)'
    <2>1. request'[r].task = "buy" /\ OthersKept(r)
      BY <1>3, BuyFields DEF IInv
    <2>2. CASE q = r
      BY <2>1, <2>2 DEF SeenLeftBy
    <2>3. CASE q # r
      BY <1>1, <2>1, <2>3 DEF OthersKept
    <2> QED
      BY <2>2, <2>3
  <1> QED
    BY <1>1, <1>2, <1>3, RequestsMove

\* Users are gone only when they unsubscribe.
LEMMA UsersStay ==
    ASSUME IInv, [Next]_vars, NEW e \in Emails, Exists(e), ~Unsubscribe(e)
    PROVE  user'[e] # None
  <1>1. TypeOK /\ Shape
    BY DEF IInv
  <1>2. user' = user => user'[e] # None
    BY DEF Exists
  <1>3. ASSUME NEW f \in Emails, user'[f] # None,
               \A g \in Emails \ {f} : user'[g] = user[g]
        PROVE  user'[e] # None
    BY <1>3 DEF Exists
  <1>4. ASSUME NEW r \in Requests, Pages(r)
        PROVE  user' = user
    BY <1>4, PagesSteady
  <1>5. ASSUME NEW r \in Requests, Given(r)
        PROVE  user'[e] # None
    <2>1. CASE KeepAccount(r)
      BY <1>1, <1>3, <2>1, KeepAccountUser
    <2>2. CASE LinkAccount(r)
      BY <1>1, <1>3, <2>2, LinkAccountUser
    <2>3. ASSUME NEW f \in Emails, LinkFind(r, f)
          PROVE  user'[e] # None
      BY <1>1, <1>3, <2>3, LinkFindUser
    <2> QED
      BY <1>5, <2>1, <2>2, <2>3 DEF Given
  <1>6. ASSUME NEW r \in Requests, Ends(r)
        PROVE  user'[e] # None
    <2>1. CASE LinkUpdate(r)
      BY <1>1, <1>3, <2>1, LinkUpdateUser
    <2>2. CASE Unlink(r)
      BY <1>1, <1>3, <2>2, UnlinkUser
    <2>3. CASE Abandon(r) \/ NewRow(r)
      BY <1>2, <2>3 DEF Abandon, NewRow
    <2> QED
      BY <1>6, <2>1, <2>2, <2>3 DEF Ends
  <1>7. ASSUME NEW r \in Requests, NEW f \in Emails, NEW s \in Subs,
               NEW quantity \in Quantities, Buy(r, f, s, quantity)
        PROVE  user'[e] # None
    BY <1>1, <1>3, <1>7, BuyUser
  <1>8. ASSUME NEW r \in Requests,
               \/ BuyMoreHere(r)
               \/ \E quantity \in Quantities : BuyMoreAtStripe(r, quantity)
        PROVE  user' = user
    BY <1>8 DEF BuyMoreHere, BuyMoreAtStripe
  <1>9. ASSUME NEW f \in Emails, Unsubscribe(f)
        PROVE  user'[e] # None
    <2>1. f # e
      BY <1>9
    <2>2. user'[e] = user[e]
      BY <1>1, <1>9, <2>1, UnsubscribeUser
    <2> QED
      BY <2>2 DEF Exists
  <1>10. CASE UNCHANGED vars
    BY <1>2, <1>10 DEF vars
  <1> QED
    BY <1>2, <1>4, <1>5, <1>6, <1>7, <1>8, <1>9, <1>10, NextByKind

LEMMA OwnersExistStep ==
    ASSUME IInv, [Next]_vars
    PROVE  OwnersExist'
  <1> SUFFICES ASSUME NEW s \in Subs, row'[s] # None, row'[s].owner # None
               PROVE  user'[row'[s].owner] # None
    BY DEF OwnersExist, Open, Bought, Exists
  <1>1. TypeOK
    BY DEF IInv
  <1>2. ASSUME Bought(s), row'[s].owner = row[s].owner
        PROVE  user'[row'[s].owner] # None
    <2>1. row[s].owner \in Emails /\ Exists(row[s].owner)
      BY <1>1, <1>2 DEF IInv, OwnersExist, Open, TypeOK, Bought, Row
    <2>2. ~Unsubscribe(row[s].owner)
      BY <1>2, <2>1, UnsubscribeRow
    <2> QED
      BY <1>2, <2>1, <2>2, UsersStay
  <1>3. ASSUME NEW r \in Requests, RowWritten(s, r)
        PROVE  user'[row'[s].owner] # None
    <2>1. user' = user /\ Exists(request[r].email)
      BY <1>1, <1>3, NewRowFields DEF RowWritten
    <2> QED
      BY <1>3, <2>1 DEF RowWritten, Exists
  <1>4. ASSUME NEW r \in Requests, SeatsWritten(s, r)
        PROVE  Bought(s) /\ row'[s].owner = row[s].owner
    BY <1>4 DEF SeatsWritten
  <1>5. ASSUME NEW e \in Emails, OwnerGone(s, e)
        PROVE  FALSE
    BY <1>5 DEF OwnerGone
  <1>6. row'[s] = row[s] => Bought(s) /\ row'[s].owner = row[s].owner
    BY DEF Bought
  <1> QED
    BY <1>2, <1>3, <1>4, <1>5, <1>6, RowsMove

\* Of a subscription that is not displaced, who owned or was buying it has kept
\* what they had.
LEMMA BuyerImproved ==
    ASSUME IInv, [Next]_vars, NEW s \in Subs, s \notin displaced', NEW e \in Emails,
           s \in BoughtBy(e)
    PROVE  s \notin displaced /\ Improved(e)
  BY UsersMove DEF UsersKept

LEMMA OwnersKnownStep ==
    ASSUME IInv, [Next]_vars
    PROVE  OwnersKnown'
  <1> SUFFICES ASSUME NEW s \in Subs, s \notin displaced', row'[s] # None
               PROVE  row'[s].owner # None
    BY DEF OwnersKnown, Bought
  <1>1. s \notin displaced
    BY UsersMove DEF UsersKept
  <1>2. Bought(s) => row[s].owner # None
    BY <1>1 DEF IInv, OwnersKnown
  <1>3. ASSUME NEW r \in Requests, RowWritten(s, r)
        PROVE  row'[s].owner # None
    <2>1. ShapeOf(r) /\ request[r].task = "buy"
      BY <1>3 DEF IInv, Shape, RowWritten, NewRow, Is
    <2>2. request[r].email # None
      BY <2>1, NoneIsNothing DEF ShapeOf
    <2> QED
      BY <1>3, <2>2 DEF RowWritten
  <1>4. ASSUME NEW r \in Requests, SeatsWritten(s, r)
        PROVE  row'[s].owner # None
    BY <1>2, <1>4 DEF SeatsWritten
  <1>5. ASSUME NEW e \in Emails, OwnerGone(s, e)
        PROVE  FALSE
    BY <1>5 DEF OwnerGone, Unsubscribe, BoughtBy
  <1>6. row'[s] = row[s] => row'[s].owner # None
    BY <1>2 DEF Bought
  <1> QED
    BY <1>3, <1>4, <1>5, <1>6, RowsMove

LEMMA BuyersServedStep ==
    ASSUME IInv, [Next]_vars
    PROVE  BuyersServed'
  <1> SUFFICES ASSUME NEW q \in Requests, request'[q].task = "buy",
                      request'[q].sub \notin displaced'
               PROVE  /\ user'[request'[q].email] # None
                      /\ user'[request'[q].email].subscriber
                      /\ request'[q].stage = "row" =>
                            /\ user'[request'[q].email].accountRole = "boss"
                            /\ user'[request'[q].email].account # None
    BY DEF BuyersServed, BuyerServed, Exists
  <1>1. CASE BuyingBefore(q)
    <2> DEFINE e == request[q].email
               s == request[q].sub
    <2>1. request[q].task = "buy" /\ request'[q].email = e /\ request'[q].sub = s
      BY <1>1 DEF BuyingBefore
    <2>2. ShapeOf(q) /\ BuyerServed(q)
      BY DEF IInv, Shape, BuyersServed
    <2>3. e \in Emails /\ s \in Subs
      BY <2>1, <2>2 DEF ShapeOf
    <2>4. s \in BoughtBy(e)
      BY <2>1, <2>3 DEF BoughtBy
    <2>5. s \notin displaced /\ Improved(e)
      BY <2>1, <2>3, <2>4, BuyerImproved
    <2>6. /\ Exists(e)
          /\ user[e].subscriber
          /\ request[q].stage = "row" =>
                user[e].accountRole = "boss" /\ user[e].account # None
      BY <2>1, <2>2, <2>5 DEF BuyerServed
    <2>7. user'[e] # None /\ user'[e].subscriber
      BY <2>5, <2>6 DEF Improved
    <2>8. request[q].stage = "row" =>
             user'[e].accountRole = "boss" /\ user'[e].account # None
      BY <2>5, <2>6 DEF Improved
    <2>9. request'[q].stage = "row" /\ request[q].stage # "row" =>
             user'[e].accountRole = "boss" /\ user'[e].account # None
      BY <1>1 DEF BuyingBefore
    <2> QED
      BY <2>1, <2>7, <2>8, <2>9
  <1>2. CASE NewBuyer(q)
    BY <1>2 DEF NewBuyer
  <1> QED
    BY <1>1, <1>2, BuyersMove

LEMMA PayersAreBossesStep ==
    ASSUME IInv, [Next]_vars
    PROVE  PayersAreBosses'
  <1> SUFFICES ASSUME NEW s \in Subs, s \notin displaced', row'[s] # None
               PROVE  /\ user'[row'[s].owner] # None
                      /\ user'[row'[s].owner].accountRole = "boss"
                      /\ user'[row'[s].owner].account # None
                      /\ user'[row'[s].owner].subscriber
    BY DEF PayersAreBosses, Bought, Exists
  <1>1. TypeOK /\ s \notin displaced
    BY UsersMove DEF UsersKept, IInv
  <1>2. ASSUME Bought(s), row'[s].owner = row[s].owner
        PROVE  /\ user'[row'[s].owner] # None
               /\ user'[row'[s].owner].accountRole = "boss"
               /\ user'[row'[s].owner].account # None
               /\ user'[row'[s].owner].subscriber
    <2> DEFINE e == row[s].owner
    <2>1. e # None
      BY <1>1, <1>2 DEF IInv, OwnersKnown
    <2>2. e \in Emails
      BY <1>1, <1>2, <2>1 DEF TypeOK, Bought, Row
    <2>3. s \in BoughtBy(e)
      BY <1>2 DEF BoughtBy
    <2>4. Improved(e)
      BY <2>2, <2>3, BuyerImproved
    <2>5. /\ Exists(e)
          /\ user[e].accountRole = "boss"
          /\ user[e].account # None
          /\ user[e].subscriber
      BY <1>1, <1>2 DEF IInv, PayersAreBosses
    <2>6. /\ user'[e] # None
          /\ user'[e].accountRole = "boss"
          /\ user'[e].account # None
          /\ user'[e].subscriber
      BY <2>4, <2>5 DEF Improved
    <2> QED
      BY <1>2, <2>6
  <1>3. ASSUME NEW r \in Requests, RowWritten(s, r)
        PROVE  /\ user'[row'[s].owner] # None
               /\ user'[row'[s].owner].accountRole = "boss"
               /\ user'[row'[s].owner].account # None
               /\ user'[row'[s].owner].subscriber
    <2>1. user' = user /\ request[r].task = "buy" /\ request[r].stage = "row"
      BY <1>1, <1>3, NewRowFields DEF RowWritten
    <2>2. request[r].sub = s /\ row'[s].owner = request[r].email
      BY <1>3 DEF RowWritten
    <2>3. BuyerServed(r)
      BY DEF IInv, BuyersServed
    <2> QED
      BY <1>1, <2>1, <2>2, <2>3 DEF BuyerServed, Exists
  <1>4. ASSUME NEW r \in Requests, SeatsWritten(s, r)
        PROVE  Bought(s) /\ row'[s].owner = row[s].owner
    BY <1>4 DEF SeatsWritten
  <1>5. ASSUME NEW e \in Emails, OwnerGone(s, e)
        PROVE  FALSE
    BY <1>5 DEF OwnerGone, Unsubscribe, BoughtBy
  <1>6. row'[s] = row[s] => Bought(s) /\ row'[s].owner = row[s].owner
    BY DEF Bought
  <1> QED
    BY <1>2, <1>3, <1>4, <1>5, <1>6, RowsMove


-----------------------------------------------------------------------------
(***************************************************************************)
(* Seats.                                                                  *)
(***************************************************************************)
HalfKept(s) ==
    /\ HalfWay(s)' = HalfWay(s)
    /\ \A r \in HalfWay(s) : request'[r].quantity = request[r].quantity

\* Nothing that buy_more_users has to do with happens to the subscription.
Undisturbed(s) ==
    /\ HalfKept(s)
    /\ s \in unsettled' <=> s \in unsettled
    /\ stripe[s] # 0 => stripe'[s] = stripe[s]

PaidAtStripe(s, r) ==
    /\ request[r].sub = s
    /\ HalfWay(s)' = HalfWay(s) \cup {r}
    /\ HalfWay(s) # {} => s \in unsettled'
    /\ stripe'[s] = request'[r].quantity
    /\ row' = row

PaidHere(s, r) ==
    /\ request[r].sub = s
    /\ r \in HalfWay(s)
    /\ SeatsWritten(s, r)
    /\ HalfWay(s)' = HalfWay(s) \ {r}
    /\ s \notin unsettled' /\ s \in unsettled =>
          HalfWay(s) = {r} /\ request[r].quantity = stripe[s]
    /\ stripe'[s] = stripe[s]

LEMMA HalfKeptBy ==
    ASSUME NEW r \in Requests, OthersKept(r), NEW s \in Subs,
           r \notin HalfWay(s), r \notin HalfWay(s)'
    PROVE  HalfKept(s)
  <1>1. ASSUME NEW q \in Requests
        PROVE  q \in HalfWay(s)' <=> q \in HalfWay(s)
    <2>1. CASE q = r
      BY <2>1
    <2>2. CASE q # r
      BY <2>2 DEF OthersKept, HalfWay, Is
    <2> QED
      BY <2>1, <2>2
  <1>2. HalfWay(s)' \subseteq Requests /\ HalfWay(s) \subseteq Requests
    BY DEF HalfWay
  <1>3. \A q \in HalfWay(s) : request'[q].quantity = request[q].quantity
    BY <1>2 DEF OthersKept
  <1>4. HalfWay(s)' = HalfWay(s)
    BY <1>1, <1>2
  <1> QED
    BY <1>3, <1>4 DEF HalfKept

LEMMA NotHalfWayKept ==
    ASSUME NEW r \in Requests, OthersKept(r), NotHalfWay(r), NEW s \in Subs
    PROVE  HalfKept(s)
  <1>1. r \notin HalfWay(s) /\ r \notin HalfWay(s)'
    BY DEF NotHalfWay, HalfWay
  <1> QED
    BY <1>1, HalfKeptBy

LEMMA HalfWaySame ==
    ASSUME request' = request, NEW s \in Subs
    PROVE  HalfKept(s)
  BY DEF HalfKept, HalfWay, Is

LEMMA PaidAtStripeMoves ==
    ASSUME IInv, NEW r \in Requests, NEW quantity \in Quantities,
           BuyMoreAtStripe(r, quantity), NEW s \in Subs
    PROVE  Undisturbed(s) \/ PaidAtStripe(s, r)
  <1>1. TypeOK
    BY DEF IInv
  <1>2. /\ request[r].task = "buyMore"
        /\ request[r].stage = "page"
        /\ request'[r].task = "buyMore"
        /\ request'[r].stage = "here"
        /\ request'[r].sub = request[r].sub
        /\ request'[r].quantity = quantity
        /\ OthersKept(r)
        /\ row' = row
    BY <1>1, BuyMoreAtStripeFields
  <1>3. r \notin HalfWay(s)
    BY <1>2 DEF HalfWay, Is
  <1>4. CASE request[r].sub # s
    <2>1. r \notin HalfWay(s)'
      BY <1>2, <1>4 DEF HalfWay, Is
    <2>2. HalfKept(s)
      BY <1>2, <1>3, <2>1, HalfKeptBy
    <2>3. s \in unsettled' <=> s \in unsettled
      BY <1>4 DEF BuyMoreAtStripe
    <2>4. stripe'[s] = stripe[s]
      BY <1>1, <1>4 DEF BuyMoreAtStripe, TypeOK
    <2> QED
      BY <2>2, <2>3, <2>4 DEF Undisturbed
  <1>5. CASE request[r].sub = s
    <2>1. r \in HalfWay(s)'
      BY <1>2, <1>5 DEF HalfWay, Is
    <2>2. ASSUME NEW q \in Requests \ {r}
          PROVE  q \in HalfWay(s)' <=> q \in HalfWay(s)
      BY <1>2 DEF OthersKept, HalfWay, Is
    <2>3. HalfWay(s) \subseteq Requests /\ HalfWay(s)' \subseteq Requests
      BY DEF HalfWay
    <2>4. HalfWay(s)' = HalfWay(s) \cup {r}
      BY <2>1, <2>2, <2>3
    <2>5. HalfWay(s) # {} => s \in unsettled'
      BY <1>5 DEF BuyMoreAtStripe
    <2>6. stripe'[s] = quantity
      BY <1>1, <1>5 DEF BuyMoreAtStripe, TypeOK
    <2> QED
      BY <1>2, <1>5, <2>4, <2>5, <2>6 DEF PaidAtStripe
  <1> QED
    BY <1>4, <1>5

LEMMA PaidHereMoves ==
    ASSUME IInv, NEW r \in Requests, BuyMoreHere(r), NEW s \in Subs
    PROVE  Undisturbed(s) \/ PaidHere(s, r)
  <1>1. TypeOK
    BY DEF IInv
  <1>2. /\ request[r].task = "buyMore"
        /\ request[r].stage = "here"
        /\ request'[r].stage = "account"
        /\ OthersKept(r)
        /\ stripe' = stripe
    BY <1>1, BuyMoreHereFields
  <1>3. r \notin HalfWay(s)'
    BY <1>2 DEF HalfWay, Is
  <1>4. CASE request[r].sub # s
    <2>1. r \notin HalfWay(s)
      BY <1>4 DEF HalfWay
    <2>2. HalfKept(s)
      BY <1>2, <1>3, <2>1, HalfKeptBy
    <2>3. s \in unsettled' <=> s \in unsettled
      BY <1>4 DEF BuyMoreHere
    <2> QED
      BY <1>2, <2>2, <2>3 DEF Undisturbed
  <1>5. CASE request[r].sub = s
    <2>1. r \in HalfWay(s)
      BY <1>2, <1>5 DEF HalfWay, Is
    <2>2. ASSUME NEW q \in Requests \ {r}
          PROVE  q \in HalfWay(s)' <=> q \in HalfWay(s)
      BY <1>2 DEF OthersKept, HalfWay, Is
    <2>3. HalfWay(s) \subseteq Requests /\ HalfWay(s)' \subseteq Requests
      BY DEF HalfWay
    <2>4. HalfWay(s)' = HalfWay(s) \ {r}
      BY <1>3, <2>1, <2>2, <2>3
    <2>5. s \notin unsettled' /\ s \in unsettled =>
             HalfWay(s) = {r} /\ request[r].quantity = stripe[s]
      BY <1>5 DEF BuyMoreHere
    <2>6. SeatsWritten(s, r)
      BY <1>5, BuyMoreHereRow
    <2> QED
      BY <1>2, <1>5, <2>1, <2>4, <2>5, <2>6 DEF PaidHere
  <1> QED
    BY <1>4, <1>5

LEMMA AbandonMoves ==
    ASSUME IInv, NEW r \in Requests, Abandon(r), NEW s \in Subs
    PROVE  Undisturbed(s) \/ s \in unsettled'
  <1>1. OthersKept(r) /\ stripe' = stripe
    BY EndsFields DEF IInv
  <1>2. ~Is(r, "buyMore", "here")'
    BY EndsSteady DEF Ends
  <1>3. r \notin HalfWay(s)'
    BY <1>2 DEF HalfWay
  <1>4. CASE r \in HalfWay(s)
    BY <1>4 DEF HalfWay, Abandon
  <1>5. CASE r \notin HalfWay(s)
    <2>1. HalfKept(s)
      BY <1>1, <1>3, <1>5, HalfKeptBy
    <2>2. s \in unsettled' <=> s \in unsettled
      BY <1>5 DEF Abandon, HalfWay
    <2> QED
      BY <1>1, <2>1, <2>2 DEF Undisturbed
  <1> QED
    BY <1>4, <1>5

LEMMA HalvesMove ==
    ASSUME IInv, [Next]_vars, NEW s \in Subs
    PROVE  \/ Undisturbed(s)
           \/ s \in unsettled'
           \/ \E r \in Requests : PaidAtStripe(s, r) \/ PaidHere(s, r)
  <1>1. TypeOK
    BY DEF IInv
  <1>2. ASSUME NEW r \in Requests, Steady(r), NotHalfWay(r),
               unsettled' = unsettled, stripe' = stripe
        PROVE  Undisturbed(s)
    BY <1>2, NotHalfWayKept DEF Steady, Undisturbed
  <1>3. ASSUME NEW r \in Requests, Pages(r) \/ Given(r)
        PROVE  Undisturbed(s)
    BY <1>2, <1>3, PagesSteady, GivenSteady
  <1>4. ASSUME NEW r \in Requests, Ends(r), ~Abandon(r)
        PROVE  Undisturbed(s)
    <2>1. Steady(r) /\ NotHalfWay(r)
      BY <1>4, EndsSteady DEF NotHalfWay
    <2>2. unsettled' = unsettled /\ stripe' = stripe
      BY <1>4 DEF Ends, LinkUpdate, Unlink, NewRow
    <2> QED
      BY <1>2, <2>1, <2>2
  <1>5. ASSUME NEW r \in Requests, NEW e \in Emails, NEW t \in Subs,
               NEW quantity \in Quantities, Buy(r, e, t, quantity)
        PROVE  Undisturbed(s)
    <2>1. /\ request[r] = Idle
          /\ request'[r].task = "buy"
          /\ OthersKept(r)
          /\ stripe[t] = 0
          /\ \A x \in Subs \ {t} : stripe'[x] = stripe[x]
          /\ unsettled' = unsettled
      BY <1>1, <1>5, BuyFields
    <2>2. NotHalfWay(r)
      BY <2>1, IdleFields DEF NotHalfWay, Is
    <2>3. HalfKept(s)
      BY <2>1, <2>2, NotHalfWayKept
    <2> QED
      BY <2>1, <2>3 DEF Undisturbed
  <1>6. ASSUME NEW e \in Emails, Unsubscribe(e)
        PROVE  Undisturbed(s)
    BY <1>6, HalfWaySame DEF Unsubscribe, Undisturbed
  <1>7. CASE UNCHANGED vars
    BY <1>7, HalfWaySame DEF vars, Undisturbed
  <1>8. ASSUME NEW r \in Requests, Ends(r)
        PROVE  Undisturbed(s) \/ s \in unsettled'
    BY <1>4, <1>8, AbandonMoves
  <1> QED
    BY <1>3, <1>5, <1>6, <1>7, <1>8, PaidAtStripeMoves, PaidHereMoves, NextByKind

\* Of the forms that are half-way, all are for a subscription with a row.
LEMMA HalfWayBought ==
    ASSUME IInv, NEW s \in Subs, NEW r \in HalfWay(s)
    PROVE  Bought(s) /\ stripe[s] # 0
  BY DEF IInv, KnowsItsRow, KnowsItsRowAt, Sold, SoldAt, HalfWay, Is

LEMMA HalfPaidStep ==
    ASSUME IInv, [Next]_vars
    PROVE  HalfPaid'
  <1> SUFFICES ASSUME NEW s \in Subs, NEW q \in Requests, s \notin unsettled',
                      q \in HalfWay(s)'
               PROVE  request'[q].quantity = stripe'[s] /\ HalfWay(s)' = {q}
    BY DEF HalfPaid, HalfPaidAt
  <1>1. ASSUME NEW r \in HalfWay(s), s \notin unsettled
        PROVE  request[r].quantity = stripe[s] /\ HalfWay(s) = {r}
    <2>1. r \in Requests
      BY DEF HalfWay
    <2> QED
      BY <1>1, <2>1 DEF IInv, HalfPaid, HalfPaidAt
  <1>2. CASE Undisturbed(s)
    <2>1. q \in HalfWay(s) /\ s \notin unsettled
      BY <1>2 DEF Undisturbed, HalfKept
    <2>2. stripe'[s] = stripe[s]
      BY <1>2, <2>1, HalfWayBought DEF Undisturbed
    <2> QED
      BY <1>1, <1>2, <2>1, <2>2 DEF Undisturbed, HalfKept
  <1>3. ASSUME NEW r \in Requests, PaidAtStripe(s, r)
        PROVE  request'[q].quantity = stripe'[s] /\ HalfWay(s)' = {q}
    <2>1. HalfWay(s) = {} /\ HalfWay(s)' = {r} /\ stripe'[s] = request'[r].quantity
      BY <1>3 DEF PaidAtStripe
    <2>2. q = r
      BY <2>1
    <2> QED
      BY <2>1, <2>2
  <1>4. ASSUME NEW r \in Requests, PaidHere(s, r)
        PROVE  FALSE
    <2>1. r \in HalfWay(s) /\ HalfWay(s)' = HalfWay(s) \ {r}
      BY <1>4 DEF PaidHere
    <2>2. HalfWay(s) = {r}
      BY <1>1, <1>4, <2>1 DEF PaidHere
    <2> QED
      BY <2>1, <2>2
  <1> QED
    BY <1>2, <1>3, <1>4, HalvesMove

LEMMA SeatsArePaidStep ==
    ASSUME IInv, [Next]_vars
    PROVE  SeatsArePaid'
  <1> SUFFICES ASSUME NEW s \in Subs, s \notin unsettled', row'[s] # None,
                      HalfWay(s)' = {}
               PROVE  row'[s].seats = stripe'[s]
    BY DEF SeatsArePaid, Bought
  <1>1. CASE Undisturbed(s)
    <2>1. s \notin unsettled /\ HalfWay(s) = {}
      BY <1>1 DEF Undisturbed, HalfKept
    <2>2. ASSUME Bought(s), row'[s].seats = row[s].seats
          PROVE  row'[s].seats = stripe'[s]
      <3>1. row[s].seats = stripe[s]
        BY <2>1, <2>2 DEF IInv, SeatsArePaid
      <3>2. stripe[s] # 0
        BY <2>2 DEF IInv, Sold, SoldAt
      <3> QED
        BY <1>1, <2>2, <3>1, <3>2 DEF Undisturbed
    <2>3. ASSUME NEW r \in Requests, RowWritten(s, r)
          PROVE  row'[s].seats = stripe'[s]
      <3>1. KnowsItsRowAt(r) /\ ShapeOf(r) /\ request[r].task = "buy"
        BY <2>3 DEF IInv, KnowsItsRow, Shape, RowWritten, NewRow, Is
      <3>2. row'[s].seats = request[r].quantity /\ request[r].sub = s
        BY <2>3 DEF RowWritten
      <3>3. stripe[s] = request[r].quantity /\ stripe[s] # 0
        BY <3>1, <3>2 DEF KnowsItsRowAt, ShapeOf, Quantities
      <3> QED
        BY <1>1, <3>2, <3>3 DEF Undisturbed
    <2>4. ASSUME NEW r \in Requests, SeatsWritten(s, r)
          PROVE  FALSE
      <3>1. r \in HalfWay(s)
        BY <2>4 DEF SeatsWritten, BuyMoreHere, HalfWay
      <3> QED
        BY <2>1, <3>1
    <2>5. ASSUME NEW e \in Emails, OwnerGone(s, e)
          PROVE  Bought(s) /\ row'[s].seats = row[s].seats
      BY <2>5 DEF OwnerGone
    <2>6. row'[s] = row[s] => Bought(s) /\ row'[s].seats = row[s].seats
      BY DEF Bought
    <2> QED
      BY <2>2, <2>3, <2>4, <2>5, <2>6, RowsMove
  <1>2. ASSUME NEW r \in Requests, PaidAtStripe(s, r)
        PROVE  FALSE
    BY <1>2 DEF PaidAtStripe
  <1>3. ASSUME NEW r \in Requests, PaidHere(s, r)
        PROVE  row'[s].seats = stripe'[s]
    <2>1. request[r].quantity = stripe[s]
      <3>1. CASE s \in unsettled
        BY <1>3, <3>1 DEF PaidHere
      <3>2. CASE s \notin unsettled
        BY <1>3, <3>2 DEF PaidHere, IInv, HalfPaid, HalfPaidAt
      <3> QED
        BY <3>1, <3>2
    <2> QED
      BY <1>3, <2>1 DEF PaidHere, SeatsWritten
  <1> QED
    BY <1>1, <1>2, <1>3, HalvesMove

\* What was strained stays so, and is where a member is linked by a page that
\* has become untrue, or where the number of seats is lowered.
StrainKept ==
    /\ strained \subseteq strained'
    /\ \A r \in Requests :
          LinkUpdate(r) /\ request[r].sub \notin strained' =>
              /\ request[r].seen = MembersOf(request[r].sub)
              /\ request[r].seats = row[request[r].sub].seats
    /\ \A r \in Requests :
          BuyMoreHere(r) /\ request[r].sub \notin strained' =>
              ~(request[r].quantity < row[request[r].sub].seats)

LEMMA StrainMoves ==
    ASSUME IInv, [Next]_vars
    PROVE  StrainKept
  <1>1. \A r \in Requests : LinkUpdate(r) =>
           /\ strained \subseteq strained'
           /\ request[r].sub \notin strained' =>
                 /\ request[r].seen = MembersOf(request[r].sub)
                 /\ request[r].seats = row[request[r].sub].seats
    BY DEF LinkUpdate
  <1>2. \A r \in Requests : BuyMoreHere(r) =>
           /\ strained \subseteq strained'
           /\ request[r].sub \notin strained' =>
                 ~(request[r].quantity < row[request[r].sub].seats)
    BY DEF BuyMoreHere
  <1>3. ASSUME NEW r \in Requests, Pages(r) \/ Given(r)
        PROVE  strained' = strained
    BY <1>3, PagesSteady, GivenSteady
  <1>4. ASSUME NEW r \in Requests, Ends(r)
        PROVE  strained \subseteq strained'
    BY <1>1, <1>4 DEF Ends, Abandon, Unlink, NewRow
  <1>5. ASSUME NEW r \in Requests, NEW e \in Emails, NEW s \in Subs,
               NEW quantity \in Quantities, Buy(r, e, s, quantity)
        PROVE  strained' = strained
    BY <1>5 DEF Buy
  <1>6. ASSUME NEW r \in Requests, NEW quantity \in Quantities,
               BuyMoreAtStripe(r, quantity)
        PROVE  strained' = strained
    BY <1>6 DEF BuyMoreAtStripe
  <1>7. ASSUME NEW e \in Emails, Unsubscribe(e)
        PROVE  strained' = strained
    BY <1>7 DEF Unsubscribe
  <1>8. ASSUME UNCHANGED vars
        PROVE  strained' = strained
    BY <1>8 DEF vars
  <1>9. strained \subseteq strained'
    BY <1>2, <1>3, <1>4, <1>5, <1>6, <1>7, <1>8, NextByKind
  <1> QED
    BY <1>1, <1>2, <1>9 DEF StrainKept

LEMMA MembersFinite ==
    ASSUME NEW s \in Subs
    PROVE  /\ MembersOf(s) \subseteq Emails
           /\ IsFiniteSet(MembersOf(s))
           /\ Cardinality(MembersOf(s)) \in Nat
  <1>1. MembersOf(s) \subseteq Emails
    BY DEF MembersOf
  <1> QED
    BY <1>1, EmailsFinite, FS_Subset, FS_CardinalityType

LEMMA SeatsRespectedStep ==
    ASSUME IInv, [Next]_vars
    PROVE  SeatsRespected'
  <1> SUFFICES ASSUME NEW s \in Subs, s \notin strained', row'[s] # None
               PROVE  Cardinality(MembersOf(s)') + 1 <= row'[s].seats
    BY DEF SeatsRespected, Bought
  <1>1. TypeOK /\ StrainKept /\ s \notin strained
    BY StrainMoves DEF StrainKept, IInv
  <1> DEFINE M == MembersOf(s)
             N == MembersOf(s)'
  <1>2. Bought(s) => /\ row[s].seats \in Nat
                     /\ Cardinality(M) + 1 <= row[s].seats
    BY <1>1 DEF IInv, SeatsRespected, TypeOK, Bought, Row, Quantities
  <1>3. M \subseteq Emails /\ IsFiniteSet(M) /\ Cardinality(M) \in Nat
    BY MembersFinite
  <1>4. N \subseteq Emails
    BY DEF MembersOf
  <1>5. IsFiniteSet(N) /\ Cardinality(N) \in Nat
    BY <1>4, EmailsFinite, FS_Subset, FS_CardinalityType
  <1> HIDE DEF M, N
  <1>6. ASSUME N \subseteq M
        PROVE  Cardinality(N) + 1 <= row'[s].seats
    <2>1. Cardinality(N) <= Cardinality(M)
      BY <1>3, <1>6, FS_Subset
    <2>2. ASSUME Bought(s), row'[s].seats \in Nat, row'[s].seats >= row[s].seats
          PROVE  Cardinality(N) + 1 <= row'[s].seats
      BY <1>2, <1>3, <1>5, <2>1, <2>2
    <2>3. ASSUME NEW r \in Requests, RowWritten(s, r)
          PROVE  Cardinality(N) + 1 <= row'[s].seats
      <3>1. KnowsItsRowAt(r) /\ ShapeOf(r) /\ request[r].task = "buy"
        BY <2>3 DEF IInv, KnowsItsRow, Shape, RowWritten, NewRow, Is
      <3>2. row'[s].seats = request[r].quantity /\ request[r].sub = s
        BY <2>3 DEF RowWritten
      <3>3. request[r].quantity \in Quantities /\ ~Bought(s)
        BY <3>1, <3>2 DEF KnowsItsRowAt, ShapeOf
      <3>4. M = {}
        BY <3>3 DEF IInv, Sold, SoldAt, M
      <3>5. Cardinality(N) = 0
        BY <1>6, <3>4, FS_EmptySet
      <3> QED
        BY <3>2, <3>3, <3>5 DEF Quantities
    <2>4. ASSUME NEW r \in Requests, SeatsWritten(s, r)
          PROVE  Cardinality(N) + 1 <= row'[s].seats
      <3>1. /\ Bought(s)
            /\ row'[s] \in Row
            /\ row'[s].seats = request[r].quantity
            /\ request[r].sub = s
            /\ BuyMoreHere(r)
        BY <2>4 DEF SeatsWritten
      <3>2. ~(request[r].quantity < row[s].seats)
        BY <1>1, <3>1 DEF StrainKept
      <3>3. row'[s].seats \in Nat
        BY <3>1 DEF Row, Quantities
      <3>4. row'[s].seats >= row[s].seats
        BY <1>2, <3>1, <3>2, <3>3
      <3> QED
        BY <2>2, <3>1, <3>3, <3>4
    <2>5. ASSUME NEW e \in Emails, OwnerGone(s, e)
          PROVE  Cardinality(N) + 1 <= row'[s].seats
      BY <1>2, <2>2, <2>5 DEF OwnerGone
    <2>6. CASE row'[s] = row[s]
      BY <1>2, <2>2, <2>6 DEF Bought
    <2> QED
      BY <2>3, <2>4, <2>5, <2>6, RowsMove
  <1>7. ASSUME NEW r \in Requests, LinkUpdate(r), request[r].sub = s,
               N \subseteq M \cup {request[r].email}
        PROVE  Cardinality(N) + 1 <= row'[s].seats
    <2>1. request[r].task = "link"
      BY <1>7 DEF LinkUpdate, Is
    <2>2. Bought(s) /\ row' = row
      BY <1>7, <2>1 DEF IInv, KnowsItsRow, KnowsItsRowAt, LinkUpdate
    <2>3. request[r].seen = M /\ request[r].seats = row[s].seats
      BY <1>1, <1>7 DEF StrainKept, M
    <2>4. request[r].seats > Cardinality(request[r].seen) + 1
      BY <2>1 DEF IInv, SeenLeft, SeenLeftBy
    <2>5. row[s].seats > Cardinality(M) + 1
      BY <2>3, <2>4
    <2>6. /\ IsFiniteSet(M \cup {request[r].email})
          /\ Cardinality(M \cup {request[r].email}) <= Cardinality(M) + 1
      <3> DEFINE C == Cardinality(M)
                 D == Cardinality(M \cup {request[r].email})
      <3>1. /\ IsFiniteSet(M \cup {request[r].email})
            /\ D = IF request[r].email \in M THEN C ELSE C + 1
        BY <1>3, FS_AddElement
      <3>2. C \in Nat
        BY <1>3
      <3> HIDE DEF C, D
      <3>3. D <= C + 1
        BY <3>1, <3>2
      <3> QED
        BY <3>1, <3>3 DEF C, D
    <2>7. Cardinality(N) <= Cardinality(M) + 1
      <3>1. Cardinality(N) <= Cardinality(M \cup {request[r].email})
        BY <1>7, <2>6, FS_Subset
      <3>2. Cardinality(M \cup {request[r].email}) \in Nat
        BY <2>6, FS_CardinalityType
      <3> QED
        BY <1>3, <1>5, <2>6, <3>1, <3>2
    <2>8. Cardinality(N) + 1 <= row[s].seats
      BY <1>2, <1>3, <1>5, <2>2, <2>5, <2>7
    <2> QED
      BY <2>2, <2>8
  <1>8. Cardinality(N) + 1 <= row'[s].seats
    BY <1>6, <1>7, MembersMove DEF M, N
  <1> QED
    BY <1>8 DEF N

-----------------------------------------------------------------------------
(***************************************************************************)
(* The theorems.                                                           *)
(***************************************************************************)
LEMMA InitInv ==
    ASSUME Init
    PROVE  IInv
  <1>1. /\ \A e \in Emails : user[e] = None
        /\ \A s \in Subs : row[s] = None /\ stripe[s] = 0
        /\ \A r \in Requests : request[r] = Idle
    BY DEF Init
  <1>2. TypeOK
    BY IdleFields DEF Init, TypeOK
  <1>3. \A r \in Requests : request[r].task = "none" /\ request[r].stage = "page"
    BY <1>1, IdleFields
  <1>4. Shape
    BY <1>3 DEF Shape, ShapeOf
  <1>5. BuyersAlone /\ KnowsItsRow /\ BuyersServed /\ SeenLeft
    BY <1>3 DEF BuyersAlone, Apart, KnowsItsRow, KnowsItsRowAt, BuyersServed,
                BuyerServed, SeenLeft, SeenLeftBy
  <1>6. \A s \in Subs : ~Bought(s) /\ MembersOf(s) = {}
    BY <1>1 DEF Bought, MembersOf, Exists
  <1>7. OwnersExist /\ OwnersKnown /\ Sold
    BY <1>6 DEF OwnersExist, OwnersKnown, Open, Sold, SoldAt
  <1>8. HalfPaid
    BY <1>3 DEF HalfPaid, HalfPaidAt, HalfWay, Is
  <1>9. SeatsRespected /\ SeatsArePaid /\ PayersAreBosses
    BY <1>6 DEF SeatsRespected, SeatsArePaid, PayersAreBosses
  <1> QED
    BY <1>2, <1>4, <1>5, <1>7, <1>8, <1>9 DEF IInv

LEMMA InvStep ==
    ASSUME IInv, [Next]_vars
    PROVE  IInv'
  BY TypeStep, ShapeStep, OwnersExistStep, OwnersKnownStep, BuyersAloneStep,
     SoldStep, KnowsItsRowStep, HalfPaidStep, BuyersServedStep, SeenLeftStep,
     SeatsRespectedStep, SeatsArePaidStep, PayersAreBossesStep
     DEF IInv

\* The inductive invariant holds of every state the program can be in.
THEOREM SeatsInvariant == Spec => []IInv
  BY InitInv, InvStep, PTL DEF Spec

\* Users, rows, quantities and pages keep their types.
THEOREM SeatsTyped == Spec => []TypeOK
  <1>1. IInv => TypeOK
    BY DEF IInv
  <1> QED
    BY <1>1, SeatsInvariant, PTL

\* Members and the owner fit into the seats of the row, although the page that
\* counts them is older than the form it sends: unless the page had become
\* untrue or somebody lowered the number (users/edit, link_by_account_boss,
\* buy_more_users).
THEOREM SeatsAreRespected == Spec => []SeatsRespected
  <1>1. IInv => SeatsRespected
    BY DEF IInv
  <1> QED
    BY <1>1, SeatsInvariant, PTL

\* Stripe is paid for the seats that the row gives, but for forms for seats that
\* are half-way, met another or died (buy_more_users).
THEOREM SeatsPaidFor == Spec => []SeatsArePaid
  <1>1. IInv => SeatsArePaid
    BY DEF IInv
  <1> QED
    BY <1>1, SeatsInvariant, PTL

\* Who owns a subscription is there, a subscriber and the boss of an account,
\* until somebody links or unlinks them (user_account, new_subscription).
THEOREM PayersStayBosses == Spec => []PayersAreBosses
  <1>1. IInv => PayersAreBosses
    BY DEF IInv
  <1> QED
    BY <1>1, SeatsInvariant, PTL
=============================================================================
