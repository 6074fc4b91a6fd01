--------------------------- MODULE PurchasesProofs ---------------------------
(***************************************************************************)
(* Proofs about Purchases, for any sets of requests, e-mails and countries *)
(* and any number of workers.                                              *)
(*                                                                         *)
(* The invariants are not inductive alone: that a subscription row is      *)
(* backed by money is true because the handler that saves it has the       *)
(* charge among the steps behind it, and because that step, once behind,   *)
(* left its mark.  The inductive invariant IInv says this for the steps    *)
(* that matter (StepsLeaveMarks); what the order of a handler's steps      *)
(* contributes is the constant-level lemma StepOrder.                      *)
(*                                                                         *)
(* Then that Purchases implements PurchaseLedger; what holds besides when  *)
(* one worker handles one request at a time (SerialInv); and why no        *)
(* request goes on for ever or stops half-way (WorkRunsOut, NeverStuck).   *)
(***************************************************************************)
EXTENDS PurchasesRefinement, FiniteSetTheorems, TLAPS

-----------------------------------------------------------------------------
(* The order of the steps.                                                 *)

\* Whenever step b comes up, step a is behind us; or it is not.
After(b, a, steps) ==
    \A i \in DOMAIN steps : steps[i] = b => \E j \in 1..(i - 1) : steps[j] = a

NotAfter(b, a, steps) ==
    \A i \in DOMAIN steps : steps[i] = b => \A j \in 1..(i - 1) : steps[j] # a

\* What the proofs use of the order of a handler's steps.
Ordered(kind, situation, steps) ==
    /\ After("access", "charge", steps)
    /\ After("tsr_subscription", "charge", steps)
    /\ After("tsr_invoice", "tsr_subscription", steps)
    /\ kind = "prepayment" => After("tsr_subscription", "access", steps)
    /\ situation \in {"new_user", "no_customer"} =>
          After("charge", "customer", steps)
    /\ NotAfter("user_create", "user_create", steps)
    /\ NotAfter("account", "tsr_subscription", steps)
    /\ NotAfter("access", "tsr_subscription", steps)
    /\ NotAfter("tsr_subscription", "tsr_invoice", steps)

\* A purchase's steps: as above, and they end with the invoice behind them.
Complete(steps) ==
    \E n \in Nat : DOMAIN steps = 1..n /\ Len(steps) = n
                   /\ \E j \in 1..n : steps[j] = "tsr_invoice"

LEMMA SubscriptionOrder ==
    ASSUME NEW situation \in Situations
    PROVE  /\ Ordered("subscription", situation, SubscriptionSteps[situation])
           /\ Complete(SubscriptionSteps[situation])
<1>1. CASE situation = "new_user"
  BY <1>1 DEF SubscriptionSteps, Ordered, Complete, After, NotAfter
<1>2. CASE situation = "no_customer"
  BY <1>2 DEF SubscriptionSteps, Ordered, Complete, After, NotAfter
<1>3. CASE situation = "no_card"
  BY <1>3 DEF SubscriptionSteps, Ordered, Complete, After, NotAfter
<1>4. CASE situation = "with_card"
  BY <1>4 DEF SubscriptionSteps, Ordered, Complete, After, NotAfter
<1>5. QED
  BY <1>1, <1>2, <1>3, <1>4 DEF Situations

LEMMA PrepaymentOrder ==
    ASSUME NEW situation \in Situations
    PROVE  /\ Ordered("prepayment", situation, PrepaymentSteps[situation])
           /\ Complete(PrepaymentSteps[situation])
<1>1. CASE situation = "new_user"
  BY <1>1 DEF PrepaymentSteps, Ordered, Complete, After, NotAfter
<1>2. CASE situation = "no_customer"
  BY <1>2 DEF PrepaymentSteps, Ordered, Complete, After, NotAfter
<1>3. CASE situation = "no_card"
  BY <1>3 DEF PrepaymentSteps, Ordered, Complete, After, NotAfter
<1>4. CASE situation = "with_card"
  BY <1>4 DEF PrepaymentSteps, Ordered, Complete, After, NotAfter
<1>5. QED
  BY <1>1, <1>2, <1>3, <1>4 DEF Situations

LEMMA ReaderOrder ==
    ASSUME NEW situation
    PROVE  /\ Ordered("reader", situation, ReaderSteps)
           /\ \A i \in DOMAIN ReaderSteps : i \in Nat \ {0}
BY DEF ReaderSteps, Ordered, After, NotAfter

LEMMA StepOrder ==
    ASSUME NEW kind \in Kinds, NEW situation \in Situations
    PROVE  /\ Ordered(kind, situation, Steps(kind, situation))
           /\ kind \in Purchase => Complete(Steps(kind, situation))
<1>1. CASE kind = "subscription"
  BY <1>1, SubscriptionOrder DEF Steps
<1>2. CASE kind = "prepayment"
  BY <1>2, PrepaymentOrder DEF Steps
<1>3. CASE kind = "reader"
  BY <1>3, ReaderOrder DEF Steps, Purchase
<1>4. QED
  BY <1>1, <1>2, <1>3 DEF Kinds

-----------------------------------------------------------------------------
(* The inductive invariant.                                                *)

\* A step that request record q has behind it.
DoneBy(q, step) ==
    \E j \in 1..(q.at - 1) : Steps(q.kind, q.situation)[j] = step

\* A request that has no form yet, or had it refused, has done nothing.
Untouched(q) == q.status \in {"idle", "refused"}

FormsKnown ==
    \A r \in Requests :
        /\ request[r].status = "idle" => request[r] = IdleRequest
        /\ Untouched(request[r]) => /\ request[r].customer = None
                                    /\ request[r].held = None
        /\ ~Untouched(request[r]) => /\ request[r].email \in Emails
                                     /\ request[r].country \in Countries

\* Wherever a customer id is kept, it is a customer of the form's e-mail and
\* country, and requests that have done nothing have made none.
CustomerKnown(r) ==
    LET q == request[r] IN
    /\ r \in stripeCustomers \/ charged[r] # None
          \/ tsrSubscription[r] # None \/ tsrInvoice[r] # None
       => ~Untouched(q)
    /\ q.customer # None => CustomerOf(q.customer, q.email, q.country)
    /\ q.held # None /\ q.held.customer # None
           => CustomerOf(q.held.customer, q.email, q.country)
    /\ charged[r] # None => CustomerOf(charged[r], q.email, q.country)

CustomersKnown == \A r \in Requests : CustomerKnown(r)

\* A row is used only after its request has made it, and the rows that a
\* request has read or named belong to its e-mail or to a deleted user.
RowsKnown ==
    \A r \in Requests :
        LET q == request[r] IN
        /\ Untouched(q) \/ (q.status = "running" /\ ~DoneBy(q, "user_create"))
               => users[r].email = None
        /\ q.held # None => users[q.held.user].email \in {q.email, "deleted"}
        /\ tsrSubscription[r] # None =>
               users[tsrSubscription[r].user].email \in {q.email, "deleted"}

\* What the steps behind a running request have left.
Marked(q, charge, subscription, invoice) ==
    q.status = "running" =>
        /\ q.situation \in {"no_card", "with_card"} \/ DoneBy(q, "customer")
              => q.customer # None
        /\ DoneBy(q, "charge") => charge # None
        /\ q.kind = "prepayment" /\ DoneBy(q, "access") => q.held # None
        /\ DoneBy(q, "tsr_subscription") =>
              q.held # None /\ subscription # None
              /\ subscription.user = q.held.user
        /\ DoneBy(q, "tsr_invoice") =>
              subscription # None /\ invoice # None
              /\ invoice.user = subscription.user

StepsLeaveMarks ==
    \A r \in Requests :
        Marked(request[r], charged[r], tsrSubscription[r], tsrInvoice[r])

IInv ==
    /\ TypeOK
    /\ FormsKnown
    /\ CustomersKnown
    /\ RowsKnown
    /\ StepsLeaveMarks
    /\ CustomersSegregated
    /\ SubscriptionBacked
    /\ PaidAccessBacked
    /\ OkMeansRecorded
-----------------------------------------------------------------------------
(* Steps that come up and steps behind.                                    *)

LEMMA AtOrder ==
    ASSUME TypeOK, NEW r \in Requests, NEW step, At(r, step)
    PROVE  LET q == request[r] IN
           /\ q.status = "running" /\ q.at \in Nat
           /\ Steps(q.kind, q.situation)[q.at] = step
           /\ Ordered(q.kind, q.situation, Steps(q.kind, q.situation))
           /\ \A a : After(step, a, Steps(q.kind, q.situation)) => DoneBy(q, a)
           /\ \A a : NotAfter(step, a, Steps(q.kind, q.situation))
                        => ~DoneBy(q, a)
<1> DEFINE q == request[r]
<1>1. q.kind \in Kinds /\ q.situation \in Situations /\ q.at \in Nat
  BY DEF TypeOK, RequestState
<1>2. Ordered(q.kind, q.situation, Steps(q.kind, q.situation))
  BY <1>1, StepOrder
<1>3. /\ q.status = "running"
      /\ q.at \in DOMAIN Steps(q.kind, q.situation)
      /\ Steps(q.kind, q.situation)[q.at] = step
  BY DEF At
<1>4. QED
  BY <1>1, <1>2, <1>3 DEF After, NotAfter, DoneBy

\* The handlers' steps are numbered from one.
LEMMA StepIndex ==
    ASSUME TypeOK, NEW r \in Requests, NEW step, At(r, step)
    PROVE  request[r].at \in Nat \ {0}
<1> DEFINE q == request[r]
<1>1. q.kind \in Kinds /\ q.situation \in Situations /\ q.at \in Nat
  BY DEF TypeOK, RequestState
<1>2. q.at \in DOMAIN Steps(q.kind, q.situation)
  BY DEF At
<1>3. CASE q.kind = "reader"
  BY <1>2, <1>3, ReaderOrder DEF Steps
<1>4. CASE q.kind \in Purchase
  BY <1>1, <1>2, <1>4, StepOrder DEF Complete
<1>5. QED
  BY <1>1, <1>3, <1>4 DEF Kinds, Purchase

\* Taking a step puts that step behind, and no other.
LEMMA DoneAfterStep ==
    ASSUME NEW q, NEW p, q.at \in Nat, p.at = q.at + 1,
           p.kind = q.kind, p.situation = q.situation,
           NEW step, DoneBy(p, step),
           Steps(q.kind, q.situation)[q.at] # step
    PROVE  DoneBy(q, step)
BY DEF DoneBy

LEMMA NothingDone ==
    ASSUME NEW q, q.at = 1, NEW step
    PROVE  ~DoneBy(q, step)
BY DEF DoneBy

-----------------------------------------------------------------------------
(* Types.                                                                  *)

LEMMA RequestTyped ==
    ASSUME TypeOK, NEW r \in Requests
    PROVE  request[r] \in RequestState
BY DEF TypeOK

LEMMA UserTyped ==
    ASSUME TypeOK, NEW u \in Requests
    PROVE  users[u] \in UserRow
BY DEF TypeOK

LEMMA EndedRequestType ==
    ASSUME NEW q \in RequestState, NEW s \in Statuses
    PROVE  [q EXCEPT !.status = s, !.situation = "new_user", !.at = 1,
                     !.customer = None, !.held = None, !.redirected = FALSE]
               \in RequestState
<1>1. None \in MaybeRequest /\ "new_user" \in Situations
  BY DEF MaybeRequest, Situations
<1>2. QED
  BY <1>1 DEF RequestState

LEMMA HoldingRequestType ==
    ASSUME NEW q \in RequestState, NEW held \in SubscriptionRow \cup {None},
           NEW at \in Nat
    PROVE  [q EXCEPT !.held = held, !.at = at] \in RequestState
BY DEF RequestState

LEMMA BegunRequestType ==
    ASSUME NEW q \in RequestState, NEW kind \in Kinds, NEW email \in Emails,
           NEW country \in Countries, NEW situation \in Situations,
           NEW customer \in MaybeRequest
    PROVE  [q EXCEPT !.status = "running", !.kind = kind, !.email = email,
                     !.country = country, !.situation = situation,
                     !.customer = customer] \in RequestState
<1>1. "running" \in Statuses
  BY DEF Statuses
<1>2. QED
  BY <1>1 DEF RequestState

LEMMA ChangedUserType ==
    ASSUME NEW row \in UserRow
    PROVE  /\ [row EXCEPT !.stories = TRUE] \in UserRow
           /\ [row EXCEPT !.access = "paid"] \in UserRow
           /\ [row EXCEPT !.role = "subscriber"] \in UserRow
           /\ [row EXCEPT !.role = "reader", !.access = "trial"] \in UserRow
           /\ [row EXCEPT !.email = "deleted", !.role = "deleted"] \in UserRow
<1>1. [row EXCEPT !.stories = TRUE] \in UserRow
  BY DEF UserRow
<1>2. [row EXCEPT !.access = "paid"] \in UserRow
  BY DEF UserRow
<1>3. [row EXCEPT !.role = "subscriber"] \in UserRow
  BY DEF UserRow
<1>4. [row EXCEPT !.role = "reader", !.access = "trial"] \in UserRow
  BY DEF UserRow
<1>5. [row EXCEPT !.email = "deleted", !.role = "deleted"] \in UserRow
  BY DEF UserRow
<1>6. QED
  BY <1>1, <1>2, <1>3, <1>4, <1>5

LEMMA PaidUserType ==
    ASSUME NEW row \in UserRow, NEW c, NEW x \in MaybeRequest
    PROVE  /\ [row EXCEPT !.cust[c] = x] \in UserRow
           /\ [row EXCEPT !.card[c] = x] \in UserRow
<1>1. [row EXCEPT !.cust[c] = x] \in UserRow
  BY DEF UserRow
<1>2. [row EXCEPT !.card[c] = x] \in UserRow
  BY DEF UserRow
<1>3. QED
  BY <1>1, <1>2

LEMMA AdvanceType ==
    ASSUME TypeOK, NEW r \in Requests, Advance(r)
    PROVE  request' \in [Requests -> RequestState]
<1> DEFINE new == [request[r] EXCEPT !.at = request[r].at + 1]
<1>1. new \in RequestState
  BY RequestTyped DEF RequestState
<1>2. request' = [request EXCEPT ![r] = new]
  BY DEF Advance, TypeOK
<1>3. QED
  BY <1>1, <1>2 DEF TypeOK

LEMMA EndType ==
    ASSUME TypeOK, NEW r \in Requests, NEW s \in Statuses, End(r, s)
    PROVE  request' \in [Requests -> RequestState]
<1> DEFINE new == [request[r] EXCEPT
                      !.status = s, !.situation = "new_user", !.at = 1,
                      !.customer = None, !.held = None, !.redirected = FALSE]
<1>1. new \in RequestState
  BY RequestTyped, EndedRequestType
<1>2. request' = [request EXCEPT ![r] = new]
  BY DEF End
<1>3. QED
  BY <1>1, <1>2 DEF TypeOK

LEMMA UpdateUserType ==
    ASSUME TypeOK, NEW r \in Requests, NEW u \in Requests,
           NEW row \in UserRow, UpdateUser(r, u, row)
    PROVE  TypeOK'
<1>1. users' \in [Requests -> UserRow]
  BY DEF TypeOK, UpdateUser
<1>2. request' \in [Requests -> RequestState]
  BY AdvanceType DEF UpdateUser
<1>3. QED
  BY <1>1, <1>2 DEF TypeOK, UpdateUser, stripeVars

LEMMA ReadType ==
    ASSUME TypeOK, FormsKnown, NEW r \in Requests, NEW u \in Requests,
           request[r].status = "running"
    PROVE  Read(r, u) \in SubscriptionRow
<1>1. request[r].country \in Countries
  BY DEF FormsKnown, Untouched
<1>2. users[u].cust[request[r].country] \in MaybeRequest
  BY <1>1, UserTyped DEF UserRow
<1>3. QED
  BY <1>2 DEF Read, SubscriptionRow

LEMMA InitType == Init => TypeOK
BY DEF Init, TypeOK, UserRow, NoUser, MaybeRequest, RequestState, IdleRequest,
       Kinds, Situations, Statuses

LEMMA SubmitType ==
    ASSUME TypeOK, NEW r \in Requests, Submit(r)
    PROVE  TypeOK'
<1>1. PICK kind \in Kinds, email \in Emails, country \in Countries :
          \/ Refuse(r, kind, email)
          \/ \E session \in FindByEmail(email) \cup {None} :
                Accept(r, kind, email, country, session)
  BY DEF Submit
<1>2. CASE Refuse(r, kind, email)
  <2>1. request' \in [Requests -> RequestState]
    BY <1>2 DEF Refuse, TypeOK, RequestState, Statuses
  <2>2. QED
    BY <2>1 DEF Submit, TypeOK, tsrVars, stripeVars
<1>3. ASSUME NEW session \in FindByEmail(email) \cup {None},
             Accept(r, kind, email, country, session)
      PROVE  TypeOK'
  <2> DEFINE situation == SituationOf(kind, session, country, email)
             customer  == ExistingCustomer(session, country, situation)
             new == [request[r] EXCEPT
                        !.status = "running", !.kind = kind, !.email = email,
                        !.country = country, !.situation = situation,
                        !.customer = customer]
  <2>1. situation \in Situations
    BY DEF SituationOf, Situations
  <2>2. customer \in MaybeRequest
    <3>1. situation \in {"no_card", "with_card"} => session \in Requests
      BY <1>3 DEF SituationOf, FindByEmail, Accept
    <3>2. QED
      BY <3>1, <2>1, UserTyped DEF ExistingCustomer, UserRow, MaybeRequest
  <2>3. new \in RequestState
    BY <2>1, <2>2, RequestTyped, BegunRequestType
  <2>4. request' = [request EXCEPT ![r] = new]
    BY <1>3 DEF Accept
  <2>5. QED
    BY <2>3, <2>4 DEF Submit, TypeOK, tsrVars, stripeVars
<1>4. QED
  BY <1>1, <1>2, <1>3

LEMMA ProgressType ==
    ASSUME IInv, NEW r \in Requests, Progress(r)
    PROVE  TypeOK'
<1> USE DEF IInv
<1>1. CASE NewStripeCustomer(r)
  BY <1>1 DEF NewStripeCustomer, TypeOK, RequestState, MaybeRequest, tsrVars
<1>2. CASE StripeCharge(r)
  BY <1>2, AdvanceType
     DEF StripeCharge, TypeOK, RequestState, tsrVars
<1>3. CASE UserCreate(r)
  <2>1. [NoUser EXCEPT !.email = request[r].email] \in UserRow
    BY DEF TypeOK, RequestState, NoUser, UserRow, MaybeRequest
  <2>2. QED
    BY <1>3, <2>1, UpdateUserType DEF UserCreate
<1>4. CASE UserExists(r)
  BY <1>4, EndType DEF UserExists, Fail, Statuses, TypeOK, tsrVars, stripeVars
<1>5. CASE Roles(r)
  <2>1. PICK u \in Requests :
            UpdateUser(r, u, GivenRole(users[u], request[r].kind))
    BY <1>5 DEF Roles, FindByEmail
  <2>2. GivenRole(users[u], request[r].kind) \in UserRow
    BY UserTyped, ChangedUserType DEF GivenRole
  <2>3. QED
    BY <2>1, <2>2, UpdateUserType
<1>6. CASE Stories(r)
  <2>1. PICK u \in Requests :
            UpdateUser(r, u, [users[u] EXCEPT !.stories = TRUE])
    BY <1>6 DEF Stories, FindByEmail
  <2>2. [users[u] EXCEPT !.stories = TRUE] \in UserRow
    BY UserTyped, ChangedUserType
  <2>3. QED
    BY <2>1, <2>2, UpdateUserType
<1>7. CASE CustomerId(r)
  <2> DEFINE new(u) == [users[u] EXCEPT
                           !.cust[request[r].country] = request[r].customer]
  <2>1. PICK u \in Requests : UpdateUser(r, u, new(u))
    BY <1>7 DEF CustomerId, FindByEmail
  <2>2. request[r].customer \in MaybeRequest
    BY RequestTyped DEF RequestState
  <2>3. new(u) \in UserRow
    BY <2>2, UserTyped, PaidUserType
  <2>4. QED
    BY <2>1, <2>3, UpdateUserType
<1>8. CASE Card(r) \/ UpdateCard(r)
  <2> DEFINE new(u) == [users[u] EXCEPT !.card[request[r].country] = r]
  <2>1. PICK u \in Requests : UpdateUser(r, u, new(u))
    BY <1>8 DEF Card, UpdateCard, FindByEmail
  <2>2. new(u) \in UserRow
    BY UserTyped, PaidUserType DEF MaybeRequest
  <2>3. QED
    BY <2>1, <2>2, UpdateUserType
<1>9. CASE UpdateCardRescued(r)
  BY <1>9 DEF UpdateCardRescued, TypeOK, RequestState, tsrVars, stripeVars
<1>10. CASE Access(r)
  <2>1. PICK u \in Requests :
          /\ users' = [users EXCEPT ![u].access = "paid"]
          /\ request' = [request EXCEPT
                ![r].held = IF request[r].kind = "prepayment"
                            THEN Read(r, u) ELSE @,
                ![r].at = @ + 1]
    BY <1>10 DEF Access, FindByEmail
  <2>2. users' \in [Requests -> UserRow]
    BY <2>1, UserTyped, ChangedUserType DEF TypeOK
  <2>3. request' \in [Requests -> RequestState]
    <3> DEFINE held == IF request[r].kind = "prepayment"
                       THEN Read(r, u) ELSE request[r].held
    <3>1. Read(r, u) \in SubscriptionRow
      BY <1>10, ReadType DEF Access, At
    <3>2. /\ request[r].held \in SubscriptionRow \cup {None}
          /\ request[r].at + 1 \in Nat
      BY RequestTyped DEF RequestState
    <3>3. [request[r] EXCEPT !.held = held, !.at = request[r].at + 1]
              \in RequestState
      BY <3>1, <3>2, RequestTyped, HoldingRequestType
    <3>4. QED
      BY <2>1, <3>3 DEF TypeOK
  <2>4. QED
    BY <1>10, <2>2, <2>3 DEF Access, TypeOK, stripeVars
<1>11. CASE KeepAccount(r)
  BY <1>11, AdvanceType DEF KeepAccount, TypeOK, tsrVars, stripeVars
<1>12. CASE CreateAccount(r)
  <2>1. PICK u \in Requests : request' = [request EXCEPT ![r].held = Read(r, u)]
    BY <1>12 DEF CreateAccount, FindByEmail
  <2>2. Read(r, u) \in SubscriptionRow
    BY <1>12, ReadType DEF CreateAccount, At
  <2>3. request' \in [Requests -> RequestState]
    <3>1. [request[r] EXCEPT !.held = Read(r, u)] \in RequestState
      BY <2>2 DEF TypeOK, RequestState
    <3>2. QED
      BY <2>1, <3>1 DEF TypeOK
  <2>4. QED
    BY <1>12, <2>3 DEF CreateAccount, TypeOK, stripeVars
<1>13. CASE LinkAccount(r)
  <2> DEFINE u == request[r].held.user
             new == Linked(r, u)
  <2>1. UpdateUser(r, u, new)
    BY <1>13 DEF LinkAccount
  <2>2. CASE u \in Requests
    <3>1. users[u] \in UserRow /\ r \in MaybeRequest
      BY <2>2 DEF TypeOK, MaybeRequest
    <3>2. new \in UserRow
      BY <3>1 DEF Linked, UserRow
    <3>3. QED
      BY <2>1, <2>2, <3>2, UpdateUserType
  <2>3. CASE u \notin Requests
    <3>1. users' = users
      BY <2>1, <2>3 DEF UpdateUser, TypeOK
    <3>2. QED
      BY <2>1, <3>1, AdvanceType DEF UpdateUser, TypeOK, stripeVars
  <2>4. QED
    BY <2>2, <2>3
<1>14. CASE TsrSubscription(r)
  <2>1. PICK row \in IF request[r].kind = "prepayment" THEN {request[r].held}
                     ELSE {Read(r, u) : u \in FindByEmail(request[r].email)} :
          /\ tsrSubscription' = [tsrSubscription EXCEPT ![r] = row]
          /\ request' = [request EXCEPT ![r].held = row, ![r].at = @ + 1]
    BY <1>14 DEF TsrSubscription
  <2>2. row \in SubscriptionRow \cup {None}
    <3>1. \A u \in FindByEmail(request[r].email) : Read(r, u) \in SubscriptionRow
      BY <1>14, ReadType DEF TsrSubscription, At, FindByEmail
    <3>2. QED
      BY <2>1, <3>1 DEF TypeOK, RequestState
  <2>3. request' \in [Requests -> RequestState]
    BY <2>1, <2>2 DEF TypeOK, RequestState
  <2>4. QED
    BY <1>14, <2>1, <2>2, <2>3 DEF TsrSubscription, TypeOK, stripeVars
<1>15. CASE TsrInvoice(r)
  <2> DEFINE i == [user |-> request[r].held.user,
                   subscription |->
                      IF request[r].kind = "prepayment" THEN r ELSE "0"]
  <2>1. request[r].held # None
    BY <1>15, AtOrder DEF TsrInvoice, Ordered, StepsLeaveMarks, Marked
  <2>2. i \in InvoiceRow
    BY <2>1 DEF TypeOK, RequestState, SubscriptionRow, InvoiceRow
  <2>3. QED
    BY <1>15, <2>2, AdvanceType DEF TsrInvoice, TypeOK, stripeVars
<1>16. CASE Mail(r)
  <2>1. mails' \in [Requests -> MailJob \cup {None}]
    BY <1>16 DEF Mail, FindByEmail, TypeOK, MailJob, MaybeRequest
  <2>2. QED
    BY <1>16, <2>1, AdvanceType DEF Mail, TypeOK, stripeVars
<1>17. CASE NilUser(r)
  <2>1. accounts' \subseteq Requests
    BY <1>17 DEF NilUser, TypeOK
  <2>2. QED
    BY <1>17, <2>1, EndType DEF NilUser, Fail, Statuses, TypeOK, stripeVars
<1>18. CASE Answer(r)
  BY <1>18, EndType DEF Answer, Statuses, TypeOK, tsrVars, stripeVars
<1>19. QED
  BY <1>1, <1>2, <1>3, <1>4, <1>5, <1>6, <1>7, <1>8, <1>9, <1>10, <1>11,
     <1>12, <1>13, <1>14, <1>15, <1>16, <1>17, <1>18 DEF Progress

LEMMA OthersType ==
    ASSUME TypeOK, NEW r \in Requests, Abandon(r) \/ Unsubscribe(r)
    PROVE  TypeOK'
<1>1. CASE Abandon(r)
  BY <1>1, EndType DEF Abandon, Fail, Statuses, TypeOK, tsrVars, stripeVars
<1>2. CASE Unsubscribe(r)
  <2> DEFINE new == [users[r] EXCEPT !.email = "deleted", !.role = "deleted"]
  <2>1. new \in UserRow
    BY UserTyped, ChangedUserType
  <2>2. users' = [users EXCEPT ![r] = new]
    BY <1>2 DEF Unsubscribe, TypeOK
  <2>3. QED
    BY <1>2, <2>1, <2>2 DEF Unsubscribe, TypeOK, stripeVars
<1>3. QED
  BY <1>1, <1>2

LEMMA TypeStep ==
    ASSUME IInv, [Next]_vars
    PROVE  TypeOK'
<1>1. CASE UNCHANGED vars
  BY <1>1 DEF IInv, TypeOK, vars, tsrVars, stripeVars
<1>2. CASE Next
  BY <1>2, SubmitType, ProgressType, OthersType DEF Next, IInv
<1>3. QED
  BY <1>1, <1>2

-----------------------------------------------------------------------------
(* What a step may change, one part of the state at a time.                *)

\* A helper that updates the row it has found leaves the e-mail alone; only
\* new_customer_id_date touches a customer id, and only the two access steps
\* give a bought period.
RowChange(r, u, row) ==
    /\ request[r].status = "running"
    /\ users' = [users EXCEPT ![u] = row]
    /\ row.email = users[u].email
    /\ \/ row.cust = users[u].cust
       \/ /\ users[u].email = request[r].email
          /\ row.cust = [users[u].cust EXCEPT
                            ![request[r].country] = request[r].customer]
    /\ \/ row.access # "paid"
       \/ row.access = users[u].access
       \/ At(r, "access") /\ users[u].email = request[r].email

LEMMA UsersChange ==
    ASSUME IInv, [Next]_vars
    PROVE  \/ users' = users
           \/ \E r \in Requests : UserCreate(r)
           \/ \E u \in Requests : Unsubscribe(u)
           \/ \E r, u \in Requests : \E row \in UserRow : RowChange(r, u, row)
<1> USE DEF IInv
<1>0. ASSUME NEW u \in Requests
      PROVE  users[u] \in UserRow
  BY DEF TypeOK
<1>1. CASE UNCHANGED vars
  BY <1>1 DEF vars, tsrVars
<1>2. ASSUME NEW r \in Requests, Submit(r) \/ Abandon(r)
      PROVE  users' = users
  BY <1>2 DEF Submit, Abandon, tsrVars
<1>3. ASSUME NEW r \in Requests, Progress(r), ~UserCreate(r)
      PROVE  \/ users' = users
             \/ \E u \in Requests : \E row \in UserRow : RowChange(r, u, row)
  <2>1. CASE \/ NewStripeCustomer(r) \/ StripeCharge(r) \/ UserExists(r)
             \/ UpdateCardRescued(r) \/ KeepAccount(r) \/ CreateAccount(r)
             \/ TsrSubscription(r) \/ TsrInvoice(r) \/ Mail(r)
             \/ NilUser(r) \/ Answer(r)
    BY <2>1 DEF NewStripeCustomer, StripeCharge, UserExists, UpdateCardRescued,
                KeepAccount, CreateAccount, TsrSubscription, TsrInvoice, Mail,
                NilUser, Answer, tsrVars
  <2>2. CASE Roles(r)
    <3>1. PICK u \in Requests :
              UpdateUser(r, u, GivenRole(users[u], request[r].kind))
      BY <2>2 DEF Roles, FindByEmail
    <3>2. GivenRole(users[u], request[r].kind) \in UserRow
      BY <1>0 DEF GivenRole, UserRow
    <3>3. RowChange(r, u, GivenRole(users[u], request[r].kind))
      BY <1>0, <2>2, <3>1
         DEF Roles, At, UpdateUser, RowChange, GivenRole, UserRow
    <3>4. QED
      BY <3>2, <3>3
  <2>3. CASE Stories(r)
    <3> DEFINE new(u) == [users[u] EXCEPT !.stories = TRUE]
    <3>1. PICK u \in Requests : UpdateUser(r, u, new(u))
      BY <2>3 DEF Stories, FindByEmail
    <3>2. new(u) \in UserRow
      BY <1>0 DEF UserRow
    <3>3. RowChange(r, u, new(u))
      BY <1>0, <2>3, <3>1 DEF Stories, At, UpdateUser, RowChange, UserRow
    <3>4. QED
      BY <3>2, <3>3
  <2>4. CASE CustomerId(r)
    <3> DEFINE new(u) == [users[u] EXCEPT
                             !.cust[request[r].country] = request[r].customer]
    <3>1. PICK u \in Requests : /\ users[u].email = request[r].email
                               /\ UpdateUser(r, u, new(u))
      BY <2>4 DEF CustomerId, FindByEmail
    <3>2. new(u) \in UserRow
      BY <1>0 DEF UserRow, TypeOK, RequestState
    <3>3. RowChange(r, u, new(u))
      BY <1>0, <2>4, <3>1 DEF CustomerId, At, UpdateUser, RowChange, UserRow
    <3>4. QED
      BY <3>2, <3>3
  <2>5. CASE Card(r) \/ UpdateCard(r)
    <3> DEFINE new(u) == [users[u] EXCEPT !.card[request[r].country] = r]
    <3>1. PICK u \in Requests : UpdateUser(r, u, new(u))
      BY <2>5 DEF Card, UpdateCard, FindByEmail
    <3>2. new(u) \in UserRow
      BY <1>0 DEF UserRow, MaybeRequest
    <3>3. RowChange(r, u, new(u))
      BY <1>0, <2>5, <3>1
         DEF Card, UpdateCard, At, UpdateUser, RowChange, UserRow
    <3>4. QED
      BY <3>2, <3>3
  <2>6. CASE Access(r)
    <3> DEFINE new(u) == [users[u] EXCEPT !.access = "paid"]
    <3>1. PICK u \in Requests : /\ users[u].email = request[r].email
                               /\ users' = [users EXCEPT ![u].access = "paid"]
      BY <2>6 DEF Access, FindByEmail
    <3>2. new(u) \in UserRow /\ users' = [users EXCEPT ![u] = new(u)]
      BY <1>0, <3>1 DEF UserRow, TypeOK
    <3>3. RowChange(r, u, new(u))
      BY <1>0, <2>6, <3>1, <3>2 DEF Access, At, RowChange, UserRow
    <3>4. QED
      BY <3>2, <3>3
  <2>7. CASE LinkAccount(r)
    <3> DEFINE u == request[r].held.user
               new == Linked(r, u)
    <3>1. UpdateUser(r, u, new)
      BY <2>7 DEF LinkAccount
    <3>2. CASE u \in Requests
      <4>1. users[u] \in UserRow /\ r \in MaybeRequest
        BY <1>0, <3>2 DEF MaybeRequest
      <4>2. new \in UserRow
        BY <4>1 DEF Linked, UserRow
      <4>3. RowChange(r, u, new)
        BY <4>1, <2>7, <3>1
           DEF LinkAccount, Linked, At, UpdateUser, RowChange, UserRow
      <4>4. QED
        BY <3>2, <4>2, <4>3
    <3>3. CASE u \notin Requests
      BY <3>1, <3>3 DEF UpdateUser, TypeOK
    <3>4. QED
      BY <3>2, <3>3
  <2>8. QED
    BY <1>3, <2>1, <2>2, <2>3, <2>4, <2>5, <2>6, <2>7 DEF Progress
<1>4. QED
  BY <1>1, <1>2, <1>3 DEF Next

\* Stripe forgets nothing, and a form that has arrived does not change.
LEMMA FormsStay ==
    ASSUME IInv, [Next]_vars
    PROVE  /\ stripeCustomers \subseteq stripeCustomers'
           /\ \A x \in Requests : ~Untouched(request[x]) =>
                 /\ ~Untouched(request'[x])
                 /\ request'[x].email = request[x].email
                 /\ request'[x].country = request[x].country
<1> USE DEF IInv
<1>1. CASE UNCHANGED vars
  BY <1>1 DEF vars, stripeVars
<1>2. ASSUME NEW r \in Requests, Submit(r)
      PROVE  /\ stripeCustomers \subseteq stripeCustomers'
             /\ \A x \in Requests : x # r => request'[x] = request[x]
             /\ request[r].status = "idle"
  BY <1>2 DEF Submit, Accept, Refuse, stripeVars, TypeOK
<1>3. ASSUME NEW r \in Requests, NEW s \in {"ok", "failed"}, End(r, s)
      PROVE  \A x \in Requests : ~Untouched(request[x]) =>
                 /\ ~Untouched(request'[x])
                 /\ request'[x].email = request[x].email
                 /\ request'[x].country = request[x].country
  BY <1>3 DEF End, Untouched, TypeOK, RequestState
<1>4. ASSUME NEW r \in Requests, Progress(r) \/ Abandon(r) \/ Unsubscribe(r)
      PROVE  stripeCustomers \subseteq stripeCustomers'
  BY <1>4 DEF Progress, Abandon, Unsubscribe, NewStripeCustomer, StripeCharge,
       UserCreate, UserExists, Roles, Stories, CustomerId, Card, UpdateCard,
       UpdateCardRescued, Access, KeepAccount, CreateAccount, LinkAccount,
       TsrSubscription, TsrInvoice, Mail, NilUser, Answer, UpdateUser,
       stripeVars, tsrVars
<1>5. ASSUME NEW r \in Requests, Progress(r) \/ Abandon(r) \/ Unsubscribe(r)
      PROVE  \/ \E s \in {"ok", "failed"} : End(r, s)
             \/ \A x \in Requests : /\ request'[x].status = request[x].status
                                    /\ request'[x].email = request[x].email
                                    /\ request'[x].country = request[x].country
  <2>1. CASE UserExists(r) \/ NilUser(r) \/ Answer(r) \/ Abandon(r)
    BY <2>1 DEF UserExists, NilUser, Answer, Abandon, Fail
  <2>2. CASE Unsubscribe(r)
    BY <2>2 DEF Unsubscribe
  <2>3. CASE \/ StripeCharge(r) \/ UserCreate(r) \/ Roles(r) \/ Stories(r)
             \/ CustomerId(r) \/ Card(r) \/ UpdateCard(r) \/ KeepAccount(r)
             \/ LinkAccount(r) \/ TsrInvoice(r) \/ Mail(r)
    <3>1. Advance(r)
      BY <2>3 DEF StripeCharge, UserCreate, Roles, Stories, CustomerId, Card,
           UpdateCard, KeepAccount, LinkAccount, TsrInvoice, Mail, UpdateUser
    <3>2. QED
      BY <3>1 DEF Advance, TypeOK, RequestState
  <2>4. CASE NewStripeCustomer(r) \/ UpdateCardRescued(r)
    BY <2>4 DEF NewStripeCustomer, UpdateCardRescued, TypeOK, RequestState
  <2>5. CASE Access(r) \/ CreateAccount(r) \/ TsrSubscription(r)
    <3>1. PICK held : \/ request' = [request EXCEPT ![r].held = held,
                                                   ![r].at = @ + 1]
                      \/ request' = [request EXCEPT ![r].held = held]
      <4>1. CASE Access(r)
        BY <4>1 DEF Access
      <4>2. CASE CreateAccount(r)
        BY <4>2 DEF CreateAccount
      <4>3. CASE TsrSubscription(r)
        BY <4>3 DEF TsrSubscription
      <4>4. QED
        BY <2>5, <4>1, <4>2, <4>3
    <3>2. QED
      BY <3>1 DEF TypeOK, RequestState
  <2>6. QED
    BY <1>5, <2>1, <2>2, <2>3, <2>4, <2>5 DEF Progress
<1>6. QED
  BY <1>1, <1>2, <1>3, <1>4, <1>5 DEF Next, Untouched

LEMMA CustomersStay ==
    ASSUME IInv, [Next]_vars, NEW x, NEW e, NEW c, CustomerOf(x, e, c),
           x \in Requests
    PROVE  CustomerOf(x, e, c)'
BY FormsStay DEF CustomerOf, IInv, CustomersKnown, CustomerKnown

-----------------------------------------------------------------------------
(* What a step does to the request that takes it.                           *)

\* The objects of a request and its locals are nobody else's.
OthersStay(r) ==
    \A x \in Requests \ {r} :
        /\ request'[x] = request[x]
        /\ charged'[x] = charged[x]
        /\ tsrSubscription'[x] = tsrSubscription[x]
        /\ tsrInvoice'[x] = tsrInvoice[x]
        /\ x \in stripeCustomers' <=> x \in stripeCustomers

\* The request's own objects do not change.
OwnStay(r) ==
    /\ charged'[r] = charged[r]
    /\ tsrSubscription'[r] = tsrSubscription[r]
    /\ tsrInvoice'[r] = tsrInvoice[r]

\* Request record q becomes p in passing, or working on, a step.
Passed(q, p, step) ==
    /\ p.status = q.status /\ p.kind = q.kind /\ p.situation = q.situation
    /\ p.email = q.email /\ p.country = q.country
    /\ p.at = q.at + 1 \/ (step = "account" /\ p.at = q.at)

\* What each step does to the locals and the objects of its request.
Took(r, step) ==
    LET q == request[r]
        p == request'[r]
        found == {Read(r, u) : u \in FindByEmail(q.email)}
    IN
    /\ At(r, step)
    /\ Passed(q, p, step)
    /\ IF step = "customer" THEN p.customer = r /\ r \in stripeCustomers'
                            ELSE p.customer = q.customer
    /\ \/ p.held = q.held /\ ~(step = "access" /\ q.kind = "prepayment")
       \/ p.held \in found /\ step \in {"access", "account"}
       \/ p.held \in found /\ step = "tsr_subscription"
             /\ q.kind # "prepayment"
    /\ step = "tsr_subscription" /\ q.kind # "prepayment" => p.held \in found
    /\ charged'[r] = IF step = "charge" THEN q.customer ELSE charged[r]
    /\ tsrSubscription'[r] =
          IF step = "tsr_subscription" THEN p.held ELSE tsrSubscription[r]
    /\ IF step = "tsr_invoice"
       THEN tsrInvoice'[r].user = q.held.user /\ tsrInvoice'[r] \in InvoiceRow
       ELSE tsrInvoice'[r] = tsrInvoice[r]
    /\ step # "customer" => UNCHANGED stripeCustomers

\* A request ends, with "ok" only when no step is left.
Ended(r) ==
    \E s \in {"ok", "failed"} :
        /\ End(r, s)
        /\ request[r].status = "running"
        /\ s = "ok" => request[r].at >
                          Len(Steps(request[r].kind, request[r].situation))
        /\ OwnStay(r)
        /\ UNCHANGED stripeCustomers

\* A request begins, or is refused.
Begun(r) ==
    LET q == request[r]
        p == request'[r]
    IN
    /\ q.status = "idle"
    /\ \/ p = [q EXCEPT !.status = "refused"]
       \/ /\ p.status = "running" /\ p.at = q.at /\ p.held = q.held
          /\ p.email \in Emails /\ p.country \in Countries
          /\ p.situation \in {"no_card", "with_card"} => p.customer # None
          /\ p.customer # None =>
                \E u \in FindByEmail(p.email) :
                    p.customer = users[u].cust[p.country]
    /\ OwnStay(r)
    /\ UNCHANGED <<users, stripeCustomers>>

LEMMA SubmitBegins ==
    ASSUME IInv, NEW r \in Requests, Submit(r)
    PROVE  Begun(r) /\ OthersStay(r)
<1> USE DEF IInv
<1>0. OwnStay(r) /\ UNCHANGED <<users, stripeCustomers>>
  BY DEF Submit, OwnStay, tsrVars, stripeVars
<1>1. PICK kind \in Kinds, email \in Emails, country \in Countries :
          \/ Refuse(r, kind, email)
          \/ \E session \in FindByEmail(email) \cup {None} :
                Accept(r, kind, email, country, session)
  BY DEF Submit
<1>2. CASE Refuse(r, kind, email)
  <2>1. request' = [request EXCEPT ![r] = [@ EXCEPT !.status = "refused"]]
    BY <1>2 DEF Refuse
  <2>2. QED
    BY <1>0, <2>1 DEF Submit, Begun, OthersStay, TypeOK, tsrVars, stripeVars
<1>3. ASSUME NEW session \in FindByEmail(email) \cup {None},
             Accept(r, kind, email, country, session)
      PROVE  Begun(r) /\ OthersStay(r)
  <2> DEFINE situation == SituationOf(kind, session, country, email)
             customer  == ExistingCustomer(session, country, situation)
             new == [request[r] EXCEPT
                        !.status = "running", !.kind = kind, !.email = email,
                        !.country = country, !.situation = situation,
                        !.customer = customer]
  <2>1. request' = [request EXCEPT ![r] = new]
    BY <1>3 DEF Accept
  <2>2. /\ situation \in {"no_card", "with_card"} => customer # None
        /\ customer # None =>
              \E u \in FindByEmail(email) : customer = users[u].cust[country]
    BY <1>3 DEF Accept, SituationOf, ExistingCustomer
  <2>3. /\ new.status = "running" /\ new.at = request[r].at
        /\ new.held = request[r].held /\ new.email = email
        /\ new.country = country /\ new.situation = situation
        /\ new.customer = customer
    BY DEF TypeOK, RequestState
  <2>4. request'[r] = new /\ \A x \in Requests \ {r} : request'[x] = request[x]
    BY <2>1 DEF TypeOK
  <2> HIDE DEF new, customer, situation
  <2>5. Begun(r)
    BY <1>0, <2>2, <2>3, <2>4 DEF Submit, Begun
  <2>6. OthersStay(r)
    BY <2>4 DEF Submit, OthersStay, tsrVars, stripeVars
  <2>7. QED
    BY <2>5, <2>6
<1>4. QED
  BY <1>1, <1>2, <1>3

\* The three ways in which actions write to the record of a request.
LEMMA AdvancePasses ==
    ASSUME TypeOK, NEW r \in Requests, NEW step, Advance(r)
    PROVE  /\ Passed(request[r], request'[r], step)
           /\ request'[r].customer = request[r].customer
           /\ request'[r].held = request[r].held
           /\ \A x \in Requests \ {r} : request'[x] = request[x]
BY DEF TypeOK, RequestState, Advance, Passed

LEMMA HeldPasses ==
    ASSUME TypeOK, NEW r \in Requests, NEW step, NEW held,
           \/ request' = [request EXCEPT ![r].held = held, ![r].at = @ + 1]
           \/ request' = [request EXCEPT ![r].held = held] /\ step = "account"
    PROVE  /\ Passed(request[r], request'[r], step)
           /\ request'[r].customer = request[r].customer
           /\ request'[r].held = held
           /\ \A x \in Requests \ {r} : request'[x] = request[x]
BY DEF TypeOK, RequestState, Passed

LEMMA ActionEnds ==
    ASSUME IInv, NEW r \in Requests, 
           UserExists(r) \/ NilUser(r) \/ Answer(r) \/ Abandon(r)
    PROVE  Ended(r) /\ OthersStay(r)
<1> USE DEF IInv
<1>1. UNCHANGED <<charged, stripeCustomers, tsrSubscription, tsrInvoice>>
  BY DEF UserExists, NilUser, Answer, Abandon, tsrVars, stripeVars
<1>2. request[r].status = "running"
  BY DEF UserExists, NilUser, Answer, Abandon, At
<1>3. \E s \in {"ok", "failed"} :
        /\ End(r, s)
        /\ s = "ok" => request[r].at >
                          Len(Steps(request[r].kind, request[r].situation))
  BY DEF UserExists, NilUser, Answer, Abandon, Fail
<1>4. \A x \in Requests \ {r} : request'[x] = request[x]
  BY <1>3 DEF End, TypeOK
<1>5. Ended(r)
  BY <1>1, <1>2, <1>3 DEF Ended, OwnStay
<1>6. OthersStay(r)
  BY <1>1, <1>4 DEF OthersStay
<1>7. QED
  BY <1>5, <1>6

LEMMA ActionTakes ==
    ASSUME IInv, NEW r \in Requests, Progress(r),
           ~(UserExists(r) \/ NilUser(r) \/ Answer(r))
    PROVE  (\E step : Took(r, step)) /\ OthersStay(r)
<1> USE DEF IInv
<1>1. CASE NewStripeCustomer(r)
  <2>1. /\ Passed(request[r], request'[r], "customer")
        /\ request'[r].customer = r
        /\ request'[r].held = request[r].held
        /\ \A x \in Requests \ {r} : request'[x] = request[x]
    BY <1>1 DEF NewStripeCustomer, TypeOK, RequestState, Passed
  <2>2. /\ UNCHANGED <<charged, tsrSubscription, tsrInvoice>>
        /\ stripeCustomers' = stripeCustomers \cup {r}
        /\ At(r, "customer")
    BY <1>1 DEF NewStripeCustomer, tsrVars
  <2>3. Took(r, "customer")
    BY <2>1, <2>2 DEF Took
  <2>4. OthersStay(r)
    BY <2>1, <2>2 DEF OthersStay
  <2>5. QED
    BY <2>3, <2>4
<1>2. CASE StripeCharge(r)
  <2>1. /\ At(r, "charge") /\ Advance(r)
        /\ UNCHANGED <<stripeCustomers, tsrSubscription, tsrInvoice>>
        /\ charged' = [charged EXCEPT ![r] = request[r].customer]
    BY <1>2 DEF StripeCharge, tsrVars
  <2>2. Took(r, "charge")
    BY <2>1, AdvancePasses DEF Took, TypeOK
  <2>3. OthersStay(r)
    BY <2>1, AdvancePasses DEF OthersStay, TypeOK
  <2>4. QED
    BY <2>2, <2>3
<1>3. ASSUME NEW step \in {"user_create", "roles", "stories", "customer_id",
                           "card", "update_card", "account", "mail"},
             At(r, step), Advance(r),
             UNCHANGED <<charged, stripeCustomers, tsrSubscription, tsrInvoice>>
      PROVE  Took(r, step) /\ OthersStay(r)
  <2>1. Took(r, step)
    BY <1>3, AdvancePasses DEF Took
  <2>2. OthersStay(r)
    BY <1>3, AdvancePasses DEF OthersStay
  <2>3. QED
    BY <2>1, <2>2
<1>4. CASE \/ UserCreate(r) \/ Roles(r) \/ Stories(r) \/ CustomerId(r) \/ Card(r)
           \/ UpdateCard(r) \/ KeepAccount(r) \/ LinkAccount(r) \/ Mail(r)
  <2>1. /\ Advance(r)
        /\ UNCHANGED <<charged, stripeCustomers, tsrSubscription, tsrInvoice>>
    BY <1>4 DEF UserCreate, Roles, Stories, CustomerId, Card, UpdateCard,
         KeepAccount, LinkAccount, Mail, UpdateUser, tsrVars, stripeVars
  <2>2. \E step \in {"user_create", "roles", "stories", "customer_id",
                     "card", "update_card", "account", "mail"} : At(r, step)
    BY <1>4 DEF UserCreate, Roles, Stories, CustomerId, Card, UpdateCard,
         KeepAccount, LinkAccount, Mail
  <2>3. QED
    BY <1>3, <2>1, <2>2
<1>5. CASE UpdateCardRescued(r)
  <2>1. /\ Passed(request[r], request'[r], "update_card")
        /\ request'[r].customer = request[r].customer
        /\ request'[r].held = request[r].held
        /\ \A x \in Requests \ {r} : request'[x] = request[x]
    BY <1>5 DEF UpdateCardRescued, TypeOK, RequestState, Passed
  <2>2. /\ UNCHANGED <<charged, stripeCustomers, tsrSubscription, tsrInvoice>>
        /\ At(r, "update_card")
    BY <1>5 DEF UpdateCardRescued, tsrVars, stripeVars
  <2>3. Took(r, "update_card")
    BY <2>1, <2>2 DEF Took
  <2>4. OthersStay(r)
    BY <2>1, <2>2 DEF OthersStay
  <2>5. QED
    BY <2>3, <2>4
<1>6. CASE Access(r)
  <2>1. /\ At(r, "access")
        /\ UNCHANGED <<charged, stripeCustomers, tsrSubscription, tsrInvoice>>
    BY <1>6 DEF Access, stripeVars
  <2>2. PICK held \in IF request[r].kind = "prepayment"
                      THEN {Read(r, u) : u \in FindByEmail(request[r].email)}
                      ELSE {request[r].held} :
            request' = [request EXCEPT ![r].held = held, ![r].at = @ + 1]
    <3>1. PICK u \in FindByEmail(request[r].email) :
              request' = [request EXCEPT
                  ![r].held = IF request[r].kind = "prepayment"
                              THEN Read(r, u) ELSE @,
                  ![r].at = @ + 1]
      BY <1>6 DEF Access
    <3>2. QED
      BY <3>1 DEF TypeOK
  <2>3. /\ Passed(request[r], request'[r], "access")
        /\ request'[r].customer = request[r].customer
        /\ request'[r].held = held
        /\ \A x \in Requests \ {r} : request'[x] = request[x]
    BY <2>2, HeldPasses
  <2>4. \/ held = request[r].held /\ request[r].kind # "prepayment"
        \/ held \in {Read(r, u) : u \in FindByEmail(request[r].email)}
    BY <2>2
  <2>5. Took(r, "access")
    BY <2>1, <2>3, <2>4 DEF Took
  <2>6. OthersStay(r)
    BY <2>1, <2>3 DEF OthersStay
  <2>7. QED
    BY <2>5, <2>6
<1>7. CASE CreateAccount(r)
  <2>1. /\ At(r, "account")
        /\ UNCHANGED <<charged, stripeCustomers, tsrSubscription, tsrInvoice>>
    BY <1>7 DEF CreateAccount, stripeVars
  <2>2. PICK u \in FindByEmail(request[r].email) :
            request' = [request EXCEPT ![r].held = Read(r, u)]
    BY <1>7 DEF CreateAccount
  <2>3. /\ Passed(request[r], request'[r], "account")
        /\ request'[r].customer = request[r].customer
        /\ request'[r].held = Read(r, u)
        /\ \A x \in Requests \ {r} : request'[x] = request[x]
    BY <2>2, HeldPasses
  <2>4. Took(r, "account")
    BY <2>1, <2>3 DEF Took
  <2>5. OthersStay(r)
    BY <2>1, <2>3 DEF OthersStay
  <2>6. QED
    BY <2>4, <2>5
<1>8. CASE TsrSubscription(r)
  <2> DEFINE found == {Read(r, u) : u \in FindByEmail(request[r].email)}
  <2>1. /\ At(r, "tsr_subscription")
        /\ UNCHANGED <<charged, stripeCustomers, tsrInvoice>>
    BY <1>8 DEF TsrSubscription, stripeVars
  <2>2. PICK row \in IF request[r].kind = "prepayment"
                     THEN {request[r].held} ELSE found :
          /\ tsrSubscription' = [tsrSubscription EXCEPT ![r] = row]
          /\ request' = [request EXCEPT ![r].held = row, ![r].at = @ + 1]
    BY <1>8 DEF TsrSubscription
  <2>3. /\ Passed(request[r], request'[r], "tsr_subscription")
        /\ request'[r].customer = request[r].customer
        /\ request'[r].held = row
        /\ \A x \in Requests \ {r} : request'[x] = request[x]
    BY <2>2, HeldPasses
  <2>4. /\ tsrSubscription'[r] = row
        /\ \A x \in Requests \ {r} : tsrSubscription'[x] = tsrSubscription[x]
    BY <2>2 DEF TypeOK
  <2>5. Took(r, "tsr_subscription")
    BY <2>1, <2>2, <2>3, <2>4 DEF Took
  <2>6. OthersStay(r)
    BY <2>1, <2>3, <2>4 DEF OthersStay
  <2>7. QED
    BY <2>5, <2>6
<1>9. CASE TsrInvoice(r)
  <2> DEFINE i == [user |-> request[r].held.user,
                   subscription |->
                      IF request[r].kind = "prepayment" THEN r ELSE "0"]
  <2>1. request[r].held # None
    BY <1>9, AtOrder DEF TsrInvoice, Ordered, StepsLeaveMarks, Marked
  <2>2. i \in InvoiceRow
    BY <2>1 DEF TypeOK, RequestState, SubscriptionRow, InvoiceRow
  <2>3. /\ At(r, "tsr_invoice") /\ Advance(r)
        /\ UNCHANGED <<charged, stripeCustomers, tsrSubscription>>
        /\ tsrInvoice' = [tsrInvoice EXCEPT ![r] = i]
    BY <1>9 DEF TsrInvoice, stripeVars
  <2>4. Took(r, "tsr_invoice")
    BY <2>2, <2>3, AdvancePasses DEF Took, TypeOK
  <2>5. OthersStay(r)
    BY <2>3, AdvancePasses DEF OthersStay, TypeOK
  <2>6. QED
    BY <2>4, <2>5
<1>10. QED
  BY <1>1, <1>2, <1>4, <1>5, <1>6, <1>7, <1>8, <1>9 DEF Progress

\* All the steps there are, seen from the requests.
LEMMA RequestsChange ==
    ASSUME IInv, [Next]_vars
    PROVE  \/ UNCHANGED <<request, stripeCustomers, charged, tsrSubscription,
                         tsrInvoice>>
           \/ \E r \in Requests :
                 /\ OthersStay(r)
                 /\ Begun(r) \/ Ended(r) \/ \E step : Took(r, step)
<1>1. CASE UNCHANGED vars
  BY <1>1 DEF vars, tsrVars, stripeVars
<1>2. ASSUME NEW r \in Requests, Submit(r)
      PROVE  OthersStay(r) /\ Begun(r)
  BY <1>2, SubmitBegins
<1>3. ASSUME NEW r \in Requests, Progress(r) \/ Abandon(r)
      PROVE  /\ OthersStay(r)
             /\ Ended(r) \/ \E step : Took(r, step)
  BY <1>3, ActionEnds, ActionTakes
<1>4. ASSUME NEW r \in Requests, Unsubscribe(r)
      PROVE  UNCHANGED <<request, stripeCustomers, charged, tsrSubscription,
                         tsrInvoice>>
  BY <1>4 DEF Unsubscribe, stripeVars
<1>5. QED
  BY <1>1, <1>2, <1>3, <1>4 DEF Next

-----------------------------------------------------------------------------
(* The conjuncts of IInv, one after the other.                              *)

LEMMA PassedDone ==
    ASSUME NEW q, NEW p, NEW step, q.at \in Nat, Passed(q, p, step)
    PROVE  /\ \A a : DoneBy(q, a) => DoneBy(p, a)
           /\ Steps(q.kind, q.situation)[q.at] = step =>
                 \A a : DoneBy(p, a) => DoneBy(q, a) \/ a = step
BY DEF Passed, DoneBy

LEMMA EndedRecord ==
    ASSUME TypeOK, NEW r \in Requests, Ended(r)
    PROVE  /\ request[r].status = "running"
           /\ request'[r].status \in {"ok", "failed"}
           /\ request'[r].kind = request[r].kind
           /\ request'[r].email = request[r].email
           /\ request'[r].country = request[r].country
           /\ request'[r].customer = None /\ request'[r].held = None
           /\ request'[r].status = "ok" => request[r].at >
                 Len(Steps(request[r].kind, request[r].situation))
           /\ OwnStay(r) /\ UNCHANGED stripeCustomers
BY DEF Ended, End, TypeOK, RequestState

\* The row of a request's subscription appears from what the request holds.
LEMMA RowsAppear ==
    ASSUME IInv, [Next]_vars, NEW x \in Requests
    PROVE  tsrSubscription'[x] \in {tsrSubscription[x], request'[x].held}
<1>1. CASE UNCHANGED tsrSubscription
  BY <1>1
<1>2. CASE \E r \in Requests \ {x} : OthersStay(r)
  BY <1>2 DEF OthersStay
<1>3. CASE Begun(x)
  BY <1>3 DEF Begun, OwnStay
<1>4. CASE Ended(x)
  BY <1>4 DEF Ended, OwnStay
<1>5. ASSUME NEW step, Took(x, step)
      PROVE  tsrSubscription'[x] \in {tsrSubscription[x], request'[x].held}
  BY <1>5 DEF Took
<1>6. QED
  BY <1>1, <1>2, <1>3, <1>4, <1>5, RequestsChange

LEMMA BegunRecord ==
    ASSUME IInv, NEW r \in Requests, Begun(r)
    PROVE  /\ request[r] = IdleRequest
           /\ request'[r].held = None
           /\ request'[r].status = "refused" => request'[r].customer = None
           /\ request'[r].status = "running" => request'[r].at = 1
           /\ request'[r].status \in {"refused", "running"}
<1>1. request[r] = IdleRequest
  BY DEF Begun, IInv, FormsKnown
<1>2. request[r].at = 1 /\ request[r].customer = None /\ request[r].held = None
  BY <1>1 DEF IdleRequest
<1>3. CASE request'[r] = [request[r] EXCEPT !.status = "refused"]
  BY <1>1, <1>2, <1>3 DEF IdleRequest
<1>4. CASE request'[r] # [request[r] EXCEPT !.status = "refused"]
  BY <1>1, <1>2, <1>4 DEF Begun
<1>5. QED
  BY <1>1, <1>3, <1>4

\* A user's row appears once, with an e-mail, and only loses it to "deleted".
LEMMA EmailsChange ==
    ASSUME IInv, [Next]_vars, NEW u \in Requests
    PROVE  \/ users'[u].email = users[u].email
           \/ users[u].email \in Emails /\ users'[u].email = "deleted"
           \/ users[u].email = None /\ UserCreate(u)
<1> USE DEF IInv
<1>1. CASE users' = users
  BY <1>1
<1>2. ASSUME NEW r \in Requests, UserCreate(r)
      PROVE  /\ users[r].email = None
             /\ u # r => users'[u] = users[u]
  <2>1. ~DoneBy(request[r], "user_create") /\ request[r].status = "running"
    BY <1>2, AtOrder DEF UserCreate, Ordered
  <2>2. QED
    BY <1>2, <2>1 DEF RowsKnown, UserCreate, UpdateUser, TypeOK
<1>3. ASSUME NEW x \in Requests, Unsubscribe(x)
      PROVE  \/ users'[u].email = users[u].email
             \/ users[u].email \in Emails /\ users'[u].email = "deleted"
  <2> DEFINE new == [users[x] EXCEPT !.email = "deleted", !.role = "deleted"]
  <2>1. new.email = "deleted"
    BY DEF TypeOK, UserRow
  <2>2. users' = [users EXCEPT ![x] = new]
    BY <1>3 DEF Unsubscribe, TypeOK
  <2>3. QED
    BY <1>3, <2>1, <2>2 DEF Unsubscribe, TypeOK
<1>4. ASSUME NEW r \in Requests, NEW x \in Requests, NEW row \in UserRow,
             RowChange(r, x, row)
      PROVE  users'[u].email = users[u].email
  BY <1>4 DEF RowChange, TypeOK
<1>5. QED
  BY <1>1, <1>2, <1>3, <1>4, UsersChange

\* What is known of a row's owner stays known.
LEMMA OwnersStay ==
    ASSUME IInv, [Next]_vars, NEW u \in Requests, NEW e \in Emails,
           users[u].email \in {e, "deleted"}
    PROVE  users'[u].email \in {e, "deleted"}
BY EmailsChange, EmailsAssumption, NoneAssumption

LEMMA FormsKnownStep ==
    ASSUME IInv, [Next]_vars
    PROVE  FormsKnown'
<1> USE DEF IInv
<1>1. ASSUME NEW r \in Requests, OthersStay(r), Begun(r)
      PROVE  FormsKnown'
  <2>1. /\ request'[r].status # "idle"
        /\ Untouched(request'[r]) => /\ request'[r].customer = None
                                     /\ request'[r].held = None
        /\ ~Untouched(request'[r]) => /\ request'[r].email \in Emails
                                      /\ request'[r].country \in Countries
    BY <1>1, BegunRecord DEF Begun, Untouched, IdleRequest
  <2>2. QED
    BY <1>1, <2>1 DEF FormsKnown, OthersStay
<1>2. ASSUME NEW r \in Requests, OthersStay(r), Ended(r)
      PROVE  FormsKnown'
  BY <1>2, EndedRecord DEF FormsKnown, OthersStay, Untouched
<1>3. ASSUME NEW r \in Requests, OthersStay(r), NEW step, Took(r, step)
      PROVE  FormsKnown'
  BY <1>3 DEF FormsKnown, OthersStay, Untouched, Took, Passed, At
<1>4. CASE UNCHANGED request
  BY <1>4 DEF FormsKnown
<1>5. QED
  BY <1>1, <1>2, <1>3, <1>4, RequestsChange

LEMMA RowsKnownStep ==
    ASSUME IInv, [Next]_vars, NEW x \in Requests
    PROVE  LET p == request'[x] IN
           /\ Untouched(p) \/ (p.status = "running" /\ ~DoneBy(p, "user_create"))
                  => users'[x].email = None
           /\ p.held # None => users'[p.held.user].email \in {p.email, "deleted"}
           /\ tsrSubscription'[x] # None =>
                  users'[tsrSubscription'[x].user].email \in {p.email, "deleted"}
<1> DEFINE q == request[x]
           p == request'[x]
           Early(z) == \/ Untouched(z)
                       \/ z.status = "running" /\ ~DoneBy(z, "user_create")
<1> USE DEF IInv
<1>0. /\ q.at \in Nat /\ q \in RequestState
      /\ ~Untouched(q) => q.email \in Emails /\ ~Untouched(p)
                             /\ p.email = q.email
  BY FormsStay DEF TypeOK, RequestState, FormsKnown
<1>1. Early(p) => Early(q)
  <2>1. CASE p = q
    BY <2>1
  <2>2. CASE Begun(x)
    BY <2>2, BegunRecord DEF Untouched, IdleRequest
  <2>3. CASE Ended(x)
    BY <2>3, EndedRecord DEF Untouched
  <2>4. ASSUME NEW step, Took(x, step)
        PROVE  Early(p) => Early(q)
    BY <1>0, <2>4, PassedDone DEF Took, Passed, Untouched, At
  <2>5. QED
    BY <2>1, <2>2, <2>3, <2>4, RequestsChange DEF OthersStay
<1>2. Early(p) => users'[x].email = None
  <2>1. CASE UserCreate(x)
    <3>1. At(x, "user_create") /\ Advance(x)
      BY <2>1 DEF UserCreate, UpdateUser
    <3>2. /\ q.status = "running"
          /\ Steps(q.kind, q.situation)[q.at] = "user_create"
      BY <3>1 DEF At
    <3>3. /\ p.at = q.at + 1 /\ p.status = q.status
          /\ p.kind = q.kind /\ p.situation = q.situation
      BY <3>1 DEF Advance, TypeOK, RequestState
    <3>4. q.at \in 1..(p.at - 1)
      BY <1>0, <3>1, <3>3, StepIndex
    <3>5. QED
      BY <3>2, <3>3, <3>4 DEF Untouched, DoneBy
  <2>2. CASE ~UserCreate(x)
    BY <1>1, <2>2, EmailsChange, EmailsAssumption DEF RowsKnown
  <2>3. QED
    BY <2>1, <2>2
<1>3. \A u \in FindByEmail(q.email) : ~Untouched(q) =>
          users'[Read(x, u).user].email \in {p.email, "deleted"}
  BY <1>0, OwnersStay DEF FindByEmail, Read
<1>4. q.held # None /\ ~Untouched(q) =>
          users'[q.held.user].email \in {p.email, "deleted"}
  BY <1>0, OwnersStay DEF RowsKnown, RequestState, SubscriptionRow
<1>5. tsrSubscription[x] # None =>
          /\ ~Untouched(q)
          /\ users'[tsrSubscription[x].user].email \in {p.email, "deleted"}
  BY <1>0, OwnersStay DEF RowsKnown, CustomersKnown, CustomerKnown, TypeOK, SubscriptionRow
<1>6. p.held # None => users'[p.held.user].email \in {p.email, "deleted"}
  <2>1. CASE p = q
    BY <1>4, <2>1 DEF FormsKnown
  <2>2. CASE Begun(x)
    BY <2>2, BegunRecord
  <2>3. CASE Ended(x)
    BY <2>3, EndedRecord
  <2>4. ASSUME NEW step, Took(x, step)
        PROVE  p.held # None => users'[p.held.user].email \in {p.email, "deleted"}
    BY <1>3, <1>4, <2>4 DEF Took, Untouched, At
  <2>5. QED
    BY <2>1, <2>2, <2>3, <2>4, RequestsChange DEF OthersStay
<1>7. tsrSubscription'[x] # None =>
          users'[tsrSubscription'[x].user].email \in {p.email, "deleted"}
  <2>1. CASE tsrSubscription'[x] = tsrSubscription[x]
    BY <1>5, <2>1
  <2>2. CASE tsrSubscription'[x] = p.held
    BY <1>6, <2>2
  <2>3. tsrSubscription'[x] \in {tsrSubscription[x], p.held}
    BY RowsAppear
  <2>4. QED
    BY <2>1, <2>2, <2>3
<1>8. QED
  BY <1>2, <1>6, <1>7

\* A charge always has a customer to be taken from.
LEMMA ChargeHasCustomer ==
    ASSUME IInv, NEW r \in Requests, At(r, "charge")
    PROVE  request[r].customer # None
<1>1. request[r].situation \in Situations
  BY DEF IInv, TypeOK, RequestState
<1>2. Marked(request[r], charged[r], tsrSubscription[r], tsrInvoice[r])
  BY DEF IInv, StepsLeaveMarks
<1>3. QED
  BY <1>1, <1>2, AtOrder DEF IInv, Ordered, Marked, Situations

\* A subscription row is never a nil local.
LEMMA TookSubscription ==
    ASSUME IInv, NEW r \in Requests, Took(r, "tsr_subscription")
    PROVE  tsrSubscription'[r] = request'[r].held /\ request'[r].held # None
<1> USE DEF IInv
<1>1. CASE request[r].kind = "prepayment"
  <2>1. DoneBy(request[r], "access") /\ request[r].status = "running"
    BY <1>1, AtOrder DEF Took, Ordered
  <2>2. request[r].held # None
    BY <1>1, <2>1 DEF StepsLeaveMarks, Marked
  <2>3. QED
    BY <1>1, <2>2 DEF Took
<1>2. CASE request[r].kind # "prepayment"
  <2>1. \A u \in FindByEmail(request[r].email) : Read(r, u) \in SubscriptionRow
    BY ReadType DEF FindByEmail, Took, At
  <2>2. QED
    BY <1>2, <2>1, RowsAssumption DEF Took
<1>3. QED
  BY <1>1, <1>2

LEMMA MarksStep ==
    ASSUME IInv, [Next]_vars, NEW x \in Requests
    PROVE  Marked(request'[x], charged'[x], tsrSubscription'[x], tsrInvoice'[x])
<1> DEFINE q == request[x]
           p == request'[x]
<1> USE DEF IInv
<1>0. q.at \in Nat /\ Marked(q, charged[x], tsrSubscription[x], tsrInvoice[x])
  BY DEF TypeOK, RequestState, StepsLeaveMarks
<1>1. CASE OwnStay(x) /\ p = q
  BY <1>0, <1>1 DEF OwnStay
<1>2. CASE Begun(x)
  <2>1. p.status = "running" => \A a : ~DoneBy(p, a)
    BY <1>2, BegunRecord, NothingDone
  <2>2. p.status = "running" =>
            (p.situation \in {"no_card", "with_card"} => p.customer # None)
    BY <1>2, BegunRecord DEF Begun, IdleRequest
  <2>3. QED
    BY <2>1, <2>2 DEF Marked
<1>3. CASE Ended(x)
  BY <1>3, EndedRecord DEF Marked
<1>4. ASSUME NEW step, Took(x, step)
      PROVE  Marked(p, charged'[x], tsrSubscription'[x], tsrInvoice'[x])
  <2>1. /\ q.status = "running"
        /\ Ordered(q.kind, q.situation, Steps(q.kind, q.situation))
        /\ \A a : After(step, a, Steps(q.kind, q.situation)) => DoneBy(q, a)
        /\ \A a : NotAfter(step, a, Steps(q.kind, q.situation)) => ~DoneBy(q, a)
        /\ Steps(q.kind, q.situation)[q.at] = step
    BY <1>4, AtOrder DEF Took
  <2>2. \A a : DoneBy(p, a) => DoneBy(q, a) \/ (a = step /\ p.at = q.at + 1)
    BY <1>0, <1>4, <2>1 DEF Took, Passed, DoneBy
  <2>3. /\ p.kind = q.kind /\ p.situation = q.situation
        /\ p.status = q.status
    BY <1>4 DEF Took, Passed
  <2>4. \A u \in FindByEmail(q.email) : Read(x, u) \in SubscriptionRow
    BY <2>1, ReadType DEF FindByEmail
  <2>5. p.situation \in {"no_card", "with_card"} \/ DoneBy(p, "customer")
            => p.customer # None
    BY <1>0, <1>4, <2>1, <2>2, <2>3, RequestsAssumption DEF Marked, Took
  <2>6. DoneBy(p, "charge") => charged'[x] # None
    <3>1. step = "charge" => q.customer # None
      BY <1>4, ChargeHasCustomer DEF Took
    <3>2. QED
      BY <1>0, <1>4, <2>1, <2>2, <3>1 DEF Marked, Took
  <2>7. p.kind = "prepayment" /\ DoneBy(p, "access") => p.held # None
    BY <1>0, <1>4, <2>1, <2>2, <2>3, <2>4, RowsAssumption DEF Marked, Took
  <2>8. DoneBy(p, "tsr_subscription") =>
            /\ p.held # None /\ tsrSubscription'[x] # None
            /\ tsrSubscription'[x].user = p.held.user
    <3>1. CASE step = "tsr_subscription"
      BY <1>4, <3>1, TookSubscription DEF Took
    <3>2. CASE step \in {"account", "access"}
      BY <2>1, <2>2, <3>2 DEF Ordered
    <3>3. CASE step \notin {"tsr_subscription", "account", "access"}
      BY <1>0, <1>4, <2>1, <2>2, <3>3 DEF Marked, Took
    <3>4. QED
      BY <3>1, <3>2, <3>3
  <2>9. DoneBy(p, "tsr_invoice") =>
            /\ tsrSubscription'[x] # None /\ tsrInvoice'[x] # None
            /\ tsrInvoice'[x].user = tsrSubscription'[x].user
    <3>1. CASE step = "tsr_invoice"
      BY <1>0, <1>4, <2>1, <3>1, RowsAssumption DEF Marked, Took, Ordered
    <3>2. CASE step = "tsr_subscription"
      BY <2>1, <2>2, <3>2 DEF Ordered
    <3>3. CASE step \notin {"tsr_invoice", "tsr_subscription"}
      BY <1>0, <1>4, <2>1, <2>2, <3>3 DEF Marked, Took
    <3>4. QED
      BY <3>1, <3>2, <3>3
  <2>10. QED
    BY <2>5, <2>6, <2>7, <2>8, <2>9 DEF Marked
<1>5. QED
  BY <1>1, <1>2, <1>3, <1>4, RequestsChange DEF OthersStay, OwnStay

\* The customer id that a request finds in the row of its e-mail.
LEMMA FoundCustomer ==
    ASSUME CustomersSegregated, NEW e \in Emails, NEW c \in Countries,
           NEW u \in FindByEmail(e), users[u].cust[c] # None
    PROVE  CustomerOf(users[u].cust[c], e, c)
BY DEF CustomersSegregated, FindByEmail, Live

LEMMA CustomerKnownStep ==
    ASSUME IInv, [Next]_vars, NEW x \in Requests
    PROVE  CustomerKnown(x)'
<1> DEFINE q == request[x]
           p == request'[x]
           Now(y) == /\ y \in stripeCustomers'
                     /\ request'[y].email = p.email
                     /\ request'[y].country = p.country
<1> USE DEF IInv
<1>0. /\ ~Untouched(q) => /\ q.email \in Emails /\ q.country \in Countries
                          /\ p.email = q.email /\ p.country = q.country
                          /\ ~Untouched(p)
      /\ CustomerKnown(x)
  BY FormsStay DEF FormsKnown, CustomersKnown
<1>1. \A y : CustomerOf(y, q.email, q.country) /\ ~Untouched(q) => Now(y)
  <2>1. \A y : CustomerOf(y, q.email, q.country)
                => y \in Requests /\ ~Untouched(request[y])
    BY DEF CustomerOf, CustomersKnown, CustomerKnown, TypeOK
  <2>2. QED
    BY <1>0, <2>1, FormsStay DEF CustomerOf
<1>2. ASSUME ~Untouched(q), NEW u \in FindByEmail(q.email),
             Read(x, u).customer # None
      PROVE  Now(Read(x, u).customer)
  BY <1>0, <1>1, <1>2, FoundCustomer DEF Read
<1>3. x \in stripeCustomers' \/ charged'[x] # None
         \/ tsrSubscription'[x] # None \/ tsrInvoice'[x] # None
      => ~Untouched(p)
  <2>1. CASE ~Untouched(q)
    BY <1>0, <2>1
  <2>2. CASE Untouched(q)
    <3>1. /\ x \in stripeCustomers' <=> x \in stripeCustomers
          /\ charged'[x] = charged[x]
          /\ tsrSubscription'[x] = tsrSubscription[x]
          /\ tsrInvoice'[x] = tsrInvoice[x]
      <4>1. CASE \E r \in Requests \ {x} : OthersStay(r)
        BY <4>1 DEF OthersStay
      <4>2. CASE Begun(x) \/ Ended(x)
        BY <4>2, EndedRecord DEF Begun, OwnStay
      <4>3. ~ \E step : Took(x, step)
        BY <2>2 DEF Took, At, Untouched
      <4>4. QED
        BY <4>1, <4>2, <4>3, RequestsChange
    <3>2. QED
      BY <1>0, <2>2, <3>1 DEF CustomerKnown
  <2>3. QED
    BY <2>1, <2>2
<1>4. p.customer # None => Now(p.customer)
  <2>1. CASE p = q
    BY <1>0, <1>1, <2>1 DEF CustomerKnown, FormsKnown
  <2>2. CASE Begun(x)
    <3>1. CASE p.status = "refused"
      BY <2>2, <3>1, BegunRecord
    <3>2. CASE p.status = "running" /\ p.customer # None
      <4>1. PICK u \in FindByEmail(p.email) :
                p.customer = users[u].cust[p.country]
        BY <2>2, <3>2, BegunRecord DEF Begun, IdleRequest
      <4>2. p.email \in Emails /\ p.country \in Countries
        BY <2>2, <3>2, BegunRecord DEF Begun, IdleRequest
      <4>3. CustomerOf(p.customer, p.email, p.country)
        BY <3>2, <4>1, <4>2, FoundCustomer
      <4>4. p.customer \in Requests /\ ~Untouched(request[p.customer])
        BY <4>3 DEF CustomerOf, CustomersKnown, CustomerKnown, TypeOK
      <4>5. QED
        BY <4>3, <4>4, FormsStay DEF CustomerOf
    <3>3. QED
      BY <2>2, <3>1, <3>2, BegunRecord
  <2>3. CASE Ended(x)
    BY <2>3, EndedRecord
  <2>4. ASSUME NEW step, Took(x, step)
        PROVE  p.customer # None => Now(p.customer)
    BY <1>0, <1>1, <2>4 DEF Took, At, Untouched, CustomerKnown
  <2>5. QED
    BY <2>1, <2>2, <2>3, <2>4, RequestsChange DEF OthersStay
<1>5. p.held # None /\ p.held.customer # None => Now(p.held.customer)
  <2>1. CASE p = q
    BY <1>0, <1>1, <2>1 DEF CustomerKnown, FormsKnown
  <2>2. CASE Begun(x) \/ Ended(x)
    BY <2>2, BegunRecord, EndedRecord
  <2>3. ASSUME NEW step, Took(x, step)
        PROVE  p.held # None /\ p.held.customer # None => Now(p.held.customer)
    BY <1>0, <1>1, <1>2, <2>3 DEF Took, At, Untouched, CustomerKnown
  <2>4. QED
    BY <2>1, <2>2, <2>3, RequestsChange DEF OthersStay
<1>6. charged'[x] # None => Now(charged'[x])
  <2>1. CASE charged'[x] = charged[x]
    BY <1>0, <1>1, <2>1 DEF CustomerKnown
  <2>2. CASE charged'[x] # charged[x]
    <3>1. PICK step : Took(x, step)
      BY <2>2, RequestsChange, EndedRecord DEF OthersStay, Begun, OwnStay
    <3>2. charged'[x] = q.customer /\ ~Untouched(q)
      BY <2>2, <3>1 DEF Took, At, Untouched
    <3>3. QED
      BY <1>0, <1>1, <3>2 DEF CustomerKnown
  <2>3. QED
    BY <2>1, <2>2
<1>7. QED
  BY <1>3, <1>4, <1>5, <1>6 DEF CustomerKnown, CustomerOf

LEMMA SegregatedStep ==
    ASSUME IInv, [Next]_vars
    PROVE  CustomersSegregated'
<1> USE DEF IInv
<1>1. SUFFICES ASSUME NEW u \in Requests, NEW c \in Countries,
                      users'[u].email \in Emails, users'[u].cust[c] # None
               PROVE  /\ users'[u].cust[c] \in stripeCustomers'
                      /\ request'[users'[u].cust[c]].email = users'[u].email
                      /\ request'[users'[u].cust[c]].country = c
  BY DEF CustomersSegregated, Live, CustomerOf
<1>2. ASSUME NEW x, NEW e, CustomerOf(x, e, c)
      PROVE  /\ x \in stripeCustomers'
             /\ request'[x].email = e /\ request'[x].country = c
  <2>1. x \in Requests /\ ~Untouched(request[x])
    BY <1>2 DEF CustomerOf, CustomersKnown, CustomerKnown, TypeOK
  <2>2. QED
    BY <1>2, <2>1, FormsStay DEF CustomerOf
<1>3. CASE users'[u] = users[u]
  BY <1>1, <1>2, <1>3 DEF CustomersSegregated, Live
<1>4. ASSUME NEW r \in Requests, UserCreate(r), users'[u] # users[u]
      PROVE  FALSE
  <2>1. users'[u].cust[c] = None
    BY <1>4 DEF UserCreate, UpdateUser, TypeOK, NoUser
  <2>2. QED
    BY <1>1, <2>1
<1>5. ASSUME NEW x \in Requests, Unsubscribe(x), users'[u] # users[u]
      PROVE  FALSE
  <2> DEFINE new == [users[x] EXCEPT !.email = "deleted", !.role = "deleted"]
  <2>1. new.email = "deleted"
    BY DEF TypeOK, UserRow
  <2>2. users' = [users EXCEPT ![x] = new]
    BY <1>5 DEF Unsubscribe, TypeOK
  <2>3. users'[u].email = "deleted"
    BY <1>5, <2>1, <2>2 DEF TypeOK
  <2>4. QED
    BY <1>1, <2>3, EmailsAssumption
<1>6. ASSUME NEW r \in Requests, NEW x \in Requests, NEW row \in UserRow,
             RowChange(r, x, row), users'[u] # users[u]
      PROVE  users'[u].cust[c] \in stripeCustomers'
             /\ request'[users'[u].cust[c]].email = users'[u].email
             /\ request'[users'[u].cust[c]].country = c
  <2>1. x = u /\ users'[u] = row /\ row.email = users[u].email
    BY <1>6 DEF RowChange, TypeOK
  <2>2. CASE row.cust = users[u].cust
    BY <1>1, <1>2, <2>1, <2>2 DEF CustomersSegregated, Live
  <2>3. CASE /\ users[u].email = request[r].email
             /\ row.cust = [users[u].cust EXCEPT
                              ![request[r].country] = request[r].customer]
    <3>1. CASE c = request[r].country
      <4>1. row.cust[c] = request[r].customer
        BY <2>3, <3>1 DEF TypeOK, UserRow
      <4>2. CustomerOf(row.cust[c], row.email, c)
        BY <1>1, <2>1, <2>3, <3>1, <4>1 DEF CustomersKnown, CustomerKnown
      <4>3. QED
        BY <1>2, <2>1, <4>2
    <3>2. CASE c # request[r].country
      <4>1. row.cust[c] = users[u].cust[c]
        BY <2>3, <3>2 DEF TypeOK, UserRow
      <4>2. QED
        BY <1>1, <1>2, <2>1, <4>1 DEF CustomersSegregated, Live
    <3>3. QED
      BY <3>1, <3>2
  <2>4. QED
    BY <1>6, <2>1, <2>2, <2>3 DEF RowChange
<1>7. QED
  BY <1>3, <1>4, <1>5, <1>6, UsersChange

\* Money once taken stays taken, and for the same e-mail.
LEMMA ChargesStay ==
    ASSUME IInv, [Next]_vars, NEW x \in Requests, charged[x] # None
    PROVE  charged'[x] # None /\ request'[x].email = request[x].email
<1> USE DEF IInv
<1>1. ~Untouched(request[x])
  BY DEF CustomersKnown, CustomerKnown
<1>2. request'[x].email = request[x].email
  BY <1>1, FormsStay
<1>3. CASE charged'[x] = charged[x]
  BY <1>2, <1>3
<1>4. CASE charged'[x] # charged[x]
  <2>1. PICK step : Took(x, step)
    BY <1>4, RequestsChange, EndedRecord DEF OthersStay, Begun, OwnStay
  <2>2. charged'[x] = request[x].customer /\ At(x, "charge")
    BY <1>4, <2>1 DEF Took
  <2>3. request[x].customer # None
    BY <2>2, ChargeHasCustomer
  <2>4. QED
    BY <1>2, <2>2, <2>3
<1>5. QED
  BY <1>3, <1>4

LEMMA BackedStep ==
    ASSUME IInv, [Next]_vars
    PROVE  SubscriptionBacked'
<1> USE DEF IInv
<1> DEFINE Now(x, y) == /\ y \in stripeCustomers'
                        /\ request'[y].email = request'[x].email
                        /\ request'[y].country = request'[x].country
<1>1. SUFFICES ASSUME NEW x \in Requests, tsrSubscription'[x] # None
               PROVE  /\ Now(x, charged'[x])
                      /\ tsrSubscription'[x].customer # None
                            => Now(x, tsrSubscription'[x].customer)
  BY DEF SubscriptionBacked, CustomerOf
<1>2. /\ charged'[x] # None => Now(x, charged'[x])
      /\ request'[x].held # None /\ request'[x].held.customer # None
            => Now(x, request'[x].held.customer)
  BY CustomerKnownStep DEF CustomerKnown, CustomerOf
<1>3. CASE tsrSubscription'[x] = tsrSubscription[x]
  <2>1. charged[x] # None /\ ~Untouched(request[x])
    BY <1>1, <1>3, RequestsAssumption
       DEF SubscriptionBacked, CustomerOf, TypeOK, CustomersKnown, CustomerKnown
  <2>2. charged'[x] # None
    BY <2>1, ChargesStay
  <2>3. tsrSubscription[x].customer # None
            => Now(x, tsrSubscription[x].customer)
    <3> DEFINE y == tsrSubscription[x].customer
    <3>1. y # None => CustomerOf(y, request[x].email, request[x].country)
      BY <1>1, <1>3 DEF SubscriptionBacked
    <3>2. y # None => y \in Requests /\ ~Untouched(request[y])
      BY <3>1 DEF CustomerOf, CustomersKnown, CustomerKnown, TypeOK
    <3>3. QED
      BY <2>1, <3>1, <3>2, FormsStay DEF CustomerOf
  <2>4. QED
    BY <1>2, <1>3, <2>2, <2>3
<1>4. CASE tsrSubscription'[x] # tsrSubscription[x]
  <2>1. PICK step : Took(x, step)
    BY <1>4, RequestsChange, EndedRecord DEF OthersStay, Begun, OwnStay
  <2>2. /\ At(x, "tsr_subscription")
        /\ tsrSubscription'[x] = request'[x].held
    BY <1>4, <2>1 DEF Took
  <2>3. charged[x] # None
    BY <2>2, AtOrder DEF Ordered, StepsLeaveMarks, Marked
  <2>4. charged'[x] # None
    BY <2>3, ChargesStay
  <2>5. QED
    BY <1>1, <1>2, <2>2, <2>4
<1>5. QED
  BY <1>3, <1>4

LEMMA PaidStep ==
    ASSUME IInv, [Next]_vars
    PROVE  PaidAccessBacked'
<1> USE DEF IInv
<1>1. SUFFICES ASSUME NEW u \in Requests,
                      users'[u].email \in Emails, users'[u].access = "paid"
               PROVE  \E x \in Requests :
                         charged'[x] # None /\ request'[x].email = users'[u].email
  BY DEF PaidAccessBacked, PaidBy, Live
<1>2. \A e : PaidBy(e) # {} => \E x \in Requests :
                         charged'[x] # None /\ request'[x].email = e
  BY ChargesStay DEF PaidBy
<1>3. CASE users'[u] = users[u]
  BY <1>1, <1>2, <1>3 DEF PaidAccessBacked, Live
<1>4. ASSUME NEW r \in Requests, UserCreate(r), users'[u] # users[u]
      PROVE  FALSE
  <2>1. users'[u].access = None
    BY <1>4 DEF UserCreate, UpdateUser, TypeOK, NoUser
  <2>2. QED
    BY <1>1, <2>1, NoneAssumption
<1>5. ASSUME NEW x \in Requests, Unsubscribe(x), users'[u] # users[u]
      PROVE  FALSE
  <2> DEFINE new == [users[x] EXCEPT !.email = "deleted", !.role = "deleted"]
  <2>1. new.email = "deleted"
    BY DEF TypeOK, UserRow
  <2>2. users' = [users EXCEPT ![x] = new]
    BY <1>5 DEF Unsubscribe, TypeOK
  <2>3. users'[u].email = "deleted"
    BY <1>5, <2>1, <2>2 DEF TypeOK
  <2>4. QED
    BY <1>1, <2>3, EmailsAssumption
<1>6. ASSUME NEW r \in Requests, NEW x \in Requests, NEW row \in UserRow,
             RowChange(r, x, row), users'[u] # users[u]
      PROVE  PaidBy(users'[u].email) # {}
  <2>1. x = u /\ users'[u] = row /\ row.email = users[u].email
    BY <1>6 DEF RowChange, TypeOK
  <2>2. CASE row.access = users[u].access
    BY <1>1, <2>1, <2>2 DEF PaidAccessBacked, Live
  <2>3. CASE At(r, "access") /\ users[u].email = request[r].email
    <3>1. charged[r] # None
      BY <2>3, AtOrder DEF Ordered, StepsLeaveMarks, Marked
    <3>2. QED
      BY <2>1, <2>3, <3>1 DEF PaidBy
  <2>4. QED
    BY <1>1, <1>6, <2>1, <2>2, <2>3 DEF RowChange
<1>7. QED
  BY <1>2, <1>3, <1>4, <1>5, <1>6, UsersChange

\* A purchase that ends well has its invoice.
LEMMA EndedInvoiced ==
    ASSUME IInv, NEW r \in Requests, Ended(r), request'[r].status = "ok",
           request'[r].kind \in Purchase
    PROVE  /\ tsrSubscription[r] # None /\ tsrInvoice[r] # None
           /\ tsrInvoice[r].user = tsrSubscription[r].user
<1> USE DEF IInv
<1> DEFINE q == request[r]
           steps == Steps(q.kind, q.situation)
<1>1. q.status = "running" /\ q.kind \in Purchase /\ q.at > Len(steps)
  BY EndedRecord
<1>2. q.kind \in Kinds /\ q.situation \in Situations /\ q.at \in Nat
  BY DEF TypeOK, RequestState
<1>3. Complete(steps)
  BY <1>1, <1>2, StepOrder
<1>4. DoneBy(q, "tsr_invoice")
  BY <1>1, <1>2, <1>3 DEF Complete, DoneBy
<1>5. QED
  BY <1>1, <1>4 DEF StepsLeaveMarks, Marked

LEMMA RecordedStep ==
    ASSUME IInv, [Next]_vars
    PROVE  OkMeansRecorded'
<1> USE DEF IInv
<1> DEFINE Recorded(x) ==
              /\ charged'[x] # None
              /\ tsrSubscription'[x] # None
              /\ tsrInvoice'[x] # None
              /\ tsrInvoice'[x].user = tsrSubscription'[x].user
<1>1. SUFFICES ASSUME NEW x \in Requests, request'[x].status = "ok",
                      request'[x].kind \in Purchase
               PROVE  Recorded(x)
  BY RowsKnownStep DEF OkMeansRecorded
<1>2. CASE OwnStay(x) /\ request'[x] = request[x]
  BY <1>1, <1>2 DEF OkMeansRecorded, OwnStay
<1>3. CASE Ended(x)
  <2>1. OwnStay(x)
    BY <1>3, EndedRecord
  <2>2. /\ tsrSubscription[x] # None /\ tsrInvoice[x] # None
        /\ tsrInvoice[x].user = tsrSubscription[x].user
    BY <1>1, <1>3, EndedInvoiced
  <2>3. charged[x] # None
    BY <2>2, RequestsAssumption DEF SubscriptionBacked, CustomerOf, TypeOK
  <2>4. QED
    BY <2>1, <2>2, <2>3 DEF OwnStay
<1>4. CASE Begun(x)
  BY <1>1, <1>4, BegunRecord
<1>5. ASSUME NEW step, Took(x, step)
      PROVE  FALSE
  BY <1>1, <1>5 DEF Took, Passed, At
<1>6. QED
  BY <1>2, <1>3, <1>4, <1>5, RequestsChange DEF OthersStay, OwnStay

-----------------------------------------------------------------------------
(* The theorems.                                                            *)

LEMMA InitHolds == Init => IInv
<1>1. SUFFICES ASSUME Init PROVE IInv
  OBVIOUS
<1>2. TypeOK
  BY <1>1, InitType
<1>3. FormsKnown
  BY <1>1 DEF Init, FormsKnown, Untouched, IdleRequest
<1>4. CustomersKnown
  BY <1>1 DEF Init, CustomersKnown, CustomerKnown, IdleRequest
<1>5. RowsKnown
  BY <1>1 DEF Init, RowsKnown, IdleRequest, NoUser
<1>6. StepsLeaveMarks
  BY <1>1 DEF Init, StepsLeaveMarks, Marked, IdleRequest
<1>7. CustomersSegregated /\ SubscriptionBacked
  BY <1>1 DEF Init, CustomersSegregated, SubscriptionBacked, NoUser
<1>8. PaidAccessBacked
  BY <1>1, EmailsAssumption DEF Init, PaidAccessBacked, Live, NoUser
<1>9. OkMeansRecorded
  BY <1>1 DEF Init, OkMeansRecorded, IdleRequest
<1>10. QED
  BY <1>2, <1>3, <1>4, <1>5, <1>6, <1>7, <1>8, <1>9 DEF IInv

LEMMA Inductive ==
    ASSUME IInv, [Next]_vars
    PROVE  IInv'
<1>1. TypeOK'
  BY TypeStep
<1>2. FormsKnown'
  BY FormsKnownStep
<1>3. CustomersKnown'
  BY CustomerKnownStep DEF CustomersKnown
<1>4. RowsKnown'
  BY RowsKnownStep DEF RowsKnown
<1>5. StepsLeaveMarks'
  BY MarksStep DEF StepsLeaveMarks
<1>6. QED
  BY <1>1, <1>2, <1>3, <1>4, <1>5, SegregatedStep, BackedStep, PaidStep,
     RecordedStep DEF IInv

\* IInv holds in every reachable state, of any number of web requests handled
\* by any number of workers.
THEOREM Invariance == Spec => []IInv
<1>1. Init => IInv
  BY InitHolds
<1>2. IInv /\ [Next]_vars => IInv'
  BY Inductive
<1>3. QED
  BY <1>1, <1>2, PTL DEF Spec

\* The tables, the Stripe objects and the requests of SubscriptionsController
\* keep their types: no nil is ever written where a row is expected.
THEOREM TypeCorrect == Spec => []TypeOK
<1>1. IInv => TypeOK
  BY DEF IInv
<1>2. QED
  BY <1>1, Invariance, PTL

\* However the three handlers interleave and fail, a user's row never mixes up
\* the Spanish and the other Stripe account, nor two people's customers.
THEOREM Segregated == Spec => []CustomersSegregated
<1>1. IInv => CustomersSegregated
  BY DEF IInv
<1>2. QED
  BY <1>1, Invariance, PTL

\* create_tsr_subscription_invoice and set_one_time_details never save a row
\* of table subscriptions for which nobody was charged.
THEOREM Backed == Spec => []SubscriptionBacked
<1>1. IInv => SubscriptionBacked
  BY DEF IInv
<1>2. QED
  BY <1>1, Invariance, PTL

\* No order of forms, failures and unsubscribing gives a bought period to a
\* user whose e-mail no form was charged for.
THEOREM AccessBacked == Spec => []PaidAccessBacked
<1>1. IInv => PaidAccessBacked
  BY DEF IInv
<1>2. QED
  BY <1>1, Invariance, PTL

\* The answer "successful" of new_subscription and new_prepayment is true of
\* the money and of both rows, for ever after.
THEOREM Recorded == Spec => []OkMeansRecorded
<1>1. IInv => OkMeansRecorded
  BY DEF IInv
<1>2. QED
  BY <1>1, Invariance, PTL

-----------------------------------------------------------------------------
(***************************************************************************)
(* Purchases implements PurchaseLedger, for any values of the constants.   *)
(*                                                                         *)
(* A step changes the line of one request or the set of e-mails that are   *)
(* entitled, never both; which line it changes, and how, follows from      *)
(* RequestsChange, and whom it entitles from UsersChange.  That the        *)
(* ledger's guards hold there is what IInv says.                           *)
(***************************************************************************)
(* The lines.                                                              *)

\* What the ledger does with one line, by the line before and after.
Moves(old, new) ==
    \/ new = old
    \/ \E e \in Emails : /\ old = Ledger!Line("none", None, {})
                         /\ new = Ledger!Line("open", e, {})
    \/ \E e, entries :
          /\ old = Ledger!Line("open", e, entries)
          /\ \/ \E entry \in Ledger!Entries :
                   /\ entry \notin entries
                   /\ Ledger!Needs(entry) \subseteq entries
                   /\ new = Ledger!Line("open", e, entries \cup {entry})
             \/ entries = Ledger!Entries /\ new = Ledger!Line("settled", e, entries)
             \/ new = Ledger!Line("dropped", e, entries)

LEMMA BegunMoves ==
    ASSUME IInv, NEW r \in Requests, Begun(r)
    PROVE  Moves(LineOf(r), LineOf(r)')
<1> USE DEF IInv
<1>1. request[r].status = "idle"
  BY BegunRecord DEF IdleRequest
<1>2. charged'[r] = None /\ tsrSubscription'[r] = None /\ tsrInvoice'[r] = None
  BY <1>1 DEF Begun, OwnStay, CustomersKnown, CustomerKnown, Untouched
<1>3. LineOf(r) = Ledger!Line("none", None, {})
  BY <1>1 DEF LineOf, Ledger!Line
<1>4. CASE request'[r].kind = "reader" \/ request'[r].status = "refused"
  BY <1>3, <1>4 DEF LineOf, Ledger!Line, Moves
<1>5. CASE request'[r].kind # "reader" /\ request'[r].status = "running"
  <2>1. request'[r].email \in Emails
    BY <1>5, BegunRecord DEF Begun, IdleRequest
  <2>2. EntriesOf(r)' = {}
    BY <1>2 DEF EntriesOf
  <2>3. LineOf(r)' = Ledger!Line("open", request'[r].email, {})
    BY <1>5, <2>2 DEF LineOf, Ledger!Line
  <2>4. QED
    BY <1>3, <2>1, <2>3 DEF Moves
<1>6. QED
  BY <1>4, <1>5, BegunRecord

LEMMA EndedMoves ==
    ASSUME IInv, NEW r \in Requests, Ended(r)
    PROVE  Moves(LineOf(r), LineOf(r)')
<1> USE DEF IInv
<1>1. /\ request[r].status = "running"
      /\ request'[r].status \in {"ok", "failed"}
      /\ request'[r].kind = request[r].kind
      /\ request'[r].email = request[r].email
  BY EndedRecord
<1>2. EntriesOf(r)' = EntriesOf(r)
  BY EndedRecord DEF OwnStay, EntriesOf
<1>3. CASE request[r].kind = "reader"
  BY <1>1, <1>3 DEF LineOf, Moves
<1>4. CASE request[r].kind # "reader"
  <2>1. LineOf(r) = Ledger!Line("open", request[r].email, EntriesOf(r))
    BY <1>1, <1>4 DEF LineOf, Ledger!Line
  <2>2. CASE request'[r].status = "failed"
    <3>1. LineOf(r)' = Ledger!Line("dropped", request[r].email, EntriesOf(r))
      BY <1>1, <1>2, <1>4, <2>2 DEF LineOf, Ledger!Line
    <3>2. QED
      BY <2>1, <3>1 DEF Moves
  <2>3. CASE request'[r].status = "ok"
    <3>1. request'[r].kind \in Purchase
      BY <1>1, <1>4 DEF TypeOK, RequestState, Kinds, Purchase
    <3>2. tsrSubscription[r] # None /\ tsrInvoice[r] # None
      BY <2>3, <3>1, EndedInvoiced
    <3>3. charged[r] # None
      BY <3>2, RequestsAssumption DEF SubscriptionBacked, CustomerOf, TypeOK
    <3>4. EntriesOf(r) = Ledger!Entries
      BY <3>2, <3>3 DEF EntriesOf, Ledger!Entries
    <3>5. LineOf(r)' = Ledger!Line("settled", request[r].email, EntriesOf(r))
      BY <1>1, <1>2, <1>4, <2>3 DEF LineOf, Ledger!Line
    <3>6. QED
      BY <2>1, <3>4, <3>5 DEF Moves
  <2>4. QED
    BY <1>1, <2>2, <2>3
<1>5. QED
  BY <1>3, <1>4

LEMMA TookMoves ==
    ASSUME IInv, NEW r \in Requests, NEW step, Took(r, step)
    PROVE  Moves(LineOf(r), LineOf(r)')
<1> USE DEF IInv
<1>1. /\ request[r].status = "running" /\ request'[r].status = "running"
      /\ request'[r].kind = request[r].kind
      /\ request'[r].email = request[r].email
  BY DEF Took, Passed, At
<1>2. CASE request[r].kind = "reader"
  BY <1>1, <1>2 DEF LineOf, Moves
<1>3. CASE request[r].kind # "reader"
  <2>1. /\ LineOf(r) = Ledger!Line("open", request[r].email, EntriesOf(r))
        /\ LineOf(r)' = Ledger!Line("open", request[r].email, EntriesOf(r)')
    BY <1>1, <1>3 DEF LineOf, Ledger!Line
  <2>2. ASSUME NEW entry \in Ledger!Entries,
               Ledger!Needs(entry) \subseteq EntriesOf(r),
               EntriesOf(r)' = EntriesOf(r) \cup {entry}
        PROVE  Moves(LineOf(r), LineOf(r)')
    <3>1. CASE entry \in EntriesOf(r)
      <4>1. EntriesOf(r)' = EntriesOf(r)
        BY <2>2, <3>1
      <4>2. QED
        BY <2>1, <4>1 DEF Moves
    <3>2. CASE entry \notin EntriesOf(r)
      BY <2>1, <2>2, <3>2 DEF Moves
    <3>3. QED
      BY <3>1, <3>2
  <2>3. /\ DoneBy(request[r], "charge") => charged[r] # None
        /\ DoneBy(request[r], "tsr_subscription") => tsrSubscription[r] # None
        /\ tsrSubscription[r] # None => charged[r] # None
    BY <1>1, RequestsAssumption
       DEF StepsLeaveMarks, Marked, SubscriptionBacked, CustomerOf, TypeOK
  <2>4. CASE step = "charge"
    <3>1. charged'[r] # None
      BY <2>4, ChargeHasCustomer DEF Took
    <3>2. EntriesOf(r)' = EntriesOf(r) \cup {"charge"}
      BY <2>4, <3>1 DEF Took, EntriesOf
    <3>3. QED
      BY <2>2, <3>2 DEF Ledger!Entries, Ledger!Needs
  <2>5. CASE step = "tsr_subscription"
    <3>1. charged[r] # None
      BY <2>3, <2>5, AtOrder DEF Took, Ordered
    <3>2. tsrSubscription'[r] # None
      BY <2>5, TookSubscription
    <3>3. EntriesOf(r)' = EntriesOf(r) \cup {"subscription"}
      BY <2>5, <3>2 DEF Took, EntriesOf
    <3>4. Ledger!Needs("subscription") \subseteq EntriesOf(r)
      BY <3>1 DEF EntriesOf, Ledger!Needs
    <3>5. QED
      BY <2>2, <3>3, <3>4 DEF Ledger!Entries
  <2>6. CASE step = "tsr_invoice"
    <3>1. tsrSubscription[r] # None /\ charged[r] # None
      BY <2>3, <2>6, AtOrder DEF Took, Ordered
    <3>2. tsrInvoice'[r] # None
      BY <2>6, RowsAssumption DEF Took
    <3>3. EntriesOf(r)' = EntriesOf(r) \cup {"invoice"}
      BY <2>6, <3>2 DEF Took, EntriesOf
    <3>4. Ledger!Needs("invoice") \subseteq EntriesOf(r)
      BY <3>1 DEF EntriesOf, Ledger!Needs
    <3>5. QED
      BY <2>2, <3>3, <3>4 DEF Ledger!Entries
  <2>7. CASE step \notin {"charge", "tsr_subscription", "tsr_invoice"}
    <3>1. EntriesOf(r)' = EntriesOf(r)
      BY <2>7 DEF Took, EntriesOf
    <3>2. QED
      BY <2>1, <3>1 DEF Moves
  <2>8. QED
    BY <2>4, <2>5, <2>6, <2>7
<1>4. QED
  BY <1>2, <1>3

\* One line moves, at most.
LEMMA LinesMove ==
    ASSUME IInv, [Next]_vars
    PROVE  \/ \A x \in Requests : LineOf(x)' = LineOf(x)
           \/ \E r \in Requests :
                 /\ Moves(LineOf(r), LineOf(r)')
                 /\ \A x \in Requests \ {r} : LineOf(x)' = LineOf(x)
<1>1. CASE UNCHANGED <<request, stripeCustomers, charged, tsrSubscription,
                       tsrInvoice>>
  BY <1>1 DEF LineOf, EntriesOf
<1>2. ASSUME NEW r \in Requests, OthersStay(r)
      PROVE  \A x \in Requests \ {r} : LineOf(x)' = LineOf(x)
  <2>1. TAKE x \in Requests \ {r}
  <2>2. request'[x] = request[x]
    BY <1>2 DEF OthersStay
  <2>3. EntriesOf(x)' = EntriesOf(x)
    BY <1>2 DEF OthersStay, EntriesOf
  <2>4. QED
    BY <2>2, <2>3 DEF LineOf
<1>3. ASSUME NEW r \in Requests,
             Begun(r) \/ Ended(r) \/ \E step : Took(r, step)
      PROVE  Moves(LineOf(r), LineOf(r)')
  BY <1>3, BegunMoves, EndedMoves, TookMoves
<1>4. QED
  BY <1>1, <1>2, <1>3, RequestsChange

-----------------------------------------------------------------------------
(* The entitled e-mails.                                                   *)

Entitled(e) == \E u \in FindByEmail(e) : users[u].access = "paid"

\* A step entitles nobody but the buyer of a request that is about to give
\* access, and takes it from one e-mail at most.
LEMMA EntitledMoves ==
    ASSUME IInv, [Next]_vars
    PROVE  \/ \A e \in Emails : Entitled(e)' <=> Entitled(e)
           \/ \E e \in Emails :
                 /\ \A x \in Emails \ {e} : Entitled(x)' <=> Entitled(x)
                 /\ Entitled(e)' /\ ~Entitled(e) =>
                       \E r \in Requests :
                          At(r, "access") /\ request[r].email = e
<1> USE DEF IInv
<1>1. CASE users' = users
  BY <1>1 DEF Entitled, FindByEmail
<1>2. ASSUME NEW r \in Requests, UserCreate(r)
      PROVE  \A e \in Emails : Entitled(e)' <=> Entitled(e)
  <2>1. ~DoneBy(request[r], "user_create") /\ request[r].status = "running"
    BY <1>2, AtOrder DEF UserCreate, Ordered
  <2>2. users[r].email = None
    BY <2>1 DEF RowsKnown
  <2>3. /\ users'[r].access = None
        /\ \A u \in Requests \ {r} : users'[u] = users[u]
    BY <1>2 DEF UserCreate, UpdateUser, TypeOK, NoUser
  <2>4. QED
    BY <2>2, <2>3, NoneAssumption, EmailsAssumption DEF Entitled, FindByEmail
<1>3. ASSUME NEW u \in Requests, NEW row, users' = [users EXCEPT ![u] = row],
             row.email \in {users[u].email, "deleted"},
             users[u].email \in Emails
      PROVE  \A x \in Emails \ {users[u].email} : Entitled(x)' <=> Entitled(x)
  <2>1. /\ users'[u] = row
        /\ \A v \in Requests \ {u} : users'[v] = users[v]
    BY <1>3 DEF TypeOK
  <2>2. QED
    BY <1>3, <2>1, EmailsAssumption DEF Entitled, FindByEmail
<1>4. ASSUME NEW u \in Requests, Unsubscribe(u)
      PROVE  \E e \in Emails :
                /\ \A x \in Emails \ {e} : Entitled(x)' <=> Entitled(x)
                /\ Entitled(e)' => Entitled(e)
  <2> DEFINE new == [users[u] EXCEPT !.email = "deleted", !.role = "deleted"]
  <2>1. new.email = "deleted" /\ users[u].email \in Emails
    BY <1>4 DEF Unsubscribe, TypeOK, UserRow
  <2>2. users' = [users EXCEPT ![u] = new]
    BY <1>4 DEF Unsubscribe, TypeOK
  <2> HIDE DEF new
  <2>3. users'[u] = new /\ \A v \in Requests \ {u} : users'[v] = users[v]
    BY <2>2 DEF TypeOK
  <2>4. \A e \in Emails : Entitled(e)' => Entitled(e)
    BY <2>1, <2>3, EmailsAssumption DEF Entitled, FindByEmail
  <2>5. QED
    BY <1>3, <2>1, <2>2, <2>4
<1>5. ASSUME NEW r \in Requests, NEW u \in Requests, NEW row \in UserRow,
             RowChange(r, u, row)
      PROVE  \/ \A e \in Emails : Entitled(e)' <=> Entitled(e)
             \/ \E e \in Emails :
                   /\ \A x \in Emails \ {e} : Entitled(x)' <=> Entitled(x)
                   /\ Entitled(e)' /\ ~Entitled(e) =>
                         At(r, "access") /\ request[r].email = e
  <2>1. /\ users'[u] = row /\ row.email = users[u].email
        /\ \A v \in Requests \ {u} : users'[v] = users[v]
        /\ users' = [users EXCEPT ![u] = row]
    BY <1>5 DEF RowChange, TypeOK
  <2>2. CASE users[u].email \notin Emails
    BY <2>1, <2>2 DEF Entitled, FindByEmail
  <2>3. CASE users[u].email \in Emails
    <3>1. ASSUME Entitled(users[u].email)', ~Entitled(users[u].email)
          PROVE  At(r, "access") /\ request[r].email = users[u].email
      <4>1. row.access = "paid" /\ users[u].access # "paid"
        BY <2>1, <3>1 DEF Entitled, FindByEmail
      <4>2. QED
        BY <1>5, <4>1 DEF RowChange
    <3>2. QED
      BY <1>3, <2>1, <2>3, <3>1
  <2>4. QED
    BY <2>2, <2>3
<1>6. QED
  BY <1>1, <1>2, <1>4, <1>5, UsersChange

\* A step that touches a user's row touches no line.
LEMMA UsersOrLines ==
    ASSUME IInv, [Next]_vars
    PROVE  users' = users \/ \A x \in Requests : LineOf(x)' = LineOf(x)
<1> USE DEF IInv
<1>1. CASE UNCHANGED vars
  BY <1>1 DEF vars, tsrVars
<1>2. ASSUME NEW r \in Requests, Submit(r) \/ Abandon(r)
      PROVE  users' = users
  BY <1>2 DEF Submit, Abandon, tsrVars
<1>3. ASSUME NEW r \in Requests, Unsubscribe(r)
      PROVE  \A x \in Requests : LineOf(x)' = LineOf(x)
  BY <1>3 DEF Unsubscribe, LineOf, EntriesOf, stripeVars
<1>4. ASSUME NEW r \in Requests, NEW u, NEW row, UpdateUser(r, u, row)
      PROVE  \A x \in Requests : LineOf(x)' = LineOf(x)
  <2>1. \A x \in Requests : /\ request'[x].status = request[x].status
                            /\ request'[x].kind = request[x].kind
                            /\ request'[x].email = request[x].email
    BY <1>4 DEF UpdateUser, Advance, TypeOK, RequestState
  <2>2. QED
    BY <1>4, <2>1 DEF UpdateUser, LineOf, EntriesOf, stripeVars
<1>5. ASSUME NEW r \in Requests, Access(r)
      PROVE  \A x \in Requests : LineOf(x)' = LineOf(x)
  <2>1. \A x \in Requests : /\ request'[x].status = request[x].status
                            /\ request'[x].kind = request[x].kind
                            /\ request'[x].email = request[x].email
    BY <1>5 DEF Access, TypeOK, RequestState
  <2>2. QED
    BY <1>5, <2>1 DEF Access, LineOf, EntriesOf, stripeVars
<1>6. ASSUME NEW r \in Requests, Progress(r)
      PROVE  users' = users \/ \A x \in Requests : LineOf(x)' = LineOf(x)
  <2>1. CASE \/ NewStripeCustomer(r) \/ StripeCharge(r) \/ UserExists(r)
             \/ UpdateCardRescued(r) \/ KeepAccount(r) \/ CreateAccount(r)
             \/ TsrSubscription(r) \/ TsrInvoice(r) \/ Mail(r)
             \/ NilUser(r) \/ Answer(r)
    BY <2>1 DEF NewStripeCustomer, StripeCharge, UserExists, UpdateCardRescued,
                KeepAccount, CreateAccount, TsrSubscription, TsrInvoice, Mail,
                NilUser, Answer, tsrVars
  <2>2. CASE \/ UserCreate(r) \/ Roles(r) \/ Stories(r) \/ CustomerId(r)
             \/ Card(r) \/ UpdateCard(r) \/ LinkAccount(r)
    BY <1>4, <2>2 DEF UserCreate, Roles, Stories, CustomerId, Card, UpdateCard,
                      LinkAccount
  <2>3. QED
    BY <1>5, <1>6, <2>1, <2>2 DEF Progress
<1>7. QED
  BY <1>1, <1>2, <1>3, <1>6 DEF Next

-----------------------------------------------------------------------------
(* The ledger's actions.                                                   *)

theLines == [x \in Requests |-> LineOf(x)]

LEMMA LineMapped ==
    ASSUME IInv, NEW r \in Requests, Moves(LineOf(r), LineOf(r)'),
           \A x \in Requests \ {r} : LineOf(x)' = LineOf(x),
           \A e \in Emails : Entitled(e)' <=> Entitled(e)
    PROVE  [Ledger!LedgerNext]_Ledger!ledgerVars
<1>1. UNCHANGED {e \in Emails : Entitled(e)}
  OBVIOUS
<1>2. CASE LineOf(r)' = LineOf(r)
  BY <1>1, <1>2 DEF Ledger!ledgerVars, Entitled
<1>3. ASSUME NEW state, NEW email, NEW entries,
             LineOf(r)' = Ledger!Line(state, email, entries)
      PROVE  Ledger!Write(r, state, email, entries)
  BY <1>1, <1>3 DEF Ledger!Write, Entitled
<1>4. ASSUME NEW e \in Emails, LineOf(r) = Ledger!Line("none", None, {}),
             LineOf(r)' = Ledger!Line("open", e, {})
      PROVE  Ledger!Begin(r, e)
  BY <1>3, <1>4 DEF Ledger!Begin, Ledger!Blank
<1>5. ASSUME NEW e, NEW entries, LineOf(r) = Ledger!Line("open", e, entries)
      PROVE  /\ Ledger!Open(r)
             /\ LineOf(r).email = e /\ LineOf(r).entries = entries
  BY <1>5 DEF Ledger!Open, Ledger!Line
<1>6. ASSUME NEW e, NEW entries, NEW entry \in Ledger!Entries,
             LineOf(r) = Ledger!Line("open", e, entries),
             entry \notin entries, Ledger!Needs(entry) \subseteq entries,
             LineOf(r)' = Ledger!Line("open", e, entries \cup {entry})
      PROVE  Ledger!Enter(r, entry)
  BY <1>3, <1>5, <1>6 DEF Ledger!Enter
<1>7. ASSUME NEW e, NEW entries, LineOf(r) = Ledger!Line("open", e, entries),
             entries = Ledger!Entries,
             LineOf(r)' = Ledger!Line("settled", e, entries)
      PROVE  Ledger!Settle(r)
  BY <1>3, <1>5, <1>7 DEF Ledger!Settle
<1>8. ASSUME NEW e, NEW entries, LineOf(r) = Ledger!Line("open", e, entries),
             LineOf(r)' = Ledger!Line("dropped", e, entries)
      PROVE  Ledger!Drop(r)
  BY <1>3, <1>5, <1>8 DEF Ledger!Drop
<1>9. QED
  BY <1>2, <1>4, <1>6, <1>7, <1>8 DEF Moves, Ledger!LedgerNext

\* A request that is about to give access has taken money.
LEMMA AccessPaid ==
    ASSUME IInv, NEW r \in Requests, At(r, "access")
    PROVE  /\ LineOf(r).state = "open"
           /\ LineOf(r).email = request[r].email
           /\ "charge" \in LineOf(r).entries
<1> USE DEF IInv
<1>1. charged[r] # None /\ request[r].status = "running"
  BY AtOrder DEF Ordered, StepsLeaveMarks, Marked
<1>2. request[r].kind # "reader"
  BY DEF At, Steps, ReaderSteps
<1>3. QED
  BY <1>1, <1>2 DEF LineOf, EntriesOf

LEMMA EntitledMapped ==
    ASSUME IInv, \A x \in Requests : LineOf(x)' = LineOf(x), NEW e \in Emails,
           \A x \in Emails \ {e} : Entitled(x)' <=> Entitled(x),
           Entitled(e)' /\ ~Entitled(e) =>
               \E r \in Requests : At(r, "access") /\ request[r].email = e
    PROVE  [Ledger!LedgerNext]_Ledger!ledgerVars
<1> DEFINE entitled == {x \in Emails : Entitled(x)}
           line == [x \in Requests |-> LineOf(x)]
<1>1. line' = line
  OBVIOUS
<1>2. CASE ~Entitled(e)'
  <2>1. entitled' = entitled \ {e}
    BY <1>2
  <2>2. Ledger!Leave(e)
    BY <1>1, <2>1 DEF Ledger!Leave, Entitled
  <2>3. QED
    BY <2>2 DEF Ledger!LedgerNext
<1>3. CASE Entitled(e)' /\ ~Entitled(e)
  <2>1. entitled' = entitled \cup {e}
    BY <1>3
  <2>2. Ledger!Entitle(e)
    BY <1>1, <1>3, <2>1, AccessPaid DEF Ledger!Entitle, Ledger!Open, Entitled
  <2>3. QED
    BY <2>2 DEF Ledger!LedgerNext
<1>4. CASE Entitled(e)' /\ Entitled(e)
  <2>1. entitled' = entitled
    BY <1>4
  <2>2. QED
    BY <1>1, <2>1 DEF Ledger!ledgerVars, Entitled
<1>5. QED
  BY <1>2, <1>3, <1>4

-----------------------------------------------------------------------------
(* The theorem.                                                            *)

LEMMA InitMapped == Init => Ledger!LedgerInit
<1>1. SUFFICES ASSUME Init PROVE Ledger!LedgerInit
  OBVIOUS
<1>2. \A r \in Requests : LineOf(r) = Ledger!Blank
  BY <1>1 DEF Init, IdleRequest, LineOf, Ledger!Blank, Ledger!Line
<1>3. \A e \in Emails : FindByEmail(e) = {}
  BY <1>1, EmailsAssumption DEF Init, NoUser, FindByEmail
<1>4. QED
  BY <1>2, <1>3 DEF Ledger!LedgerInit

LEMMA StepMapped ==
    ASSUME IInv, [Next]_vars
    PROVE  [Ledger!LedgerNext]_Ledger!ledgerVars
<1>1. CASE \A x \in Requests : LineOf(x)' = LineOf(x)
  <2>1. CASE \A e \in Emails : Entitled(e)' <=> Entitled(e)
    <3>1. UNCHANGED {e \in Emails : Entitled(e)}
      BY <2>1
    <3>2. UNCHANGED [x \in Requests |-> LineOf(x)]
      BY <1>1
    <3>3. QED
      BY <3>1, <3>2 DEF Ledger!ledgerVars, Entitled
  <2>2. QED
    BY <1>1, <2>1, EntitledMoves, EntitledMapped
<1>2. CASE ~ \A x \in Requests : LineOf(x)' = LineOf(x)
  <2>1. \A e \in Emails : Entitled(e)' <=> Entitled(e)
    BY <1>2, UsersOrLines DEF Entitled, FindByEmail
  <2>2. QED
    BY <1>2, <2>1, LinesMove, LineMapped
<1>3. QED
  BY <1>1, <1>2

\* Whatever the web requests do together, and wherever they die, it is a
\* behaviour of the ledger: no money twice for a form, no row without money, no
\* "successful" without both rows, no access for an e-mail that was not charged.
THEOREM Refines == Spec => ImplementsLedger
<1>1. Init => Ledger!LedgerInit
  BY InitMapped
<1>2. IInv /\ [Next]_vars => [Ledger!LedgerNext]_Ledger!ledgerVars
  BY StepMapped
<1>3. QED
  BY <1>1, <1>2, Invariance, PTL
     DEF Spec, ImplementsLedger, Ledger!LedgerSpec

-----------------------------------------------------------------------------
(***************************************************************************)
(* One request at a time (Workers = 1).                                    *)
(*                                                                         *)
(* With more workers the properties of this part are false.  With one,     *)
(* whoever comes next meets the tables as the last request left them, half *)
(* done if it failed: an e-mail finds one row, and SerialInv says what the *)
(* request at work has found in that row and has put into it so far.       *)
(***************************************************************************)
(* What the serial properties need of the order of a handler's steps ...   *)

SerialOrdered(kind, situation, steps) ==
    /\ situation \in {"new_user", "no_customer"} =>
          /\ After("tsr_subscription", "customer_id", steps)
          /\ kind = "prepayment" => After("access", "customer_id", steps)
    /\ kind = "reader" \/ situation \in {"no_card", "with_card"} =>
          \A i \in DOMAIN steps : steps[i] \notin {"customer", "customer_id"}
    /\ kind = "reader" =>
          /\ After("roles", "user_create", steps)
          /\ NotAfter("roles", "roles", steps)
          /\ \A i \in DOMAIN steps : steps[i] # "access"
    /\ kind = "prepayment" => NotAfter("account", "access", steps)
    /\ \A a \in {"customer_id", "charge", "access"} :
          NotAfter("customer", a, steps)
    /\ \A a \in {"stories", "customer_id", "card", "account", "access"} :
          NotAfter("user_create", a, steps)
    /\ NotAfter("customer_id", "customer_id", steps)
    /\ NotAfter("charge", "tsr_subscription", steps)
    /\ NotAfter("account", "account", steps)
    /\ After("mail", "user_create", steps) /\ After("mail", "stories", steps)
    /\ kind # "reader" =>
          \A a \in {"access", "card", "account", "tsr_invoice"} :
              After("mail", a, steps)

\* A handler that makes a customer records it before it is through.
SerialComplete(situation, steps) ==
    /\ DOMAIN steps = 1..Len(steps) /\ Len(steps) \in Nat
    /\ situation \in {"new_user", "no_customer"} =>
          \E j \in 1..Len(steps) : steps[j] = "customer_id"
    /\ situation = "new_user" =>
          \E j \in 1..Len(steps) : steps[j] = "user_create"

LEMMA SubscriptionSerial ==
    ASSUME NEW situation \in Situations
    PROVE  /\ SerialOrdered("subscription", situation,
                            SubscriptionSteps[situation])
           /\ SerialComplete(situation, SubscriptionSteps[situation])
<1>1. CASE situation = "new_user"
  BY <1>1 DEF SubscriptionSteps, SerialOrdered, SerialComplete, After, NotAfter
<1>2. CASE situation = "no_customer"
  BY <1>2 DEF SubscriptionSteps, SerialOrdered, SerialComplete, After, NotAfter
<1>3. CASE situation = "no_card"
  BY <1>3 DEF SubscriptionSteps, SerialOrdered, SerialComplete, After, NotAfter
<1>4. CASE situation = "with_card"
  BY <1>4 DEF SubscriptionSteps, SerialOrdered, SerialComplete, After, NotAfter
<1>5. QED
  BY <1>1, <1>2, <1>3, <1>4 DEF Situations

LEMMA PrepaymentSerial ==
    ASSUME NEW situation \in Situations
    PROVE  /\ SerialOrdered("prepayment", situation,
                            PrepaymentSteps[situation])
           /\ SerialComplete(situation, PrepaymentSteps[situation])
<1>1. CASE situation = "new_user"
  BY <1>1 DEF PrepaymentSteps, SerialOrdered, SerialComplete, After, NotAfter
<1>2. CASE situation = "no_customer"
  BY <1>2 DEF PrepaymentSteps, SerialOrdered, SerialComplete, After, NotAfter
<1>3. CASE situation = "no_card"
  BY <1>3 DEF PrepaymentSteps, SerialOrdered, SerialComplete, After, NotAfter
<1>4. CASE situation = "with_card"
  BY <1>4 DEF PrepaymentSteps, SerialOrdered, SerialComplete, After, NotAfter
<1>5. QED
  BY <1>1, <1>2, <1>3, <1>4 DEF Situations

LEMMA ReaderSerial ==
    ASSUME NEW situation
    PROVE  /\ SerialOrdered("reader", situation, ReaderSteps)
           /\ DOMAIN ReaderSteps = 1..Len(ReaderSteps) /\ Len(ReaderSteps) \in Nat
<1>1. SerialOrdered("reader", situation, ReaderSteps)
  BY DEF ReaderSteps, SerialOrdered, After, NotAfter
<1>2. DOMAIN ReaderSteps = 1..Len(ReaderSteps) /\ Len(ReaderSteps) \in Nat
  BY DEF ReaderSteps
<1>3. QED
  BY <1>1, <1>2

LEMMA SerialOrder ==
    ASSUME NEW kind \in Kinds, NEW situation \in Situations
    PROVE  LET steps == Steps(kind, situation) IN
           /\ SerialOrdered(kind, situation, steps)
           /\ DOMAIN steps = 1..Len(steps) /\ Len(steps) \in Nat
           /\ kind \in Purchase => SerialComplete(situation, steps)
<1>1. CASE kind = "subscription"
  BY <1>1, SubscriptionSerial DEF Steps, SerialComplete
<1>2. CASE kind = "prepayment"
  BY <1>2, PrepaymentSerial DEF Steps, SerialComplete
<1>3. CASE kind = "reader"
  BY <1>3, ReaderSerial DEF Steps, Purchase
<1>4. QED
  BY <1>1, <1>2, <1>3 DEF Kinds

-----------------------------------------------------------------------------
(* ... and of the request that runs and the rows that it finds.            *)

\* The rows that a request finds.
Found(r) == FindByEmail(request[r].email)

Alone == \A r, s \in Running : r = s

\* An e-mail finds one row, and what was never a user's row is blank.
LiveOnce ==
    \A u, v \in Requests :
        Live(u) /\ users[v].email = users[u].email => v = u

BlankRows == \A u \in Requests : users[u].email = None => users[u] = NoUser

\* A request that has done nothing has no account and no mail.
UntouchedKnown ==
    \A r \in Requests :
        Untouched(request[r]) => r \notin accounts /\ mails[r] = None

\* The row has the customer that the request holds, or none yet.
RowHasCustomer(r) ==
    LET q == request[r] IN
    /\ q.situation \in {"no_card", "with_card"} \/ DoneBy(q, "customer_id")
          => \A u \in Found(r) : users[u].cust[q.country] = q.customer
    /\ q.kind \in Purchase /\ q.situation \in {"new_user", "no_customer"}
          /\ ~DoneBy(q, "customer_id")
          => \A u \in Found(r) : users[u].cust[q.country] = None
    /\ q.situation # "new_user" \/ DoneBy(q, "user_create") => Found(r) # {}

\* ... and that customer is the request's own if it has made one, is the one
\* that pays, and is the one it has read.
CustomerPays(r) ==
    LET q == request[r] IN
    /\ r \in stripeCustomers =>
          /\ q.customer = r /\ q.kind \in Purchase
          /\ q.situation \in {"new_user", "no_customer"}
    /\ DoneBy(q, "charge") => charged[r] = q.customer
    /\ tsrSubscription[r] # None => DoneBy(q, "tsr_subscription")
    /\ q.kind = "prepayment" /\ DoneBy(q, "access")
          => q.held.customer = q.customer

\* What the steps behind a request have set up is still there.
SetUpSoFar(r) ==
    LET q == request[r] IN
    \A u \in Found(r) :
        /\ DoneBy(q, "stories") => users[u].stories
        /\ DoneBy(q, "card") => users[u].card[q.country] # None
        /\ DoneBy(q, "account") => users[u].account # None
        /\ q.kind \in Purchase /\ DoneBy(q, "access")
              => users[u].access = "paid"
        /\ q.kind = "reader" /\ DoneBy(q, "user_create") /\ ~DoneBy(q, "roles")
              => users[u].access = None

\* An account is linked, or in the hand of the request that will link it.
AccountInHand(r) ==
    LET q == request[r] IN
    r \in accounts =>
        \/ DoneBy(q, "account") /\ \E u \in Requests : users[u].account = r
        \/ /\ At(r, "account") /\ ~DoneBy(q, "account")
           /\ q.held # None
           /\ q.held.user \in Found(r)
           /\ users[q.held.user].account = None

RunningKnown ==
    \A r \in Running :
        /\ RowHasCustomer(r)
        /\ CustomerPays(r)
        /\ SetUpSoFar(r)
        /\ AccountInHand(r)

SerialInv ==
    /\ Alone
    /\ LiveOnce
    /\ BlankRows
    /\ UntouchedKnown
    /\ RunningKnown
    /\ RowNamesPayer
    /\ OrphansOnlyByFailure
    /\ MailedUsersAreSetUp

-----------------------------------------------------------------------------
(* What a step does when no other request runs.                            *)

LEMMA RunningAlone ==
    ASSUME SerialInv, Workers = 1, Cardinality(Running) < Workers
    PROVE  Running = {}
<1>1. SUFFICES ASSUME NEW r \in Running
               PROVE  FALSE
  OBVIOUS
<1>2. Running = {r}
  BY DEF SerialInv, Alone
<1>3. Cardinality({r}) = 1
  BY FS_Singleton
<1>4. QED
  BY <1>2, <1>3

\* The row that a helper writes.
Written(r, step, old, row) ==
    LET q == request[r] IN
    /\ row.email = old.email
    /\ row.stories = IF step = "stories" THEN TRUE ELSE old.stories
    /\ row.cust = IF step = "customer_id"
                  THEN [old.cust EXCEPT ![q.country] = q.customer]
                  ELSE old.cust
    /\ row.card = IF step \in {"card", "update_card"}
                  THEN [old.card EXCEPT ![q.country] = r] ELSE old.card
    /\ row.access = CASE step = "access" -> "paid"
                      [] step = "roles" /\ q.kind = "reader" -> "trial"
                      [] OTHER -> old.access
    /\ row.account = IF step = "account" THEN r ELSE old.account

\* What a step does to the table of users ...
Creates(r) ==
    /\ Found(r) = {}
    /\ users' = [users EXCEPT ![r] = [NoUser EXCEPT !.email = request[r].email]]

Rewrites(r, step) ==
    \E u \in Found(r), row \in UserRow :
        /\ Written(r, step, users[u], row)
        /\ step = "account" => users[u].account = None
        /\ users' = [users EXCEPT ![u] = row]

Writes(r, step) ==
    CASE step = "user_create" -> Creates(r)
      [] step \in {"roles", "stories", "customer_id", "card", "access"}
             -> Rewrites(r, step)
      [] step = "update_card" -> users' = users \/ Rewrites(r, step)
      [] step = "account" -> TRUE
      [] OTHER -> users' = users

\* ... user_account to it and to the accounts ...
Keeps(r) ==
    /\ users' = users /\ accounts' = accounts /\ r \notin accounts
    /\ request'[r].at = request[r].at + 1
    /\ \E u \in Found(r) : users[u].account # None

Opens(r) ==
    /\ users' = users /\ accounts' = accounts \cup {r}
    /\ request'[r].at = request[r].at
    /\ \E u \in Found(r) :
          users[u].account = None /\ request'[r].held = Read(r, u)

Links(r) ==
    /\ accounts' = accounts /\ r \in accounts
    /\ request'[r].at = request[r].at + 1
    /\ Rewrites(r, "account")

\* ... and to the mails.
Queues(r) ==
    \E u \in IF Found(r) = {} THEN {None} ELSE Found(r) :
        mails' = [mails EXCEPT ![r] =
            [kind |-> IF request[r].kind = "reader"
                      THEN "welcome" ELSE "thank_you",
             user |-> u]]

Works(r, step) ==
    /\ Took(r, step) /\ OthersStay(r)
    /\ Writes(r, step)
    /\ IF step = "account" THEN Keeps(r) \/ Opens(r) \/ Links(r)
       ELSE accounts' = accounts /\ request'[r].at = request[r].at + 1
    /\ IF step = "mail" THEN Queues(r) ELSE mails' = mails

Ends(r) ==
    /\ Ended(r) /\ OthersStay(r)
    /\ users' = users /\ mails' = mails
    /\ \/ accounts' = accounts
       \/ accounts' = accounts \cup {r} /\ request'[r].status = "failed"

\* A form that is accepted meets the row of its e-mail, if there is one.
Starts(r) ==
    LET p == request'[r]
        found == FindByEmail(p.email)
    IN
    /\ Begun(r) /\ OthersStay(r)
    /\ accounts' = accounts /\ mails' = mails
    /\ p.status = "running" =>
          /\ p.situation = "new_user" /\ p.kind \in Purchase => found = {}
          /\ p.situation # "new_user" => found # {}
          /\ p.situation = "no_customer" =>
                \A u \in found : users[u].cust[p.country] = None
          /\ p.situation \in {"no_card", "with_card"} =>
                \A u \in found : users[u].cust[p.country] = p.customer

LEMMA SubmitStarts ==
    ASSUME IInv, SerialInv, NEW r \in Requests, Submit(r)
    PROVE  Starts(r)
<1> USE DEF IInv
<1>1. Begun(r) /\ OthersStay(r)
  BY SubmitBegins
<1>2. accounts' = accounts /\ mails' = mails
  BY DEF Submit, tsrVars
<1>3. PICK kind \in Kinds, email \in Emails, country \in Countries :
          \/ Refuse(r, kind, email)
          \/ \E session \in FindByEmail(email) \cup {None} :
                Accept(r, kind, email, country, session)
  BY DEF Submit
<1>4. CASE Refuse(r, kind, email)
  <2>1. request'[r].status = "refused"
    BY <1>4 DEF Refuse, TypeOK, RequestState
  <2>2. QED
    BY <1>1, <1>2, <2>1 DEF Starts
<1>5. ASSUME NEW session \in FindByEmail(email) \cup {None},
             Accept(r, kind, email, country, session)
      PROVE  Starts(r)
  <2> DEFINE situation == SituationOf(kind, session, country, email)
             customer  == ExistingCustomer(session, country, situation)
  <2>1. /\ request'[r].kind = kind /\ request'[r].email = email
        /\ request'[r].country = country
        /\ request'[r].situation = situation
        /\ request'[r].customer = customer
    BY <1>5 DEF Accept, TypeOK, RequestState
  <2>2. session = None <=> (kind = "reader" \/ FindByEmail(email) = {})
    BY <1>5 DEF Accept
  <2>3. FindByEmail(email) # {} /\ kind # "reader" =>
            \A u \in FindByEmail(email) : u = session
    <3>1. \A u, v \in FindByEmail(email) : v = u
      BY DEF SerialInv, LiveOnce, Live, FindByEmail
    <3>2. QED
      BY <2>2, <3>1
  <2>4. situation = "new_user" /\ kind \in Purchase => FindByEmail(email) = {}
    BY DEF SituationOf, Purchase
  <2>5. situation # "new_user" => FindByEmail(email) # {} /\ kind # "reader"
    BY DEF SituationOf
  <2>6. situation = "no_customer" => users[session].cust[country] = None
    BY DEF SituationOf
  <2>7. situation \in {"no_card", "with_card"} =>
            customer = users[session].cust[country]
    BY DEF ExistingCustomer
  <2> HIDE DEF situation, customer
  <2>8. QED
    BY <1>1, <1>2, <2>1, <2>3, <2>4, <2>5, <2>6, <2>7 DEF Starts
<1>6. QED
  BY <1>3, <1>4, <1>5

\* The one step that the place of a request allows.
LEMMA OneStep ==
    ASSUME NEW r, NEW s, NEW t, At(r, s), At(r, t)
    PROVE  s = t
BY DEF At

LEMMA RequestWorks ==
    ASSUME IInv, SerialInv, NEW r \in Requests, Progress(r),
           ~(UserExists(r) \/ NilUser(r) \/ Answer(r))
    PROVE  \E step : Works(r, step)
<1> USE DEF IInv
<1>0. PICK step : Took(r, step) /\ OthersStay(r)
  BY ActionTakes
<1>1. At(r, step) /\ request[r].status = "running"
  BY <1>0 DEF Took, At
<1>2. ASSUME Advance(r)
      PROVE  request'[r].at = request[r].at + 1
  BY <1>2 DEF Advance, TypeOK, RequestState
<1>3. ASSUME NEW t \in {"customer", "charge", "update_card",
                       "tsr_subscription", "tsr_invoice"},
             At(r, t), users' = users, accounts' = accounts, mails' = mails,
             request'[r].at = request[r].at + 1
      PROVE  Works(r, step)
  <2>1. t = step
    BY <1>1, <1>3, OneStep
  <2>2. Writes(r, step)
    BY <1>3, <2>1 DEF Writes
  <2>3. QED
    BY <1>0, <1>3, <2>1, <2>2 DEF Works
<1>4. CASE NewStripeCustomer(r)
  BY <1>3, <1>4 DEF NewStripeCustomer, tsrVars, TypeOK, RequestState
<1>5. CASE StripeCharge(r)
  BY <1>2, <1>3, <1>5 DEF StripeCharge, tsrVars
<1>6. CASE UpdateCardRescued(r)
  BY <1>3, <1>6 DEF UpdateCardRescued, tsrVars, TypeOK, RequestState
<1>7. CASE TsrSubscription(r)
  <2>1. request'[r].at = request[r].at + 1
    BY <1>7 DEF TsrSubscription, TypeOK, RequestState
  <2>2. QED
    BY <1>3, <1>7, <2>1 DEF TsrSubscription
<1>8. CASE TsrInvoice(r)
  BY <1>2, <1>3, <1>8 DEF TsrInvoice
<1>9. CASE UserCreate(r)
  <2>1. step = "user_create"
    BY <1>1, <1>9, OneStep DEF UserCreate
  <2>2. Writes(r, step)
    BY <1>9, <2>1 DEF UserCreate, UpdateUser, Writes, Creates, Found
  <2>3. QED
    BY <1>0, <1>2, <1>9, <2>1, <2>2 DEF UserCreate, UpdateUser, Works
<1>10. ASSUME NEW t \in {"roles", "stories", "customer_id", "card",
                         "update_card", "access"},
              At(r, t), NEW u \in Found(r), NEW row \in UserRow,
              Written(r, t, users[u], row), users' = [users EXCEPT ![u] = row],
              accounts' = accounts, mails' = mails,
              request'[r].at = request[r].at + 1
       PROVE  Works(r, step)
  <2>1. t = step
    BY <1>1, <1>10, OneStep
  <2>2. Rewrites(r, step)
    BY <1>10, <2>1 DEF Rewrites
  <2>3. Writes(r, step)
    BY <1>10, <2>1, <2>2 DEF Writes
  <2>4. QED
    BY <1>0, <1>10, <2>1, <2>3 DEF Works
<1>11. ASSUME NEW u \in Found(r)
       PROVE  u \in Requests /\ users[u] \in UserRow
  BY <1>11 DEF Found, FindByEmail, TypeOK
<1>12. CASE Roles(r)
  <2>1. PICK u \in Found(r) :
            UpdateUser(r, u, GivenRole(users[u], request[r].kind))
    BY <1>12 DEF Roles, Found
  <2> DEFINE row == GivenRole(users[u], request[r].kind)
  <2>2. row \in UserRow
    BY <1>11 DEF GivenRole, UserRow
  <2>3. Written(r, "roles", users[u], row)
    BY <1>11 DEF Written, GivenRole, UserRow, Purchase, TypeOK, RequestState, Kinds
  <2> HIDE DEF row
  <2>4. At(r, "roles")
    BY <1>12 DEF Roles
  <2>5. QED
    BY <1>2, <1>10, <2>1, <2>2, <2>3, <2>4 DEF UpdateUser, row
<1>13. CASE Stories(r)
  <2>1. PICK u \in Found(r) :
            UpdateUser(r, u, [users[u] EXCEPT !.stories = TRUE])
    BY <1>13 DEF Stories, Found
  <2> DEFINE row == [users[u] EXCEPT !.stories = TRUE]
  <2>2. row \in UserRow
    BY <1>11 DEF UserRow
  <2>3. Written(r, "stories", users[u], row)
    BY <1>11 DEF Written, UserRow
  <2> HIDE DEF row
  <2>4. At(r, "stories")
    BY <1>13 DEF Stories
  <2>5. QED
    BY <1>2, <1>10, <2>1, <2>2, <2>3, <2>4 DEF UpdateUser, row
<1>14. CASE CustomerId(r)
  <2>1. PICK u \in Found(r) :
            UpdateUser(r, u,
               [users[u] EXCEPT !.cust[request[r].country] = request[r].customer])
    BY <1>14 DEF CustomerId, Found
  <2> DEFINE row == [users[u] EXCEPT
                        !.cust[request[r].country] = request[r].customer]
  <2>2. row \in UserRow
    BY <1>11 DEF UserRow, TypeOK, RequestState
  <2>3. Written(r, "customer_id", users[u], row)
    BY <1>11 DEF Written, UserRow
  <2> HIDE DEF row
  <2>4. At(r, "customer_id")
    BY <1>14 DEF CustomerId
  <2>5. QED
    BY <1>2, <1>10, <2>1, <2>2, <2>3, <2>4 DEF UpdateUser, row
<1>15. CASE Card(r) \/ UpdateCard(r)
  <2>1. PICK u \in Found(r) :
            UpdateUser(r, u, [users[u] EXCEPT !.card[request[r].country] = r])
    BY <1>15 DEF Card, UpdateCard, Found
  <2> DEFINE row == [users[u] EXCEPT !.card[request[r].country] = r]
  <2>2. row \in UserRow
    BY <1>11 DEF UserRow, MaybeRequest
  <2>3. \A t \in {"card", "update_card"} : Written(r, t, users[u], row)
    BY <1>11 DEF Written, UserRow
  <2> HIDE DEF row
  <2>4. At(r, "card") \/ At(r, "update_card")
    BY <1>15 DEF Card, UpdateCard
  <2>5. QED
    BY <1>2, <1>10, <2>1, <2>2, <2>3, <2>4 DEF UpdateUser, row
<1>16. CASE Access(r)
  <2>1. PICK u \in Found(r) : users' = [users EXCEPT ![u].access = "paid"]
    BY <1>16 DEF Access, Found
  <2> DEFINE row == [users[u] EXCEPT !.access = "paid"]
  <2>2. row \in UserRow
    BY <1>11 DEF UserRow
  <2>3. Written(r, "access", users[u], row)
    BY <1>11 DEF Written, UserRow
  <2>4. users' = [users EXCEPT ![u] = row]
    BY <1>11, <2>1 DEF TypeOK
  <2>5. request'[r].at = request[r].at + 1
    BY <1>16 DEF Access, TypeOK, RequestState
  <2> HIDE DEF row
  <2>6. At(r, "access") /\ accounts' = accounts /\ mails' = mails
    BY <1>16 DEF Access
  <2>7. QED
    BY <1>10, <2>2, <2>3, <2>4, <2>5, <2>6
<1>17. CASE Mail(r)
  <2>1. step = "mail"
    BY <1>1, <1>17, OneStep DEF Mail
  <2>2. Queues(r)
    BY <1>17 DEF Mail, Queues, Found
  <2>3. QED
    BY <1>0, <1>2, <1>17, <2>1, <2>2 DEF Mail, Works, Writes
<1>18. ASSUME At(r, "account"), Keeps(r) \/ Opens(r) \/ Links(r), mails' = mails
       PROVE  Works(r, step)
  <2>1. step = "account"
    BY <1>1, <1>18, OneStep
  <2>2. QED
    BY <1>0, <1>18, <2>1 DEF Works, Writes
<1>19. CASE KeepAccount(r)
  <2>1. Keeps(r)
    BY <1>2, <1>19 DEF KeepAccount, Keeps, Found, tsrVars
  <2>2. QED
    BY <1>18, <1>19, <2>1 DEF KeepAccount, tsrVars
<1>20. CASE CreateAccount(r)
  <2>1. Opens(r)
    BY <1>20 DEF CreateAccount, Opens, Found, TypeOK, RequestState
  <2>2. QED
    BY <1>18, <1>20, <2>1 DEF CreateAccount
<1>21. CASE LinkAccount(r)
  <2> DEFINE u == request[r].held.user
             row == [users[u] EXCEPT !.account = r]
  <2>1. At(r, "account") /\ r \in accounts
    BY <1>21 DEF LinkAccount
  <2>2. ~DoneBy(request[r], "account")
    <3>1. SerialOrdered(request[r].kind, request[r].situation,
                        Steps(request[r].kind, request[r].situation))
      BY SerialOrder DEF TypeOK, RequestState
    <3>2. QED
      BY <2>1, <3>1, AtOrder DEF SerialOrdered
  <2>3. u \in Found(r) /\ users[u].account = None
    BY <1>1, <2>1, <2>2 DEF SerialInv, RunningKnown, Running, AccountInHand
  <2>4. FindByEmail(request[r].email) \ {u} = {}
    <3>1. request[r].email \in Emails
      BY <1>1 DEF FormsKnown, Untouched
    <3>2. QED
      BY <2>3, <3>1 DEF SerialInv, LiveOnce, Live, Found, FindByEmail
  <2>5. row \in UserRow
    BY <1>11, <2>3 DEF UserRow, MaybeRequest
  <2>6. Written(r, "account", users[u], row)
    BY <1>11, <2>3 DEF Written, UserRow
  <2>7. UpdateUser(r, u, row)
    BY <1>21, <2>4 DEF LinkAccount, Linked
  <2> HIDE DEF u, row
  <2>8. Links(r)
    BY <1>2, <2>1, <2>3, <2>5, <2>6, <2>7 DEF Links, Rewrites, UpdateUser
  <2>9. QED
    BY <1>18, <2>1, <2>7, <2>8 DEF UpdateUser
<1>22. QED
  BY <1>4, <1>5, <1>6, <1>7, <1>8, <1>9, <1>12, <1>13, <1>14, <1>15, <1>16,
     <1>17, <1>19, <1>20, <1>21 DEF Progress

\* All the steps there are, when one request runs at a time.
LEMMA SerialChange ==
    ASSUME IInv, SerialInv, Workers = 1, [Next]_vars
    PROVE  \/ UNCHANGED vars
           \/ Running = {} /\ \E u \in Requests : Unsubscribe(u)
           \/ Running = {} /\ \E r \in Requests : Starts(r)
           \/ \E r \in Requests : Ends(r)
           \/ \E r \in Requests : \E step : Works(r, step)
<1>1. ASSUME NEW r \in Requests, Submit(r)
      PROVE  Running = {} /\ Starts(r)
  BY <1>1, SubmitStarts, RunningAlone DEF Submit
<1>2. ASSUME NEW u \in Requests, Unsubscribe(u)
      PROVE  Running = {}
  BY <1>2, RunningAlone DEF Unsubscribe
<1>3. ASSUME NEW r \in Requests,
             UserExists(r) \/ NilUser(r) \/ Answer(r) \/ Abandon(r)
      PROVE  Ends(r)
  <2>1. Ended(r) /\ OthersStay(r)
    BY <1>3, ActionEnds
  <2>2. users' = users /\ mails' = mails
    BY <1>3 DEF UserExists, NilUser, Answer, Abandon, tsrVars
  <2>3. CASE accounts' = accounts
    BY <2>1, <2>2, <2>3 DEF Ends
  <2>4. CASE accounts' # accounts
    <3>1. accounts' = accounts \cup {r} /\ Fail(r)
      BY <1>3, <2>4 DEF UserExists, NilUser, Answer, Abandon, tsrVars
    <3>2. request'[r].status = "failed"
      BY <3>1 DEF Fail, End, IInv, TypeOK, RequestState
    <3>3. QED
      BY <2>1, <2>2, <3>1, <3>2 DEF Ends
  <2>5. QED
    BY <2>3, <2>4
<1>4. ASSUME NEW r \in Requests, Progress(r)
      PROVE  Ends(r) \/ \E step : Works(r, step)
  BY <1>3, <1>4, RequestWorks
<1>5. QED
  BY <1>1, <1>2, <1>3, <1>4 DEF Next

-----------------------------------------------------------------------------
(* What follows for the request at work and the rows that it finds.        *)

LEMMA FoundOnce ==
    ASSUME IInv, SerialInv, NEW r \in Running,
           NEW u \in Found(r), NEW v \in Found(r)
    PROVE  u = v
<1>1. request[r].email \in Emails
  BY DEF IInv, FormsKnown, Untouched, Running
<1>2. QED
  BY <1>1 DEF SerialInv, LiveOnce, Live, Found, FindByEmail

LEMMA WorksRecord ==
    ASSUME IInv, NEW r \in Requests, NEW step, Works(r, step)
    PROVE  LET q == request[r]
               p == request'[r]
               steps == Steps(q.kind, q.situation)
           IN
           /\ q.status = "running" /\ p.status = "running"
           /\ p.kind = q.kind /\ p.situation = q.situation
           /\ p.email = q.email /\ p.country = q.country
           /\ q.email \in Emails /\ q.country \in Countries
           /\ q.kind \in Kinds /\ q.situation \in Situations
           /\ At(r, step) /\ q.at \in DOMAIN steps /\ steps[q.at] = step
           /\ SerialOrdered(q.kind, q.situation, steps)
           /\ \A a : After(step, a, steps) => DoneBy(q, a)
           /\ \A a : NotAfter(step, a, steps) => ~DoneBy(q, a)
           /\ \A a : DoneBy(q, a) => DoneBy(p, a)
           /\ \A a : DoneBy(p, a) => DoneBy(q, a) \/ a = step
           /\ p.at = q.at + 1 => DoneBy(p, step)
           /\ p.at = q.at => \A a : DoneBy(p, a) => DoneBy(q, a)
<1> DEFINE q == request[r]
           p == request'[r]
           steps == Steps(q.kind, q.situation)
<1> USE DEF IInv
<1>1. At(r, step) /\ Passed(q, p, step)
  BY DEF Works, Took
<1>2. /\ q.status = "running" /\ q.at \in DOMAIN steps /\ steps[q.at] = step
  BY <1>1 DEF At
<1>3. /\ p.status = "running" /\ p.kind = q.kind /\ p.situation = q.situation
      /\ p.email = q.email /\ p.country = q.country
  BY <1>1, <1>2 DEF Passed
<1>4. /\ q.kind \in Kinds /\ q.situation \in Situations
      /\ q.at \in Nat \ {0}
  BY <1>1, StepIndex DEF TypeOK, RequestState
<1>5. q.email \in Emails /\ q.country \in Countries
  BY <1>2 DEF FormsKnown, Untouched
<1>6. SerialOrdered(q.kind, q.situation, steps)
  BY <1>4, SerialOrder
<1>7. /\ \A a : After(step, a, steps) => DoneBy(q, a)
      /\ \A a : NotAfter(step, a, steps) => ~DoneBy(q, a)
  BY <1>1, AtOrder
<1>8. /\ \A a : DoneBy(q, a) => DoneBy(p, a)
      /\ \A a : DoneBy(p, a) => DoneBy(q, a) \/ a = step
  BY <1>1, <1>2, <1>4, PassedDone
<1>9. p.at = q.at + 1 => DoneBy(p, step)
  BY <1>2, <1>3, <1>4 DEF DoneBy
<1>10. p.at = q.at => \A a : DoneBy(p, a) => DoneBy(q, a)
  BY <1>3 DEF DoneBy
<1>11. QED
  BY <1>1, <1>2, <1>3, <1>4, <1>5, <1>6, <1>7, <1>8, <1>9, <1>10

\* A row that a step writes is one that it has found, or the one it makes.
LEMMA RowAfter ==
    ASSUME IInv, NEW r \in Requests, NEW step, Works(r, step),
           step # "user_create", NEW v \in Requests
    PROVE  \/ users'[v] = users[v]
           \/ /\ v \in Found(r)
              /\ Written(r, step, users[v], users'[v])
              /\ step \in {"roles", "stories", "customer_id", "card", "access",
                           "update_card", "account"}
              /\ step = "account" => users[v].account = None
<1>1. CASE users' = users
  BY <1>1
<1>2. ASSUME Rewrites(r, step)
      PROVE  \/ users'[v] = users[v]
             \/ /\ v \in Found(r)
                /\ Written(r, step, users[v], users'[v])
                /\ step = "account" => users[v].account = None
  <2>1. PICK u \in Found(r), row \in UserRow :
            /\ Written(r, step, users[u], row)
            /\ step = "account" => users[u].account = None
            /\ users' = [users EXCEPT ![u] = row]
    BY <1>2 DEF Rewrites
  <2>2. QED
    BY <2>1 DEF IInv, TypeOK
<1>3. CASE step = "account"
  <2>1. users' = users \/ Rewrites(r, "account")
    BY <1>3 DEF Works, Keeps, Opens, Links
  <2>2. QED
    BY <1>1, <1>2, <1>3, <2>1
<1>4. CASE step \in {"roles", "stories", "customer_id", "card", "access",
                     "update_card"}
  BY <1>1, <1>2, <1>4 DEF Works, Writes
<1>5. CASE step \notin {"roles", "stories", "customer_id", "card", "access",
                        "update_card", "account"}
  BY <1>1, <1>5 DEF Works, Writes
<1>6. QED
  BY <1>3, <1>4, <1>5

LEMMA RowCreated ==
    ASSUME IInv, NEW r \in Requests, Works(r, "user_create")
    PROVE  /\ Found(r) = {}
           /\ users[r].email = None
           /\ users'[r] = [NoUser EXCEPT !.email = request[r].email]
           /\ users'[r].email = request[r].email
           /\ \A v \in Requests \ {r} : users'[v] = users[v]
<1>1. Creates(r)
  BY DEF Works, Writes
<1>2. ~DoneBy(request[r], "user_create") /\ request[r].status = "running"
  <2>1. At(r, "user_create")
    BY DEF Works, Took
  <2>2. QED
    BY <2>1, AtOrder DEF IInv, Ordered
<1>3. users[r].email = None
  BY <1>2 DEF IInv, RowsKnown
<1>4. /\ users'[r] = [NoUser EXCEPT !.email = request[r].email]
      /\ \A v \in Requests \ {r} : users'[v] = users[v]
  BY <1>1 DEF Creates, IInv, TypeOK
<1>5. [NoUser EXCEPT !.email = request[r].email].email = request[r].email
  BY DEF NoUser
<1>6. QED
  BY <1>1, <1>3, <1>4, <1>5 DEF Creates

\* Who is found before is found after, and nobody else but who is made.
LEMMA FoundAfter ==
    ASSUME IInv, NEW r \in Requests, NEW step, Works(r, step)
    PROVE  /\ step = "user_create" => Found(r)' = {r}
           /\ step # "user_create" =>
                 /\ Found(r)' = Found(r)
                 /\ \A v \in Requests : users'[v].email = users[v].email
<1>1. /\ request'[r].email = request[r].email
      /\ request[r].email \in Emails
  BY WorksRecord
<1>2. CASE step = "user_create"
  <2>1. users'[r].email = request[r].email
    BY <1>2, RowCreated
  <2>2. \A v \in Requests \ {r} : users'[v].email # request[r].email
    BY <1>2, RowCreated DEF Found, FindByEmail
  <2>3. QED
    BY <1>1, <1>2, <2>1, <2>2 DEF Found, FindByEmail
<1>3. CASE step # "user_create"
  <2>1. \A v \in Requests : users'[v].email = users[v].email
    BY <1>3, RowAfter DEF Written
  <2>2. QED
    BY <1>1, <1>3, <2>1 DEF Found, FindByEmail
<1>4. QED
  BY <1>2, <1>3

\* Of the row that it finds a helper writes what it is to write.
LEMMA FoundWritten ==
    ASSUME IInv, SerialInv, NEW r \in Requests, NEW step, Works(r, step),
           \/ step \in {"roles", "stories", "customer_id", "card", "access"}
           \/ step = "account" /\ Links(r),
           NEW v \in Found(r)
    PROVE  Written(r, step, users[v], users'[v])
<1>1. Rewrites(r, step)
  BY DEF Works, Writes, Links
<1>2. PICK u \in Found(r), row \in UserRow :
          /\ Written(r, step, users[u], row)
          /\ users' = [users EXCEPT ![u] = row]
  BY <1>1 DEF Rewrites
<1>3. r \in Running
  BY WorksRecord DEF Running
<1>4. u = v
  BY <1>2, <1>3, FoundOnce
<1>5. QED
  BY <1>2, <1>4 DEF IInv, TypeOK, Found, FindByEmail

-----------------------------------------------------------------------------
(* The request at work: the parts of RunningKnown, one after the other.    *)

LEMMA WorkerKnown ==
    ASSUME IInv, SerialInv, NEW r \in Requests, NEW step, Works(r, step)
    PROVE  /\ r \in Running
           /\ RowHasCustomer(r) /\ CustomerPays(r)
           /\ SetUpSoFar(r) /\ AccountInHand(r)
<1>1. r \in Running
  BY WorksRecord DEF Running
<1>2. QED
  BY <1>1 DEF SerialInv, RunningKnown

LEMMA RowHasCustomerWorks ==
    ASSUME IInv, SerialInv, NEW r \in Requests, NEW step, Works(r, step)
    PROVE  RowHasCustomer(r)'
<1> DEFINE q == request[r]
           p == request'[r]
<1>1. RowHasCustomer(r)
  BY WorkerKnown
<1>2. /\ p.kind = q.kind /\ p.situation = q.situation
      /\ p.country = q.country /\ q.country \in Countries
      /\ q.kind \in Kinds /\ q.situation \in Situations
      /\ \A a : DoneBy(p, a) => DoneBy(q, a) \/ a = step
      /\ \A a : DoneBy(q, a) => DoneBy(p, a)
  BY WorksRecord
<1>3. step # "customer" => p.customer = q.customer
  BY DEF Works, Took
<1>4. CASE step = "user_create"
  <2>1. Found(r)' = {r} /\ Found(r) = {} /\ users'[r].cust[q.country] = None
    <3>1. Found(r)' = {r} /\ Found(r) = {}
      BY <1>4, FoundAfter, RowCreated
    <3>2. users'[r] = [NoUser EXCEPT !.email = q.email]
      BY <1>4, RowCreated
    <3>3. users'[r].cust = [c \in Countries |-> None]
      BY <3>2 DEF NoUser
    <3>4. QED
      BY <1>2, <3>1, <3>3
  <2>2. q.situation = "new_user"
    BY <1>1, <2>1 DEF RowHasCustomer
  <2>3. ~DoneBy(q, "customer_id")
    BY <1>4, WorksRecord DEF SerialOrdered
  <2>4. ~DoneBy(p, "customer_id")
    BY <1>2, <1>4, <2>3
  <2>5. QED
    BY <1>2, <2>1, <2>2, <2>4 DEF RowHasCustomer
<1>5. CASE step = "customer_id"
  <2>1. Found(r)' = Found(r)
    BY <1>5, FoundAfter
  <2>2. \A v \in Found(r) : users'[v].cust[q.country] = q.customer
    <3>1. SUFFICES ASSUME NEW v \in Found(r)
                   PROVE  users'[v].cust[q.country] = q.customer
      OBVIOUS
    <3>2. users'[v].cust = [users[v].cust EXCEPT ![q.country] = q.customer]
      BY <1>5, FoundWritten DEF Written
    <3>3. DOMAIN users[v].cust = Countries
      BY DEF Found, FindByEmail, IInv, TypeOK, UserRow
    <3>4. QED
      BY <1>2, <3>2, <3>3
  <2>3. DoneBy(p, "customer_id")
    BY <1>5, WorksRecord DEF Works
  <2>4. DoneBy(p, "user_create") => DoneBy(q, "user_create")
    BY <1>2, <1>5
  <2>5. QED
    BY <1>1, <1>2, <1>3, <1>5, <2>1, <2>2, <2>3, <2>4 DEF RowHasCustomer
<1>6. CASE step \notin {"user_create", "customer_id"}
  <2>1. Found(r)' = Found(r)
    BY <1>6, FoundAfter
  <2>2. \A v \in Found(r) : users'[v].cust = users[v].cust
    <3>1. SUFFICES ASSUME NEW v \in Found(r)
                   PROVE  users'[v].cust = users[v].cust
      OBVIOUS
    <3>2. v \in Requests
      BY DEF Found, FindByEmail
    <3>3. users'[v] = users[v] \/ Written(r, step, users[v], users'[v])
      BY <1>6, <3>2, RowAfter
    <3>4. QED
      BY <1>6, <3>3 DEF Written
  <2>3. /\ DoneBy(p, "customer_id") <=> DoneBy(q, "customer_id")
        /\ DoneBy(p, "user_create") => DoneBy(q, "user_create")
    BY <1>2, <1>6
  <2>4. CASE step = "customer"
    <3>1. q.situation \notin {"no_card", "with_card"} /\ q.kind # "reader"
      BY <2>4, WorksRecord DEF SerialOrdered
    <3>2. ~DoneBy(q, "customer_id")
      BY <2>4, WorksRecord DEF SerialOrdered
    <3>3. QED
      BY <1>1, <1>2, <2>1, <2>2, <2>3, <3>1, <3>2 DEF RowHasCustomer
  <2>5. CASE step # "customer"
    BY <1>1, <1>2, <1>3, <2>1, <2>2, <2>3, <2>5 DEF RowHasCustomer
  <2>6. QED
    BY <2>4, <2>5
<1>7. QED
  BY <1>4, <1>5, <1>6

LEMMA CustomerPaysWorks ==
    ASSUME IInv, SerialInv, NEW r \in Requests, NEW step, Works(r, step)
    PROVE  CustomerPays(r)'
<1> DEFINE q == request[r]
           p == request'[r]
           steps == Steps(q.kind, q.situation)
<1>1. CustomerPays(r) /\ RowHasCustomer(r)
  BY WorkerKnown
<1>2. /\ p.kind = q.kind /\ p.situation = q.situation
      /\ p.country = q.country /\ q.country \in Countries
      /\ q.kind \in Kinds /\ q.situation \in Situations
      /\ q.at \in DOMAIN steps /\ steps[q.at] = step
      /\ SerialOrdered(q.kind, q.situation, steps)
      /\ \A a : After(step, a, steps) => DoneBy(q, a)
      /\ \A a : NotAfter(step, a, steps) => ~DoneBy(q, a)
      /\ \A a : DoneBy(p, a) => DoneBy(q, a) \/ a = step
      /\ \A a : DoneBy(q, a) => DoneBy(p, a)
      /\ step # "account" => DoneBy(p, step)
  BY WorksRecord DEF Works
<1>3. Took(r, step)
  BY DEF Works
<1>4. r \in stripeCustomers' =>
          /\ p.customer = r /\ p.kind \in Purchase
          /\ p.situation \in {"new_user", "no_customer"}
  <2>1. CASE step = "customer"
    <3>1. q.kind # "reader" /\ q.situation \notin {"no_card", "with_card"}
      BY <1>2, <2>1 DEF SerialOrdered
    <3>2. p.customer = r
      BY <1>3, <2>1 DEF Took
    <3>3. QED
      BY <1>2, <3>1, <3>2 DEF Kinds, Purchase, Situations
  <2>2. CASE step # "customer"
    <3>1. stripeCustomers' = stripeCustomers /\ p.customer = q.customer
      BY <1>3, <2>2 DEF Took
    <3>2. QED
      BY <1>1, <1>2, <3>1 DEF CustomerPays
  <2>3. QED
    BY <2>1, <2>2
<1>5. DoneBy(p, "charge") => charged'[r] = p.customer
  <2>1. CASE step = "charge"
    BY <1>3, <2>1 DEF Took
  <2>2. CASE step = "customer"
    <3>1. ~DoneBy(q, "charge")
      BY <1>2, <2>2 DEF SerialOrdered
    <3>2. QED
      BY <1>2, <2>2, <3>1
  <2>3. CASE step \notin {"charge", "customer"}
    <3>1. charged'[r] = charged[r] /\ p.customer = q.customer
      BY <1>3, <2>3 DEF Took
    <3>2. QED
      BY <1>1, <1>2, <2>3, <3>1 DEF CustomerPays
  <2>4. QED
    BY <2>1, <2>2, <2>3
<1>6. tsrSubscription'[r] # None => DoneBy(p, "tsr_subscription")
  <2>1. CASE step = "tsr_subscription"
    BY <1>2, <2>1
  <2>2. CASE step # "tsr_subscription"
    <3>1. tsrSubscription'[r] = tsrSubscription[r]
      BY <1>3, <2>2 DEF Took
    <3>2. QED
      BY <1>1, <1>2, <3>1 DEF CustomerPays
  <2>3. QED
    BY <2>1, <2>2
<1>7. p.kind = "prepayment" /\ DoneBy(p, "access")
          => p.held.customer = p.customer
  <2> SUFFICES ASSUME q.kind = "prepayment", DoneBy(p, "access")
               PROVE  p.held.customer = p.customer
    BY <1>2
  <2>1. CASE step = "access"
    <3>1. q.situation \in {"no_card", "with_card"} \/ DoneBy(q, "customer_id")
      BY <1>2, <2>1 DEF SerialOrdered, Situations
    <3>2. PICK u \in Found(r) : p.held = Read(r, u)
      BY <1>3, <2>1 DEF Took, Found
    <3>3. p.customer = q.customer
      BY <1>3, <2>1 DEF Took
    <3>4. QED
      BY <1>1, <3>1, <3>2, <3>3 DEF RowHasCustomer, Read
  <2>2. CASE step # "access"
    <3>1. DoneBy(q, "access")
      BY <1>2, <2>2
    <3>2. step # "customer" /\ step # "account"
      BY <1>2, <3>1 DEF SerialOrdered
    <3>3. p.held = q.held /\ p.customer = q.customer
      BY <1>3, <2>2, <3>2 DEF Took
    <3>4. QED
      BY <1>1, <3>1, <3>3 DEF CustomerPays
  <2>3. QED
    BY <2>1, <2>2
<1>8. QED
  BY <1>4, <1>5, <1>6, <1>7 DEF CustomerPays

LEMMA SetUpWorks ==
    ASSUME IInv, SerialInv, NEW r \in Requests, NEW step, Works(r, step)
    PROVE  SetUpSoFar(r)'
<1> DEFINE q == request[r]
           p == request'[r]
           steps == Steps(q.kind, q.situation)
<1>1. SetUpSoFar(r) /\ r \in Running
  BY WorkerKnown
<1>2. /\ p.kind = q.kind /\ p.country = q.country /\ q.country \in Countries
      /\ q.at \in DOMAIN steps /\ steps[q.at] = step
      /\ SerialOrdered(q.kind, q.situation, steps)
      /\ \A a : NotAfter(step, a, steps) => ~DoneBy(q, a)
      /\ \A a : DoneBy(p, a) => DoneBy(q, a) \/ a = step
      /\ \A a : DoneBy(q, a) => DoneBy(p, a)
      /\ step # "account" => DoneBy(p, step)
  BY WorksRecord DEF Works
<1>3. CASE step = "user_create"
  <2>1. Found(r)' = {r} /\ users'[r].access = None
    BY <1>3, FoundAfter, RowCreated DEF NoUser
  <2>2. \A a \in {"stories", "card", "account", "access"} : ~DoneBy(p, a)
    BY <1>2, <1>3 DEF SerialOrdered
  <2>3. QED
    BY <2>1, <2>2 DEF SetUpSoFar
<1>4. CASE step # "user_create"
  <2>1. Found(r)' = Found(r)
    BY <1>4, FoundAfter
  <2>2. SUFFICES ASSUME NEW v \in Found(r)
                 PROVE  /\ DoneBy(p, "stories") => users'[v].stories
                        /\ DoneBy(p, "card") =>
                              users'[v].card[p.country] # None
                        /\ DoneBy(p, "account") => users'[v].account # None
                        /\ p.kind \in Purchase /\ DoneBy(p, "access")
                              => users'[v].access = "paid"
                        /\ /\ p.kind = "reader"
                           /\ DoneBy(p, "user_create") /\ ~DoneBy(p, "roles")
                           => users'[v].access = None
    BY <2>1 DEF SetUpSoFar
  <2>3. v \in Requests /\ users[v] \in UserRow
    BY DEF Found, FindByEmail, IInv, TypeOK
  <2>4. users'[v] = users[v] \/ Written(r, step, users[v], users'[v])
    BY <1>4, <2>3, RowAfter
  <2>5. step \in {"roles", "stories", "customer_id", "card", "access"} =>
            Written(r, step, users[v], users'[v])
    BY FoundWritten
  <2>6. DoneBy(p, "stories") => users'[v].stories
    <3>1. step = "stories" => users'[v].stories
      BY <2>5 DEF Written
    <3>2. DoneBy(q, "stories") => users'[v].stories
      BY <1>1, <2>4 DEF SetUpSoFar, Written
    <3>3. QED
      BY <1>2, <3>1, <3>2
  <2>7. DoneBy(p, "card") => users'[v].card[p.country] # None
    <3>1. [users[v].card EXCEPT ![q.country] = r][q.country] # None
      BY <1>2, <2>3, RequestsAssumption DEF UserRow
    <3>2. step = "card" => users'[v].card[q.country] # None
      BY <2>5, <3>1 DEF Written
    <3>3. DoneBy(q, "card") => users'[v].card[q.country] # None
      BY <1>1, <2>4, <3>1 DEF SetUpSoFar, Written
    <3>4. QED
      BY <1>2, <3>2, <3>3
  <2>8. DoneBy(p, "account") => users'[v].account # None
    <3>1. CASE step = "account"
      <4>1. ~DoneBy(q, "account")
        BY <1>2, <3>1 DEF SerialOrdered
      <4>2. CASE Keeps(r)
        BY <1>1, <4>2, FoundOnce DEF Keeps
      <4>3. CASE Opens(r)
        BY <4>1, <4>3, WorksRecord DEF Opens
      <4>4. CASE Links(r)
        <5>1. Written(r, "account", users[v], users'[v])
          BY <3>1, <4>4, FoundWritten
        <5>2. users'[v].account = r
          BY <5>1 DEF Written
        <5>3. QED
          BY <5>2, RequestsAssumption
      <4>5. QED
        BY <3>1, <4>2, <4>3, <4>4 DEF Works
    <3>2. CASE step # "account"
      BY <1>1, <1>2, <2>4, <3>2 DEF SetUpSoFar, Written
    <3>3. QED
      BY <3>1, <3>2
  <2>9. p.kind \in Purchase /\ DoneBy(p, "access") => users'[v].access = "paid"
    <3>1. step = "access" => users'[v].access = "paid"
      BY <2>5 DEF Written
    <3>2. q.kind \in Purchase /\ DoneBy(q, "access")
              => users'[v].access = "paid"
      BY <1>1, <2>4 DEF SetUpSoFar, Written, Purchase
    <3>3. QED
      BY <1>2, <3>1, <3>2
  <2>10. /\ p.kind = "reader"
         /\ DoneBy(p, "user_create") /\ ~DoneBy(p, "roles")
         => users'[v].access = None
    <3>1. SUFFICES ASSUME q.kind = "reader", DoneBy(p, "user_create"),
                          ~DoneBy(p, "roles")
                   PROVE  users'[v].access = None
      BY <1>2
    <3>2. step # "access" /\ step # "roles"
      BY <1>2, <3>1 DEF SerialOrdered
    <3>3. users[v].access = None
      BY <1>1, <1>2, <1>4, <3>1 DEF SetUpSoFar
    <3>4. QED
      BY <2>4, <3>2, <3>3 DEF Written
  <2>11. QED
    BY <2>6, <2>7, <2>8, <2>9, <2>10
<1>5. QED
  BY <1>3, <1>4

\* Whose account it is stays so: only a row without one is linked.
LEMMA LinkStays ==
    ASSUME IInv, SerialInv, NEW r \in Requests, NEW step, Works(r, step),
           NEW u \in Requests, NEW x \in Requests, users[u].account = x
    PROVE  users'[u].account = x
<1>1. CASE step = "user_create"
  <2>1. users[r].account = None
    <3>1. users[r] = NoUser
      BY <1>1, RowCreated DEF SerialInv, BlankRows
    <3>2. QED
      BY <3>1 DEF NoUser
  <2>2. u # r
    BY <2>1, RequestsAssumption
  <2>3. QED
    BY <1>1, <2>2, RowCreated
<1>2. CASE step # "user_create"
  <2>1. CASE users'[u] = users[u]
    BY <2>1
  <2>2. CASE /\ Written(r, step, users[u], users'[u])
             /\ step = "account" => users[u].account = None
    <3>1. step # "account"
      BY <2>2, RequestsAssumption
    <3>2. QED
      BY <2>2, <3>1 DEF Written
  <2>3. QED
    BY <1>2, <2>1, <2>2, RowAfter
<1>3. QED
  BY <1>1, <1>2

LEMMA AccountWorks ==
    ASSUME IInv, SerialInv, NEW r \in Requests, NEW step, Works(r, step)
    PROVE  AccountInHand(r)'
<1> DEFINE q == request[r]
           p == request'[r]
<1>1. AccountInHand(r) /\ r \in Running
  BY WorkerKnown
<1>2. /\ At(r, step) /\ p.status = q.status
      /\ p.kind = q.kind /\ p.situation = q.situation
      /\ \A a : DoneBy(q, a) => DoneBy(p, a)
  BY WorksRecord
<1>3. CASE step # "account"
  <2>1. accounts' = accounts /\ ~At(r, "account")
    BY <1>2, <1>3, OneStep DEF Works
  <2>2. r \in accounts =>
            DoneBy(q, "account") /\ \E u \in Requests : users[u].account = r
    BY <1>1, <2>1 DEF AccountInHand
  <2>3. QED
    BY <1>2, <2>1, <2>2, LinkStays DEF AccountInHand
<1>4. CASE step = "account"
  <2>1. ~DoneBy(q, "account") /\ Found(r)' = Found(r)
    <3>1. ~DoneBy(q, "account")
      BY <1>4, WorksRecord DEF SerialOrdered
    <3>2. Found(r)' = Found(r)
      BY <1>4, FoundAfter
    <3>3. QED
      BY <3>1, <3>2
  <2>2. CASE Keeps(r)
    BY <2>2 DEF Keeps, AccountInHand
  <2>3. CASE Opens(r)
    <3>1. At(r, "account")' /\ ~DoneBy(p, "account")
      BY <1>2, <1>4, <2>1, <2>3, WorksRecord DEF Opens, At
    <3>2. PICK u \in Found(r) : /\ users[u].account = None
                                /\ p.held = Read(r, u)
      BY <2>3 DEF Opens
    <3>3. Read(r, u) \in SubscriptionRow
      BY <1>1, ReadType DEF IInv, Running, Found, FindByEmail
    <3>4. p.held # None /\ p.held.user = u
      BY <3>2, <3>3, RowsAssumption DEF Read
    <3>5. users'[u].account = None
      BY <2>3, <3>2 DEF Opens
    <3>6. QED
      BY <2>1, <3>1, <3>4, <3>5 DEF AccountInHand
  <2>4. CASE Links(r)
    <3>1. DoneBy(p, "account")
      BY <1>4, <2>4, WorksRecord DEF Links
    <3>2. PICK u \in Found(r) : TRUE
      BY <2>4 DEF Links, Rewrites
    <3>3. users'[u].account = r /\ u \in Requests
      BY <1>4, <2>4, FoundWritten DEF Written, Found, FindByEmail
    <3>4. QED
      BY <3>1, <3>3 DEF AccountInHand
  <2>5. QED
    BY <1>4, <2>2, <2>3, <2>4 DEF Works
<1>5. QED
  BY <1>3, <1>4

-----------------------------------------------------------------------------
(* The conjuncts of SerialInv.                                              *)

LEMMA StartedKnown ==
    ASSUME IInv, SerialInv, NEW r \in Requests, Starts(r),
           request'[r].status = "running"
    PROVE  /\ RowHasCustomer(r)' /\ CustomerPays(r)'
           /\ SetUpSoFar(r)' /\ AccountInHand(r)'
<1> DEFINE p == request'[r]
<1>1. Begun(r) /\ users' = users /\ accounts' = accounts
  BY DEF Starts, Begun
<1>2. request[r] = IdleRequest /\ p.at = 1
  BY <1>1, BegunRecord
<1>3. \A a : ~DoneBy(p, a)
  BY <1>2, NothingDone
<1>4. Untouched(request[r])
  BY <1>2 DEF Untouched, IdleRequest
<1>5. r \notin stripeCustomers /\ tsrSubscription[r] = None
  BY <1>4 DEF IInv, CustomersKnown, CustomerKnown
<1>6. r \notin accounts
  BY <1>4 DEF SerialInv, UntouchedKnown
<1>7. Found(r)' = FindByEmail(p.email)
  BY <1>1 DEF Found, FindByEmail
<1>8. RowHasCustomer(r)'
  BY <1>1, <1>3, <1>7 DEF Starts, RowHasCustomer
<1>9. CustomerPays(r)'
  BY <1>1, <1>3, <1>5 DEF Begun, OwnStay, CustomerPays
<1>10. SetUpSoFar(r)'
  BY <1>3 DEF SetUpSoFar
<1>11. AccountInHand(r)'
  BY <1>1, <1>6 DEF AccountInHand
<1>12. QED
  BY <1>8, <1>9, <1>10, <1>11

\* Whoever runs after a step ran before or has just started, alone.
LEMMA RunningChange ==
    ASSUME IInv, SerialInv, Workers = 1, [Next]_vars
    PROVE  /\ Alone'
           /\ \A s \in Running' :
                 \/ s \in Running /\ UNCHANGED vars
                 \/ Starts(s) /\ request'[s].status = "running"
                 \/ \E step : Works(s, step)
<1>1. CASE UNCHANGED vars
  BY <1>1 DEF vars, tsrVars, stripeVars, Running, SerialInv, Alone
<1>2. CASE Running = {} /\ \E u \in Requests : Unsubscribe(u)
  <2>1. Running' = {}
    BY <1>2 DEF Unsubscribe, Running
  <2>2. QED
    BY <2>1 DEF Alone
<1>3. ASSUME Running = {}, NEW r \in Requests, Starts(r)
      PROVE  /\ Alone'
             /\ \A s \in Running' :
                   Starts(s) /\ request'[s].status = "running"
  <2>1. \A s \in Running' : s = r
    BY <1>3 DEF Starts, OthersStay, Running
  <2>2. QED
    BY <1>3, <2>1 DEF Alone, Running
<1>4. ASSUME NEW r \in Requests, OthersStay(r), request[r].status = "running"
      PROVE  \A s \in Running' : s = r
  BY <1>4 DEF OthersStay, Running, SerialInv, Alone
<1>5. ASSUME NEW r \in Requests, Ends(r)
      PROVE  Running' = {}
  <2>1. /\ request[r].status = "running"
        /\ request'[r].status \in {"ok", "failed"}
    BY <1>5, EndedRecord DEF IInv, Ends
  <2>2. QED
    BY <1>4, <1>5, <2>1 DEF Ends, Running
<1>6. ASSUME NEW r \in Requests, NEW step, Works(r, step)
      PROVE  Alone' /\ \A s \in Running' : s = r
  <2>1. request[r].status = "running" /\ OthersStay(r)
    BY <1>6, WorksRecord DEF Works
  <2>2. QED
    BY <1>4, <2>1 DEF Alone
<1>7. QED
  BY <1>1, <1>2, <1>3, <1>5, <1>6, SerialChange DEF Alone

LEMMA RunningKnownStep ==
    ASSUME IInv, SerialInv, Workers = 1, [Next]_vars
    PROVE  RunningKnown'
<1> SUFFICES ASSUME NEW s \in Running'
             PROVE  /\ RowHasCustomer(s)' /\ CustomerPays(s)'
                    /\ SetUpSoFar(s)' /\ AccountInHand(s)'
  BY DEF RunningKnown
<1>1. s \in Requests
  BY DEF Running
<1>2. CASE s \in Running /\ UNCHANGED vars
  <2>1. /\ RowHasCustomer(s) /\ CustomerPays(s)
        /\ SetUpSoFar(s) /\ AccountInHand(s)
    BY <1>2 DEF SerialInv, RunningKnown
  <2>2. UNCHANGED <<users, accounts, tsrSubscription, stripeCustomers, charged,
                    request>>
    BY <1>2 DEF vars, tsrVars, stripeVars
  <2>3. RowHasCustomer(s)' /\ SetUpSoFar(s)'
    BY <2>1, <2>2 DEF RowHasCustomer, SetUpSoFar, Found, FindByEmail
  <2>4. CustomerPays(s)' /\ AccountInHand(s)'
    BY <2>1, <2>2 DEF CustomerPays, AccountInHand, At, Found, FindByEmail
  <2>5. QED
    BY <2>3, <2>4
<1>3. CASE Starts(s) /\ request'[s].status = "running"
  BY <1>1, <1>3, StartedKnown
<1>4. ASSUME NEW step, Works(s, step)
      PROVE  /\ RowHasCustomer(s)' /\ CustomerPays(s)'
             /\ SetUpSoFar(s)' /\ AccountInHand(s)'
  BY <1>1, <1>4, RowHasCustomerWorks, CustomerPaysWorks, SetUpWorks,
     AccountWorks
<1>5. QED
  BY <1>2, <1>3, <1>4, RunningChange

\* What Unsubscribe writes, which is no request's step.
LEMMA UnsubscribeWrites ==
    ASSUME TypeOK, NEW u \in Requests, Unsubscribe(u)
    PROVE  /\ users[u].email \in Emails
           /\ users'[u] = [users[u] EXCEPT !.email = "deleted",
                                           !.role = "deleted"]
           /\ users'[u].email = "deleted"
           /\ \A v \in Requests :
                 /\ v # u => users'[v] = users[v]
                 /\ users'[v].cust = users[v].cust
                 /\ users'[v].card = users[v].card
                 /\ users'[v].account = users[v].account
                 /\ users'[v].access = users[v].access
                 /\ users'[v].stories = users[v].stories
           /\ UNCHANGED <<accounts, tsrSubscription, tsrInvoice, mails, charged,
                          stripeCustomers, request>>
<1> DEFINE row == [users[u] EXCEPT !.email = "deleted", !.role = "deleted"]
<1>1. users[u] \in UserRow
  BY DEF TypeOK
<1>2. users' = [users EXCEPT ![u] = row]
  BY DEF Unsubscribe, TypeOK
<1>3. /\ row.email = "deleted" /\ row.cust = users[u].cust
      /\ row.card = users[u].card /\ row.account = users[u].account
      /\ row.access = users[u].access /\ row.stories = users[u].stories
  BY <1>1 DEF UserRow
<1> HIDE DEF row
<1>4. users'[u] = row /\ \A v \in Requests \ {u} : users'[v] = users[v]
  BY <1>2 DEF TypeOK
<1>5. QED
  BY <1>3, <1>4 DEF Unsubscribe, stripeVars, row

LEMMA LiveOnceStep ==
    ASSUME IInv, SerialInv, [Next]_vars
    PROVE  LiveOnce'
<1> SUFFICES ASSUME NEW u \in Requests, NEW v \in Requests,
                    users'[u].email \in Emails,
                    users'[v].email = users'[u].email
             PROVE  v = u
  BY DEF LiveOnce, Live
<1>0. "deleted" \notin Emails /\ None \notin Emails
  BY EmailsAssumption
<1>1. ASSUME NEW r \in Requests, UserCreate(r)
      PROVE  /\ \A w \in Requests : users[w].email # request[r].email
             /\ users'[r].email = request[r].email
             /\ \A w \in Requests \ {r} : users'[w] = users[w]
  BY <1>1 DEF UserCreate, UpdateUser, FindByEmail, IInv, TypeOK, NoUser
<1>2. ASSUME NEW w \in Requests, users'[w].email \in Emails
      PROVE  users'[w].email = users[w].email \/ UserCreate(w)
  BY <1>0, <1>2, EmailsChange
<1>3. CASE users'[u].email = users[u].email /\ users'[v].email = users[v].email
  BY <1>3 DEF SerialInv, LiveOnce, Live
<1>4. CASE UserCreate(u)
  BY <1>1, <1>4
<1>5. CASE UserCreate(v)
  BY <1>1, <1>5
<1>6. QED
  BY <1>2, <1>3, <1>4, <1>5

LEMMA BlankRowsStep ==
    ASSUME IInv, SerialInv, Workers = 1, [Next]_vars
    PROVE  BlankRows'
<1> SUFFICES ASSUME NEW u \in Requests, users'[u].email = None
             PROVE  users'[u] = NoUser
  BY DEF BlankRows
<1>0. users[u].email = None => users[u] = NoUser
  BY DEF SerialInv, BlankRows
<1>1. CASE users' = users
  BY <1>0, <1>1
<1>2. ASSUME NEW w \in Requests, Unsubscribe(w)
      PROVE  users'[u] = NoUser
  BY <1>0, <1>2, UnsubscribeWrites, NoneAssumption DEF IInv
<1>3. ASSUME NEW r \in Requests, NEW step, Works(r, step)
      PROVE  users'[u] = NoUser
  <2>1. request[r].email \in Emails
    BY <1>3, WorksRecord
  <2>2. CASE step = "user_create"
    <3>1. users'[r].email = request[r].email
      BY <1>3, <2>2, RowCreated
    <3>2. QED
      BY <1>0, <1>3, <2>1, <2>2, <3>1, RowCreated, EmailsAssumption
  <2>3. CASE step # "user_create"
    <3>1. users'[u] = users[u] \/ u \in Found(r)
      BY <1>3, <2>3, RowAfter
    <3>2. users'[u].email = users[u].email
      BY <1>3, <2>3, FoundAfter
    <3>3. QED
      BY <1>0, <2>1, <3>1, <3>2, EmailsAssumption DEF Found, FindByEmail
  <2>4. QED
    BY <2>2, <2>3
<1>4. QED
  BY <1>1, <1>2, <1>3, SerialChange
     DEF Starts, Begun, Ends, vars, tsrVars

LEMMA UntouchedStep ==
    ASSUME IInv, SerialInv, Workers = 1, [Next]_vars
    PROVE  UntouchedKnown'
<1> SUFFICES ASSUME NEW x \in Requests, Untouched(request'[x])
             PROVE  x \notin accounts' /\ mails'[x] = None
  BY DEF UntouchedKnown
<1>0. x \notin accounts /\ mails[x] = None
  <2>1. Untouched(request[x])
    BY FormsStay
  <2>2. QED
    BY <2>1 DEF SerialInv, UntouchedKnown
<1>1. CASE accounts' = accounts /\ mails' = mails
  BY <1>0, <1>1
<1>2. ASSUME NEW r \in Requests, Ends(r)
      PROVE  x \notin accounts' /\ mails'[x] = None
  BY <1>0, <1>2 DEF Ends, Untouched
<1>3. ASSUME NEW r \in Requests, NEW step, Works(r, step)
      PROVE  x \notin accounts' /\ mails'[x] = None
  <2>1. x # r
    BY <1>3, WorksRecord DEF Untouched
  <2>2. accounts' \subseteq accounts \cup {r}
    BY <1>3 DEF Works, Keeps, Opens, Links
  <2>3. mails'[x] = mails[x]
    BY <1>3, <2>1 DEF Works, Queues, IInv, TypeOK
  <2>4. QED
    BY <1>0, <2>1, <2>2, <2>3
<1>4. QED
  BY <1>1, <1>2, <1>3, SerialChange
     DEF Starts, Unsubscribe, vars, tsrVars

\* A subscription row has the customer that the request charged.
LEMMA PayerStep ==
    ASSUME IInv, SerialInv, Workers = 1, [Next]_vars
    PROVE  RowNamesPayer'
<1> SUFFICES ASSUME NEW x \in Requests, tsrSubscription'[x] # None
             PROVE  tsrSubscription'[x].customer = charged'[x]
  BY DEF RowNamesPayer
<1>0. tsrSubscription[x] # None => tsrSubscription[x].customer = charged[x]
  BY DEF SerialInv, RowNamesPayer
<1>1. CASE tsrSubscription'[x] = tsrSubscription[x] /\ charged'[x] = charged[x]
  BY <1>0, <1>1
<1>2. ASSUME NEW step, Works(x, step)
      PROVE  tsrSubscription'[x].customer = charged'[x]
  <2> DEFINE q == request[x]
             p == request'[x]
  <2>1. Took(x, step) /\ RowHasCustomer(x) /\ CustomerPays(x)
    BY <1>2, WorkerKnown DEF Works
  <2>2. CASE step = "tsr_subscription"
    <3>1. tsrSubscription'[x] = p.held /\ charged'[x] = charged[x]
      BY <2>1, <2>2 DEF Took
    <3>2. charged[x] = q.customer
      <4>1. DoneBy(q, "charge")
        BY <2>1, <2>2, AtOrder DEF Took, Ordered, IInv
      <4>2. QED
        BY <2>1, <4>1 DEF CustomerPays
    <3>3. CASE q.kind = "prepayment"
      <4>1. DoneBy(q, "access")
        BY <2>1, <2>2, <3>3, AtOrder DEF Took, Ordered, IInv
      <4>2. p.held = q.held
        BY <2>1, <2>2, <3>3 DEF Took
      <4>3. QED
        BY <2>1, <3>1, <3>2, <3>3, <4>1, <4>2 DEF CustomerPays
    <3>4. CASE q.kind # "prepayment"
      <4>1. PICK u \in Found(x) : p.held = Read(x, u)
        BY <2>1, <2>2, <3>4 DEF Took, Found
      <4>2. q.situation \in {"no_card", "with_card"} \/ DoneBy(q, "customer_id")
        BY <1>2, <2>2, WorksRecord DEF SerialOrdered, Situations
      <4>3. users[u].cust[q.country] = q.customer
        BY <2>1, <4>2 DEF RowHasCustomer
      <4>4. QED
        BY <3>1, <3>2, <4>1, <4>3 DEF Read
    <3>5. QED
      BY <3>3, <3>4
  <2>3. CASE step = "charge"
    <3>1. ~DoneBy(q, "tsr_subscription")
      BY <1>2, <2>3, WorksRecord DEF SerialOrdered
    <3>2. tsrSubscription'[x] = tsrSubscription[x]
      BY <2>1, <2>3 DEF Took
    <3>3. QED
      BY <2>1, <3>1, <3>2 DEF CustomerPays
  <2>4. CASE step \notin {"tsr_subscription", "charge"}
    BY <1>0, <2>1, <2>4 DEF Took
  <2>5. QED
    BY <2>2, <2>3, <2>4
<1>3. ASSUME NEW r \in Requests, OthersStay(r), r # x \/ OwnStay(r)
      PROVE  tsrSubscription'[x] = tsrSubscription[x] /\ charged'[x] = charged[x]
  BY <1>3 DEF OthersStay, OwnStay
<1>4. QED
  BY <1>1, <1>2, <1>3, SerialChange
     DEF Starts, Begun, Ends, Ended, Works, Unsubscribe, vars, tsrVars,
         stripeVars

\* Who has Stripe customer x, or account x.
Owned(x) ==
    /\ x \in stripeCustomers =>
          \E u \in Requests, c \in Countries : users[u].cust[c] = x
    /\ x \in accounts => \E u \in Requests : users[u].account = x

LEMMA OrphansAreUnowned ==
    OrphansOnlyByFailure
        <=> \A x \in Requests :
                request[x].status \notin {"running", "failed"} => Owned(x)
BY DEF OrphansOnlyByFailure, Owned

\* A customer id is written only where there is none.
LEMMA CustomerStays ==
    ASSUME IInv, SerialInv, NEW r \in Requests, NEW step, Works(r, step),
           NEW u \in Requests, NEW c \in Countries, NEW x \in Requests,
           users[u].cust[c] = x
    PROVE  users'[u].cust[c] = x
<1>1. CASE step = "user_create"
  <2>1. users[r].cust[c] = None
    <3>1. users[r] = NoUser
      BY <1>1, RowCreated DEF SerialInv, BlankRows
    <3>2. QED
      BY <3>1 DEF NoUser
  <2>2. u # r
    BY <2>1, RequestsAssumption
  <2>3. QED
    BY <1>1, <2>2, RowCreated
<1>2. CASE step = "customer_id"
  <2> DEFINE q == request[r]
  <2>1. /\ q.kind # "reader" /\ q.situation \notin {"no_card", "with_card"}
        /\ ~DoneBy(q, "customer_id")
        /\ q.kind \in Kinds /\ q.situation \in Situations
    BY <1>2, WorksRecord DEF SerialOrdered
  <2>2. \A v \in Found(r) : users[v].cust[q.country] = None
    BY <2>1, WorkerKnown DEF RowHasCustomer, Kinds, Purchase, Situations
  <2>3. users'[u] = users[u] \/ u \in Found(r)
    BY <1>2, RowAfter
  <2>4. CASE u \in Found(r)
    <3>1. c # q.country
      BY <2>2, <2>4, RequestsAssumption
    <3>2. users'[u].cust = [users[u].cust EXCEPT ![q.country] = q.customer]
      <4>1. Written(r, "customer_id", users[u], users'[u])
        BY <1>2, <2>4, FoundWritten
      <4>2. QED
        BY <4>1 DEF Written
    <3>3. DOMAIN users[u].cust = Countries
      BY DEF IInv, TypeOK, UserRow
    <3>4. QED
      BY <3>1, <3>2, <3>3
  <2>5. QED
    BY <2>3, <2>4
<1>3. CASE step \notin {"user_create", "customer_id"}
  <2>1. CASE users'[u] = users[u]
    BY <2>1
  <2>2. CASE Written(r, step, users[u], users'[u])
    BY <1>3, <2>2 DEF Written
  <2>3. QED
    BY <1>3, <2>1, <2>2, RowAfter
<1>4. QED
  BY <1>1, <1>2, <1>3

\* A request that is through has put what it made into a row.
LEMMA EndedOwned ==
    ASSUME IInv, SerialInv, NEW r \in Requests, Ends(r),
           request'[r].status = "ok"
    PROVE  Owned(r)'
<1> DEFINE q == request[r]
           steps == Steps(q.kind, q.situation)
<1>1. /\ users' = users /\ accounts' = accounts
      /\ stripeCustomers' = stripeCustomers
      /\ q.status = "running" /\ q.at > Len(steps)
  BY EndedRecord DEF IInv, Ends
<1>2. /\ RowHasCustomer(r) /\ CustomerPays(r) /\ AccountInHand(r)
  BY <1>1 DEF SerialInv, RunningKnown, Running
<1>3. /\ q.kind \in Kinds /\ q.situation \in Situations /\ q.at \in Nat
      /\ q.country \in Countries
  BY <1>1 DEF IInv, TypeOK, RequestState, FormsKnown, Untouched
<1>4. /\ DOMAIN steps = 1..Len(steps) /\ Len(steps) \in Nat
      /\ q.kind \in Purchase => SerialComplete(q.situation, steps)
  BY <1>3, SerialOrder
<1>5. \A j \in 1..Len(steps) : DoneBy(q, steps[j])
  BY <1>1, <1>3, <1>4 DEF DoneBy
<1>6. r \in stripeCustomers =>
          \E u \in Requests, c \in Countries : users[u].cust[c] = r
  <2> SUFFICES ASSUME r \in stripeCustomers
               PROVE  \E u \in Requests, c \in Countries : users[u].cust[c] = r
    OBVIOUS
  <2>1. /\ q.customer = r /\ q.kind \in Purchase
        /\ q.situation \in {"new_user", "no_customer"}
    BY <1>2 DEF CustomerPays
  <2>2. /\ DoneBy(q, "customer_id")
        /\ q.situation = "new_user" => DoneBy(q, "user_create")
    BY <1>4, <1>5, <2>1 DEF SerialComplete
  <2>3. PICK u \in Found(r) : users[u].cust[q.country] = r
    BY <1>2, <2>1, <2>2 DEF RowHasCustomer
  <2>4. QED
    BY <1>3, <2>3 DEF Found, FindByEmail
<1>7. r \in accounts => \E u \in Requests : users[u].account = r
  <2>1. ~At(r, "account")
    BY <1>1, <1>3, <1>4 DEF At
  <2>2. QED
    BY <1>2, <2>1 DEF AccountInHand
<1>8. QED
  BY <1>1, <1>6, <1>7 DEF Owned

LEMMA OrphansStep ==
    ASSUME IInv, SerialInv, Workers = 1, [Next]_vars
    PROVE  OrphansOnlyByFailure'
<1> SUFFICES ASSUME NEW x \in Requests,
                    request'[x].status \notin {"running", "failed"}
             PROVE  Owned(x)'
  BY DEF OrphansOnlyByFailure, Owned
<1>0. request[x].status \notin {"running", "failed"} => Owned(x)
  BY OrphansAreUnowned DEF SerialInv
<1>1. CASE UNCHANGED vars
  BY <1>0, <1>1 DEF vars, tsrVars, stripeVars, Owned
<1>2. ASSUME NEW w \in Requests, Unsubscribe(w)
      PROVE  Owned(x)'
  <2>1. /\ UNCHANGED <<request, accounts, stripeCustomers>>
        /\ \A u \in Requests : /\ users'[u].cust = users[u].cust
                              /\ users'[u].account = users[u].account
    BY <1>2, UnsubscribeWrites DEF IInv
  <2>2. Owned(x)
    BY <1>0, <2>1
  <2>3. x \in stripeCustomers' =>
            \E u \in Requests, c \in Countries : users'[u].cust[c] = x
    BY <2>1, <2>2 DEF Owned
  <2>4. x \in accounts' => \E u \in Requests : users'[u].account = x
    BY <2>1, <2>2 DEF Owned
  <2>5. QED
    BY <2>3, <2>4 DEF Owned
<1>3. ASSUME NEW r \in Requests, Starts(r)
      PROVE  Owned(x)'
  <2>1. UNCHANGED <<users, accounts, stripeCustomers>>
    BY <1>3 DEF Starts, Begun
  <2>2. request[x].status \notin {"running", "failed"}
    BY <1>3 DEF Starts, Begun, OthersStay
  <2>3. QED
    BY <1>0, <2>1, <2>2 DEF Owned
<1>4. ASSUME NEW r \in Requests, Ends(r)
      PROVE  Owned(x)'
  <2>1. CASE x = r
    <3>1. request'[r].status = "ok"
      BY <1>4, <2>1, EndedRecord DEF IInv, Ends
    <3>2. QED
      BY <1>4, <2>1, <3>1, EndedOwned
  <2>2. CASE x # r
    <3>1. /\ request'[x] = request[x] /\ users' = users
          /\ x \in accounts' => x \in accounts
          /\ stripeCustomers' = stripeCustomers
      BY <1>4, <2>2 DEF Ends, Ended, OthersStay
    <3>2. QED
      BY <1>0, <3>1 DEF Owned
  <2>3. QED
    BY <2>1, <2>2
<1>5. ASSUME NEW r \in Requests, NEW step, Works(r, step)
      PROVE  Owned(x)'
  <2>1. x # r
    BY <1>5, WorksRecord
  <2>2. /\ request'[x] = request[x]
        /\ x \in stripeCustomers' => x \in stripeCustomers
        /\ x \in accounts' => x \in accounts
    BY <1>5, <2>1 DEF Works, OthersStay, Keeps, Opens, Links
  <2>3. Owned(x)
    BY <1>0, <2>2
  <2>4. x \in stripeCustomers' =>
            \E u \in Requests, c \in Countries : users'[u].cust[c] = x
    BY <1>5, <2>2, <2>3, CustomerStays DEF Owned
  <2>5. x \in accounts' => \E u \in Requests : users'[u].account = x
    BY <1>5, <2>2, <2>3, LinkStays DEF Owned
  <2>6. QED
    BY <2>4, <2>5 DEF Owned
<1>6. QED
  BY <1>1, <1>2, <1>3, <1>4, <1>5, SerialChange

\* What has been set up for a user is never taken back.
LEMMA SetUpStays ==
    ASSUME IInv, SerialInv, Workers = 1, [Next]_vars, NEW u \in Requests
    PROVE  /\ users[u].stories => users'[u].stories
           /\ users[u].access = "paid" => users'[u].access = "paid"
           /\ users[u].account # None => users'[u].account # None
           /\ \A c \in Countries :
                 users[u].card[c] # None => users'[u].card[c] # None
<1>1. CASE users' = users
  BY <1>1
<1>2. ASSUME NEW w \in Requests, Unsubscribe(w)
      PROVE  /\ users'[u].stories = users[u].stories
             /\ users'[u].access = users[u].access
             /\ users'[u].account = users[u].account
             /\ users'[u].card = users[u].card
  BY <1>2, UnsubscribeWrites DEF IInv
<1>3. ASSUME NEW r \in Requests, Works(r, "user_create")
      PROVE  users'[u] = users[u] \/ users[u] = NoUser
  <2>1. users[r] = NoUser
    BY <1>3, RowCreated DEF SerialInv, BlankRows
  <2>2. QED
    BY <1>3, <2>1, RowCreated
<1>4. ASSUME NEW r \in Requests, NEW step, Works(r, step), u \in Found(r),
             Written(r, step, users[u], users'[u])
      PROVE  /\ users[u].stories => users'[u].stories
             /\ users[u].access = "paid" => users'[u].access = "paid"
             /\ users[u].account # None => users'[u].account # None
             /\ \A c \in Countries :
                   users[u].card[c] # None => users'[u].card[c] # None
  <2> DEFINE q == request[r]
  <2>1. users[u].stories => users'[u].stories
    BY <1>4 DEF Written
  <2>2. users[u].account # None => users'[u].account # None
    BY <1>4, RequestsAssumption DEF Written
  <2>3. ASSUME NEW c \in Countries, users[u].card[c] # None
        PROVE  users'[u].card[c] # None
    <3>1. DOMAIN users[u].card = Countries
      BY DEF IInv, TypeOK, UserRow
    <3>2. \/ users'[u].card = users[u].card
          \/ users'[u].card = [users[u].card EXCEPT ![q.country] = r]
      BY <1>4 DEF Written
    <3>3. QED
      BY <2>3, <3>1, <3>2, RequestsAssumption
  <2>4. ~(step = "roles" /\ q.kind = "reader" /\ users[u].access = "paid")
    <3>1. SUFFICES ASSUME step = "roles", q.kind = "reader"
                   PROVE  users[u].access = None
      BY NoneAssumption
    <3>2. DoneBy(q, "user_create") /\ ~DoneBy(q, "roles")
      BY <1>4, <3>1, WorksRecord DEF SerialOrdered
    <3>3. QED
      BY <1>4, <3>1, <3>2, WorkerKnown DEF SetUpSoFar
  <2>5. users[u].access = "paid" => users'[u].access = "paid"
    BY <1>4, <2>4 DEF Written
  <2>6. QED
    BY <2>1, <2>2, <2>3, <2>5
<1>5. users[u] = NoUser =>
          /\ ~users[u].stories /\ users[u].access # "paid"
          /\ users[u].account = None
          /\ \A c \in Countries : users[u].card[c] = None
  BY NoneAssumption DEF NoUser
<1>6. ASSUME NEW r \in Requests, NEW step, Works(r, step)
      PROVE  \/ users'[u] = users[u] \/ users[u] = NoUser
             \/ u \in Found(r) /\ Written(r, step, users[u], users'[u])
  BY <1>3, <1>6, RowAfter
<1>7. QED
  BY <1>1, <1>2, <1>4, <1>5, <1>6, SerialChange
     DEF Starts, Begun, Ends, vars, tsrVars

\* The mail is the last of a handler's steps but what it is about.
LEMMA QueuedSetUp ==
    ASSUME IInv, SerialInv, NEW r \in Requests, Works(r, "mail")
    PROVE  LET u == mails'[r].user IN
           /\ u \in Requests /\ users' = users
           /\ users[u].stories
           /\ mails'[r].kind = "thank_you" =>
                 /\ users[u].access = "paid"
                 /\ users[u].card[request[r].country] # None
                 /\ users[u].account # None
                 /\ tsrInvoice[r] # None
<1> DEFINE q == request[r]
           steps == Steps(q.kind, q.situation)
<1>1. RowHasCustomer(r) /\ SetUpSoFar(r)
  BY WorkerKnown
<1>2. /\ \A a : After("mail", a, steps) => DoneBy(q, a)
      /\ SerialOrdered(q.kind, q.situation, steps) /\ q.kind \in Kinds
      /\ q.status = "running"
  BY WorksRecord
<1>3. /\ DoneBy(q, "user_create") /\ DoneBy(q, "stories")
      /\ q.kind # "reader" =>
            /\ DoneBy(q, "access") /\ DoneBy(q, "card")
            /\ DoneBy(q, "account") /\ DoneBy(q, "tsr_invoice")
  BY <1>2 DEF SerialOrdered
<1>4. Found(r) # {}
  BY <1>1, <1>3 DEF RowHasCustomer
<1>5. Queues(r) /\ users' = users
  BY DEF Works, Writes
<1>6. PICK u \in Found(r) :
          mails' = [mails EXCEPT ![r] =
              [kind |-> IF q.kind = "reader" THEN "welcome" ELSE "thank_you",
               user |-> u]]
  BY <1>4, <1>5 DEF Queues
<1>7. /\ mails'[r].user = u /\ u \in Requests
      /\ mails'[r].kind = "thank_you" => q.kind # "reader"
  BY <1>6 DEF IInv, TypeOK, Found, FindByEmail
<1>8. users[u].stories
  BY <1>1, <1>3, <1>6 DEF SetUpSoFar
<1>9. q.kind # "reader" =>
          /\ users[u].access = "paid" /\ users[u].card[q.country] # None
          /\ users[u].account # None
  BY <1>1, <1>2, <1>3, <1>6 DEF SetUpSoFar, Kinds, Purchase
<1>10. q.kind # "reader" => tsrInvoice[r] # None
  BY <1>2, <1>3 DEF IInv, StepsLeaveMarks, Marked
<1>11. QED
  BY <1>5, <1>7, <1>8, <1>9, <1>10

\* An invoice row stays.
LEMMA InvoiceStays ==
    ASSUME IInv, SerialInv, Workers = 1, [Next]_vars, NEW x \in Requests,
           tsrInvoice[x] # None
    PROVE  tsrInvoice'[x] # None
<1>1. ASSUME NEW step, Works(x, step)
      PROVE  tsrInvoice'[x] # None
  BY <1>1, RowsAssumption DEF Works, Took
<1>2. ASSUME NEW r \in Requests, OthersStay(r), r # x \/ OwnStay(r)
      PROVE  tsrInvoice'[x] = tsrInvoice[x]
  BY <1>2 DEF OthersStay, OwnStay
<1>3. QED
  BY <1>1, <1>2, SerialChange
     DEF Starts, Begun, Ends, Ended, Works, Unsubscribe, vars, tsrVars

LEMMA MailedStep ==
    ASSUME IInv, SerialInv, Workers = 1, [Next]_vars
    PROVE  MailedUsersAreSetUp'
<1> DEFINE SetUp(x) ==
             LET u == mails'[x].user IN
             /\ u # None /\ users'[u].stories
             /\ mails'[x].kind = "thank_you" =>
                   /\ users'[u].access = "paid"
                   /\ users'[u].card[request'[x].country] # None
                   /\ users'[u].account # None
                   /\ tsrInvoice'[x] # None
<1> SUFFICES ASSUME NEW x \in Requests, mails'[x] # None
             PROVE  SetUp(x)
  BY DEF MailedUsersAreSetUp
<1>1. CASE mails'[x] = mails[x]
  <2> DEFINE u == mails[x].user
  <2>1. /\ u # None /\ users[u].stories
        /\ mails[x].kind = "thank_you" =>
              /\ users[u].access = "paid"
              /\ users[u].card[request[x].country] # None
              /\ users[u].account # None
              /\ tsrInvoice[x] # None
    BY <1>1 DEF SerialInv, MailedUsersAreSetUp
  <2>2. u \in Requests
    BY <1>1, <2>1 DEF IInv, TypeOK, MailJob, MaybeRequest
  <2>3. ~Untouched(request[x])
    BY <1>1 DEF SerialInv, UntouchedKnown
  <2>4. request'[x].country = request[x].country /\ request[x].country \in Countries
    BY <2>3, FormsStay DEF IInv, FormsKnown
  <2>5. QED
    BY <1>1, <2>1, <2>2, <2>4, SetUpStays, InvoiceStays
<1>2. ASSUME Works(x, "mail")
      PROVE  SetUp(x)
  <2>1. /\ request'[x].country = request[x].country
        /\ tsrInvoice'[x] = tsrInvoice[x]
    BY <1>2, WorksRecord DEF Works, Took
  <2>2. QED
    BY <1>2, <2>1, QueuedSetUp, RequestsAssumption
<1>3. ASSUME NEW r \in Requests, NEW step, Works(r, step),
             r # x \/ step # "mail"
      PROVE  mails'[x] = mails[x]
  BY <1>3 DEF Works, Queues, IInv, TypeOK
<1>4. QED
  BY <1>1, <1>2, <1>3, SerialChange
     DEF Starts, Ends, Unsubscribe, vars, tsrVars

-----------------------------------------------------------------------------
(* The serial properties.                                                  *)

LEMMA SerialInit == Init => SerialInv
<1> SUFFICES ASSUME Init
             PROVE  SerialInv
  OBVIOUS
<1>1. /\ \A u \in Requests : users[u] = NoUser /\ users[u].email = None
      /\ \A r \in Requests :
            /\ request[r] = IdleRequest /\ request[r].status = "idle"
            /\ mails[r] = None /\ tsrSubscription[r] = None
      /\ accounts = {} /\ stripeCustomers = {}
  BY DEF Init, NoUser, IdleRequest
<1>2. Running = {}
  BY <1>1 DEF Running
<1>3. Alone /\ RunningKnown
  BY <1>2 DEF Alone, RunningKnown
<1>4. LiveOnce /\ BlankRows
  BY <1>1, EmailsAssumption DEF LiveOnce, Live, BlankRows
<1>5. UntouchedKnown /\ RowNamesPayer /\ OrphansOnlyByFailure
      /\ MailedUsersAreSetUp
  BY <1>1 DEF UntouchedKnown, RowNamesPayer, OrphansOnlyByFailure,
              MailedUsersAreSetUp
<1>6. QED
  BY <1>3, <1>4, <1>5 DEF SerialInv

LEMMA SerialStep ==
    ASSUME Workers = 1
    PROVE  IInv /\ SerialInv /\ [Next]_vars => SerialInv'
<1> SUFFICES ASSUME IInv, SerialInv, [Next]_vars
             PROVE  SerialInv'
  OBVIOUS
<1>1. Alone' /\ RunningKnown'
  BY RunningChange, RunningKnownStep
<1>2. LiveOnce' /\ BlankRows' /\ UntouchedKnown'
  BY LiveOnceStep, BlankRowsStep, UntouchedStep
<1>3. RowNamesPayer' /\ OrphansOnlyByFailure' /\ MailedUsersAreSetUp'
  BY PayerStep, OrphansStep, MailedStep
<1>4. QED
  BY <1>1, <1>2, <1>3 DEF SerialInv

\* With one worker, IInv and SerialInv hold in every reachable state.
THEOREM SerialInvariance ==
    ASSUME Workers = 1
    PROVE  Spec => [](IInv /\ SerialInv)
<1>1. Init => SerialInv
  BY SerialInit
<1>2. IInv /\ SerialInv /\ [Next]_vars => SerialInv'
  BY SerialStep
<1>3. QED
  BY <1>1, <1>2, Invariance, PTL DEF Spec

\* With one worker, a subscription row names the customer who pays for it,
\* whatever failed forms have left in the row of the user.
THEOREM PayerNamed ==
    ASSUME Workers = 1
    PROVE  Spec => []RowNamesPayer
<1>1. SerialInv => RowNamesPayer
  BY DEF SerialInv
<1>2. QED
  BY <1>1, SerialInvariance, PTL

\* With one worker, only a request that failed leaves a Stripe customer or an
\* account that no user's row refers to.
THEOREM OrphansByFailure ==
    ASSUME Workers = 1
    PROVE  Spec => []OrphansOnlyByFailure
<1>1. SerialInv => OrphansOnlyByFailure
  BY DEF SerialInv
<1>2. QED
  BY <1>1, SerialInvariance, PTL

\* With one worker, who has a mail has all that the mail is about.
THEOREM MailedSetUp ==
    ASSUME Workers = 1
    PROVE  Spec => []MailedUsersAreSetUp
<1>1. SerialInv => MailedUsersAreSetUp
  BY DEF SerialInv
<1>2. QED
  BY <1>1, SerialInvariance, PTL

\* With one worker, no form takes a bought period away again.
THEOREM PaidKept ==
    ASSUME Workers = 1
    PROVE  Spec => PaidAccessKept
<1>1. IInv /\ SerialInv /\ [Next]_vars =>
          [\A u \in Requests :
              users[u].access = "paid" => users'[u].access = "paid"]_vars
  BY SetUpStays
<1>2. QED
  BY <1>1, SerialInvariance, PTL DEF Spec, PaidAccessKept

-----------------------------------------------------------------------------
(***************************************************************************)
(* Why every request ends.  That it does (RequestsEnd) needs fairness; but *)
(* what fairness is to bring about is a matter of single steps: a request  *)
(* that runs can always go on, and whenever it does it has less left to do.*)
(* This is for any number of workers.                                      *)
(***************************************************************************)
(* A request has less left to do.                                          *)

StepsOf(r) == Steps(request[r].kind, request[r].situation)

StepNames ==
    {"customer", "charge", "user_create", "roles", "stories", "customer_id",
     "card", "update_card", "access", "account", "tsr_subscription",
     "tsr_invoice", "mail"}

\* at is one of the steps, or past the last.
PlaceKnown == \A r \in Running : request[r].at \in 1..(Len(StepsOf(r)) + 1)

\* The steps ahead count double: user_account is one of them and makes two
\* commits, Account.create and the update.
WorkLeft(r) ==
    IF request[r].status # "running" THEN 0
    ELSE 2 * (Len(StepsOf(r)) + 1 - request[r].at)
         + IF r \in accounts THEN 1 ELSE 2

WorkShrinks(r) ==
    /\ WorkLeft(r) \in Nat /\ WorkLeft(r)' \in Nat
    /\ WorkLeft(r)' <= WorkLeft(r)
    /\ Progress(r) => WorkLeft(r)' < WorkLeft(r)

LEMMA SubscriptionStepsNamed ==
    ASSUME NEW situation \in Situations
    PROVE  LET steps == SubscriptionSteps[situation] IN
           /\ DOMAIN steps = 1..Len(steps) /\ Len(steps) \in Nat
           /\ \A i \in DOMAIN steps : steps[i] \in StepNames
<1>1. CASE situation = "new_user"
  BY <1>1 DEF SubscriptionSteps, StepNames
<1>2. CASE situation = "no_customer"
  BY <1>2 DEF SubscriptionSteps, StepNames
<1>3. CASE situation = "no_card"
  BY <1>3 DEF SubscriptionSteps, StepNames
<1>4. CASE situation = "with_card"
  BY <1>4 DEF SubscriptionSteps, StepNames
<1>5. QED
  BY <1>1, <1>2, <1>3, <1>4 DEF Situations

LEMMA PrepaymentStepsNamed ==
    ASSUME NEW situation \in Situations
    PROVE  LET steps == PrepaymentSteps[situation] IN
           /\ DOMAIN steps = 1..Len(steps) /\ Len(steps) \in Nat
           /\ \A i \in DOMAIN steps : steps[i] \in StepNames
<1>1. CASE situation = "new_user"
  BY <1>1 DEF PrepaymentSteps, StepNames
<1>2. CASE situation = "no_customer"
  BY <1>2 DEF PrepaymentSteps, StepNames
<1>3. CASE situation = "no_card"
  BY <1>3 DEF PrepaymentSteps, StepNames
<1>4. CASE situation = "with_card"
  BY <1>4 DEF PrepaymentSteps, StepNames
<1>5. QED
  BY <1>1, <1>2, <1>3, <1>4 DEF Situations

LEMMA ReaderStepsNamed ==
    /\ DOMAIN ReaderSteps = 1..Len(ReaderSteps) /\ Len(ReaderSteps) \in Nat
    /\ \A i \in DOMAIN ReaderSteps :
          ReaderSteps[i] \in StepNames \ {"tsr_subscription"}
BY DEF ReaderSteps, StepNames

LEMMA StepsNamed ==
    ASSUME TypeOK, NEW r \in Requests
    PROVE  /\ DOMAIN StepsOf(r) = 1..Len(StepsOf(r)) /\ Len(StepsOf(r)) \in Nat
           /\ \A i \in DOMAIN StepsOf(r) :
                 /\ StepsOf(r)[i] \in StepNames
                 /\ request[r].kind = "reader"
                       => StepsOf(r)[i] # "tsr_subscription"
<1>1. request[r].kind \in Kinds /\ request[r].situation \in Situations
  BY DEF TypeOK, RequestState
<1>2. CASE request[r].kind = "subscription"
  BY <1>1, <1>2, SubscriptionStepsNamed DEF StepsOf, Steps
<1>3. CASE request[r].kind = "prepayment"
  BY <1>1, <1>3, PrepaymentStepsNamed DEF StepsOf, Steps
<1>4. CASE request[r].kind = "reader"
  BY <1>4, ReaderStepsNamed DEF StepsOf, Steps
<1>5. QED
  BY <1>1, <1>2, <1>3, <1>4 DEF Kinds

\* What a step does to the place of the request that takes it.
LEMMA PlaceMoves ==
    ASSUME IInv, PlaceKnown, NEW r \in Running, NEW step, Took(r, step)
    PROVE  /\ request'[r].status = "running" /\ StepsOf(r)' = StepsOf(r)
           /\ request[r].at \in 1..Len(StepsOf(r))
           /\ \/ request'[r].at = request[r].at + 1
              \/ step = "account" /\ request'[r].at = request[r].at
<1>1. r \in Requests /\ At(r, step) /\ Passed(request[r], request'[r], step)
  BY DEF Took, Running
<1>2. /\ request[r].status = "running"
      /\ request[r].at \in DOMAIN StepsOf(r)
  BY <1>1 DEF At, StepsOf
<1>3. DOMAIN StepsOf(r) = 1..Len(StepsOf(r))
  BY <1>1, StepsNamed DEF IInv
<1>4. QED
  BY <1>1, <1>2, <1>3 DEF Passed, StepsOf

LEMMA PlaceStep == IInv /\ PlaceKnown /\ [Next]_vars => PlaceKnown'
<1> SUFFICES ASSUME IInv, PlaceKnown, [Next]_vars, NEW x \in Running'
             PROVE  request'[x].at \in 1..(Len(StepsOf(x)') + 1)
  BY DEF PlaceKnown
<1>0. x \in Requests /\ request'[x].status = "running"
  BY DEF Running
<1>1. CASE request'[x] = request[x]
  <2>1. x \in Running /\ StepsOf(x)' = StepsOf(x)
    BY <1>0, <1>1 DEF Running, StepsOf
  <2>2. QED
    BY <1>1, <2>1 DEF PlaceKnown
<1>2. CASE Begun(x)
  <2>1. request'[x].at = 1
    BY <1>0, <1>2, BegunRecord
  <2>2. TypeOK'
    BY TypeStep
  <2>3. Len(StepsOf(x)') \in Nat
    <3>1. /\ request'[x].kind \in Kinds
          /\ request'[x].situation \in Situations
      BY <1>0, <2>2 DEF TypeOK, RequestState
    <3>2. QED
      BY <3>1, SubscriptionStepsNamed, PrepaymentStepsNamed, ReaderStepsNamed
         DEF StepsOf, Steps, Kinds
  <2>4. QED
    BY <2>1, <2>3
<1>3. ASSUME Ended(x)
      PROVE  FALSE
  BY <1>0, <1>3, EndedRecord DEF IInv
<1>4. ASSUME NEW step, Took(x, step)
      PROVE  request'[x].at \in 1..(Len(StepsOf(x)') + 1)
  <2>1. x \in Running
    BY <1>0, <1>4 DEF Took, At, Running
  <2>2. Len(StepsOf(x)) \in Nat
    BY <1>0, StepsNamed DEF IInv
  <2>3. QED
    BY <1>4, <2>1, <2>2, PlaceMoves
<1>5. QED
  BY <1>0, <1>1, <1>2, <1>3, <1>4, RequestsChange DEF OthersStay

LEMMA AccountsGrow ==
    ASSUME [Next]_vars
    PROVE  accounts \subseteq accounts'
<1>1. ASSUME NEW r \in Requests, Progress(r)
      PROVE  accounts \subseteq accounts'
  BY <1>1 DEF Progress, NewStripeCustomer, StripeCharge, UserCreate, UserExists,
              Roles, Stories, CustomerId, Card, UpdateCard, UpdateCardRescued,
              Access, KeepAccount, CreateAccount, LinkAccount,
              TsrSubscription, TsrInvoice, Mail, NilUser, Answer, UpdateUser,
              tsrVars
<1>2. ASSUME NEW r \in Requests, Submit(r) \/ Abandon(r) \/ Unsubscribe(r)
      PROVE  accounts' = accounts
  BY <1>2 DEF Submit, Abandon, Unsubscribe, tsrVars
<1>3. CASE UNCHANGED vars
  BY <1>3 DEF vars, tsrVars
<1>4. QED
  BY <1>1, <1>2, <1>3 DEF Next

\* Only Account.create leaves a request at the step at which it was.
LEMMA OnwardOrAccount ==
    ASSUME TypeOK, NEW r \in Requests, Progress(r),
           ~(UserExists(r) \/ NilUser(r) \/ Answer(r) \/ CreateAccount(r))
    PROVE  request'[r].at = request[r].at + 1
<1>1. ASSUME Advance(r)
      PROVE  request'[r].at = request[r].at + 1
  BY <1>1 DEF Advance, TypeOK, RequestState
<1>2. ASSUME NEW held,
             request' = [request EXCEPT ![r].held = held, ![r].at = @ + 1]
      PROVE  request'[r].at = request[r].at + 1
  BY <1>2 DEF TypeOK, RequestState
<1>3. CASE NewStripeCustomer(r) \/ UpdateCardRescued(r)
  BY <1>3 DEF NewStripeCustomer, UpdateCardRescued, TypeOK, RequestState
<1>4. CASE \/ UserCreate(r) \/ Roles(r) \/ Stories(r) \/ CustomerId(r)
           \/ Card(r) \/ UpdateCard(r) \/ LinkAccount(r)
  BY <1>1, <1>4 DEF UserCreate, Roles, Stories, CustomerId, Card, UpdateCard,
                    LinkAccount, UpdateUser
<1>5. CASE StripeCharge(r) \/ KeepAccount(r) \/ TsrInvoice(r) \/ Mail(r)
  BY <1>1, <1>5 DEF StripeCharge, KeepAccount, TsrInvoice, Mail
<1>6. CASE Access(r) \/ TsrSubscription(r)
  BY <1>2, <1>6 DEF Access, TsrSubscription
<1>7. QED
  BY <1>3, <1>4, <1>5, <1>6 DEF Progress

\* What is left is a number, and falls when the place moves on, or stays and
\* an account appears.
LEMMA WorkCounted ==
    ASSUME IInv, PlaceKnown, NEW r \in Running
    PROVE  /\ WorkLeft(r) \in Nat \ {0}
           /\ request'[r].status # "running" => WorkLeft(r)' = 0
           /\ \A d \in {0, 1} :
                 /\ request'[r].status = "running"
                 /\ StepsOf(r)' = StepsOf(r)
                 /\ request'[r].at = request[r].at + d
                 /\ request'[r].at <= Len(StepsOf(r)) + 1
                 /\ r \in accounts => r \in accounts'
                 => /\ WorkLeft(r)' \in Nat /\ WorkLeft(r)' <= WorkLeft(r)
                    /\ d = 1 \/ (r \notin accounts /\ r \in accounts')
                          => WorkLeft(r)' < WorkLeft(r)
<1>1. /\ request[r].status = "running" /\ request[r].at \in Nat
      /\ request[r].at \in 1..(Len(StepsOf(r)) + 1) /\ Len(StepsOf(r)) \in Nat
  BY StepsNamed DEF PlaceKnown, Running, IInv, TypeOK, RequestState
<1> DEFINE left == Len(StepsOf(r)) + 1 - request[r].at
           own  == IF r \in accounts THEN 1 ELSE 2
<1>2. left \in Nat /\ WorkLeft(r) = 2 * left + own
  BY <1>1 DEF WorkLeft
<1>3. WorkLeft(r) \in Nat \ {0}
  BY <1>2
<1>4. request'[r].status # "running" => WorkLeft(r)' = 0
  BY DEF WorkLeft
<1>5. ASSUME NEW d \in {0, 1}, request'[r].status = "running",
             StepsOf(r)' = StepsOf(r), request'[r].at = request[r].at + d,
             request'[r].at <= Len(StepsOf(r)) + 1,
             r \in accounts => r \in accounts'
      PROVE  /\ WorkLeft(r)' \in Nat /\ WorkLeft(r)' <= WorkLeft(r)
             /\ d = 1 \/ (r \notin accounts /\ r \in accounts')
                   => WorkLeft(r)' < WorkLeft(r)
  <2>1. WorkLeft(r)' = 2 * (Len(StepsOf(r)) + 1 - (request[r].at + d))
                       + (IF r \in accounts' THEN 1 ELSE 2)
    BY <1>5 DEF WorkLeft
  <2> DEFINE new == IF r \in accounts' THEN 1 ELSE 2
  <2>2. /\ own \in 1..2 /\ new \in 1..2 /\ new <= own
        /\ r \notin accounts /\ r \in accounts' => new < own
    BY <1>5
  <2>3. request[r].at + d \in Nat /\ request[r].at + d <= Len(StepsOf(r)) + 1
    BY <1>1, <1>5
  <2>4. WorkLeft(r)' = 2 * (left - d) + new /\ left - d \in Nat
    <3>1. Len(StepsOf(r)) + 1 - (request[r].at + d) = left - d
      BY <1>1, <1>5
    <3>2. left - d \in Nat
      BY <1>1, <1>5, <2>3
    <3>3. QED
      BY <2>1, <3>1, <3>2
  <2> HIDE DEF left, own, new
  <2>5. CASE d = 0
    BY <1>2, <2>2, <2>4, <2>5
  <2>6. CASE d = 1
    BY <1>2, <2>2, <2>4, <2>6
  <2>7. QED
    BY <2>5, <2>6
<1>6. QED
  BY <1>3, <1>4, <1>5

LEMMA ShrinksStep ==
    ASSUME IInv, PlaceKnown, [Next]_vars, NEW r \in Running
    PROVE  WorkShrinks(r)
<1>0. /\ r \in Requests /\ request[r].status = "running"
      /\ r \in accounts => r \in accounts'
      /\ request[r].at \in 1..(Len(StepsOf(r)) + 1) /\ Len(StepsOf(r)) \in Nat
  BY AccountsGrow, StepsNamed DEF Running, PlaceKnown, IInv
<1>1. WorkLeft(r) \in Nat
  BY WorkCounted
<1>2. /\ WorkLeft(r)' \in Nat /\ WorkLeft(r)' <= WorkLeft(r)
  <2>1. CASE request'[r] = request[r]
    <3>1. /\ request'[r].status = "running" /\ StepsOf(r)' = StepsOf(r)
          /\ request'[r].at = request[r].at + 0
          /\ request'[r].at <= Len(StepsOf(r)) + 1
      BY <1>0, <2>1 DEF StepsOf
    <3>2. QED
      BY <1>0, <3>1, WorkCounted
  <2>2. CASE Ended(r)
    <3>1. request'[r].status # "running"
      BY <1>0, <2>2, EndedRecord DEF IInv
    <3>2. QED
      BY <1>1, <3>1, WorkCounted
  <2>3. ASSUME NEW step, Took(r, step)
        PROVE  WorkLeft(r)' \in Nat /\ WorkLeft(r)' <= WorkLeft(r)
    <3>1. /\ request'[r].status = "running" /\ StepsOf(r)' = StepsOf(r)
          /\ request[r].at \in 1..Len(StepsOf(r))
          /\ \/ request'[r].at = request[r].at + 1
             \/ request'[r].at = request[r].at
      BY <2>3, PlaceMoves
    <3>2. \E d \in {0, 1} : /\ request'[r].at = request[r].at + d
                            /\ request'[r].at <= Len(StepsOf(r)) + 1
      BY <1>0, <3>1
    <3>3. QED
      BY <1>0, <3>1, <3>2, WorkCounted
  <2>4. ~Begun(r)
    BY <1>0 DEF Begun
  <2>5. QED
    BY <1>0, <2>1, <2>2, <2>3, <2>4, RequestsChange DEF OthersStay
<1>3. ASSUME Progress(r)
      PROVE  WorkLeft(r)' < WorkLeft(r)
  <2>1. CASE UserExists(r) \/ NilUser(r) \/ Answer(r)
    <3>1. request'[r].status # "running"
      BY <1>0, <2>1, ActionEnds, EndedRecord DEF IInv
    <3>2. QED
      BY <3>1, WorkCounted
  <2>2. CASE ~(UserExists(r) \/ NilUser(r) \/ Answer(r))
    <3>1. PICK step : Took(r, step)
      BY <1>0, <1>3, <2>2, ActionTakes
    <3>2. /\ request'[r].status = "running" /\ StepsOf(r)' = StepsOf(r)
          /\ request[r].at \in 1..Len(StepsOf(r))
          /\ \/ request'[r].at = request[r].at + 1
             \/ request'[r].at = request[r].at
      BY <3>1, PlaceMoves
    <3>3. CASE request'[r].at = request[r].at + 1
      <4>1. request'[r].at <= Len(StepsOf(r)) + 1
        BY <1>0, <3>2, <3>3
      <4>2. QED
        BY <1>0, <3>2, <3>3, <4>1, WorkCounted
    <3>4. CASE request'[r].at = request[r].at
      <4>1. request'[r].at = request[r].at + 0
            /\ request'[r].at <= Len(StepsOf(r)) + 1
        BY <1>0, <3>4
      <4>2. CreateAccount(r)
        BY <1>0, <1>3, <2>2, <3>4, OnwardOrAccount DEF IInv
      <4>3. r \notin accounts /\ r \in accounts'
        BY <4>2 DEF CreateAccount
      <4>4. QED
        BY <1>0, <3>2, <4>1, <4>3, WorkCounted
    <3>5. QED
      BY <3>2, <3>3, <3>4
  <2>3. QED
    BY <2>1, <2>2
<1>4. QED
  BY <1>1, <1>2, <1>3 DEF WorkShrinks

\* A request that runs is at one of its handler's steps, or through.
THEOREM PlacesKnown == Spec => [](IInv /\ PlaceKnown)
<1>1. Init => PlaceKnown
  BY DEF Init, PlaceKnown, Running, IdleRequest
<1>2. IInv /\ PlaceKnown /\ [Next]_vars => PlaceKnown'
  BY PlaceStep
<1>3. QED
  BY <1>1, <1>2, Invariance, PTL DEF Spec

\* Nothing that happens gives a request more to do, and whatever it does itself
\* leaves it less: it cannot go on for ever.
THEOREM WorkRunsOut == Spec => [][\A r \in Running : WorkShrinks(r)]_vars
<1>1. IInv /\ PlaceKnown /\ [Next]_vars =>
          [\A r \in Running : WorkShrinks(r)]_vars
  BY ShrinksStep
<1>2. QED
  BY <1>1, PlacesKnown, PTL DEF Spec


-----------------------------------------------------------------------------
(* A request that runs can go on: here is a state that it can go to.       *)

\* A state, and a step to it.
Here ==
    [users |-> users, accounts |-> accounts,
     tsrSubscription |-> tsrSubscription, tsrInvoice |-> tsrInvoice,
     mails |-> mails, stripeCustomers |-> stripeCustomers,
     charged |-> charged, request |-> request]

GoesTo(s) ==
    /\ users' = s.users /\ accounts' = s.accounts
    /\ tsrSubscription' = s.tsrSubscription /\ tsrInvoice' = s.tsrInvoice
    /\ mails' = s.mails /\ stripeCustomers' = s.stripeCustomers
    /\ charged' = s.charged /\ request' = s.request

Ending(r, status) ==
    [Here EXCEPT !.request = [request EXCEPT ![r] =
        [@ EXCEPT !.status = status, !.situation = "new_user",
                  !.at = 1, !.customer = None, !.held = None,
                  !.redirected = FALSE]]]

Onward(r) == [request EXCEPT ![r].at = @ + 1]

Updating(r, u, row) ==
    [Here EXCEPT !.users = [users EXCEPT ![u] = row], !.request = Onward(r)]

\* For steps that find the user by e-mail: of user u, if there is one.
WithUser(r, step, u) ==
    LET q == request[r]
        reading == [request EXCEPT ![r].held = Read(r, u), ![r].at = @ + 1]
    IN
    CASE step = "roles"       -> Updating(r, u, GivenRole(users[u], q.kind))
      [] step = "stories"     -> Updating(r, u, [users[u] EXCEPT !.stories = TRUE])
      [] step = "customer_id" ->
            Updating(r, u, [users[u] EXCEPT !.cust[q.country] = q.customer])
      [] step = "card" ->
            Updating(r, u, [users[u] EXCEPT !.card[q.country] = r])
      [] step = "access" ->
            [Here EXCEPT
                !.users = [users EXCEPT ![u].access = "paid"],
                !.request = IF q.kind = "prepayment" THEN reading
                            ELSE Onward(r)]
      [] step = "account" ->
            IF users[u].account # None
            THEN [Here EXCEPT !.request = Onward(r)]
            ELSE [Here EXCEPT
                    !.accounts = accounts \cup {r},
                    !.request = [request EXCEPT ![r].held = Read(r, u)]]
      [] step = "tsr_subscription" ->
            [Here EXCEPT
                !.tsrSubscription = [tsrSubscription EXCEPT ![r] = Read(r, u)],
                !.request = reading]

\* What can happen next in a request that runs.
Outcome(r) ==
    LET q     == request[r]
        step  == StepsOf(r)[q.at]
        found == FindByEmail(q.email)
        one   == CHOOSE u \in found : TRUE
    IN
    IF q.at > Len(StepsOf(r))
    THEN Ending(r, IF q.redirected THEN "failed" ELSE "ok")
    ELSE
    CASE step = "customer" ->
            [Here EXCEPT
                !.stripeCustomers = stripeCustomers \cup {r},
                !.request = [request EXCEPT ![r].customer = r, ![r].at = @ + 1]]
      [] step = "charge" ->
            [Here EXCEPT !.charged = [charged EXCEPT ![r] = q.customer],
                         !.request = Onward(r)]
      [] step = "user_create" ->
            IF found = {} THEN Updating(r, r, [NoUser EXCEPT !.email = q.email])
            ELSE Ending(r, "failed")
      [] step = "update_card" ->
            [Here EXCEPT !.request = [request EXCEPT ![r].redirected = TRUE,
                                                     ![r].at = @ + 1]]
      [] step = "account" /\ r \in accounts ->
            Updating(r, q.held.user, Linked(r, q.held.user))
      [] step = "tsr_subscription" /\ q.kind = "prepayment" ->
            [Here EXCEPT
                !.tsrSubscription = [tsrSubscription EXCEPT ![r] = q.held],
                !.request = [request EXCEPT ![r].held = q.held,
                                            ![r].at = @ + 1]]
      [] step = "tsr_invoice" ->
            [Here EXCEPT
                !.tsrInvoice = [tsrInvoice EXCEPT ![r] =
                    [user |-> q.held.user,
                     subscription |-> IF q.kind = "prepayment" THEN r ELSE "0"]],
                !.request = Onward(r)]
      [] step = "mail" ->
            [Here EXCEPT
                !.mails = [mails EXCEPT ![r] =
                    [kind |-> IF q.kind = "reader"
                              THEN "welcome" ELSE "thank_you",
                     user |-> IF found = {} THEN None ELSE one]],
                !.request = Onward(r)]
      [] OTHER ->
            IF found # {} THEN WithUser(r, step, one)
            ELSE [Ending(r, "failed") EXCEPT
                    !.accounts = IF step = "account" THEN accounts \cup {r}
                                 ELSE accounts]

\* The steps that look for the user, when there is one.
LEMMA UserGoesOn ==
    ASSUME TypeOK, NEW r \in Requests, NEW step, At(r, step),
           step \in {"roles", "stories", "customer_id", "card", "access",
                     "account", "tsr_subscription"},
           ~(step = "account" /\ r \in accounts),
           ~(step = "tsr_subscription" /\ request[r].kind = "prepayment"),
           NEW u \in FindByEmail(request[r].email), GoesTo(WithUser(r, step, u))
    PROVE  Progress(r)
<1> DEFINE q == request[r]
           reading == [request EXCEPT ![r].held = Read(r, u), ![r].at = @ + 1]
<1>1. ASSUME NEW row, GoesTo(Updating(r, u, row))
      PROVE  UpdateUser(r, u, row)
  BY <1>1 DEF GoesTo, Updating, Here, Onward, UpdateUser, Advance, stripeVars
<1>2. CASE step = "roles"
  <2>1. Roles(r)
    BY <1>1, <1>2 DEF WithUser, Roles
  <2>2. QED
    BY <2>1 DEF Progress
<1>3. CASE step = "stories"
  <2>1. Stories(r)
    BY <1>1, <1>3 DEF WithUser, Stories
  <2>2. QED
    BY <2>1 DEF Progress
<1>4. CASE step = "customer_id"
  <2>1. CustomerId(r)
    BY <1>1, <1>4 DEF WithUser, CustomerId
  <2>2. QED
    BY <2>1 DEF Progress
<1>5. CASE step = "card"
  <2>1. Card(r)
    BY <1>1, <1>5 DEF WithUser, Card
  <2>2. QED
    BY <2>1 DEF Progress
<1>6. CASE step = "access"
  <2>1. WithUser(r, step, u) =
            [Here EXCEPT
                !.users = [users EXCEPT ![u].access = "paid"],
                !.request = IF q.kind = "prepayment" THEN reading
                            ELSE Onward(r)]
    BY <1>6 DEF WithUser
  <2>2. request' = [request EXCEPT
                       ![r].held = IF request[r].kind = "prepayment"
                                   THEN Read(r, u) ELSE @,
                       ![r].at = @ + 1]
    <3>1. CASE q.kind = "prepayment"
      BY <2>1, <3>1 DEF GoesTo, Here
    <3>2. CASE q.kind # "prepayment"
      <4>1. request' = [request EXCEPT ![r].at = @ + 1]
        BY <2>1, <3>2 DEF GoesTo, Here, Onward
      <4>2. QED
        BY <3>2, <4>1 DEF TypeOK, RequestState
    <3>3. QED
      BY <3>1, <3>2
  <2>3. Access(r)
    BY <1>6, <2>1, <2>2 DEF GoesTo, Here, Access, stripeVars
  <2>4. QED
    BY <2>3 DEF Progress
<1>7. CASE step = "account" /\ users[u].account # None
  <2>1. KeepAccount(r)
    BY <1>7 DEF WithUser, GoesTo, Here, Onward, KeepAccount, Advance, tsrVars,
                stripeVars
  <2>2. QED
    BY <2>1 DEF Progress
<1>8. CASE step = "account" /\ users[u].account = None
  <2>1. CreateAccount(r)
    BY <1>8 DEF WithUser, GoesTo, Here, CreateAccount, stripeVars
  <2>2. QED
    BY <2>1 DEF Progress
<1>9. CASE step = "tsr_subscription"
  <2>1. TsrSubscription(r)
    BY <1>9 DEF WithUser, GoesTo, Here, TsrSubscription, stripeVars
  <2>2. QED
    BY <2>1 DEF Progress
<1>10. QED
  BY <1>2, <1>3, <1>4, <1>5, <1>6, <1>7, <1>8, <1>9

\* No state of the tables, and nothing that other requests or deletions did in
\* between, leaves a handler without a step to take: in every reachable state
\* (PlacesKnown) request r can go to Outcome(r).  GoesTo says of each variable
\* what it becomes, so there is such a step; by WorkRunsOut it changes the state.
THEOREM NeverStuck ==
    ASSUME IInv, PlaceKnown, NEW r \in Running, GoesTo(Outcome(r))
    PROVE  Progress(r)
<1> DEFINE q    == request[r]
           step == StepsOf(r)[q.at]
           found == FindByEmail(q.email)
           one   == CHOOSE u \in found : TRUE
<1>0. /\ r \in Requests /\ q.status = "running" /\ q.kind \in Kinds
      /\ q.at \in 1..(Len(StepsOf(r)) + 1) /\ Len(StepsOf(r)) \in Nat
      /\ DOMAIN StepsOf(r) = 1..Len(StepsOf(r))
  BY StepsNamed DEF Running, PlaceKnown, IInv, TypeOK, RequestState
<1>1. CASE q.at > Len(StepsOf(r))
  <2>1. Outcome(r) = Ending(r, IF q.redirected THEN "failed" ELSE "ok")
    BY <1>1 DEF Outcome
  <2>2. Answer(r)
    BY <1>0, <1>1, <2>1 DEF GoesTo, Ending, Here, Answer, End, StepsOf, tsrVars,
                            stripeVars
  <2>3. QED
    BY <2>2 DEF Progress
<1>2. ASSUME ~(q.at > Len(StepsOf(r)))
      PROVE  Progress(r)
  <2>1. q.at \in 1..Len(StepsOf(r)) /\ At(r, step)
    BY <1>0, <1>2 DEF At, StepsOf
  <2>2. step \in StepNames /\ (step = "tsr_subscription" => q.kind # "reader")
    BY <1>0, <2>1, StepsNamed DEF IInv
  <2>u. found # {} => one \in found
    OBVIOUS
  <2> HIDE DEF step, one
  <2>3. CASE step = "customer"
    <3>1. Outcome(r) =
            [Here EXCEPT
                !.stripeCustomers = stripeCustomers \cup {r},
                !.request = [request EXCEPT ![r].customer = r, ![r].at = @ + 1]]
      BY <1>2, <2>3 DEF Outcome, step
    <3>2. NewStripeCustomer(r)
      BY <2>1, <2>3, <3>1 DEF GoesTo, Here, NewStripeCustomer, tsrVars
    <3>3. QED
      BY <3>2 DEF Progress
  <2>4. CASE step = "charge"
    <3>1. Outcome(r) =
            [Here EXCEPT !.charged = [charged EXCEPT ![r] = q.customer],
                         !.request = Onward(r)]
      BY <1>2, <2>4 DEF Outcome, step
    <3>2. StripeCharge(r)
      BY <2>1, <2>4, <3>1 DEF GoesTo, Here, Onward, StripeCharge, Advance,
                              tsrVars
    <3>3. QED
      BY <3>2 DEF Progress
  <2>5. CASE step = "user_create"
    <3>1. Outcome(r) =
            IF found = {} THEN Updating(r, r, [NoUser EXCEPT !.email = q.email])
            ELSE Ending(r, "failed")
      BY <1>2, <2>5 DEF Outcome, step
    <3>2. CASE found = {}
      <4>1. UserCreate(r)
        BY <2>1, <2>5, <3>1, <3>2 DEF GoesTo, Here, Updating, Onward,
           UserCreate, UpdateUser, Advance, stripeVars
      <4>2. QED
        BY <4>1 DEF Progress
    <3>3. CASE found # {}
      <4>1. UserExists(r)
        BY <2>1, <2>5, <3>1, <3>3 DEF GoesTo, Here, Ending, UserExists, Fail,
           End, tsrVars, stripeVars
      <4>2. QED
        BY <4>1 DEF Progress
    <3>4. QED
      BY <3>2, <3>3
  <2>6. CASE step = "update_card"
    <3>1. Outcome(r) =
            [Here EXCEPT !.request = [request EXCEPT ![r].redirected = TRUE,
                                                     ![r].at = @ + 1]]
      BY <1>2, <2>6 DEF Outcome, step
    <3>2. UpdateCardRescued(r)
      BY <2>1, <2>6, <3>1 DEF GoesTo, Here, UpdateCardRescued, tsrVars,
                              stripeVars
    <3>3. QED
      BY <3>2 DEF Progress
  <2>7. CASE step = "account" /\ r \in accounts
    <3>1. Outcome(r) = Updating(r, q.held.user, Linked(r, q.held.user))
      BY <1>2, <2>7 DEF Outcome, step
    <3>2. LinkAccount(r)
      BY <2>1, <2>7, <3>1 DEF GoesTo, Here, Updating, Onward, LinkAccount,
         UpdateUser, Advance, stripeVars
    <3>3. QED
      BY <3>2 DEF Progress
  <2>8. CASE step = "tsr_subscription" /\ q.kind = "prepayment"
    <3>1. Outcome(r) =
            [Here EXCEPT
                !.tsrSubscription = [tsrSubscription EXCEPT ![r] = q.held],
                !.request = [request EXCEPT ![r].held = q.held,
                                            ![r].at = @ + 1]]
      BY <1>2, <2>8 DEF Outcome, step
    <3>2. TsrSubscription(r)
      BY <2>1, <2>8, <3>1 DEF GoesTo, Here, TsrSubscription, stripeVars
    <3>3. QED
      BY <3>2 DEF Progress
  <2>9. CASE step = "tsr_invoice"
    <3>1. Outcome(r) =
            [Here EXCEPT
                !.tsrInvoice = [tsrInvoice EXCEPT ![r] =
                    [user |-> q.held.user,
                     subscription |-> IF q.kind = "prepayment" THEN r ELSE "0"]],
                !.request = Onward(r)]
      BY <1>2, <2>9 DEF Outcome, step
    <3>2. TsrInvoice(r)
      BY <2>1, <2>9, <3>1 DEF GoesTo, Here, Onward, TsrInvoice, Advance,
                              stripeVars
    <3>3. QED
      BY <3>2 DEF Progress
  <2>10. CASE step = "mail"
    <3>1. Outcome(r) =
            [Here EXCEPT
                !.mails = [mails EXCEPT ![r] =
                    [kind |-> IF q.kind = "reader"
                              THEN "welcome" ELSE "thank_you",
                     user |-> IF found = {} THEN None ELSE one]],
                !.request = Onward(r)]
      BY <1>2, <2>10 DEF Outcome, step, one
    <3>2. Mail(r)
      BY <2>1, <2>10, <2>u, <3>1 DEF GoesTo, Here, Onward, Mail, Advance,
                                     stripeVars
    <3>3. QED
      BY <3>2 DEF Progress
  <2>11. CASE /\ step \in {"roles", "stories", "customer_id", "card", "access",
                           "account", "tsr_subscription"}
              /\ ~(step = "account" /\ r \in accounts)
              /\ ~(step = "tsr_subscription" /\ q.kind = "prepayment")
    <3>1. Outcome(r) =
            IF found # {} THEN WithUser(r, step, one)
            ELSE [Ending(r, "failed") EXCEPT
                    !.accounts = IF step = "account" THEN accounts \cup {r}
                                 ELSE accounts]
      BY <1>2, <2>11 DEF Outcome, step, one
    <3>2. CASE found = {}
      <4>1. q.kind = "subscription" \/ step # "tsr_subscription"
        BY <1>0, <2>2, <2>11 DEF Kinds
      <4>2. NilUser(r)
        BY <2>1, <2>11, <3>1, <3>2, <4>1 DEF GoesTo, Here, Ending, NilUser,
           Fail, End, stripeVars
      <4>3. QED
        BY <4>2 DEF Progress
    <3>3. CASE found # {}
      <4>1. GoesTo(WithUser(r, step, one)) /\ one \in found
        BY <2>u, <3>1, <3>3
      <4>2. QED
        BY <1>0, <2>1, <2>11, <4>1, UserGoesOn DEF IInv
    <3>4. QED
      BY <3>2, <3>3
  <2>12. QED
    BY <2>2, <2>3, <2>4, <2>5, <2>6, <2>7, <2>8, <2>9, <2>10, <2>11
       DEF StepNames
<1>3. QED
  BY <1>1, <1>2
=============================================================================
