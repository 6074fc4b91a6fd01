------------------------ MODULE PasswordResetProofs ------------------------
(***************************************************************************)
(* That the newest mail has the link that works, and that every token is   *)
(* mailed or given up, for any number of requests, tokens and attempts.    *)
(* Both hold because the job reads the user again when it runs; neither    *)
(* needs more than that a job in the queue has attempts left.              *)
(***************************************************************************)
EXTENDS PasswordReset, TLAPS

\* A job that has failed for the last time is destroyed.
AttemptsLeft == \A r \in queue : tries[r] < MaxAttempts

IInv == TypeOK /\ AttemptsLeft /\ NewestMailWorks /\ TokenIsMailed

-----------------------------------------------------------------------------
LEMMA IInvInit == Init => IInv
  <1> SUFFICES ASSUME Init PROVE IInv
    OBVIOUS
  <1>1. TypeOK
    <2>1. request \in [Requests -> Stages]
      BY DEF Init, Stages
    <2>2. tries \in [Requests -> 0 .. MaxAttempts]
      BY AttemptsAssumption DEF Init
    <2>3. made \in [Requests -> Tokens]
      BY DEF Init
    <2>4. {token, newest} \cup mails \subseteq Tokens
      BY DEF Init
    <2>5. age \in 0 .. Long
      BY DEF Init, Long
    <2>7. mailed \in BOOLEAN
      BY DEF Init
    <2>8. lost \in BOOLEAN
      BY DEF Init
    <2>6. queue \subseteq Requests
      BY DEF Init
    <2> QED
      BY <2>1, <2>2, <2>3, <2>4, <2>5, <2>6, <2>7, <2>8 DEF TypeOK
  <1>2. AttemptsLeft /\ NewestMailWorks
    BY DEF Init, AttemptsLeft, NewestMailWorks
  <1>3. TokenIsMailed
    BY DEF Init, TokenIsMailed
  <1> QED
    BY <1>1, <1>2, <1>3 DEF IInv

-----------------------------------------------------------------------------
LEMMA TypeStep == TypeOK /\ AttemptsLeft /\ [Next]_vars => TypeOK'
  <1> SUFFICES ASSUME TypeOK, AttemptsLeft, [Next]_vars PROVE TypeOK'
    OBVIOUS
  <1> USE DEF TypeOK, Stages, Goes
  <1>1. ASSUME NEW r \in Requests, MakeToken(r) PROVE TypeOK'
    <2>1. token' \in Tokens
      BY <1>1 DEF MakeToken, Unused
    <2>2. made' \in [Requests -> Tokens]
      BY <1>1, <2>1 DEF MakeToken
    <2>3. age' \in 0 .. Long
      BY <1>1 DEF MakeToken, Long
    <2> QED
      BY <1>1, <2>1, <2>2, <2>3 DEF MakeToken
  <1>2. ASSUME NEW r \in Requests, MakeJob(r) PROVE TypeOK'
    BY <1>2, AttemptsAssumption DEF MakeJob
  <1>3. ASSUME NEW r \in Requests, MakeNoJob(r) PROVE TypeOK'
    BY <1>3 DEF MakeNoJob
  <1>4. ASSUME NEW r \in Requests, SendMail(r) PROVE TypeOK'
    BY <1>4 DEF SendMail, Out, Link
  <1>5. ASSUME NEW r \in Requests, SendAndDie(r) PROVE TypeOK'
    BY <1>5 DEF SendAndDie, Out, Link
  <1>6. ASSUME NEW r \in Requests, FailToSend(r) PROVE TypeOK'
    <2>1. tries[r] + 1 \in 0 .. MaxAttempts
      BY <1>6, AttemptsAssumption DEF FailToSend, AttemptsLeft
    <2> QED
      BY <1>6, <2>1 DEF FailToSend
  <1>7. ASSUME NEW r \in Requests, Load(r) PROVE TypeOK'
    BY <1>7 DEF Load
  <1>8. ASSUME NEW r \in Requests, Update(r) PROVE TypeOK'
    BY <1>8 DEF Update
  <1>9. CASE ThrowAway
    BY <1>9 DEF ThrowAway
  <1>10. CASE Hour
    BY <1>10 DEF Hour, Long
  <1>11. CASE UNCHANGED vars
    BY <1>11 DEF vars
  <1> QED
    BY <1>1, <1>2, <1>3, <1>4, <1>5, <1>6, <1>7, <1>8, <1>9, <1>10, <1>11
       DEF Next, Work

\* Only a failure adds to the attempts of a job, and the last one removes it.
LEMMA AttemptsStep == TypeOK /\ AttemptsLeft /\ [Next]_vars => AttemptsLeft'
  <1> SUFFICES ASSUME TypeOK, AttemptsLeft, [Next]_vars PROVE AttemptsLeft'
    OBVIOUS
  <1> USE DEF AttemptsLeft
  <1>1. ASSUME NEW r \in Requests, MakeJob(r) PROVE AttemptsLeft'
    BY <1>1, AttemptsAssumption DEF MakeJob, TypeOK
  <1>2. ASSUME NEW r \in Requests, FailToSend(r) PROVE AttemptsLeft'
    BY <1>2 DEF FailToSend, TypeOK
  <1>3. ASSUME NEW r \in Requests, SendMail(r) \/ SendAndDie(r)
        PROVE AttemptsLeft'
    BY <1>3 DEF SendMail, SendAndDie
  <1>4. ASSUME NEW r \in Requests,
               MakeToken(r) \/ MakeNoJob(r) \/ Load(r) \/ Update(r)
        PROVE AttemptsLeft'
    BY <1>4 DEF MakeToken, MakeNoJob, Load, Update
  <1>5. CASE ThrowAway \/ Hour \/ UNCHANGED vars
    BY <1>5 DEF ThrowAway, Hour, vars
  <1> QED
    BY <1>1, <1>2, <1>3, <1>4, <1>5 DEF Next, Work

\* A new token makes the mails before it old; every mail after it has it.
LEMMA NewestStep == NewestMailWorks /\ [Next]_vars => NewestMailWorks'
  <1> SUFFICES ASSUME NewestMailWorks, [Next]_vars PROVE NewestMailWorks'
    OBVIOUS
  <1> USE DEF NewestMailWorks
  <1>1. ASSUME NEW r \in Requests, MakeToken(r) PROVE NewestMailWorks'
    BY <1>1 DEF MakeToken
  <1>2. ASSUME NEW r \in Requests, SendMail(r) \/ SendAndDie(r)
        PROVE NewestMailWorks'
    BY <1>2 DEF SendMail, SendAndDie, Out, Link
  <1>3. ASSUME NEW r \in Requests,
               MakeJob(r) \/ MakeNoJob(r) \/ FailToSend(r) \/ Load(r) \/ Update(r)
        PROVE NewestMailWorks'
    BY <1>3 DEF MakeJob, MakeNoJob, FailToSend, Load, Update
  <1>4. CASE ThrowAway \/ Hour \/ UNCHANGED vars
    BY <1>4 DEF ThrowAway, Hour, vars
  <1> QED
    BY <1>1, <1>2, <1>3, <1>4 DEF Next, Work

\* From the token to its mail the debt goes from the request to the queue, and
\* leaves the queue for a mail or for the history.
LEMMA MailedStep == TypeOK /\ TokenIsMailed /\ [Next]_vars => TokenIsMailed'
  <1> SUFFICES ASSUME TypeOK, TokenIsMailed, [Next]_vars PROVE TokenIsMailed'
    OBVIOUS
  <1> USE DEF TokenIsMailed, TypeOK, Goes
  <1>1. ASSUME NEW r \in Requests, MakeToken(r) PROVE TokenIsMailed'
    BY <1>1 DEF MakeToken
  <1>2. ASSUME NEW r \in Requests, MakeJob(r) PROVE TokenIsMailed'
    BY <1>2 DEF MakeJob
  <1>3. ASSUME NEW r \in Requests, MakeNoJob(r) PROVE TokenIsMailed'
    BY <1>3 DEF MakeNoJob
  <1>4. ASSUME NEW r \in Requests, SendMail(r) \/ SendAndDie(r)
        PROVE TokenIsMailed'
    BY <1>4 DEF SendMail, SendAndDie, Out
  <1>5. ASSUME NEW r \in Requests, FailToSend(r) PROVE TokenIsMailed'
    BY <1>5 DEF FailToSend
  <1>6. ASSUME NEW r \in Requests, Load(r) \/ Update(r) PROVE TokenIsMailed'
    BY <1>6 DEF Load, Update
  <1>7. CASE ThrowAway \/ Hour \/ UNCHANGED vars
    BY <1>7 DEF ThrowAway, Hour, vars
  <1> QED
    BY <1>1, <1>2, <1>3, <1>4, <1>5, <1>6, <1>7 DEF Next, Work

LEMMA IInvAlways == Spec => []IInv
  <1>1. IInv /\ [Next]_vars => IInv'
    BY TypeStep, AttemptsStep, NewestStep, MailedStep DEF IInv
  <1> QED
    BY IInvInit, <1>1, PTL DEF Spec

-----------------------------------------------------------------------------
\* The state of a reset stays within its types; in particular a job is never
\* tried more often than max_attempts.
THEOREM ResetTyped == Spec => []TypeOK
  <1>1. IInv => TypeOK
    BY DEF IInv
  <1> QED
    BY IInvAlways, <1>1, PTL

\* Whatever the order in which mail jobs run, and however often: after a new
\* token, the last mail that has gone out has the link that works.
THEOREM NewestLinkWorks == Spec => []NewestMailWorks
  <1>1. IInv => NewestMailWorks
    BY DEF IInv
  <1> QED
    BY IInvAlways, <1>1, PTL

\* When nothing is left to be done the token has been mailed, unless a request
\* died or a job was given up.
THEOREM TokensAreMailed == Spec => []TokenIsMailed
  <1>1. IInv => TokenIsMailed
    BY DEF IInv
  <1> QED
    BY IInvAlways, <1>1, PTL
-----------------------------------------------------------------------------
(***************************************************************************)
(* Why every request ends.  That it does (EveryRequestEnds) needs fairness;*)
(* what fairness is to bring about is a matter of single steps: until the  *)
(* mail is out or lost, what a request owes falls with each of its steps,  *)
(* and no step of another request or of the worker adds to it.             *)
(***************************************************************************)
\* While a request makes its token, it has no job from before.
SavedUnqueued == \A r \in Requests : request[r] = "saved" => r \notin queue

\* How many steps of r there can be at most: the job, and its attempts.
Debt(r) ==
    IF request[r] = "saved" THEN MaxAttempts + 1
    ELSE IF r \in queue THEN MaxAttempts - tries[r] ELSE 0

Owes(r) == request[r] = "saved" \/ r \in queue

DebtShrinks(r) ==
    /\ Debt(r) \in Nat \ {0}
    /\ \/ mailed' \/ lost'
       \/ /\ Debt(r)' \in Nat /\ Debt(r)' <= Debt(r)
          /\ MakeJob(r) \/ MakeNoJob(r) \/ Work(r) => Debt(r)' < Debt(r)

LEMMA SavedStep ==
    TypeOK /\ SavedUnqueued /\ [Next]_vars => SavedUnqueued'
  <1> SUFFICES ASSUME TypeOK, SavedUnqueued, [Next]_vars PROVE SavedUnqueued'
    OBVIOUS
  <1> USE DEF SavedUnqueued, TypeOK, Goes
  <1>1. ASSUME NEW r \in Requests, MakeToken(r) PROVE SavedUnqueued'
    BY <1>1 DEF MakeToken
  <1>2. ASSUME NEW r \in Requests, MakeJob(r) \/ MakeNoJob(r)
        PROVE SavedUnqueued'
    BY <1>2 DEF MakeJob, MakeNoJob
  <1>3. ASSUME NEW r \in Requests, SendMail(r) \/ SendAndDie(r) \/ FailToSend(r)
        PROVE SavedUnqueued'
    BY <1>3 DEF SendMail, SendAndDie, Out, FailToSend
  <1>4. ASSUME NEW r \in Requests, Load(r) \/ Update(r) PROVE SavedUnqueued'
    BY <1>4 DEF Load, Update
  <1>5. CASE ThrowAway \/ Hour \/ UNCHANGED vars
    BY <1>5 DEF ThrowAway, Hour, vars
  <1> QED
    BY <1>1, <1>2, <1>3, <1>4, <1>5 DEF Next, Work

LEMMA DebtStep ==
    ASSUME IInv, SavedUnqueued, [Next]_vars, NEW r \in Requests, Owes(r)
    PROVE  DebtShrinks(r)
  <1> USE DEF IInv, TypeOK
  <1>1. /\ r \in queue => tries[r] \in Nat /\ tries[r] < MaxAttempts
        /\ MaxAttempts \in Nat \ {0}
    BY AttemptsAssumption DEF AttemptsLeft
  <1>2. Debt(r) \in Nat \ {0}
    BY <1>1 DEF Debt, Owes
  <1> DEFINE Settled == mailed' \/ lost'
             Less == Debt(r)' \in Nat /\ Debt(r)' < Debt(r)
             Same == /\ request'[r] = "saved" <=> request[r] = "saved"
                     /\ r \in queue' <=> r \in queue
                     /\ tries'[r] = tries[r]
  <1>3. Same => Debt(r)' = Debt(r)
    BY DEF Debt
  <1>4. ASSUME MakeJob(r) PROVE Less
    <2>1. /\ request[r] = "saved" /\ request'[r] = "idle"
          /\ r \in queue' /\ tries'[r] = 0
      BY <1>4 DEF MakeJob, Goes
    <2>2. Debt(r) = MaxAttempts + 1 /\ Debt(r)' = MaxAttempts - 0
      BY <2>1 DEF Debt
    <2> QED
      BY <1>1, <2>2
  <1>5. ASSUME MakeNoJob(r) PROVE Settled
    BY <1>5 DEF MakeNoJob
  <1>6. ASSUME NEW s \in Requests, SendMail(s) \/ SendAndDie(s) PROVE Settled
    BY <1>6 DEF SendMail, SendAndDie, Out
  <1>7. ASSUME FailToSend(r) PROVE Settled \/ Less
    <2>1. r \in queue /\ request[r] # "saved" /\ request' = request
          /\ tries'[r] = tries[r] + 1
      BY <1>7 DEF FailToSend, SavedUnqueued
    <2>2. CASE tries[r] + 1 < MaxAttempts
      <3>1. queue' = queue
        BY <1>7, <2>2 DEF FailToSend
      <3>2. Debt(r) = MaxAttempts - tries[r]
            /\ Debt(r)' = MaxAttempts - (tries[r] + 1)
        BY <2>1, <3>1 DEF Debt
      <3> QED
        BY <1>1, <2>1, <2>2, <3>2
    <2>3. CASE ~(tries[r] + 1 < MaxAttempts)
      BY <1>7, <2>3 DEF FailToSend
    <2> QED
      BY <2>2, <2>3
  <1>8. ASSUME NEW s \in Requests \ {r},
               \/ MakeToken(s) \/ MakeJob(s) \/ MakeNoJob(s) \/ FailToSend(s)
               \/ Load(s) \/ Update(s)
        PROVE Same
    BY <1>8 DEF MakeToken, MakeJob, MakeNoJob, FailToSend, Load, Update, Goes
  <1>9. ASSUME Load(r) \/ Update(r) PROVE Same
    BY <1>9 DEF Load, Update, Goes
  <1>10. ~MakeToken(r)
    BY DEF MakeToken, Owes
  <1>11. ASSUME ThrowAway \/ Hour \/ UNCHANGED vars PROVE Same
    BY <1>11 DEF ThrowAway, Hour, vars
  <1>12. ASSUME MakeJob(r) \/ MakeNoJob(r) \/ Work(r) PROVE Settled \/ Less
    BY <1>4, <1>5, <1>6, <1>7, <1>12 DEF Work
  <1>13. Settled \/ Less \/ Same
    BY <1>6, <1>8, <1>9, <1>10, <1>11, <1>12 DEF Next, Work
  <1> QED
    BY <1>2, <1>3, <1>12, <1>13 DEF DebtShrinks

\* Until a mail is out or lost, each step that a request or its job takes brings
\* it nearer to that, and nothing takes it further away: neither half of a
\* request, nor a job that fails, can go on for ever.
THEOREM DebtRunsOut ==
    Spec => [][\A r \in Requests : Owes(r) => DebtShrinks(r)]_vars
  <1>1. Init => SavedUnqueued
    BY DEF Init, SavedUnqueued
  <1>2. IInv /\ SavedUnqueued /\ [Next]_vars => SavedUnqueued'
    BY SavedStep DEF IInv
  <1>3. IInv /\ SavedUnqueued /\ [Next]_vars =>
            [\A r \in Requests : Owes(r) => DebtShrinks(r)]_vars
    BY DebtStep
  <1> QED
    BY IInvAlways, <1>1, <1>2, <1>3, PTL DEF Spec
=============================================================================
