--------------------------- MODULE PasswordReset ---------------------------
(***************************************************************************)
(* How a user chooses a new password: a form makes a token and a mail job, *)
(* the worker of the mail queue sends the mail, and the link in it opens a *)
(* form for two hours.  The user has one token: a second request replaces  *)
(* it, and the mail is written when the job runs, with the token there is  *)
(* then.  A job that fails is tried again some times and then destroyed; a *)
(* worker that dies after the mail is out leaves the job to be run again.  *)
(*                                                                         *)
(* This is one user; tokens are looked up by value and no two users have   *)
(* the same one.  A sign-up makes a token and a mail job as well, and      *)
(* counts as a request here.                                               *)
(***************************************************************************)
EXTENDS Naturals, FiniteSets

CONSTANTS
    Requests,    \* forms being sent, and used again when they are through
    Tokens,      \* what SecureRandom may give
    MaxAttempts  \* Delayed::Worker.max_attempts

ASSUME AttemptsAssumption == MaxAttempts \in Nat \ {0}

VARIABLES
    token,    \* password_reset_token
    age,      \* hours since password_reset_sent_at
    request,  \* the forms
    made,     \* the token in the user that a request holds, and writes in its job
    queue,    \* requests whose mail job is in table delayed_jobs
    tries,    \* how often that job has failed
    mails,    \* tokens in the mails that the user has kept
    newest,   \* token in the last mail, before there is one any
    mailed,   \* history: a mail has gone out since the token was made
    lost      \* history: since then a request or a job has ended without a mail

vars == <<token, age, request, made, queue, tries, mails, newest, mailed, lost>>

-----------------------------------------------------------------------------
\* More hours than these make no difference.
Long   == 3
Stages == {"idle", "saved", "loaded"}

\* urlsafe_base64, again while User.exists?: never a token of before.
Unused == Tokens \ ({token, newest} \cup mails \cup {made[r] : r \in Requests})

\* The user has signed up, and the mail with the first token is yet to be made.
Init ==
    /\ token \in Tokens
    /\ age = 0
    /\ \E r \in Requests :
          request = [q \in Requests |-> IF q = r THEN "saved" ELSE "idle"]
    /\ made = [r \in Requests |-> token]
    /\ queue = {}
    /\ tries = [r \in Requests |-> 0]
    /\ mails = {}
    /\ newest = token
    /\ mailed = FALSE
    /\ lost = FALSE

Goes(r, stage) == request' = [request EXCEPT ![r] = stage]

-----------------------------------------------------------------------------
(***************************************************************************)
(* Asking for a link: create, and send_password_reset.                     *)
(***************************************************************************)
\* generate_token and save!.
MakeToken(r) ==
    /\ request[r] = "idle"
    /\ r \notin queue
    /\ token' \in Unused
    /\ age' = 0
    /\ made' = [made EXCEPT ![r] = token']
    /\ mailed' = FALSE
    /\ lost' = FALSE
    /\ Goes(r, "saved")
    /\ UNCHANGED <<queue, tries, mails, newest>>

\* Deliberate mistake: as create_reset_digest, with no mail.
MakeJobForgotten(r) ==
    /\ request[r] = "saved"
    /\ Goes(r, "idle")
    /\ UNCHANGED <<token, age, made, queue, tries, mails, newest, mailed, lost>>

\* UserMailer.delay.password_reset(self)
MakeJob(r) ==
    /\ request[r] = "saved"
    /\ queue' = queue \cup {r}
    /\ tries' = [tries EXCEPT ![r] = 0]
    /\ Goes(r, "idle")
    /\ UNCHANGED <<token, age, made, mails, newest, mailed, lost>>

\* The request dies before.
MakeNoJob(r) ==
    /\ request[r] = "saved"
    /\ Goes(r, "idle")
    /\ lost' = TRUE
    /\ UNCHANGED <<token, age, made, queue, tries, mails, newest, mailed>>

-----------------------------------------------------------------------------
(***************************************************************************)
(* The worker of the mail queue, and the user's mailbox.                   *)
(***************************************************************************)
\* Deliberate mistake: the job is given the token, as it is when it is queued.
LinkWhenQueued(r) == made[r]

\* The job is given the user, and reads the row again when it runs.
Link(r) == token

Out(r) ==
    /\ r \in queue
    /\ mails' = mails \cup {Link(r)}
    /\ newest' = Link(r)
    /\ mailed' = TRUE
    /\ lost' = FALSE
    /\ UNCHANGED <<token, age, request, made>>

SendMail(r) ==
    /\ Out(r)
    /\ queue' = queue \ {r}
    /\ UNCHANGED tries

\* The mail is out and the worker dies, or cannot reach the database: the job
\* is run again.
SendAndDie(r) == Out(r) /\ UNCHANGED <<queue, tries>>

\* Deliberate mistake: one attempt more, and then not destroyed.
FailOnceMore(r) ==
    /\ r \in queue
    /\ tries' = [tries EXCEPT ![r] = @ + 1]
    /\ tries[r] <= MaxAttempts
    /\ UNCHANGED <<token, age, request, made, queue, mails, newest, mailed, lost>>

\* Deliberate mistake: a job that was given up is put back.
FailAgain(r) ==
    /\ r \in queue
    /\ tries' = [tries EXCEPT ![r] = IF @ + 1 < MaxAttempts THEN @ + 1 ELSE 0]
    /\ UNCHANGED <<token, age, request, made, queue, mails, newest, mailed, lost>>

\* The mail server cannot be reached, or takes longer than max_run_time.
FailToSend(r) ==
    /\ r \in queue
    /\ tries' = [tries EXCEPT ![r] = @ + 1]
    /\ IF tries[r] + 1 < MaxAttempts
         THEN UNCHANGED <<queue, lost>>
         ELSE queue' = queue \ {r} /\ lost' = TRUE
    /\ UNCHANGED <<token, age, request, made, mails, newest, mailed>>

ThrowAway ==
    /\ \E t \in mails : mails' = mails \ {t}
    /\ UNCHANGED <<token, age, request, made, queue, tries, newest, mailed, lost>>

-----------------------------------------------------------------------------
(***************************************************************************)
(* Following a link: update, and an hour that goes by.                     *)
(***************************************************************************)
\* password_reset_sent_at < 2.hours.ago
HasExpired == age > 2

\* The user is looked up by the token in the link and the time is looked at.
Load(r) ==
    /\ request[r] = "idle"
    /\ token \in mails
    /\ ~HasExpired
    /\ Goes(r, "loaded")
    /\ UNCHANGED <<token, age, made, queue, tries, mails, newest, mailed, lost>>

\* update_attributes and email_activate: the token and its time stay.
Update(r) ==
    /\ request[r] = "loaded"
    /\ Goes(r, "idle")
    /\ UNCHANGED <<token, age, made, queue, tries, mails, newest, mailed, lost>>

Hour ==
    /\ age < Long
    /\ age' = age + 1
    /\ UNCHANGED <<token, request, made, queue, tries, mails, newest, mailed, lost>>

-----------------------------------------------------------------------------
Work(r) == SendMail(r) \/ FailToSend(r)

Next ==
    \/ \E r \in Requests :
          \/ MakeToken(r) \/ MakeJob(r) \/ MakeNoJob(r)
          \/ Work(r) \/ SendAndDie(r) \/ Load(r) \/ Update(r)
    \/ ThrowAway
    \/ Hour

Spec == Init /\ [][Next]_vars

\* A request that has begun ends, and a job in the queue is run until it ends:
\* a worker that dies is started again.
FairSpec ==
    /\ Spec
    /\ \A r \in Requests : WF_vars(MakeJob(r) \/ MakeNoJob(r)) /\ WF_vars(Work(r))

-----------------------------------------------------------------------------
TypeOK ==
    /\ {token, newest} \cup mails \subseteq Tokens
    /\ age \in 0 .. Long
    /\ request \in [Requests -> Stages]
    /\ made \in [Requests -> Tokens]
    /\ queue \subseteq Requests
    /\ tries \in [Requests -> 0 .. MaxAttempts]
    /\ mailed \in BOOLEAN
    /\ lost \in BOOLEAN

\* The jobs of two requests may run in any order, and be run twice: still the
\* mail that comes last has the link that works, as soon as any has gone out
\* since the token was made.
NewestMailWorks == mailed => newest = token

\* When no request is half-way and no job is left, the token that is there has
\* been mailed, unless a request died or a job was given up since.
TokenIsMailed ==
    (\A r \in Requests : request[r] # "saved") /\ queue = {} /\ ~lost => mailed

\* Who asks is sent a mail, or the request has died or the job been given up:
\* a job does not wait forever.
EveryRequestEnds ==
    \A r \in Requests :
        request[r] = "saved" \/ r \in queue ~> mailed \/ lost

\* The page and the mail: "valid for one hour".
LinksLastAnHour ==
    [][\A r \in Requests :
          request[r] = "idle" /\ request'[r] = "loaded" => age <= 1]_vars
=============================================================================
