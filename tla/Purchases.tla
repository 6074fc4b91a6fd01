------------------------------ MODULE Purchases ------------------------------
(***************************************************************************)
(* Buying a subscription, buying a pre-payment and signing up as a reader: *)
(* the three forms that SubscriptionsController handles, together with the *)
(* unsubscribe link that can take the user's row away under them.          *)
(*                                                                         *)
(* A form is handled by ONE web request that calls Stripe and commits to   *)
(* the database several times, with no transaction around the whole.  Each *)
(* Stripe call and each commit is a step of its own: requests interleave   *)
(* between steps and can die between any two of them.  Which steps, and in *)
(* which order, is the data of SubscriptionSteps, PrepaymentSteps and      *)
(* ReaderSteps; what a step does is an action.                             *)
(*                                                                         *)
(* A request handles one form, and makes at most one user row, one account *)
(* row, one Stripe customer, one Stripe charge, one subscription row and   *)
(* one invoice row.  Each of these is therefore named by the request that  *)
(* made it, and one set, Requests, provides all the identifiers.           *)
(***************************************************************************)
EXTENDS Naturals, Sequences, FiniteSets

CONSTANTS
    Requests,   \* the web requests, and the objects they make
    Emails,     \* the e-mail addresses people type into the forms
    Countries,  \* ip_country_code, as far as it picks a Stripe account
    Workers,    \* how many requests the web server handles at a time
    None        \* a nil column, a nil local variable, an unused row

ASSUME RequestsAssumption == None \notin Requests
ASSUME EmailsAssumption   == None \notin Emails /\ "deleted" \notin Emails
ASSUME NoneAssumption     == None \notin {"deleted", "paid"}
ASSUME CountriesAssumption == None \notin Countries
ASSUME WorkersAssumption  == Workers \in Nat

VARIABLES
    users,            \* rows of table users
    accounts,         \* rows of table accounts
    stripeCustomers,  \* Stripe customers, each in the account of its country
    charged,          \* the Stripe customer that a request's money came from
    tsrSubscription,  \* rows of table subscriptions
    tsrInvoice,       \* rows of table invoices
    mails,            \* delayed jobs: the mail a request queues on success
    request           \* the requests themselves: form, locals, progress

tsrVars    == <<users, accounts, tsrSubscription, tsrInvoice, mails>>
stripeVars == <<stripeCustomers, charged>>
vars       == <<tsrVars, stripeVars, request>>

-----------------------------------------------------------------------------
(* Rows, forms and the locals of a request.                                *)

MaybeRequest == Requests \cup {None}

\* access_date is "trial" when it is thirty days given away to a reader and
\* "paid" when it is the end of a period that was bought.
UserRow ==
    [email   : Emails \cup {"deleted", None},
     role    : {"reader", "subscriber", "deleted", None},
     access  : {"trial", "paid", None},
     cust    : [Countries -> MaybeRequest],   \* stripe_customer_id(_spain)
     card    : [Countries -> MaybeRequest],   \* credit_card_id(_spain)
     account : MaybeRequest,                  \* account_id
     stories : BOOLEAN]                       \* notifications were set up

NoUser ==
    [email |-> None, role |-> None, access |-> None,
     cust |-> [c \in Countries |-> None], card |-> [c \in Countries |-> None],
     account |-> None, stories |-> FALSE]

SubscriptionRow == [user : Requests, customer : MaybeRequest]
InvoiceRow      == [user : Requests, subscription : Requests \cup {"0"}]
MailJob         == [kind : {"thank_you", "welcome"}, user : MaybeRequest]

ASSUME RowsAssumption == None \notin SubscriptionRow \cup InvoiceRow

Kinds      == {"subscription", "prepayment", "reader"}
Purchase   == {"subscription", "prepayment"}
Situations == {"new_user", "no_customer", "no_card", "with_card"}
Statuses   == {"idle", "running", "refused", "ok", "failed"}

\* at: how many steps of the handler are behind us, plus one.
\* customer: @customer.  held: the user read into a local and used again
\* after later commits, with the customer id it had when it was read.
RequestState ==
    [status : Statuses, kind : Kinds, email : Emails \cup {None},
     country : Countries \cup {None}, situation : Situations, at : Nat,
     customer : MaybeRequest, held : SubscriptionRow \cup {None},
     redirected : BOOLEAN]

IdleRequest ==
    [status |-> "idle", kind |-> "reader", email |-> None, country |-> None,
     situation |-> "new_user", at |-> 1, customer |-> None, held |-> None,
     redirected |-> FALSE]

-----------------------------------------------------------------------------
(* The handlers: the order of their Stripe calls and commits.              *)

\* Deliberate mistakes, which the properties below must notice: the charge
\* after everything it pays for, the customer id after everything that reads
\* it, one branch without its rows, and the mail before the stories.
ChargeLastSteps ==
    [new_user    |-> <<"customer", "user_create", "roles", "stories",
                       "customer_id", "access", "card", "account",
                       "tsr_subscription", "tsr_invoice", "mail", "charge">>,
     no_customer |-> <<"customer", "customer_id", "roles", "access", "card",
                       "account", "tsr_subscription", "tsr_invoice", "charge">>,
     no_card     |-> <<"update_card", "roles", "access", "account",
                       "tsr_subscription", "tsr_invoice", "charge">>,
     with_card   |-> <<"roles", "access", "account", "tsr_subscription",
                       "tsr_invoice", "charge">>]

CustomerIdLastSteps ==
    [ChargeLastSteps EXCEPT
        !.new_user = <<"customer", "user_create", "roles", "stories", "charge",
                       "access", "card", "account", "tsr_subscription",
                       "tsr_invoice", "mail", "customer_id">>,
        !.no_customer = <<"customer", "charge", "roles", "access", "card",
                          "account", "tsr_subscription", "tsr_invoice",
                          "customer_id">>]

NoRowsSteps ==
    [ChargeLastSteps EXCEPT !.with_card =
        <<"charge", "roles", "access", "account">>]

MailFirstSteps == <<"user_create", "roles", "mail", "stories">>

\* new_subscription, one sequence for each of its branches.
SubscriptionSteps ==
    [new_user    |-> <<"customer", "user_create", "roles", "stories",
                       "customer_id", "charge", "access", "card", "account",
                       "tsr_subscription", "tsr_invoice", "mail">>,
     no_customer |-> <<"customer", "charge", "customer_id", "roles", "access",
                       "card", "account", "tsr_subscription", "tsr_invoice">>,
     no_card     |-> <<"update_card", "charge", "roles", "access", "account",
                       "tsr_subscription", "tsr_invoice">>,
     with_card   |-> <<"charge", "roles", "access", "account",
                       "tsr_subscription", "tsr_invoice">>]

\* new_prepayment, with set_one_time_details spelt out in place.
PrepaymentSteps ==
    [new_user    |-> <<"customer", "charge", "user_create", "roles", "stories",
                       "customer_id", "card", "account", "access",
                       "tsr_subscription", "tsr_invoice">>,
     no_customer |-> <<"customer", "charge", "customer_id", "card", "account",
                       "access", "tsr_subscription", "tsr_invoice", "roles">>,
     no_card     |-> <<"charge", "update_card", "account", "access",
                       "tsr_subscription", "tsr_invoice", "roles">>,
     with_card   |-> <<"charge", "account", "access", "tsr_subscription",
                       "tsr_invoice", "roles">>]

\* new_spain_report_reader asks nothing about the user before it starts.
ReaderSteps == <<"user_create", "roles", "stories", "mail">>

Steps(kind, situation) ==
    CASE kind = "subscription" -> SubscriptionSteps[situation]
      [] kind = "prepayment"   -> PrepaymentSteps[situation]
      [] OTHER                 -> ReaderSteps

-----------------------------------------------------------------------------
(* Looking things up.                                                      *)

Running == {r \in Requests : request[r].status = "running"}

\* User.find_by_email: at most one row, by the unique index on the column.
FindByEmail(e) == {u \in Requests : users[u].email = e}

\* The branch of the handler, from the country of the form, the logged-in
\* user and whether the e-mail is known.  A new_user is nobody's session.
SituationOf(kind, session, country, email) ==
    IF kind = "reader" \/ FindByEmail(email) = {} THEN "new_user"
    ELSE IF users[session].cust[country] = None THEN "no_customer"
    ELSE IF users[session].card[country] = None THEN "no_card"
    ELSE "with_card"

\* existing_customer: @customer is the id the row holds for the country.
ExistingCustomer(session, country, situation) ==
    IF situation \in {"no_card", "with_card"}
    THEN users[session].cust[country] ELSE None

-----------------------------------------------------------------------------
(* How a request advances, ends and dies.                                  *)

At(r, step) ==
    LET steps == Steps(request[r].kind, request[r].situation)
    IN  /\ request[r].status = "running"
        /\ request[r].at \in DOMAIN steps
        /\ steps[request[r].at] = step

Advance(r) == request' = [request EXCEPT ![r].at = @ + 1]

\* The locals of a request die with it; its form is remembered, to say in the
\* properties which objects it made.
End(r, status) ==
    request' = [request EXCEPT ![r] =
        [@ EXCEPT !.status = status, !.situation = "new_user",
                  !.at = 1, !.customer = None, !.held = None,
                  !.redirected = FALSE]]

Fail(r) == End(r, "failed")

\* A helper that begins by finding the user by e-mail, and writes to the row.
UpdateUser(r, u, row) ==
    /\ users' = [users EXCEPT ![u] = row]
    /\ Advance(r)
    /\ UNCHANGED <<accounts, tsrSubscription, tsrInvoice, mails, stripeVars>>

\* What a local variable remembers of the user it was read from.
Read(r, u) == [user |-> u, customer |-> users[u].cust[request[r].country]]

Init ==
    /\ users = [u \in Requests |-> NoUser]
    /\ accounts = {}
    /\ stripeCustomers = {}
    /\ charged = [r \in Requests |-> None]
    /\ tsrSubscription = [r \in Requests |-> None]
    /\ tsrInvoice = [r \in Requests |-> None]
    /\ mails = [r \in Requests |-> None]
    /\ request = [r \in Requests |-> IdleRequest]

-----------------------------------------------------------------------------
(* A form arrives.                                                         *)

\* The form of a known e-mail is handled only for the user logged in with it.
Refuse(r, kind, email) ==
    /\ kind \in Purchase
    /\ FindByEmail(email) # {}
    /\ request' = [request EXCEPT ![r].status = "refused"]

Accept(r, kind, email, country, session) ==
    LET situation == SituationOf(kind, session, country, email) IN
    /\ session = None <=> (kind = "reader" \/ FindByEmail(email) = {})
    /\ request' = [request EXCEPT ![r] =
            [@ EXCEPT !.status = "running", !.kind = kind, !.email = email,
                      !.country = country, !.situation = situation,
                      !.customer =
                          ExistingCustomer(session, country, situation)]]

Submit(r) ==
    /\ request[r].status = "idle"
    /\ Cardinality(Running) < Workers
    /\ \E kind \in Kinds, email \in Emails, country \in Countries :
          \/ Refuse(r, kind, email)
          \/ \E session \in FindByEmail(email) \cup {None} :
                Accept(r, kind, email, country, session)
    /\ UNCHANGED <<tsrVars, stripeVars>>

-----------------------------------------------------------------------------
(* The calls to Stripe.                                                    *)

\* new_subscription_customer and new_prepayment_customer.
NewStripeCustomer(r) ==
    /\ At(r, "customer")
    /\ stripeCustomers' = stripeCustomers \cup {r}
    /\ request' = [request EXCEPT ![r].customer = r, ![r].at = @ + 1]
    /\ UNCHANGED <<tsrVars, charged>>

\* new_subscription_charge and new_prepayment_charge.
StripeCharge(r) ==
    /\ At(r, "charge")
    /\ charged' = [charged EXCEPT ![r] = request[r].customer]
    /\ Advance(r)
    /\ UNCHANGED <<tsrVars, stripeCustomers>>

-----------------------------------------------------------------------------
(* The user's row.                                                         *)

\* thespainreport_new_user_create: create! is refused a known e-mail.
UserCreate(r) ==
    /\ At(r, "user_create")
    /\ FindByEmail(request[r].email) = {}
    /\ UpdateUser(r, r, [NoUser EXCEPT !.email = request[r].email])

\* Deliberate mistake: a known e-mail is signed up as if it were new.
UserExistsGoesOn(r) ==
    /\ At(r, "user_create")
    /\ FindByEmail(request[r].email) # {}
    /\ Advance(r)
    /\ UNCHANGED <<tsrVars, stripeVars>>

UserExists(r) ==
    /\ At(r, "user_create")
    /\ FindByEmail(request[r].email) # {}
    /\ Fail(r)
    /\ UNCHANGED <<tsrVars, stripeVars>>

\* thespainreport_user_roles: a form without a plan makes a reader.
GivenRole(row, kind) ==
    IF kind \in Purchase
    THEN [row EXCEPT !.role = "subscriber"]
    ELSE [row EXCEPT !.role = "reader", !.access = "trial"]

Roles(r) ==
    /\ At(r, "roles")
    /\ \E u \in FindByEmail(request[r].email) :
          UpdateUser(r, u, GivenRole(users[u], request[r].kind))

\* set_briefings_and_stories.
Stories(r) ==
    /\ At(r, "stories")
    /\ \E u \in FindByEmail(request[r].email) :
          UpdateUser(r, u, [users[u] EXCEPT !.stories = TRUE])

\* Deliberate mistake: one id for both Stripe accounts.
CustomerIdAnywhere(r) ==
    /\ At(r, "customer_id")
    /\ \E u \in FindByEmail(request[r].email) :
          UpdateUser(r, u, [users[u] EXCEPT
              !.cust = [c \in Countries |-> request[r].customer]])

\* new_customer_id_date.
CustomerId(r) ==
    /\ At(r, "customer_id")
    /\ \E u \in FindByEmail(request[r].email) :
          UpdateUser(r, u,
              [users[u] EXCEPT !.cust[request[r].country] = request[r].customer])

\* new_credit_card.
Card(r) ==
    /\ At(r, "card")
    /\ \E u \in FindByEmail(request[r].email) :
          UpdateUser(r, u, [users[u] EXCEPT !.card[request[r].country] = r])

\* update_credit_card: every error is rescued, answered, and forgotten.
UpdateCard(r) ==
    /\ At(r, "update_card")
    /\ \E u \in FindByEmail(request[r].email) :
          UpdateUser(r, u, [users[u] EXCEPT !.card[request[r].country] = r])

UpdateCardRescued(r) ==
    /\ At(r, "update_card")
    /\ request' = [request EXCEPT ![r].redirected = TRUE, ![r].at = @ + 1]
    /\ UNCHANGED <<tsrVars, stripeVars>>

\* subscription_access_date, and the update in set_one_time_details, which
\* goes on to use the row it has read.
Access(r) ==
    /\ At(r, "access")
    /\ \E u \in FindByEmail(request[r].email) :
          /\ users' = [users EXCEPT ![u].access = "paid"]
          /\ request' = [request EXCEPT
                ![r].held = IF request[r].kind = "prepayment"
                            THEN Read(r, u) ELSE @,
                ![r].at = @ + 1]
    /\ UNCHANGED <<accounts, tsrSubscription, tsrInvoice, mails, stripeVars>>

\* user_account, for a user who has an account.
KeepAccount(r) ==
    /\ At(r, "account")
    /\ r \notin accounts
    /\ \E u \in FindByEmail(request[r].email) : users[u].account # None
    /\ Advance(r)
    /\ UNCHANGED <<tsrVars, stripeVars>>

\* Deliberate mistake: a new account for every purchase.
CreateAccountAlways(r) ==
    /\ At(r, "account")
    /\ r \notin accounts
    /\ \E u \in FindByEmail(request[r].email) :
          request' = [request EXCEPT ![r].held = Read(r, u)]
    /\ accounts' = accounts \cup {r}
    /\ UNCHANGED <<users, tsrSubscription, tsrInvoice, mails, stripeVars>>

\* user_account, for a user who has none: Account.create ...
CreateAccount(r) ==
    /\ At(r, "account")
    /\ r \notin accounts
    /\ \E u \in FindByEmail(request[r].email) :
          /\ users[u].account = None
          /\ request' = [request EXCEPT ![r].held = Read(r, u)]
    /\ accounts' = accounts \cup {r}
    /\ UNCHANGED <<users, tsrSubscription, tsrInvoice, mails, stripeVars>>

\* ... and then the update of the row read before it, which is dropped without
\* a word if the e-mail is another user's by now: it would not be unique.
Linked(r, u) ==
    IF FindByEmail(request[r].email) \ {u} # {} THEN users[u]
    ELSE [users[u] EXCEPT !.account = r]

LinkAccount(r) ==
    /\ At(r, "account")
    /\ r \in accounts
    /\ LET u == request[r].held.user IN UpdateUser(r, u, Linked(r, u))

-----------------------------------------------------------------------------
(* The purchase's own rows, and the mail.                                  *)

\* s.save! in create_tsr_subscription_invoice, which finds the user again,
\* and in set_one_time_details, which has it in a local.
TsrSubscription(r) ==
    /\ At(r, "tsr_subscription")
    /\ \E row \in IF request[r].kind = "prepayment" THEN {request[r].held}
                  ELSE {Read(r, u) : u \in FindByEmail(request[r].email)} :
          /\ tsrSubscription' = [tsrSubscription EXCEPT ![r] = row]
          /\ request' = [request EXCEPT ![r].held = row, ![r].at = @ + 1]
    /\ UNCHANGED <<users, accounts, tsrInvoice, mails, stripeVars>>

\* i.save! in the same two helpers.  A recurring invoice is given Stripe's
\* name of the subscription, text that an integer column reads as 0.
TsrInvoice(r) ==
    /\ At(r, "tsr_invoice")
    /\ tsrInvoice' = [tsrInvoice EXCEPT ![r] =
            [user |-> request[r].held.user,
             subscription |->
                IF request[r].kind = "prepayment" THEN r ELSE "0"]]
    /\ Advance(r)
    /\ UNCHANGED <<users, accounts, tsrSubscription, mails, stripeVars>>

\* The delayed mail: a thank-you, or the three mails that welcome a reader.
\* Queuing succeeds even for a nil user; the job then fails when it is run.
Mail(r) ==
    /\ At(r, "mail")
    /\ \E u \in IF FindByEmail(request[r].email) = {} THEN {None}
                ELSE FindByEmail(request[r].email) :
          mails' = [mails EXCEPT ![r] =
              [kind |-> IF request[r].kind = "reader"
                        THEN "welcome" ELSE "thank_you",
               user |-> u]]
    /\ Advance(r)
    /\ UNCHANGED <<users, accounts, tsrSubscription, tsrInvoice, stripeVars>>

-----------------------------------------------------------------------------
(* How a request ends.                                                     *)

\* The last redirect is the handler's second one if a card was refused on
\* the way, and a second redirect is an error.
Answer(r) ==
    /\ request[r].status = "running"
    /\ request[r].at > Len(Steps(request[r].kind, request[r].situation))
    /\ End(r, IF request[r].redirected THEN "failed" ELSE "ok")
    /\ UNCHANGED <<tsrVars, stripeVars>>

\* Deliberate mistake: the account is waited for instead of failing.
NilUserWaits(r) ==
    /\ FindByEmail(request[r].email) = {}
    /\ \E step \in {"roles", "stories", "customer_id", "access", "card"} :
          At(r, step)
    /\ Fail(r)
    /\ UNCHANGED <<tsrVars, stripeVars>>

\* A helper that calls a method of the user it did not find raises.
\* user_account has by then created the account it cannot link.
NilUser(r) ==
    /\ FindByEmail(request[r].email) = {}
    /\ \/ \E step \in {"roles", "stories", "customer_id", "access", "card"} :
              At(r, step) /\ UNCHANGED accounts
       \/ At(r, "account") /\ r \notin accounts /\ accounts' = accounts \cup {r}
       \/ /\ At(r, "tsr_subscription")
          /\ request[r].kind = "subscription"
          /\ UNCHANGED accounts
    /\ Fail(r)
    /\ UNCHANGED <<users, tsrSubscription, tsrInvoice, mails, stripeVars>>

\* A declined card, an error or a lost reply from Stripe, an exception of
\* the database, or the end of the server's process: whatever the request
\* had left to do stays undone.  Rescued or not, nothing is put back.
Abandon(r) ==
    /\ request[r].status = "running"
    /\ Fail(r)
    /\ UNCHANGED <<tsrVars, stripeVars>>

\* Deliberate mistake: the e-mail is blanked, for one user after another.
UnsubscribeBlank(u) ==
    /\ users[u].email \in Emails
    /\ Cardinality(Running) < Workers
    /\ users' = [users EXCEPT ![u].email = "", ![u].role = "deleted"]
    /\ UNCHANGED <<accounts, tsrSubscription, tsrInvoice, mails, stripeVars,
                   request>>

\* unsubscribe and unsubscribe_by_staff: one request, one commit, which
\* gives the e-mail back and leaves every other column as it was.
Unsubscribe(u) ==
    /\ users[u].email \in Emails
    /\ Cardinality(Running) < Workers
    /\ users' = [users EXCEPT ![u].email = "deleted", ![u].role = "deleted"]
    /\ UNCHANGED <<accounts, tsrSubscription, tsrInvoice, mails, stripeVars,
                   request>>

-----------------------------------------------------------------------------
\* What a running request does next when nothing goes wrong outside it.
Progress(r) ==
    \/ NewStripeCustomer(r) \/ StripeCharge(r)
    \/ UserCreate(r) \/ UserExists(r) \/ Roles(r) \/ Stories(r)
    \/ CustomerId(r) \/ Card(r) \/ UpdateCard(r) \/ UpdateCardRescued(r)
    \/ Access(r) \/ KeepAccount(r) \/ CreateAccount(r) \/ LinkAccount(r)
    \/ TsrSubscription(r) \/ TsrInvoice(r) \/ Mail(r)
    \/ NilUser(r) \/ Answer(r)

Next ==
    \E r \in Requests :
        \/ Submit(r)
        \/ Progress(r)
        \/ Abandon(r)
        \/ Unsubscribe(r)

Spec == Init /\ [][Next]_vars

\* The server goes on running the requests it has accepted.
FairSpec == Spec /\ \A r \in Requests : WF_vars(Progress(r))
-----------------------------------------------------------------------------
(* What must hold.                                                         *)

\* Every variable keeps its type.
TypeOK ==
    /\ users \in [Requests -> UserRow]
    /\ accounts \subseteq Requests
    /\ stripeCustomers \subseteq Requests
    /\ charged \in [Requests -> MaybeRequest]
    /\ tsrSubscription \in [Requests -> SubscriptionRow \cup {None}]
    /\ tsrInvoice \in [Requests -> InvoiceRow \cup {None}]
    /\ mails \in [Requests -> MailJob \cup {None}]
    /\ request \in [Requests -> RequestState]

\* A user who has not unsubscribed.
Live(u) == users[u].email \in Emails

\* Stripe customer x was made for this e-mail, in the account of this country.
CustomerOf(x, email, country) ==
    /\ x \in stripeCustomers
    /\ request[x].email = email
    /\ request[x].country = country

\* Spain has a Stripe account of its own.  The customer id kept in the Spanish
\* column is a customer of the Spanish account and the other one of the other,
\* both made for the user's own e-mail, however requests interleave.
CustomersSegregated ==
    \A u \in Requests, c \in Countries :
        Live(u) /\ users[u].cust[c] # None
            => CustomerOf(users[u].cust[c], users[u].email, c)

\* No row of table subscriptions without money: the request that saved it had
\* charged a customer of the same e-mail in the same country's Stripe account,
\* and the customer written into the row is one of that kind as well.
SubscriptionBacked ==
    \A r \in Requests : tsrSubscription[r] # None =>
        /\ CustomerOf(charged[r], request[r].email, request[r].country)
        /\ tsrSubscription[r].customer # None =>
              CustomerOf(tsrSubscription[r].customer,
                         request[r].email, request[r].country)

PaidBy(email) ==
    {r \in Requests : charged[r] # None /\ request[r].email = email}

\* Nobody has access to a bought period unless a form with their e-mail was
\* charged, whatever failed before or after.
PaidAccessBacked ==
    \A u \in Requests :
        Live(u) /\ users[u].access = "paid" => PaidBy(users[u].email) # {}

\* A buyer who is told that the purchase was successful was charged, and has
\* the subscription row and an invoice row, both for one user, who is the
\* buyer or has unsubscribed since.
OkMeansRecorded ==
    \A r \in Requests :
        request[r].status = "ok" /\ request[r].kind \in Purchase =>
            /\ charged[r] # None
            /\ tsrSubscription[r] # None
            /\ tsrInvoice[r] # None
            /\ tsrInvoice[r].user = tsrSubscription[r].user
            /\ users[tsrSubscription[r].user].email
                  \in {request[r].email, "deleted"}

-----------------------------------------------------------------------------
(* What must hold when the server handles one request at a time.  Requests *)
(* still fail half-way, and later ones find what the earlier ones left.    *)

\* The subscription row names the very customer that pays for it: this is the
\* pair cancel_subscription and get_subscription_history later look up.
RowNamesPayer ==
    \A r \in Requests :
        tsrSubscription[r] # None => tsrSubscription[r].customer = charged[r]

\* A Stripe customer or an account that belongs to no user was left there by
\* a request that did not finish.
OrphansOnlyByFailure ==
    \A x \in Requests :
        \/ /\ x \in stripeCustomers
           /\ \A u \in Requests, c \in Countries : users[u].cust[c] # x
        \/ /\ x \in accounts
           /\ \A u \in Requests : users[u].account # x
        => request[x].status \in {"running", "failed"}

\* Nobody is thanked or welcomed before they are set up: stories for both, and
\* for a subscriber the access date, the card, the account and the invoice.
MailedUsersAreSetUp ==
    \A r \in Requests : mails[r] # None =>
        LET u == mails[r].user IN
        /\ u # None
        /\ users[u].stories
        /\ mails[r].kind = "thank_you" =>
              /\ users[u].access = "paid"
              /\ users[u].card[request[r].country] # None
              /\ users[u].account # None
              /\ tsrInvoice[r] # None

\* No form takes a bought access date back or turns it into a trial.
PaidAccessKept ==
    [][\A u \in Requests :
          users[u].access = "paid" => users'[u].access = "paid"]_vars

-----------------------------------------------------------------------------
(* Liveness, under FairSpec.                                               *)

\* Every request that is accepted ends: no state of the tables leaves a
\* handler without a step to take.
RequestsEnd ==
    \A r \in Requests :
        request[r].status = "running" ~> request[r].status # "running"

-----------------------------------------------------------------------------
(* What comments of the source say, and the program does not do.           *)

\* "Related to Stripe, now has a credit card, so update role and access date"
NowHasACreditCard ==
    \A r \in Requests :
        /\ request[r].kind = "subscription"
        /\ request[r].situation = "no_card"
        /\ At(r, "roles")
        => \A u \in FindByEmail(request[r].email) :
               users[u].card[request[r].country] # None

\* "Create the first invoice for that subscription record on TSR"
InvoiceIsOfItsSubscription ==
    \A r \in Requests : tsrInvoice[r] # None => tsrInvoice[r].subscription = r
=============================================================================
