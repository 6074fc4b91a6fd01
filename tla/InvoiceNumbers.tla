---------------------------- MODULE InvoiceNumbers ----------------------------
(***************************************************************************)
(* The numbers of invoices.  Spain has a series of its own, all the other  *)
(* countries share one, and both start again each year.  The next number   *)
(* is not kept anywhere: it is how many invoices of the series the table   *)
(* holds for this year, plus one, counted when the handler of a form       *)
(* starts and saved several Stripe calls later.                            *)
(*                                                                         *)
(* There are two calendars.  The application's clock is set to Madrid and  *)
(* says which year to count and to print; the table's created_at is in UTC *)
(* and says to which year an invoice counts.  For an hour they disagree.   *)
(*                                                                         *)
(* A form makes one invoice at most, so its request names the invoice; the *)
(* invoices that come from elsewhere, typed in by staff or imported from   *)
(* Stripe, have no number and are the Extras.                              *)
(***************************************************************************)
EXTENDS Naturals, FiniteSets

CONSTANTS
    Requests,  \* the web requests that buy, and the invoices they make
    Extras,    \* the other invoices
    Workers,   \* how many requests the web server handles at a time
    LastYear,  \* a bound: the calendar stops there
    None       \* no row, no number

ASSUME RequestsFinite    == IsFiniteSet(Requests)
ASSUME ExtrasFinite      == IsFiniteSet(Extras)
ASSUME Disjoint          == Requests \cap Extras = {}
ASSUME WorkersAssumption == Workers \in Nat

VARIABLES
    invoice,     \* rows of table invoices
    request,     \* the requests: form, progress and @invoice_number
    madridYear,  \* Time.current.year
    utcYear,     \* the year of a created_at that is set now
    lowered      \* history: the series and years that have lost an invoice

vars == <<invoice, request, madridYear, utcYear, lowered>>

-----------------------------------------------------------------------------
Invoices == Requests \cup Extras

\* Scopes spain and notspain, which are also the two prefixes.
Series == {"spain", "notspain"}

Number == [series : Series, year : Nat, count : Nat \ {0}]

\* year: of created_at.  series: by the country the row has now.
Row == [series : Series, year : Nat, number : Number \cup {None}]

\* A pre-payment counts twice: first, and again when it records its details.
Kinds == {"subscription", "prepayment"}

ASSUME NoneAssumption == None \notin Row \cup Number

RequestState ==
    [status : {"idle", "counted", "ready", "ok", "failed"}, series : Series,
     number : Number \cup {None}]

Running == {r \in Requests : request[r].status \in {"counted", "ready"}}

\* Deliberate mistakes: the scopes swapped, and no clause for the year.
CountedSwapped(series, year) ==
    {i \in Invoices : /\ invoice[i] # None
                      /\ invoice[i].series # series
                      /\ invoice[i].year = year}

CountedAlways(series, year) ==
    {i \in Invoices : /\ invoice[i] # None
                      /\ invoice[i].series = series}

Counted(series, year) ==
    {i \in Invoices : /\ invoice[i] # None
                      /\ invoice[i].series = series
                      /\ invoice[i].year = year}

\* Deliberate mistakes: the clocks mixed up, and the one not added.
InvoiceNumberByUtc(series) ==
    [series |-> series, year |-> utcYear,
     count |-> Cardinality(Counted(series, madridYear)) + 1]

InvoiceNumberOffByOne(series) ==
    [series |-> series, year |-> madridYear,
     count |-> Cardinality(Counted(series, madridYear))]

\* country_choice, as far as the number goes.
InvoiceNumber(series) ==
    [series |-> series, year |-> madridYear,
     count |-> Cardinality(Counted(series, madridYear)) + 1]

-----------------------------------------------------------------------------
Init ==
    /\ invoice = [i \in Invoices |-> None]
    /\ request = [r \in Requests |->
            [status |-> "idle", series |-> "spain", number |-> None]]
    /\ madridYear = 1
    /\ utcYear = 1
    /\ lowered = {}

\* new_subscription or new_prepayment starts.
Start(r, kind, series) ==
    /\ request[r].status = "idle"
    /\ Cardinality(Running) < Workers
    /\ request' = [request EXCEPT ![r] =
            [status |-> IF kind = "prepayment" THEN "counted" ELSE "ready",
             series |-> series, number |-> InvoiceNumber(series)]]
    /\ UNCHANGED <<invoice, madridYear, utcYear, lowered>>

\* set_one_time_details starts, once the money has been taken.
CountAgain(r) ==
    /\ request[r].status = "counted"
    /\ request' = [request EXCEPT ![r] =
            [status |-> "ready", series |-> request[r].series,
             number |-> InvoiceNumber(request[r].series)]]
    /\ UNCHANGED <<invoice, madridYear, utcYear, lowered>>

\* i.save!, with the number found before.
Save(r) ==
    /\ request[r].status = "ready"
    /\ invoice' = [invoice EXCEPT ![r] =
            [series |-> request[r].series, year |-> utcYear,
             number |-> request[r].number]]
    /\ request' = [request EXCEPT ![r].status = "ok"]
    /\ UNCHANGED <<madridYear, utcYear, lowered>>

\* Stripe or the database fails: the number is not used.
Abandon(r) ==
    /\ r \in Running
    /\ request' = [request EXCEPT ![r].status = "failed"]
    /\ UNCHANGED <<invoice, madridYear, utcYear, lowered>>

\* InvoicesController#create, whose form has a country and no number, and
\* get_subscription_history, which imports with an empty country.
Add(x, series) ==
    /\ invoice[x] = None
    /\ invoice' = [invoice EXCEPT ![x] =
            [series |-> series, year |-> utcYear, number |-> None]]
    /\ UNCHANGED <<request, madridYear, utcYear, lowered>>

Lower(i) == lowered' = lowered \cup {<<invoice[i].series, invoice[i].year>>}

\* InvoicesController#update: the country can be put right.
ChangeCountry(i, series) ==
    /\ invoice[i] # None
    /\ invoice[i].series # series
    /\ invoice' = [invoice EXCEPT ![i] =
            [series |-> series, year |-> invoice[i].year,
             number |-> invoice[i].number]]
    /\ Lower(i)
    /\ UNCHANGED <<request, madridYear, utcYear>>

\* InvoicesController#destroy.
Destroy(i) ==
    /\ invoice[i] # None
    /\ invoice' = [invoice EXCEPT ![i] = None]
    /\ Lower(i)
    /\ UNCHANGED <<request, madridYear, utcYear>>

\* The year turns in Madrid first, and in UTC an hour later.
MadridNewYear ==
    /\ madridYear = utcYear
    /\ madridYear < LastYear
    /\ madridYear' = madridYear + 1
    /\ UNCHANGED <<invoice, request, utcYear, lowered>>

UtcNewYear ==
    /\ utcYear < madridYear
    /\ utcYear' = madridYear
    /\ UNCHANGED <<invoice, request, madridYear, lowered>>

Next ==
    \/ \E r \in Requests :
          \/ \E kind \in Kinds, series \in Series : Start(r, kind, series)
          \/ CountAgain(r) \/ Save(r) \/ Abandon(r)
    \/ \E series \in Series :
          \/ \E x \in Extras : Add(x, series)
          \/ \E i \in Invoices : ChangeCountry(i, series)
    \/ \E i \in Invoices : Destroy(i)
    \/ MadridNewYear
    \/ UtcNewYear

Spec == Init /\ [][Next]_vars

-----------------------------------------------------------------------------
(* What must hold.                                                         *)

\* Every variable keeps its type; in particular no number ends in zero.
TypeOK ==
    /\ invoice \in [Invoices -> Row \cup {None}]
    /\ request \in [Requests -> RequestState]
    /\ madridYear \in Nat
    /\ utcYear \in Nat
    /\ lowered \subseteq Series \X Nat

\* No invoice of the number's series and year was deleted or moved away.
Intact(n) == <<n.series, n.year>> \notin lowered

With(n) == {i \in Invoices : invoice[i] # None /\ invoice[i].number = n}

Used == {invoice[i].number : i \in {j \in Invoices : invoice[j] # None}} \ {None}

\* Two invoices get the same number only from requests that overlap, so at most
\* as many as the server handles at a time; none if it handles one.  The first
\* number of a year is the exception: it is given out again and again while it
\* is next year in Madrid and not yet in UTC, because nothing saved then counts.
SharedByOverlapOnly ==
    \A n \in Used :
        n.count > 1 /\ Intact(n) => Cardinality(With(n)) <= Workers

\* A request never gets a number that is in use, or one below it, from an
\* invoice that counts to the year the number is of.
NumbersGrow ==
    [][\A r \in Requests, i \in Invoices :
          LET n == request'[r].number IN
          /\ n # request[r].number
          /\ Intact(n)
          /\ invoice[i] # None
          /\ invoice[i].year = n.year
          /\ invoice[i].number # None
          /\ invoice[i].number.series = n.series
          /\ invoice[i].number.year = n.year
          => invoice[i].number.count < n.count]_vars

\* The invoices that count to the number's series and year and do not have
\* this number of them, nor a higher one.
Below(n) ==
    {i \in Counted(n.series, n.year) :
        LET m == invoice[i].number IN
        ~(m # None /\ m.series = n.series /\ m.year = n.year
            /\ m.count >= n.count)}

\* A gap in the numbers is paid for.  Below a number there are as many invoices
\* as numbers, so that a number that nobody has is one that two overlapping
\* requests share further down, or is made up for by an invoice that counts and
\* has no number of the series: typed in, imported, moved, begun last year.
GapsArePaidFor ==
    \A n \in Used : Intact(n) => n.count <= Cardinality(Below(n)) + 1
=============================================================================
