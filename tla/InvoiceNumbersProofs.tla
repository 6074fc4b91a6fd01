------------------------- MODULE InvoiceNumbersProofs -------------------------
(***************************************************************************)
(* Proofs about InvoiceNumbers, for any number of requests, other invoices,*)
(* workers and years.                                                      *)
(*                                                                         *)
(* The reason that a number is not shared more widely is a comparison with *)
(* the count that it was taken from: as long as a series and a year lose   *)
(* no invoice, the numbers in the table are at most the count and those in *)
(* the hands of requests at most one more.  A new number is above the      *)
(* count, so that only requests can share it, and of these there are no    *)
(* more than workers.  What the two calendars add is which rows of another *)
(* year can carry the number: those saved early, all with number one, and  *)
(* those saved late, when the number's year is not counted any more.       *)
(***************************************************************************)
EXTENDS InvoiceNumbers, FiniteSetTheorems, TLAPS

CountOf(series, year) == Cardinality(Counted(series, year))

Calendars == utcYear \in {madridYear, madridYear - 1}

RunningBounded == Cardinality(Running) <= Workers

\* A request's invoice is there only once the request is over.
Unsaved ==
    \A r \in Requests : request[r].status # "ok" => invoice[r] = None

RowsKnown ==
    \A i \in Invoices : invoice[i] # None =>
        LET n == invoice[i].number IN
        /\ invoice[i].year <= utcYear
        /\ n # None /\ Intact(n) =>
              /\ n.count > 1 => invoice[i].year >= n.year
              /\ invoice[i].year = n.year =>
                    invoice[i].series = n.series
                    /\ n.count <= CountOf(n.series, n.year)

HeldKnown ==
    \A r \in Running :
        LET n == request[r].number IN
        /\ n # None
        /\ n.series = request[r].series
        /\ n.year <= madridYear
        /\ n.count > 1 => n.year <= utcYear
        /\ Intact(n) => n.count <= CountOf(n.series, n.year) + 1

Holders(n) == With(n) \cup {r \in Running : request[r].number = n}

HoldersBounded ==
    \A n \in Number :
        n.count > 1 /\ Intact(n) => Cardinality(Holders(n)) <= Workers

\* A number in the table, or on its way there.
Given(n) == n \in Used \/ \E r \in Running : request[r].number = n

GivenPaid ==
    \A n \in Number :
        Given(n) /\ Intact(n) => n.count <= Cardinality(Below(n)) + 1

IInv ==
    /\ TypeOK
    /\ Calendars
    /\ RunningBounded
    /\ Unsaved
    /\ RowsKnown
    /\ HeldKnown
    /\ HoldersBounded
    /\ GivenPaid

-----------------------------------------------------------------------------
(* Counts.                                                                 *)

LEMMA FiniteParts ==
    /\ IsFiniteSet(Invoices)
    /\ \A S \in SUBSET Invoices : IsFiniteSet(S) /\ Cardinality(S) \in Nat
    /\ \A S, T \in SUBSET Invoices :
          S \subseteq T => Cardinality(S) <= Cardinality(T)
<1>1. IsFiniteSet(Invoices)
  BY RequestsFinite, ExtrasFinite, FS_Union DEF Invoices
<1>2. ASSUME NEW S \in SUBSET Invoices
      PROVE  IsFiniteSet(S) /\ Cardinality(S) \in Nat
  BY <1>1, FS_Subset, FS_CardinalityType
<1>3. ASSUME NEW S \in SUBSET Invoices, NEW T \in SUBSET Invoices,
             S \subseteq T
      PROVE  Cardinality(S) <= Cardinality(T)
  BY <1>2, <1>3, FS_Subset
<1>4. QED
  BY <1>1, <1>2, <1>3

LEMMA CountType ==
    /\ \A series, year : CountOf(series, year) \in Nat
    /\ \A series, year : CountOf(series, year)' \in Nat
    /\ Cardinality(Running) \in Nat /\ Cardinality(Running)' \in Nat
BY FiniteParts DEF CountOf, Counted, Running, Invoices

LEMMA NumberType ==
    ASSUME NEW series \in Series, TypeOK
    PROVE  /\ InvoiceNumber(series) \in Number
           /\ InvoiceNumber(series).series = series
           /\ InvoiceNumber(series).year = madridYear
           /\ InvoiceNumber(series).count = CountOf(series, madridYear) + 1
BY CountType DEF InvoiceNumber, Number, TypeOK, CountOf

-----------------------------------------------------------------------------
(* Types.                                                                  *)

LEMMA InitType == Init => TypeOK
BY DEF Init, TypeOK, RequestState, Series

LEMMA TypeStep ==
    ASSUME TypeOK, [Next]_vars
    PROVE  TypeOK'
<1> USE DEF TypeOK
<1>1. CASE UNCHANGED vars
  BY <1>1 DEF vars
<1>2. ASSUME NEW r \in Requests, NEW kind \in Kinds, NEW series \in Series,
             Start(r, kind, series)
      PROVE  TypeOK'
  BY <1>2, NumberType DEF Start, RequestState
<1>3. ASSUME NEW r \in Requests, CountAgain(r)
      PROVE  TypeOK'
  <2>1. request[r].series \in Series
    BY DEF RequestState
  <2>2. QED
    BY <1>3, <2>1, NumberType DEF CountAgain, RequestState
<1>4. ASSUME NEW r \in Requests, Save(r)
      PROVE  TypeOK'
  BY <1>4 DEF Save, RequestState, Row, Invoices
<1>5. ASSUME NEW r \in Requests, Abandon(r)
      PROVE  TypeOK'
  BY <1>5 DEF Abandon, RequestState
<1>6. ASSUME NEW x \in Extras, NEW series \in Series, Add(x, series)
      PROVE  TypeOK'
  BY <1>6 DEF Add, Row, Invoices
<1>7. ASSUME NEW i \in Invoices, NEW series \in Series,
             ChangeCountry(i, series)
      PROVE  TypeOK'
  BY <1>7 DEF ChangeCountry, Lower, Row
<1>8. ASSUME NEW i \in Invoices, Destroy(i)
      PROVE  TypeOK'
  BY <1>8 DEF Destroy, Lower, Row
<1>9. CASE MadridNewYear \/ UtcNewYear
  BY <1>9 DEF MadridNewYear, UtcNewYear
<1>10. QED
  BY <1>1, <1>2, <1>3, <1>4, <1>5, <1>6, <1>7, <1>8, <1>9 DEF Next

-----------------------------------------------------------------------------
(* What a step does to the invoices and to the requests.                   *)

\* Row i is new: its request has saved it, or it has no number.
Added(i) ==
    /\ invoice[i] = None
    /\ invoice'[i].year = utcYear
    /\ \/ invoice'[i].number = None
       \/ /\ i \in Requests
          /\ request[i].status = "ready"
          /\ request'[i].status = "ok"
          /\ invoice'[i].number = request[i].number
          /\ invoice'[i].series = request[i].series

\* Row i has changed sides, or has gone.
Moved(i) ==
    /\ invoice[i] # None
    /\ \/ invoice'[i] = None
       \/ /\ invoice'[i].year = invoice[i].year
          /\ invoice'[i].number = invoice[i].number
    /\ <<invoice[i].series, invoice[i].year>> \in lowered'

LEMMA InvoicesChange ==
    ASSUME TypeOK, Unsaved, [Next]_vars
    PROVE  /\ lowered \subseteq lowered'
           /\ \A i \in Invoices :
                 \/ invoice'[i] = invoice[i]
                 \/ Added(i) /\ invoice'[i] # None
                 \/ Moved(i)
<1> USE DEF TypeOK
<1>1. CASE UNCHANGED <<invoice, lowered>>
  BY <1>1
<1>2. ASSUME NEW r \in Requests, Save(r)
      PROVE  /\ lowered \subseteq lowered'
             /\ \A i \in Invoices \ {r} : invoice'[i] = invoice[i]
             /\ Added(r) /\ invoice'[r] # None
  <2>1. /\ invoice'[r] = [series |-> request[r].series, year |-> utcYear,
                          number |-> request[r].number]
        /\ invoice'[r] \in Row
    BY <1>2, TypeStep DEF Save, Invoices, Row, RequestState
  <2>2. QED
    BY <1>2, <2>1, NoneAssumption
       DEF Save, Invoices, Unsaved, Added, RequestState
<1>3. ASSUME NEW x \in Extras, NEW series \in Series, Add(x, series)
      PROVE  /\ lowered \subseteq lowered'
             /\ \A i \in Invoices \ {x} : invoice'[i] = invoice[i]
             /\ Added(x) /\ invoice'[x] # None
  <2>1. /\ invoice'[x] = [series |-> series, year |-> utcYear, number |-> None]
        /\ invoice'[x] \in Row
    BY <1>3 DEF Add, Invoices, Row
  <2>2. QED
    BY <1>3, <2>1, NoneAssumption DEF Add, Invoices, Added
<1>4. ASSUME NEW i \in Invoices, NEW series \in Series,
             ChangeCountry(i, series)
      PROVE  /\ lowered \subseteq lowered'
             /\ \A j \in Invoices \ {i} : invoice'[j] = invoice[j]
             /\ Moved(i)
  BY <1>4 DEF ChangeCountry, Lower, Moved
<1>5. ASSUME NEW i \in Invoices, Destroy(i)
      PROVE  /\ lowered \subseteq lowered'
             /\ \A j \in Invoices \ {i} : invoice'[j] = invoice[j]
             /\ Moved(i)
  BY <1>5 DEF Destroy, Lower, Moved
<1>6. QED
  BY <1>1, <1>2, <1>3, <1>4, <1>5
     DEF Next, Start, CountAgain, Abandon, MadridNewYear, UtcNewYear, Invoices,
         vars

\* A request gets a number when it counts and keeps it from then on.
Counting(r) ==
    /\ request'[r].status \in {"counted", "ready"}
    /\ request'[r].series \in Series
    /\ request'[r].number = InvoiceNumber(request'[r].series)
    /\ UNCHANGED <<invoice, madridYear, utcYear, lowered>>
    /\ Cardinality(Running)' <= Workers

LEMMA RequestsChange ==
    ASSUME TypeOK, RunningBounded, [Next]_vars
    PROVE  /\ \A r \in Requests :
                 \/ request'[r] = request[r]
                 \/ Counting(r)
                 \/ /\ request[r].status \in {"counted", "ready"}
                    /\ request'[r].status \in {"ok", "failed"}
                    /\ request'[r].number = request[r].number
           /\ Cardinality(Running)' <= Workers
<1> USE DEF TypeOK
<1>1. CASE UNCHANGED request
  BY <1>1 DEF Running, RunningBounded
<1>2. ASSUME NEW r \in Requests, NEW kind \in Kinds, NEW series \in Series,
             Start(r, kind, series)
      PROVE  /\ \A x \in Requests \ {r} : request'[x] = request[x]
             /\ Counting(r)
  <2>1. /\ request'[r] = [status |-> IF kind = "prepayment" THEN "counted"
                                     ELSE "ready",
                          series |-> series, number |-> InvoiceNumber(series)]
        /\ \A x \in Requests \ {r} : request'[x] = request[x]
    BY <1>2 DEF Start
  <2>2. Running' = Running \cup {r}
    BY <2>1 DEF Running
  <2>3. Cardinality(Running)' <= Cardinality(Running) + 1
    BY <2>2, FiniteParts, FS_AddElement, CountType DEF Running, Invoices
  <2>4. Cardinality(Running)' <= Workers
    BY <1>2, <2>3, CountType, WorkersAssumption DEF Start
  <2>5. QED
    BY <1>2, <2>1, <2>4 DEF Counting, Start
<1>3. ASSUME NEW r \in Requests, CountAgain(r)
      PROVE  /\ \A x \in Requests \ {r} : request'[x] = request[x]
             /\ Counting(r)
  <2>1. /\ request'[r] = [status |-> "ready", series |-> request[r].series,
                          number |-> InvoiceNumber(request[r].series)]
        /\ \A x \in Requests \ {r} : request'[x] = request[x]
    BY <1>3 DEF CountAgain
  <2>2. Running' = Running
    BY <1>3, <2>1 DEF Running, CountAgain
  <2>3. request[r].series \in Series
    BY DEF RequestState
  <2>4. QED
    BY <1>3, <2>1, <2>2, <2>3 DEF Counting, CountAgain, RunningBounded
<1>4. ASSUME NEW r \in Requests, Save(r) \/ Abandon(r)
      PROVE  /\ \A x \in Requests \ {r} : request'[x] = request[x]
             /\ request[r].status \in {"counted", "ready"}
             /\ request'[r].status \in {"ok", "failed"}
             /\ request'[r].number = request[r].number
             /\ Cardinality(Running)' <= Workers
  <2>1. /\ \A x \in Requests \ {r} : request'[x] = request[x]
        /\ request[r].status \in {"counted", "ready"}
        /\ request'[r].status \in {"ok", "failed"}
        /\ request'[r].number = request[r].number
    BY <1>4 DEF Save, Abandon, Running, RequestState
  <2>2. Running' \subseteq Running
    BY <2>1 DEF Running
  <2>3. Cardinality(Running)' <= Cardinality(Running)
    BY <2>2, FiniteParts DEF Running, Invoices
  <2>4. QED
    BY <2>1, <2>3, CountType, WorkersAssumption DEF RunningBounded
<1>5. QED
  BY <1>1, <1>2, <1>3, <1>4
     DEF Next, Add, ChangeCountry, Destroy, MadridNewYear, UtcNewYear, vars,
         Counting

\* A series and a year lose no invoice without being remembered for it.
LEMMA CountGrows ==
    ASSUME TypeOK, Unsaved, [Next]_vars, NEW series, NEW year,
           <<series, year>> \notin lowered'
    PROVE  /\ <<series, year>> \notin lowered
           /\ Counted(series, year) \subseteq Counted(series, year)'
           /\ CountOf(series, year) <= CountOf(series, year)'
<1>1. <<series, year>> \notin lowered
  BY InvoicesChange
<1>2. Counted(series, year) \subseteq Counted(series, year)'
  BY InvoicesChange DEF Counted, Moved, Added
<1>3. QED
  BY <1>1, <1>2, FiniteParts DEF CountOf, Counted

-----------------------------------------------------------------------------
(* The inductive invariant, one part at a time.                            *)

LEMMA YearsChange ==
    ASSUME TypeOK, Calendars, [Next]_vars
    PROVE  Calendars' /\ utcYear <= utcYear' /\ madridYear <= madridYear'
<1>1. CASE UNCHANGED <<utcYear, madridYear>>
  BY <1>1 DEF Calendars, TypeOK
<1>2. CASE MadridNewYear \/ UtcNewYear
  BY <1>2 DEF MadridNewYear, UtcNewYear, Calendars, TypeOK
<1>3. QED
  BY <1>1, <1>2
     DEF Next, vars, Start, CountAgain, Save, Abandon, Add, ChangeCountry,
         Destroy

LEMMA UnsavedStep ==
    ASSUME TypeOK, Unsaved, [Next]_vars
    PROVE  Unsaved'
<1> USE DEF TypeOK, Unsaved, Invoices
<1>1. CASE UNCHANGED <<request, invoice>>
  BY <1>1
<1>2. ASSUME NEW r \in Requests,
             \/ \E kind \in Kinds, series \in Series : Start(r, kind, series)
             \/ CountAgain(r) \/ Abandon(r)
      PROVE  Unsaved'
  BY <1>2 DEF Start, CountAgain, Abandon, Running
<1>3. ASSUME NEW r \in Requests, Save(r)
      PROVE  Unsaved'
  BY <1>3 DEF Save, RequestState
<1>4. ASSUME NEW x \in Extras, NEW series \in Series, Add(x, series)
      PROVE  Unsaved'
  BY <1>4, Disjoint DEF Add
<1>5. ASSUME NEW i \in Invoices,
             Destroy(i) \/ \E series \in Series : ChangeCountry(i, series)
      PROVE  Unsaved'
  BY <1>5 DEF Destroy, ChangeCountry
<1>6. QED
  BY <1>1, <1>2, <1>3, <1>4, <1>5 DEF Next, vars, MadridNewYear, UtcNewYear

LEMMA RowsStep ==
    ASSUME TypeOK, Calendars, Unsaved, RowsKnown, HeldKnown, [Next]_vars
    PROVE  RowsKnown'
<1> SUFFICES ASSUME NEW i \in Invoices, invoice'[i] # None,
                    NEW n, n = invoice'[i].number,
                    NEW y, y = invoice'[i].year
             PROVE  /\ y <= utcYear'
                    /\ n # None /\ <<n.series, n.year>> \notin lowered' =>
                          /\ n.count > 1 => y >= n.year
                          /\ y = n.year =>
                                /\ invoice'[i].series = n.series
                                /\ n.count <= CountOf(n.series, n.year)'
  BY DEF RowsKnown, Intact, CountOf, Counted
<1>1. y <= utcYear' /\ y \in Nat
  <2>1. y <= utcYear /\ y \in Nat
    <3>1. CASE invoice[i] # None /\ y = invoice[i].year
      BY <3>1 DEF RowsKnown, TypeOK, Row
    <3>2. CASE y = utcYear
      BY <3>2 DEF TypeOK
    <3>3. QED
      BY <3>1, <3>2, InvoicesChange DEF Added, Moved
  <2>2. QED
    BY <2>1, YearsChange, TypeStep DEF TypeOK
<1>2. ASSUME n # None, <<n.series, n.year>> \notin lowered'
      PROVE  /\ n.count > 1 => y >= n.year
             /\ y = n.year => /\ invoice'[i].series = n.series
                              /\ n.count <= CountOf(n.series, n.year)'
  <2>1. n \in Number
    BY <1>2, TypeStep DEF TypeOK, Row
  <2>2. /\ Intact(n)
        /\ Counted(n.series, n.year) \subseteq Counted(n.series, n.year)'
        /\ CountOf(n.series, n.year) <= CountOf(n.series, n.year)'
    BY <1>2, CountGrows DEF Intact
  <2>3. /\ CountOf(n.series, n.year) \in Nat
        /\ CountOf(n.series, n.year)' \in Nat
        /\ n.count \in Nat
    BY <2>1, CountType DEF Number
  <2>4. CASE invoice'[i] = invoice[i]
    BY <1>2, <2>2, <2>3, <2>4 DEF RowsKnown
  <2>5. CASE Moved(i)
    <3>1. /\ invoice[i] # None
          /\ invoice[i].year = y
          /\ invoice[i].number = n
          /\ <<invoice[i].series, y>> \in lowered'
      BY <2>5 DEF Moved
    <3>2. /\ n.count > 1 => y >= n.year
          /\ y = n.year => invoice[i].series = n.series
      BY <1>2, <2>2, <3>1 DEF RowsKnown
    <3>3. QED
      BY <1>2, <3>1, <3>2
  <2>6. CASE Added(i)
    <3>1. /\ i \in Running
          /\ n = request[i].number
          /\ invoice'[i].series = request[i].series
          /\ y = utcYear
          /\ invoice[i] = None
      BY <1>2, <2>6 DEF Added, Running
    <3>2. /\ n.series = request[i].series
          /\ n.count > 1 => n.year <= utcYear
          /\ n.count <= CountOf(n.series, n.year) + 1
      BY <2>2, <3>1 DEF HeldKnown
    <3>3. ASSUME y = n.year
          PROVE  CountOf(n.series, n.year) + 1 <= CountOf(n.series, n.year)'
      <4>1. i \in Counted(n.series, n.year)'
        BY <3>1, <3>2, <3>3 DEF Counted
      <4>2. i \notin Counted(n.series, n.year)
        BY <3>1 DEF Counted
      <4>3. Counted(n.series, n.year) \cup {i} \subseteq
               Counted(n.series, n.year)'
        BY <2>2, <4>1
      <4>4. Cardinality(Counted(n.series, n.year) \cup {i}) <=
               CountOf(n.series, n.year)'
        BY <4>3, FiniteParts DEF CountOf, Counted
      <4>5. Cardinality(Counted(n.series, n.year) \cup {i}) =
               CountOf(n.series, n.year) + 1
        BY <4>2, FiniteParts, FS_AddElement DEF CountOf, Counted
      <4>6. QED
        BY <4>4, <4>5
    <3>4. QED
      BY <2>3, <3>1, <3>2, <3>3 DEF TypeOK
  <2>7. QED
    BY <2>4, <2>5, <2>6, InvoicesChange
<1>3. QED
  BY <1>1, <1>2

LEMMA HeldStep ==
    ASSUME TypeOK, Calendars, RunningBounded, Unsaved, RowsKnown, HeldKnown,
           [Next]_vars
    PROVE  HeldKnown'
<1> SUFFICES ASSUME NEW r \in Requests,
                    request'[r].status \in {"counted", "ready"},
                    NEW n, n = request'[r].number
             PROVE  /\ n # None
                    /\ n.series = request'[r].series
                    /\ n.year <= madridYear'
                    /\ n.count > 1 => n.year <= utcYear'
                    /\ <<n.series, n.year>> \notin lowered' =>
                          n.count <= CountOf(n.series, n.year)' + 1
  BY DEF HeldKnown, Running, Intact, CountOf, Counted
<1>1. CASE request'[r] = request[r]
  <2>1. r \in Running /\ n = request[r].number
    BY <1>1 DEF Running
  <2>2. /\ n # None
        /\ n.series = request'[r].series
        /\ n.year <= madridYear
        /\ n.count > 1 => n.year <= utcYear
        /\ Intact(n) => n.count <= CountOf(n.series, n.year) + 1
    BY <1>1, <2>1 DEF HeldKnown
  <2>3. n \in Number
    BY <2>1, <2>2 DEF TypeOK, RequestState
  <2>4. n.year <= madridYear' /\ (n.count > 1 => n.year <= utcYear')
    BY <2>2, <2>3, YearsChange, TypeStep DEF Number, TypeOK
  <2>5. ASSUME <<n.series, n.year>> \notin lowered'
        PROVE  n.count <= CountOf(n.series, n.year)' + 1
    <3>1. CountOf(n.series, n.year) <= CountOf(n.series, n.year)'
      BY <2>5, CountGrows
    <3>2. Intact(n)
      BY <2>5, CountGrows DEF Intact
    <3>3. QED
      BY <2>2, <2>3, <3>1, <3>2, CountType DEF Number
  <2>6. QED
    BY <2>2, <2>4, <2>5
<1>2. CASE Counting(r)
  <2> PICK s : s = request'[r].series
    OBVIOUS
  <2>1. /\ n \in Number
        /\ n.series = s
        /\ n.year = madridYear
        /\ n.count = CountOf(s, madridYear) + 1
    BY <1>2, NumberType DEF Counting
  <2>2. n # None
    BY <2>1, NoneAssumption
  <2>3. ASSUME n.count > 1
        PROVE  n.year <= utcYear
    <3>1. CountOf(s, madridYear) # 0
      BY <2>1, <2>3
    <3>2. PICK i : i \in Counted(s, madridYear)
      BY <3>1, FS_EmptySet DEF CountOf
    <3>3. QED
      BY <2>1, <3>2 DEF Counted, RowsKnown
  <2>4. CountOf(s, madridYear)' = CountOf(s, madridYear)
    BY <1>2 DEF Counting, CountOf, Counted
  <2>5. /\ n.year <= madridYear'
        /\ n.count > 1 => n.year <= utcYear'
        /\ n.count <= CountOf(n.series, n.year)' + 1
    BY <1>2, <2>1, <2>3, <2>4, CountType DEF Counting, TypeOK
  <2>6. QED
    BY <2>1, <2>2, <2>5
<1>3. QED
  BY <1>1, <1>2, RequestsChange

LEMMA HoldersStep ==
    ASSUME TypeOK, Calendars, RunningBounded, Unsaved, RowsKnown,
           HoldersBounded, [Next]_vars
    PROVE  HoldersBounded'
<1> SUFFICES ASSUME NEW n \in Number, n.count > 1,
                    <<n.series, n.year>> \notin lowered'
             PROVE  Cardinality(Holders(n))' <= Workers
  BY DEF HoldersBounded, Intact
<1> USE DEF Holders, With
<1>1. Intact(n)
  BY CountGrows DEF Intact
<1>2. /\ Holders(n) \subseteq Invoices /\ Holders(n)' \subseteq Invoices
      /\ Running' \subseteq Invoices
  BY DEF Running, Invoices
<1>3. /\ Cardinality(Holders(n)) \in Nat /\ Cardinality(Holders(n))' \in Nat
      /\ Cardinality(Running)' \in Nat
  BY <1>2, FiniteParts
<1>4. ASSUME NEW r \in Requests, Counting(r), n = request'[r].number
      PROVE  Cardinality(Holders(n))' <= Workers
  <2>1. /\ n.year = madridYear
        /\ n.count = CountOf(n.series, n.year) + 1
    BY <1>4, NumberType DEF Counting
  <2>2. With(n) = {}
    <3> SUFFICES ASSUME NEW i \in Invoices, invoice[i] # None,
                        invoice[i].number = n
                 PROVE  FALSE
      OBVIOUS
    <3>1. n # None
      BY NoneAssumption
    <3>2. /\ invoice[i].year <= utcYear
          /\ invoice[i].year >= n.year
          /\ invoice[i].year = n.year => n.count <= CountOf(n.series, n.year)
      BY <1>1, <3>1 DEF RowsKnown
    <3>3. invoice[i].year = n.year
      BY <2>1, <3>2 DEF Calendars, TypeOK, Row
    <3>4. QED
      BY <2>1, <3>2, <3>3, CountType
  <2>3. With(n)' = With(n)
    BY <1>4 DEF Counting
  <2>4. Holders(n)' \subseteq Running'
    BY <2>2, <2>3
  <2>5. Cardinality(Holders(n))' <= Cardinality(Running)'
    BY <1>2, <2>4, FiniteParts
  <2>6. QED
    BY <1>3, <1>4, <2>5, WorkersAssumption DEF Counting
<1>5. CASE \A r \in Requests : ~(Counting(r) /\ n = request'[r].number)
  <2>1. With(n)' \subseteq Holders(n)
    <3> SUFFICES ASSUME NEW i \in Invoices, invoice'[i] # None,
                        invoice'[i].number = n
                 PROVE  i \in Holders(n)
      OBVIOUS
    <3>1. CASE invoice[i] # None /\ invoice[i].number = n
      BY <3>1
    <3>2. CASE i \in Running /\ request[i].number = n
      BY <3>2
    <3>3. QED
      BY <3>1, <3>2, InvoicesChange, NoneAssumption DEF Added, Moved, Running
  <2>2. ASSUME NEW r \in Running', request'[r].number = n
        PROVE  r \in Holders(n)
    <3>1. request'[r] = request[r]
      BY <1>5, <2>2, RequestsChange DEF Running
    <3>2. QED
      BY <2>2, <3>1 DEF Running
  <2>3. Holders(n)' \subseteq Holders(n)
    BY <2>1, <2>2
  <2>4. Cardinality(Holders(n))' <= Cardinality(Holders(n))
    BY <1>2, <2>3, FiniteParts
  <2>5. Cardinality(Holders(n)) <= Workers
    BY <1>1 DEF HoldersBounded
  <2>6. QED
    BY <1>3, <2>4, <2>5, WorkersAssumption
<1>6. QED
  BY <1>4, <1>5

\* A number is new only to a request that has just counted, and then every
\* invoice it counted is below it; from then on these stay below.
LEMMA GivenStep ==
    ASSUME TypeOK, Unsaved, RowsKnown, GivenPaid, RunningBounded, [Next]_vars
    PROVE  GivenPaid'
<1> SUFFICES ASSUME NEW n \in Number, Given(n)', Intact(n)'
             PROVE  n.count <= Cardinality(Below(n))' + 1
  BY DEF GivenPaid
<1>1. /\ Intact(n)
      /\ Counted(n.series, n.year) \subseteq Counted(n.series, n.year)'
  BY CountGrows DEF Intact
<1>2. \A i \in Counted(n.series, n.year) : invoice'[i] = invoice[i]
  <2>1. TAKE i \in Counted(n.series, n.year)
  <2>2. /\ i \in Invoices /\ invoice[i] # None
        /\ <<invoice[i].series, invoice[i].year>> \notin lowered'
    BY DEF Counted, Intact
  <2>3. QED
    BY <2>2, InvoicesChange DEF Added, Moved
<1>3. Below(n) \subseteq Below(n)'
  BY <1>1, <1>2 DEF Below
<1>4. /\ Below(n) \in SUBSET Invoices /\ Below(n)' \in SUBSET Invoices
      /\ Cardinality(Below(n)) <= Cardinality(Below(n))'
      /\ Cardinality(Below(n)) \in Nat /\ Cardinality(Below(n))' \in Nat
  <2>1. Below(n) \subseteq Invoices /\ Below(n)' \subseteq Invoices
    BY DEF Below, Counted, Invoices
  <2>2. QED
    BY <1>3, <2>1, FiniteParts
<1>5. CASE Given(n)
  <2>1. n.count <= Cardinality(Below(n)) + 1
    BY <1>1, <1>5 DEF GivenPaid
  <2>2. QED
    BY <1>4, <2>1 DEF Number
<1>6. CASE ~Given(n)
  <2>1. PICK r \in Requests : Counting(r) /\ n = request'[r].number
    <3>1. CASE n \in Used'
      <4>1. PICK i \in Invoices : invoice'[i] # None /\ invoice'[i].number = n
        BY <3>1 DEF Used, Invoices
      <4>2. invoice'[i] # invoice[i] /\ ~Moved(i)
        BY <1>6, <4>1, NoneAssumption DEF Given, Used, Moved
      <4>3. Added(i)
        BY <4>2, InvoicesChange
      <4>4. /\ i \in Requests
            /\ request[i].status = "ready" /\ request[i].number = n
        BY <4>1, <4>3, NoneAssumption DEF Added
      <4>5. QED
        BY <1>6, <4>4 DEF Given, Running
    <3>2. CASE \E r \in Running' : request'[r].number = n
      <4>1. PICK r \in Running' : request'[r].number = n
        BY <3>2
      <4>2. /\ r \in Requests
            /\ request'[r].status \in {"counted", "ready"}
        BY DEF Running
      <4>3. request'[r] # request[r]
        BY <1>6, <4>1, <4>2 DEF Given, Running
      <4>4. QED
        BY <4>1, <4>2, <4>3, RequestsChange
    <3>3. QED
      BY <3>1, <3>2 DEF Given
  <2>2. n.count = CountOf(n.series, n.year) + 1
    BY <2>1, NumberType DEF Counting
  <2>3. \A i \in Counted(n.series, n.year) :
            LET m == invoice[i].number IN
            m # None /\ m.series = n.series /\ m.year = n.year
                => m.count <= CountOf(n.series, n.year) /\ m.count \in Nat
    BY <1>1 DEF Counted, RowsKnown, Intact, TypeOK, Row, Number
  <2>4. Below(n) = Counted(n.series, n.year)
    BY <2>2, <2>3, CountType DEF Below
  <2>5. QED
    BY <1>4, <2>2, <2>4 DEF CountOf
<1>7. QED
  BY <1>5, <1>6

-----------------------------------------------------------------------------
(* The invariant, and what it implies.                                     *)

LEMMA InitInv == Init => IInv
<1> SUFFICES ASSUME Init PROVE IInv
  OBVIOUS
<1>1. Running = {}
  BY DEF Init, Running
<1>2. \A n : Holders(n) = {}
  BY <1>1 DEF Init, Holders, With
<1>3. RunningBounded /\ HoldersBounded
  BY <1>1, <1>2, FS_EmptySet, WorkersAssumption
     DEF RunningBounded, HoldersBounded
<1>4. Calendars /\ Unsaved /\ RowsKnown /\ HeldKnown
  BY <1>1 DEF Init, Calendars, Unsaved, RowsKnown, HeldKnown, Invoices
<1>5. GivenPaid
  BY <1>1 DEF Init, GivenPaid, Given, Used
<1>6. QED
  BY <1>3, <1>4, <1>5, InitType DEF IInv

LEMMA StepInv ==
    ASSUME IInv, [Next]_vars
    PROVE  IInv'
<1> USE DEF IInv
<1>1. TypeOK'
  BY TypeStep
<1>2. Calendars'
  BY YearsChange
<1>3. RunningBounded'
  BY RequestsChange DEF RunningBounded
<1>4. Unsaved' /\ RowsKnown' /\ HeldKnown' /\ HoldersBounded'
  BY UnsavedStep, RowsStep, HeldStep, HoldersStep
<1>5. GivenPaid'
  BY GivenStep
<1>6. QED
  BY <1>1, <1>2, <1>3, <1>4, <1>5

LEMMA Invariant == Spec => []IInv
<1>1. IInv /\ [Next]_vars => IInv'
  BY StepInv
<1>2. QED
  BY InitInv, <1>1, PTL DEF Spec

\* Every variable keeps its type, whatever the requests, staff and clocks do.
THEOREM NumbersTyped == Spec => []TypeOK
<1>1. IInv => TypeOK
  BY DEF IInv
<1>2. QED
  BY Invariant, <1>1, PTL

\* Two invoices share a number above one only if the forms that made them were
\* handled at the same time, so never more invoices than the server has
\* workers: country_choice and the i.save! far below it, for any traffic.
THEOREM SharingNeedsOverlap == Spec => []SharedByOverlapOnly
<1>1. IInv => SharedByOverlapOnly
  <2> SUFFICES ASSUME IInv, NEW n \in Used, n.count > 1, Intact(n)
               PROVE  Cardinality(With(n)) <= Workers
    BY DEF SharedByOverlapOnly
  <2>1. n \in Number
    BY DEF Used, IInv, TypeOK, Row
  <2>2. Cardinality(Holders(n)) <= Workers
    BY <2>1 DEF IInv, HoldersBounded
  <2>3. /\ With(n) \subseteq Holders(n)
        /\ Holders(n) \subseteq Invoices
    BY DEF With, Holders, Running, Invoices
  <2>4. /\ Cardinality(With(n)) <= Cardinality(Holders(n))
        /\ Cardinality(With(n)) \in Nat
        /\ Cardinality(Holders(n)) \in Nat
    BY <2>3, FiniteParts
  <2>5. QED
    BY <2>2, <2>4, WorkersAssumption
<1>2. QED
  BY Invariant, <1>1, PTL

\* Below every number there are as many invoices as numbers, whatever overlaps,
\* fails or comes without a number: country_choice counts what is there.
THEOREM GapsPaid == Spec => []GapsArePaidFor
<1>1. IInv => GapsArePaidFor
  <2> SUFFICES ASSUME IInv, NEW n \in Used, Intact(n)
               PROVE  n.count <= Cardinality(Below(n)) + 1
    BY DEF GapsArePaidFor
  <2>1. n \in Number
    BY DEF Used, IInv, TypeOK, Row
  <2>2. QED
    BY <2>1 DEF IInv, GivenPaid, Given
<1>2. QED
  BY Invariant, <1>1, PTL

\* No request is given a number that an invoice of the number's own year
\* already has, or one below it: country_choice counts at least that far.
THEOREM CountsGoUp == Spec => NumbersGrow
<1> DEFINE Grow ==
      \A r \in Requests, i \in Invoices :
          LET n == request'[r].number IN
          /\ n # request[r].number
          /\ Intact(n)
          /\ invoice[i] # None
          /\ invoice[i].year = n.year
          /\ invoice[i].number # None
          /\ invoice[i].number.series = n.series
          /\ invoice[i].number.year = n.year
          => invoice[i].number.count < n.count
<1>1. IInv /\ [Next]_vars => [Grow]_vars
  <2> SUFFICES ASSUME IInv, [Next]_vars,
                      NEW r \in Requests, NEW i \in Invoices,
                      NEW n, n = request'[r].number,
                      n # request[r].number,
                      Intact(n),
                      invoice[i] # None,
                      NEW m, m = invoice[i].number, m # None,
                      invoice[i].year = n.year,
                      m.series = n.series,
                      m.year = n.year
               PROVE  m.count < n.count
    OBVIOUS
  <2>1. Counting(r)
    BY RequestsChange DEF IInv
  <2>2. /\ n.year = madridYear
        /\ n.count = CountOf(n.series, n.year) + 1
    BY <2>1, NumberType DEF Counting, IInv
  <2>3. m.count <= CountOf(n.series, n.year)
    BY DEF IInv, RowsKnown, Intact
  <2>4. m.count \in Nat
    BY DEF IInv, TypeOK, Row, Number
  <2>5. QED
    BY <2>2, <2>3, <2>4, CountType
<1>2. [][Grow]_vars => NumbersGrow
  BY DEF NumbersGrow
<1>3. QED
  BY Invariant, <1>1, <1>2, PTL DEF Spec
=============================================================================
