-------------------------- MODULE ReaderAccessProofs --------------------------
(***************************************************************************)
(* Proofs about ReaderAccess, for any stories, pages, publications and     *)
(* times.                                                                  *)
(*                                                                         *)
(* What a page or a publication holds is old; it is enough that time only  *)
(* goes on.  A page that was not drawn soon after the choice it knows of   *)
(* was drawn a month after it, and that is still so (PagesKnow).  Who is   *)
(* entitled by the row as loaded was so at that time (DueKnown), and the   *)
(* row as loaded is that of now unless it was written (RowKnown).          *)
(***************************************************************************)
EXTENDS ReaderAccess, TLAPS

PagesKnow ==
    \A p \in Pages :
        page[p].state # "closed" /\ page[p].seen # None /\ ~page[p].soon
        => page[p].seen + Month < now

Loaded == [user EXCEPT !.date = None]

DueKnown ==
    \A m \in Mailings :
        mailing[m].state = "listed"
        /\ Entitled(mailing[m].listed, mailing[m].stories) => mailing[m].due

RowKnown ==
    \A m \in Mailings :
        mailing[m].state = "listed" /\ m \notin changed
        => mailing[m].listed = Loaded

IInv ==
    /\ TypeOK
    /\ PagesKnow
    /\ DueKnown
    /\ FullTextWasDue
    /\ RowKnown

-----------------------------------------------------------------------------
(* What steps do.                                                          *)

LEMMA GrantWrites ==
    ASSUME TypeOK, NEW role \in Roles, NEW access \in Time, Grant(role, access)
    PROVE  \E row \in UserRow : Write(row)
  <1> DEFINE row == [user EXCEPT !.role = role, !.access = access]
  <1>1. row \in UserRow
    BY DEF TypeOK, UserRow
  <1>2. Write(row)
    BY DEF Grant
  <1> QED
    BY <1>1, <1>2

\* Whoever writes the row writes a row.
LEMMA RowStepsWrite ==
    ASSUME TypeOK, RowSteps
    PROVE  \E row \in UserRow : Write(row)
  <1>1. now \in Time /\ now + Period \in Time /\ None \in Time
    BY TimesAssumption DEF TypeOK, Time
  <1>2. user.role \in Roles /\ user.access \in Time
    BY DEF TypeOK, UserRow
  <1>3. {"subscriber_one_story", "subscriber_all_stories", "subscriber_paused",
         "reader"} \subseteq Roles
    BY DEF Roles
  <1>4. CASE Subscribe
    BY <1>1, <1>2, <1>3, <1>4, GrantWrites DEF Subscribe
  <1>5. CASE Stop
    BY <1>1, <1>2, <1>3, <1>5, GrantWrites DEF Stop
  <1>6. CASE Import
    BY <1>1, <1>2, <1>6, GrantWrites DEF Import
  <1>7. CASE EditorSaves
    <2>1. CASE \E role \in Roles : Grant(role, user.access)
      BY <1>2, <2>1, GrantWrites
    <2>2. CASE \E access \in {None, now + Period} : Grant(user.role, access)
      BY <1>1, <1>2, <2>2, GrantWrites
    <2>3. ASSUME NEW date \in {None} \cup 0 .. now,
                 Write([user EXCEPT !.date = date])
          PROVE  \E row \in UserRow : Write(row)
      <3>1. date \in Time
        BY <2>3 DEF Time, TypeOK
      <3>2. [user EXCEPT !.date = date] \in UserRow
        BY <3>1 DEF TypeOK, UserRow
      <3> QED
        BY <2>3, <3>2
    <2>4. ASSUME NEW story \in Stories \ {user.story},
                 Write([user EXCEPT !.story = story, !.date = now])
          PROVE  \E row \in UserRow : Write(row)
      <3>1. [user EXCEPT !.story = story, !.date = now] \in UserRow
        BY <1>1 DEF TypeOK, UserRow
      <3> QED
        BY <2>4, <3>1
    <2> QED
      BY <1>7, <2>1, <2>2, <2>3, <2>4 DEF EditorSaves
  <1> QED
    BY <1>4, <1>5, <1>6, <1>7 DEF RowSteps

\* The steps, with everyone who writes the row under one name.
LEMMA StepCases ==
    ASSUME TypeOK, [Next]_vars
    PROVE  \/ UNCHANGED vars
           \/ Tick
           \/ \E row \in UserRow : Write(row)
           \/ \E p \in Pages, first \in Stories : Edit(p, first)
           \/ \E p \in Pages, story \in Stories \cup {None} : Send(p, story)
           \/ \E p \in Pages : Save(p)
           \/ \E p \in Pages : Leave(p)
           \/ \E m \in Mailings, stories \in SUBSET Stories : List(m, stories)
           \/ \E m \in Mailings : Mail(m)
  <1>1. \A p \in Pages : page[p].story \in Stories \cup {None}
    BY DEF TypeOK, PageState
  <1> QED
    BY <1>1, RowStepsWrite DEF Next

-----------------------------------------------------------------------------
(* Types.                                                                  *)

LEMMA TextsKept ==
    ASSUME NEW row, NEW stories
    PROVE  TextFor(row, stories) \in Texts
  BY DEF TextFor, Texts

LEMMA TypeInit == Init => TypeOK
  <1> SUFFICES ASSUME Init PROVE TypeOK
    OBVIOUS
  <1>1. NewReader \in UserRow
    BY DEF NewReader, UserRow, Roles, Time
  <1>2. user \in UserRow
    BY <1>1, TimesAssumption DEF Init, UserRow, Time
  <1>3. page \in [Pages -> PageState]
    BY DEF Init, Closed, PageState, Time
  <1>4. mailing \in [Mailings -> MailingState]
    BY <1>1 DEF Init, NoMail, MailingState, Texts
  <1> QED
    BY <1>2, <1>3, <1>4 DEF Init, TypeOK

LEMMA TypeStep == TypeOK /\ [Next]_vars => TypeOK'
  <1> SUFFICES ASSUME TypeOK, [Next]_vars PROVE TypeOK'
    OBVIOUS
  <1>1. CASE UNCHANGED vars
    BY <1>1 DEF TypeOK, vars
  <1>2. CASE Tick
    BY <1>2 DEF TypeOK, Tick
  <1>3. ASSUME NEW row \in UserRow, Write(row) PROVE TypeOK'
    BY <1>3 DEF TypeOK, Write, Listed
  <1>4. ASSUME NEW p \in Pages, NEW first \in Stories, Edit(p, first)
        PROVE  TypeOK'
    <2>1. Shown(first) \in Stories \cup {None} /\ user.date \in Time
      BY DEF Shown, TypeOK, UserRow
    <2>2. (user.date # None /\ user.date + Grace > now) \in BOOLEAN
      OBVIOUS
    <2>3. [state |-> "open", story |-> Shown(first), seen |-> user.date,
           soon |-> user.date # None /\ user.date + Grace > now] \in PageState
      BY <2>1, <2>2 DEF PageState
    <2>4. page' \in [Pages -> PageState]
      BY <1>4, <2>3 DEF Edit, TypeOK
    <2> QED
      BY <1>4, <2>4 DEF Edit, TypeOK
  <1>5. ASSUME NEW p \in Pages, NEW story \in Stories \cup {None}, Send(p, story)
        PROVE  TypeOK'
    <2>1. page' \in [Pages -> PageState]
      BY <1>5 DEF Send, TypeOK, PageState
    <2> QED
      BY <1>5, <2>1 DEF Send, TypeOK
  <1>6. Closed \in PageState
    BY DEF Closed, PageState, Time
  <1>7. ASSUME NEW p \in Pages, Save(p) PROVE TypeOK'
    <2>1. page[p].story \in Stories \cup {None} /\ now \in Time
      BY DEF TypeOK, PageState, Time
    <2>2. user' \in UserRow
      BY <1>7, <2>1 DEF Save, TypeOK, UserRow
    <2>3. page' \in [Pages -> PageState]
      BY <1>6, <1>7 DEF Save, TypeOK
    <2> QED
      BY <1>7, <2>2, <2>3 DEF Save, TypeOK, Listed
  <1>8. ASSUME NEW p \in Pages, Leave(p) PROVE TypeOK'
    BY <1>6, <1>8 DEF Leave, TypeOK
  <1>9. ASSUME NEW m \in Mailings, NEW stories \in SUBSET Stories,
               List(m, stories)
        PROVE  TypeOK'
    <2>1. Loaded \in UserRow
      BY DEF Loaded, TypeOK, UserRow, Time
    <2>2. Entitled(user, stories) \in BOOLEAN
      BY DEF Entitled
    <2>3. [state |-> "listed", stories |-> stories, listed |-> Loaded,
           due |-> Entitled(user, stories), text |-> "none"] \in MailingState
      BY <2>1, <2>2 DEF MailingState, Texts
    <2>4. mailing' \in [Mailings -> MailingState]
      BY <1>9, <2>3 DEF List, TypeOK, Loaded
    <2> QED
      BY <1>9, <2>4 DEF List, TypeOK
  <1>10. ASSUME NEW m \in Mailings, Mail(m) PROVE TypeOK'
    <2> DEFINE text == TextFor(mailing[m].listed, mailing[m].stories)
    <2>1. text \in Texts
      BY TextsKept
    <2>2. mailing[m].due \in BOOLEAN
      BY DEF TypeOK, MailingState
    <2>3. NoMail \in MailingState
      BY DEF NoMail, MailingState, NewReader, UserRow, Roles, Time, Texts
    <2>4. [NoMail EXCEPT !.due = mailing[m].due, !.text = text] \in MailingState
      BY <2>1, <2>2, <2>3 DEF MailingState
    <2>5. mailing' \in [Mailings -> MailingState]
      BY <1>10, <2>4 DEF Mail, TypeOK
    <2> QED
      BY <1>10, <2>5 DEF Mail, TypeOK
  <1> QED
    BY <1>1, <1>2, <1>3, <1>4, <1>5, <1>7, <1>8, <1>9, <1>10, StepCases

\* The row, the pages and the mails keep their types, whoever writes them.
THEOREM AccessTyped == Spec => []TypeOK
  BY TypeInit, TypeStep, PTL DEF Spec

-----------------------------------------------------------------------------
(* The full text is for who is entitled.                                   *)

LEMMA EntitledIfFull ==
    ASSUME now \in Nat, NEW row \in UserRow, NEW stories,
           TextFor(row, stories) = "full"
    PROVE  Entitled(row, stories)
  <1>1. CASE row.access = None
    BY <1>1 DEF Entitled
  <1>2. CASE row.access # None
    <2>1. row.access \in Nat
      BY <1>2 DEF UserRow, Time
    <2>2. ~(row.access < now)
      BY <1>2 DEF TextFor
    <2>3. now <= row.access
      BY <2>1, <2>2
    <2>4. /\ row.role # "subscriber_paused"
          /\ row.role = "subscriber_one_story" => row.story \in stories
      BY <1>2, <2>2 DEF TextFor
    <2> QED
      BY <2>3, <2>4 DEF Entitled
  <1> QED
    BY <1>1, <1>2

LEMMA FullIfEntitled ==
    ASSUME now \in Nat, NEW row \in UserRow, NEW stories, Entitled(row, stories)
    PROVE  TextFor(row, stories) = "full"
  <1>1. CASE row.access = None
    BY <1>1 DEF TextFor
  <1>2. CASE row.access # None
    <2>1. row.access \in Nat
      BY <1>2 DEF UserRow, Time
    <2>2. now <= row.access
      BY <1>2 DEF Entitled
    <2>3. ~(row.access < now)
      BY <2>1, <2>2
    <2>4. /\ row.role # "subscriber_paused"
          /\ row.role = "subscriber_one_story" => row.story \in stories
      BY <1>2 DEF Entitled
    <2> QED
      BY <1>2, <2>3, <2>4 DEF TextFor
  <1> QED
    BY <1>1, <1>2

-----------------------------------------------------------------------------
(* The invariant.                                                          *)

LEMMA InvInit == Init => IInv
  <1> SUFFICES ASSUME Init PROVE IInv
    OBVIOUS
  <1>1. \A p \in Pages : page[p].state = "closed"
    BY DEF Init, Closed
  <1>2. \A m \in Mailings : mailing[m].state = "idle" /\ mailing[m].text = "none"
    BY DEF Init, NoMail
  <1> QED
    BY <1>1, <1>2, TypeInit DEF IInv, PagesKnow, DueKnown, FullTextWasDue, RowKnown

\* Time goes on: what is a month ago stays so.
LEMMA PagesStep ==
    ASSUME TypeOK, PagesKnow, [Next]_vars
    PROVE  PagesKnow'
  <1> SUFFICES ASSUME NEW q \in Pages,
                      page'[q].state # "closed", page'[q].seen # None,
                      ~page'[q].soon
               PROVE  page'[q].seen + Month < now'
    BY DEF PagesKnow
  <1>t. now \in Nat /\ page[q] \in PageState /\ Month \in Nat /\ Grace \in Nat
    BY TimesAssumption DEF TypeOK
  <1>1. ASSUME page'[q] = page[q], now' \in {now, now + 1}
        PROVE  page'[q].seen + Month < now'
    <2>1. page[q].seen + Month < now
      BY <1>1 DEF PagesKnow
    <2>2. page[q].seen \in Nat
      BY <1>1, <1>t DEF PageState, Time
    <2> QED
      BY <1>1, <1>t, <2>1, <2>2
  <1>2. CASE UNCHANGED vars
    BY <1>1, <1>2 DEF vars
  <1>3. CASE Tick
    BY <1>1, <1>3 DEF Tick
  <1>4. ASSUME NEW row \in UserRow, Write(row)
        PROVE  page'[q].seen + Month < now'
    BY <1>1, <1>4 DEF Write
  <1>5. ASSUME NEW p \in Pages, NEW first \in Stories, Edit(p, first)
        PROVE  page'[q].seen + Month < now'
    <2>1. CASE p # q
      <3>1. page'[q] = page[q] /\ now' = now
        BY <1>5, <2>1 DEF Edit, TypeOK
      <3> QED
        BY <1>1, <3>1
    <2>2. CASE p = q
      <3>1. page'[q] = [state |-> "open", story |-> Shown(first),
                        seen |-> user.date,
                        soon |-> user.date # None /\ user.date + Grace > now]
        BY <1>5, <2>2 DEF Edit, TypeOK
      <3>2. page'[q].seen = user.date
        BY <3>1
      <3>3. page'[q].soon = (user.date # None /\ user.date + Grace > now)
        BY <3>1
      <3>4. ~(user.date + Grace > now)
        BY <3>2, <3>3, Zenon
      <3>5. user.date + Month < now
        BY <1>5, <3>2, <3>4 DEF Edit, MayChoose
      <3> QED
        BY <1>5, <3>2, <3>5 DEF Edit
    <2> QED
      BY <2>1, <2>2
  <1>6. ASSUME NEW p \in Pages, NEW story \in Stories \cup {None}, Send(p, story)
        PROVE  page'[q].seen + Month < now'
    <2>1. /\ page[q].state # "closed"
          /\ page'[q].seen = page[q].seen /\ page'[q].soon = page[q].soon
          /\ now' = now
      BY <1>6 DEF Send, TypeOK, PageState
    <2> QED
      BY <2>1 DEF PagesKnow
  <1>7. ASSUME NEW p \in Pages, Save(p) \/ Leave(p)
        PROVE  page'[q].seen + Month < now'
    <2>1. p # q
      BY <1>7 DEF Save, Leave, Closed, TypeOK
    <2>2. page'[q] = page[q] /\ now' = now
      BY <1>7, <2>1 DEF Save, Leave, TypeOK
    <2> QED
      BY <1>1, <2>2
  <1>8. ASSUME NEW m \in Mailings, NEW stories \in SUBSET Stories,
               List(m, stories)
        PROVE  page'[q].seen + Month < now'
    BY <1>1, <1>8 DEF List
  <1>9. ASSUME NEW m \in Mailings, Mail(m)
        PROVE  page'[q].seen + Month < now'
    BY <1>1, <1>9 DEF Mail
  <1> QED
    BY <1>2, <1>3, <1>4, <1>5, <1>6, <1>7, <1>8, <1>9, StepCases

\* What a publication has of the reader stays, but for its own steps, and whether
\* it knows the row stays but for who writes it.
LEMMA MailsStep ==
    ASSUME TypeOK, DueKnown, FullTextWasDue, RowKnown, [Next]_vars
    PROVE  DueKnown' /\ FullTextWasDue' /\ RowKnown'
  <1> DEFINE
        MailInv(m) ==
            /\ mailing[m].state = "listed"
               /\ Entitled(mailing[m].listed, mailing[m].stories)
               => mailing[m].due
            /\ mailing[m].text = "full" => mailing[m].due
            /\ mailing[m].state = "listed" /\ m \notin changed
               => mailing[m].listed = Loaded
  <1> SUFFICES ASSUME NEW q \in Mailings PROVE MailInv(q)'
    BY DEF DueKnown, FullTextWasDue, RowKnown
  <1>t. now \in Nat /\ mailing[q] \in MailingState /\ user \in UserRow
    BY DEF TypeOK
  <1>i. MailInv(q)
    BY DEF DueKnown, FullTextWasDue, RowKnown
  <1>1. ASSUME mailing'[q] = mailing[q], now' \in {now, now + 1},
               mailing[q].state = "listed" /\ q \notin changed'
               => q \notin changed /\ user' = user
        PROVE  MailInv(q)'
    <2>1. mailing[q].listed \in UserRow
      BY <1>t DEF MailingState
    <2>2. Entitled(mailing[q].listed, mailing[q].stories)'
          => Entitled(mailing[q].listed, mailing[q].stories)
      <3>1. CASE mailing[q].listed.access = None
        BY <3>1 DEF Entitled
      <3>2. CASE mailing[q].listed.access # None
        <4>1. mailing[q].listed.access \in Nat
          BY <2>1, <3>2 DEF UserRow, Time
        <4> QED
          BY <1>1, <1>t, <4>1 DEF Entitled
      <3> QED
        BY <3>1, <3>2
    <2>3. mailing[q].state = "listed" /\ q \notin changed'
          => mailing[q].listed = Loaded'
      BY <1>1, <1>i DEF Loaded
    <2> QED
      BY <1>1, <1>i, <2>2, <2>3
  <1>2. CASE UNCHANGED vars
    BY <1>1, <1>2 DEF vars
  <1>3. CASE Tick
    BY <1>1, <1>3 DEF Tick
  <1>4. ASSUME NEW row \in UserRow, Write(row) PROVE MailInv(q)'
    BY <1>1, <1>4 DEF Write, Listed
  <1>5. ASSUME NEW p \in Pages, NEW first \in Stories, Edit(p, first)
        PROVE  MailInv(q)'
    BY <1>1, <1>5 DEF Edit
  <1>6. ASSUME NEW p \in Pages, NEW story \in Stories \cup {None}, Send(p, story)
        PROVE  MailInv(q)'
    BY <1>1, <1>6 DEF Send
  <1>7. ASSUME NEW p \in Pages, Save(p) PROVE MailInv(q)'
    BY <1>1, <1>7 DEF Save, Listed
  <1>8. ASSUME NEW p \in Pages, Leave(p) PROVE MailInv(q)'
    BY <1>1, <1>8 DEF Leave
  <1>9. ASSUME NEW m \in Mailings, NEW stories \in SUBSET Stories,
               List(m, stories)
        PROVE  MailInv(q)'
    <2>1. CASE m # q
      <3>1. /\ mailing'[q] = mailing[q] /\ now' = now /\ user' = user
            /\ q \notin changed' => q \notin changed
        BY <1>9, <2>1 DEF List, TypeOK
      <3> QED
        BY <1>1, <3>1
    <2>2. CASE m = q
      <3>1. mailing'[q] = [state |-> "listed", stories |-> stories,
                           listed |-> Loaded, due |-> Entitled(user, stories),
                           text |-> "none"]
        BY <1>9, <2>2 DEF List, TypeOK, Loaded
      <3>2. Loaded' = Loaded /\ now' = now
        BY <1>9 DEF List, Loaded
      <3>3. Loaded.access = user.access /\ Loaded.role = user.role
            /\ Loaded.story = user.story
        BY <1>t DEF Loaded, UserRow
      <3>4. Entitled(mailing[q].listed, mailing[q].stories)'
            => Entitled(user, stories)
        BY <3>1, <3>2, <3>3 DEF Entitled
      <3> QED
        BY <3>1, <3>2, <3>4
    <2> QED
      BY <2>1, <2>2
  <1>10. ASSUME NEW m \in Mailings, Mail(m) PROVE MailInv(q)'
    <2>1. CASE m # q
      <3>1. mailing'[q] = mailing[q] /\ UNCHANGED <<now, user, changed>>
        BY <1>10, <2>1 DEF Mail, TypeOK
      <3> QED
        BY <1>1, <3>1
    <2>2. CASE m = q
      <3> DEFINE text == TextFor(mailing[q].listed, mailing[q].stories)
      <3>1. mailing'[q] = [NoMail EXCEPT !.due = mailing[q].due, !.text = text]
        BY <1>10, <2>2 DEF Mail, TypeOK
      <3>2. /\ mailing'[q].state = "idle" /\ mailing'[q].due = mailing[q].due
            /\ mailing'[q].text = text
        BY <3>1 DEF NoMail
      <3>3. text = "full" => Entitled(mailing[q].listed, mailing[q].stories)
        BY <1>t, EntitledIfFull DEF MailingState
      <3>4. text = "full" => mailing[q].due
        BY <1>10, <1>i, <2>2, <3>3 DEF Mail
      <3> QED
        BY <3>2, <3>4
    <2> QED
      BY <2>1, <2>2
  <1> QED
    BY <1>2, <1>3, <1>4, <1>5, <1>6, <1>7, <1>8, <1>9, <1>10, StepCases

LEMMA InvStep == IInv /\ [Next]_vars => IInv'
  BY TypeStep, PagesStep, MailsStep DEF IInv

THEOREM AccessInvariant == Spec => []IInv
  BY InvInit, InvStep, PTL DEF Spec

\* Whoever is mailed the full text, of however many stories and publications, was
\* entitled to it when emailarticles began.
THEOREM FullTextDue == Spec => []FullTextWasDue
  <1>1. IInv => FullTextWasDue
    BY DEF IInv
  <1> QED
    BY <1>1, AccessInvariant, PTL

\* Who is entitled is mailed the full text, unless the row was written since
\* emailarticles loaded it.
THEOREM EntitledMailed == Spec => EntitledAreMailed
  <1>1. ASSUME IInv, [Next]_vars, NEW m \in Mailings,
               mailing[m].state = "listed", mailing'[m].state = "idle",
               m \notin changed, Entitled(user, mailing[m].stories)
        PROVE  mailing'[m].text = "full"
    <2>t. TypeOK /\ now \in Nat /\ user \in UserRow
      BY <1>1 DEF IInv, TypeOK
    <2>1. Mail(m)
      <3>1. mailing' # mailing
        BY <1>1
      <3>2. ASSUME NEW n \in Mailings, NEW stories \in SUBSET Stories,
                   List(n, stories)
            PROVE  FALSE
        BY <1>1, <2>t, <3>2 DEF List, TypeOK
      <3>3. ASSUME NEW n \in Mailings, Mail(n) PROVE n = m
        BY <1>1, <2>t, <3>3 DEF Mail, TypeOK
      <3> QED
        BY <1>1, <2>t, <3>1, <3>2, <3>3, StepCases
           DEF vars, Tick, Write, Edit, Send, Save, Leave
    <2>2. mailing[m].listed = Loaded
      BY <1>1 DEF IInv, RowKnown
    <2>3. Loaded \in UserRow
      BY <2>t DEF Loaded, UserRow, Time
    <2>4. Loaded.access = user.access /\ Loaded.role = user.role
          /\ Loaded.story = user.story
      BY <2>t DEF Loaded, UserRow
    <2>5. Entitled(Loaded, mailing[m].stories)
      BY <1>1, <2>4 DEF Entitled
    <2>6. TextFor(Loaded, mailing[m].stories) = "full"
      BY <2>t, <2>3, <2>5, FullIfEntitled
    <2>7. mailing'[m] = [NoMail EXCEPT !.due = mailing[m].due, !.text = "full"]
      BY <2>1, <2>2, <2>6, <2>t DEF Mail, TypeOK
    <2> QED
      BY <2>7 DEF NoMail
  <1>2. IInv /\ [Next]_vars =>
          [\A m \in Mailings :
              /\ mailing[m].state = "listed" /\ mailing'[m].state = "idle"
              /\ m \notin changed /\ Entitled(user, mailing[m].stories)
              => mailing'[m].text = "full"]_vars
    BY <1>1
  <1> QED
    BY <1>2, AccessInvariant, PTL DEF Spec, EntitledAreMailed

\* Through any number of pages, kept open for any time: a story is changed within
\* its month only by a page from before the last choice or from the five minutes
\* after it.
THEOREM EarlyChoiceNeedsOldPage == Spec => EarlyChoiceFromOldPage
  <1>1. ASSUME IInv, NEW p \in Pages, Chooses(p), Early
        PROVE  page[p].seen # user.date \/ page[p].soon
    <2> SUFFICES ASSUME page[p].seen = user.date, ~page[p].soon PROVE FALSE
      OBVIOUS
    <2>1. user.date \in Nat /\ now \in Nat /\ Month \in Nat
      BY <1>1, TimesAssumption DEF IInv, TypeOK, UserRow, Time, Chooses
    <2>2. user.date + Month < now
      BY <1>1 DEF IInv, PagesKnow, Chooses
    <2>3. now < user.date + Month
      BY <1>1 DEF Early
    <2> QED
      BY <2>1, <2>2, <2>3
  <1>2. IInv /\ [Next]_vars =>
          [\A p \in Pages : Chooses(p) /\ Early =>
              page[p].seen # user.date \/ page[p].soon]_vars
    BY <1>1
  <1> QED
    BY <1>2, AccessInvariant, PTL DEF Spec, EarlyChoiceFromOldPage
=============================================================================
