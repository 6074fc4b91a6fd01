-------------------------- MODULE PublishingProofs --------------------------
(***************************************************************************)
(* Proofs about Notifications and Publishing, for any users, stories,      *)
(* editors and requests.                                                   *)
(*                                                                         *)
(* A user has a row for every story because what a sign-up has still to    *)
(* add or to look for (Covered), together with what a transaction has      *)
(* still to look at (Looked), makes up for every row that is not there;    *)
(* and has no second one because what a sign-up has found or a transaction *)
(* has added has no row yet (Once, OnceSaved), since a sign-up never finds *)
(* a story in two queries but when the story has aged.                     *)
(*                                                                         *)
(* A publication steps by Notifications, so that what is proved of the     *)
(* table holds beside publications too; besides, whoever is keen on a      *)
(* publication hears of one of its stories from when they are all made     *)
(* until the mail (KeenHear), because a story that is being made has no    *)
(* row before its transaction adds one for all who are keen (MakesStory).  *)
(***************************************************************************)
EXTENDS Publishing, SequenceTheorems, TLAPS

-----------------------------------------------------------------------------
(* Notifications: the rows for a story.                                    *)


\* How a user's sign-up and the user belong together.
SignUpOf(u) ==
    /\ user[u] = "absent" => signUp[u].turn = 0
    /\ user[u] = "absent" => \A s \in Stories : ~HasRow(u, s)
    /\ signUp[u].todo # {} => SigningUp(u) /\ signUp[u].turn # 0
    /\ \A s \in signUp[u].todo : Exists(s)

SignUps == \A u \in Users : SignUpOf(u)

\* What a transaction holds of its story and of the users.
SaveOf(e) ==
    /\ saving[e].story = None => saving[e] = NoSave
    /\ saving[e].todo \cup saving[e].staged \subseteq saving[e].listed
    /\ \A u \in saving[e].listed : user[u] # "absent"
    /\ saving[e].story # None =>
          (saving[e].kind = "create" <=> ~Exists(saving[e].story))

Saves == \A e \in Editors : SaveOf(e)

\* A story that is being made is nobody else's.
Alone(e, f) ==
    saving[e].story # None /\ saving[e].kind = "create" /\ f # e
        => saving[f].story # saving[e].story

Creates == \A e \in Editors, f \in Editors : Alone(e, f)

\* A story that is not there has no rows.
RowsOfStories == \A u \in Users, s \in Stories : HasRow(u, s) => Exists(s)

LookedFor(e, u) ==
    saving[e].story # None /\ u \in saving[e].listed
        => u \in saving[e].todo \cup saving[e].staged \/ HasRow(u, saving[e].story)

Looked == \A e \in Editors, u \in Users : LookedFor(e, u)

\* Stories that a later query of the sign-up will find.
Awaited(u, s) ==
    /\ story[s] = "old"
    /\ \/ signUp[u].turn = 1
       \/ signUp[u].turn = 2 /\ s \notin KeyStories

CoveredAt(u, s) ==
    /\ signUp[u].turn # 0
    /\ ~signUp[u].failed
    /\ Exists(s)
    /\ <<u, s>> \notin missed
    => HasRow(u, s) \/ s \in signUp[u].todo \/ Awaited(u, s)

Covered == \A u \in Users, s \in Stories : CoveredAt(u, s)

\* What a sign-up has found is not found again.
FoundBefore(u, s) ==
    /\ signUp[u].turn # 0
    /\ signUp[u].turn = 1 => story[s] = "fresh"
    /\ signUp[u].turn = 2 => story[s] = "fresh" \/ s \in KeyStories

OnceAt(u, s) ==
    SigningUp(u) /\ <<u, s>> \notin overlapped =>
        /\ HasRow(u, s) \/ s \in signUp[u].todo => FoundBefore(u, s)
        /\ s \in signUp[u].todo => ~HasRow(u, s)

Once == \A u \in Users, s \in Stories : OnceAt(u, s)

OnceSavedBy(e, u) ==
    u \in saving[e].staged /\ <<u, saving[e].story>> \notin overlapped =>
        /\ ~SigningUp(u)
        /\ ~HasRow(u, saving[e].story)
        /\ \A f \in Editors \ {e} :
              saving[f].story = saving[e].story => u \notin saving[f].staged

OnceSaved == \A e \in Editors, u \in Users : OnceSavedBy(e, u)

Single(u, s) == Len(note[u][s]) > 1 => <<u, s>> \in overlapped

\* No row to hear by at once but those that are still to be changed, and none
\* when they have all been.
Heeded(u) ==
    /\ \A w \in Ways :
          switching[u][w].clean => RowsOf(u, {AtOnce}) \subseteq switching[u][w].todo
    /\ u \in quiet => RowsOf(u, {AtOnce}) = {}

AllHeeded == \A u \in Users : Heeded(u)

NInv ==
    /\ TypeOK
    /\ SignUps
    /\ Saves
    /\ Creates
    /\ RowsOfStories
    /\ Looked
    /\ Covered
    /\ Once
    /\ OnceSaved
    /\ DuplicatesNeedOverlap
    /\ AllHeeded

-----------------------------------------------------------------------------
(***************************************************************************)
(* Rows.                                                                   *)
(***************************************************************************)
LEMMA RowsOfMember ==
    ASSUME NEW u \in Users, NEW types
    PROVE  /\ \A s \in Stories : \A i \in DOMAIN note[u][s] :
                 <<s, i>> \in RowsOf(u, types) <=> note[u][s][i] \in types
           /\ \A r \in RowsOf(u, types) :
                 /\ r = <<r[1], r[2]>>
                 /\ r[1] \in Stories
                 /\ r[2] \in DOMAIN note[u][r[1]]
                 /\ note[u][r[1]][r[2]] \in types
  BY DEF RowsOf

LEMMA RowsOfMemberNext ==
    ASSUME NEW u \in Users, NEW types
    PROVE  /\ \A s \in Stories : \A i \in DOMAIN note'[u][s] :
                 <<s, i>> \in RowsOf(u, types)' <=> note'[u][s][i] \in types
           /\ \A r \in RowsOf(u, types)' :
                 /\ r = <<r[1], r[2]>>
                 /\ r[1] \in Stories
                 /\ r[2] \in DOMAIN note'[u][r[1]]
                 /\ note'[u][r[1]][r[2]] \in types
  BY DEF RowsOf

\* A row is given another type.
RowChanges(u, r, t) ==
    /\ note' = [note EXCEPT ![u][r[1]][r[2]] = t]
    /\ u \in Users
    /\ r \in RowsOf(u, Types)
    /\ t \in Types

LEMMA RowChange ==
    ASSUME TypeOK, NEW u, NEW r, NEW t, RowChanges(u, r, t)
    PROVE  /\ note' \in [Users -> [Stories -> Seq(Types)]]
           /\ \A v \in Users, s \in Stories :
                 /\ Len(note'[v][s]) = Len(note[v][s])
                 /\ DOMAIN note'[v][s] = DOMAIN note[v][s]
                 /\ HasRow(v, s)' <=> HasRow(v, s)
                 /\ \A i \in DOMAIN note[v][s] :
                       note'[v][s][i] = IF v = u /\ <<s, i>> = r THEN t
                                                                 ELSE note[v][s][i]
  <1> DEFINE p == r[1]
             j == r[2]
             new == [note[u][p] EXCEPT ![j] = t]
  <1>1. /\ u \in Users /\ p \in Stories /\ j \in DOMAIN note[u][p] /\ t \in Types
        /\ r = <<p, j>>
    BY RowsOfMember DEF RowChanges
  <1>2. note[u][p] \in Seq(Types)
    BY <1>1 DEF TypeOK
  <1>3. /\ new \in Seq(Types)
        /\ Len(new) = Len(note[u][p])
        /\ DOMAIN new = DOMAIN note[u][p]
        /\ \A i \in DOMAIN note[u][p] : new[i] = IF i = j THEN t ELSE note[u][p][i]
    <2>1. /\ note[u][p] \in [1 .. Len(note[u][p]) -> Types]
          /\ DOMAIN note[u][p] = 1 .. Len(note[u][p])
          /\ Len(note[u][p]) \in Nat
      BY <1>2
    <2>2. new \in [1 .. Len(note[u][p]) -> Types]
      BY <1>1, <2>1
    <2>3. new \in Seq(Types) /\ Len(new) = Len(note[u][p])
      BY <2>1, <2>2
    <2> QED
      BY <1>1, <2>1, <2>2, <2>3
  <1>4. note' = [note EXCEPT ![u] = [note[u] EXCEPT ![p] = new]]
    BY DEF RowChanges
  <1>5. note'[u][p] = new
    BY <1>1, <1>4 DEF TypeOK
  <1>6. \A v \in Users, s \in Stories : v # u \/ s # p => note'[v][s] = note[v][s]
    BY <1>4 DEF TypeOK
  <1>7. note' \in [Users -> [Stories -> Seq(Types)]]
    BY <1>1, <1>3, <1>4 DEF TypeOK
  <1>8. ASSUME NEW v \in Users, NEW s \in Stories
        PROVE  /\ Len(note'[v][s]) = Len(note[v][s])
               /\ DOMAIN note'[v][s] = DOMAIN note[v][s]
               /\ HasRow(v, s)' <=> HasRow(v, s)
               /\ \A i \in DOMAIN note[v][s] :
                     note'[v][s][i] = IF v = u /\ <<s, i>> = r THEN t
                                                               ELSE note[v][s][i]
    <2>1. CASE v = u /\ s = p
      <3>1. /\ Len(note'[v][s]) = Len(note[v][s])
            /\ DOMAIN note'[v][s] = DOMAIN note[v][s]
        BY <1>3, <1>5, <2>1
      <3>2. note[v][s] \in Seq(Types) /\ note'[v][s] \in Seq(Types)
        BY <1>2, <1>3, <1>5, <2>1
      <3>3. HasRow(v, s)' <=> HasRow(v, s)
        BY <3>1, <3>2, EmptySeq DEF HasRow
      <3>4. \A i \in DOMAIN note[v][s] :
                note'[v][s][i] = IF v = u /\ <<s, i>> = r THEN t ELSE note[v][s][i]
        BY <1>1, <1>3, <1>5, <2>1
      <3> QED
        BY <3>1, <3>3, <3>4
    <2>2. CASE ~(v = u /\ s = p)
      <3>1. note'[v][s] = note[v][s]
        BY <1>6, <2>2
      <3>2. \A i : <<s, i>> = r => s = p
        BY <1>1
      <3> QED
        BY <2>2, <3>1, <3>2 DEF HasRow
    <2> QED
      BY <2>1, <2>2
  <1> QED
    BY <1>7, <1>8

\* Users get another row for the story, of this type.
RowsAdded(us, s, t) ==
    /\ us \subseteq Users
    /\ s \in Stories \/ us = {}
    /\ t \in Types
    /\ \A v \in Users, q \in Stories :
          note'[v][q] = IF v \in us /\ q = s THEN Append(note[v][q], t) ELSE note[v][q]
    /\ note' \in [Users -> [Stories -> Seq(Types)]]

LEMMA AppendRow ==
    ASSUME NEW t \in Types, NEW old \in Seq(Types)
    PROVE  /\ Append(old, t) \in Seq(Types)
           /\ Append(old, t) # <<>>
           /\ Len(Append(old, t)) = Len(old) + 1
           /\ DOMAIN old = 1 .. Len(old)
           /\ DOMAIN Append(old, t) = 1 .. Len(old) + 1
           /\ Len(old) \in Nat
           /\ old = <<>> => Len(Append(old, t)) = 1
           /\ Append(old, t)[Len(old) + 1] = t
           /\ \A i \in DOMAIN old : Append(old, t)[i] = old[i]
  BY AppendProperties, EmptySeq

LEMMA RowsAddition ==
    ASSUME TypeOK, NEW us, NEW s, NEW t, RowsAdded(us, s, t),
           NEW v \in Users, NEW q \in Stories
    PROVE  /\ HasRow(v, q) => HasRow(v, q)'
           /\ v \in us /\ q = s => HasRow(v, q)'
           /\ ~(v \in us /\ q = s) => note'[v][q] = note[v][q]
           /\ v \in us /\ q = s /\ ~HasRow(v, q) => Len(note'[v][q]) = 1
  <1>1. note[v][q] \in Seq(Types) /\ t \in Types
    BY DEF TypeOK, RowsAdded
  <1>2. note'[v][q] = IF v \in us /\ q = s THEN Append(note[v][q], t) ELSE note[v][q]
    BY DEF RowsAdded
  <1> QED
    BY <1>1, <1>2, AppendRow DEF HasRow

-----------------------------------------------------------------------------
(***************************************************************************)
(* What the steps do to the rows.                                          *)
(***************************************************************************)
LEMMA AddRowEffect ==
    ASSUME TypeOK, NEW u \in Users, AddRow(u)
    PROVE  \E s \in signUp[u].todo, t \in Types :
              /\ s \in Stories
              /\ RowsAdded({u}, s, t)
              /\ signUp' = [signUp EXCEPT ![u].todo = @ \ {s}]
  <1>1. PICK s \in signUp[u].todo :
            /\ signUp' = [signUp EXCEPT ![u].todo = @ \ {s}]
            /\ note' = [note EXCEPT ![u][s] = Append(@, TypeIn(signUp[u].turn))]
    BY DEF AddRow
  <1>2. s \in Stories
    BY DEF TypeOK, SignUpState
  <1>3. TypeIn(signUp[u].turn) \in Types
    BY DEF TypeIn, Types
  <1>4. Append(note[u][s], TypeIn(signUp[u].turn)) \in Seq(Types)
    BY <1>2, <1>3, AppendRow DEF TypeOK
  <1>5. note' \in [Users -> [Stories -> Seq(Types)]]
    BY <1>1, <1>2, <1>4 DEF TypeOK
  <1>6. RowsAdded({u}, s, TypeIn(signUp[u].turn))
    BY <1>1, <1>2, <1>3, <1>5 DEF RowsAdded, TypeOK
  <1> QED
    BY <1>1, <1>2, <1>3, <1>6

LEMMA CommitEffect ==
    ASSUME TypeOK, Saves, NEW e \in Editors, Commit(e)
    PROVE  /\ saving[e].story \in Stories
           /\ RowsAdded(saving[e].staged, saving[e].story, AtOnce)
  <1> DEFINE s == saving[e].story
  <1>1. s \in Stories /\ saving[e].listed \subseteq Users /\ AtOnce \in Types
    BY DEF Commit, TypeOK, SaveState, Types
  <1>2. saving[e].staged \subseteq Users
    BY <1>1 DEF Saves, SaveOf
  <1>3. note' = [u \in Users |->
                    IF u \notin saving[e].staged THEN note[u]
                    ELSE [note[u] EXCEPT ![s] = Append(@, AtOnce)]]
    BY DEF Commit
  <1>4. \A u \in Users : note[u] \in [Stories -> Seq(Types)]
    BY DEF TypeOK
  <1>5. \A u \in Users : Append(note[u][s], AtOnce) \in Seq(Types)
    BY <1>1, <1>4, AppendRow
  <1>6. note' \in [Users -> [Stories -> Seq(Types)]]
    <2>1. ASSUME NEW u \in Users
          PROVE  note'[u] \in [Stories -> Seq(Types)]
      BY <1>1, <1>3, <1>4, <1>5
    <2> QED
      BY <1>3, <2>1
  <1>7. \A v \in Users, q \in Stories :
            note'[v][q] = IF v \in saving[e].staged /\ q = s
                            THEN Append(note[v][q], AtOnce) ELSE note[v][q]
    BY <1>1, <1>3, <1>4
  <1> QED
    BY <1>1, <1>2, <1>6, <1>7 DEF RowsAdded

LEMMA UpdateTypeEffect ==
    ASSUME NEW u \in Users, NEW r \in RowsOf(u, Types), NEW type \in Types,
           UpdateType(u, r, type)
    PROVE  RowChanges(u, r, type)
  BY DEF UpdateType, RowChanges

LEMMA WaysAreTypes == Ways \subseteq Types /\ AtOnce \notin Ways /\ AtOnce \in Types
  BY WaysAssumption DEF Types, AtOnce, Briefing, Off

LEMMA SwitchRowEffect ==
    ASSUME TypeOK, NEW u \in Users, NEW way \in Ways, SwitchRow(u, way)
    PROVE  \E r \in switching[u][way].todo :
              /\ RowChanges(u, r, way)
              /\ switching' = [switching EXCEPT ![u][way].todo = @ \ {r}]
              /\ quiet' = IF switching[u][way].todo = {r} /\ switching[u][way].clean
                            THEN quiet \cup {u} ELSE quiet
  <1>1. PICK r \in switching[u][way].todo :
          /\ note' = [note EXCEPT ![u][r[1]][r[2]] = way]
          /\ switching' = [switching EXCEPT ![u][way].todo = @ \ {r}]
          /\ IF switching[u][way].todo = {r} THEN Finish(u, switching[u][way].clean)
                                             ELSE UNCHANGED quiet
    BY DEF SwitchRow
  <1>2. r \in RowsOf(u, Types)
    BY DEF TypeOK
  <1> QED
    BY <1>1, <1>2, WaysAreTypes DEF RowChanges, Finish

\* The rows there are stay where they are.
LEMMA RowsStay ==
    ASSUME TypeOK, NEW u \in Users,
           \/ UNCHANGED note
           \/ \E v, r, t : RowChanges(v, r, t)
           \/ \E us, s, t : RowsAdded(us, s, t)
    PROVE  RowsOf(u, Types) \subseteq RowsOf(u, Types)'
  <1>1. SUFFICES ASSUME NEW r \in RowsOf(u, Types) PROVE r \in RowsOf(u, Types)'
    OBVIOUS
  <1> DEFINE p == r[1]
             j == r[2]
  <1>2. p \in Stories /\ j \in DOMAIN note[u][p] /\ r = <<p, j>>
    BY RowsOfMember
  <1>3. ASSUME note'[u][p] \in Seq(Types), j \in DOMAIN note'[u][p]
        PROVE  r \in RowsOf(u, Types)'
    <2>1. note'[u][p][j] \in Types
      BY <1>3
    <2> QED
      BY <1>2, <1>3, <2>1, RowsOfMemberNext
  <1>4. CASE UNCHANGED note
    BY <1>2, <1>3, <1>4 DEF TypeOK
  <1>5. ASSUME NEW v, NEW q, NEW t, RowChanges(v, q, t)
        PROVE  r \in RowsOf(u, Types)'
    BY <1>2, <1>3, <1>5, RowChange
  <1>6. ASSUME NEW us, NEW s, NEW t, RowsAdded(us, s, t)
        PROVE  r \in RowsOf(u, Types)'
    <2>1. note[u][p] \in Seq(Types) /\ t \in Types /\ note'[u][p] \in Seq(Types)
      BY <1>2, <1>6 DEF TypeOK, RowsAdded
    <2>2. \/ note'[u][p] = Append(note[u][p], t)
          \/ note'[u][p] = note[u][p]
      BY <1>2, <1>6 DEF RowsAdded
    <2>3. j \in DOMAIN note'[u][p]
      BY <1>2, <2>1, <2>2, AppendRow
    <2> QED
      BY <1>3, <2>1, <2>3
  <1> QED
    BY <1>4, <1>5, <1>6

-----------------------------------------------------------------------------
(***************************************************************************)
(* Types.                                                                  *)
(***************************************************************************)
SwitchTyped ==
    /\ switching \in [Users -> [Ways -> SwitchState]]
    /\ \A u \in Users, w \in Ways : switching[u][w].todo \subseteq RowsOf(u, Types)

LEMMA RowsAreRows ==
    ASSUME TypeOK, NEW u \in Users
    PROVE  RowsOf(u, Types) \subseteq Row
  <1>1. SUFFICES ASSUME NEW r \in RowsOf(u, Types) PROVE r \in Row
    OBVIOUS
  <1>2. /\ r = <<r[1], r[2]>>
        /\ r[1] \in Stories
        /\ r[2] \in DOMAIN note[u][r[1]]
    BY RowsOfMember
  <1>3. note[u][r[1]] \in Seq(Types)
    BY <1>2 DEF TypeOK
  <1>4. r[2] \in Nat \ {0}
    BY <1>2, <1>3
  <1> QED
    BY <1>2, <1>4 DEF Row

LEMMA HeardTyped ==
    ASSUME TypeOK, NEW us, Heard(us),
           \A u \in Users : RowsOf(u, Types) \subseteq RowsOf(u, Types)'
    PROVE  /\ SwitchTyped'
           /\ quiet' \subseteq Users
  <1>1. quiet' \subseteq Users
    BY DEF Heard, TypeOK
  <1>2. \A u \in Users, w \in Ways :
            /\ switching[u][w] \in SwitchState
            /\ switching[u][w].todo \subseteq RowsOf(u, Types)
    BY DEF TypeOK
  <1>3. ASSUME NEW u \in Users, NEW w \in Ways
        PROVE  /\ switching'[u][w].todo = switching[u][w].todo
               /\ switching'[u][w] \in SwitchState
    <2>1. [switching[u][w] EXCEPT !.clean = FALSE] \in SwitchState
      BY <1>2 DEF SwitchState
    <2>2. [switching[u][w] EXCEPT !.clean = FALSE].todo = switching[u][w].todo
      BY <1>2 DEF SwitchState
    <2>3. switching'[u][w] = IF u \notin us THEN switching[u][w]
                             ELSE [switching[u][w] EXCEPT !.clean = FALSE]
      BY DEF Heard
    <2> QED
      BY <1>2, <2>1, <2>2, <2>3
  <1>4. switching' \in [Users -> [Ways -> SwitchState]]
    <2>1. \A u \in Users : switching'[u] \in [Ways -> SwitchState]
      BY <1>3 DEF Heard, TypeOK
    <2> QED
      BY <2>1 DEF Heard
  <1> QED
    BY <1>1, <1>2, <1>3, <1>4 DEF SwitchTyped

LEMMA TypeStep ==
    ASSUME TypeOK, Saves, Next
    PROVE  TypeOK'
  <1>0. \A u \in Users, s \in Stories, e \in Editors :
            /\ signUp[u] \in SignUpState
            /\ saving[e] \in SaveState
            /\ story[s] \in StoryState
    BY DEF TypeOK
  <1> USE DEF TypeOK
  <1>same. ASSUME UNCHANGED <<note, switching>>
           PROVE  SwitchTyped'
    BY <1>same DEF SwitchTyped, RowsOf
  <1>stay. ASSUME \/ UNCHANGED note
                  \/ \E v, r, t : RowChanges(v, r, t)
                  \/ \E us, s, t : RowsAdded(us, s, t)
           PROVE  \A u \in Users : RowsOf(u, Types) \subseteq RowsOf(u, Types)'
    BY <1>stay, RowsStay
  <1>1. ASSUME NEW u \in Users, Join(u) PROVE TypeOK'
    BY <1>1, <1>same DEF Join, UserState, SwitchTyped
  <1>2. ASSUME NEW u \in Users, Query(u) PROVE TypeOK'
    <2>1. [signUp[u] EXCEPT !.turn = @ + 1, !.todo = Found(signUp[u].turn + 1)]
              \in SignUpState
      <3>1. \A i : Found(i) \subseteq Stories
        BY DEF Found
      <3>2. signUp[u].turn \in 0 .. 3 /\ signUp[u].turn < 3
        BY <1>0, <1>2 DEF Query, SignUpState
      <3>3. signUp[u].turn + 1 \in 0 .. 3
        BY <3>2
      <3> QED
        BY <1>0, <3>1, <3>3 DEF SignUpState
    <2>2. signUp' \in [Users -> SignUpState]
      BY <1>2, <2>1 DEF Query
    <2> QED
      BY <1>2, <2>2, <1>same DEF Query, SwitchTyped
  <1>3. ASSUME NEW u \in Users, AddRow(u) PROVE TypeOK'
    <2>1. PICK s \in signUp[u].todo, t \in Types :
              /\ RowsAdded({u}, s, t)
              /\ signUp' = [signUp EXCEPT ![u].todo = @ \ {s}]
      BY <1>3, AddRowEffect
    <2>2. [signUp[u] EXCEPT !.todo = @ \ {s}] \in SignUpState
      BY <1>0 DEF SignUpState
    <2>3. signUp' \in [Users -> SignUpState]
      BY <2>1, <2>2
    <2>4. SwitchTyped' /\ quiet' \subseteq Users
      BY <1>3, <2>1, <1>stay, HeardTyped DEF AddRow
    <2>5. note' \in [Users -> [Stories -> Seq(Types)]]
      BY <2>1 DEF RowsAdded
    <2> QED
      BY <1>3, <2>3, <2>4, <2>5 DEF AddRow, SwitchTyped
  <1>4. ASSUME NEW u \in Users, GiveUp(u) PROVE TypeOK'
    <2>1. [signUp[u] EXCEPT !.failed = TRUE, !.todo = {}] \in SignUpState
      BY <1>0 DEF SignUpState
    <2>2. signUp' \in [Users -> SignUpState]
      BY <1>4, <2>1 DEF GiveUp
    <2> QED
      BY <1>4, <2>2, <1>same DEF GiveUp, SwitchTyped
  <1>5. ASSUME NEW u \in Users, Leave(u) PROVE TypeOK'
    BY <1>5, <1>same DEF Leave, UserState, SwitchTyped
  <1>6. ASSUME NEW u \in Users, NEW r \in RowsOf(u, Types), NEW type \in Types,
               UpdateType(u, r, type)
        PROVE  TypeOK'
    <2>1. RowChanges(u, r, type)
      BY <1>6, UpdateTypeEffect
    <2>2. note' \in [Users -> [Stories -> Seq(Types)]]
      BY <2>1, RowChange
    <2>3. SwitchTyped' /\ quiet' \subseteq Users
      <3>1. CASE Heard({u})
        BY <2>1, <3>1, <1>stay, HeardTyped
      <3>2. CASE UNCHANGED <<quiet, switching>>
        BY <2>1, <3>2, <1>stay DEF SwitchTyped
      <3> QED
        BY <1>6, <3>1, <3>2 DEF UpdateType
    <2> QED
      BY <1>6, <2>2, <2>3 DEF UpdateType, SwitchTyped
  <1>7. ASSUME NEW u \in Users, NEW way \in Ways, Switch(u, way) PROVE TypeOK'
    <2>1. ToChange(u, way) \subseteq RowsOf(u, Types)
      BY DEF ToChange, RowsOf
    <2>2. [todo |-> ToChange(u, way), clean |-> TRUE] \in SwitchState
      BY <2>1, RowsAreRows DEF SwitchState
    <2>3. switching' \in [Users -> [Ways -> SwitchState]]
      BY <1>7, <2>2 DEF Switch
    <2>4. ASSUME NEW v \in Users, NEW w \in Ways
          PROVE  switching'[v][w].todo \subseteq RowsOf(v, Types)
      BY <1>7, <2>1 DEF Switch
    <2>5. SwitchTyped'
      BY <1>7, <2>3, <2>4, <1>stay DEF Switch, SwitchTyped
    <2>6. quiet' \subseteq Users
      BY <1>7 DEF Switch, Finish
    <2> QED
      BY <1>7, <2>5, <2>6 DEF Switch, SwitchTyped
  <1>8. ASSUME NEW u \in Users, NEW way \in Ways, SwitchRow(u, way) PROVE TypeOK'
    <2>1. PICK r \in switching[u][way].todo :
              /\ RowChanges(u, r, way)
              /\ switching' = [switching EXCEPT ![u][way].todo = @ \ {r}]
              /\ quiet' = IF switching[u][way].todo = {r} /\ switching[u][way].clean
                            THEN quiet \cup {u} ELSE quiet
      BY <1>8, SwitchRowEffect
    <2>2. note' \in [Users -> [Stories -> Seq(Types)]]
      BY <2>1, RowChange
    <2>3. switching[u][way] \in SwitchState
      OBVIOUS
    <2>4. [switching[u][way] EXCEPT !.todo = @ \ {r}] \in SwitchState
      BY <2>3 DEF SwitchState
    <2>5. switching' \in [Users -> [Ways -> SwitchState]]
      BY <2>1, <2>4
    <2>6. ASSUME NEW v \in Users, NEW w \in Ways
          PROVE  switching'[v][w].todo \subseteq switching[v][w].todo
      BY <2>1, <2>3 DEF SwitchState
    <2>7. SwitchTyped'
      BY <2>1, <2>5, <2>6, <1>stay DEF SwitchTyped
    <2> QED
      BY <1>8, <2>1, <2>2, <2>7 DEF SwitchRow, SwitchTyped
  <1>9. ASSUME NEW e \in Editors, NEW s \in Stories, NEW kind \in Kinds, Save(e, s, kind)
        PROVE  TypeOK'
    <2>1. [story |-> s, kind |-> kind, listed |-> Active, todo |-> Active,
           staged |-> {}] \in SaveState
      BY DEF SaveState, Active
    <2>2. saving' \in [Editors -> SaveState]
      BY <1>9, <2>1 DEF Save
    <2> QED
      BY <1>9, <2>2, <1>same DEF Save, SwitchTyped
  <1>10. ASSUME NEW e \in Editors, FirstOrCreate(e) PROVE TypeOK'
    <2>1. PICK u \in saving[e].todo :
            /\ saving' = [saving EXCEPT
                        ![e].todo = @ \ {u},
                        ![e].staged = IF Wanting(u, saving[e].story)
                                        THEN @ \cup {u} ELSE @]
            /\ overlapped' = IF SigningUp(u) \/ OthersSave(e, u)
                           THEN overlapped \cup {<<u, saving[e].story>>}
                           ELSE overlapped
            /\ UNCHANGED <<story, user, note, signUp, switching, missed, quiet>>
      BY <1>10 DEF FirstOrCreate
    <2>2. /\ u \in Users
          /\ saving[e].story \in Stories
      BY <1>0 DEF SaveState, Saves, SaveOf, NoSave
    <2>3. ASSUME NEW staged \in SUBSET Users
          PROVE  [saving[e] EXCEPT !.todo = @ \ {u}, !.staged = staged] \in SaveState
      BY <1>0 DEF SaveState
    <2>4. saving' \in [Editors -> SaveState]
      <3>1. saving[e].staged \in SUBSET Users
        BY <1>0 DEF SaveState
      <3> QED
        BY <2>1, <2>2, <2>3, <3>1
    <2>5. overlapped' \subseteq Users \X Stories
      BY <2>1, <2>2
    <2> QED
      BY <2>1, <2>4, <2>5, <1>same DEF SwitchTyped
  <1>11. ASSUME NEW e \in Editors, Commit(e) PROVE TypeOK'
    <2>1. /\ saving[e].story \in Stories
          /\ RowsAdded(saving[e].staged, saving[e].story, AtOnce)
      BY <1>11, CommitEffect
    <2>2. note' \in [Users -> [Stories -> Seq(Types)]]
      BY <2>1 DEF RowsAdded
    <2>3. story' \in [Stories -> StoryState]
      BY <1>11 DEF Commit, StoryState
    <2>4. NoSave \in SaveState
      BY DEF NoSave, SaveState, Kinds
    <2>5. saving' \in [Editors -> SaveState]
      BY <1>11, <2>4 DEF Commit
    <2>6. missed' \subseteq Users \X Stories
      BY <1>11, <2>1 DEF Commit, PassedBy
    <2>7. SwitchTyped' /\ quiet' \subseteq Users
      BY <1>11, <2>1, <1>stay, HeardTyped DEF Commit
    <2> QED
      BY <1>11, <2>2, <2>3, <2>5, <2>6, <2>7 DEF Commit, SwitchTyped
  <1>12. ASSUME NEW e \in Editors, Abort(e) PROVE TypeOK'
    <2>1. NoSave \in SaveState
      BY DEF NoSave, SaveState, Kinds
    <2>2. saving' \in [Editors -> SaveState]
      BY <1>12, <2>1 DEF Abort
    <2> QED
      BY <1>12, <2>2, <1>same DEF Abort, SwitchTyped
  <1>13. ASSUME NEW s \in Stories, Touch(s) PROVE TypeOK'
    <2>1. /\ story' \in [Stories -> StoryState]
          /\ missed' \subseteq Users \X Stories
      BY <1>13 DEF Touch, StoryState
    <2> QED
      BY <1>13, <2>1, <1>same DEF Touch, SwitchTyped
  <1>14. ASSUME NEW s \in Stories, Age(s) PROVE TypeOK'
    <2>1. /\ story' \in [Stories -> StoryState]
          /\ overlapped' \subseteq Users \X Stories
      BY <1>14 DEF Age, StoryState
    <2> QED
      BY <1>14, <2>1, <1>same DEF Age, SwitchTyped
  <1> QED
    BY <1>1, <1>2, <1>3, <1>4, <1>5, <1>6, <1>7, <1>8, <1>9, <1>10, <1>11,
           <1>12,
       <1>13, <1>14 DEF Next, UserSteps, EditorSteps

-----------------------------------------------------------------------------
(***************************************************************************)
(* The same, for whether there is a row.                                   *)
(***************************************************************************)
RowsKept == \A v \in Users, q \in Stories : HasRow(v, q)' <=> HasRow(v, q)

\* Only these users get another row, of this story.
Grow(us, s) ==
    \A v \in Users, q \in Stories :
        /\ HasRow(v, q) => HasRow(v, q)'
        /\ v \in us /\ q = s => /\ HasRow(v, q)'
                                /\ ~HasRow(v, q) => Len(note'[v][q]) = 1
        /\ ~(v \in us /\ q = s) => /\ HasRow(v, q)' <=> HasRow(v, q)
                                   /\ note'[v][q] = note[v][q]

LEMMA JoinFields ==
    ASSUME TypeOK, NEW u \in Users, Join(u)
    PROVE  /\ user[u] = "absent"
           /\ user'[u] = "active"
           /\ \A v \in Users \ {u} : user'[v] = user[v]
           /\ RowsKept
           /\ UNCHANGED <<story, note, signUp, saving, missed, overlapped>>
  BY DEF Join, TypeOK, RowsKept, HasRow

LEMMA LeaveFields ==
    ASSUME TypeOK, NEW u \in Users, Leave(u)
    PROVE  /\ user[u] = "active"
           /\ user'[u] = "gone"
           /\ \A v \in Users \ {u} : user'[v] = user[v]
           /\ RowsKept
           /\ UNCHANGED <<story, note, signUp, saving, missed, overlapped>>
  BY DEF Leave, TypeOK, RowsKept, HasRow

LEMMA ChangesKeepRows ==
    ASSUME TypeOK, NEW u \in Users,
           \/ \E r \in RowsOf(u, Types), type \in Types : UpdateType(u, r, type)
           \/ \E way \in Ways : SwitchRow(u, way)
           \/ \E way \in Ways : Switch(u, way)
    PROVE  /\ \A v \in Users, s \in Stories : Len(note'[v][s]) = Len(note[v][s])
           /\ RowsKept
           /\ UNCHANGED <<story, user, signUp, saving, missed, overlapped>>
  <1>1. UNCHANGED <<story, user, signUp, saving, missed, overlapped>>
    BY DEF UpdateType, SwitchRow, Switch
  <1>2. CASE UNCHANGED note
    BY <1>1, <1>2 DEF RowsKept, HasRow
  <1>3. ASSUME NEW v, NEW r, NEW t, RowChanges(v, r, t)
        PROVE  /\ \A w \in Users, s \in Stories : Len(note'[w][s]) = Len(note[w][s])
               /\ RowsKept
    BY <1>3, RowChange DEF RowsKept
  <1>4. \/ UNCHANGED note
        \/ \E v, r, t : RowChanges(v, r, t)
    BY UpdateTypeEffect, SwitchRowEffect DEF Switch
  <1> QED
    BY <1>1, <1>2, <1>3, <1>4

LEMMA AddRowGrows ==
    ASSUME TypeOK, NEW u \in Users, AddRow(u)
    PROVE  \E s \in signUp[u].todo \cap Stories :
              /\ Grow({u}, s)
              /\ \A v \in Users \ {u} : signUp'[v] = signUp[v]
              /\ signUp'[u].todo = signUp[u].todo \ {s}
              /\ signUp'[u].turn = signUp[u].turn
              /\ signUp'[u].failed = signUp[u].failed
              /\ UNCHANGED <<story, user, saving, missed, overlapped>>
  <1>1. PICK s \in signUp[u].todo, t \in Types :
              /\ s \in Stories
              /\ RowsAdded({u}, s, t)
              /\ signUp' = [signUp EXCEPT ![u].todo = @ \ {s}]
    BY AddRowEffect
  <1>2. Grow({u}, s)
    BY <1>1, RowsAddition DEF Grow, HasRow
  <1>3. /\ \A v \in Users \ {u} : signUp'[v] = signUp[v]
        /\ signUp'[u].todo = signUp[u].todo \ {s}
        /\ signUp'[u].turn = signUp[u].turn
        /\ signUp'[u].failed = signUp[u].failed
    BY <1>1 DEF TypeOK, SignUpState
  <1> QED
    BY <1>1, <1>2, <1>3 DEF AddRow

LEMMA CommitGrows ==
    ASSUME TypeOK, Saves, NEW e \in Editors, Commit(e)
    PROVE  LET s == saving[e].story IN
           /\ s \in Stories
           /\ Grow(saving[e].staged, s)
           /\ saving[e].todo = {}
           /\ \A q \in Stories : story'[q] =
                 IF q = s /\ saving[e].kind # "same" THEN "fresh" ELSE story[q]
           /\ saving'[e].story = None
           /\ saving'[e] = NoSave
           /\ \A f \in Editors \ {e} : saving'[f] = saving[f]
           /\ missed' = (missed \cup IF saving[e].kind = "same" THEN {}
                                     ELSE PassedBy(e) \X {s})
                        \ (saving[e].listed \X {s})
           /\ UNCHANGED <<user, signUp, overlapped>>
  <1>1. /\ saving[e].story \in Stories
        /\ RowsAdded(saving[e].staged, saving[e].story, AtOnce)
    BY CommitEffect
  <1>2. Grow(saving[e].staged, saving[e].story)
    BY <1>1, RowsAddition DEF Grow, HasRow
  <1> QED
    BY <1>1, <1>2 DEF Commit, TypeOK, NoSave

LEMMA AbortFields ==
    ASSUME TypeOK, NEW e \in Editors, Abort(e)
    PROVE  /\ saving'[e].story = None
           /\ saving'[e] = NoSave
           /\ \A f \in Editors \ {e} : saving'[f] = saving[f]
           /\ RowsKept
           /\ UNCHANGED <<story, user, note, signUp, missed, overlapped>>
  BY DEF Abort, TypeOK, NoSave, RowsKept, HasRow

LEMMA SaveFields ==
    ASSUME TypeOK, NEW e \in Editors, NEW s \in Stories, NEW kind \in Kinds,
           Save(e, s, kind)
    PROVE  /\ saving[e] = NoSave
           /\ kind = "create" => /\ ~Exists(s)
                                 /\ \A f \in Editors : saving[f].story # s
           /\ kind # "create" => Exists(s)
           /\ saving'[e].story = s
           /\ saving'[e].kind = kind
           /\ saving'[e].listed = Active
           /\ saving'[e].todo = Active
           /\ saving'[e].staged = {}
           /\ \A f \in Editors \ {e} : saving'[f] = saving[f]
           /\ RowsKept
           /\ UNCHANGED <<story, user, note, signUp, missed, overlapped>>
  BY DEF Save, TypeOK, RowsKept, HasRow

LEMMA FirstOrCreateFields ==
    ASSUME TypeOK, Saves, NEW e \in Editors, FirstOrCreate(e)
    PROVE  \E u \in saving[e].todo \cap Users :
              LET s == saving[e].story IN
              /\ s \in Stories
              /\ saving'[e].story = s
              /\ saving'[e].kind = saving[e].kind
              /\ saving'[e].listed = saving[e].listed
              /\ saving'[e].todo = saving[e].todo \ {u}
              /\ saving'[e].staged = IF HasRow(u, s) THEN saving[e].staged
                                     ELSE saving[e].staged \cup {u}
              /\ \A f \in Editors \ {e} : saving'[f] = saving[f]
              /\ overlapped' = IF SigningUp(u) \/ OthersSave(e, u)
                                 THEN overlapped \cup {<<u, s>>} ELSE overlapped
              /\ RowsKept
              /\ UNCHANGED <<story, user, note, signUp, missed>>
  <1>1. PICK u \in saving[e].todo :
            /\ saving' = [saving EXCEPT
                        ![e].todo = @ \ {u},
                        ![e].staged = IF Wanting(u, saving[e].story)
                                        THEN @ \cup {u} ELSE @]
            /\ overlapped' = IF SigningUp(u) \/ OthersSave(e, u)
                           THEN overlapped \cup {<<u, saving[e].story>>}
                           ELSE overlapped
            /\ UNCHANGED <<story, user, note, signUp, switching, missed, quiet>>
    BY DEF FirstOrCreate
  <1>2. u \in Users /\ saving[e].story \in Stories
    BY DEF TypeOK, SaveState, Saves, SaveOf, NoSave
  <1>3. /\ saving'[e].story = saving[e].story
        /\ saving'[e].kind = saving[e].kind
        /\ saving'[e].listed = saving[e].listed
        /\ saving'[e].todo = saving[e].todo \ {u}
        /\ saving'[e].staged = IF Wanting(u, saving[e].story)
                                 THEN saving[e].staged \cup {u} ELSE saving[e].staged
        /\ \A f \in Editors \ {e} : saving'[f] = saving[f]
    BY <1>1 DEF TypeOK, SaveState
  <1>4. RowsKept
    BY <1>1 DEF RowsKept, HasRow
  <1> QED
    BY <1>1, <1>2, <1>3, <1>4 DEF Wanting

LEMMA QueryFields ==
    ASSUME TypeOK, NEW u \in Users, Query(u)
    PROVE  /\ SigningUp(u)
           /\ signUp[u].turn \in 0 .. 2
           /\ signUp[u].todo = {}
           /\ signUp'[u].turn = signUp[u].turn + 1
           /\ signUp'[u].todo = Found(signUp[u].turn + 1)
           /\ signUp'[u].failed = signUp[u].failed
           /\ \A v \in Users \ {u} : signUp'[v] = signUp[v]
           /\ RowsKept
           /\ UNCHANGED <<story, user, note, saving, missed, overlapped>>
  <1>1. signUp[u] \in SignUpState
    BY DEF TypeOK
  <1> QED
    BY <1>1 DEF Query, SignUpState, TypeOK, RowsKept, HasRow

LEMMA GiveUpFields ==
    ASSUME TypeOK, NEW u \in Users, GiveUp(u)
    PROVE  /\ SigningUp(u)
           /\ signUp'[u].turn = signUp[u].turn
           /\ signUp'[u].todo = {}
           /\ signUp'[u].failed = TRUE
           /\ \A v \in Users \ {u} : signUp'[v] = signUp[v]
           /\ RowsKept
           /\ UNCHANGED <<story, user, note, saving, missed, overlapped>>
  <1>1. signUp[u] \in SignUpState
    BY DEF TypeOK
  <1> QED
    BY <1>1 DEF GiveUp, SignUpState, TypeOK, RowsKept, HasRow

LEMMA TouchFields ==
    ASSUME TypeOK, NEW s \in Stories, Touch(s)
    PROVE  /\ Exists(s)
           /\ story'[s] = "fresh"
           /\ \A q \in Stories \ {s} : story'[q] = story[q]
           /\ missed' = missed \cup {u \in Users : Between(u)} \X {s}
           /\ RowsKept
           /\ UNCHANGED <<user, note, signUp, saving, overlapped>>
  BY DEF Touch, TypeOK, RowsKept, HasRow

LEMMA AgeFields ==
    ASSUME TypeOK, NEW s \in Stories, Age(s)
    PROVE  /\ story[s] = "fresh"
           /\ story'[s] = "old"
           /\ \A q \in Stories \ {s} : story'[q] = story[q]
           /\ overlapped' = overlapped \cup {u \in Users : Between(u)} \X {s}
           /\ RowsKept
           /\ UNCHANGED <<user, note, signUp, saving, missed>>
  BY DEF Age, TypeOK, RowsKept, HasRow

\* Who is signing up: not yet through, and alive.
Signing(u) ==
    /\ user[u] # "absent"
    /\ ~signUp[u].failed
    /\ signUp[u].turn # 3 \/ signUp[u].todo # {}

LEMMA SigningUpIs ==
    ASSUME TypeOK, NEW u \in Users
    PROVE  SigningUp(u) <=> Signing(u)
  <1>1. signUp[u] \in SignUpState
    BY DEF TypeOK
  <1>2. signUp[u].failed \in BOOLEAN
    BY <1>1 DEF SignUpState
  <1>3. ASSUME signUp[u] = AllAdded
        PROVE  signUp[u].turn = 3 /\ signUp[u].todo = {}
    BY <1>3 DEF AllAdded
  <1>4. ASSUME signUp[u].turn = 3, signUp[u].todo = {}, ~signUp[u].failed
        PROVE  signUp[u] = AllAdded
    <2>1. signUp[u].failed = FALSE
      BY <1>2, <1>4
    <2> QED
      BY <1>1, <1>4, <2>1 DEF AllAdded, SignUpState
  <1> QED
    BY <1>3, <1>4 DEF SigningUp, Signing

LEMMA SigningUpIsNext ==
    ASSUME TypeOK', NEW u \in Users
    PROVE  SigningUp(u)' <=> Signing(u)'
  <1>1. signUp'[u] \in SignUpState
    BY DEF TypeOK
  <1>2. signUp'[u].failed \in BOOLEAN
    BY <1>1 DEF SignUpState
  <1>3. ASSUME signUp'[u] = AllAdded
        PROVE  signUp'[u].turn = 3 /\ signUp'[u].todo = {}
    BY <1>3 DEF AllAdded
  <1>4. ASSUME signUp'[u].turn = 3, signUp'[u].todo = {}, ~signUp'[u].failed
        PROVE  signUp'[u] = AllAdded
    <2>1. signUp'[u].failed = FALSE
      BY <1>2, <1>4
    <2> QED
      BY <1>1, <1>4, <2>1 DEF AllAdded, SignUpState
  <1> QED
    BY <1>3, <1>4 DEF SigningUp, Signing

LEMMA FoundAre ==
    ASSUME NEW i \in 1 .. 3, NEW s \in Stories
    PROVE  s \in Found(i) <=> \/ i = 1 /\ story[s] = "fresh"
                              \/ i = 2 /\ story[s] = "old" /\ s \in KeyStories
                              \/ i = 3 /\ story[s] = "old" /\ s \notin KeyStories
  <1>1. CASE i = 1
    BY <1>1 DEF Found
  <1>2. CASE i = 2
    BY <1>2 DEF Found
  <1>3. CASE i = 3
    BY <1>3 DEF Found
  <1> QED
    BY <1>1, <1>2, <1>3

LEMMA HearingFrame ==
    ASSUME NEW v \in Users, \A q \in Stories : note'[v][q] = note[v][q]
    PROVE  RowsOf(v, {AtOnce})' = RowsOf(v, {AtOnce})
  <1>1. ASSUME NEW r \in RowsOf(v, {AtOnce})'
        PROVE  r \in RowsOf(v, {AtOnce})
    <2>1. r = <<r[1], r[2]>> /\ r[1] \in Stories /\ r[2] \in DOMAIN note'[v][r[1]]
          /\ note'[v][r[1]][r[2]] \in {AtOnce}
      BY RowsOfMemberNext
    <2> QED
      BY <2>1, RowsOfMember
  <1>2. ASSUME NEW r \in RowsOf(v, {AtOnce})
        PROVE  r \in RowsOf(v, {AtOnce})'
    <2>1. r = <<r[1], r[2]>> /\ r[1] \in Stories /\ r[2] \in DOMAIN note[v][r[1]]
          /\ note[v][r[1]][r[2]] \in {AtOnce}
      BY RowsOfMember
    <2> QED
      BY <2>1, RowsOfMemberNext
  <1> QED
    BY <1>1, <1>2

\* A row that is changed is not heard by any more, unless it is changed to that.
LEMMA HearingChange ==
    ASSUME TypeOK, NEW u, NEW r, NEW t, RowChanges(u, r, t), NEW v \in Users
    PROVE  /\ v # u => RowsOf(v, {AtOnce})' = RowsOf(v, {AtOnce})
           /\ t # AtOnce =>
                 /\ RowsOf(v, {AtOnce})' \subseteq RowsOf(v, {AtOnce})
                 /\ v = u => r \notin RowsOf(v, {AtOnce})'
  <1>1. \A s \in Stories : /\ DOMAIN note'[v][s] = DOMAIN note[v][s]
                           /\ \A i \in DOMAIN note[v][s] :
                                 note'[v][s][i] = IF v = u /\ <<s, i>> = r THEN t
                                                                 ELSE note[v][s][i]
    BY RowChange
  <1>2. ASSUME NEW x \in RowsOf(v, {AtOnce})'
        PROVE  /\ v # u \/ t # AtOnce => x \in RowsOf(v, {AtOnce})
               /\ v = u /\ t # AtOnce => x # r
    <2>1. x = <<x[1], x[2]>> /\ x[1] \in Stories /\ x[2] \in DOMAIN note'[v][x[1]]
          /\ note'[v][x[1]][x[2]] = AtOnce
      BY RowsOfMemberNext
    <2>2. x[2] \in DOMAIN note[v][x[1]]
      BY <1>1, <2>1
    <2>3. v = u /\ t # AtOnce => x # r
      BY <1>1, <2>1, <2>2
    <2>4. v # u \/ t # AtOnce => note[v][x[1]][x[2]] = AtOnce
      BY <1>1, <2>1, <2>2
    <2> QED
      BY <2>1, <2>2, <2>3, <2>4, RowsOfMember
  <1>3. ASSUME NEW x \in RowsOf(v, {AtOnce}), v # u
        PROVE  x \in RowsOf(v, {AtOnce})'
    <2>1. x = <<x[1], x[2]>> /\ x[1] \in Stories /\ x[2] \in DOMAIN note[v][x[1]]
          /\ note[v][x[1]][x[2]] = AtOnce
      BY RowsOfMember
    <2>2. x[2] \in DOMAIN note'[v][x[1]] /\ note'[v][x[1]][x[2]] = AtOnce
      BY <1>1, <1>3, <2>1
    <2> QED
      BY <2>1, <2>2, RowsOfMemberNext
  <1> QED
    BY <1>2, <1>3

\* Whose rows stay, or are heard of, in the history too.
LEMMA HeardHeeded ==
    ASSUME TypeOK, AllHeeded, NEW us, Heard(us), NEW v \in Users,
           v \notin us => RowsOf(v, {AtOnce})' = RowsOf(v, {AtOnce})
    PROVE  Heeded(v)'
  <1>1. CASE v \in us
    <2>1. v \notin quiet'
      BY <1>1 DEF Heard
    <2>2. \A w \in Ways : ~switching'[v][w].clean
      <3>1. \A w \in Ways : switching[v][w] \in SwitchState
        BY DEF TypeOK
      <3>2. \A w \in Ways : switching'[v][w] = [switching[v][w] EXCEPT !.clean = FALSE]
        BY <1>1 DEF Heard
      <3> QED
        BY <3>1, <3>2 DEF SwitchState
    <2> QED
      BY <2>1, <2>2 DEF Heeded
  <1>2. CASE v \notin us
    <2>1. switching'[v] = switching[v] /\ (v \in quiet' <=> v \in quiet)
      BY <1>2 DEF Heard
    <2> QED
      BY <1>2, <2>1 DEF AllHeeded, Heeded
  <1> QED
    BY <1>1, <1>2

-----------------------------------------------------------------------------
(***************************************************************************)
(* The parts of the invariant, one by one.                                 *)
(***************************************************************************)
LEMMA SignUpsStep ==
    ASSUME TypeOK, TypeOK', SignUps, Saves, Next
    PROVE  SignUps'
  <1> SUFFICES ASSUME NEW v \in Users
               PROVE  SignUpOf(v)'
    BY DEF SignUps
  <1> USE DEF SignUps, SignUpOf, Exists, Signing
  <1>s. /\ SigningUp(v) <=> Signing(v)
        /\ SigningUp(v)' <=> Signing(v)'
        /\ signUp[v].todo \subseteq Stories
    BY SigningUpIs, SigningUpIsNext DEF TypeOK, SignUpState
  <1>1. ASSUME NEW u \in Users, Join(u) PROVE SignUpOf(v)'
    BY <1>1, JoinFields, <1>s DEF RowsKept
  <1>2. ASSUME NEW u \in Users, Query(u) PROVE SignUpOf(v)'
    <2>1. \A s \in Found(signUp[u].turn + 1) : s \in Stories /\ Exists(s)
      <3>1. signUp[u].turn + 1 \in 1 .. 3
        BY <1>2, QueryFields
      <3>2. Found(signUp[u].turn + 1) \subseteq Stories
        BY DEF Found
      <3> QED
        BY <3>1, <3>2, FoundAre
    <2>2. signUp'[u].turn # 0
      BY <1>2, QueryFields
    <2>3. user[u] # "absent" /\ ~signUp[u].failed
      BY <1>2, QueryFields DEF SigningUp
    <2>4. CASE v = u
      BY <1>2, <2>1, <2>2, <2>3, <2>4, QueryFields, <1>s DEF RowsKept
    <2>5. CASE v # u
      BY <1>2, <2>5, QueryFields, <1>s DEF RowsKept
    <2> QED
      BY <2>4, <2>5
  <1>3. ASSUME NEW u \in Users, AddRow(u) PROVE SignUpOf(v)'
    <2>1. PICK s \in signUp[u].todo \cap Stories :
              /\ Grow({u}, s)
              /\ \A w \in Users \ {u} : signUp'[w] = signUp[w]
              /\ signUp'[u].todo = signUp[u].todo \ {s}
              /\ signUp'[u].turn = signUp[u].turn
              /\ signUp'[u].failed = signUp[u].failed
              /\ UNCHANGED <<story, user, saving, missed, overlapped>>
      BY <1>3, AddRowGrows
    <2>2. SigningUp(u)
      BY <1>3 DEF AddRow
    <2>3. user[u] # "absent" /\ ~signUp[u].failed /\ signUp[u].turn # 0
      BY <2>1, <2>2 DEF SigningUp
    <2>4. CASE v = u
      BY <2>1, <2>3, <2>4, <1>s DEF Grow
    <2>5. CASE v # u
      BY <2>1, <2>5, <1>s DEF Grow
    <2> QED
      BY <2>4, <2>5
  <1>4. ASSUME NEW u \in Users, GiveUp(u) PROVE SignUpOf(v)'
    BY <1>4, GiveUpFields, <1>s DEF RowsKept
  <1>5. ASSUME NEW u \in Users, Leave(u) PROVE SignUpOf(v)'
    BY <1>5, LeaveFields, <1>s DEF RowsKept
  <1>6. ASSUME NEW u \in Users,
               \/ \E r \in RowsOf(u, Types), type \in Types : UpdateType(u, r, type)
               \/ \E way \in Ways : SwitchRow(u, way)
               \/ \E way \in Ways : Switch(u, way)
        PROVE  SignUpOf(v)'
    BY <1>6, ChangesKeepRows, <1>s DEF RowsKept
  <1>7. ASSUME NEW e \in Editors, NEW s \in Stories, NEW kind \in Kinds, Save(e, s, kind)
        PROVE  SignUpOf(v)'
    BY <1>7, SaveFields, <1>s DEF RowsKept
  <1>8. ASSUME NEW e \in Editors, FirstOrCreate(e) PROVE SignUpOf(v)'
    <2>1. RowsKept /\ UNCHANGED <<story, user, signUp>>
      BY <1>8, FirstOrCreateFields
    <2> QED
      BY <2>1, <1>s DEF RowsKept
  <1>9. ASSUME NEW e \in Editors, Commit(e) PROVE SignUpOf(v)'
    <2>1. \A r \in Stories : Exists(r) => Exists(r)'
      BY <1>9, CommitGrows
    <2>2. UNCHANGED <<user, signUp>>
      BY <1>9, CommitGrows
    <2>3. user[v] = "absent" => \A s \in Stories : ~HasRow(v, s)'
      <3>1. user[v] = "absent" => v \notin saving[e].staged
        BY DEF Saves, SaveOf
      <3>2. \A s \in Stories : v \notin saving[e].staged => (HasRow(v, s)' <=> HasRow(v, s))
        BY <1>9, CommitGrows DEF Grow
      <3> QED
        BY <3>1, <3>2
    <2> QED
      BY <2>1, <2>2, <2>3, <1>s
  <1>10. ASSUME NEW e \in Editors, Abort(e) PROVE SignUpOf(v)'
    BY <1>10, AbortFields, <1>s DEF RowsKept
  <1>11. ASSUME NEW s \in Stories, Touch(s) PROVE SignUpOf(v)'
    BY <1>11, TouchFields, <1>s DEF RowsKept
  <1>12. ASSUME NEW s \in Stories, Age(s) PROVE SignUpOf(v)'
    BY <1>12, AgeFields, <1>s DEF RowsKept
  <1> QED
    BY <1>1, <1>2, <1>3, <1>4, <1>5, <1>6, <1>7, <1>8, <1>9, <1>10, <1>11, <1>12
       DEF Next, UserSteps, EditorSteps

LEMMA SavesStep ==
    ASSUME TypeOK, TypeOK', SignUps, Saves, Creates, Next
    PROVE  Saves'
  <1> SUFFICES ASSUME NEW g \in Editors
               PROVE  SaveOf(g)'
    BY DEF Saves
  <1>s. \A f \in Editors :
            /\ saving[f].listed \subseteq Users
            /\ saving[f].todo \subseteq Users
            /\ saving[f].staged \subseteq Users
            /\ saving[f].story # None => saving[f].story \in Stories
    BY DEF TypeOK, SaveState
  <1>f. ASSUME UNCHANGED <<saving, story>>,
               \A v \in Users : user[v] # "absent" => user'[v] # "absent"
        PROVE  SaveOf(g)'
    BY <1>f, <1>s DEF Saves, SaveOf, Exists
  <1>1. ASSUME NEW u \in Users, Join(u) PROVE SaveOf(g)'
    <2>1. UNCHANGED <<saving, story>>
      BY <1>1, JoinFields
    <2>2. \A v \in Users : user[v] # "absent" => user'[v] # "absent"
      BY <1>1, JoinFields
    <2> QED
      BY <2>1, <2>2, <1>f
  <1>2. ASSUME NEW u \in Users, Query(u) PROVE SaveOf(g)'
    <2>1. UNCHANGED <<saving, story>>
      BY <1>2, QueryFields
    <2>2. \A v \in Users : user[v] # "absent" => user'[v] # "absent"
      BY <1>2, QueryFields
    <2> QED
      BY <2>1, <2>2, <1>f
  <1>3. ASSUME NEW u \in Users, AddRow(u) PROVE SaveOf(g)'
    <2>1. UNCHANGED <<saving, story>>
      BY <1>3, AddRowGrows
    <2>2. \A v \in Users : user[v] # "absent" => user'[v] # "absent"
      BY <1>3, AddRowGrows
    <2> QED
      BY <2>1, <2>2, <1>f
  <1>4. ASSUME NEW u \in Users, GiveUp(u) PROVE SaveOf(g)'
    <2>1. UNCHANGED <<saving, story>>
      BY <1>4, GiveUpFields
    <2>2. \A v \in Users : user[v] # "absent" => user'[v] # "absent"
      BY <1>4, GiveUpFields
    <2> QED
      BY <2>1, <2>2, <1>f
  <1>5. ASSUME NEW u \in Users, Leave(u) PROVE SaveOf(g)'
    <2>1. UNCHANGED <<saving, story>>
      BY <1>5, LeaveFields
    <2>2. \A v \in Users : user[v] # "absent" => user'[v] # "absent"
      BY <1>5, LeaveFields
    <2> QED
      BY <2>1, <2>2, <1>f
  <1>6. ASSUME NEW u \in Users,
               \/ \E r \in RowsOf(u, Types), type \in Types : UpdateType(u, r, type)
               \/ \E way \in Ways : SwitchRow(u, way)
               \/ \E way \in Ways : Switch(u, way)
        PROVE  SaveOf(g)'
    <2>1. UNCHANGED <<saving, story>>
      BY <1>6, ChangesKeepRows
    <2>2. \A v \in Users : user[v] # "absent" => user'[v] # "absent"
      BY <1>6, ChangesKeepRows
    <2> QED
      BY <2>1, <2>2, <1>f
  <1>7. ASSUME NEW e \in Editors, NEW s \in Stories, NEW kind \in Kinds, Save(e, s, kind)
        PROVE  SaveOf(g)'
    <2>1. CASE g = e
      <3>1. \A u \in Active : user[u] # "absent"
        BY DEF Active
      <3> QED
        BY <1>7, <2>1, <3>1, SaveFields, NoneIsNoStory DEF SaveOf, Exists
    <2>2. CASE g # e
      BY <1>7, <2>2, <1>s, SaveFields DEF Saves, SaveOf, Exists
    <2> QED
      BY <2>1, <2>2
  <1>8. ASSUME NEW e \in Editors, FirstOrCreate(e) PROVE SaveOf(g)'
    <2>1. PICK u \in saving[e].todo \cap Users :
              LET s == saving[e].story IN
              /\ s \in Stories
              /\ saving'[e].story = s
              /\ saving'[e].kind = saving[e].kind
              /\ saving'[e].listed = saving[e].listed
              /\ saving'[e].todo = saving[e].todo \ {u}
              /\ saving'[e].staged = IF HasRow(u, s) THEN saving[e].staged
                                     ELSE saving[e].staged \cup {u}
              /\ \A f \in Editors \ {e} : saving'[f] = saving[f]
              /\ overlapped' = IF SigningUp(u) \/ OthersSave(e, u)
                                 THEN overlapped \cup {<<u, s>>} ELSE overlapped
              /\ RowsKept
              /\ UNCHANGED <<story, user, note, signUp, missed>>
      BY <1>8, FirstOrCreateFields
    <2>2. CASE g = e
      <3>1. saving'[e].story # None
        BY <2>1, NoneIsNoStory
      <3>2. saving[e].todo \subseteq saving[e].listed
        BY DEF Saves, SaveOf
      <3> QED
        BY <2>1, <2>2, <3>1, <3>2 DEF Saves, SaveOf, Exists
    <2>3. CASE g # e
      BY <2>1, <2>3, <1>s DEF Saves, SaveOf, Exists
    <2> QED
      BY <2>2, <2>3
  <1>9. ASSUME NEW e \in Editors, Commit(e) PROVE SaveOf(g)'
    <2>0. /\ saving[e].story \in Stories
          /\ saving[e].story # None
      BY <1>9, CommitGrows, NoneIsNoStory
    <2>1. CASE g = e
      <3>1. saving'[e].story = None /\ saving'[e] = NoSave
        BY <1>9, CommitGrows
      <3> QED
        BY <2>1, <3>1 DEF SaveOf, NoSave
    <2>2. CASE g # e
      <3>1. saving'[g] = saving[g] /\ UNCHANGED user
        BY <1>9, <2>2, CommitGrows
      <3>2. \A q \in Stories : story'[q] =
                IF q = saving[e].story /\ saving[e].kind # "same" THEN "fresh" ELSE story[q]
        BY <1>9, CommitGrows
      <3>3. saving[g].story # None => (Exists(saving[g].story)' <=> Exists(saving[g].story))
        <4>1. CASE saving[e].kind = "create"
          <5>1. saving[g].story # saving[e].story
            BY <2>0, <2>2, <4>1 DEF Creates, Alone
          <5> QED
            BY <3>1, <3>2, <5>1, <1>s DEF Exists
        <4>2. CASE saving[e].kind # "create"
          <5>1. Exists(saving[e].story)
            BY <2>0, <4>2 DEF Saves, SaveOf
          <5> QED
            BY <3>1, <3>2, <5>1, <1>s DEF Exists
        <4> QED
          BY <4>1, <4>2
      <3> QED
        BY <3>1, <3>3, <1>s DEF Saves, SaveOf
    <2> QED
      BY <2>1, <2>2
  <1>10. ASSUME NEW e \in Editors, Abort(e) PROVE SaveOf(g)'
    <2>1. CASE g = e
      BY <1>10, <2>1, AbortFields DEF SaveOf, NoSave
    <2>2. CASE g # e
      BY <1>10, <2>2, <1>s, AbortFields DEF Saves, SaveOf, Exists
    <2> QED
      BY <2>1, <2>2
  <1>11. ASSUME NEW s \in Stories, Touch(s) PROVE SaveOf(g)'
    <2>1. UNCHANGED <<saving, user>>
      BY <1>11, TouchFields
    <2>2. \A r \in Stories : Exists(r)' <=> Exists(r)
      BY <1>11, TouchFields DEF Exists
    <2> QED
      BY <2>1, <2>2, <1>s DEF Saves, SaveOf
  <1>12. ASSUME NEW s \in Stories, Age(s) PROVE SaveOf(g)'
    <2>1. UNCHANGED <<saving, user>>
      BY <1>12, AgeFields
    <2>2. \A r \in Stories : Exists(r)' <=> Exists(r)
      BY <1>12, AgeFields DEF Exists
    <2> QED
      BY <2>1, <2>2, <1>s DEF Saves, SaveOf
  <1> QED
    BY <1>1, <1>2, <1>3, <1>4, <1>5, <1>6, <1>7, <1>8, <1>9, <1>10, <1>11, <1>12
       DEF Next, UserSteps, EditorSteps

LEMMA CreatesStep ==
    ASSUME TypeOK, Saves, Creates, Next
    PROVE  Creates'
  <1> SUFFICES ASSUME NEW g \in Editors, NEW h \in Editors
               PROVE  Alone(g, h)'
    BY DEF Creates
  <1>f. ASSUME UNCHANGED saving PROVE Alone(g, h)'
    BY <1>f DEF Creates, Alone
  <1>1. ASSUME NEW u \in Users, Join(u) PROVE Alone(g, h)'
    <2>1. UNCHANGED saving
      BY <1>1, JoinFields
    <2> QED
      BY <2>1, <1>f
  <1>2. ASSUME NEW u \in Users, Query(u) PROVE Alone(g, h)'
    <2>1. UNCHANGED saving
      BY <1>2, QueryFields
    <2> QED
      BY <2>1, <1>f
  <1>3. ASSUME NEW u \in Users, AddRow(u) PROVE Alone(g, h)'
    <2>1. UNCHANGED saving
      BY <1>3, AddRowGrows
    <2> QED
      BY <2>1, <1>f
  <1>4. ASSUME NEW u \in Users, GiveUp(u) PROVE Alone(g, h)'
    <2>1. UNCHANGED saving
      BY <1>4, GiveUpFields
    <2> QED
      BY <2>1, <1>f
  <1>5. ASSUME NEW u \in Users, Leave(u) PROVE Alone(g, h)'
    <2>1. UNCHANGED saving
      BY <1>5, LeaveFields
    <2> QED
      BY <2>1, <1>f
  <1>6. ASSUME NEW u \in Users,
               \/ \E r \in RowsOf(u, Types), type \in Types : UpdateType(u, r, type)
               \/ \E way \in Ways : SwitchRow(u, way)
               \/ \E way \in Ways : Switch(u, way)
        PROVE  Alone(g, h)'
    <2>1. UNCHANGED saving
      BY <1>6, ChangesKeepRows
    <2> QED
      BY <2>1, <1>f
  <1>7. ASSUME NEW e \in Editors, NEW s \in Stories, NEW kind \in Kinds, Save(e, s, kind)
        PROVE  Alone(g, h)'
    <2>1. /\ saving'[e].story = s
          /\ saving'[e].kind = kind
          /\ kind = "create" => \A f \in Editors : saving[f].story # s
          /\ kind # "create" => Exists(s)
          /\ \A f \in Editors \ {e} : saving'[f] = saving[f]
      BY <1>7, SaveFields
    <2>2. CASE g = e
      BY <2>1, <2>2 DEF Alone
    <2>3. CASE g # e /\ h = e
      <3>1. saving[g].story # None /\ saving[g].kind = "create" => ~Exists(saving[g].story)
        BY DEF Saves, SaveOf
      <3>2. saving[g].story = s => kind # "create"
        BY <2>1
      <3> QED
        BY <2>1, <2>3, <3>1, <3>2 DEF Alone
    <2>4. CASE g # e /\ h # e
      BY <2>1, <2>4 DEF Creates, Alone
    <2> QED
      BY <2>2, <2>3, <2>4
  <1>8. ASSUME NEW e \in Editors, FirstOrCreate(e) PROVE Alone(g, h)'
    <2>1. \A f \in Editors : /\ saving'[f].story = saving[f].story
                             /\ saving'[f].kind = saving[f].kind
      BY <1>8, FirstOrCreateFields
    <2> QED
      BY <2>1 DEF Creates, Alone
  <1>9. ASSUME NEW e \in Editors, Commit(e) PROVE Alone(g, h)'
    <2>1. saving'[e].story = None /\ \A f \in Editors \ {e} : saving'[f] = saving[f]
      BY <1>9, CommitGrows
    <2> QED
      BY <2>1 DEF Creates, Alone
  <1>10. ASSUME NEW e \in Editors, Abort(e) PROVE Alone(g, h)'
    <2>1. saving'[e].story = None /\ \A f \in Editors \ {e} : saving'[f] = saving[f]
      BY <1>10, AbortFields
    <2> QED
      BY <2>1 DEF Creates, Alone
  <1>11. ASSUME NEW s \in Stories, Touch(s) PROVE Alone(g, h)'
    <2>1. UNCHANGED saving
      BY <1>11, TouchFields
    <2> QED
      BY <2>1, <1>f
  <1>12. ASSUME NEW s \in Stories, Age(s) PROVE Alone(g, h)'
    <2>1. UNCHANGED saving
      BY <1>12, AgeFields
    <2> QED
      BY <2>1, <1>f
  <1> QED
    BY <1>1, <1>2, <1>3, <1>4, <1>5, <1>6, <1>7, <1>8, <1>9, <1>10, <1>11, <1>12
       DEF Next, UserSteps, EditorSteps

LEMMA RowsOfStoriesStep ==
    ASSUME TypeOK, SignUps, Saves, RowsOfStories, Next
    PROVE  RowsOfStories'
  <1> SUFFICES ASSUME NEW v \in Users, NEW q \in Stories
               PROVE  (HasRow(v, q) => Exists(q))'
    BY DEF RowsOfStories
  <1>f. ASSUME RowsKept, \A s \in Stories : Exists(s) => Exists(s)'
        PROVE  (HasRow(v, q) => Exists(q))'
    BY <1>f DEF RowsKept, RowsOfStories
  <1>1. ASSUME NEW u \in Users, Join(u) PROVE (HasRow(v, q) => Exists(q))'
    <2>1. RowsKept /\ UNCHANGED story
      BY <1>1, JoinFields
    <2> QED
      BY <2>1, <1>f DEF Exists
  <1>2. ASSUME NEW u \in Users, Query(u) PROVE (HasRow(v, q) => Exists(q))'
    <2>1. RowsKept /\ UNCHANGED story
      BY <1>2, QueryFields
    <2> QED
      BY <2>1, <1>f DEF Exists
  <1>3. ASSUME NEW u \in Users, AddRow(u) PROVE (HasRow(v, q) => Exists(q))'
    <2>1. PICK p \in signUp[u].todo \cap Stories : Grow({u}, p) /\ UNCHANGED story
      BY <1>3, AddRowGrows
    <2>2. Exists(p)
      BY DEF SignUps, SignUpOf
    <2> QED
      BY <2>1, <2>2 DEF Grow, Exists, RowsOfStories
  <1>4. ASSUME NEW u \in Users, GiveUp(u) PROVE (HasRow(v, q) => Exists(q))'
    <2>1. RowsKept /\ UNCHANGED story
      BY <1>4, GiveUpFields
    <2> QED
      BY <2>1, <1>f DEF Exists
  <1>5. ASSUME NEW u \in Users, Leave(u) PROVE (HasRow(v, q) => Exists(q))'
    <2>1. RowsKept /\ UNCHANGED story
      BY <1>5, LeaveFields
    <2> QED
      BY <2>1, <1>f DEF Exists
  <1>6. ASSUME NEW u \in Users,
               \/ \E r \in RowsOf(u, Types), type \in Types : UpdateType(u, r, type)
               \/ \E way \in Ways : SwitchRow(u, way)
               \/ \E way \in Ways : Switch(u, way)
        PROVE  (HasRow(v, q) => Exists(q))'
    <2>1. RowsKept /\ UNCHANGED story
      BY <1>6, ChangesKeepRows
    <2> QED
      BY <2>1, <1>f DEF Exists
  <1>7. ASSUME NEW e \in Editors, NEW s \in Stories, NEW kind \in Kinds, Save(e, s, kind)
        PROVE  (HasRow(v, q) => Exists(q))'
    <2>1. RowsKept /\ UNCHANGED story
      BY <1>7, SaveFields
    <2> QED
      BY <2>1, <1>f DEF Exists
  <1>8. ASSUME NEW e \in Editors, FirstOrCreate(e)
        PROVE  (HasRow(v, q) => Exists(q))'
    <2>1. RowsKept /\ UNCHANGED story
      BY <1>8, FirstOrCreateFields
    <2> QED
      BY <2>1, <1>f DEF Exists
  <1>9. ASSUME NEW e \in Editors, Commit(e)
        PROVE  (HasRow(v, q) => Exists(q))'
    <2>1. /\ Grow(saving[e].staged, saving[e].story)
          /\ saving[e].story # None
          /\ \A s \in Stories : story'[s] =
                IF s = saving[e].story /\ saving[e].kind # "same" THEN "fresh" ELSE story[s]
      BY <1>9, CommitGrows, NoneIsNoStory
    <2>2. CASE q = saving[e].story
      <3>1. saving[e].kind = "same" => Exists(q)
        BY <2>1, <2>2 DEF Saves, SaveOf
      <3> QED
        BY <2>1, <2>2, <3>1 DEF Exists
    <2>3. CASE q # saving[e].story
      BY <2>1, <2>3 DEF Grow, Exists, RowsOfStories
    <2> QED
      BY <2>2, <2>3
  <1>10. ASSUME NEW e \in Editors, Abort(e) PROVE (HasRow(v, q) => Exists(q))'
    <2>1. RowsKept /\ UNCHANGED story
      BY <1>10, AbortFields
    <2> QED
      BY <2>1, <1>f DEF Exists
  <1>11. ASSUME NEW s \in Stories, Touch(s) PROVE (HasRow(v, q) => Exists(q))'
    <2>1. RowsKept
      BY <1>11, TouchFields
    <2>2. \A r \in Stories : Exists(r) => Exists(r)'
      BY <1>11, TouchFields DEF Exists
    <2> QED
      BY <2>1, <2>2, <1>f
  <1>12. ASSUME NEW s \in Stories, Age(s) PROVE (HasRow(v, q) => Exists(q))'
    <2>1. RowsKept
      BY <1>12, AgeFields
    <2>2. \A r \in Stories : Exists(r) => Exists(r)'
      BY <1>12, AgeFields DEF Exists
    <2> QED
      BY <2>1, <2>2, <1>f
  <1> QED
    BY <1>1, <1>2, <1>3, <1>4, <1>5, <1>6, <1>7, <1>8, <1>9, <1>10, <1>11, <1>12
       DEF Next, UserSteps, EditorSteps

LEMMA LookedStep ==
    ASSUME TypeOK, Saves, Looked, Next
    PROVE  Looked'
  <1> SUFFICES ASSUME NEW g \in Editors, NEW v \in Users
               PROVE  LookedFor(g, v)'
    BY DEF Looked
  <1>0. saving[g].story # None => saving[g].story \in Stories
    BY DEF TypeOK, SaveState
  <1>f. ASSUME saving'[g] = saving[g],
               \A q \in Stories : HasRow(v, q) => HasRow(v, q)'
        PROVE  LookedFor(g, v)'
    BY <1>f, <1>0 DEF Looked, LookedFor
  <1>1. ASSUME NEW u \in Users, Join(u) PROVE LookedFor(g, v)'
    <2>1. RowsKept /\ UNCHANGED saving
      BY <1>1, JoinFields
    <2> QED
      BY <2>1, <1>f DEF RowsKept
  <1>2. ASSUME NEW u \in Users, Query(u) PROVE LookedFor(g, v)'
    <2>1. RowsKept /\ UNCHANGED saving
      BY <1>2, QueryFields
    <2> QED
      BY <2>1, <1>f DEF RowsKept
  <1>3. ASSUME NEW u \in Users, AddRow(u) PROVE LookedFor(g, v)'
    <2>1. \E p \in Stories : Grow({u}, p) /\ UNCHANGED saving
      BY <1>3, AddRowGrows
    <2> QED
      BY <2>1, <1>f DEF Grow
  <1>4. ASSUME NEW u \in Users, GiveUp(u) PROVE LookedFor(g, v)'
    <2>1. RowsKept /\ UNCHANGED saving
      BY <1>4, GiveUpFields
    <2> QED
      BY <2>1, <1>f DEF RowsKept
  <1>5. ASSUME NEW u \in Users, Leave(u) PROVE LookedFor(g, v)'
    <2>1. RowsKept /\ UNCHANGED saving
      BY <1>5, LeaveFields
    <2> QED
      BY <2>1, <1>f DEF RowsKept
  <1>6. ASSUME NEW u \in Users,
               \/ \E r \in RowsOf(u, Types), type \in Types : UpdateType(u, r, type)
               \/ \E way \in Ways : SwitchRow(u, way)
               \/ \E way \in Ways : Switch(u, way)
        PROVE  LookedFor(g, v)'
    <2>1. RowsKept /\ UNCHANGED saving
      BY <1>6, ChangesKeepRows
    <2> QED
      BY <2>1, <1>f DEF RowsKept
  <1>7. ASSUME NEW e \in Editors, NEW s \in Stories, NEW kind \in Kinds, Save(e, s, kind)
        PROVE  LookedFor(g, v)'
    <2>1. /\ RowsKept
          /\ saving'[e].listed = saving'[e].todo
          /\ \A f \in Editors \ {e} : saving'[f] = saving[f]
      BY <1>7, SaveFields
    <2>2. CASE g = e
      BY <2>1, <2>2 DEF LookedFor
    <2>3. CASE g # e
      BY <2>1, <2>3, <1>f DEF RowsKept
    <2> QED
      BY <2>2, <2>3
  <1>8. ASSUME NEW e \in Editors, FirstOrCreate(e) PROVE LookedFor(g, v)'
    <2>1. PICK u \in saving[e].todo \cap Users :
              LET s == saving[e].story IN
              /\ s \in Stories
              /\ saving'[e].story = s
              /\ saving'[e].kind = saving[e].kind
              /\ saving'[e].listed = saving[e].listed
              /\ saving'[e].todo = saving[e].todo \ {u}
              /\ saving'[e].staged = IF HasRow(u, s) THEN saving[e].staged
                                     ELSE saving[e].staged \cup {u}
              /\ \A f \in Editors \ {e} : saving'[f] = saving[f]
              /\ overlapped' = IF SigningUp(u) \/ OthersSave(e, u)
                                 THEN overlapped \cup {<<u, s>>} ELSE overlapped
              /\ RowsKept
              /\ UNCHANGED <<story, user, note, signUp, missed>>
      BY <1>8, FirstOrCreateFields
    <2>2. CASE g = e /\ v = u
      BY <2>1, <2>2 DEF LookedFor, RowsKept
    <2>3. CASE g = e /\ v # u
      BY <2>1, <2>3 DEF Looked, LookedFor, RowsKept
    <2>4. CASE g # e
      BY <2>1, <2>4, <1>f DEF RowsKept
    <2> QED
      BY <2>2, <2>3, <2>4
  <1>9. ASSUME NEW e \in Editors, Commit(e) PROVE LookedFor(g, v)'
    <2>1. /\ Grow(saving[e].staged, saving[e].story)
          /\ saving'[e].story = None
          /\ \A f \in Editors \ {e} : saving'[f] = saving[f]
      BY <1>9, CommitGrows
    <2>2. CASE g = e
      BY <2>1, <2>2 DEF LookedFor
    <2>3. CASE g # e
      BY <2>1, <2>3, <1>f DEF Grow
    <2> QED
      BY <2>2, <2>3
  <1>10. ASSUME NEW e \in Editors, Abort(e) PROVE LookedFor(g, v)'
    <2>1. /\ RowsKept
          /\ saving'[e].story = None
          /\ \A f \in Editors \ {e} : saving'[f] = saving[f]
      BY <1>10, AbortFields
    <2>2. CASE g = e
      BY <2>1, <2>2 DEF LookedFor
    <2>3. CASE g # e
      BY <2>1, <2>3, <1>f DEF RowsKept
    <2> QED
      BY <2>2, <2>3
  <1>11. ASSUME NEW s \in Stories, Touch(s) PROVE LookedFor(g, v)'
    <2>1. RowsKept /\ UNCHANGED saving
      BY <1>11, TouchFields
    <2> QED
      BY <2>1, <1>f DEF RowsKept
  <1>12. ASSUME NEW s \in Stories, Age(s) PROVE LookedFor(g, v)'
    <2>1. RowsKept /\ UNCHANGED saving
      BY <1>12, AgeFields
    <2> QED
      BY <2>1, <1>f DEF RowsKept
  <1> QED
    BY <1>1, <1>2, <1>3, <1>4, <1>5, <1>6, <1>7, <1>8, <1>9, <1>10, <1>11, <1>12
       DEF Next, UserSteps, EditorSteps

LEMMA CoveredStep ==
    ASSUME TypeOK, SignUps, Saves, Looked, Covered, Next
    PROVE  Covered'
  <1> SUFFICES ASSUME NEW v \in Users, NEW q \in Stories
               PROVE  CoveredAt(v, q)'
    BY DEF Covered
  <1>s. /\ signUp[v].turn \in 0 .. 3
        /\ signUp[v].failed \in BOOLEAN
        /\ story[q] \in StoryState
    BY DEF TypeOK, SignUpState
  <1>f. ASSUME signUp'[v] = signUp[v],
               story'[q] = story[q],
               <<v, q>> \in missed => <<v, q>> \in missed',
               HasRow(v, q) => HasRow(v, q)'
        PROVE  CoveredAt(v, q)'
    BY <1>f DEF Covered, CoveredAt, Awaited, Exists
  <1>1. ASSUME NEW u \in Users, Join(u) PROVE CoveredAt(v, q)'
    <2>1. RowsKept /\ UNCHANGED <<story, signUp, missed>>
      BY <1>1, JoinFields
    <2> QED
      BY <2>1, <1>f DEF RowsKept
  <1>2. ASSUME NEW u \in Users, Query(u) PROVE CoveredAt(v, q)'
    <2>1. CASE u = v
      <3> DEFINE i == signUp[u].turn + 1
      <3>1. /\ i \in 1 .. 3
            /\ signUp'[u].turn = i
            /\ signUp'[u].todo = Found(i)
            /\ signUp'[u].failed = signUp[u].failed
            /\ signUp[u].todo = {}
            /\ RowsKept
            /\ UNCHANGED <<story, missed>>
        BY <1>2, QueryFields
      <3>2. q \in Found(i) <=> \/ i = 1 /\ story[q] = "fresh"
                               \/ i = 2 /\ story[q] = "old" /\ q \in KeyStories
                               \/ i = 3 /\ story[q] = "old" /\ q \notin KeyStories
        BY <3>1, FoundAre
      <3>3. CoveredAt(v, q)
        BY DEF Covered
      <3> HIDE DEF i
      <3>4. i = signUp[u].turn + 1
        BY DEF i
      <3>5. ASSUME ~signUp[v].failed, Exists(q), <<v, q>> \notin missed
            PROVE  HasRow(v, q) \/ q \in Found(i) \/ Awaited(v, q)'
        <4>1. CASE signUp[v].turn = 0
          BY <2>1, <3>1, <3>2, <3>4, <3>5, <4>1, <1>s
             DEF Exists, Awaited, StoryState
        <4>2. CASE signUp[v].turn # 0
          BY <2>1, <3>1, <3>2, <3>3, <3>4, <3>5, <4>2, <1>s
             DEF CoveredAt, Exists, Awaited, StoryState
        <4> QED
          BY <4>1, <4>2
      <3> QED
        BY <2>1, <3>1, <3>5 DEF CoveredAt, RowsKept, Exists
    <2>2. CASE u # v
      <3>1. RowsKept /\ UNCHANGED <<story, missed>> /\ signUp'[v] = signUp[v]
        BY <1>2, <2>2, QueryFields
      <3> QED
        BY <3>1, <1>f DEF RowsKept
    <2> QED
      BY <2>1, <2>2
  <1>3. ASSUME NEW u \in Users, AddRow(u) PROVE CoveredAt(v, q)'
    <2>1. PICK s \in signUp[u].todo \cap Stories :
              /\ Grow({u}, s)
              /\ \A w \in Users \ {u} : signUp'[w] = signUp[w]
              /\ signUp'[u].todo = signUp[u].todo \ {s}
              /\ signUp'[u].turn = signUp[u].turn
              /\ signUp'[u].failed = signUp[u].failed
              /\ UNCHANGED <<story, user, saving, missed, overlapped>>
      BY <1>3, AddRowGrows
    <2>2. CASE u = v
      <3>1. q \in signUp[v].todo => HasRow(v, q)' \/ q \in signUp'[v].todo
        BY <2>1, <2>2 DEF Grow
      <3>2. HasRow(v, q) => HasRow(v, q)'
        BY <2>1 DEF Grow
      <3> QED
        BY <2>1, <2>2, <3>1, <3>2 DEF Covered, CoveredAt, Awaited, Exists
    <2>3. CASE u # v
      BY <2>1, <2>3, <1>f DEF Grow
    <2> QED
      BY <2>2, <2>3
  <1>4. ASSUME NEW u \in Users, GiveUp(u) PROVE CoveredAt(v, q)'
    <2>1. CASE u = v
      BY <1>4, <2>1, GiveUpFields DEF CoveredAt
    <2>2. CASE u # v
      <3>1. RowsKept /\ UNCHANGED <<story, missed>> /\ signUp'[v] = signUp[v]
        BY <1>4, <2>2, GiveUpFields
      <3> QED
        BY <3>1, <1>f DEF RowsKept
    <2> QED
      BY <2>1, <2>2
  <1>5. ASSUME NEW u \in Users, Leave(u) PROVE CoveredAt(v, q)'
    <2>1. RowsKept /\ UNCHANGED <<story, signUp, missed>>
      BY <1>5, LeaveFields
    <2> QED
      BY <2>1, <1>f DEF RowsKept
  <1>6. ASSUME NEW u \in Users,
               \/ \E r \in RowsOf(u, Types), type \in Types : UpdateType(u, r, type)
               \/ \E way \in Ways : SwitchRow(u, way)
               \/ \E way \in Ways : Switch(u, way)
        PROVE  CoveredAt(v, q)'
    <2>1. RowsKept /\ UNCHANGED <<story, signUp, missed>>
      BY <1>6, ChangesKeepRows
    <2> QED
      BY <2>1, <1>f DEF RowsKept
  <1>7. ASSUME NEW e \in Editors, NEW s \in Stories, NEW kind \in Kinds, Save(e, s, kind)
        PROVE  CoveredAt(v, q)'
    <2>1. RowsKept /\ UNCHANGED <<story, signUp, missed>>
      BY <1>7, SaveFields
    <2> QED
      BY <2>1, <1>f DEF RowsKept
  <1>8. ASSUME NEW e \in Editors, FirstOrCreate(e) PROVE CoveredAt(v, q)'
    <2>1. RowsKept /\ UNCHANGED <<story, signUp, missed>>
      BY <1>8, FirstOrCreateFields
    <2> QED
      BY <2>1, <1>f DEF RowsKept
  <1>9. ASSUME NEW e \in Editors, Commit(e) PROVE CoveredAt(v, q)'
    <2> DEFINE s == saving[e].story
    <2>1. /\ Grow(saving[e].staged, s)
          /\ s \in Stories
          /\ saving[e].todo = {}
          /\ \A p \in Stories : story'[p] =
                IF p = s /\ saving[e].kind # "same" THEN "fresh" ELSE story[p]
          /\ missed' = (missed \cup IF saving[e].kind = "same" THEN {}
                                     ELSE PassedBy(e) \X {s})
                        \ (saving[e].listed \X {s})
          /\ UNCHANGED signUp
      BY <1>9, CommitGrows
    <2>2. CASE q # s
      <3>1. /\ story'[q] = story[q]
            /\ <<v, q>> \in missed => <<v, q>> \in missed'
            /\ HasRow(v, q) => HasRow(v, q)'
        BY <2>1, <2>2 DEF Grow
      <3> QED
        BY <2>1, <3>1, <1>f
    <2>3. CASE q = s /\ v \in saving[e].listed
      <3>1. v \in saving[e].staged \/ HasRow(v, q)
        BY <2>1, <2>3, NoneIsNoStory DEF Looked, LookedFor
      <3>2. HasRow(v, q)'
        BY <2>1, <2>3, <3>1 DEF Grow
      <3> QED
        BY <3>2 DEF CoveredAt
    <2>4. CASE q = s /\ v \notin saving[e].listed /\ saving[e].kind = "same"
      <3>1. /\ story'[q] = story[q]
            /\ <<v, q>> \in missed => <<v, q>> \in missed'
            /\ HasRow(v, q) => HasRow(v, q)'
        BY <2>1, <2>4 DEF Grow
      <3> QED
        BY <2>1, <3>1, <1>f
    <2>5. CASE q = s /\ v \notin saving[e].listed /\ saving[e].kind # "same"
      <3>1. signUp[v].turn # 0 => v \in PassedBy(e)
        BY <2>5, <1>s DEF PassedBy
      <3>2. signUp[v].turn # 0 => <<v, q>> \in missed'
        BY <2>1, <2>5, <3>1
      <3> QED
        BY <2>1, <3>2 DEF CoveredAt
    <2> QED
      BY <2>2, <2>3, <2>4, <2>5
  <1>10. ASSUME NEW e \in Editors, Abort(e) PROVE CoveredAt(v, q)'
    <2>1. RowsKept /\ UNCHANGED <<story, signUp, missed>>
      BY <1>10, AbortFields
    <2> QED
      BY <2>1, <1>f DEF RowsKept
  <1>11. ASSUME NEW s \in Stories, Touch(s) PROVE CoveredAt(v, q)'
    <2>1. /\ \A p \in Stories \ {s} : story'[p] = story[p]
          /\ Exists(s)
          /\ missed' = missed \cup {u \in Users : Between(u)} \X {s}
          /\ RowsKept
          /\ UNCHANGED signUp
      BY <1>11, TouchFields
    <2>2. CASE q # s
      BY <2>1, <2>2, <1>f DEF RowsKept
    <2>3. CASE q = s /\ Between(v)
      BY <2>1, <2>3 DEF CoveredAt
    <2>4. CASE q = s /\ ~Between(v)
      <3>1. signUp[v].turn # 0 /\ ~signUp[v].failed => signUp[v].turn = 3
        <4>1. signUp[v].turn # 0 => user[v] # "absent"
          BY DEF SignUps, SignUpOf
        <4>2. SigningUp(v) => signUp[v].turn \notin 1 .. 2
          BY <2>4 DEF Between
        <4>3. SigningUp(v) <=> Signing(v)
          BY SigningUpIs
        <4> QED
          BY <4>1, <4>2, <4>3, <1>s DEF Signing
      <3>2. signUp[v].turn = 3 => ~Awaited(v, q)
        BY DEF Awaited
      <3> QED
        BY <2>1, <2>4, <3>1, <3>2 DEF Covered, CoveredAt, RowsKept
    <2> QED
      BY <2>2, <2>3, <2>4
  <1>12. ASSUME NEW s \in Stories, Age(s) PROVE CoveredAt(v, q)'
    <2>1. /\ story[s] = "fresh"
          /\ \A p \in Stories \ {s} : story'[p] = story[p]
          /\ RowsKept
          /\ UNCHANGED <<signUp, missed>>
      BY <1>12, AgeFields
    <2>2. CASE q # s
      BY <2>1, <2>2, <1>f DEF RowsKept
    <2>3. CASE q = s
      <3>1. ~Awaited(v, q) /\ Exists(q)
        BY <2>1, <2>3 DEF Awaited, Exists
      <3> QED
        BY <2>1, <3>1 DEF Covered, CoveredAt, RowsKept
    <2> QED
      BY <2>2, <2>3
  <1> QED
    BY <1>1, <1>2, <1>3, <1>4, <1>5, <1>6, <1>7, <1>8, <1>9, <1>10, <1>11, <1>12
       DEF Next, UserSteps, EditorSteps

LEMMA OnceStep ==
    ASSUME TypeOK, TypeOK', SignUps, Saves, Once, OnceSaved, Next
    PROVE  Once'
  <1> SUFFICES ASSUME NEW v \in Users, NEW q \in Stories
               PROVE  OnceAt(v, q)'
    BY DEF Once
  <1>s. /\ signUp[v].turn \in 0 .. 3
        /\ SigningUp(v) <=> Signing(v)
        /\ SigningUp(v)' <=> Signing(v)'
    BY SigningUpIs, SigningUpIsNext DEF TypeOK, SignUpState
  <1>f. ASSUME SigningUp(v)' => SigningUp(v),
               signUp'[v] = signUp[v],
               story'[q] = "fresh" \/ story'[q] = story[q],
               <<v, q>> \in overlapped => <<v, q>> \in overlapped',
               HasRow(v, q)' <=> HasRow(v, q)
        PROVE  OnceAt(v, q)'
    BY <1>f DEF Once, OnceAt, FoundBefore
  <1>1. ASSUME NEW u \in Users, Join(u) PROVE OnceAt(v, q)'
    <2>1. CASE u = v
      <3>1. user[v] = "absent" /\ RowsKept /\ UNCHANGED signUp
        BY <1>1, <2>1, JoinFields
      <3>2. ~SigningUp(v)
        BY <3>1 DEF SigningUp
      <3>3. signUp[v].todo = {} /\ ~HasRow(v, q)
        BY <3>1, <3>2 DEF SignUps, SignUpOf
      <3> QED
        BY <3>1, <3>3 DEF OnceAt, RowsKept
    <2>2. CASE u # v
      <3>1. /\ RowsKept
            /\ UNCHANGED <<story, overlapped>>
            /\ user'[v] = user[v]
            /\ signUp'[v] = signUp[v]
        BY <1>1, <2>2, JoinFields
      <3> QED
        BY <3>1, <1>f, <1>s DEF RowsKept, Signing
    <2> QED
      BY <2>1, <2>2
  <1>2. ASSUME NEW u \in Users, Query(u) PROVE OnceAt(v, q)'
    <2>1. CASE u = v
      <3> DEFINE i == signUp[u].turn + 1
      <3>1. /\ i \in 1 .. 3
            /\ signUp'[u].turn = i
            /\ signUp'[u].todo = Found(i)
            /\ SigningUp(u)
            /\ RowsKept
            /\ UNCHANGED <<story, overlapped>>
        BY <1>2, QueryFields
      <3>2. q \in Found(i) <=> \/ i = 1 /\ story[q] = "fresh"
                               \/ i = 2 /\ story[q] = "old" /\ q \in KeyStories
                               \/ i = 3 /\ story[q] = "old" /\ q \notin KeyStories
        BY <3>1, FoundAre
      <3>3. OnceAt(v, q)
        BY DEF Once
      <3> HIDE DEF i
      <3>4. i = signUp[u].turn + 1
        BY DEF i
      <3>5. ASSUME <<v, q>> \notin overlapped
            PROVE  /\ HasRow(v, q) => FoundBefore(v, q)'
                   /\ q \in Found(i) => FoundBefore(v, q)'
                   /\ q \in Found(i) => ~HasRow(v, q)
        BY <2>1, <3>1, <3>2, <3>3, <3>4, <3>5, <1>s DEF OnceAt, FoundBefore
      <3> QED
        BY <2>1, <3>1, <3>5 DEF OnceAt, RowsKept
    <2>2. CASE u # v
      <3>1. /\ RowsKept
            /\ UNCHANGED <<story, overlapped>>
            /\ user'[v] = user[v]
            /\ signUp'[v] = signUp[v]
        BY <1>2, <2>2, QueryFields
      <3> QED
        BY <3>1, <1>f, <1>s DEF RowsKept, Signing
    <2> QED
      BY <2>1, <2>2
  <1>3. ASSUME NEW u \in Users, AddRow(u) PROVE OnceAt(v, q)'
    <2>1. PICK s \in signUp[u].todo \cap Stories :
              /\ Grow({u}, s)
              /\ \A w \in Users \ {u} : signUp'[w] = signUp[w]
              /\ signUp'[u].todo = signUp[u].todo \ {s}
              /\ signUp'[u].turn = signUp[u].turn
              /\ signUp'[u].failed = signUp[u].failed
              /\ UNCHANGED <<story, user, saving, missed, overlapped>>
      BY <1>3, AddRowGrows
    <2>2. CASE u = v
      <3>1. OnceAt(v, q) /\ SigningUp(v)
        BY <1>3, <2>2 DEF Once, AddRow
      <3>2. FoundBefore(v, q)' <=> FoundBefore(v, q)
        BY <2>1, <2>2 DEF FoundBefore
      <3>3. CASE q = s
        BY <2>1, <2>2, <3>1, <3>2, <3>3 DEF OnceAt
      <3>4. CASE q # s
        BY <2>1, <2>2, <3>1, <3>2, <3>4 DEF OnceAt, Grow
      <3> QED
        BY <3>3, <3>4
    <2>3. CASE u # v
      <3>1. HasRow(v, q)' <=> HasRow(v, q)
        BY <2>1, <2>3 DEF Grow
      <3> QED
        BY <2>1, <2>3, <3>1, <1>f, <1>s DEF Signing
    <2> QED
      BY <2>2, <2>3
  <1>4. ASSUME NEW u \in Users, GiveUp(u) PROVE OnceAt(v, q)'
    <2>1. CASE u = v
      <3>1. signUp'[v].failed = TRUE
        BY <1>4, <2>1, GiveUpFields
      <3> QED
        BY <3>1, <1>s DEF OnceAt, Signing
    <2>2. CASE u # v
      <3>1. /\ RowsKept
            /\ UNCHANGED <<story, overlapped>>
            /\ user'[v] = user[v]
            /\ signUp'[v] = signUp[v]
        BY <1>4, <2>2, GiveUpFields
      <3> QED
        BY <3>1, <1>f, <1>s DEF RowsKept, Signing
    <2> QED
      BY <2>1, <2>2
  <1>5. ASSUME NEW u \in Users, Leave(u) PROVE OnceAt(v, q)'
    <2>1. CASE u = v
      <3>1. user[v] # "absent" /\ RowsKept /\ UNCHANGED <<story, signUp, overlapped>>
        BY <1>5, <2>1, LeaveFields
      <3>2. SigningUp(v)' => SigningUp(v)
        BY <3>1, <1>s DEF Signing
      <3> QED
        BY <3>1, <3>2, <1>f DEF RowsKept
    <2>2. CASE u # v
      <3>1. /\ RowsKept
            /\ UNCHANGED <<story, overlapped>>
            /\ user'[v] = user[v]
            /\ signUp'[v] = signUp[v]
        BY <1>5, <2>2, LeaveFields
      <3> QED
        BY <3>1, <1>f, <1>s DEF RowsKept, Signing
    <2> QED
      BY <2>1, <2>2
  <1>6. ASSUME NEW u \in Users,
               \/ \E r \in RowsOf(u, Types), type \in Types : UpdateType(u, r, type)
               \/ \E way \in Ways : SwitchRow(u, way)
               \/ \E way \in Ways : Switch(u, way)
        PROVE  OnceAt(v, q)'
    <2>1. RowsKept /\ UNCHANGED <<story, user, signUp>>
      BY <1>6, ChangesKeepRows
    <2>2. <<v, q>> \in overlapped => <<v, q>> \in overlapped'
      BY <1>6, ChangesKeepRows
    <2> QED
      BY <2>1, <2>2, <1>f, <1>s DEF RowsKept, Signing
  <1>7. ASSUME NEW e \in Editors, NEW s \in Stories, NEW kind \in Kinds, Save(e, s, kind)
        PROVE  OnceAt(v, q)'
    <2>1. RowsKept /\ UNCHANGED <<story, user, signUp>>
      BY <1>7, SaveFields
    <2>2. <<v, q>> \in overlapped => <<v, q>> \in overlapped'
      BY <1>7, SaveFields
    <2> QED
      BY <2>1, <2>2, <1>f, <1>s DEF RowsKept, Signing
  <1>8. ASSUME NEW e \in Editors, FirstOrCreate(e) PROVE OnceAt(v, q)'
    <2>1. RowsKept /\ UNCHANGED <<story, user, signUp>>
      BY <1>8, FirstOrCreateFields
    <2>2. <<v, q>> \in overlapped => <<v, q>> \in overlapped'
      BY <1>8, FirstOrCreateFields
    <2> QED
      BY <2>1, <2>2, <1>f, <1>s DEF RowsKept, Signing
  <1>9. ASSUME NEW e \in Editors, Commit(e) PROVE OnceAt(v, q)'
    <2> DEFINE s == saving[e].story
    <2>1. /\ Grow(saving[e].staged, s)
          /\ story'[q] = "fresh" \/ story'[q] = story[q]
          /\ UNCHANGED <<user, signUp, overlapped>>
      BY <1>9, CommitGrows
    <2>2. SigningUp(v)' <=> SigningUp(v)
      BY <2>1, <1>s DEF Signing
    <2>3. CASE q = s /\ v \in saving[e].staged
      <3>1. <<v, q>> \notin overlapped => ~SigningUp(v)
        BY <2>3 DEF OnceSaved, OnceSavedBy
      <3> QED
        BY <2>1, <2>2, <3>1 DEF OnceAt
    <2>4. CASE ~(q = s /\ v \in saving[e].staged)
      <3>1. HasRow(v, q)' <=> HasRow(v, q)
        BY <2>1, <2>4 DEF Grow
      <3> QED
        BY <2>1, <2>2, <3>1, <1>f
    <2> QED
      BY <2>3, <2>4
  <1>10. ASSUME NEW e \in Editors, Abort(e) PROVE OnceAt(v, q)'
    <2>1. RowsKept /\ UNCHANGED <<story, user, signUp>>
      BY <1>10, AbortFields
    <2>2. <<v, q>> \in overlapped => <<v, q>> \in overlapped'
      BY <1>10, AbortFields
    <2> QED
      BY <2>1, <2>2, <1>f, <1>s DEF RowsKept, Signing
  <1>11. ASSUME NEW s \in Stories, Touch(s) PROVE OnceAt(v, q)'
    <2>1. /\ story'[q] = "fresh" \/ story'[q] = story[q]
          /\ RowsKept
          /\ UNCHANGED <<user, signUp, overlapped>>
      BY <1>11, TouchFields
    <2> QED
      BY <2>1, <1>f, <1>s DEF RowsKept, Signing
  <1>12. ASSUME NEW s \in Stories, Age(s) PROVE OnceAt(v, q)'
    <2>1. /\ \A p \in Stories \ {s} : story'[p] = story[p]
          /\ overlapped' = overlapped \cup {u \in Users : Between(u)} \X {s}
          /\ RowsKept
          /\ UNCHANGED <<user, signUp>>
      BY <1>12, AgeFields
    <2>2. SigningUp(v)' <=> SigningUp(v)
      BY <2>1, <1>s DEF Signing
    <2>3. CASE q # s
      BY <2>1, <2>2, <2>3, <1>f DEF RowsKept
    <2>4. CASE q = s /\ Between(v)
      BY <2>1, <2>4 DEF OnceAt
    <2>5. CASE q = s /\ ~Between(v)
      <3>1. SigningUp(v) => signUp[v].turn = 0 \/ signUp[v].turn = 3
        BY <2>5, <1>s DEF Between
      <3> QED
        BY <2>1, <2>2, <3>1 DEF Once, OnceAt, FoundBefore, RowsKept
    <2> QED
      BY <2>3, <2>4, <2>5
  <1> QED
    BY <1>1, <1>2, <1>3, <1>4, <1>5, <1>6, <1>7, <1>8, <1>9, <1>10, <1>11, <1>12
       DEF Next, UserSteps, EditorSteps

LEMMA OnceSavedStep ==
    ASSUME TypeOK, TypeOK', Saves, OnceSaved, Next
    PROVE  OnceSaved'
  <1> SUFFICES ASSUME NEW g \in Editors, NEW v \in Users
               PROVE  OnceSavedBy(g, v)'
    BY DEF OnceSaved
  <1>s. /\ SigningUp(v) <=> Signing(v)
        /\ SigningUp(v)' <=> Signing(v)'
        /\ v \in saving[g].staged => saving[g].story \in Stories
    <2>1. v \in saving[g].staged => saving[g].story # None
      BY DEF Saves, SaveOf, NoSave
    <2> QED
      BY <2>1, SigningUpIs, SigningUpIsNext DEF TypeOK, SaveState
  <1>f. ASSUME \/ SigningUp(v)' => SigningUp(v)
               \/ v \notin saving[g].staged,
               UNCHANGED saving,
               \A q \in Stories : <<v, q>> \in overlapped => <<v, q>> \in overlapped',
               \A q \in Stories : ~SigningUp(v) => (HasRow(v, q)' <=> HasRow(v, q))
        PROVE  OnceSavedBy(g, v)'
    BY <1>f, <1>s DEF OnceSaved, OnceSavedBy
  <1>1. ASSUME NEW u \in Users, Join(u) PROVE OnceSavedBy(g, v)'
    <2>1. CASE u = v
      <3>1. user[v] = "absent" /\ RowsKept /\ UNCHANGED <<saving, overlapped>>
        BY <1>1, <2>1, JoinFields
      <3>2. v \notin saving[g].staged
        BY <3>1 DEF Saves, SaveOf
      <3> QED
        BY <3>1, <3>2, <1>f DEF RowsKept
    <2>2. CASE u # v
      <3>1. /\ RowsKept
            /\ UNCHANGED <<saving, overlapped>>
            /\ user'[v] = user[v]
            /\ signUp'[v] = signUp[v]
        BY <1>1, <2>2, JoinFields
      <3> QED
        BY <3>1, <1>f, <1>s DEF RowsKept, Signing
    <2> QED
      BY <2>1, <2>2
  <1>2. ASSUME NEW u \in Users, Query(u) PROVE OnceSavedBy(g, v)'
    <2>1. CASE u = v
      <3>1. SigningUp(v) /\ RowsKept /\ UNCHANGED <<user, saving, overlapped>>
        BY <1>2, <2>1, QueryFields
      <3> QED
        BY <3>1, <1>f DEF RowsKept
    <2>2. CASE u # v
      <3>1. /\ RowsKept
            /\ UNCHANGED <<saving, overlapped>>
            /\ user'[v] = user[v]
            /\ signUp'[v] = signUp[v]
        BY <1>2, <2>2, QueryFields
      <3> QED
        BY <3>1, <1>f, <1>s DEF RowsKept, Signing
    <2> QED
      BY <2>1, <2>2
  <1>3. ASSUME NEW u \in Users, AddRow(u) PROVE OnceSavedBy(g, v)'
    <2>1. PICK s \in signUp[u].todo \cap Stories :
              /\ Grow({u}, s)
              /\ \A w \in Users \ {u} : signUp'[w] = signUp[w]
              /\ signUp'[u].todo = signUp[u].todo \ {s}
              /\ signUp'[u].turn = signUp[u].turn
              /\ signUp'[u].failed = signUp[u].failed
              /\ UNCHANGED <<story, user, saving, missed, overlapped>>
      BY <1>3, AddRowGrows
    <2>2. CASE u = v
      <3>1. SigningUp(v)
        BY <1>3, <2>2 DEF AddRow
      <3> QED
        BY <2>1, <3>1, <1>f
    <2>3. CASE u # v
      <3>1. \A q \in Stories : HasRow(v, q)' <=> HasRow(v, q)
        BY <2>1, <2>3 DEF Grow
      <3> QED
        BY <2>1, <2>3, <3>1, <1>f, <1>s DEF Signing
    <2> QED
      BY <2>2, <2>3
  <1>4. ASSUME NEW u \in Users, GiveUp(u) PROVE OnceSavedBy(g, v)'
    <2>1. CASE u = v
      <3>1. SigningUp(v) /\ RowsKept /\ UNCHANGED <<user, saving, overlapped>>
        BY <1>4, <2>1, GiveUpFields
      <3> QED
        BY <3>1, <1>f DEF RowsKept
    <2>2. CASE u # v
      <3>1. /\ RowsKept
            /\ UNCHANGED <<saving, overlapped>>
            /\ user'[v] = user[v]
            /\ signUp'[v] = signUp[v]
        BY <1>4, <2>2, GiveUpFields
      <3> QED
        BY <3>1, <1>f, <1>s DEF RowsKept, Signing
    <2> QED
      BY <2>1, <2>2
  <1>5. ASSUME NEW u \in Users, Leave(u) PROVE OnceSavedBy(g, v)'
    <2>1. CASE u = v
      <3>1. user[v] # "absent" /\ RowsKept /\ UNCHANGED <<signUp, saving, overlapped>>
        BY <1>5, <2>1, LeaveFields
      <3> QED
        BY <3>1, <1>f, <1>s DEF RowsKept, Signing
    <2>2. CASE u # v
      <3>1. /\ RowsKept
            /\ UNCHANGED <<saving, overlapped>>
            /\ user'[v] = user[v]
            /\ signUp'[v] = signUp[v]
        BY <1>5, <2>2, LeaveFields
      <3> QED
        BY <3>1, <1>f, <1>s DEF RowsKept, Signing
    <2> QED
      BY <2>1, <2>2
  <1>6. ASSUME NEW u \in Users,
               \/ \E r \in RowsOf(u, Types), type \in Types : UpdateType(u, r, type)
               \/ \E way \in Ways : SwitchRow(u, way)
               \/ \E way \in Ways : Switch(u, way)
        PROVE  OnceSavedBy(g, v)'
    <2>1. RowsKept /\ UNCHANGED <<user, signUp, saving>>
      BY <1>6, ChangesKeepRows
    <2>2. \A q \in Stories : <<v, q>> \in overlapped => <<v, q>> \in overlapped'
      BY <1>6, ChangesKeepRows
    <2> QED
      BY <2>1, <2>2, <1>f, <1>s DEF RowsKept, Signing
  <1>7. ASSUME NEW e \in Editors, NEW s \in Stories, NEW kind \in Kinds, Save(e, s, kind)
        PROVE  OnceSavedBy(g, v)'
    <2>1. /\ saving'[e].staged = {}
          /\ \A f \in Editors \ {e} : saving'[f] = saving[f]
          /\ RowsKept
          /\ UNCHANGED <<user, signUp, overlapped>>
      BY <1>7, SaveFields
    <2>2. SigningUp(v)' <=> SigningUp(v)
      BY <2>1, <1>s DEF Signing
    <2>3. CASE g = e
      BY <2>1, <2>3 DEF OnceSavedBy
    <2>4. CASE g # e
      <3>1. \A f \in Editors \ {g} :
                saving'[f].story = saving'[g].story /\ v \in saving'[f].staged
                    => saving[f].story = saving[g].story /\ v \in saving[f].staged
        BY <2>1, <2>4
      <3> QED
        BY <2>1, <2>2, <2>4, <3>1, <1>s DEF OnceSaved, OnceSavedBy, RowsKept
    <2> QED
      BY <2>3, <2>4
  <1>8. ASSUME NEW e \in Editors, FirstOrCreate(e) PROVE OnceSavedBy(g, v)'
    <2>1. PICK u \in saving[e].todo \cap Users :
              LET s == saving[e].story IN
              /\ s \in Stories
              /\ saving'[e].story = s
              /\ saving'[e].kind = saving[e].kind
              /\ saving'[e].listed = saving[e].listed
              /\ saving'[e].todo = saving[e].todo \ {u}
              /\ saving'[e].staged = IF HasRow(u, s) THEN saving[e].staged
                                     ELSE saving[e].staged \cup {u}
              /\ \A f \in Editors \ {e} : saving'[f] = saving[f]
              /\ overlapped' = IF SigningUp(u) \/ OthersSave(e, u)
                                 THEN overlapped \cup {<<u, s>>} ELSE overlapped
              /\ RowsKept
              /\ UNCHANGED <<story, user, note, signUp, missed>>
      BY <1>8, FirstOrCreateFields
    <2> DEFINE s == saving[e].story
    <2>2. SigningUp(v)' <=> SigningUp(v)
      BY <2>1, <1>s DEF Signing
    <2>3. overlapped \subseteq overlapped'
      BY <2>1
    <2>4. /\ \A f \in Editors : /\ saving'[f].story = saving[f].story
                                /\ v # u => saving'[f].staged \cap {v} = saving[f].staged \cap {v}
                                /\ f # e => saving'[f].staged = saving[f].staged
      BY <2>1
    <2>5. CASE v # u
      BY <2>1, <2>2, <2>3, <2>4, <2>5, <1>s DEF OnceSaved, OnceSavedBy, RowsKept
    <2>6. CASE v = u /\ <<u, s>> \in overlapped'
      <3>1. saving[g].story = s => OnceSavedBy(g, v)'
        BY <2>4, <2>6 DEF OnceSavedBy
      <3>2. CASE saving[g].story # s
        <4>1. g # e
          BY <3>2
        <4> QED
          BY <2>1, <2>2, <2>3, <2>4, <3>2, <4>1, <1>s
             DEF OnceSaved, OnceSavedBy, RowsKept
      <3> QED
        BY <3>1, <3>2
    <2>7. CASE v = u /\ <<u, s>> \notin overlapped'
      <3>1. ~SigningUp(u) /\ ~OthersSave(e, u)
        BY <2>1, <2>7
      <3>2. \A f \in Editors \ {e} : saving[f].story = s => u \notin saving[f].staged
        BY <3>1 DEF OthersSave, Saves, SaveOf
      <3>3. CASE g = e
        <4>1. u \in saving'[e].staged => ~HasRow(u, s)
          <5>1. CASE HasRow(u, s)
            BY <2>1, <2>3, <2>7, <3>3, <5>1 DEF OnceSaved, OnceSavedBy
          <5> QED
            BY <5>1
        <4> QED
          BY <2>1, <2>2, <2>4, <2>7, <3>1, <3>2, <3>3, <4>1
             DEF OnceSavedBy, RowsKept
      <3>4. CASE g # e /\ saving[g].story = s
        BY <2>4, <2>7, <3>2, <3>4 DEF OnceSavedBy
      <3>5. CASE g # e /\ saving[g].story # s
        BY <2>1, <2>2, <2>3, <2>4, <3>5, <1>s
           DEF OnceSaved, OnceSavedBy, RowsKept
      <3> QED
        BY <3>3, <3>4, <3>5
    <2> QED
      BY <2>5, <2>6, <2>7
  <1>9. ASSUME NEW e \in Editors, Commit(e) PROVE OnceSavedBy(g, v)'
    <2>1. /\ saving'[e] = NoSave
          /\ \A f \in Editors \ {e} : saving'[f] = saving[f]
          /\ Grow(saving[e].staged, saving[e].story)
          /\ UNCHANGED <<user, signUp, overlapped>>
      BY <1>9, CommitGrows
    <2>0. saving'[e].staged = {}
      BY <2>1 DEF NoSave
    <2>2. SigningUp(v)' <=> SigningUp(v)
      BY <2>1, <1>s DEF Signing
    <2>3. CASE g = e
      BY <2>0, <2>3 DEF OnceSavedBy
    <2>4. CASE g # e
      <3>1. \A f \in Editors \ {g} :
                saving'[f].story = saving'[g].story /\ v \in saving'[f].staged
                    => saving[f].story = saving[g].story /\ v \in saving[f].staged
        BY <2>0, <2>1, <2>4
      <3>2. ASSUME v \in saving[g].staged, <<v, saving[g].story>> \notin overlapped
            PROVE  HasRow(v, saving[g].story)' <=> HasRow(v, saving[g].story)
        <4>1. ~(v \in saving[e].staged /\ saving[g].story = saving[e].story)
          BY <2>4, <3>2 DEF OnceSaved, OnceSavedBy
        <4> QED
          BY <2>1, <3>2, <4>1, <1>s DEF Grow
      <3> QED
        BY <2>1, <2>2, <2>4, <3>1, <3>2, <1>s DEF OnceSaved, OnceSavedBy
    <2> QED
      BY <2>3, <2>4
  <1>10. ASSUME NEW e \in Editors, Abort(e) PROVE OnceSavedBy(g, v)'
    <2>1. /\ saving'[e].staged = {}
          /\ \A f \in Editors \ {e} : saving'[f] = saving[f]
          /\ RowsKept
          /\ UNCHANGED <<user, signUp, overlapped>>
      BY <1>10, AbortFields DEF NoSave
    <2>2. SigningUp(v)' <=> SigningUp(v)
      BY <2>1, <1>s DEF Signing
    <2>3. CASE g = e
      BY <2>1, <2>3 DEF OnceSavedBy
    <2>4. CASE g # e
      <3>1. \A f \in Editors \ {g} :
                saving'[f].story = saving'[g].story /\ v \in saving'[f].staged
                    => saving[f].story = saving[g].story /\ v \in saving[f].staged
        BY <2>1, <2>4
      <3> QED
        BY <2>1, <2>2, <2>4, <3>1, <1>s DEF OnceSaved, OnceSavedBy, RowsKept
    <2> QED
      BY <2>3, <2>4
  <1>11. ASSUME NEW s \in Stories, Touch(s) PROVE OnceSavedBy(g, v)'
    <2>1. RowsKept /\ UNCHANGED <<user, signUp, saving>>
      BY <1>11, TouchFields
    <2>2. \A q \in Stories : <<v, q>> \in overlapped => <<v, q>> \in overlapped'
      BY <1>11, TouchFields
    <2> QED
      BY <2>1, <2>2, <1>f, <1>s DEF RowsKept, Signing
  <1>12. ASSUME NEW s \in Stories, Age(s) PROVE OnceSavedBy(g, v)'
    <2>1. RowsKept /\ UNCHANGED <<user, signUp, saving>>
      BY <1>12, AgeFields
    <2>2. \A q \in Stories : <<v, q>> \in overlapped => <<v, q>> \in overlapped'
      BY <1>12, AgeFields
    <2> QED
      BY <2>1, <2>2, <1>f, <1>s DEF RowsKept, Signing
  <1> QED
    BY <1>1, <1>2, <1>3, <1>4, <1>5, <1>6, <1>7, <1>8, <1>9, <1>10, <1>11, <1>12
       DEF Next, UserSteps, EditorSteps

LEMMA DuplicatesStep ==
    ASSUME TypeOK, TypeOK', Saves, Once, OnceSaved, DuplicatesNeedOverlap, Next
    PROVE  DuplicatesNeedOverlap'
  <1> SUFFICES ASSUME NEW v \in Users, NEW q \in Stories
               PROVE  Single(v, q)'
    BY DEF DuplicatesNeedOverlap, Single
  <1>f. ASSUME Len(note'[v][q]) = Len(note[v][q]),
               <<v, q>> \in overlapped => <<v, q>> \in overlapped'
        PROVE  Single(v, q)'
    BY <1>f DEF DuplicatesNeedOverlap, Single
  <1>1. ASSUME NEW u \in Users, Join(u) PROVE Single(v, q)'
    <2>1. UNCHANGED note
      BY <1>1, JoinFields
    <2>2. <<v, q>> \in overlapped => <<v, q>> \in overlapped'
      BY <1>1, JoinFields
    <2> QED
      BY <2>1, <2>2, <1>f
  <1>2. ASSUME NEW u \in Users, Query(u) PROVE Single(v, q)'
    <2>1. UNCHANGED note
      BY <1>2, QueryFields
    <2>2. <<v, q>> \in overlapped => <<v, q>> \in overlapped'
      BY <1>2, QueryFields
    <2> QED
      BY <2>1, <2>2, <1>f
  <1>3. ASSUME NEW u \in Users, AddRow(u) PROVE Single(v, q)'
    <2>1. PICK s \in signUp[u].todo \cap Stories :
              /\ Grow({u}, s)
              /\ \A w \in Users \ {u} : signUp'[w] = signUp[w]
              /\ signUp'[u].todo = signUp[u].todo \ {s}
              /\ signUp'[u].turn = signUp[u].turn
              /\ signUp'[u].failed = signUp[u].failed
              /\ UNCHANGED <<story, user, saving, missed, overlapped>>
      BY <1>3, AddRowGrows
    <2>2. CASE v = u /\ q = s
      <3>1. SigningUp(u)
        BY <1>3 DEF AddRow
      <3>2. <<v, q>> \notin overlapped => ~HasRow(v, q)
        BY <2>1, <2>2, <3>1 DEF Once, OnceAt
      <3>3. ~HasRow(v, q) => Len(note'[v][q]) = 1
        BY <2>1, <2>2 DEF Grow
      <3>4. UNCHANGED overlapped
        BY <2>1
      <3>5. <<v, q>> \notin overlapped => Len(note'[v][q]) = 1
        BY <3>2, <3>3
      <3>6. CASE <<v, q>> \in overlapped
        BY <3>4, <3>6 DEF Single
      <3>7. CASE <<v, q>> \notin overlapped
        <4>1. Len(note'[v][q]) = 1
          BY <3>5, <3>7
        <4>2. ~(Len(note'[v][q]) > 1)
          BY <4>1
        <4> QED
          BY <4>2 DEF Single
      <3> QED
        BY <3>6, <3>7
    <2>3. CASE ~(v = u /\ q = s)
      BY <2>1, <2>3, <1>f DEF Grow
    <2> QED
      BY <2>2, <2>3
  <1>4. ASSUME NEW u \in Users, GiveUp(u) PROVE Single(v, q)'
    <2>1. UNCHANGED note
      BY <1>4, GiveUpFields
    <2>2. <<v, q>> \in overlapped => <<v, q>> \in overlapped'
      BY <1>4, GiveUpFields
    <2> QED
      BY <2>1, <2>2, <1>f
  <1>5. ASSUME NEW u \in Users, Leave(u) PROVE Single(v, q)'
    <2>1. UNCHANGED note
      BY <1>5, LeaveFields
    <2>2. <<v, q>> \in overlapped => <<v, q>> \in overlapped'
      BY <1>5, LeaveFields
    <2> QED
      BY <2>1, <2>2, <1>f
  <1>6. ASSUME NEW u \in Users,
               \/ \E r \in RowsOf(u, Types), type \in Types : UpdateType(u, r, type)
               \/ \E way \in Ways : SwitchRow(u, way)
               \/ \E way \in Ways : Switch(u, way)
        PROVE  Single(v, q)'
    BY <1>6, ChangesKeepRows, <1>f
  <1>7. ASSUME NEW e \in Editors, NEW s \in Stories, NEW kind \in Kinds, Save(e, s, kind)
        PROVE  Single(v, q)'
    <2>1. UNCHANGED note
      BY <1>7, SaveFields
    <2>2. <<v, q>> \in overlapped => <<v, q>> \in overlapped'
      BY <1>7, SaveFields
    <2> QED
      BY <2>1, <2>2, <1>f
  <1>8. ASSUME NEW e \in Editors, FirstOrCreate(e) PROVE Single(v, q)'
    <2>1. UNCHANGED note
      BY <1>8, FirstOrCreateFields
    <2>2. <<v, q>> \in overlapped => <<v, q>> \in overlapped'
      BY <1>8, FirstOrCreateFields
    <2> QED
      BY <2>1, <2>2, <1>f
  <1>9. ASSUME NEW e \in Editors, Commit(e) PROVE Single(v, q)'
    <2>1. /\ Grow(saving[e].staged, saving[e].story)
          /\ UNCHANGED overlapped
      BY <1>9, CommitGrows
    <2>2. CASE v \in saving[e].staged /\ q = saving[e].story
      <3>1. <<v, q>> \notin overlapped => ~HasRow(v, q)
        BY <2>2 DEF OnceSaved, OnceSavedBy
      <3>2. ~HasRow(v, q) => Len(note'[v][q]) = 1
        BY <2>1, <2>2 DEF Grow
      <3>3. UNCHANGED overlapped
        BY <2>1
      <3>4. <<v, q>> \notin overlapped => Len(note'[v][q]) = 1
        BY <3>1, <3>2
      <3>5. CASE <<v, q>> \in overlapped
        BY <3>3, <3>5 DEF Single
      <3>6. CASE <<v, q>> \notin overlapped
        <4>1. Len(note'[v][q]) = 1
          BY <3>4, <3>6
        <4>2. ~(Len(note'[v][q]) > 1)
          BY <4>1
        <4> QED
          BY <4>2 DEF Single
      <3> QED
        BY <3>5, <3>6
    <2>3. CASE ~(v \in saving[e].staged /\ q = saving[e].story)
      BY <2>1, <2>3, <1>f DEF Grow
    <2> QED
      BY <2>2, <2>3
  <1>10. ASSUME NEW e \in Editors, Abort(e) PROVE Single(v, q)'
    <2>1. UNCHANGED note
      BY <1>10, AbortFields
    <2>2. <<v, q>> \in overlapped => <<v, q>> \in overlapped'
      BY <1>10, AbortFields
    <2> QED
      BY <2>1, <2>2, <1>f
  <1>11. ASSUME NEW s \in Stories, Touch(s) PROVE Single(v, q)'
    <2>1. UNCHANGED note
      BY <1>11, TouchFields
    <2>2. <<v, q>> \in overlapped => <<v, q>> \in overlapped'
      BY <1>11, TouchFields
    <2> QED
      BY <2>1, <2>2, <1>f
  <1>12. ASSUME NEW s \in Stories, Age(s) PROVE Single(v, q)'
    <2>1. UNCHANGED note
      BY <1>12, AgeFields
    <2>2. <<v, q>> \in overlapped => <<v, q>> \in overlapped'
      BY <1>12, AgeFields
    <2> QED
      BY <2>1, <2>2, <1>f
  <1> QED
    BY <1>1, <1>2, <1>3, <1>4, <1>5, <1>6, <1>7, <1>8, <1>9, <1>10, <1>11, <1>12
       DEF Next, UserSteps, EditorSteps

LEMMA HeededStep ==
    ASSUME TypeOK, Saves, AllHeeded, Next
    PROVE  AllHeeded'
  <1> SUFFICES ASSUME NEW v \in Users
               PROVE  Heeded(v)'
    BY DEF AllHeeded
  <1>f. ASSUME UNCHANGED <<note, switching, quiet>>
        PROVE  Heeded(v)'
    <2>1. RowsOf(v, {AtOnce})' = RowsOf(v, {AtOnce})
      BY <1>f, HearingFrame
    <2> QED
      BY <1>f, <2>1 DEF AllHeeded, Heeded
  <1>1. ASSUME NEW u \in Users, Join(u) PROVE Heeded(v)'
    BY <1>1, <1>f DEF Join
  <1>2. ASSUME NEW u \in Users, Query(u) PROVE Heeded(v)'
    BY <1>2, <1>f DEF Query
  <1>3. ASSUME NEW u \in Users, AddRow(u) PROVE Heeded(v)'
    <2>1. PICK s : Grow({u}, s)
      BY <1>3, AddRowGrows
    <2>2. v \notin {u} => RowsOf(v, {AtOnce})' = RowsOf(v, {AtOnce})
      BY <2>1, HearingFrame DEF Grow
    <2> QED
      BY <1>3, <2>2, HeardHeeded DEF AddRow
  <1>4. ASSUME NEW u \in Users, GiveUp(u) PROVE Heeded(v)'
    BY <1>4, <1>f DEF GiveUp
  <1>5. ASSUME NEW u \in Users, Leave(u) PROVE Heeded(v)'
    BY <1>5, <1>f DEF Leave
  <1>6. ASSUME NEW u \in Users,
               \/ \E r \in RowsOf(u, Types), type \in Types : UpdateType(u, r, type)
               \/ \E way \in Ways : SwitchRow(u, way)
               \/ \E way \in Ways : Switch(u, way)
        PROVE  Heeded(v)'
    <2>1. ASSUME NEW r \in RowsOf(u, Types), NEW type \in Types, UpdateType(u, r, type)
          PROVE  Heeded(v)'
      <3>1. RowChanges(u, r, type)
        BY <2>1, UpdateTypeEffect
      <3>2. CASE type = AtOnce
        <4>1. v \notin {u} => RowsOf(v, {AtOnce})' = RowsOf(v, {AtOnce})
          BY <3>1, HearingChange
        <4> QED
          BY <2>1, <3>2, <4>1, HeardHeeded DEF UpdateType
      <3>3. CASE type # AtOnce
        <4>1. RowsOf(v, {AtOnce})' \subseteq RowsOf(v, {AtOnce})
          BY <3>1, <3>3, HearingChange
        <4>2. UNCHANGED <<quiet, switching>>
          BY <2>1, <3>3 DEF UpdateType
        <4> QED
          BY <4>1, <4>2 DEF AllHeeded, Heeded
      <3> QED
        BY <3>2, <3>3
    <2>2. ASSUME NEW way \in Ways, SwitchRow(u, way)
          PROVE  Heeded(v)'
      <3>1. PICK r \in switching[u][way].todo :
              /\ RowChanges(u, r, way)
              /\ switching' = [switching EXCEPT ![u][way].todo = @ \ {r}]
              /\ quiet' = IF switching[u][way].todo = {r} /\ switching[u][way].clean
                            THEN quiet \cup {u} ELSE quiet
        BY <2>2, SwitchRowEffect
      <3>2. /\ RowsOf(v, {AtOnce})' \subseteq RowsOf(v, {AtOnce})
            /\ v = u => r \notin RowsOf(v, {AtOnce})'
        BY <3>1, HearingChange, WaysAreTypes
      <3>3. ASSUME NEW w \in Ways
            PROVE  /\ switching'[v][w].clean = switching[v][w].clean
                   /\ switching'[v][w].todo = IF v = u /\ w = way
                                                THEN switching[v][w].todo \ {r}
                                                ELSE switching[v][w].todo
        <4>1. switching[v][w] \in SwitchState
          BY DEF TypeOK
        <4>2. switching'[v][w] = IF v = u /\ w = way
                                   THEN [switching[v][w] EXCEPT !.todo = @ \ {r}]
                                   ELSE switching[v][w]
          BY <3>1 DEF TypeOK
        <4> QED
          BY <4>1, <4>2 DEF SwitchState
      <3>4. \A w \in Ways : switching'[v][w].clean
                => RowsOf(v, {AtOnce})' \subseteq switching'[v][w].todo
        <4> SUFFICES ASSUME NEW w \in Ways, switching'[v][w].clean
                     PROVE  RowsOf(v, {AtOnce})' \subseteq switching'[v][w].todo
          OBVIOUS
        <4>1. RowsOf(v, {AtOnce}) \subseteq switching[v][w].todo
          BY <3>3 DEF AllHeeded, Heeded
        <4> QED
          BY <3>2, <3>3, <4>1
      <3>5. v \in quiet' => RowsOf(v, {AtOnce})' = {}
        <4>1. CASE v \in quiet
          BY <3>2, <4>1 DEF AllHeeded, Heeded
        <4>2. CASE v = u /\ switching[u][way].todo = {r} /\ switching[u][way].clean
          <5>1. RowsOf(v, {AtOnce}) \subseteq {r}
            BY <4>2 DEF AllHeeded, Heeded
          <5> QED
            BY <3>2, <4>2, <5>1
        <4> QED
          BY <3>1, <4>1, <4>2
      <3> QED
        BY <3>4, <3>5 DEF Heeded
    <2>3. ASSUME NEW way \in Ways, Switch(u, way)
          PROVE  Heeded(v)'
      <3>1. RowsOf(v, {AtOnce})' = RowsOf(v, {AtOnce})
        BY <2>3, HearingFrame DEF Switch
      <3>2. RowsOf(u, {AtOnce}) \subseteq ToChange(u, way)
        BY WaysAreTypes DEF ToChange, RowsOf
      <3>3. ASSUME NEW w \in Ways
            PROVE  \/ switching'[v][w] = switching[v][w]
                   \/ v = u /\ switching'[v][w].todo = ToChange(u, way)
        BY <2>3 DEF Switch, TypeOK
      <3>4. \A w \in Ways : switching'[v][w].clean
                => RowsOf(v, {AtOnce})' \subseteq switching'[v][w].todo
        <4> SUFFICES ASSUME NEW w \in Ways, switching'[v][w].clean
                     PROVE  RowsOf(v, {AtOnce})' \subseteq switching'[v][w].todo
          OBVIOUS
        <4>1. CASE switching'[v][w] = switching[v][w]
          BY <3>1, <4>1 DEF AllHeeded, Heeded
        <4>2. CASE v = u /\ switching'[v][w].todo = ToChange(u, way)
          BY <3>1, <3>2, <4>2
        <4> QED
          BY <3>3, <4>1, <4>2
      <3>5. v \in quiet' => v \in quiet \/ (v = u /\ ToChange(u, way) = {})
        BY <2>3 DEF Switch, Finish
      <3>6. v \in quiet' => RowsOf(v, {AtOnce})' = {}
        BY <3>1, <3>2, <3>5 DEF AllHeeded, Heeded
      <3> QED
        BY <3>4, <3>6 DEF Heeded
    <2> QED
      BY <1>6, <2>1, <2>2, <2>3
  <1>7. ASSUME NEW e \in Editors, NEW s \in Stories, NEW kind \in Kinds, Save(e, s, kind)
        PROVE  Heeded(v)'
    BY <1>7, <1>f DEF Save
  <1>8. ASSUME NEW e \in Editors, FirstOrCreate(e) PROVE Heeded(v)'
    BY <1>8, <1>f DEF FirstOrCreate
  <1>9. ASSUME NEW e \in Editors, Commit(e) PROVE Heeded(v)'
    <2>1. Grow(saving[e].staged, saving[e].story)
      BY <1>9, CommitGrows
    <2>2. v \notin saving[e].staged => RowsOf(v, {AtOnce})' = RowsOf(v, {AtOnce})
      BY <2>1, HearingFrame DEF Grow
    <2> QED
      BY <1>9, <2>2, HeardHeeded DEF Commit
  <1>10. ASSUME NEW e \in Editors, Abort(e) PROVE Heeded(v)'
    BY <1>10, <1>f DEF Abort
  <1>11. ASSUME NEW s \in Stories, Touch(s) PROVE Heeded(v)'
    BY <1>11, <1>f DEF Touch
  <1>12. ASSUME NEW s \in Stories, Age(s) PROVE Heeded(v)'
    BY <1>12, <1>f DEF Age
  <1> QED
    BY <1>1, <1>2, <1>3, <1>4, <1>5, <1>6, <1>7, <1>8, <1>9, <1>10, <1>11, <1>12
       DEF Next, UserSteps, EditorSteps

LEMMA InitTyped ==
    ASSUME Init
    PROVE  TypeOK
  <1>1. <<AtOnce>> \in Seq(Types) /\ <<>> \in Seq(Types)
    BY DEF Types
  <1>2. note \in [Users -> [Stories -> Seq(Types)]]
    BY <1>1 DEF Init
  <1>3. user \in [Users -> UserState] /\ story \in [Stories -> StoryState]
    BY DEF Init, UserState
  <1>4. AllAdded \in SignUpState /\ NotBegun \in SignUpState
    BY DEF AllAdded, NotBegun, SignUpState
  <1>5. signUp \in [Users -> SignUpState]
    BY <1>4 DEF Init
  <1>6. NoSave \in SaveState
    BY DEF NoSave, SaveState, Kinds
  <1>7. saving \in [Editors -> SaveState]
    BY <1>6 DEF Init
  <1>8. NotSwitching \in SwitchState
    BY DEF NotSwitching, SwitchState
  <1>9. switching \in [Users -> [Ways -> SwitchState]]
    BY <1>8 DEF Init
  <1>10. \A u \in Users, w \in Ways : switching[u][w].todo = {}
    BY DEF Init, NotSwitching
  <1> QED
    BY <1>2, <1>3, <1>5, <1>7, <1>9, <1>10 DEF TypeOK, Init

LEMMA InitInvariant ==
    ASSUME Init
    PROVE  NInv
  <1>1. TypeOK
    BY InitTyped
  <1>2. \A u \in Users, s \in Stories :
            /\ user[u] \in {"absent", "active"}
            /\ HasRow(u, s) <=> user[u] = "active" /\ Exists(s)
    BY DEF Init, HasRow
  <1>3. \A u \in Users :
            /\ signUp[u] = IF user[u] = "active" THEN AllAdded ELSE NotBegun
            /\ signUp[u].todo = {}
            /\ signUp[u].turn # 0 <=> user[u] = "active"
            /\ ~SigningUp(u)
    BY <1>2 DEF Init, AllAdded, NotBegun, SigningUp
  <1>4. \A e \in Editors :
            /\ saving[e] = NoSave
            /\ saving[e].story = None
            /\ saving[e].listed = {}
            /\ saving[e].todo = {}
            /\ saving[e].staged = {}
    BY DEF Init, NoSave
  <1>5. SignUps
    BY <1>2, <1>3 DEF SignUps, SignUpOf
  <1>6. Saves /\ Creates /\ Looked /\ OnceSaved
    BY <1>4
       DEF Saves, SaveOf, Creates, Alone, Looked, LookedFor, OnceSaved,
           OnceSavedBy
  <1>7. RowsOfStories
    BY <1>2 DEF RowsOfStories
  <1>8. Covered
    BY <1>2, <1>3 DEF Covered, CoveredAt
  <1>9. Once
    BY <1>3 DEF Once, OnceAt
  <1>10. DuplicatesNeedOverlap
    <2>1. \A u \in Users, s \in Stories :
              note[u][s] = <<AtOnce>> \/ note[u][s] = <<>>
      BY DEF Init
    <2>2. Len(<<AtOnce>>) = 1 /\ Len(<<>>) = 0
      OBVIOUS
    <2>3. ASSUME NEW u \in Users, NEW s \in Stories
          PROVE  ~(Len(note[u][s]) > 1)
      <3>1. CASE Len(note[u][s]) = 1
        BY <3>1
      <3>2. CASE Len(note[u][s]) = 0
        BY <3>2
      <3> QED
        BY <2>1, <2>2, <3>1, <3>2
    <2> QED
      BY <2>3 DEF DuplicatesNeedOverlap
  <1>11. AllHeeded
    <2>1. \A u \in Users, w \in Ways : ~switching[u][w].clean
      BY DEF Init, NotSwitching
    <2>2. quiet = {}
      BY DEF Init
    <2> QED
      BY <2>1, <2>2 DEF AllHeeded, Heeded
  <1> QED
    BY <1>1, <1>5, <1>6, <1>7, <1>8, <1>9, <1>10, <1>11 DEF NInv

\* Every step of the table keeps NInv; a module that composes it with others
\* cites this one.
LEMMA StepInvariant ==
    ASSUME NInv, [Next]_vars
    PROVE  NInv'
  <1>1. CASE UNCHANGED vars
    <2> USE <1>1 DEF vars, NInv
    <2>1. TypeOK'
      BY DEF TypeOK, RowsOf
    <2>2. SignUps' /\ RowsOfStories'
      BY DEF SignUps, SignUpOf, RowsOfStories, SigningUp, HasRow, Exists
    <2>3. Saves' /\ Creates' /\ Looked'
      BY DEF Saves, SaveOf, Creates, Alone, Looked, LookedFor, HasRow, Exists
    <2>4. Covered'
      BY DEF Covered, CoveredAt, HasRow, Exists, Awaited
    <2>5. Once' /\ OnceSaved'
      BY
         DEF Once, OnceAt, FoundBefore, OnceSaved, OnceSavedBy, SigningUp,
             HasRow
    <2>6. DuplicatesNeedOverlap' /\ AllHeeded'
      BY DEF DuplicatesNeedOverlap, AllHeeded, Heeded, RowsOf
    <2> QED
      BY <2>1, <2>2, <2>3, <2>4, <2>5, <2>6 DEF NInv
  <1>2. CASE Next
    <2> USE <1>2 DEF NInv
    <2>1. TypeOK'
      BY TypeStep
    <2>2. SignUps' /\ Saves' /\ Creates' /\ RowsOfStories'
      BY <2>1, SignUpsStep, SavesStep, CreatesStep, RowsOfStoriesStep
    <2>3. Looked' /\ Covered' /\ AllHeeded'
      BY LookedStep, CoveredStep, HeededStep
    <2>4. Once' /\ OnceSaved' /\ DuplicatesNeedOverlap'
      BY <2>1, OnceStep, OnceSavedStep, DuplicatesStep
    <2> QED
      BY <2>1, <2>2, <2>3, <2>4
  <1> QED
    BY <1>1, <1>2

\* An added sign-up awaits nothing.
LEMMA CoveredIsEnough ==
    ASSUME NInv
    PROVE  EveryStoryCovered
  <1> SUFFICES ASSUME NEW u \in Active, NEW s \in Stories,
                      signUp[u] = AllAdded, Exists(s), <<u, s>> \notin missed
               PROVE  HasRow(u, s)
    BY DEF EveryStoryCovered
  <1>1. u \in Users
    BY DEF Active
  <1>2. signUp[u].turn = 3 /\ ~signUp[u].failed /\ signUp[u].todo = {}
    BY DEF AllAdded
  <1>3. CoveredAt(u, s)
    BY <1>1 DEF NInv, Covered
  <1> QED
    BY <1>2, <1>3 DEF CoveredAt, Awaited

\* NInv is inductive: sign-ups, savers of stories and the users themselves, in
\* any order, keep what each of them has found and has still to do in agreement
\* with the rows that are there.
THEOREM NotificationsInvariant == Spec => []NInv
  <1> QED
    BY InitInvariant, StepInvariant, PTL DEF Spec

\* Rows, requests and history keep their types, and the rows that a link for all
\* rows has still to change are there.
THEOREM NotificationsTyped == Spec => []TypeOK
  <1>1. NInv => TypeOK
    BY DEF NInv
  <1> QED
    BY <1>1, NotificationsInvariant, PTL

\* Of however many users, stories and editors: an active user who has signed up
\* lacks the row of a story only where a request has passed another.
THEOREM StoriesCovered == Spec => []EveryStoryCovered
  <1>1. NInv => EveryStoryCovered
    BY CoveredIsEnough
  <1> QED
    BY <1>1, NotificationsInvariant, PTL

\* Without a unique index, a second row still needs two requests at once, or a
\* story that ages within a sign-up.
THEOREM RowsAreSingle == Spec => []DuplicatesNeedOverlap
  <1>1. NInv => DuplicatesNeedOverlap
    BY DEF NInv
  <1> QED
    BY <1>1, NotificationsInvariant, PTL

-----------------------------------------------------------------------------
(* Publishing: the mails.                                                  *)


Steps == {"story", "tweet", "touch", "email"}

\* What may be left of a path.
Suffixes ==
    Paths \cup {<<"touch", "email">>, <<"tweet", "email">>, <<"email">>}

Ahead(p) == pub[p].at = "busy" => pub[p].left \in Suffixes

\* The story that is being made is a new one, and lists all who are keen.
MakesStory(p) ==
    saving[p].story # None =>
        /\ At(p, "story")
        /\ saving[p].kind = "create"
        /\ keen[p] \subseteq saving[p].listed

\* Jobs are made while mails are, and one for each.
JobsOf(p) ==
    \A u \in Users :
        /\ pub[p].at \in {"waiting", "busy"} => jobs[p][u] = 0
        /\ u \in pub[p].toMail => jobs[p][u] = 0
        /\ jobs[p][u] \in {0, 1}

Wants(p, u) == pub[p].everyone \/ Hears(u, pub[p].stories)

KeenHear(p) ==
    /\ keen[p] \subseteq Active
    /\ \A u \in keen[p] :
          /\ pub[p].at = "busy" /\ ~At(p, "story") => Wants(p, u)
          /\ pub[p].at = "mailing" /\ u \in pub[p].toMail => Wants(p, u)
          /\ pub[p].at = "mailing" /\ u \notin pub[p].toMail => jobs[p][u] = 1
          /\ pub[p].at = "done" => jobs[p][u] = 1

PubTyped ==
    /\ pub \in [Publications -> PubState]
    /\ jobs \in [Publications -> [Users -> Nat]]
    /\ keen \in [Publications -> SUBSET Users]

PubOf(p) == Ahead(p) /\ MakesStory(p) /\ JobsOf(p) /\ KeenHear(p)

PubInv ==
    /\ NInv
    /\ PubTyped
    /\ \A p \in Publications : PubOf(p)

-----------------------------------------------------------------------------
\* Only the first step makes a story, and only the last one sends mail.
LEMMA PathsEnd ==
    ASSUME NEW l \in Suffixes
    PROVE  /\ l \in Seq(Steps)
           /\ l # <<>>
           /\ Head(l) # "email" =>
                 /\ Tail(l) \in Suffixes
                 /\ Tail(l) \in Seq(Steps)
                 /\ Head(Tail(l)) # "story"
  <1> USE DEF Steps
  <1>1. CASE l = <<"story", "tweet", "touch", "email">>
    BY <1>1 DEF Suffixes, Paths
  <1>2. CASE l = <<"tweet", "touch", "email">>
    BY <1>2 DEF Suffixes, Paths
  <1>3. CASE l = <<"touch", "tweet", "email">>
    BY <1>3 DEF Suffixes, Paths
  <1>4. CASE l = <<"touch", "email">>
    BY <1>4 DEF Suffixes, Paths
  <1>5. CASE l = <<"tweet", "email">>
    BY <1>5 DEF Suffixes, Paths
  <1>6. CASE l = <<"email">>
    BY <1>6 DEF Suffixes, Paths
  <1> QED
    BY <1>1, <1>2, <1>3, <1>4, <1>5, <1>6 DEF Suffixes, Paths

-----------------------------------------------------------------------------
(***************************************************************************)
(* The table under a publication.                                          *)
(***************************************************************************)
LEMMA TableSteps ==
    ASSUME PubTyped, PubNext
    PROVE  [Next]_vars
  <1>1. CASE Others
    BY <1>1, PublishersAreEditors DEF Others, Next
  <1>2. ASSUME NEW p \in Publications, Publish(p)
        PROVE  [Next]_vars
    <2>0. p \in Editors /\ pub[p].toTouch \subseteq Stories
      BY PublishersAreEditors DEF PubTyped, PubState
    <2>1. CASE NewStory(p)
      BY <2>0, <2>1 DEF NewStory, Next, EditorSteps, Kinds
    <2>2. CASE TouchStories(p)
      BY <2>0, <2>2 DEF TouchStories, Next
    <2>3. CASE Die(p)
      BY <2>0, <2>3 DEF Die, Next, EditorSteps
    <2>4. CASE UNCHANGED vars
      BY <2>4
    <2> QED
      BY <1>2, <2>1, <2>2, <2>3, <2>4
         DEF Publish, Begin, Tweet, ListUsers, MailUser
  <1> QED
    BY <1>1, <1>2 DEF PubNext

\* An editor's step is about that editor's transaction.
LEMMA SavingOfOthers ==
    ASSUME NEW e, NEW f \in Editors, f # e, TypeOK,
           EditorSteps(e)
    PROVE  saving'[f] = saving[f]
  BY DEF EditorSteps, Save, FirstOrCreate, Commit, Abort, TypeOK

LEMMA SavingAtRest ==
    ASSUME \/ UserSteps
           \/ \E s \in Stories : Touch(s) \/ Age(s)
    PROVE  UNCHANGED saving
  BY DEF UserSteps, Join, Query, AddRow, GiveUp, Leave, UpdateType, Switch,
         SwitchRow, Touch, Age

-----------------------------------------------------------------------------
(***************************************************************************)
(* A publication while others step.                                        *)
(***************************************************************************)
KeenKept(p) ==
    \A u \in keen'[p] :
        /\ u \in keen[p]
        /\ user'[u] = "active"
        /\ Hears(u, pub[p].stories) => Hears(u, pub[p].stories)'

LEMMA StayKeenKeeps ==
    ASSUME NEW p \in Publications, StayKeen
    PROVE  KeenKept(p)
  BY DEF StayKeen, KeenKept

LEMMA RestKeeps ==
    ASSUME NEW p \in Publications, KeenHear(p), UNCHANGED <<vars, keen>>,
           pub'[p].stories = pub[p].stories
    PROVE  KeenKept(p)
  BY DEF KeenKept, KeenHear, Active, Hears, vars

LEMMA Aside ==
    ASSUME PubTyped, PubTyped', NEW p \in Publications, PubOf(p),
           pub'[p] = pub[p], jobs'[p] = jobs[p], saving'[p] = saving[p],
           KeenKept(p)
    PROVE  PubOf(p)'
  <1>1. Ahead(p)' /\ JobsOf(p)'
    BY DEF PubOf, Ahead, JobsOf
  <1>2. MakesStory(p)'
    BY DEF PubOf, MakesStory, At, KeenKept
  <1>3. KeenHear(p)'
    <2>1. keen'[p] \subseteq Users
      BY DEF PubTyped
    <2>2. \A u \in keen'[p] : u \in keen[p] /\ (Wants(p, u) => Wants(p, u)')
      BY DEF KeenKept, Wants
    <2>3. At(p, "story")' <=> At(p, "story")
      BY DEF At
    <2>4. keen'[p] \subseteq Active'
      BY <2>1 DEF KeenKept, Active
    <2> QED
      BY <2>2, <2>3, <2>4 DEF PubOf, KeenHear
  <1> QED
    BY <1>1, <1>2, <1>3 DEF PubOf

-----------------------------------------------------------------------------
(***************************************************************************)
(* What each step does to its own publication; the others stand aside.     *)
(***************************************************************************)
\* The step of one publication is nothing to another.
Apart(p) ==
    \A q \in Publications \ {p} :
        /\ pub'[q] = pub[q]
        /\ jobs'[q] = jobs[q]
        /\ saving'[q] = saving[q]
        /\ KeenKept(q)

LEMMA OthersStep ==
    ASSUME PubInv, Others
    PROVE  /\ PubTyped'
           /\ \A p \in Publications : PubOf(p)'
  <1>1. PubTyped'
    BY DEF Others, StayKeen, PubInv, PubTyped
  <1>2. ASSUME NEW p \in Publications PROVE PubOf(p)'
    <2>1. saving'[p] = saving[p]
      <3>1. ASSUME NEW e \in Editors \ Publications, EditorSteps(e)
            PROVE  saving'[p] = saving[p]
        BY <3>1, SavingOfOthers, PublishersAreEditors DEF PubInv, NInv
      <3> QED
        BY <3>1, SavingAtRest DEF Others
    <2>2. KeenKept(p)
      BY StayKeenKeeps DEF Others
    <2>3. pub'[p] = pub[p] /\ jobs'[p] = jobs[p]
      BY DEF Others
    <2> QED
      BY <1>1, <2>1, <2>2, <2>3, Aside DEF PubInv
  <1> QED
    BY <1>1, <1>2

LEMMA AdvanceFields ==
    ASSUME PubTyped, NEW p \in Publications, Advance(p),
           Tail(pub[p].left) \in Seq(Steps)
    PROVE  /\ pub' \in [Publications -> PubState]
           /\ pub'[p].at = pub[p].at
           /\ pub'[p].left = Tail(pub[p].left)
           /\ pub'[p].stories = pub[p].stories
           /\ pub'[p].toMail = pub[p].toMail
           /\ pub'[p].everyone = pub[p].everyone
           /\ \A q \in Publications \ {p} : pub'[q] = pub[q]
  <1>1. pub[p] \in PubState
    BY DEF PubTyped
  <1>2. pub'[p] = [pub[p] EXCEPT !.left = Tail(pub[p].left)]
    BY DEF Advance, PubTyped
  <1>3. pub'[p] \in PubState
    BY <1>1, <1>2 DEF PubState, Steps
  <1>4. /\ DOMAIN pub' = Publications
        /\ pub' = [q \in Publications |-> pub'[q]]
        /\ \A q \in Publications \ {p} : pub'[q] = pub[q]
    BY DEF Advance, PubTyped
  <1>5. pub' \in [Publications -> PubState]
    BY <1>3, <1>4 DEF PubTyped
  <1> QED
    BY <1>1, <1>2, <1>4, <1>5 DEF PubState

\* A step behind which there is another, that makes no story, leaves who is keen
\* as keen as before.
LEMMA AdvanceStep ==
    ASSUME PubInv, NEW p \in Publications, Advance(p), PubTyped',
           pub[p].at = "busy", ~At(p, "story"), ~At(p, "email"),
           UNCHANGED <<vars, jobs, keen>>
    PROVE  PubOf(p)'
  <1>0. PubOf(p)
    BY DEF PubInv
  <1>1. /\ pub[p].left # <<>>
        /\ Tail(pub[p].left) \in Suffixes
        /\ Tail(pub[p].left) \in Seq(Steps)
        /\ Head(Tail(pub[p].left)) # "story"
        /\ Head(pub[p].left) # "story"
    BY <1>0, PathsEnd DEF PubOf, Ahead, At
  <1>2. /\ pub'[p].at = pub[p].at
        /\ pub'[p].left = Tail(pub[p].left)
        /\ pub'[p].stories = pub[p].stories
        /\ pub'[p].toMail = pub[p].toMail
        /\ pub'[p].everyone = pub[p].everyone
    BY <1>1, AdvanceFields DEF PubInv
  <1>3. Ahead(p)' /\ JobsOf(p)'
    BY <1>0, <1>1, <1>2 DEF PubOf, Ahead, JobsOf
  <1>4. saving'[p].story = None
    BY <1>0 DEF PubOf, MakesStory, vars
  <1>5. MakesStory(p)'
    BY <1>4 DEF MakesStory
  <1>6. \A u : Wants(p, u) => Wants(p, u)'
    BY <1>2 DEF Wants, Hears, vars
  <1>7. KeenHear(p)'
    BY <1>0, <1>2, <1>6 DEF PubOf, KeenHear, Active, vars
  <1> QED
    BY <1>3, <1>5, <1>7 DEF PubOf

\* All publications but p stay aside when nothing of the table moves.
LEMMA RestApart ==
    ASSUME PubInv, NEW p \in Publications, UNCHANGED <<vars, keen>>,
           \A q \in Publications \ {p} : pub'[q] = pub[q] /\ jobs'[q] = jobs[q]
    PROVE  Apart(p)
  <1> SUFFICES ASSUME NEW q \in Publications \ {p}
               PROVE  saving'[q] = saving[q] /\ KeenKept(q)
    BY DEF Apart
  <1>1. KeenHear(q)
    BY DEF PubInv, PubOf
  <1> QED
    BY <1>1, RestKeeps DEF vars

LEMMA ApartIsEnough ==
    ASSUME PubInv, PubTyped', NEW p \in Publications, Apart(p), PubOf(p)'
    PROVE  \A q \in Publications : PubOf(q)'
  <1> SUFFICES ASSUME NEW q \in Publications, q # p
               PROVE  PubOf(q)'
    OBVIOUS
  <1> QED
    BY Aside DEF PubInv, Apart

LEMMA TweetStep ==
    ASSUME PubInv, NEW p \in Publications, Tweet(p)
    PROVE  /\ PubTyped'
           /\ \A q \in Publications : PubOf(q)'
  <1>1. pub[p].at = "busy" /\ ~At(p, "story") /\ ~At(p, "email")
    BY DEF Tweet, At
  <1>2. Tail(pub[p].left) \in Seq(Steps)
    BY <1>1, PathsEnd DEF PubInv, PubOf, Ahead, At
  <1>3. /\ pub' \in [Publications -> PubState]
        /\ \A q \in Publications \ {p} : pub'[q] = pub[q]
    BY <1>2, AdvanceFields DEF Tweet, PubInv
  <1>4. PubTyped'
    BY <1>3 DEF Tweet, PubInv, PubTyped
  <1>5. PubOf(p)'
    BY <1>1, <1>4, AdvanceStep DEF Tweet
  <1>6. Apart(p)
    BY <1>3, RestApart DEF Tweet
  <1> QED
    BY <1>4, <1>5, <1>6, ApartIsEnough

LEMMA TouchStep ==
    ASSUME PubInv, NEW p \in Publications, TouchStories(p)
    PROVE  /\ PubTyped'
           /\ \A q \in Publications : PubOf(q)'
  <1>0. /\ pub[p].at = "busy" /\ ~At(p, "story") /\ ~At(p, "email")
        /\ PubOf(p)
        /\ pub[p] \in PubState
    BY DEF TouchStories, At, PubInv, PubTyped
  <1>1. CASE \E s \in pub[p].toTouch :
                /\ Touch(s)
                /\ pub' = [pub EXCEPT ![p].toTouch = @ \ {s}]
                /\ StayKeen
                /\ UNCHANGED jobs
    <2>1. PICK s \in pub[p].toTouch :
              /\ Touch(s)
              /\ pub' = [pub EXCEPT ![p].toTouch = @ \ {s}]
              /\ StayKeen
              /\ UNCHANGED jobs
      BY <1>1
    <2>2. s \in Stories
      BY <1>0 DEF PubState
    <2>3. UNCHANGED saving
      BY <2>1, <2>2, SavingAtRest
    <2>4. pub'[p] = [pub[p] EXCEPT !.toTouch = @ \ {s}]
      BY <2>1 DEF PubInv, PubTyped
    <2>5. /\ pub'[p] \in PubState
          /\ pub'[p].at = pub[p].at
          /\ pub'[p].left = pub[p].left
          /\ pub'[p].stories = pub[p].stories
          /\ pub'[p].toMail = pub[p].toMail
          /\ pub'[p].everyone = pub[p].everyone
      BY <1>0, <2>4 DEF PubState
    <2>6. \A q \in Publications \ {p} : pub'[q] = pub[q]
      BY <2>1 DEF PubInv, PubTyped
    <2>7. PubTyped'
      <3>1. pub' \in [Publications -> PubState]
        BY <2>1, <2>5, <2>6 DEF PubInv, PubTyped
      <3>2. keen' \in [Publications -> SUBSET Users]
        BY <2>1 DEF StayKeen, PubInv, PubTyped
      <3> QED
        BY <2>1, <3>1, <3>2 DEF PubInv, PubTyped
    <2>8. Apart(p)
      BY <2>1, <2>3, <2>6, StayKeenKeeps DEF Apart
    <2>9. KeenKept(p)
      BY <2>1, StayKeenKeeps
    <2>10. PubOf(p)'
      <3>1. Ahead(p)' /\ JobsOf(p)'
        BY <1>0, <2>1, <2>5 DEF PubOf, Ahead, JobsOf
      <3>2. saving'[p].story = None
        BY <1>0, <2>3 DEF PubOf, MakesStory
      <3>3. MakesStory(p)'
        BY <3>2 DEF MakesStory
      <3>4. \A u \in keen'[p] : u \in keen[p] /\ (Wants(p, u) => Wants(p, u)')
        BY <2>5, <2>9 DEF KeenKept, Wants, Hears
      <3>5. keen'[p] \subseteq Active'
        BY <2>7, <2>9 DEF PubTyped, KeenKept, Active
      <3>6. KeenHear(p)'
        BY <1>0, <2>5, <3>4, <3>5 DEF PubOf, KeenHear
      <3> QED
        BY <3>1, <3>3, <3>6 DEF PubOf
    <2> QED
      BY <2>7, <2>8, <2>10, ApartIsEnough
  <1>2. CASE Advance(p) /\ UNCHANGED <<vars, jobs, keen>>
    <2>1. Tail(pub[p].left) \in Seq(Steps)
      BY <1>0, PathsEnd DEF PubOf, Ahead, At
    <2>2. /\ pub' \in [Publications -> PubState]
          /\ \A q \in Publications \ {p} : pub'[q] = pub[q]
      BY <1>2, <2>1, AdvanceFields DEF PubInv
    <2>3. PubTyped'
      BY <1>2, <2>2 DEF PubInv, PubTyped
    <2>4. PubOf(p)'
      BY <1>0, <1>2, <2>3, AdvanceStep
    <2>5. Apart(p)
      BY <1>2, <2>2, RestApart
    <2> QED
      BY <2>3, <2>4, <2>5, ApartIsEnough
  <1> QED
    BY <1>1, <1>2 DEF TouchStories

LEMMA BeginStep ==
    ASSUME PubInv, NEW p \in Publications, NEW path \in Paths,
           NEW ss \in SUBSET Stories, NEW everyone \in BOOLEAN,
           Begin(p, path, ss, everyone)
    PROVE  /\ PubTyped'
           /\ \A q \in Publications : PubOf(q)'
  <1>0. PubOf(p) /\ pub[p].at = "waiting"
    BY DEF Begin, PubInv
  <1>1. path \in Suffixes /\ path \in Seq(Steps)
    BY PathsEnd DEF Suffixes
  <1>2. /\ pub'[p].at = "busy"
        /\ pub'[p].left = path
        /\ pub'[p].stories = ss
        /\ pub'[p].toMail = {}
        /\ pub'[p].everyone = everyone
        /\ pub'[p] \in PubState
    BY <1>1 DEF Begin, Waiting, PubInv, PubTyped, PubState, Steps
  <1>3. keen'[p] =
          {u \in Active : everyone \/ Hears(u, ss) \/ Head(path) = "story"}
    BY DEF Begin, PubInv, PubTyped
  <1>4. \A q \in Publications \ {p} : pub'[q] = pub[q] /\ keen'[q] = keen[q]
    BY DEF Begin, PubInv, PubTyped
  <1>5. PubTyped'
    <2>1. pub' \in [Publications -> PubState]
      BY <1>2, <1>4 DEF Begin, PubInv, PubTyped
    <2>2. keen' \in [Publications -> SUBSET Users]
      BY <1>3, <1>4 DEF Begin, PubInv, PubTyped, Active
    <2> QED
      BY <2>1, <2>2 DEF Begin, PubInv, PubTyped
  <1>6. Apart(p)
    <2> SUFFICES ASSUME NEW q \in Publications \ {p}
                 PROVE  jobs'[q] = jobs[q] /\ saving'[q] = saving[q] /\ KeenKept(q)
      BY <1>4 DEF Apart
    <2>1. UNCHANGED <<story, user, note, saving, jobs>>
      BY DEF Begin, vars
    <2>2. keen[q] \subseteq Active
      BY DEF PubInv, PubOf, KeenHear
    <2>3. KeenKept(q)
      BY <1>4, <2>1, <2>2 DEF KeenKept, Active, Hears
    <2> QED
      BY <2>1, <2>3
  <1>7. PubOf(p)'
    <2>1. Ahead(p)' /\ JobsOf(p)'
      BY <1>0, <1>1, <1>2 DEF Begin, PubOf, Ahead, JobsOf
    <2>2. saving'[p].story = None
      BY <1>0 DEF PubOf, MakesStory, At, Begin, vars
    <2>3. MakesStory(p)'
      BY <2>2 DEF MakesStory
    <2>4. keen'[p] \subseteq Active'
      BY <1>3 DEF Begin, vars, Active
    <2>5. ASSUME NEW u \in keen'[p], ~At(p, "story")'
          PROVE  Wants(p, u)'
      <3>1. Head(path) # "story"
        BY <1>1, <1>2, <2>5, PathsEnd DEF At
      <3>2. everyone \/ Hears(u, ss)
        BY <1>3, <3>1
      <3> QED
        BY <1>2, <3>2 DEF Wants, Hears, Begin, vars
    <2>6. KeenHear(p)'
      BY <1>2, <2>4, <2>5 DEF KeenHear
    <2> QED
      BY <2>1, <2>3, <2>6 DEF PubOf
  <1> QED
    BY <1>5, <1>6, <1>7, ApartIsEnough

LEMMA ListStep ==
    ASSUME PubInv, NEW p \in Publications, ListUsers(p)
    PROVE  /\ PubTyped'
           /\ \A q \in Publications : PubOf(q)'
  <1>0. PubOf(p) /\ pub[p].at = "busy" /\ ~At(p, "story") /\ pub[p] \in PubState
    BY DEF ListUsers, At, PubInv, PubTyped
  <1>1. pub'[p] = [pub[p] EXCEPT !.toMail = Active, !.left = <<>>, !.at =
                     IF Active = {} THEN "done" ELSE "mailing"]
    BY DEF ListUsers, PubInv, PubTyped
  <1>2. /\ pub'[p].at = IF Active = {} THEN "done" ELSE "mailing"
        /\ pub'[p].stories = pub[p].stories
        /\ pub'[p].toMail = Active
        /\ pub'[p].everyone = pub[p].everyone
        /\ pub'[p] \in PubState
    <2>1. /\ pub'[p].at = IF Active = {} THEN "done" ELSE "mailing"
          /\ pub'[p].stories = pub[p].stories
          /\ pub'[p].toMail = Active
          /\ pub'[p].left = <<>>
          /\ pub'[p].toTouch = pub[p].toTouch
          /\ pub'[p].everyone = pub[p].everyone
          /\ pub'[p] = [at |-> pub'[p].at, left |-> <<>>,
                        stories |-> pub[p].stories, toTouch |-> pub[p].toTouch,
                        toMail |-> Active, everyone |-> pub[p].everyone]
      BY <1>0, <1>1 DEF PubState
    <2>2. Active \subseteq Users
      BY DEF Active
    <2>3. pub'[p].at \in {"waiting", "busy", "mailing", "done", "failed"}
      BY <2>1
    <2>4. <<>> \in Seq({"story", "tweet", "touch", "email"})
      OBVIOUS
    <2>5. pub'[p] \in PubState
      BY <1>0, <2>1, <2>2, <2>3, <2>4 DEF PubState
    <2> QED
      BY <2>1, <2>5
  <1>3. \A q \in Publications \ {p} : pub'[q] = pub[q]
    BY DEF ListUsers, PubInv, PubTyped
  <1>4. PubTyped'
    BY <1>2, <1>3 DEF ListUsers, PubInv, PubTyped
  <1>5. Apart(p)
    BY <1>3, RestApart DEF ListUsers
  <1>6. PubOf(p)'
    <2>0. /\ UNCHANGED jobs
          /\ pub'[p].at # "busy"
          /\ \A u \in Users : jobs[p][u] = 0
      BY <1>0, <1>2 DEF ListUsers, PubOf, JobsOf
    <2>1. Ahead(p)' /\ JobsOf(p)'
      BY <2>0 DEF Ahead, JobsOf
    <2>2. saving'[p].story = None
      BY <1>0 DEF PubOf, MakesStory, ListUsers, vars
    <2>3. MakesStory(p)'
      BY <2>2 DEF MakesStory
    <2>4. \A u \in keen[p] : u \in Active /\ Wants(p, u)
      BY <1>0 DEF PubOf, KeenHear
    <2>5. \A u : Wants(p, u) => Wants(p, u)'
      BY <1>2 DEF Wants, Hears, ListUsers, vars
    <2>6. UNCHANGED <<keen, Active>>
      BY DEF ListUsers, vars, Active
    <2>7. KeenHear(p)'
      BY <1>2, <2>4, <2>5, <2>6 DEF KeenHear
    <2> QED
      BY <2>1, <2>3, <2>7 DEF PubOf
  <1> QED
    BY <1>4, <1>5, <1>6, ApartIsEnough

\* A mail to one user, or none.
MailTo(p, u, leftOut) ==
    /\ pub'[p].toMail = pub[p].toMail \ {u}
    /\ pub'[p].at \in {"mailing", "done"}
    /\ pub'[p].at = "done" => pub[p].toMail = {u}
    /\ pub'[p].stories = pub[p].stories
    /\ pub'[p].everyone = pub[p].everyone
    /\ pub'[p] \in PubState
    /\ \A v \in Users \ {u} : jobs'[p][v] = jobs[p][v]
    /\ jobs'[p][u] \in {0, 1}
    /\ leftOut => jobs'[p][u] = 0
    /\ jobs'[p][u] = 1 <=> ~leftOut /\ Wants(p, u)
    /\ keen'[p] = IF leftOut THEN keen[p] \ {u} ELSE keen[p]
    /\ \A q \in Publications \ {p} : /\ pub'[q] = pub[q]
                                     /\ jobs'[q] = jobs[q]
                                     /\ keen'[q] = keen[q]

LEMMA MailFields ==
    ASSUME PubInv, NEW p \in Publications, MailUser(p)
    PROVE  \E u \in pub[p].toMail \cap Users, leftOut \in BOOLEAN :
              MailTo(p, u, leftOut) /\ PubTyped'
  <1>0. pub[p] \in PubState /\ pub[p].at = "mailing" /\ PubOf(p)
    BY DEF MailUser, PubInv, PubTyped
  <1>1. PICK u \in pub[p].toMail, leftOut \in BOOLEAN :
          /\ jobs' = [jobs EXCEPT ![p][u] = IF leftOut THEN @ ELSE @ + JobsFor(p, u)]
          /\ keen' = [keen EXCEPT ![p] = IF leftOut THEN @ \ {u} ELSE @]
          /\ pub' = [pub EXCEPT ![p].toMail = @ \ {u}, ![p].at =
                       IF pub[p].toMail = {u} THEN "done" ELSE @]
    BY DEF MailUser
  <1>2. u \in Users
    BY <1>0 DEF PubState
  <1>3. pub'[p] = [pub[p] EXCEPT !.toMail = @ \ {u}, !.at =
                     IF pub[p].toMail = {u} THEN "done" ELSE @]
    BY <1>1 DEF PubInv, PubTyped
  <1>4. /\ pub'[p].toMail = pub[p].toMail \ {u}
        /\ pub'[p].at \in {"mailing", "done"}
        /\ pub'[p].at = "done" => pub[p].toMail = {u}
        /\ pub'[p].stories = pub[p].stories
        /\ pub'[p].everyone = pub[p].everyone
        /\ pub'[p] \in PubState
    BY <1>0, <1>3 DEF PubState
  <1>5. jobs[p][u] = 0
    BY <1>0, <1>2 DEF PubOf, JobsOf
  <1>6. jobs'[p][u] = IF leftOut THEN 0 ELSE JobsFor(p, u)
    BY <1>1, <1>2, <1>5 DEF PubInv, PubTyped, JobsFor
  <1>7. /\ jobs'[p][u] \in {0, 1}
        /\ leftOut => jobs'[p][u] = 0
        /\ jobs'[p][u] = 1 <=> ~leftOut /\ Wants(p, u)
    BY <1>6 DEF JobsFor, Wants
  <1>8. /\ \A v \in Users \ {u} : jobs'[p][v] = jobs[p][v]
        /\ keen'[p] = IF leftOut THEN keen[p] \ {u} ELSE keen[p]
        /\ \A q \in Publications \ {p} : /\ pub'[q] = pub[q]
                                         /\ jobs'[q] = jobs[q]
                                         /\ keen'[q] = keen[q]
    BY <1>1, <1>2 DEF PubInv, PubTyped
  <1>9. PubTyped'
    <2>1. pub' \in [Publications -> PubState]
      BY <1>1, <1>4, <1>8 DEF PubInv, PubTyped
    <2>2. keen' \in [Publications -> SUBSET Users]
      BY <1>1, <1>8 DEF PubInv, PubTyped
    <2>3. jobs'[p] \in [Users -> Nat]
      <3>1. jobs[p] \in [Users -> Nat]
        BY DEF PubInv, PubTyped
      <3>2. jobs'[p] = [jobs[p] EXCEPT ![u] = jobs'[p][u]]
        BY <1>1, <1>2, <3>1 DEF PubInv, PubTyped
      <3>3. jobs'[p][u] \in Nat
        BY <1>7
      <3> QED
        BY <3>1, <3>2, <3>3
    <2>4. jobs' \in [Publications -> [Users -> Nat]]
      BY <1>1, <1>8, <2>3 DEF PubInv, PubTyped
    <2> QED
      BY <2>1, <2>2, <2>4 DEF PubTyped
  <1>10. MailTo(p, u, leftOut)
    BY <1>4, <1>7, <1>8 DEF MailTo
  <1> QED
    BY <1>2, <1>9, <1>10

LEMMA MailStep ==
    ASSUME PubInv, NEW p \in Publications, MailUser(p)
    PROVE  /\ PubTyped'
           /\ \A q \in Publications : PubOf(q)'
  <1>0. PubOf(p) /\ pub[p].at = "mailing" /\ UNCHANGED vars
    BY DEF MailUser, PubInv
  <1>1. PICK u \in pub[p].toMail \cap Users, leftOut \in BOOLEAN :
              MailTo(p, u, leftOut) /\ PubTyped'
    BY MailFields
  <1>2. PubTyped'
    BY <1>1
  <1> USE DEF MailTo
  <1>3. Apart(p)
    <2> SUFFICES ASSUME NEW q \in Publications \ {p}
                 PROVE  /\ pub'[q] = pub[q]
                        /\ jobs'[q] = jobs[q]
                        /\ saving'[q] = saving[q]
                        /\ KeenKept(q)
      BY DEF Apart
    <2>1. UNCHANGED <<user, note, saving>>
      BY <1>0 DEF vars
    <2>2. keen[q] \subseteq Active
      BY DEF PubInv, PubOf, KeenHear
    <2>3. pub'[q] = pub[q] /\ jobs'[q] = jobs[q] /\ keen'[q] = keen[q]
      BY <1>1
    <2>4. KeenKept(q)
      BY <2>1, <2>2, <2>3 DEF KeenKept, Active, Hears
    <2> QED
      BY <2>1, <2>3, <2>4
  <1>4. Ahead(p)'
    BY <1>1 DEF Ahead
  <1>5. JobsOf(p)'
    <2> SUFFICES ASSUME NEW v \in Users
                 PROVE  /\ v \in pub'[p].toMail => jobs'[p][v] = 0
                        /\ jobs'[p][v] \in {0, 1}
      BY <1>1 DEF JobsOf
    <2>1. CASE v = u
      BY <1>1, <2>1
    <2>2. CASE v # u
      BY <1>0, <1>1, <2>2 DEF PubOf, JobsOf
    <2> QED
      BY <2>1, <2>2
  <1>6. MakesStory(p)'
    <2>1. saving'[p].story = None
      BY <1>0 DEF PubOf, MakesStory, At, vars
    <2> QED
      BY <2>1 DEF MakesStory
  <1>7. KeenHear(p)'
    <2>1. keen'[p] \subseteq keen[p]
      BY <1>1
    <2>2. keen'[p] \subseteq Active'
      BY <1>0, <2>1 DEF PubOf, KeenHear, Active, vars
    <2>3. \A v : Wants(p, v) => Wants(p, v)'
      BY <1>0, <1>1 DEF Wants, Hears, vars
    <2>4. ASSUME NEW v \in keen'[p]
          PROVE  /\ v \in pub'[p].toMail => Wants(p, v)'
                 /\ v \notin pub'[p].toMail => jobs'[p][v] = 1
      <3>0. v \in Users /\ v \in keen[p]
        BY <1>2, <2>1 DEF PubTyped
      <3>1. CASE v = u
        <4>1. ~leftOut
          BY <1>1, <3>1
        <4>2. Wants(p, u)
          BY <1>0, <1>1, <3>0, <3>1 DEF PubOf, KeenHear
        <4>3. v \notin pub'[p].toMail
          BY <1>1, <3>1
        <4> QED
          BY <1>1, <3>1, <4>1, <4>2, <4>3
      <3>2. CASE v # u
        <4>1. v \in pub'[p].toMail <=> v \in pub[p].toMail
          BY <1>1, <3>2
        <4>2. jobs'[p][v] = jobs[p][v]
          BY <1>1, <3>0, <3>2
        <4> QED
          BY <1>0, <2>3, <3>0, <4>1, <4>2 DEF PubOf, KeenHear
      <3> QED
        BY <3>1, <3>2
    <2>5. pub'[p].at = "done" => pub'[p].toMail = {}
      BY <1>1
    <2>6. pub'[p].at \in {"mailing", "done"}
      BY <1>1
    <2> QED
      BY <2>2, <2>4, <2>5, <2>6 DEF KeenHear
  <1> QED
    BY <1>2, <1>3, <1>4, <1>5, <1>6, <1>7, ApartIsEnough DEF PubOf

LEMMA DieStep ==
    ASSUME PubInv, NEW p \in Publications, Die(p)
    PROVE  /\ PubTyped'
           /\ \A q \in Publications : PubOf(q)'
  <1>0. PubOf(p) /\ TypeOK /\ Saves /\ p \in Editors
    BY PublishersAreEditors DEF PubInv, NInv
  <1>1. /\ pub'[p].at = "failed"
        /\ pub'[p].toMail = {}
        /\ pub'[p] \in PubState
        /\ keen'[p] = {}
        /\ UNCHANGED jobs
        /\ \A q \in Publications \ {p} : pub'[q] = pub[q] /\ keen'[q] = keen[q]
    <2>1. <<>> \in Seq({"story", "tweet", "touch", "email"})
      OBVIOUS
    <2> QED
      BY <2>1 DEF Die, Waiting, PubInv, PubTyped, PubState
  <1>2. /\ saving'[p].story = None
        /\ \A f \in Editors \ {p} : saving'[f] = saving[f]
        /\ UNCHANGED <<user, note>>
    <2>1. CASE saving[p] = NoSave
      BY <2>1 DEF Die, vars, NoSave
    <2>2. CASE saving[p] # NoSave
      BY <1>0, <2>2, AbortFields DEF Die
    <2> QED
      BY <2>1, <2>2
  <1>3. PubTyped'
    BY <1>1 DEF Die, PubInv, PubTyped
  <1>4. Apart(p)
    <2> SUFFICES ASSUME NEW q \in Publications \ {p}
                 PROVE  KeenKept(q)
      BY <1>1, <1>2, PublishersAreEditors DEF Apart
    <2>1. keen[q] \subseteq Active
      BY DEF PubInv, PubOf, KeenHear
    <2> QED
      BY <1>1, <1>2, <2>1 DEF KeenKept, Active, Hears
  <1>5. Ahead(p)' /\ MakesStory(p)' /\ KeenHear(p)'
    BY <1>1, <1>2 DEF Ahead, MakesStory, KeenHear
  <1>6. JobsOf(p)'
    BY <1>0, <1>1 DEF PubOf, JobsOf
  <1> QED
    BY <1>3, <1>4, <1>5, <1>6, ApartIsEnough DEF PubOf

\* Saving the new story, and looking for a row of one user.
LEMMA StoryBegins ==
    ASSUME PubInv, NEW p \in Publications, At(p, "story"), StayKeen,
           UNCHANGED <<pub, jobs, user, note>>, PubTyped',
           saving'[p].kind = "create",
           \/ saving'[p].listed = Active
           \/ saving[p].story # None /\ saving'[p].listed = saving[p].listed
    PROVE  PubOf(p)'
  <1>0. PubOf(p)
    BY DEF PubInv
  <1>1. KeenKept(p)
    BY StayKeenKeeps
  <1>2. keen'[p] \subseteq keen[p]
    BY <1>1 DEF KeenKept
  <1>3. At(p, "story")'
    BY DEF At
  <1>4. Ahead(p)' /\ JobsOf(p)'
    BY <1>0 DEF PubOf, Ahead, JobsOf
  <1>5. MakesStory(p)'
    <2>1. keen[p] \subseteq Active
      BY <1>0 DEF PubOf, KeenHear
    <2>2. keen'[p] \subseteq saving'[p].listed
      BY <1>0, <1>2, <2>1 DEF PubOf, MakesStory
    <2> QED
      BY <1>3, <2>2 DEF MakesStory
  <1>6. KeenHear(p)'
    <2>1. keen'[p] \subseteq Active'
      BY <1>0, <1>2 DEF PubOf, KeenHear, Active
    <2>2. pub'[p].at = "busy"
      BY <1>3 DEF At
    <2> QED
      BY <1>3, <2>1, <2>2 DEF KeenHear
  <1> QED
    BY <1>4, <1>5, <1>6 DEF PubOf

\* A new story gives a row to everyone who is keen, to hear of it at once.
LEMMA StoryIsHeard ==
    ASSUME PubInv, NEW p \in Publications, Commit(p), At(p, "story"),
           NEW u \in keen[p]
    PROVE  \E i \in DOMAIN note'[u][saving[p].story] :
              note'[u][saving[p].story][i] = AtOnce
  <1> DEFINE s == saving[p].story
  <1>0. TypeOK /\ Saves /\ p \in Editors /\ u \in Users
    BY PublishersAreEditors DEF PubInv, NInv, PubTyped
  <1>1. s \in Stories /\ saving[p].todo = {} /\ s # None
    BY <1>0, CommitGrows DEF Commit
  <1>2. u \in saving[p].listed /\ saving[p].kind = "create"
    BY <1>1 DEF PubInv, PubOf, MakesStory
  <1>3. ~Exists(s)
    BY <1>0, <1>1, <1>2 DEF Saves, SaveOf
  <1>4. ~HasRow(u, s)
    BY <1>0, <1>1, <1>3 DEF PubInv, NInv, RowsOfStories
  <1>5. LookedFor(p, u)
    BY <1>0 DEF PubInv, NInv, Looked
  <1>6. u \in saving[p].staged
    BY <1>1, <1>2, <1>4, <1>5 DEF LookedFor
  <1>7. note'[u][s] = Append(note[u][s], AtOnce)
    BY <1>0, <1>1, <1>6, CommitEffect DEF RowsAdded
  <1>8. note[u][s] = <<>>
    BY <1>4 DEF HasRow
  <1>9. 1 \in DOMAIN note'[u][s] /\ note'[u][s][1] = AtOnce
    BY <1>7, <1>8
  <1> QED
    BY <1>9

WithStory(r, l, s) ==
    [r EXCEPT !.left = l, !.stories = @ \cup {s}, !.toTouch = @ \cup {s}]

LEMMA WithStoryFields ==
    ASSUME NEW r \in PubState, NEW s \in Stories, NEW l \in Seq(Steps)
    PROVE  /\ WithStory(r, l, s) \in PubState
           /\ WithStory(r, l, s).at = r.at
           /\ WithStory(r, l, s).left = l
           /\ WithStory(r, l, s).stories = r.stories \cup {s}
           /\ WithStory(r, l, s).toMail = r.toMail
           /\ WithStory(r, l, s).everyone = r.everyone
  BY DEF WithStory, PubState, Steps

StoryTaken(p) ==
    pub' = [pub EXCEPT ![p].left = Tail(@),
                       ![p].stories = @ \cup {saving[p].story},
                       ![p].toTouch = @ \cup {saving[p].story}]

LEMMA StoryEnds ==
    ASSUME PubInv, NEW p \in Publications, At(p, "story"), Commit(p), StayKeen,
           UNCHANGED jobs, StoryTaken(p)
    PROVE  PubTyped' /\ PubOf(p)'
  <1>0. /\ TypeOK /\ Saves /\ p \in Editors
        /\ pub[p] \in PubState
        /\ PubOf(p)
        /\ pub[p].at = "busy"
    BY PublishersAreEditors DEF PubInv, NInv, PubTyped, At
  <1>1. /\ pub[p].left # <<>>
        /\ Tail(pub[p].left) \in Suffixes
        /\ Tail(pub[p].left) \in Seq(Steps)
        /\ Head(Tail(pub[p].left)) # "story"
    BY <1>0, PathsEnd DEF PubOf, Ahead, At
  <1>2. saving[p].story \in Stories /\ saving'[p].story = None
    BY <1>0, CommitGrows
  <1>3. PICK l \in Suffixes :
            /\ l \in Seq(Steps)
            /\ Head(l) # "story"
            /\ pub'[p] = WithStory(pub[p], l, saving[p].story)
    <2>1. pub'[p] = WithStory(pub[p], Tail(pub[p].left), saving[p].story)
      BY DEF StoryTaken, PubInv, PubTyped, WithStory
    <2> QED
      BY <1>1, <2>1
  <1>4. /\ pub'[p] \in PubState
        /\ pub'[p].at = pub[p].at
        /\ pub'[p].left = l
        /\ pub'[p].stories = pub[p].stories \cup {saving[p].story}
        /\ pub'[p].toMail = pub[p].toMail
        /\ pub'[p].everyone = pub[p].everyone
    BY <1>0, <1>2, <1>3, WithStoryFields
  <1>5. pub'[p].at = "busy"
    BY <1>0, <1>4
  <1>6. PubTyped'
    <2>1. pub' \in [Publications -> PubState]
      BY <1>4 DEF StoryTaken, PubInv, PubTyped
    <2>2. keen' \in [Publications -> SUBSET Users]
      BY DEF StayKeen, PubInv, PubTyped
    <2> QED
      BY <2>1, <2>2 DEF PubInv, PubTyped
  <1>7. Ahead(p)' /\ JobsOf(p)' /\ MakesStory(p)'
    BY <1>0, <1>2, <1>3, <1>4, <1>5 DEF PubOf, Ahead, JobsOf, MakesStory
  <1>8. KeenHear(p)'
    <2>1. KeenKept(p)
      BY StayKeenKeeps
    <2>2. keen'[p] \subseteq Active'
      BY <1>6, <2>1 DEF KeenKept, Active, PubTyped
    <2>3. ASSUME NEW u \in keen'[p] PROVE Wants(p, u)'
      <3>1. u \in keen[p]
        BY <2>1 DEF KeenKept
      <3>2. \E i \in DOMAIN note'[u][saving[p].story] :
               note'[u][saving[p].story][i] = AtOnce
        BY <3>1, StoryIsHeard
      <3> QED
        BY <1>4, <3>2 DEF Wants, Hears
    <2> QED
      BY <1>5, <2>2, <2>3 DEF KeenHear
  <1> QED
    BY <1>6, <1>7, <1>8 DEF PubOf

LEMMA StoryStep ==
    ASSUME PubInv, NEW p \in Publications, NewStory(p)
    PROVE  /\ PubTyped'
           /\ \A q \in Publications : PubOf(q)'
  <1>0. /\ TypeOK /\ Saves /\ p \in Editors
        /\ At(p, "story")
        /\ StayKeen
        /\ UNCHANGED jobs
    BY PublishersAreEditors DEF PubInv, NInv, NewStory
  <1>1. PubTyped' /\ PubOf(p)' /\ \A q \in Publications \ {p} : pub'[q] = pub[q]
    <2>1. ASSUME UNCHANGED pub PROVE PubTyped'
      BY <1>0, <2>1 DEF StayKeen, PubInv, PubTyped
    <2>2. ASSUME NEW s \in Stories, Save(p, s, "create"), UNCHANGED pub
          PROVE  PubTyped' /\ PubOf(p)'
      <3>1. /\ saving'[p].kind = "create"
            /\ saving'[p].listed = Active
            /\ UNCHANGED <<user, note>>
        BY <1>0, <2>2, SaveFields DEF Kinds
      <3> QED
        BY <1>0, <2>1, <2>2, <3>1, StoryBegins
    <2>3. ASSUME FirstOrCreate(p), UNCHANGED pub
          PROVE  PubTyped' /\ PubOf(p)'
      <3>1. /\ saving[p].story # None
            /\ saving'[p].kind = saving[p].kind
            /\ saving'[p].listed = saving[p].listed
            /\ UNCHANGED <<user, note>>
        BY <1>0, <2>3, FirstOrCreateFields, NoneIsNoStory
      <3>2. saving[p].kind = "create"
        BY <3>1 DEF PubInv, PubOf, MakesStory
      <3> QED
        BY <1>0, <2>1, <2>3, <3>1, <3>2, StoryBegins
    <2>4. ASSUME Commit(p),
                 pub' = [pub EXCEPT ![p].left = Tail(@),
                                    ![p].stories = @ \cup {saving[p].story},
                                    ![p].toTouch = @ \cup {saving[p].story}]
          PROVE  /\ PubTyped' /\ PubOf(p)'
                 /\ \A q \in Publications \ {p} : pub'[q] = pub[q]
      BY <1>0, <2>4, StoryEnds DEF StoryTaken, PubInv, PubTyped
    <2> QED
      BY <2>2, <2>3, <2>4 DEF NewStory
  <1>2. Apart(p)
    <2>1. EditorSteps(p)
      BY DEF NewStory, EditorSteps, Kinds
    <2>2. \A q \in Publications \ {p} : saving'[q] = saving[q]
      BY <1>0, <2>1, SavingOfOthers, PublishersAreEditors
    <2> QED
      BY <1>0, <1>1, <2>2, StayKeenKeeps DEF Apart
  <1> QED
    BY <1>1, <1>2, ApartIsEnough

-----------------------------------------------------------------------------
LEMMA PubInitInvariant ==
    ASSUME PubInit
    PROVE  PubInv
  <1>1. NInv
    BY InitInvariant DEF PubInit
  <1>2. <<>> \in Seq({"story", "tweet", "touch", "email"})
    OBVIOUS
  <1>3. Waiting \in PubState
    BY <1>2 DEF Waiting, PubState
  <1>4. PubTyped
    BY <1>3 DEF PubInit, PubTyped
  <1>5. ASSUME NEW p \in Publications PROVE PubOf(p)
    <2>1. pub[p].at = "waiting" /\ pub[p].toMail = {} /\ keen[p] = {}
      BY DEF PubInit, Waiting
    <2>2. saving[p].story = None
      BY PublishersAreEditors DEF PubInit, Init, NoSave
    <2>3. \A u \in Users : jobs[p][u] = 0
      BY DEF PubInit
    <2> QED
      BY <2>1, <2>2, <2>3 DEF PubOf, Ahead, MakesStory, JobsOf, KeenHear
  <1> QED
    BY <1>1, <1>4, <1>5 DEF PubInv

LEMMA PubStepInvariant ==
    ASSUME PubInv, [PubNext]_allVars
    PROVE  PubInv'
  <1>1. CASE PubNext
    <2>1. NInv'
      BY <1>1, TableSteps, StepInvariant DEF PubInv
    <2>2. PubTyped' /\ \A p \in Publications : PubOf(p)'
      <3>1. CASE Others
        BY <3>1, OthersStep
      <3>2. ASSUME NEW p \in Publications, Publish(p)
            PROVE  PubTyped' /\ \A q \in Publications : PubOf(q)'
        BY <3>2, BeginStep, StoryStep, TweetStep, TouchStep, ListStep, MailStep,
           DieStep DEF Publish
      <3> QED
        BY <1>1, <3>1, <3>2 DEF PubNext
    <2> QED
      BY <2>1, <2>2 DEF PubInv
  <1>2. CASE UNCHANGED allVars
    <2>1. NInv'
      BY <1>2, StepInvariant DEF PubInv, allVars
    <2>2. PubTyped'
      BY <1>2 DEF PubInv, PubTyped, allVars, pubVars
    <2>3. ASSUME NEW p \in Publications PROVE PubOf(p)'
      <3>1. UNCHANGED <<vars, keen>> /\ pub'[p] = pub[p] /\ jobs'[p] = jobs[p]
        BY <1>2 DEF allVars, pubVars
      <3>2. saving'[p] = saving[p]
        BY <3>1 DEF vars
      <3>3. PubOf(p) /\ KeenHear(p)
        BY DEF PubInv, PubOf
      <3>4. KeenKept(p)
        BY <3>1, <3>3, RestKeeps
      <3> QED
        BY <2>2, <3>1, <3>2, <3>3, <3>4, Aside DEF PubInv
    <2> QED
      BY <2>1, <2>2, <2>3 DEF PubInv
  <1> QED
    BY <1>1, <1>2

\* Nobody who has left no row to hear by is mailed but what goes to everyone.
LEMMA QuietStep ==
    ASSUME PubInv, PubNext, NEW p \in Publications, NEW u \in quiet,
           jobs'[p][u] > jobs[p][u]
    PROVE  pub[p].everyone
  <1>0. u \in Users
    BY DEF PubInv, NInv, TypeOK
  <1>1. jobs[p][u] \in Nat
    BY <1>0 DEF PubInv, PubTyped
  <1>2. jobs'[p][u] # jobs[p][u]
    BY <1>1
  <1>3. PICK q \in Publications : MailUser(q)
    BY <1>2 DEF PubNext, Others, Publish, Begin, NewStory, Tweet, TouchStories,
                ListUsers, Die
  <1>4. /\ q = p
        /\ Wants(p, u)
    <2>0. PICK v \in Users, leftOut \in BOOLEAN : MailTo(q, v, leftOut)
      BY <1>3, MailFields
    <2>1. /\ \A w \in Users \ {v} : jobs'[q][w] = jobs[q][w]
          /\ jobs'[q][v] \in {0, 1}
          /\ jobs'[q][v] = 1 <=> ~leftOut /\ Wants(q, v)
          /\ \A r \in Publications \ {q} : jobs'[r] = jobs[r]
      BY <2>0 DEF MailTo
    <2>2. q = p
      BY <1>2, <2>1
    <2>3. v = u
      BY <1>0, <1>2, <2>1, <2>2
    <2>4. jobs[p][u] \in {0, 1} /\ jobs'[p][u] \in {0, 1}
      BY <1>0, <2>1, <2>2, <2>3 DEF PubInv, PubOf, JobsOf
    <2>5. jobs[p][u] # 1
      BY <2>4
    <2>6. jobs'[p][u] = 1
      BY <1>2, <2>4, <2>5
    <2> QED
      BY <2>1, <2>2, <2>3, <2>6
  <1>5. RowsOf(u, {AtOnce}) = {}
    BY <1>0 DEF PubInv, NInv, AllHeeded, Heeded
  <1>6. pub[p].stories \subseteq Stories
    BY DEF PubInv, PubTyped, PubState
  <1>7. ~Hears(u, pub[p].stories)
    <2> SUFFICES ASSUME NEW s \in pub[p].stories, NEW i \in DOMAIN note[u][s],
                        note[u][s][i] = AtOnce
                 PROVE  FALSE
      BY DEF Hears
    <2>1. <<s, i>> \in RowsOf(u, {AtOnce})
      BY <1>6 DEF RowsOf
    <2> QED
      BY <1>5, <2>1
  <1> QED
    BY <1>4, <1>7 DEF Wants

\* PubInv is inductive: what a publication has still to do agrees with who is keen
\* on it, and the table is under it as the first part has it.
THEOREM PublishingInvariant == PubSpec => []PubInv
  <1> QED
    BY PubInitInvariant, PubStepInvariant, PTL DEF PubSpec

\* Publications, their jobs and the table keep their types.
THEOREM PublishingTyped == PubSpec => []PubTypeOK
  <1>1. PubInv => PubTypeOK
    BY DEF PubInv, NInv, PubTyped, PubTypeOK
  <1> QED
    BY <1>1, PublishingInvariant, PTL

\* A publication is a saver of stories as any editor is: what Notifications says of
\* them holds beside it.
THEOREM PublishingIsNotifications == PubSpec => Spec
  <1>1. PubInit => Init
    BY DEF PubInit
  <1>2. PubInv /\ [PubNext]_allVars => [Next]_vars
    BY TableSteps DEF PubInv, allVars
  <1> QED
    BY <1>1, <1>2, PublishingInvariant, PTL DEF PubSpec, Spec

\* However many rows and stories a user has, one publication mails them once.
THEOREM MailedOnce == PubSpec => []OneMailEach
  <1>1. PubInv => OneMailEach
    BY DEF PubInv, PubOf, JobsOf, OneMailEach
  <1> QED
    BY <1>1, PublishingInvariant, PTL

\* Whoever wanted to hear of a publication all along is mailed when it is through,
\* of a story that it has just made too.
THEOREM KeenMailed == PubSpec => []KeenAreMailed
  <1>1. ASSUME PubInv PROVE KeenAreMailed
    <2> SUFFICES ASSUME NEW p \in Publications, pub[p].at = "done", NEW u \in keen[p]
                 PROVE  jobs[p][u] > 0
      BY DEF KeenAreMailed
    <2>1. jobs[p][u] = 1
      BY <1>1 DEF PubInv, PubOf, KeenHear
    <2> QED
      BY <2>1
  <1> QED
    BY <1>1, PublishingInvariant, PTL

\* A link for all rows that was followed to its end keeps its promise until the
\* user, a sign-up or a new story adds a row.
THEOREM QuietSpared == PubSpec => QuietAreSpared
  <1>1. ASSUME PubInv, [PubNext]_allVars
        PROVE  [\A p \in Publications, u \in quiet :
                   jobs'[p][u] > jobs[p][u] => pub[p].everyone]_allVars
    BY <1>1, QuietStep
  <1> QED
    BY <1>1, PublishingInvariant, PTL DEF PubSpec, QuietAreSpared
=============================================================================
