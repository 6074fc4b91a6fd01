--------------------------- MODULE Notifications ---------------------------
(***************************************************************************)
(* Which stories a user wants to hear of, and how: table notifications.    *)
(* Three parts of the program write it and none of them knows of another.  *)
(* A sign-up adds a row for every story, in three queries, by whether the  *)
(* story was active in the last week.  Saving a story adds a row for every *)
(* active user who has none, within the transaction that saves the story.  *)
(* And the user changes rows, one by one or all at once.  The table has no *)
(* unique index, so that all may add a row of the same user and story, and *)
(* a story may fall between the queries of a sign-up.                      *)
(*                                                                         *)
(* A user's rows of a story are a sequence, in the order in which they     *)
(* were added; nothing here removes one.  Editors' forms over the table    *)
(* itself, deleting a story or a user, and the frequency of briefings,     *)
(* which nothing reads, are left out.                                      *)
(***************************************************************************)
EXTENDS Naturals, Sequences, FiniteSets

CONSTANTS
    Users,       \* the people, signed up or not
    Stories,     \* the stories there may be
    KeyStories,  \* the four that matter even when nothing happens
    Editors,     \* requests of editors that save stories
    Ways,        \* the links for all rows that a user follows
    None         \* no story

ASSUME KeysAreStories == KeyStories \subseteq Stories
ASSUME NoneIsNoStory  == None \notin Stories

VARIABLES
    story,      \* whether a story is there, and was active in the last week
    user,       \* whether a user is there, and gets e-mails
    note,       \* table notifications: types of the rows of a user and story
    signUp,     \* set_briefings_and_stories of every user
    saving,     \* the transactions of story_notifications
    switching,  \* all_off and all_to_briefings of every user
    missed,     \* history: users and stories that passed each other
    overlapped, \* history: users and stories that two requests looked after
    quiet       \* history: users who have left no row to hear of at once

vars == <<story, user, note, signUp, saving, switching, missed, overlapped, quiet>>

-----------------------------------------------------------------------------
AtOnce   == 1    \* notificationtype_id: an e-mail for each article
Briefing == 2
Off      == 3
Types    == {AtOnce, Briefing, Off}

StoryState == {"absent", "fresh", "old"}
UserState  == {"absent", "active", "gone"}

\* turn: the queries made so far.  todo: stories found and not yet added.
SignUpState == [turn : 0 .. 3, todo : SUBSET Stories, failed : BOOLEAN]
NotBegun    == [turn |-> 0, todo |-> {}, failed |-> FALSE]
AllAdded    == [turn |-> 3, todo |-> {}, failed |-> FALSE]

\* A form sent back unchanged updates no row and locks none, and yet runs the
\* callbacks.
Kinds == {"create", "change", "same"}
SaveState ==
    [story : Stories \cup {None}, kind : Kinds, listed : SUBSET Users,
     todo : SUBSET Users, staged : SUBSET Users]
NoSave ==
    [story |-> None, kind |-> "same", listed |-> {}, todo |-> {}, staged |-> {}]

\* The requests of a user for all rows: rows still to be changed, and whether
\* none was added or switched on since they were looked up.
ASSUME WaysAssumption == Ways \subseteq {Briefing, Off}

Row  == Stories \X (Nat \ {0})
SwitchState   == [todo : SUBSET Row, clean : BOOLEAN]
NotSwitching  == [todo |-> {}, clean |-> FALSE]

Exists(s)  == story[s] # "absent"
Active     == {u \in Users : user[u] = "active"}
SigningUp(u) ==
    user[u] # "absent" /\ ~signUp[u].failed /\ signUp[u] # AllAdded
Between(u) == SigningUp(u) /\ signUp[u].turn \in 1 .. 2

\* Storing the row of a story that is being changed waits for its transaction.
Locked(s) == \E e \in Editors : saving[e].story = s /\ saving[e].kind = "change"

HasRow(u, s) == note[u][s] # <<>>
RowsOf(u, types) ==
    {r \in UNION {{s} \X DOMAIN note[u][s] : s \in Stories} :
        note[u][r[1]][r[2]] \in types}

\* Some users have been there for long, with a row for every story.
Init ==
    /\ story \in [Stories -> StoryState]
    /\ user \in [Users -> {"absent", "active"}]
    /\ note = [u \in Users |-> [s \in Stories |->
                 IF user[u] = "active" /\ Exists(s) THEN <<AtOnce>> ELSE <<>>]]
    /\ signUp = [u \in Users |-> IF user[u] = "active" THEN AllAdded ELSE NotBegun]
    /\ saving = [e \in Editors |-> NoSave]
    /\ switching = [u \in Users |-> [w \in Ways |-> NotSwitching]]
    /\ missed = {}
    /\ overlapped = {}
    /\ quiet = {}

-----------------------------------------------------------------------------
(***************************************************************************)
(* The history.                                                            *)
(***************************************************************************)
\* Rows of these users have been added, or switched on.
Heard(us) ==
    /\ quiet' = quiet \ us
    /\ switching' = [u \in Users |-> IF u \notin us THEN switching[u] ELSE
                       [w \in Ways |-> [switching[u][w] EXCEPT !.clean = FALSE]]]

(***************************************************************************)
(* A sign-up: set_briefings_and_stories.                                   *)
(***************************************************************************)
\* The user has a row and a role; Purchases has how.
Join(u) ==
    /\ user[u] = "absent"
    /\ user' = [user EXCEPT ![u] = "active"]
    /\ UNCHANGED <<story, note, signUp, saving, switching, missed, overlapped, quiet>>

\* Deliberate mistake: keystories in the third query as well as in the second.
FoundKeysTwice(i) ==
    {s \in Stories : CASE i = 1 -> story[s] = "fresh"
                       [] i = 2 -> story[s] = "old" /\ s \in KeyStories
                       [] i = 3 -> story[s] = "old" /\ s \in KeyStories}

\* Story.nowactive, then notnowactive.keystories, then notnowactive.notkeystories
Found(i) ==
    {s \in Stories : CASE i = 1 -> story[s] = "fresh"
                       [] i = 2 -> story[s] = "old" /\ s \in KeyStories
                       [] i = 3 -> story[s] = "old" /\ s \notin KeyStories}

Query(u) ==
    /\ SigningUp(u)
    /\ signUp[u].todo = {}
    /\ signUp[u].turn < 3
    /\ signUp' = [signUp EXCEPT ![u].turn = @ + 1,
                                ![u].todo = Found(signUp[u].turn + 1)]
    /\ UNCHANGED <<story, user, note, saving, switching, missed, overlapped, quiet>>

TypeIn(turn) == IF turn = 3 THEN Briefing ELSE AtOnce

AddRow(u) ==
    /\ SigningUp(u)
    /\ \E s \in signUp[u].todo :
        /\ signUp' = [signUp EXCEPT ![u].todo = @ \ {s}]
        /\ note' = [note EXCEPT ![u][s] = Append(@, TypeIn(signUp[u].turn))]
    /\ Heard({u})
    /\ UNCHANGED <<story, user, saving, missed, overlapped>>

\* The request dies; nothing takes it up again.
GiveUp(u) ==
    /\ SigningUp(u)
    /\ signUp' = [signUp EXCEPT ![u].failed = TRUE, ![u].todo = {}]
    /\ UNCHANGED <<story, user, note, saving, switching, missed, overlapped, quiet>>

\* The role becomes deleted or subscriber_cancelled.
Leave(u) ==
    /\ user[u] = "active"
    /\ user' = [user EXCEPT ![u] = "gone"]
    /\ UNCHANGED <<story, note, signUp, saving, switching, missed, overlapped, quiet>>

-----------------------------------------------------------------------------
(***************************************************************************)
(* Saving a story: story_notifications, inside the transaction of the save.*)
(* Others see neither the story nor the rows before it is committed.       *)
(***************************************************************************)
\* The row of the story is written and locked, and User.active is asked.
Save(e, s, kind) ==
    /\ saving[e] = NoSave
    /\ IF kind = "create"
         THEN ~Exists(s) /\ \A f \in Editors : saving[f].story # s
         ELSE Exists(s) /\ (kind = "change" => ~Locked(s))
    /\ saving' = [saving EXCEPT ![e] =
                    [story |-> s, kind |-> kind, listed |-> Active,
                     todo |-> Active, staged |-> {}]]
    /\ UNCHANGED <<story, user, note, signUp, switching, missed, overlapped, quiet>>

\* Another transaction may add a row of the same user and story.
OthersSave(e, u) ==
    \E f \in Editors \ {e} :
        saving[f].story = saving[e].story /\ u \in saving[f].listed

\* Deliberate mistake: create, without looking for a row first.
WantingAlways(u, s) == TRUE

Wanting(u, s) == ~HasRow(u, s)

\* u.notifications.where(story_id: self.id).first_or_create
FirstOrCreate(e) ==
    \E u \in saving[e].todo :
        /\ saving' = [saving EXCEPT
                        ![e].todo = @ \ {u},
                        ![e].staged = IF Wanting(u, saving[e].story)
                                        THEN @ \cup {u} ELSE @]
        /\ overlapped' = IF SigningUp(u) \/ OthersSave(e, u)
                           THEN overlapped \cup {<<u, saving[e].story>>}
                           ELSE overlapped
        /\ UNCHANGED <<story, user, note, signUp, switching, missed, quiet>>

\* Those who were not listed, have asked for the stories that were fresh, and
\* could not see this one.
PassedBy(e) == {u \in Users \ saving[e].listed : signUp[u].turn >= 1}

Commit(e) ==
    LET s == saving[e].story IN
    /\ s # None
    /\ saving[e].todo = {}
    /\ story' = [story EXCEPT ![s] = IF saving[e].kind = "same" THEN @ ELSE "fresh"]
    /\ note' = [u \in Users |->
                  IF u \notin saving[e].staged THEN note[u]
                  ELSE [note[u] EXCEPT ![s] = Append(@, AtOnce)]]
    /\ Heard(saving[e].staged)
    /\ missed' = (missed \cup IF saving[e].kind = "same" THEN {} ELSE PassedBy(e) \X {s})
                 \ (saving[e].listed \X {s})
    /\ saving' = [saving EXCEPT ![e] = NoSave]
    /\ UNCHANGED <<user, signUp, overlapped>>

\* The request dies, and the transaction with it.
Abort(e) ==
    /\ saving[e] # NoSave
    /\ saving' = [saving EXCEPT ![e] = NoSave]
    /\ UNCHANGED <<story, user, note, signUp, switching, missed, overlapped, quiet>>

\* stories_last_active, when an article is published: touch runs no callback.
Touch(s) ==
    /\ Exists(s)
    /\ ~Locked(s)
    /\ story' = [story EXCEPT ![s] = "fresh"]
    /\ missed' = missed \cup {u \in Users : Between(u)} \X {s}
    /\ UNCHANGED <<user, note, signUp, saving, switching, overlapped, quiet>>

\* A week has gone by.
Age(s) ==
    /\ story[s] = "fresh"
    /\ story' = [story EXCEPT ![s] = "old"]
    /\ overlapped' = overlapped \cup {u \in Users : Between(u)} \X {s}
    /\ UNCHANGED <<user, note, signUp, saving, switching, missed, quiet>>

-----------------------------------------------------------------------------
(***************************************************************************)
(* The links in the e-mails.                                               *)
(***************************************************************************)
\* update_type: one row.
UpdateType(u, r, type) ==
    /\ r \in RowsOf(u, Types)
    /\ note' = [note EXCEPT ![u][r[1]][r[2]] = type]
    /\ IF type = AtOnce THEN Heard({u}) ELSE UNCHANGED <<quiet, switching>>
    /\ UNCHANGED <<story, user, signUp, saving, missed, overlapped>>

\* Deliberate mistake: as update_type does it, by the first row of each story.
ToChangeFirstRows(u, way) ==
    {r \in RowsOf(u, Types \ {way}) : r[2] = 1}

\* all_off, all_to_briefings: the rows are looked up, and then changed in turn.
ToChange(u, way) == RowsOf(u, Types \ {way})

Finish(u, clean) == quiet' = IF clean THEN quiet \cup {u} ELSE quiet

Switch(u, way) ==
    /\ switching[u][way].todo = {}
    /\ user[u] # "absent"
    /\ switching' = [switching EXCEPT ![u][way] =
                       [todo |-> ToChange(u, way), clean |-> TRUE]]
    /\ IF ToChange(u, way) = {} THEN Finish(u, TRUE) ELSE UNCHANGED quiet
    /\ UNCHANGED <<story, user, note, signUp, saving, missed, overlapped>>

SwitchRow(u, way) ==
    LET sw == switching[u][way] IN
    \E r \in sw.todo :
        /\ note' = [note EXCEPT ![u][r[1]][r[2]] = way]
        /\ switching' = [switching EXCEPT ![u][way].todo = @ \ {r}]
        /\ IF sw.todo = {r} THEN Finish(u, sw.clean) ELSE UNCHANGED quiet
        /\ UNCHANGED <<story, user, signUp, saving, missed, overlapped>>

-----------------------------------------------------------------------------
UserSteps ==
    \E u \in Users :
        \/ Join(u) \/ Query(u) \/ AddRow(u) \/ GiveUp(u) \/ Leave(u)
        \/ \E r \in RowsOf(u, Types), type \in Types : UpdateType(u, r, type)
        \/ \E way \in Ways : Switch(u, way) \/ SwitchRow(u, way)

EditorSteps(e) ==
    \/ \E s \in Stories, kind \in Kinds : Save(e, s, kind)
    \/ FirstOrCreate(e) \/ Commit(e) \/ Abort(e)

Next ==
    \/ UserSteps
    \/ \E e \in Editors : EditorSteps(e)
    \/ \E s \in Stories : Touch(s) \/ Age(s)

Spec == Init /\ [][Next]_vars

-----------------------------------------------------------------------------
TypeOK ==
    /\ story \in [Stories -> StoryState]
    /\ user \in [Users -> UserState]
    /\ note \in [Users -> [Stories -> Seq(Types)]]
    /\ signUp \in [Users -> SignUpState]
    /\ saving \in [Editors -> SaveState]
    /\ switching \in [Users -> [Ways -> SwitchState]]
    /\ \A u \in Users, w \in Ways : switching[u][w].todo \subseteq RowsOf(u, Types)
    /\ missed \cup overlapped \subseteq Users \X Stories
    /\ quiet \subseteq Users

\* Whoever is active and has signed up without failing has a row for every
\* story there is, but for a story that was saved or touched between the
\* queries of the sign-up, or saved by a transaction that had asked for the
\* users before this one was there; and the next save of the story repairs it.
EveryStoryCovered ==
    \A u \in Active, s \in Stories :
        signUp[u] = AllAdded /\ Exists(s) /\ <<u, s>> \notin missed => HasRow(u, s)

\* The table has no unique index.  Still a user has two rows for a story only
\* when the story aged between the queries of the sign-up, or a transaction
\* that saved it looked for the row while the sign-up, or another such
\* transaction, was under way.
DuplicatesNeedOverlap ==
    \A u \in Users, s \in Stories :
        Len(note[u][s]) > 1 => <<u, s>> \in overlapped
=============================================================================
