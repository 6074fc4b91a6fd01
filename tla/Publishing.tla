----------------------------- MODULE Publishing -----------------------------
(***************************************************************************)
(* Publishing an article or an update to one: the request makes a story of *)
(* breaking news, tweets, marks the stories as active, and makes a mail    *)
(* job for every user who wants to hear of one of them, while sign-ups,    *)
(* other editors and the users themselves change table notifications       *)
(* (module Notifications, which this one extends).  Nothing of it is in a  *)
(* transaction but the saving of the new story, and a request that dies    *)
(* half-way is not taken up again.                                         *)
(*                                                                         *)
(* Which of four texts a mail has depends on the user's role and access    *)
(* date and is left out, but for those that leave a user without mail.  So *)
(* are drafts, tests and mails to nobody, which make no job for a reader,  *)
(* and the lists of all subscribers, whose scope is not defined.           *)
(***************************************************************************)
EXTENDS Notifications

CONSTANT Publications  \* requests that publish

ASSUME PublishersAreEditors == Publications \subseteq Editors

VARIABLES
    pub,   \* the requests
    jobs,  \* mail jobs made, of every publication and user
    keen   \* history: users who want to hear of a publication all along

pubVars == <<pub, jobs, keen>>
allVars == <<vars, pubVars>>

-----------------------------------------------------------------------------
\* articles#create when it makes a story, the same and articles#update when it
\* does not, and newsitems#create and update.
Paths ==
    {<<"story", "tweet", "touch", "email">>, <<"tweet", "touch", "email">>,
     <<"touch", "tweet", "email">>}

\* left: steps still to be made.  toTouch, toMail: stories and users that a step
\* has still to do.  everyone: the mail goes to all, whatever they asked for.
PubState ==
    [at : {"waiting", "busy", "mailing", "done", "failed"},
     left : Seq({"story", "tweet", "touch", "email"}),
     stories : SUBSET Stories, toTouch : SUBSET Stories,
     toMail : SUBSET Users, everyone : BOOLEAN]

Waiting ==
    [at |-> "waiting", left |-> <<>>, stories |-> {}, toTouch |-> {},
     toMail |-> {}, everyone |-> FALSE]

\* Deliberate mistake: the query without notificationtype_id.
HearsAny(u, ss) == \E s \in ss : HasRow(u, s)

Hears(u, ss) == \E s \in ss : \E i \in DOMAIN note[u][s] : note[u][s][i] = AtOnce

PubInit ==
    /\ Init
    /\ pub = [p \in Publications |-> Waiting]
    /\ jobs = [p \in Publications |-> [u \in Users |-> 0]]
    /\ keen = [p \in Publications |-> {}]

-----------------------------------------------------------------------------
\* Who leaves, or has no row left that they heard by, is not keen any more.
StayKeen ==
    keen' = [p \in Publications |->
               {u \in keen[p] : /\ user'[u] = "active"
                                /\ Hears(u, pub[p].stories)
                                     => Hears(u, pub[p].stories)'}]

At(p, step) == pub[p].at = "busy" /\ pub[p].left # <<>> /\ Head(pub[p].left) = step

Advance(p) == pub' = [pub EXCEPT ![p].left = Tail(@)]

\* The form is sent and the article saved.  BLOGs, and free updates, go to all.
Begin(p, path, ss, everyone) ==
    /\ pub[p].at = "waiting"
    /\ \A s \in ss : Exists(s)
    /\ pub' = [pub EXCEPT ![p] =
                 [Waiting EXCEPT !.at = "busy", !.left = path, !.stories = ss,
                                 !.toTouch = ss, !.everyone = everyone]]
    /\ keen' = [keen EXCEPT ![p] =
                  {u \in Active : everyone \/ Hears(u, ss) \/ Head(path) = "story"}]
    /\ UNCHANGED <<vars, jobs>>

\* Deliberate mistake: the story is made and is not the article's.
NewStoryAlone(p) ==
    /\ At(p, "story")
    /\ \/ (\E s \in Stories : Save(p, s, "create")) /\ UNCHANGED pub
       \/ FirstOrCreate(p) /\ UNCHANGED pub
       \/ Commit(p) /\ Advance(p)
    /\ StayKeen
    /\ UNCHANGED jobs

\* new_breaking_story: Story#save as in Notifications, and then the article's
\* list of stories.
NewStory(p) ==
    /\ At(p, "story")
    /\ \/ /\ \E s \in Stories : Save(p, s, "create")
          /\ UNCHANGED pub
       \/ /\ FirstOrCreate(p)
          /\ UNCHANGED pub
       \/ /\ Commit(p)
          /\ pub' = [pub EXCEPT ![p].left = Tail(@),
                                ![p].stories = @ \cup {saving[p].story},
                                ![p].toTouch = @ \cup {saving[p].story}]
    /\ StayKeen
    /\ UNCHANGED jobs

Tweet(p) ==
    /\ At(p, "tweet")
    /\ Advance(p)
    /\ UNCHANGED <<vars, jobs, keen>>

\* stories_last_active
TouchStories(p) ==
    /\ At(p, "touch")
    /\ \/ /\ \E s \in pub[p].toTouch :
              /\ Touch(s)
              /\ pub' = [pub EXCEPT ![p].toTouch = @ \ {s}]
          /\ StayKeen
       \/ /\ pub[p].toTouch = {}
          /\ Advance(p)
          /\ UNCHANGED <<vars, keen>>
    /\ UNCHANGED jobs

\* User.active.each
ListUsers(p) ==
    /\ At(p, "email")
    /\ pub' = [pub EXCEPT ![p].toMail = Active, ![p].left = <<>>, ![p].at =
                 IF Active = {} THEN "done" ELSE "mailing"]
    /\ UNCHANGED <<vars, jobs, keen>>

\* Deliberate mistake: the query without first(1).
JobsForEachRow(p, u) ==
    IF pub[p].everyone THEN 1
    ELSE Cardinality({r \in RowsOf(u, {AtOnce}) : r[1] \in pub[p].stories})

\* Notification.where(...).first(1).each, of the rows of a user and the stories
JobsFor(p, u) == IF pub[p].everyone \/ Hears(u, pub[p].stories) THEN 1 ELSE 0

\* A user may be left out: who has paused with access left, and staff whose
\* access has run out.
MailUser(p) ==
    /\ pub[p].at = "mailing"
    /\ \E u \in pub[p].toMail, leftOut \in BOOLEAN :
        /\ leftOut => ~pub[p].everyone
        /\ jobs' = [jobs EXCEPT ![p][u] = IF leftOut THEN @ ELSE @ + JobsFor(p, u)]
        /\ keen' = [keen EXCEPT ![p] = IF leftOut THEN @ \ {u} ELSE @]
        /\ pub' = [pub EXCEPT ![p].toMail = @ \ {u}, ![p].at =
                     IF pub[p].toMail = {u} THEN "done" ELSE @]
    /\ UNCHANGED vars

\* Twitter, the database or the server fails, and the transaction with it.
Die(p) ==
    /\ pub[p].at \in {"busy", "mailing"}
    /\ pub' = [pub EXCEPT ![p] = [Waiting EXCEPT !.at = "failed"]]
    /\ IF saving[p] = NoSave THEN UNCHANGED vars ELSE Abort(p)
    /\ keen' = [keen EXCEPT ![p] = {}]
    /\ UNCHANGED jobs

-----------------------------------------------------------------------------
Others ==
    /\ \/ UserSteps
       \/ \E e \in Editors \ Publications : EditorSteps(e)
       \/ \E s \in Stories : Age(s)
    /\ UNCHANGED <<pub, jobs>>
    /\ StayKeen

Publish(p) ==
    \/ \E path \in Paths, ss \in SUBSET Stories, everyone \in BOOLEAN :
          Begin(p, path, ss, everyone)
    \/ NewStory(p) \/ Tweet(p) \/ TouchStories(p)
    \/ ListUsers(p) \/ MailUser(p) \/ Die(p)

PubNext == Others \/ \E p \in Publications : Publish(p)

PubSpec == PubInit /\ [][PubNext]_allVars

-----------------------------------------------------------------------------
PubTypeOK ==
    /\ TypeOK
    /\ pub \in [Publications -> PubState]
    /\ jobs \in [Publications -> [Users -> Nat]]
    /\ keen \in [Publications -> SUBSET Users]

\* The table may hold a user's row for a story twice, and a user may hear of
\* several stories of an article; a publication mails nobody twice.
OneMailEach ==
    \A p \in Publications, u \in Users : jobs[p][u] <= 1

\* Who was active when the form was sent, wanted to hear of one of the stories
\* (everybody does of one that is yet to be made), and neither left nor changed
\* it since, has a mail when the request is through.
KeenAreMailed ==
    \A p \in Publications : pub[p].at = "done" =>
        \A u \in keen[p] : jobs[p][u] > 0

\* Whoever followed the link for no e-mails, or for briefings, to its end is
\* mailed nothing, but what goes to everyone, until a story is made for which
\* they have no row, or they ask for it.
QuietAreSpared ==
    [][\A p \in Publications, u \in quiet :
          jobs'[p][u] > jobs[p][u] => pub[p].everyone]_allVars
=============================================================================
