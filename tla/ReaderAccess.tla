----------------------------- MODULE ReaderAccess -----------------------------
(***************************************************************************)
(* What one reader may read, and the story that a subscriber to one story  *)
(* has chosen.  All of it is in the reader's row: the role, the access     *)
(* date, the story and the date of the choice.  Subscription handlers      *)
(* write role and access date (SubscriptionLifecycle, Purchases, Seats),   *)
(* the reader's page MyTSR the story, and editors whatever they like.      *)
(* Only the page, when it is drawn, applies the rule that a story is       *)
(* chosen once a month; nothing does when it is sent.                      *)
(*                                                                         *)
(* Publishing asks the row which of four texts a mail is to have.  It      *)
(* loads all users before the first mail, and reads the clock at each.     *)
(*                                                                         *)
(* Time is counted in units of which Grace are five minutes and Month are  *)
(* thirty days.                                                            *)
(***************************************************************************)
EXTENDS Naturals

CONSTANTS
    Stories,   \* the stories
    Pages,     \* copies of the page MyTSR that the reader keeps open
    Mailings,  \* publications under way
    Grace,     \* five minutes to think better of a choice
    Month,     \* thirty days
    Period,    \* what a payment is good for
    LastTime,  \* a bound: time stops there
    None       \* nothing there

ASSUME TimesAssumption == {Grace, Month, Period, LastTime} \subseteq Nat
ASSUME NoneAssumption  == None \notin Stories \cup Nat

VARIABLES
    now,      \* the time
    user,     \* the reader's row
    page,     \* the pages
    mailing,  \* the mail that each publication has for the reader
    changed   \* history: publications since whose listing the row was written

vars == <<now, user, page, mailing, changed>>

-----------------------------------------------------------------------------
\* The roles of who is mailed.  As far as this goes editors are as staff, guests
\* as readers, and the older kinds of subscribers as those to all stories.
Roles == {"reader", "subscriber_one_story", "subscriber_all_stories",
          "subscriber_paused", "staff"}

Time == Nat \cup {None}

\* access: access_date.  story, date: one_story_id and one_story_date.
UserRow == [role : Roles, access : Time, story : Stories \cup {None}, date : Time]

\* A page with the select of stories.  story: what it shows, and then what it
\* sends.  seen, soon: history, with which date of the choice it was drawn, and
\* whether less than five minutes after it.
PageState ==
    [state : {"closed", "open", "sent"}, story : Stories \cup {None},
     seen : Time, soon : BOOLEAN]

Texts == {"none", "full", "subscribe", "resubscribe", "upgrade"}

\* listed: the row as it was loaded; nobody looks at the date of the choice.
\* due: history, whether the reader could read all of it at that time.
\* text: of the mail, once it was made.
MailingState ==
    [state : {"idle", "listed"}, stories : SUBSET Stories, listed : UserRow,
     due : BOOLEAN, text : Texts]

NewReader == [role |-> "reader", access |-> None, story |-> None, date |-> None]
Closed == [state |-> "closed", story |-> None, seen |-> None, soon |-> FALSE]
NoMail == [state |-> "idle", stories |-> {}, listed |-> NewReader, due |-> FALSE,
           text |-> "none"]

\* Of a reader the site may have no date, or have given thirty days.
Init ==
    /\ now = 1
    /\ \E access \in {None, 1 + Period} :
          user = [NewReader EXCEPT !.access = access]
    /\ page = [p \in Pages |-> Closed]
    /\ mailing = [m \in Mailings |-> NoMail]
    /\ changed = {}

Listed == {m \in Mailings : mailing[m].state = "listed"}

Tick ==
    /\ now < LastTime
    /\ now' = now + 1
    /\ UNCHANGED <<user, page, mailing, changed>>

-----------------------------------------------------------------------------
(* The subscription handlers and editors, as far as the row goes.          *)

Write(row) ==
    /\ user' = row
    /\ changed' = changed \cup Listed
    /\ UNCHANGED <<now, page, mailing>>

Grant(role, access) == Write([user EXCEPT !.role = role, !.access = access])

\* one_story, all_stories, link_by_account_boss; and new_subscription, which
\* writes the role first and the date later.
Subscribe ==
    \E role \in {"subscriber_one_story", "subscriber_all_stories"},
       access \in {user.access, now + Period} : Grant(role, access)

\* pause, and unlink_by_account_boss
Stop == \E role \in {"subscriber_paused", "reader"} : Grant(role, now)

\* get_subscription_history: the end of some period, whatever the role
Import == \E access \in {now, now + Period} : Grant(user.role, access)

\* users#update by an editor, whose page has fields for all four and sends what
\* it was drawn with: old values as well as new ones.  Columns change one by one
\* here; a form that changes several is as many of these steps in a row.
EditorSaves ==
    \/ \E role \in Roles : Grant(role, user.access)
    \/ \E access \in {None, now + Period} : Grant(user.role, access)
    \/ \E date \in {None} \cup 0 .. now : Write([user EXCEPT !.date = date])
    \/ \E story \in Stories \ {user.story} :
          Write([user EXCEPT !.story = story, !.date = now])

-----------------------------------------------------------------------------
(* The page.                                                               *)

\* Deliberate mistake: five minutes in place of thirty days.
MayChooseSoon ==
    user.date # None =>
        user.date + Grace < now \/ user.date + Grace > now

\* one_story_date.blank? || < 30.days.ago || > 5.minutes.ago
MayChoose ==
    user.date # None =>
        user.date + Month < now \/ user.date + Grace > now

\* What the select shows: a blank to who has never chosen, and the first of all
\* stories where there is none to show and no blank.
Shown(first) ==
    CASE user.date = None  -> None
      [] user.story = None /\ user.date # None -> first
      [] OTHER -> user.story

\* users#edit.  Otherwise the page sends no story: the select is disabled or absent.
Edit(p, first) ==
    /\ page[p].state = "closed"
    /\ user.role = "subscriber_one_story" /\ MayChoose
    /\ page' = [page EXCEPT ![p] =
                  [state |-> "open", story |-> Shown(first), seen |-> user.date,
                   soon |-> user.date # None /\ user.date + Grace > now]]
    /\ UNCHANGED <<now, user, mailing, changed>>

\* users#update: the request loads the row, which the page's story differs from.
Send(p, story) ==
    /\ page[p].state = "open" /\ story # user.story
    /\ page' = [page EXCEPT ![p].state = "sent", ![p].story = story]
    /\ UNCHANGED <<now, user, mailing, changed>>

\* It writes the story, and check_one_story_date the date.
Save(p) ==
    /\ page[p].state = "sent"
    /\ user' = [user EXCEPT !.story = page[p].story, !.date = now]
    /\ page' = [page EXCEPT ![p] = Closed]
    /\ changed' = changed \cup Listed
    /\ UNCHANGED <<now, mailing>>

\* The page is left or changes nothing; a validation of another field fails, or
\* the request dies.
Leave(p) ==
    /\ page[p].state # "closed"
    /\ page' = [page EXCEPT ![p] = Closed]
    /\ UNCHANGED <<now, user, mailing, changed>>

-----------------------------------------------------------------------------
(* Publishing.                                                             *)

\* Deliberate mistake: the story is not looked at.
TextOfAnyStory(row, stories) ==
    IF row.access = None \/ (row.access >= now /\ row.role # "subscriber_paused")
    THEN "full" ELSE "none"

\* Deliberate mistake: the last moment of the access is lost.
TextBeforeTheEnd(row, stories) ==
    CASE row.access # None /\ row.access <= now -> "resubscribe"
      [] row.access = None -> "full"
      [] OTHER -> IF row.role = "subscriber_one_story" /\ row.story \notin stories
                  THEN "upgrade" ELSE "full"

\* emailarticles and newsitems' email, for who wants to hear of the stories.
TextFor(row, stories) ==
    CASE row.access = None -> "full"
      [] row.access # None /\ row.access < now ->
           CASE row.role = "reader" -> "subscribe"
             [] row.role = "staff"  -> "none"
             [] OTHER               -> "resubscribe"
      [] OTHER ->
           CASE row.role = "subscriber_one_story" ->
                    IF row.story \in stories THEN "full" ELSE "upgrade"
             [] row.role = "subscriber_paused" -> "none"
             [] OTHER -> "full"

\* May the reader read all of an article about these stories?
Entitled(row, stories) ==
    row.access # None =>
        /\ now <= row.access
        /\ row.role # "subscriber_paused"
        /\ row.role = "subscriber_one_story" => row.story \in stories

\* User.active.each loads every row, to mail who is notified of one of the stories.
List(m, stories) ==
    /\ mailing[m].state = "idle"
    /\ mailing' = [mailing EXCEPT ![m] =
                     [state |-> "listed", stories |-> stories,
                      listed |-> [user EXCEPT !.date = None],
                      due |-> Entitled(user, stories), text |-> "none"]]
    /\ changed' = changed \ {m}
    /\ UNCHANGED <<now, user, page>>

\* The reader's turn.
Mail(m) ==
    /\ mailing[m].state = "listed"
    /\ mailing' = [mailing EXCEPT ![m] =
                     [NoMail EXCEPT !.due = mailing[m].due,
                         !.text = TextFor(mailing[m].listed, mailing[m].stories)]]
    /\ UNCHANGED <<now, user, page, changed>>

-----------------------------------------------------------------------------
RowSteps == Subscribe \/ Stop \/ Import \/ EditorSaves

Next ==
    \/ Tick
    \/ RowSteps
    \/ \E p \in Pages :
          \/ \E first \in Stories : Edit(p, first)
          \/ \E story \in Stories \cup {page[p].story} : Send(p, story)
          \/ Save(p) \/ Leave(p)
    \/ \E m \in Mailings :
          \/ \E stories \in SUBSET Stories \ {{}} : List(m, stories)
          \/ Mail(m)

Spec == Init /\ [][Next]_vars

-----------------------------------------------------------------------------
(* What must hold.                                                         *)

\* Every variable keeps its type: whoever writes the row, its role is a role.
TypeOK ==
    /\ now \in Nat
    /\ user \in UserRow
    /\ page \in [Pages -> PageState]
    /\ mailing \in [Mailings -> MailingState]
    /\ changed \subseteq Mailings

\* The row is old and the clock is new when emailarticles chooses a text; who
\* gets the full one was entitled to it when the publication began to mail.
FullTextWasDue ==
    \A m \in Mailings : mailing[m].text = "full" => mailing[m].due

\* Who may read is not mailed an offer, or nothing, but for a row that was
\* written after emailarticles had loaded it.
EntitledAreMailed ==
    [][\A m \in Mailings :
          /\ mailing[m].state = "listed" /\ mailing'[m].state = "idle"
          /\ m \notin changed /\ Entitled(user, mailing[m].stories)
          => mailing'[m].text = "full"]_vars

\* The reader's page saves a story, after another was chosen.
Chooses(p) ==
    /\ page[p].state = "sent" /\ page'[p].state = "closed"
    /\ user.date # None /\ user'.story # user.story

Early == user.date + Grace < now /\ now < user.date + Month

\* A month's rule that is applied when users/_form is drawn: only a page from
\* before the last choice, or from the five minutes after it, can break it; a
\* page drawn later, however long it is kept, cannot.
EarlyChoiceFromOldPage ==
    [][\A p \in Pages : Chooses(p) /\ Early =>
          page[p].seen # user.date \/ page[p].soon]_vars
=============================================================================
