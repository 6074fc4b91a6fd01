------------------------------- MODULE Feeds -------------------------------
(***************************************************************************)
(* The feeds of other newspapers and their entries.  A hub, Superfeedr,    *)
(* reads the feeds and calls back for every one it is subscribed to, by    *)
(* the feed's id and with the entries that are new.  Editors add a feed,   *)
(* change its address, and take it away; each is a change of a row and one *)
(* or two calls to the hub, with nothing to undo the one when the other    *)
(* fails.  Neither feeds nor entries have a unique index: that an address  *)
(* or an entry is new is looked up, and then the row is added.             *)
(*                                                                         *)
(* An item is what an entry is made of, its atom_id, title and address,    *)
(* which are taken to change together.  The hub's side is external, and    *)
(* modelled by the calls that are made to it and the answers they may      *)
(* have.  The titles, slugs, categories and states of feeds are left out,  *)
(* and so are the editors' forms for single entries, the lists, which read *)
(* only, and Entry.deduplicate, which nothing calls.                       *)
(***************************************************************************)
EXTENDS Naturals, FiniteSets

CONSTANTS
    Requests,  \* requests that there are at once
    Feeds,     \* the rows of feeds there may be; an id is never used again
    Urls,      \* addresses of feeds
    Items,     \* what is in the feeds
    None       \* no feed, no address, no item

ASSUME RequestsFinite == IsFiniteSet(Requests)
ASSUME NothingAssumption == None \notin Feeds \cup Urls \cup Items

VARIABLES
    feed,     \* table feeds: the address of a feed, if it is there
    entry,    \* table entries: rows of a feed and an item
    hub,      \* feeds and addresses the hub calls back for
    request,  \* requests of editors, and calls of the hub
    former,   \* history: addresses that a feed had before
    failed,   \* history: feeds that a request said it could not subscribe, or
              \* died before it had, and none has since
    crowded,  \* history: feeds that one request was taking away while another
              \* was at them
    crossed   \* history: items that two requests looked up at once

vars == <<feed, entry, hub, request, former, failed, crowded, crossed>>

-----------------------------------------------------------------------------
NotYet == "new"
Gone   == "gone"

ASSUME MarksAssumption == {NotYet, Gone} \cap Urls = {}

Stages == {"idle", "create", "subscribe", "edit", "unsubscribe", "resubscribe",
           "destroy", "delete", "notified"}

\* feed, url: the row as the request holds it, with the address it will have.
\* items: entries still to be made.  item: the one found to be new.
RequestState ==
    [at : Stages, feed : Feeds \cup {None}, url : Urls \cup {None},
     items : SUBSET Items, item : Items \cup {None}]

Idle == [at |-> "idle", feed |-> None, url |-> None, items |-> {}, item |-> None]

Exists(f) == feed[f] \in Urls

Goes(r, at) == request' = [request EXCEPT ![r].at = at]
Ends(r)     == request' = [request EXCEPT ![r] = Idle]

\* A request begins at a feed, to take it away or not.
Begins(r, f, at, url, items) ==
    /\ request[r].at = "idle"
    /\ request' = [request EXCEPT ![r] =
         [at |-> at, feed |-> f, url |-> url, items |-> items, item |-> None]]
    /\ crowded' = crowded \cup
         {g \in {f} : \E q \in Requests :
             /\ request[q].feed = g
             /\ "destroy" \in {at, request[q].at} \/ request[q].at = "delete"}

Init ==
    /\ feed = [f \in Feeds |-> NotYet]
    /\ entry = [f \in Feeds |-> [i \in Items |-> 0]]
    /\ hub = {}
    /\ request = [r \in Requests |-> Idle]
    /\ former = [f \in Feeds |-> {}]
    /\ failed = {}
    /\ crowded = {}
    /\ crossed = {}

-----------------------------------------------------------------------------
(***************************************************************************)
(* Calls to the hub.  One may fail with its effect or, as any request may  *)
(* die, without.                                                           *)
(***************************************************************************)
Subscribed(r) == hub \cup {<<request[r].feed, request[r].url>>}

Unsubscribed(r) == hub \ {<<request[r].feed, request[r].url>>}

CallFails(r, effect) ==
    /\ hub' = effect
    /\ failed' = failed \cup {request[r].feed}
    /\ Ends(r)
    /\ UNCHANGED <<feed, entry, former, crowded, crossed>>

Die(r) ==
    /\ request[r].at # "idle"
    /\ failed' = IF request[r].at = "notified" THEN failed
                                               ELSE failed \cup {request[r].feed}
    /\ Ends(r)
    /\ UNCHANGED <<feed, entry, hub, former, crowded, crossed>>

-----------------------------------------------------------------------------
(***************************************************************************)
(* Adding a feed: create.                                                  *)
(***************************************************************************)
\* validates :url, uniqueness
UrlIsNew(f, url) == \A g \in Feeds \ {f} : feed[g] # url

Create(r, f, url) ==
    /\ feed[f] = NotYet
    /\ \A q \in Requests : request[q].feed # f
    /\ UrlIsNew(f, url)
    /\ Begins(r, f, "create", url, {})
    /\ UNCHANGED <<feed, entry, hub, former, failed, crossed>>

SaveNew(r) ==
    /\ request[r].at = "create"
    /\ feed' = [feed EXCEPT ![request[r].feed] = request[r].url]
    /\ Goes(r, "subscribe")
    /\ UNCHANGED <<entry, hub, former, failed, crowded, crossed>>

\* subscribe with retrieve: the answer has what is in the feed now.
Subscribe(r) ==
    /\ request[r].at = "subscribe"
    /\ \/ /\ hub' = Subscribed(r)
          /\ \E items \in SUBSET Items :
                request' = [request EXCEPT ![r].at = "notified", ![r].items = items]
          /\ UNCHANGED <<feed, entry, former, failed, crowded, crossed>>
       \/ CallFails(r, Subscribed(r))

-----------------------------------------------------------------------------
(***************************************************************************)
(* Changing a feed: update.  The address may stay as it is.                *)
(***************************************************************************)
\* set_feed, the form's address, and the validation.
Edit(r, f, url) ==
    /\ Exists(f)
    /\ UrlIsNew(f, url)
    /\ Begins(r, f, "edit", url, {})
    /\ UNCHANGED <<feed, entry, hub, former, failed, crossed>>

\* A row that is gone is not updated, and this is no error.
SaveEdit(r) ==
    LET f == request[r].feed IN
    /\ request[r].at = "edit"
    /\ feed' = [feed EXCEPT ![f] = IF Exists(f) THEN request[r].url ELSE @]
    /\ former' = [former EXCEPT ![f] = @ \cup ({feed[f]} \cap Urls)]
    /\ Goes(r, "unsubscribe")
    /\ UNCHANGED <<entry, hub, failed, crowded, crossed>>

\* By the address the row has now, not by the one that was subscribed.
Unsubscribe(r) ==
    /\ request[r].at = "unsubscribe"
    /\ \/ /\ hub' = Unsubscribed(r)
          /\ Goes(r, "resubscribe")
          /\ UNCHANGED <<feed, entry, former, failed, crowded, crossed>>
       \/ CallFails(r, Unsubscribed(r))

\* Deliberate mistake: the feed is not subscribed again.
ResubscribeNot(r) ==
    /\ request[r].at = "resubscribe"
    /\ Ends(r)
    /\ UNCHANGED <<feed, entry, hub, former, failed, crowded, crossed>>

Resubscribe(r) ==
    /\ request[r].at = "resubscribe"
    /\ \/ /\ hub' = Subscribed(r)
          /\ failed' = IF feed[request[r].feed] = request[r].url
                         THEN failed \ {request[r].feed} ELSE failed
          /\ Ends(r)
          /\ UNCHANGED <<feed, entry, former, crowded, crossed>>
       \/ CallFails(r, Subscribed(r))

-----------------------------------------------------------------------------
(***************************************************************************)
(* Taking a feed away: destroy.                                            *)
(***************************************************************************)
Destroy(r, f) ==
    /\ Exists(f)
    /\ Begins(r, f, "destroy", feed[f], {})
    /\ UNCHANGED <<feed, entry, hub, former, failed, crossed>>

\* Deliberate mistake: the hub is told nothing.
UnsubscribeNot(r) ==
    /\ request[r].at = "destroy"
    /\ Goes(r, "delete")
    /\ UNCHANGED <<feed, entry, hub, former, failed, crowded, crossed>>

UnsubscribeFirst(r) ==
    /\ request[r].at = "destroy"
    /\ \/ /\ hub' = Unsubscribed(r)
          /\ Goes(r, "delete")
          /\ UNCHANGED <<feed, entry, former, failed, crowded, crossed>>
       \/ CallFails(r, Unsubscribed(r))

\* Deliberate mistake: the entries stay.
DeleteFeedOnly(r) ==
    /\ request[r].at = "delete"
    /\ feed' = [feed EXCEPT ![request[r].feed] = Gone]
    /\ Ends(r)
    /\ UNCHANGED <<entry, hub, former, failed, crowded, crossed>>

\* has_many :entries, dependent: :destroy, and the row.
Delete(r) ==
    LET f == request[r].feed IN
    /\ request[r].at = "delete"
    /\ feed' = [feed EXCEPT ![f] = Gone]
    /\ entry' = [entry EXCEPT ![f] = [i \in Items |-> 0]]
    /\ Ends(r)
    /\ UNCHANGED <<hub, former, failed, crowded, crossed>>

-----------------------------------------------------------------------------
(***************************************************************************)
(* Entries: notified.                                                      *)
(***************************************************************************)
\* The hub calls back, and the feed is found by its id; or an editor asks for
\* what is in the feed: retrieve.
Call(r, f, items) ==
    /\ Exists(f)
    /\ \E url \in Urls : <<f, url>> \in hub
    /\ Begins(r, f, "notified", None, items)
    /\ UNCHANGED <<feed, entry, hub, former, failed, crossed>>

Retrieve(r, f, items) ==
    /\ Exists(f)
    /\ Begins(r, f, "notified", None, items)
    /\ UNCHANGED <<feed, entry, hub, former, failed, crossed>>

\* Deliberate mistake: an item of another feed counts as new.
IsNewHere(f, i) == entry[f][i] = 0

\* validates :atom_id in the feed, and :url with the title in all.
IsNew(f, i) == \A g \in Feeds : entry[g][i] = 0

LookUp(r) ==
    /\ request[r].at = "notified"
    /\ request[r].item = None
    /\ \E i \in request[r].items :
        LET new == IsNew(request[r].feed, i) IN
        /\ request' = [request EXCEPT ![r].items = @ \ {i},
                                      ![r].item = IF new THEN i ELSE None]
        /\ crossed' = IF new /\ \E q \in Requests : request[q].item = i
                        THEN crossed \cup {i} ELSE crossed
    /\ UNCHANGED <<feed, entry, hub, former, failed, crowded>>

\* Deliberate mistake: the item is added again and again.
AddEntryAgain(r) ==
    /\ request[r].item # None
    /\ entry' = [entry EXCEPT ![request[r].feed][request[r].item] = @ + 1]
    /\ UNCHANGED <<feed, hub, request, former, failed, crowded, crossed>>

AddEntry(r) ==
    /\ request[r].item # None
    /\ entry' = [entry EXCEPT ![request[r].feed][request[r].item] = @ + 1]
    /\ request' = [request EXCEPT ![r].item = None]
    /\ UNCHANGED <<feed, hub, former, failed, crowded, crossed>>

AllAdded(r) ==
    /\ request[r].at = "notified"
    /\ request[r].items = {}
    /\ request[r].item = None
    /\ Ends(r)
    /\ UNCHANGED <<feed, entry, hub, former, failed, crowded, crossed>>

-----------------------------------------------------------------------------
EditorSteps(r) ==
    \/ \E f \in Feeds, url \in Urls : Create(r, f, url) \/ Edit(r, f, url)
    \/ \E f \in Feeds : Destroy(r, f)
    \/ SaveNew(r) \/ Subscribe(r)
    \/ SaveEdit(r) \/ Unsubscribe(r) \/ Resubscribe(r)
    \/ UnsubscribeFirst(r) \/ Delete(r) \/ Die(r)

EntrySteps(r) ==
    \/ \E f \in Feeds, items \in SUBSET Items : Call(r, f, items) \/ Retrieve(r, f, items)
    \/ LookUp(r) \/ AddEntry(r) \/ AllAdded(r)

Next == \E r \in Requests : EditorSteps(r) \/ EntrySteps(r)

Spec == Init /\ [][Next]_vars

-----------------------------------------------------------------------------
TypeOK ==
    /\ feed \in [Feeds -> Urls \cup {NotYet, Gone}]
    /\ entry \in [Feeds -> [Items -> 0 .. Cardinality(Requests)]]
    /\ hub \subseteq Feeds \X Urls
    /\ request \in [Requests -> RequestState]
    /\ former \in [Feeds -> SUBSET Urls]
    /\ failed \cup crowded \subseteq Feeds
    /\ crossed \subseteq Items

\* The hub calls back for a feed by an address that it has, or had: update
\* leaves the old one subscribed.  By any other only when the feed was taken
\* away while another request was at it.
HubKnowsAddress ==
    \A s \in hub :
        s[2] \in former[s[1]] \cup {feed[s[1]]} \/ s[1] \in crowded

\* A feed that nobody is at is subscribed by its address, unless a request has
\* died at it, or told the editor that it could not; and the next that is through
\* has repaired it.
SubscribedOrSaid ==
    \A f \in Feeds :
        Exists(f) /\ (\A r \in Requests : request[r].feed # f)
            => <<f, feed[f]>> \in hub \/ f \in failed

\* An item has one entry, in all feeds, unless two requests looked it up before
\* either had added it.
EntriesOnce ==
    \A i \in Items \ crossed, f, g \in Feeds :
        /\ entry[f][i] <= 1
        /\ entry[f][i] > 0 /\ entry[g][i] > 0 => f = g

\* Entries outlive their feed only when it was taken away while another request
\* was at it.
EntriesGoWithFeed ==
    \A f \in Feeds, i \in Items :
        entry[f][i] > 0 => Exists(f) \/ f \in crowded
=============================================================================
