----------------------------- MODULE FeedsProofs -----------------------------
(***************************************************************************)
(* Proofs about Feeds, for any finite number of requests and any feeds,    *)
(* addresses and items.                                                    *)
(*                                                                         *)
(* What is true of feeds that no request is at follows from what requests  *)
(* hold while they are at one: that nobody else is at a feed that is being *)
(* made (Making), that who is at a feed with one who takes it away has     *)
(* been noticed (Noticed), that the address in hand is one the feed has or *)
(* had (AddressHeld), and that a feed which is not subscribed has a        *)
(* request that is about to subscribe it or to say so (Pending).           *)
(***************************************************************************)
EXTENDS Feeds, FiniteSetTheorems, TLAPS

Shape ==
    \A r \in Requests :
        /\ request[r].at = "idle" => request[r].feed = None /\ request[r].item = None
        /\ request[r].at # "idle" => request[r].feed \in Feeds
        /\ request[r].at \notin {"idle", "notified"} => request[r].url \in Urls
        /\ request[r].item # None => request[r].at = "notified"

\* Who is at a feed, but for making it, finds it there.
AtFeed ==
    \A r \in Requests :
        request[r].at \notin {"idle", "create"}
            => Exists(request[r].feed) \/ request[r].feed \in crowded

Making ==
    \A r \in Requests : request[r].at = "create" =>
        /\ feed[request[r].feed] = NotYet
        /\ \A q \in Requests \ {r} : request[q].feed # request[r].feed

Noticed ==
    \A r \in Requests, q \in Requests :
        /\ request[r].at \in {"destroy", "delete"}
        /\ q # r
        /\ request[q].feed = request[r].feed
        => request[r].feed \in crowded

AddressOf(r) ==
    LET f == request[r].feed IN
    f \notin crowded =>
        /\ request[r].at \in {"subscribe", "unsubscribe", "resubscribe"}
              => request[r].url \in former[f] \cup {feed[f]}
        /\ request[r].at = "destroy" => request[r].url = feed[f]
        /\ request[r].at = "delete" => <<f, feed[f]>> \notin hub

AddressHeld == \A r \in Requests : AddressOf(r)

\* A request that will subscribe the feed by its address, or say that it could
\* not, or take the feed away.
Tends(r, f) ==
    /\ request[r].feed = f
    /\ \/ /\ request[r].at \in {"subscribe", "unsubscribe", "resubscribe"}
          /\ request[r].url = feed[f]
       \/ request[r].at = "delete"

Held(f) ==
    Exists(f) =>
        <<f, feed[f]>> \in hub \/ f \in failed \/ \E r \in Requests : Tends(r, f)

Pending == \A f \in Feeds : Held(f)

\* About to add an entry of the item to the feed, or to any.
Adding(f, i) ==
    {r \in Requests : request[r].item = i /\ request[r].feed = f}

AddersBounded ==
    \A f \in Feeds, i \in Items :
        entry[f][i] + Cardinality(Adding(f, i)) <= Cardinality(Requests)

OneAdder ==
    \A i \in Items \ crossed, r \in Requests : request[r].item = i =>
        /\ \A q \in Requests \ {r} : request[q].item # i
        /\ \A f \in Feeds : entry[f][i] = 0

IInv ==
    /\ TypeOK
    /\ Shape
    /\ AtFeed
    /\ Making
    /\ Noticed
    /\ AddressHeld
    /\ Pending
    /\ AddersBounded
    /\ OneAdder
    /\ HubKnowsAddress
    /\ EntriesOnce
    /\ EntriesGoWithFeed

-----------------------------------------------------------------------------
LEMMA IdleType == Idle \in RequestState
  BY DEF Idle, RequestState, Stages

LEMMA GoesType ==
    ASSUME request \in [Requests -> RequestState], NEW r \in Requests,
           NEW at \in Stages, Goes(r, at)
    PROVE  request' \in [Requests -> RequestState]
  <1>1. [request[r] EXCEPT !.at = at] \in RequestState
    BY DEF RequestState
  <1> QED
    BY <1>1 DEF Goes

LEMMA EndsType ==
    ASSUME request \in [Requests -> RequestState], NEW r \in Requests, Ends(r)
    PROVE  request' \in [Requests -> RequestState]
  BY IdleType DEF Ends

LEMMA BeginsType ==
    ASSUME request \in [Requests -> RequestState], NEW r \in Requests,
           NEW f \in Feeds, NEW at \in Stages, NEW url \in Urls \cup {None},
           NEW items \in SUBSET Items, Begins(r, f, at, url, items),
           crowded \subseteq Feeds
    PROVE  /\ request' \in [Requests -> RequestState]
           /\ crowded' \subseteq Feeds
  <1>1. [at |-> at, feed |-> f, url |-> url, items |-> items, item |-> None]
            \in RequestState
    BY DEF RequestState
  <1>2. request' \in [Requests -> RequestState]
    BY <1>1 DEF Begins
  <1>3. crowded' \subseteq Feeds
    BY DEF Begins
  <1> QED
    BY <1>2, <1>3

LEMMA FailType ==
    ASSUME TypeOK, NEW r \in Requests, request[r].feed \in Feeds,
           NEW effect \in SUBSET (Feeds \X Urls), CallFails(r, effect)
    PROVE  TypeOK'
  <1>1. request' \in [Requests -> RequestState]
    BY EndsType DEF CallFails, TypeOK
  <1> QED
    BY <1>1 DEF CallFails, TypeOK

LEMMA TypeStep ==
    ASSUME TypeOK, Shape, NEW r \in Requests, EditorSteps(r) \/ EntrySteps(r),
           AddEntry(r) => entry' \in [Feeds -> [Items -> 0 .. Cardinality(Requests)]]
    PROVE  TypeOK'
  <1> USE DEF TypeOK
  <1>0. /\ request[r] \in RequestState
        /\ request[r].at \notin {"idle"} => request[r].feed \in Feeds
        /\ request[r].at \notin {"idle", "notified"} => request[r].url \in Urls
        /\ Cardinality(Requests) \in Nat
        /\ {"idle", "create", "subscribe", "edit", "unsubscribe", "resubscribe",
            "destroy", "delete", "notified"} \subseteq Stages
    BY RequestsFinite, FS_CardinalityType DEF Shape, Stages
  <1>1. ASSUME NEW f \in Feeds, NEW url \in Urls, Create(r, f, url)
        PROVE  TypeOK'
    BY <1>0, <1>1, BeginsType DEF Create
  <1>2. ASSUME NEW f \in Feeds, NEW url \in Urls, Edit(r, f, url) PROVE TypeOK'
    BY <1>0, <1>2, BeginsType DEF Edit
  <1>3. ASSUME NEW f \in Feeds, Destroy(r, f) PROVE TypeOK'
    BY <1>0, <1>3, BeginsType DEF Destroy, Exists
  <1>4. CASE SaveNew(r)
    BY <1>0, <1>4, GoesType DEF SaveNew
  <1>5. CASE Subscribe(r)
    <2>1. CASE CallFails(r, Subscribed(r))
      BY <1>0, <1>5, <2>1, FailType DEF Subscribed, Subscribe
    <2>2. ASSUME NEW items \in SUBSET Items,
              request' = [request EXCEPT ![r].at = "notified", ![r].items = items]
          PROVE  request' \in [Requests -> RequestState]
      <3>1. [request[r] EXCEPT !.at = "notified", !.items = items] \in RequestState
        BY <1>0 DEF RequestState
      <3> QED
        BY <2>2, <3>1
    <2>3. CASE ~CallFails(r, Subscribed(r))
      <3>1. request' \in [Requests -> RequestState]
        BY <1>5, <2>2, <2>3 DEF Subscribe
      <3>2. hub' \subseteq Feeds \X Urls
        BY <1>0, <1>5, <2>3 DEF Subscribe, Subscribed
      <3> QED
        BY <1>5, <2>3, <3>1, <3>2 DEF Subscribe
    <2> QED
      BY <2>1, <2>3
  <1>6. CASE SaveEdit(r)
    <2>1. request' \in [Requests -> RequestState]
      BY <1>0, <1>6, GoesType DEF SaveEdit
    <2>2. feed' \in [Feeds -> Urls \cup {NotYet, Gone}]
      BY <1>0, <1>6 DEF SaveEdit
    <2> QED
      BY <1>0, <1>6, <2>1, <2>2 DEF SaveEdit
  <1>7. CASE Unsubscribe(r)
    <2>1. CASE CallFails(r, Unsubscribed(r))
      BY <1>0, <1>7, <2>1, FailType DEF Unsubscribed, Unsubscribe
    <2>2. CASE Goes(r, "resubscribe")
      BY <1>0, <1>7, <2>1, <2>2, GoesType DEF Unsubscribe, Unsubscribed
    <2> QED
      BY <1>7, <2>1, <2>2 DEF Unsubscribe
  <1>8. CASE Resubscribe(r)
    <2>1. CASE CallFails(r, Subscribed(r))
      BY <1>0, <1>8, <2>1, FailType DEF Subscribed, Resubscribe
    <2>2. request' \in [Requests -> RequestState]
      BY <1>8, EndsType DEF Resubscribe, CallFails
    <2> QED
      BY <1>0, <1>8, <2>1, <2>2 DEF Resubscribe, Subscribed
  <1>9. CASE UnsubscribeFirst(r)
    <2>1. CASE CallFails(r, Unsubscribed(r))
      BY <1>0, <1>9, <2>1, FailType DEF Unsubscribed, UnsubscribeFirst
    <2>2. CASE Goes(r, "delete")
      BY <1>0, <1>9, <2>1, <2>2, GoesType DEF UnsubscribeFirst, Unsubscribed
    <2> QED
      BY <1>9, <2>1, <2>2 DEF UnsubscribeFirst
  <1>10. CASE Delete(r)
    BY <1>0, <1>10, EndsType DEF Delete
  <1>11. CASE Die(r)
    BY <1>0, <1>11, EndsType DEF Die
  <1>12. ASSUME NEW f \in Feeds, NEW items \in SUBSET Items,
                Call(r, f, items) \/ Retrieve(r, f, items)
         PROVE  TypeOK'
    <2>1. Begins(r, f, "notified", None, items)
      BY <1>12 DEF Call, Retrieve
    <2> QED
      BY <1>0, <1>12, <2>1, BeginsType DEF Call, Retrieve
  <1>13. CASE LookUp(r)
    <2>1. PICK i \in request[r].items :
              LET new == IsNew(request[r].feed, i) IN
              /\ request' = [request EXCEPT ![r].items = @ \ {i},
                                            ![r].item = IF new THEN i ELSE None]
              /\ crossed' = IF new /\ \E q \in Requests : request[q].item = i
                              THEN crossed \cup {i} ELSE crossed
      BY <1>13 DEF LookUp
    <2>2. i \in Items
      BY <1>0 DEF RequestState
    <2>3. \A item \in {i, None} :
              [request[r] EXCEPT !.items = @ \ {i}, !.item = item] \in RequestState
      BY <1>0, <2>2 DEF RequestState
    <2>4. request' \in [Requests -> RequestState]
      BY <2>1, <2>3
    <2>5. crossed' \subseteq Items
      BY <2>1, <2>2
    <2> QED
      BY <1>13, <2>4, <2>5 DEF LookUp
  <1>14. CASE AddEntry(r)
    <2>1. [request[r] EXCEPT !.item = None] \in RequestState
      BY <1>0 DEF RequestState
    <2> QED
      BY <1>14, <2>1 DEF AddEntry
  <1>15. CASE AllAdded(r)
    BY <1>15, EndsType DEF AllAdded
  <1> QED
    BY <1>1, <1>2, <1>3, <1>4, <1>5, <1>6, <1>7, <1>8, <1>9, <1>10, <1>11,
       <1>12, <1>13, <1>14, <1>15 DEF EditorSteps, EntrySteps
-----------------------------------------------------------------------------
(***************************************************************************)
(* What the helpers do to the requests, field by field.                    *)
(***************************************************************************)
Only(r) == \A q \in Requests \ {r} : request'[q] = request[q]

Fields(r, at, f, url, item) ==
    /\ Only(r)
    /\ request'[r].at = at
    /\ request'[r].feed = f
    /\ request'[r].url = url
    /\ request'[r].item = item

LEMMA GoesFields ==
    ASSUME TypeOK, NEW r \in Requests, NEW at, Goes(r, at)
    PROVE  Fields(r, at, request[r].feed, request[r].url, request[r].item)
  BY DEF Goes, Fields, Only, TypeOK, RequestState

LEMMA EndsFields ==
    ASSUME TypeOK, NEW r \in Requests, Ends(r)
    PROVE  Fields(r, "idle", None, None, None)
  BY DEF Ends, Fields, Only, TypeOK, RequestState, Idle

LEMMA BeginsFields ==
    ASSUME TypeOK, NEW r \in Requests, NEW f, NEW at, NEW url, NEW items,
           Begins(r, f, at, url, items)
    PROVE  /\ Fields(r, at, f, url, None)
           /\ request[r].at = "idle"
           /\ crowded \subseteq crowded'
           /\ \A q \in Requests :
                 /\ request[q].feed = f
                 /\ at = "destroy" \/ request[q].at \in {"destroy", "delete"}
                 => f \in crowded'
  BY DEF Begins, Fields, Only, TypeOK, RequestState

LEMMA SubscribeFields ==
    ASSUME TypeOK, NEW r \in Requests, Subscribe(r)
    PROVE  \/ CallFails(r, Subscribed(r))
           \/ /\ hub' = Subscribed(r)
              /\ Fields(r, "notified", request[r].feed, request[r].url, request[r].item)
              /\ UNCHANGED <<feed, entry, former, failed, crowded, crossed>>
  BY DEF Subscribe, Fields, Only, TypeOK, RequestState

LEMMA AddEntryFields ==
    ASSUME TypeOK, NEW r \in Requests, AddEntry(r)
    PROVE  Fields(r, request[r].at, request[r].feed, request[r].url, None)
  BY DEF AddEntry, Fields, Only, TypeOK, RequestState

LEMMA LookUpFields ==
    ASSUME TypeOK, NEW r \in Requests, LookUp(r)
    PROVE  \E i \in Items, item \in Items \cup {None} :
              /\ Fields(r, request[r].at, request[r].feed, request[r].url, item)
              /\ \/ item = None /\ crossed' = crossed
                 \/ /\ item = i
                    /\ IsNew(request[r].feed, i)
                    /\ crossed' = IF \E q \in Requests : request[q].item = i
                                    THEN crossed \cup {i} ELSE crossed
  <1>1. PICK i \in request[r].items :
            LET new == IsNew(request[r].feed, i) IN
            /\ request' = [request EXCEPT ![r].items = @ \ {i},
                                          ![r].item = IF new THEN i ELSE None]
            /\ crossed' = IF new /\ \E q \in Requests : request[q].item = i
                            THEN crossed \cup {i} ELSE crossed
    BY DEF LookUp
  <1>2. i \in Items
    BY DEF TypeOK, RequestState
  <1>3. ASSUME NEW item, item = IF IsNew(request[r].feed, i) THEN i ELSE None
        PROVE  Fields(r, request[r].at, request[r].feed, request[r].url, item)
    BY <1>1, <1>3 DEF Fields, Only, TypeOK, RequestState
  <1> QED
    BY <1>1, <1>2, <1>3

LEMMA ShapeStep ==
    ASSUME TypeOK, Shape,
           NEW r \in Requests, EditorSteps(r) \/ EntrySteps(r)
    PROVE  Shape'
  <1> USE DEF Shape, Fields, Only
  <1>1. ASSUME NEW f \in Feeds, NEW url \in Urls, Create(r, f, url) PROVE Shape'
    BY <1>1, BeginsFields, NothingAssumption DEF Create
  <1>2. ASSUME NEW f \in Feeds, NEW url \in Urls, Edit(r, f, url) PROVE Shape'
    BY <1>2, BeginsFields, NothingAssumption DEF Edit
  <1>3. ASSUME NEW f \in Feeds, Destroy(r, f) PROVE Shape'
    BY <1>3, BeginsFields DEF Destroy, Exists
  <1>4. CASE SaveNew(r)
    BY <1>4, GoesFields DEF SaveNew
  <1>5. CASE Subscribe(r)
    BY <1>5, SubscribeFields, EndsFields DEF CallFails, Subscribe
  <1>6. CASE SaveEdit(r)
    BY <1>6, GoesFields DEF SaveEdit
  <1>7. CASE Unsubscribe(r)
    BY <1>7, GoesFields, EndsFields DEF Unsubscribe, CallFails
  <1>8. CASE Resubscribe(r)
    BY <1>8, EndsFields DEF Resubscribe, CallFails
  <1>9. CASE UnsubscribeFirst(r)
    BY <1>9, GoesFields, EndsFields DEF UnsubscribeFirst, CallFails
  <1>10. CASE Delete(r)
    BY <1>10, EndsFields DEF Delete
  <1>11. CASE Die(r)
    BY <1>11, EndsFields DEF Die
  <1>12. ASSUME NEW f \in Feeds, NEW items \in SUBSET Items,
                Call(r, f, items) \/ Retrieve(r, f, items) PROVE Shape'
    BY <1>12, BeginsFields DEF Call, Retrieve
  <1>13. CASE LookUp(r)
    <2>1. PICK item : Fields(r, "notified", request[r].feed, request[r].url, item)
      BY <1>13, LookUpFields DEF LookUp
    <2> QED
      BY <1>13, <2>1 DEF LookUp
  <1>14. CASE AddEntry(r)
    BY <1>14, AddEntryFields DEF AddEntry
  <1>15. CASE AllAdded(r)
    BY <1>15, EndsFields DEF AllAdded
  <1> QED
    BY <1>1, <1>2, <1>3, <1>4, <1>5, <1>6, <1>7, <1>8,
       <1>9, <1>10, <1>11, <1>12, <1>13, <1>14, <1>15 DEF EditorSteps, EntrySteps

LEMMA AtFeedStep ==
    ASSUME TypeOK, Shape, AtFeed, Noticed,
           NEW r \in Requests, EditorSteps(r) \/ EntrySteps(r)
    PROVE  AtFeed'
  <1> USE DEF AtFeed, Exists, Fields, Only
  <1>1. ASSUME NEW f \in Feeds, NEW url \in Urls, Create(r, f, url)
        PROVE  AtFeed'
    BY <1>1, BeginsFields DEF Create
  <1>2. ASSUME NEW f \in Feeds, NEW url \in Urls, Edit(r, f, url) PROVE AtFeed'
    BY <1>2, BeginsFields DEF Edit
  <1>3. ASSUME NEW f \in Feeds, Destroy(r, f) PROVE AtFeed'
    BY <1>3, BeginsFields DEF Destroy
  <1>4. CASE SaveNew(r)
    BY <1>4, GoesFields DEF SaveNew, Shape, TypeOK
  <1>5. CASE Subscribe(r)
    BY <1>5, SubscribeFields, EndsFields DEF CallFails, Subscribe
  <1>6. CASE SaveEdit(r)
    BY <1>6, GoesFields DEF SaveEdit, Shape, TypeOK
  <1>7. CASE Unsubscribe(r)
    BY <1>7, GoesFields, EndsFields DEF Unsubscribe, CallFails
  <1>8. CASE Resubscribe(r)
    BY <1>8, EndsFields DEF Resubscribe, CallFails
  <1>9. CASE UnsubscribeFirst(r)
    BY <1>9, GoesFields, EndsFields DEF UnsubscribeFirst, CallFails
  <1>10. CASE Delete(r)
    BY <1>10, EndsFields DEF Delete, Noticed, Shape
  <1>11. CASE Die(r)
    BY <1>11, EndsFields DEF Die
  <1>12. ASSUME NEW f \in Feeds, NEW items \in SUBSET Items,
                Call(r, f, items) \/ Retrieve(r, f, items) PROVE AtFeed'
    BY <1>12, BeginsFields DEF Call, Retrieve
  <1>13. CASE LookUp(r)
    BY <1>13, LookUpFields DEF LookUp
  <1>14. CASE AddEntry(r)
    BY <1>14, AddEntryFields DEF AddEntry
  <1>15. CASE AllAdded(r)
    BY <1>15, EndsFields DEF AllAdded
  <1> QED
    BY <1>1, <1>2, <1>3, <1>4, <1>5, <1>6, <1>7, <1>8,
       <1>9, <1>10, <1>11, <1>12, <1>13, <1>14, <1>15 DEF EditorSteps, EntrySteps

LEMMA NoticedStep ==
    ASSUME TypeOK, Shape, Noticed,
           NEW r \in Requests, EditorSteps(r) \/ EntrySteps(r)
    PROVE  Noticed'
  <1> USE DEF Noticed, Fields, Only
  <1>1. ASSUME NEW f \in Feeds, NEW url \in Urls, Create(r, f, url)
        PROVE  Noticed'
    BY <1>1, BeginsFields, NothingAssumption DEF Create, Shape
  <1>2. ASSUME NEW f \in Feeds, NEW url \in Urls, Edit(r, f, url) PROVE Noticed'
    BY <1>2, BeginsFields, NothingAssumption DEF Edit, Shape
  <1>3. ASSUME NEW f \in Feeds, Destroy(r, f) PROVE Noticed'
    BY <1>3, BeginsFields, NothingAssumption DEF Destroy, Shape
  <1>4. CASE SaveNew(r)
    BY <1>4, GoesFields, NothingAssumption DEF SaveNew, Shape
  <1>5. CASE Subscribe(r)
    BY <1>5, SubscribeFields, EndsFields, NothingAssumption
       DEF CallFails, Subscribe, Shape
  <1>6. CASE SaveEdit(r)
    BY <1>6, GoesFields, NothingAssumption DEF SaveEdit, Shape
  <1>7. CASE Unsubscribe(r)
    BY <1>7, GoesFields, EndsFields, NothingAssumption
       DEF Unsubscribe, CallFails, Shape
  <1>8. CASE Resubscribe(r)
    BY <1>8, EndsFields, NothingAssumption DEF Resubscribe, CallFails, Shape
  <1>9. CASE UnsubscribeFirst(r)
    BY <1>9, GoesFields, EndsFields, NothingAssumption
       DEF UnsubscribeFirst, CallFails, Shape
  <1>10. CASE Delete(r)
    BY <1>10, EndsFields, NothingAssumption DEF Delete, Shape
  <1>11. CASE Die(r)
    BY <1>11, EndsFields, NothingAssumption DEF Die, Shape
  <1>12. ASSUME NEW f \in Feeds, NEW items \in SUBSET Items,
                Call(r, f, items) \/ Retrieve(r, f, items) PROVE Noticed'
    BY <1>12, BeginsFields, NothingAssumption DEF Call, Retrieve, Shape
  <1>13. CASE LookUp(r)
    <2>1. PICK item : Fields(r, "notified", request[r].feed, request[r].url, item)
      BY <1>13, LookUpFields DEF LookUp
    <2>2. /\ UNCHANGED crowded
          /\ request[r].at = "notified"
      BY <1>13 DEF LookUp
    <2>3. \A q \in Requests : /\ request'[q].feed = request[q].feed
                               /\ request'[q].at = request[q].at
      BY <2>1, <2>2
    <2> QED
      BY <2>2, <2>3
  <1>14. CASE AddEntry(r)
    BY <1>14, AddEntryFields, NothingAssumption DEF AddEntry, Shape
  <1>15. CASE AllAdded(r)
    BY <1>15, EndsFields, NothingAssumption DEF AllAdded, Shape
  <1> QED
    BY <1>1, <1>2, <1>3, <1>4, <1>5, <1>6, <1>7, <1>8,
       <1>9, <1>10, <1>11, <1>12, <1>13, <1>14, <1>15 DEF EditorSteps, EntrySteps

\* Only the request that is at a feed changes it, and whoever begins at a feed
\* finds it there, or finds nobody.
FeedStep(r) ==
    /\ Only(r)
    /\ \A f \in Feeds : feed'[f] # feed[f] =>
          /\ request[r].feed = f
          /\ request[r].at \in {"create", "edit", "delete"}
    /\ \/ /\ request'[r].feed \in {request[r].feed, None}
          /\ request'[r].at = "create" =>
                /\ request[r].at = "create"
                /\ request'[r].feed = request[r].feed
                /\ UNCHANGED feed
       \/ /\ request'[r].feed \in Feeds
          /\ request'[r].at # "create"
          /\ Exists(request'[r].feed)
       \/ /\ request'[r].at = "create"
          /\ request'[r].feed \in Feeds
          /\ feed'[request'[r].feed] = NotYet
          /\ \A q \in Requests : request[q].feed # request'[r].feed

LEMMA FeedMoves ==
    ASSUME TypeOK, Shape,
           NEW r \in Requests, EditorSteps(r) \/ EntrySteps(r)
    PROVE  FeedStep(r)
  <1> USE DEF FeedStep, Fields
  <1>1. ASSUME NEW f \in Feeds, NEW url \in Urls, Create(r, f, url)
        PROVE  FeedStep(r)
    BY <1>1, BeginsFields DEF Create, TypeOK
  <1>2. ASSUME NEW f \in Feeds, NEW url \in Urls, Edit(r, f, url)
        PROVE  FeedStep(r)
    BY <1>2, BeginsFields DEF Edit, TypeOK
  <1>3. ASSUME NEW f \in Feeds, Destroy(r, f) PROVE FeedStep(r)
    BY <1>3, BeginsFields DEF Destroy, TypeOK
  <1>4. CASE SaveNew(r)
    BY <1>4, GoesFields DEF SaveNew, TypeOK, Shape
  <1>5. CASE Subscribe(r)
    BY <1>5, SubscribeFields, EndsFields DEF CallFails, Subscribe, TypeOK
  <1>6. CASE SaveEdit(r)
    BY <1>6, GoesFields DEF SaveEdit, TypeOK, Shape
  <1>7. CASE Unsubscribe(r)
    BY <1>7, GoesFields, EndsFields DEF Unsubscribe, CallFails, TypeOK
  <1>8. CASE Resubscribe(r)
    BY <1>8, EndsFields DEF Resubscribe, CallFails, TypeOK
  <1>9. CASE UnsubscribeFirst(r)
    BY <1>9, GoesFields, EndsFields DEF UnsubscribeFirst, CallFails, TypeOK
  <1>10. CASE Delete(r)
    BY <1>10, EndsFields DEF Delete, TypeOK, Shape
  <1>11. CASE Die(r)
    BY <1>11, EndsFields DEF Die, TypeOK
  <1>12. ASSUME NEW f \in Feeds, NEW items \in SUBSET Items,
                Call(r, f, items) \/ Retrieve(r, f, items) PROVE FeedStep(r)
    BY <1>12, BeginsFields DEF Call, Retrieve, TypeOK
  <1>13. CASE LookUp(r)
    <2>1. PICK item : Fields(r, "notified", request[r].feed, request[r].url, item)
      BY <1>13, LookUpFields DEF LookUp
    <2> QED
      BY <1>13, <2>1 DEF LookUp, TypeOK
  <1>14. CASE AddEntry(r)
    BY <1>14, AddEntryFields DEF AddEntry, TypeOK
  <1>15. CASE AllAdded(r)
    BY <1>15, EndsFields DEF AllAdded, TypeOK
  <1> QED
    BY <1>1, <1>2, <1>3, <1>4, <1>5, <1>6, <1>7, <1>8,
       <1>9, <1>10, <1>11, <1>12, <1>13, <1>14, <1>15 DEF EditorSteps, EntrySteps

LEMMA MakingStep ==
    ASSUME TypeOK, Shape, Making,
           NEW r \in Requests, EditorSteps(r) \/ EntrySteps(r)
    PROVE  Making'
  <1> SUFFICES ASSUME NEW q \in Requests, request'[q].at = "create"
               PROVE  /\ feed'[request'[q].feed] = NotYet
                      /\ \A p \in Requests \ {q} :
                            request'[p].feed # request'[q].feed
    BY DEF Making
  <1>1. FeedStep(r)
    BY FeedMoves
  <1>2. CASE q # r
    <2>1. /\ request'[q] = request[q]
          /\ request[q].feed \in Feeds
          /\ feed[request[q].feed] = NotYet
          /\ \A p \in Requests \ {q} : request[p].feed # request[q].feed
      BY <1>1, <1>2 DEF FeedStep, Only, Making, Shape
    <2>2. feed'[request[q].feed] = NotYet
      BY <1>1, <1>2, <2>1 DEF FeedStep
    <2>3. request'[r].feed # request[q].feed
      BY <1>1, <1>2, <2>1, NothingAssumption, MarksAssumption
         DEF FeedStep, Exists
    <2> QED
      BY <1>1, <2>1, <2>2, <2>3 DEF FeedStep, Only
  <1>3. CASE q = r
    <2>1. CASE /\ request[r].at = "create"
               /\ request'[r].feed = request[r].feed
               /\ UNCHANGED feed
      BY <1>1, <1>3, <2>1 DEF FeedStep, Only, Making
    <2>2. CASE /\ feed'[request'[r].feed] = NotYet
               /\ \A p \in Requests : request[p].feed # request'[r].feed
      BY <1>1, <1>3, <2>2 DEF FeedStep, Only
    <2> QED
      BY <1>1, <1>3, <2>1, <2>2 DEF FeedStep
  <1> QED
    BY <1>1, <1>2, <1>3

LEMMA HubStep ==
    ASSUME TypeOK, Shape, Making, AddressHeld, HubKnowsAddress,
           NEW r \in Requests, EditorSteps(r) \/ EntrySteps(r)
    PROVE  HubKnowsAddress'
  <1> USE DEF HubKnowsAddress, Fields
  <1>1. ASSUME NEW f \in Feeds, NEW url \in Urls, Create(r, f, url)
        PROVE  HubKnowsAddress'
    BY <1>1, BeginsFields DEF Create, TypeOK
  <1>2. ASSUME NEW f \in Feeds, NEW url \in Urls, Edit(r, f, url)
        PROVE  HubKnowsAddress'
    BY <1>2, BeginsFields DEF Edit, TypeOK
  <1>3. ASSUME NEW f \in Feeds, Destroy(r, f) PROVE HubKnowsAddress'
    BY <1>3, BeginsFields DEF Destroy, TypeOK
  <1>4. CASE SaveNew(r)
    BY <1>4, GoesFields, MarksAssumption DEF SaveNew, TypeOK, Making, Shape
  <1>5. CASE Subscribe(r)
    <2>1. /\ hub' = Subscribed(r)
          /\ UNCHANGED <<feed, former, crowded>>
          /\ request[r].at \in {"subscribe", "resubscribe"}
      BY <1>5 DEF Subscribe, CallFails
    <2>2. /\ request[r].url \in former[request[r].feed] \cup {feed[request[r].feed]}
             \/ request[r].feed \in crowded
      BY <2>1 DEF AddressHeld, AddressOf
    <2> QED
      BY <2>1, <2>2 DEF Subscribed
  <1>6. CASE SaveEdit(r)
    BY <1>6, GoesFields DEF SaveEdit, TypeOK, Shape
  <1>7. CASE Unsubscribe(r)
    BY <1>7, GoesFields, EndsFields
       DEF Unsubscribe, CallFails, TypeOK, Unsubscribed
  <1>8. CASE Resubscribe(r)
    <2>1. /\ hub' = Subscribed(r)
          /\ UNCHANGED <<feed, former, crowded>>
          /\ request[r].at \in {"subscribe", "resubscribe"}
      BY <1>8 DEF Resubscribe, CallFails
    <2>2. /\ request[r].url \in former[request[r].feed] \cup {feed[request[r].feed]}
             \/ request[r].feed \in crowded
      BY <2>1 DEF AddressHeld, AddressOf
    <2> QED
      BY <2>1, <2>2 DEF Subscribed
  <1>9. CASE UnsubscribeFirst(r)
    BY <1>9, GoesFields, EndsFields
       DEF UnsubscribeFirst, CallFails, TypeOK, Unsubscribed
  <1>10. CASE Delete(r)
    BY <1>10, EndsFields DEF Delete, TypeOK, AddressHeld, AddressOf, Shape
  <1>11. CASE Die(r)
    BY <1>11, EndsFields DEF Die, TypeOK
  <1>12. ASSUME NEW f \in Feeds, NEW items \in SUBSET Items,
                Call(r, f, items) \/ Retrieve(r, f, items)
                PROVE  HubKnowsAddress'
    BY <1>12, BeginsFields DEF Call, Retrieve, TypeOK
  <1>13. CASE LookUp(r)
    BY <1>13, LookUpFields DEF LookUp, TypeOK
  <1>14. CASE AddEntry(r)
    BY <1>14, AddEntryFields DEF AddEntry, TypeOK
  <1>15. CASE AllAdded(r)
    BY <1>15, EndsFields DEF AllAdded, TypeOK
  <1> QED
    BY <1>1, <1>2, <1>3, <1>4, <1>5, <1>6, <1>7, <1>8,
       <1>9, <1>10, <1>11, <1>12, <1>13, <1>14, <1>15 DEF EditorSteps, EntrySteps

LEMMA GoesWithStep ==
    ASSUME TypeOK, Shape, AtFeed, EntriesGoWithFeed,
           NEW r \in Requests, EditorSteps(r) \/ EntrySteps(r)
    PROVE  EntriesGoWithFeed'
  <1> USE DEF EntriesGoWithFeed, Exists, Fields
  <1>1. ASSUME NEW f \in Feeds, NEW url \in Urls, Create(r, f, url)
        PROVE  EntriesGoWithFeed'
    BY <1>1, BeginsFields DEF Create, TypeOK
  <1>2. ASSUME NEW f \in Feeds, NEW url \in Urls, Edit(r, f, url)
        PROVE  EntriesGoWithFeed'
    BY <1>2, BeginsFields DEF Edit, TypeOK
  <1>3. ASSUME NEW f \in Feeds, Destroy(r, f) PROVE EntriesGoWithFeed'
    BY <1>3, BeginsFields DEF Destroy, TypeOK
  <1>4. CASE SaveNew(r)
    BY <1>4, GoesFields, MarksAssumption DEF SaveNew, TypeOK, Shape
  <1>5. CASE Subscribe(r)
    BY <1>5, SubscribeFields, EndsFields DEF CallFails, Subscribe, TypeOK
  <1>6. CASE SaveEdit(r)
    BY <1>6, GoesFields DEF SaveEdit, TypeOK, Shape
  <1>7. CASE Unsubscribe(r)
    BY <1>7, GoesFields, EndsFields DEF Unsubscribe, CallFails, TypeOK
  <1>8. CASE Resubscribe(r)
    BY <1>8, EndsFields DEF Resubscribe, CallFails, TypeOK
  <1>9. CASE UnsubscribeFirst(r)
    BY <1>9, GoesFields, EndsFields DEF UnsubscribeFirst, CallFails, TypeOK
  <1>10. CASE Delete(r)
    BY <1>10, EndsFields DEF Delete, TypeOK, Shape
  <1>11. CASE Die(r)
    BY <1>11, EndsFields DEF Die, TypeOK
  <1>12. ASSUME NEW f \in Feeds, NEW items \in SUBSET Items,
                Call(r, f, items) \/ Retrieve(r, f, items)
                PROVE  EntriesGoWithFeed'
    BY <1>12, BeginsFields DEF Call, Retrieve, TypeOK
  <1>13. CASE LookUp(r)
    BY <1>13, LookUpFields DEF LookUp, TypeOK
  <1>14. CASE AddEntry(r)
    BY <1>14, AddEntryFields DEF AddEntry, TypeOK, AtFeed, Shape
  <1>15. CASE AllAdded(r)
    BY <1>15, EndsFields DEF AllAdded, TypeOK
  <1> QED
    BY <1>1, <1>2, <1>3, <1>4, <1>5, <1>6, <1>7, <1>8,
       <1>9, <1>10, <1>11, <1>12, <1>13, <1>14, <1>15 DEF EditorSteps, EntrySteps

LEMMA PendingKept ==
    ASSUME Pending, NEW f \in Feeds, NEW r \in Requests, Only(r),
           feed'[f] = feed[f],
           <<f, feed[f]>> \in hub =>
               \/ <<f, feed[f]>> \in hub'
               \/ f \in failed'
               \/ Tends(r, f)',
           f \in failed => f \in failed' \/ <<f, feed[f]>> \in hub',
           Tends(r, f) => \/ Tends(r, f)'
                          \/ <<f, feed[f]>> \in hub'
                          \/ f \in failed'
    PROVE  Held(f)'
  <1> SUFFICES ASSUME Exists(f) PROVE Held(f)'
    BY DEF Held, Exists
  <1>1. Held(f)
    BY DEF Pending
  <1>2. ASSUME NEW q \in Requests, Tends(q, f), q # r PROVE Tends(q, f)'
    BY <1>2 DEF Tends, Only
  <1> QED
    BY <1>1, <1>2 DEF Held

\* The editor is told that a call has failed, whatever its effect was.
LEMMA HeldWhenCallFails ==
    ASSUME TypeOK, Pending, NEW r \in Requests, NEW f \in Feeds, NEW effect,
           CallFails(r, effect),
           <<f, feed[f]>> \in hub => <<f, feed[f]>> \in effect \/ f = request[r].feed
    PROVE  Held(f)'
  <1>1. /\ Only(r)
        /\ hub' = effect
        /\ failed' = failed \cup {request[r].feed}
        /\ feed' = feed
    BY EndsFields DEF CallFails, Fields
  <1>2. Tends(r, f) => f \in failed'
    BY <1>1 DEF Tends
  <1> QED
    BY <1>1, <1>2, PendingKept

LEMMA PendingStep ==
    ASSUME TypeOK, Shape, Pending,
           NEW r \in Requests, EditorSteps(r) \/ EntrySteps(r)
    PROVE  Pending'
  <1> SUFFICES ASSUME NEW f \in Feeds PROVE Held(f)'
    BY DEF Pending
  <1> USE DEF Fields, Tends
  <1>0. /\ request[r].at = "idle" => request[r].feed # f
        /\ f # None
    BY NothingAssumption DEF Shape
  <1>1. ASSUME NEW g \in Feeds, NEW url \in Urls, Create(r, g, url)
        PROVE  Held(f)'
    BY <1>0, <1>1, BeginsFields, PendingKept DEF Create
  <1>2. ASSUME NEW g \in Feeds, NEW url \in Urls, Edit(r, g, url) PROVE Held(f)'
    BY <1>0, <1>2, BeginsFields, PendingKept DEF Edit
  <1>3. ASSUME NEW g \in Feeds, Destroy(r, g) PROVE Held(f)'
    BY <1>0, <1>3, BeginsFields, PendingKept DEF Destroy
  <1>4. CASE SaveNew(r)
    <2>1. /\ Fields(r, "subscribe", request[r].feed, request[r].url, request[r].item)
          /\ request[r].feed \in Feeds
          /\ request[r].at = "create"
          /\ feed' = [feed EXCEPT ![request[r].feed] = request[r].url]
          /\ UNCHANGED <<hub, failed>>
      BY <1>4, GoesFields DEF SaveNew, Shape
    <2>2. CASE f = request[r].feed
      <3>1. Tends(r, f)'
        BY <2>1, <2>2 DEF TypeOK
      <3> QED
        BY <3>1 DEF Held
    <2>3. CASE f # request[r].feed
      BY <2>1, <2>3, PendingKept DEF TypeOK
    <2> QED
      BY <2>2, <2>3
  <1>5. CASE Subscribe(r)
    <2>1. CASE CallFails(r, Subscribed(r))
      BY <1>5, <2>1, HeldWhenCallFails DEF Subscribed
    <2>2. CASE ~CallFails(r, Subscribed(r))
      BY <1>5, <2>2, SubscribeFields, PendingKept DEF Subscribe, Subscribed
    <2> QED
      BY <2>1, <2>2
  <1>6. CASE SaveEdit(r)
    <2>1. /\ Fields(r, "unsubscribe", request[r].feed, request[r].url, request[r].item)
          /\ request[r].feed \in Feeds
          /\ request[r].at = "edit"
          /\ request[r].url \in Urls
          /\ feed' = [feed EXCEPT ![request[r].feed] =
                          IF Exists(request[r].feed) THEN request[r].url ELSE @]
          /\ UNCHANGED <<hub, failed>>
      BY <1>6, GoesFields DEF SaveEdit, Shape
    <2>2. CASE f = request[r].feed /\ Exists(f)
      <3>1. Tends(r, f)'
        BY <2>1, <2>2 DEF TypeOK
      <3> QED
        BY <3>1 DEF Held
    <2>3. CASE ~(f = request[r].feed /\ Exists(f))
      BY <2>1, <2>3, PendingKept DEF TypeOK
    <2> QED
      BY <2>2, <2>3
  <1>7. CASE Unsubscribe(r)
    <2>1. CASE CallFails(r, Unsubscribed(r))
      BY <1>7, <2>1, HeldWhenCallFails DEF Unsubscribed
    <2>2. CASE ~CallFails(r, Unsubscribed(r))
      <3>1. /\ Fields(r, "resubscribe", request[r].feed, request[r].url, request[r].item)
            /\ request[r].at = "unsubscribe"
            /\ hub' = Unsubscribed(r)
            /\ UNCHANGED <<feed, failed>>
        BY <1>7, <2>2, GoesFields DEF Unsubscribe
      <3>2. \/ <<f, feed[f]>> = <<request[r].feed, request[r].url>>
            \/ <<f, feed[f]>> \in hub => <<f, feed[f]>> \in hub'
        BY <3>1 DEF Unsubscribed
      <3>3. f = request[r].feed /\ feed[f] = request[r].url => Tends(r, f)'
        BY <3>1
      <3>4. Tends(r, f) => Tends(r, f)'
        BY <3>1, <3>3
      <3>5. <<f, feed[f]>> \in hub => <<f, feed[f]>> \in hub' \/ Tends(r, f)'
        BY <3>2, <3>3
      <3> QED
        BY <3>1, <3>4, <3>5, PendingKept
    <2> QED
      BY <2>1, <2>2
  <1>8. CASE Resubscribe(r)
    <2>1. CASE CallFails(r, Subscribed(r))
      BY <1>8, <2>1, HeldWhenCallFails DEF Subscribed
    <2>2. CASE ~CallFails(r, Subscribed(r))
      <3>1. /\ Fields(r, "idle", None, None, None)
            /\ request[r].at = "resubscribe"
            /\ hub' = hub \cup {<<request[r].feed, request[r].url>>}
            /\ failed' = IF feed[request[r].feed] = request[r].url
                           THEN failed \ {request[r].feed} ELSE failed
            /\ UNCHANGED feed
        BY <1>8, <2>2, EndsFields DEF Resubscribe, Subscribed
      <3>2. /\ <<f, feed[f]>> \in hub => <<f, feed[f]>> \in hub'
            /\ f \in failed => f \in failed' \/ <<f, feed[f]>> \in hub'
            /\ Tends(r, f) => <<f, feed[f]>> \in hub'
        BY <3>1
      <3> QED
        BY <3>1, <3>2, PendingKept
    <2> QED
      BY <2>1, <2>2
  <1>9. CASE UnsubscribeFirst(r)
    <2>1. CASE CallFails(r, Unsubscribed(r))
      BY <1>9, <2>1, HeldWhenCallFails DEF Unsubscribed
    <2>2. CASE ~CallFails(r, Unsubscribed(r))
      <3>1. /\ Fields(r, "delete", request[r].feed, request[r].url, request[r].item)
            /\ request[r].at = "destroy"
            /\ hub' = Unsubscribed(r)
            /\ UNCHANGED <<feed, failed>>
        BY <1>9, <2>2, GoesFields DEF UnsubscribeFirst
      <3>2. <<f, feed[f]>> \in hub => \/ <<f, feed[f]>> \in hub'
                                      \/ f = request[r].feed
        BY <3>1 DEF Unsubscribed
      <3>3. f = request[r].feed => Tends(r, f)'
        BY <3>1
      <3>4. Tends(r, f) => Tends(r, f)'
        BY <3>1, <3>3
      <3> QED
        BY <3>1, <3>2, <3>3, <3>4, PendingKept
    <2> QED
      BY <2>1, <2>2
  <1>10. CASE Delete(r)
    <2>1. /\ Fields(r, "idle", None, None, None)
          /\ request[r].feed \in Feeds
          /\ feed' = [feed EXCEPT ![request[r].feed] = Gone]
          /\ UNCHANGED <<hub, failed>>
      BY <1>10, EndsFields DEF Delete, Shape
    <2>2. CASE f = request[r].feed
      BY <2>1, <2>2, MarksAssumption DEF Held, Exists, TypeOK
    <2>3. CASE f # request[r].feed
      BY <2>1, <2>3, PendingKept DEF TypeOK
    <2> QED
      BY <2>2, <2>3
  <1>11. CASE Die(r)
    BY <1>0, <1>11, EndsFields, PendingKept DEF Die
  <1>12. ASSUME NEW g \in Feeds, NEW items \in SUBSET Items,
                Call(r, g, items) \/ Retrieve(r, g, items) PROVE Held(f)'
    BY <1>0, <1>12, BeginsFields, PendingKept DEF Call, Retrieve
  <1>13. CASE LookUp(r)
    <2>1. PICK item : Fields(r, "notified", request[r].feed, request[r].url, item)
      BY <1>13, LookUpFields DEF LookUp
    <2>2. /\ UNCHANGED <<feed, hub, failed>>
          /\ request[r].at = "notified"
      BY <1>13 DEF LookUp
    <2> QED
      BY <2>1, <2>2, PendingKept
  <1>14. CASE AddEntry(r)
    <2>1. /\ Fields(r, request[r].at, request[r].feed, request[r].url, None)
          /\ UNCHANGED <<feed, hub, failed>>
      BY <1>14, AddEntryFields DEF AddEntry
    <2> QED
      BY <2>1, PendingKept
  <1>15. CASE AllAdded(r)
    BY <1>15, EndsFields, PendingKept DEF AllAdded
  <1> QED
    BY <1>1, <1>2, <1>3, <1>4, <1>5, <1>6, <1>7, <1>8,
       <1>9, <1>10, <1>11, <1>12, <1>13, <1>14, <1>15 DEF EditorSteps, EntrySteps

\* What a step of a request does to what the others hold.
Moves(r) ==
    /\ Only(r)
    /\ crowded \subseteq crowded'
    /\ \A f \in Feeds : former[f] \subseteq former'[f]
    /\ \A f \in Feeds : feed'[f] # feed[f] =>
          /\ request[r].feed = f
          /\ \/ request[r].at \in {"create", "delete"}
             \/ feed[f] \in former'[f]
    /\ \A s \in hub' \ hub : s[1] = request[r].feed

LEMMA OthersMove ==
    ASSUME TypeOK, Shape,
           NEW r \in Requests, EditorSteps(r) \/ EntrySteps(r)
    PROVE  Moves(r)
  <1> USE DEF Moves, Fields
  <1>1. ASSUME NEW f \in Feeds, NEW url \in Urls, Create(r, f, url)
        PROVE  Moves(r)
    BY <1>1, BeginsFields DEF Create
  <1>2. ASSUME NEW f \in Feeds, NEW url \in Urls, Edit(r, f, url) PROVE Moves(r)
    BY <1>2, BeginsFields DEF Edit
  <1>3. ASSUME NEW f \in Feeds, Destroy(r, f) PROVE Moves(r)
    BY <1>3, BeginsFields DEF Destroy
  <1>4. CASE SaveNew(r)
    BY <1>4, GoesFields DEF SaveNew, Shape, TypeOK
  <1>5. CASE Subscribe(r)
    <2>1. /\ Only(r)
          /\ UNCHANGED <<feed, former, crowded>>
      BY <1>5, SubscribeFields, EndsFields DEF Subscribe, CallFails
    <2>2. \A s \in hub' \ hub : s[1] = request[r].feed
      BY <1>5 DEF Subscribe, CallFails, Subscribed, Unsubscribed
    <2> QED
      BY <2>1, <2>2
  <1>6. CASE SaveEdit(r)
    BY <1>6, GoesFields DEF SaveEdit, Shape, Exists, TypeOK
  <1>7. CASE Unsubscribe(r)
    <2>1. /\ Only(r)
          /\ UNCHANGED <<feed, former, crowded>>
      BY <1>7, GoesFields, EndsFields DEF Unsubscribe, CallFails
    <2>2. \A s \in hub' \ hub : s[1] = request[r].feed
      BY <1>7 DEF Unsubscribe, CallFails, Subscribed, Unsubscribed
    <2> QED
      BY <2>1, <2>2
  <1>8. CASE Resubscribe(r)
    <2>1. /\ Only(r)
          /\ UNCHANGED <<feed, former, crowded>>
      BY <1>8, EndsFields DEF Resubscribe, CallFails
    <2>2. \A s \in hub' \ hub : s[1] = request[r].feed
      BY <1>8 DEF Resubscribe, CallFails, Subscribed, Unsubscribed
    <2> QED
      BY <2>1, <2>2
  <1>9. CASE UnsubscribeFirst(r)
    <2>1. /\ Only(r)
          /\ UNCHANGED <<feed, former, crowded>>
      BY <1>9, GoesFields, EndsFields DEF UnsubscribeFirst, CallFails
    <2>2. \A s \in hub' \ hub : s[1] = request[r].feed
      BY <1>9 DEF UnsubscribeFirst, CallFails, Subscribed, Unsubscribed
    <2> QED
      BY <2>1, <2>2
  <1>10. CASE Delete(r)
    BY <1>10, EndsFields DEF Delete, Shape, TypeOK
  <1>11. CASE Die(r)
    BY <1>11, EndsFields DEF Die
  <1>12. ASSUME NEW f \in Feeds, NEW items \in SUBSET Items,
                Call(r, f, items) \/ Retrieve(r, f, items) PROVE Moves(r)
    BY <1>12, BeginsFields DEF Call, Retrieve
  <1>13. CASE LookUp(r)
    <2>1. /\ Only(r)
          /\ UNCHANGED <<feed, former, crowded, hub>>
      BY <1>13, LookUpFields DEF LookUp
    <2> QED
      BY <2>1
  <1>14. CASE AddEntry(r)
    BY <1>14, AddEntryFields DEF AddEntry
  <1>15. CASE AllAdded(r)
    BY <1>15, EndsFields DEF AllAdded
  <1> QED
    BY <1>1, <1>2, <1>3, <1>4, <1>5, <1>6, <1>7, <1>8,
       <1>9, <1>10, <1>11, <1>12, <1>13, <1>14, <1>15 DEF EditorSteps, EntrySteps

LEMMA OthersAddress ==
    ASSUME TypeOK, Shape, Making, Noticed, AddressHeld,
           NEW r \in Requests, Moves(r), NEW q \in Requests \ {r}
    PROVE  AddressOf(q)'
  <1> DEFINE f == request[q].feed
  <1> SUFFICES ASSUME f \notin crowded PROVE AddressOf(q)'
    BY DEF Moves, Only, AddressOf
  <1>1. request'[q] = request[q] /\ AddressOf(q)
    BY DEF Moves, Only, AddressHeld
  <1>2. CASE request[q].at \in {"subscribe", "unsubscribe", "resubscribe"}
    <2>1. f \in Feeds /\ request[q].url \in former[f] \cup {feed[f]}
      BY <1>1, <1>2 DEF AddressOf, Shape
    <2>2. CASE feed'[f] = feed[f]
      BY <1>1, <1>2, <2>1, <2>2 DEF AddressOf, Moves
    <2>3. CASE feed'[f] # feed[f]
      <3>1. request[r].feed = f /\ request[r].at # "delete" /\ request[r].at # "create"
        BY <2>1, <2>3 DEF Moves, Noticed, Making
      <3>2. feed[f] \in former'[f]
        BY <2>1, <2>3, <3>1 DEF Moves
      <3> QED
        BY <1>1, <1>2, <2>1, <3>2 DEF AddressOf, Moves
    <2> QED
      BY <2>2, <2>3
  <1>3. CASE request[q].at \in {"destroy", "delete"}
    <2>1. f \in Feeds /\ request[r].feed # f
      BY <1>3 DEF Shape, Noticed
    <2>2. feed'[f] = feed[f] /\ (<<f, feed[f]>> \in hub' => <<f, feed[f]>> \in hub)
      BY <2>1 DEF Moves
    <2> QED
      BY <1>1, <1>3, <2>2 DEF AddressOf
  <1> QED
    BY <1>1, <1>2, <1>3 DEF AddressOf

LEMMA OwnAddress ==
    ASSUME TypeOK, Shape, AtFeed, AddressHeld,
           NEW r \in Requests, EditorSteps(r) \/ EntrySteps(r)
    PROVE  AddressOf(r)'
  <1> USE DEF AddressOf, Fields
  <1>1. ASSUME NEW f \in Feeds, NEW url \in Urls, Create(r, f, url)
        PROVE  AddressOf(r)'
    BY <1>1, BeginsFields DEF Create
  <1>2. ASSUME NEW f \in Feeds, NEW url \in Urls, Edit(r, f, url)
        PROVE  AddressOf(r)'
    BY <1>2, BeginsFields DEF Edit
  <1>3. ASSUME NEW f \in Feeds, Destroy(r, f) PROVE AddressOf(r)'
    BY <1>3, BeginsFields DEF Destroy
  <1>4. CASE SaveNew(r)
    BY <1>4, GoesFields DEF SaveNew, TypeOK, Shape
  <1>5. CASE Subscribe(r)
    <2>1. CASE CallFails(r, Subscribed(r))
      BY <2>1, EndsFields DEF CallFails
    <2>2. CASE ~CallFails(r, Subscribed(r))
      BY <1>5, <2>2, SubscribeFields DEF Subscribe
    <2> QED
      BY <2>1, <2>2
  <1>6. CASE SaveEdit(r)
    <2>1. /\ Fields(r, "unsubscribe", request[r].feed, request[r].url, request[r].item)
          /\ request[r].feed \in Feeds
          /\ feed' = [feed EXCEPT ![request[r].feed] =
                         IF Exists(request[r].feed) THEN request[r].url ELSE @]
          /\ UNCHANGED crowded
      BY <1>6, GoesFields DEF SaveEdit, Shape
    <2>2. Exists(request[r].feed) \/ request[r].feed \in crowded
      BY <1>6 DEF AtFeed, SaveEdit
    <2> QED
      BY <2>1, <2>2 DEF TypeOK
  <1>7. CASE Unsubscribe(r)
    <2>1. CASE CallFails(r, Unsubscribed(r))
      BY <2>1, EndsFields DEF CallFails
    <2>2. CASE ~CallFails(r, Unsubscribed(r))
      <3>1. /\ Fields(r, "resubscribe", request[r].feed, request[r].url, request[r].item)
            /\ UNCHANGED <<feed, former, crowded>>
            /\ request[r].at = "unsubscribe"
        BY <1>7, <2>2, GoesFields DEF Unsubscribe
      <3> QED
        BY <3>1 DEF AddressHeld
    <2> QED
      BY <2>1, <2>2
  <1>8. CASE Resubscribe(r)
    BY <1>8, EndsFields DEF Resubscribe, CallFails
  <1>9. CASE UnsubscribeFirst(r)
    <2>1. CASE CallFails(r, Unsubscribed(r))
      BY <2>1, EndsFields DEF CallFails
    <2>2. CASE ~CallFails(r, Unsubscribed(r))
      <3>1. /\ Fields(r, "delete", request[r].feed, request[r].url, request[r].item)
            /\ UNCHANGED <<feed, former, crowded>>
            /\ request[r].at = "destroy"
            /\ hub' = Unsubscribed(r)
        BY <1>9, <2>2, GoesFields DEF UnsubscribeFirst
      <3> QED
        BY <3>1 DEF AddressHeld, Unsubscribed
    <2> QED
      BY <2>1, <2>2
  <1>10. CASE Delete(r)
    BY <1>10, EndsFields DEF Delete
  <1>11. CASE Die(r)
    BY <1>11, EndsFields DEF Die
  <1>12. ASSUME NEW f \in Feeds, NEW items \in SUBSET Items,
                Call(r, f, items) \/ Retrieve(r, f, items) PROVE AddressOf(r)'
    BY <1>12, BeginsFields DEF Call, Retrieve
  <1>13. CASE LookUp(r)
    <2>1. PICK item : Fields(r, "notified", request[r].feed, request[r].url, item)
      BY <1>13, LookUpFields DEF LookUp
    <2> QED
      BY <2>1
  <1>14. CASE AddEntry(r)
    BY <1>14, AddEntryFields DEF AddEntry, Shape
  <1>15. CASE AllAdded(r)
    BY <1>15, EndsFields DEF AllAdded
  <1> QED
    BY <1>1, <1>2, <1>3, <1>4, <1>5, <1>6, <1>7, <1>8,
       <1>9, <1>10, <1>11, <1>12, <1>13, <1>14, <1>15 DEF EditorSteps, EntrySteps

LEMMA AddressStep ==
    ASSUME TypeOK, Shape, AtFeed, Making, Noticed, AddressHeld,
           NEW r \in Requests, EditorSteps(r) \/ EntrySteps(r)
    PROVE  AddressHeld'
  BY OthersMove, OthersAddress, OwnAddress DEF AddressHeld

-----------------------------------------------------------------------------
(***************************************************************************)
(* Entries.  A request finds that an item is new, adds it, or does nothing *)
(* to entries but for taking some away.                                    *)
(***************************************************************************)
Quiet(r) ==
    /\ Only(r)
    /\ \A f \in Feeds, i \in Items : entry'[f][i] \in {entry[f][i], 0}
    /\ \/ request'[r].item = None
       \/ /\ request'[r].item = request[r].item
          /\ request'[r].feed = request[r].feed
    /\ UNCHANGED crossed

Finds(r, i) ==
    /\ Only(r)
    /\ request'[r].item = i
    /\ \A f \in Feeds : entry[f][i] = 0
    /\ crossed \subseteq crossed'
    /\ (\E q \in Requests : request[q].item = i) => i \in crossed'
    /\ UNCHANGED entry

Adds(r) ==
    /\ Only(r)
    /\ request'[r].item = None
    /\ request[r].item \in Items
    /\ request[r].feed \in Feeds
    /\ entry' = [entry EXCEPT ![request[r].feed][request[r].item] = @ + 1]
    /\ UNCHANGED crossed

EntryMove(r) == Quiet(r) \/ Adds(r) \/ \E i \in Items : Finds(r, i)

LEMMA EntryMoves ==
    ASSUME TypeOK, Shape,
           NEW r \in Requests, EditorSteps(r) \/ EntrySteps(r)
    PROVE  EntryMove(r)
  <1> USE DEF EntryMove, Fields
  <1>1. ASSUME NEW f \in Feeds, NEW url \in Urls, Create(r, f, url)
        PROVE  EntryMove(r)
    BY <1>1, BeginsFields DEF Create, Quiet, TypeOK
  <1>2. ASSUME NEW f \in Feeds, NEW url \in Urls, Edit(r, f, url)
        PROVE  EntryMove(r)
    BY <1>2, BeginsFields DEF Edit, Quiet, TypeOK
  <1>3. ASSUME NEW f \in Feeds, Destroy(r, f) PROVE EntryMove(r)
    BY <1>3, BeginsFields DEF Destroy, Quiet, TypeOK
  <1>4. CASE SaveNew(r)
    <2>1. /\ Only(r)
          /\ \/ request'[r].item = None
             \/ /\ request'[r].item = request[r].item
                /\ request'[r].feed = request[r].feed
          /\ UNCHANGED <<entry, crossed>>
      BY <1>4, GoesFields DEF SaveNew, CallFails
    <2> QED
      BY <2>1 DEF Quiet, TypeOK
  <1>5. CASE Subscribe(r)
    <2>1. /\ Only(r)
          /\ \/ request'[r].item = None
             \/ /\ request'[r].item = request[r].item
                /\ request'[r].feed = request[r].feed
          /\ UNCHANGED <<entry, crossed>>
      BY <1>5, SubscribeFields, EndsFields DEF Subscribe, CallFails
    <2> QED
      BY <2>1 DEF Quiet, TypeOK
  <1>6. CASE SaveEdit(r)
    <2>1. /\ Only(r)
          /\ \/ request'[r].item = None
             \/ /\ request'[r].item = request[r].item
                /\ request'[r].feed = request[r].feed
          /\ UNCHANGED <<entry, crossed>>
      BY <1>6, GoesFields DEF SaveEdit, CallFails
    <2> QED
      BY <2>1 DEF Quiet, TypeOK
  <1>7. CASE Unsubscribe(r)
    <2>1. /\ Only(r)
          /\ \/ request'[r].item = None
             \/ /\ request'[r].item = request[r].item
                /\ request'[r].feed = request[r].feed
          /\ UNCHANGED <<entry, crossed>>
      BY <1>7, GoesFields, EndsFields DEF Unsubscribe, CallFails
    <2> QED
      BY <2>1 DEF Quiet, TypeOK
  <1>8. CASE Resubscribe(r)
    <2>1. /\ Only(r)
          /\ \/ request'[r].item = None
             \/ /\ request'[r].item = request[r].item
                /\ request'[r].feed = request[r].feed
          /\ UNCHANGED <<entry, crossed>>
      BY <1>8, EndsFields DEF Resubscribe, CallFails
    <2> QED
      BY <2>1 DEF Quiet, TypeOK
  <1>9. CASE UnsubscribeFirst(r)
    <2>1. /\ Only(r)
          /\ \/ request'[r].item = None
             \/ /\ request'[r].item = request[r].item
                /\ request'[r].feed = request[r].feed
          /\ UNCHANGED <<entry, crossed>>
      BY <1>9, GoesFields, EndsFields DEF UnsubscribeFirst, CallFails
    <2> QED
      BY <2>1 DEF Quiet, TypeOK
  <1>10. CASE Delete(r)
    <2>1. Quiet(r)
      BY <1>10, EndsFields DEF Delete, Quiet, TypeOK, Shape
    <2> QED
      BY <2>1
  <1>11. CASE Die(r)
    BY <1>11, EndsFields DEF Die, Quiet, TypeOK
  <1>12. ASSUME NEW f \in Feeds, NEW items \in SUBSET Items,
                Call(r, f, items) \/ Retrieve(r, f, items) PROVE EntryMove(r)
    BY <1>12, BeginsFields DEF Call, Retrieve, Quiet, TypeOK
  <1>13. CASE LookUp(r)
    <2>1. PICK i \in Items, item \in Items \cup {None} :
              /\ Fields(r, request[r].at, request[r].feed, request[r].url, item)
              /\ \/ item = None /\ crossed' = crossed
                 \/ /\ item = i
                    /\ IsNew(request[r].feed, i)
                    /\ crossed' = IF \E q \in Requests : request[q].item = i
                                    THEN crossed \cup {i} ELSE crossed
      BY <1>13, LookUpFields
    <2>2. UNCHANGED entry
      BY <1>13 DEF LookUp
    <2>3. CASE item = None /\ crossed' = crossed
      BY <2>1, <2>2, <2>3 DEF Quiet, TypeOK
    <2>4. CASE item = i /\ IsNew(request[r].feed, i)
      <3>1. Finds(r, i) \/ Quiet(r)
        BY <2>1, <2>2, <2>4, NothingAssumption DEF Finds, IsNew
      <3> QED
        BY <3>1
    <2> QED
      BY <2>1, <2>3, <2>4
  <1>14. CASE AddEntry(r)
    <2>1. Adds(r)
      BY <1>14, AddEntryFields DEF AddEntry, Adds, Shape, TypeOK, RequestState
    <2> QED
      BY <2>1
  <1>15. CASE AllAdded(r)
    BY <1>15, EndsFields DEF AllAdded, Quiet, TypeOK
  <1> QED
    BY <1>1, <1>2, <1>3, <1>4, <1>5, <1>6, <1>7, <1>8,
       <1>9, <1>10, <1>11, <1>12, <1>13, <1>14, <1>15 DEF EditorSteps, EntrySteps

LEMMA AddingFinite ==
    ASSUME NEW f \in Feeds, NEW i \in Items
    PROVE  /\ IsFiniteSet(Adding(f, i))
           /\ Cardinality(Adding(f, i)) \in Nat
           /\ Cardinality(Requests) \in Nat
           /\ Cardinality(Adding(f, i)) <= Cardinality(Requests)
  BY RequestsFinite, FS_Subset, FS_CardinalityType DEF Adding

LEMMA AddersStep ==
    ASSUME TypeOK, AddersBounded, NEW r \in Requests,
           EntryMove(r)
    PROVE  AddersBounded'
  <1> SUFFICES ASSUME NEW f \in Feeds, NEW i \in Items
               PROVE  entry'[f][i] + Cardinality(Adding(f, i)')
                          <= Cardinality(Requests)
    BY DEF AddersBounded
  <1>1. /\ entry[f][i] \in Nat
        /\ entry[f][i] + Cardinality(Adding(f, i)) <= Cardinality(Requests)
        /\ i # None
    BY AddingFinite, NothingAssumption DEF TypeOK, AddersBounded
  <1>2. /\ IsFiniteSet(Adding(f, i)')
        /\ Cardinality(Adding(f, i)') \in Nat
        /\ Cardinality(Adding(f, i)') <= Cardinality(Requests)
    BY RequestsFinite, FS_Subset, FS_CardinalityType DEF Adding
  <1>3. ASSUME Adding(f, i)' \subseteq Adding(f, i)
        PROVE  Cardinality(Adding(f, i)') <= Cardinality(Adding(f, i))
    BY <1>3, AddingFinite, FS_Subset
  <1>4. CASE Quiet(r)
    <2>1. Adding(f, i)' \subseteq Adding(f, i)
      BY <1>1, <1>4 DEF Quiet, Only, Adding
    <2>2. entry'[f][i] \in {entry[f][i], 0}
      BY <1>4 DEF Quiet
    <2> QED
      BY <1>1, <1>2, <1>3, <2>1, <2>2, AddingFinite
  <1>5. ASSUME NEW j \in Items, Finds(r, j)
       
        PROVE   entry'[f][i] + Cardinality(Adding(f, i)') <= Cardinality(Requests)
    <2>1. CASE j = i
      <3>1. entry'[f][i] = 0
        BY <1>5, <2>1 DEF Finds
      <3> QED
        BY <1>2, <3>1, AddingFinite
    <2>2. CASE j # i
      <3>1. Adding(f, i)' \subseteq Adding(f, i)
        BY <1>5, <2>2 DEF Finds, Only, Adding
      <3>2. entry'[f][i] = entry[f][i]
        BY <1>5 DEF Finds
      <3> QED
        BY <1>1, <1>2, <1>3, <3>1, <3>2, AddingFinite
    <2> QED
      BY <2>1, <2>2
  <1>6. CASE Adds(r)
    <2>1. CASE r \in Adding(f, i)
      <3>1. f = request[r].feed /\ i = request[r].item
        BY <2>1 DEF Adding
      <3>2. Adding(f, i)' = Adding(f, i) \ {r}
        BY <1>1, <1>6, <2>1 DEF Adds, Only, Adding
      <3>3. entry'[f][i] = entry[f][i] + 1
        BY <1>6, <3>1 DEF Adds, TypeOK
      <3>4. Cardinality(Adding(f, i)') = Cardinality(Adding(f, i)) - 1
        BY <2>1, <3>2, AddingFinite, FS_RemoveElement
      <3> QED
        BY <1>1, <3>3, <3>4, AddingFinite
    <2>2. CASE r \notin Adding(f, i)
      <3>1. Adding(f, i)' \subseteq Adding(f, i)
        BY <1>1, <1>6 DEF Adds, Only, Adding
      <3>2. entry'[f][i] = entry[f][i]
        BY <1>6, <2>2 DEF Adds, Adding, TypeOK
      <3> QED
        BY <1>1, <1>2, <1>3, <3>1, <3>2, AddingFinite
    <2> QED
      BY <2>1, <2>2
  <1> QED
    BY <1>4, <1>5, <1>6 DEF EntryMove

LEMMA EntryBound ==
    ASSUME TypeOK, Shape, AddersBounded, NEW r \in Requests, AddEntry(r)
    PROVE  entry' \in [Feeds -> [Items -> 0 .. Cardinality(Requests)]]
  <1> DEFINE f == request[r].feed
             i == request[r].item
  <1>1. f \in Feeds /\ i \in Items
    BY DEF AddEntry, TypeOK, Shape, RequestState
  <1>2. Cardinality(Adding(f, i)) > 0
    <2>1. r \in Adding(f, i)
      BY DEF Adding
    <2> QED
      BY <1>1, <2>1, AddingFinite, FS_EmptySet
  <1>3. entry[f][i] + 1 \in 0 .. Cardinality(Requests)
    <2>1. /\ entry[f][i] \in 0 .. Cardinality(Requests)
          /\ entry[f][i] + Cardinality(Adding(f, i)) <= Cardinality(Requests)
      BY <1>1 DEF TypeOK, AddersBounded
    <2> QED
      BY <1>1, <1>2, <2>1, AddingFinite
  <1>4. entry' = [entry EXCEPT ![f][i] = entry[f][i] + 1]
    BY DEF AddEntry
  <1> QED
    BY <1>1, <1>3, <1>4 DEF TypeOK

LEMMA OneAdderStep ==
    ASSUME TypeOK, OneAdder, NEW r \in Requests,
           EntryMove(r)
    PROVE  OneAdder'
  <1> SUFFICES ASSUME NEW i \in Items \ crossed', NEW p \in Requests,
                      request'[p].item = i
               PROVE  /\ \A q \in Requests \ {p} : request'[q].item # i
                      /\ \A f \in Feeds : entry'[f][i] = 0
    BY DEF OneAdder
  <1>0. i # None
    BY NothingAssumption
  <1>1. CASE Quiet(r)
    <2>1. /\ i \notin crossed
          /\ request[p].item = i
          /\ \A q \in Requests : request'[q].item = i => request[q].item = i
      BY <1>0, <1>1 DEF Quiet, Only
    <2> QED
      BY <1>1, <2>1 DEF Quiet, OneAdder
  <1>2. ASSUME NEW j \in Items, Finds(r, j)
        PROVE  /\ \A q \in Requests \ {p} : request'[q].item # i
               /\ \A f \in Feeds : entry'[f][i] = 0
    <2>1. CASE j = i
      BY <1>2, <2>1 DEF Finds, Only
    <2>2. CASE j # i
      <3>1. /\ i \notin crossed
            /\ request[p].item = i
            /\ \A q \in Requests : request'[q].item = i => request[q].item = i
        BY <1>2, <2>2 DEF Finds, Only
      <3> QED
        BY <1>2, <3>1 DEF Finds, OneAdder
    <2> QED
      BY <2>1, <2>2
  <1>3. CASE Adds(r)
    <2>1. /\ i \notin crossed
          /\ p # r
          /\ request[p].item = i
          /\ \A q \in Requests : request'[q].item = i => request[q].item = i
      BY <1>0, <1>3 DEF Adds, Only
    <2>2. request[r].item # i
      BY <2>1 DEF OneAdder
    <2>3. \A f \in Feeds : entry'[f][i] = entry[f][i]
      BY <1>3, <2>2 DEF Adds, TypeOK
    <2> QED
      BY <2>1, <2>3 DEF OneAdder
  <1> QED
    BY <1>1, <1>2, <1>3 DEF EntryMove

LEMMA OnceStep ==
    ASSUME TypeOK, OneAdder, EntriesOnce, NEW r \in Requests,
           EntryMove(r)
    PROVE  EntriesOnce'
  <1> SUFFICES ASSUME NEW i \in Items \ crossed', NEW f \in Feeds, NEW g \in Feeds
               PROVE  /\ entry'[f][i] <= 1
                      /\ entry'[f][i] > 0 /\ entry'[g][i] > 0 => f = g
    BY DEF EntriesOnce
  <1>1. /\ i \notin crossed
        /\ entry[f][i] \in Nat
        /\ entry[g][i] \in Nat
        /\ entry[f][i] <= 1
        /\ entry[f][i] > 0 /\ entry[g][i] > 0 => f = g
    BY RequestsFinite, FS_CardinalityType
       DEF EntriesOnce, EntryMove, Quiet, Adds, Finds, TypeOK
  <1>2. CASE /\ entry'[f][i] \in {entry[f][i], 0}
             /\ entry'[g][i] \in {entry[g][i], 0}
    BY <1>1, <1>2
  <1>3. CASE Adds(r)
    <2>1. CASE request[r].item = i
      <3>1. \A h \in Feeds : /\ entry[h][i] = 0
                             /\ entry'[h][i] = IF h = request[r].feed THEN 1 ELSE 0
        BY <1>1, <1>3, <2>1 DEF OneAdder, Adds, TypeOK
      <3> QED
        BY <3>1
    <2>2. CASE request[r].item # i
      BY <1>2, <1>3, <2>2 DEF Adds, TypeOK
    <2> QED
      BY <2>1, <2>2
  <1> QED
    BY <1>2, <1>3 DEF EntryMove, Quiet, Finds

-----------------------------------------------------------------------------
LEMMA InitInvariant == Init => IInv
  <1> SUFFICES ASSUME Init PROVE IInv
    OBVIOUS
  <1> USE DEF Init
  <1>1. Cardinality(Requests) \in Nat /\ Cardinality({}) = 0
    BY RequestsFinite, FS_CardinalityType, FS_EmptySet
  <1>2. TypeOK
    BY <1>1, IdleType DEF TypeOK
  <1>3. Shape /\ AtFeed /\ Making /\ Noticed /\ AddressHeld
    BY DEF Shape, AtFeed, Making, Noticed, AddressHeld, AddressOf, Idle
  <1>4. Pending /\ HubKnowsAddress /\ EntriesOnce /\ EntriesGoWithFeed
    BY MarksAssumption DEF Pending, Held, Exists, HubKnowsAddress, EntriesOnce,
                           EntriesGoWithFeed
  <1>5. AddersBounded
    <2>1. ASSUME NEW f \in Feeds, NEW i \in Items
          PROVE  Adding(f, i) = {} /\ entry[f][i] = 0
      BY NothingAssumption DEF Adding, Idle
    <2> QED
      BY <1>1, <2>1 DEF AddersBounded
  <1>6. OneAdder
    BY NothingAssumption DEF OneAdder, Idle
  <1> QED
    BY <1>2, <1>3, <1>4, <1>5, <1>6 DEF IInv

LEMMA StepInvariant == IInv /\ [Next]_vars => IInv'
  <1> SUFFICES ASSUME IInv, [Next]_vars PROVE IInv'
    OBVIOUS
  <1> USE DEF IInv
  <1>1. CASE UNCHANGED vars
    BY <1>1
       DEF vars, TypeOK, Shape, AtFeed, Making, Noticed, AddressHeld, AddressOf,
                Pending, Held, Tends, AddersBounded, Adding, OneAdder, Exists,
                HubKnowsAddress, EntriesOnce, EntriesGoWithFeed
  <1>2. ASSUME NEW r \in Requests, EditorSteps(r) \/ EntrySteps(r)
        PROVE  IInv'
    <2>1. EntryMove(r)
      BY <1>2, EntryMoves
    <2>2. TypeOK'
      BY <1>2, TypeStep, EntryBound
    <2>3. Shape' /\ AtFeed' /\ Making' /\ Noticed'
      BY <1>2, ShapeStep, AtFeedStep, MakingStep, NoticedStep
    <2>4. AddressHeld' /\ HubKnowsAddress' /\ Pending'
      BY <1>2, AddressStep, HubStep, PendingStep
    <2>5. AddersBounded' /\ OneAdder' /\ EntriesOnce' /\ EntriesGoWithFeed'
      BY <1>2, <2>1, AddersStep, OneAdderStep, OnceStep, GoesWithStep
    <2> QED
      BY <2>2, <2>3, <2>4, <2>5
  <1> QED
    BY <1>1, <1>2 DEF Next

\* IInv is inductive: what requests hold of feeds, and what the feeds, the hub
\* and the entries may then disagree on.
THEOREM Invariance == Spec => []IInv
  <1> QED
    BY InitInvariant, StepInvariant, PTL DEF Spec

\* Feeds, entries and requests keep their types; an item never has more entries
\* in a feed than there are requests at once.
THEOREM FeedsTyped == Spec => []TypeOK
  <1>1. IInv => TypeOK
    BY DEF IInv
  <1> QED
    BY <1>1, Invariance, PTL

\* The hub calls back only by addresses that create and update gave the feed,
\* unless destroy met another request at it.
THEOREM HubKnows == Spec => []HubKnowsAddress
  <1>1. IInv => HubKnowsAddress
    BY DEF IInv
  <1> QED
    BY <1>1, Invariance, PTL

\* However many editors change it, and whatever calls fail, a feed that is left
\* alone is subscribed by its address, or an editor was told that it is not.
THEOREM LeftSubscribed == Spec => []SubscribedOrSaid
  <1>1. IInv => SubscribedOrSaid
    BY DEF IInv, Pending, Held, SubscribedOrSaid, Tends
  <1> QED
    BY <1>1, Invariance, PTL

\* The validations of Entry let an item in twice only when two requests looked it
\* up before either had added it.
THEOREM AddedOnce == Spec => []EntriesOnce
  <1>1. IInv => EntriesOnce
    BY DEF IInv
  <1> QED
    BY <1>1, Invariance, PTL

\* dependent: :destroy leaves entries behind only when another request was at the
\* feed that was destroyed.
THEOREM NoneOutlive == Spec => []EntriesGoWithFeed
  <1>1. IInv => EntriesGoWithFeed
    BY DEF IInv
  <1> QED
    BY <1>1, Invariance, PTL
=============================================================================
