----------------------------- MODULE PlacesSync -----------------------------
(***************************************************************************)
(* The list of places, on every device and in the database.                *)
(*                                                                         *)
(* Every running app observes the node `Places' of the Firebase Realtime   *)
(* Database (Places.downloadDatabasePlacesData) and keeps the places in    *)
(* Places.sharedInstance.places.  A visit (found by the Locator) or a      *)
(* rating (given on the detail screen) changes one Place object and writes *)
(* the whole object back.  The SDK applies the write to its own cache at   *)
(* once, raises the events for it, and sends it to the server when it can. *)
(*                                                                         *)
(* A detail screen holds the Place object it was opened with.  When        *)
(* childChanged replaces the list's object by a new one, the screen keeps  *)
(* the old object: `orphan' is that object, and None while the screen and  *)
(* the list share one.                                                     *)
(***************************************************************************)
EXTENDS PlaceRecord

CONSTANTS
    Devices,        \* the phones the app runs on
    Keys,           \* the keys of the places in the database
    None,           \* nobody, nothing
    RateChoices,    \* the stars a user gives
    MaxWrites,      \* bound: visits and ratings, over all devices
    MaxEdits,       \* bound: administrator's additions and edits
    MaxFaults,      \* bound: lost connections and killed apps
    MaxObservers    \* bound: registrations of the two observers on a device

ASSUME KeysAssumption == Keys \subseteq Int /\ IsFiniteSet(Keys)
ASSUME NoneAssumption == None \notin Record \cup Keys \cup Users \cup Devices
ASSUME ChoicesAssumption == RateChoices \subseteq Stars
ASSUME BoundsAssumption ==
    /\ MaxWrites \in Nat /\ MaxEdits \in Nat
    /\ MaxFaults \in Nat /\ MaxObservers \in Nat

VARIABLES
    server,     \* the node Places: a record for each key that exists
    view,       \* SDK: its cache, the device's unacknowledged writes included
    sending,    \* SDK: writes the server has not applied yet
    unacked,    \* SDK: writes applied, whose acknowledgement has not arrived
    down,       \* SDK: updates on their way to the device
    events,     \* main queue: calls of the observers' blocks
    observers,  \* how often the pair of observers is registered
    places,     \* Places.sharedInstance.places
    detail,     \* the key of the place on the detail screen
    orphan,     \* the detail screen's object, once the list has another one
    auth,       \* Auth.auth().currentUser
    status,     \* whether the app runs, and the trap that stopped it
    writes, edits, faults   \* counters for the bounds

sdk == <<view, sending, unacked, down>>
vars == <<server, view, sending, unacked, down, events, observers, places,
          detail, orphan, auth, status, writes, edits, faults>>

Statuses == {"off", "running", "castFailed", "nilUnwrapped"}

Write == [key : Keys, rec : Record]
Update == [key : Keys, rec : Record, ack : BOOLEAN]
Event == [type : {"added", "changed"}, key : Keys, rec : Record]
Entry == [key : Keys, rec : Record]

-----------------------------------------------------------------------------
(* The SDK and the server: external, as the code uses them.                *)

Running(d) == status[d] = "running"

Existing(cache) == {k \in Keys : cache[k] # None}

\* The orders in which an SDK can name the keys: by increasing key.
InKeyOrder(S) == {order \in [1 .. Cardinality(S) -> S] :
                    \A i, j \in DOMAIN order : i < j => order[i] < order[j]}

\* One call per registered observer.
Calls(n, type, k, rec) ==
    [i \in 1 .. n |-> [type |-> type, key |-> k, rec |-> rec]]

\* The SDK's cache gets a record: the observers hear of it if it is new.
CacheBecomes(d, k, rec) ==
    /\ view' = [view EXCEPT ![d][k] = rec]
    /\ events' = [events EXCEPT ![d] =
         IF view[d][k] = rec
         THEN @
         ELSE @ \o Calls(observers[d],
                         IF view[d][k] = None THEN "added" ELSE "changed",
                         k, rec)]

\* updateChildValues with all fields of a place.
UpdateChildValues(d, k, rec) ==
    /\ writes < MaxWrites
    /\ writes' = writes + 1
    /\ sending' = [sending EXCEPT ![d] = Append(@, [key |-> k, rec |-> rec])]
    /\ CacheBecomes(d, k, rec)

\* The server tells every listening device of a record; `writer' is
\* acknowledged by the same message.
Broadcast(k, rec, writer) ==
    down' = [d \in Devices |->
               IF Running(d)
               THEN Append(down[d], [key |-> k, rec |-> rec,
                                     ack |-> d = writer])
               ELSE down[d]]

\* What a device that (re)connects is sent.
SnapshotOf(order) ==
    [i \in DOMAIN order |-> [key |-> order[i], rec |-> server[order[i]],
                             ack |-> FALSE]]

ServerApply(d) ==
    /\ Running(d)
    /\ sending[d] # << >>
    /\ LET w == Head(sending[d])
       IN /\ server' = [server EXCEPT ![w.key] = w.rec]
          /\ unacked' = [unacked EXCEPT ![d] = Append(@, w)]
          /\ Broadcast(w.key, w.rec, d)
    /\ sending' = [sending EXCEPT ![d] = Tail(@)]
    /\ UNCHANGED <<view, events, observers, places, detail, orphan, auth,
                   status, writes, edits, faults>>

Pending(d, k) ==
    \/ \E i \in DOMAIN sending'[d] : sending'[d][i].key = k
    \/ \E i \in DOMAIN unacked'[d] : unacked'[d][i].key = k

\* An update arrives; a record with a write of the device's own still under
\* way keeps that write's values.
Deliver(d) ==
    /\ Running(d)
    /\ down[d] # << >>
    /\ LET m == Head(down[d])
       IN /\ unacked' = [unacked EXCEPT ![d] =
                           IF m.ack THEN SubSeq(@, 2, Len(@)) ELSE @]
          /\ UNCHANGED sending
          /\ \/ /\ Pending(d, m.key)
                /\ UNCHANGED <<view, events>>
             \/ /\ ~ Pending(d, m.key)
                /\ CacheBecomes(d, m.key, m.rec)
    /\ down' = [down EXCEPT ![d] = Tail(@)]
    /\ UNCHANGED <<server, observers, places, detail, orphan, auth, status,
                   writes, edits, faults>>

\* The connection is lost and restored: unacknowledged writes are sent
\* again, and the device is sent what the server has now.
Reconnect(d) ==
    /\ Running(d)
    /\ faults < MaxFaults
    /\ faults' = faults + 1
    /\ sending' = [sending EXCEPT ![d] = unacked[d] \o @]
    /\ unacked' = [unacked EXCEPT ![d] = << >>]
    /\ \E order \in InKeyOrder(Existing(server)) :
          down' = [down EXCEPT ![d] = SnapshotOf(order)]
    /\ UNCHANGED <<server, view, events, observers, places, detail, orphan,
                   auth, status, writes, edits>>

\* An administrator adds a place or edits its fields at the console.
ConsoleWrites(k, rec) ==
    /\ edits < MaxEdits
    /\ edits' = edits + 1
    /\ server' = [server EXCEPT ![k] = rec]
    /\ Broadcast(k, rec, None)
    /\ UNCHANGED <<view, sending, unacked, events, observers, places, detail,
                   orphan, auth, status, writes, faults>>

ConsoleAdd(k, info) ==
    /\ server[k] = None
    /\ ConsoleWrites(k, NewRecord(info))

ConsoleEdit(k, info) ==
    /\ server[k] # None
    /\ server[k].info # info
    /\ ConsoleWrites(k, [server[k] EXCEPT !.info = info])

-----------------------------------------------------------------------------
(* The app.                                                                *)

Listed(list, k) == \E i \in DOMAIN list : list[i].key = k

\* Variants: without the test for a listed place; new places on top.
WithAddedUnchecked(list, k, rec) == Append(list, [key |-> k, rec |-> rec])
WithAddedOnTop(list, k, rec) ==
    IF Listed(list, k) THEN list ELSE <<[key |-> k, rec |-> rec]>> \o list

\* childAdded: a place that is not listed yet goes to the end of the list.
WithAdded(list, k, rec) ==
    IF Listed(list, k) THEN list ELSE Append(list, [key |-> k, rec |-> rec])

\* Variant: the last index left out.
ReplacedButLast(list, k, rec) ==
    [i \in DOMAIN list |->
       IF /\ i < Len(list)
          /\ list[i].key = k
          /\ \A j \in 1 .. i - 1 : list[j].key # k
       THEN [key |-> k, rec |-> rec]
       ELSE list[i]]

\* Variant: the new object is added and the old one kept.
ReplacedBeside(list, k, rec) == Append(list, [key |-> k, rec |-> rec])

\* The loop of childChanged: the first place with the key is replaced.
Replaced(list, k, rec) ==
    [i \in DOMAIN list |->
       IF list[i].key = k /\ \A j \in 1 .. i - 1 : list[j].key # k
       THEN [key |-> k, rec |-> rec]
       ELSE list[i]]

\* The root list loads and registers the two observers; the SDK, whose
\* cache is not on disk, is sent every place.
Launch(d) ==
    /\ status[d] = "off"
    /\ status' = [status EXCEPT ![d] = "running"]
    /\ observers' = [observers EXCEPT ![d] = 1]
    /\ \E order \in InKeyOrder(Existing(server)) :
          down' = [down EXCEPT ![d] = SnapshotOf(order)]
    /\ UNCHANGED <<server, view, sending, unacked, events, places, detail,
                   orphan, auth, writes, edits, faults>>

\* The user or the system ends the app, or it is started again after a
\* trap: what was in memory is lost, the signed-in user is not.
Kill(d) ==
    /\ status[d] # "off"
    /\ faults < MaxFaults
    /\ faults' = faults + 1
    /\ status' = [status EXCEPT ![d] = "off"]
    /\ view' = [view EXCEPT ![d] = [k \in Keys |-> None]]
    /\ sending' = [sending EXCEPT ![d] = << >>]
    /\ unacked' = [unacked EXCEPT ![d] = << >>]
    /\ down' = [down EXCEPT ![d] = << >>]
    /\ events' = [events EXCEPT ![d] = << >>]
    /\ observers' = [observers EXCEPT ![d] = 0]
    /\ places' = [places EXCEPT ![d] = << >>]
    /\ detail' = [detail EXCEPT ![d] = None]
    /\ orphan' = [orphan EXCEPT ![d] = None]
    /\ UNCHANGED <<server, auth, writes, edits>>

\* A run-time check of Swift fails: the app stops where it is.
Trap(d, reason) ==
    /\ status' = [status EXCEPT ![d] = reason]
    /\ UNCHANGED <<server, view, sending, unacked, down, events, observers,
                   places, detail, orphan, auth, writes, edits, faults>>

HandleChildAdded(d) ==
    /\ Running(d)
    /\ events[d] # << >>
    /\ LET e == Head(events[d])
       IN /\ e.type = "added"
          /\ PlaceFromDictionarySucceeds(e.rec)
          /\ places' = [places EXCEPT ![d] =
                          WithAdded(@, e.key, e.rec)]
    /\ events' = [events EXCEPT ![d] = Tail(@)]
    /\ UNCHANGED <<server, sdk, observers, detail, orphan, auth, status,
                   writes, edits, faults>>

\* Variant: the block writes the place it has been told of back.
HandleChildChangedEcho(d) ==
    /\ Running(d)
    /\ events[d] # << >>
    /\ LET e == Head(events[d])
       IN /\ e.type = "changed"
          /\ places' = [places EXCEPT ![d] = Replaced(@, e.key, e.rec)]
          /\ sending' = [sending EXCEPT ![d] =
                           Append(@, [key |-> e.key, rec |-> e.rec])]
    /\ events' = [events EXCEPT ![d] = Tail(@)]
    /\ UNCHANGED <<server, view, unacked, down, observers, detail, orphan, auth,
                   status, writes, edits, faults>>

\* The object that childChanged drops from the list, if the detail screen
\* holds it, lives on there.
HandleChildChanged(d) ==
    /\ Running(d)
    /\ events[d] # << >>
    /\ LET e == Head(events[d])
       IN /\ e.type = "changed"
          /\ PlaceFromDictionarySucceeds(e.rec)
          /\ places' = [places EXCEPT ![d] = Replaced(@, e.key, e.rec)]
          /\ \/ /\ detail[d] = e.key
                /\ orphan[d] = None
                /\ \E i \in DOMAIN places[d] :
                      /\ places[d][i].key = e.key
                      /\ orphan' = [orphan EXCEPT ![d] = places[d][i].rec]
             \/ /\ detail[d] # e.key \/ orphan[d] # None
                /\ UNCHANGED orphan
    /\ events' = [events EXCEPT ![d] = Tail(@)]
    /\ UNCHANGED <<server, sdk, observers, detail, auth, status, writes,
                   edits, faults>>

\* placeFromDictionary casts `ratings' to a dictionary.
FailCast(d) ==
    /\ Running(d)
    /\ events[d] # << >>
    /\ ~ PlaceFromDictionarySucceeds(Head(events[d]).rec)
    /\ Trap(d, "castFailed")

HandleEvent(d) ==
    \/ HandleChildAdded(d)
    \/ HandleChildChanged(d)
    \/ FailCast(d)

\* Places.visit, called by the Locator for a place of the list.
Visit(d, i) ==
    /\ Running(d)
    /\ i \in DOMAIN places[d]
    /\ LET p == places[d][i]
           name == VisitorName(p.rec, auth[d], None)
       IN /\ IsNewVisitor(p.rec, name)
          /\ places' = [places EXCEPT ![d][i].rec = Visited(@, name)]
          /\ UpdateChildValues(d, p.key, Visited(p.rec, name))
    /\ UNCHANGED <<server, unacked, down, observers, detail, orphan, auth,
                   status, edits, faults>>

\* Places.rate on a detail screen whose object is the list's.
RateListed(d, i, stars) ==
    /\ Running(d)
    /\ i \in DOMAIN places[d]
    /\ places[d][i].key = detail[d]
    /\ orphan[d] = None
    /\ LET p == places[d][i]
           rec == Rated(p.rec, RaterName(p.rec, auth[d], None), stars)
       IN /\ places' = [places EXCEPT ![d][i].rec = rec]
          /\ UpdateChildValues(d, p.key, rec)
    /\ UNCHANGED <<server, unacked, down, observers, detail, orphan, auth,
                   status, edits, faults>>

\* Places.rate on a detail screen whose object the list has replaced.
RateOrphan(d, stars) ==
    /\ Running(d)
    /\ detail[d] # None
    /\ orphan[d] # None
    /\ LET rec == Rated(orphan[d], RaterName(orphan[d], auth[d], None), stars)
       IN /\ orphan' = [orphan EXCEPT ![d] = rec]
          /\ UpdateChildValues(d, detail[d], rec)
    /\ UNCHANGED <<server, unacked, down, observers, places, detail, auth,
                   status, edits, faults>>

\* A row of the list is tapped: the screen gets the list's object.
OpenDetail(d, i) ==
    /\ Running(d)
    /\ detail[d] = None
    /\ i \in DOMAIN places[d]
    /\ detail' = [detail EXCEPT ![d] = places[d][i].key]
    /\ UNCHANGED <<server, sdk, events, observers, places, orphan, auth,
                   status, writes, edits, faults>>

CloseDetail(d) ==
    /\ Running(d)
    /\ detail[d] # None
    /\ detail' = [detail EXCEPT ![d] = None]
    /\ orphan' = [orphan EXCEPT ![d] = None]
    /\ UNCHANGED <<server, sdk, events, observers, places, auth, status,
                   writes, edits, faults>>

\* My Places is tapped and some place has the user among its visitors: the
\* new list registers the two observers once more, and the SDK calls them
\* for every place of its cache.
OpenMyPlaces(d) ==
    /\ Running(d)
    /\ auth[d] # None
    /\ \E i \in DOMAIN places[d] : HasVisited(places[d][i].rec, Uid(auth[d]))
    /\ observers[d] < MaxObservers
    /\ observers' = [observers EXCEPT ![d] = @ + 1]
    /\ \E order \in InKeyOrder(Existing(view[d])) :
          events' = [events EXCEPT ![d] = @ \o
                       [i \in DOMAIN order |->
                          [type |-> "added", key |-> order[i],
                           rec |-> view[d][order[i]]]]]
    /\ UNCHANGED <<server, sdk, places, detail, orphan, auth, status, writes,
                   edits, faults>>

\* visitedPlaces unwraps the current user for every place of the list.
FailUnwrap(d) ==
    /\ Running(d)
    /\ auth[d] = None
    /\ places[d] # << >>
    /\ Trap(d, "nilUnwrapped")

SignIn(d, u) ==
    /\ Running(d)
    /\ auth[d] = None
    /\ auth' = [auth EXCEPT ![d] = u]
    /\ UNCHANGED <<server, sdk, events, observers, places, detail, orphan,
                   status, writes, edits, faults>>

\* Variant: signing out also forgets the list.
SignOutForgetting(d) ==
    /\ Running(d)
    /\ auth[d] # None
    /\ auth' = [auth EXCEPT ![d] = None]
    /\ places' = [places EXCEPT ![d] = << >>]
    /\ UNCHANGED <<server, sdk, events, observers, detail, orphan, status,
                   writes, edits, faults>>

SignOut(d) ==
    /\ Running(d)
    /\ auth[d] # None
    /\ auth' = [auth EXCEPT ![d] = None]
    /\ UNCHANGED <<server, sdk, events, observers, places, detail, orphan,
                   status, writes, edits, faults>>

-----------------------------------------------------------------------------
(* The database starts empty, and the devices off.                         *)

Init ==
    /\ server = [k \in Keys |-> None]
    /\ view = [d \in Devices |-> [k \in Keys |-> None]]
    /\ sending = [d \in Devices |-> << >>]
    /\ unacked = [d \in Devices |-> << >>]
    /\ down = [d \in Devices |-> << >>]
    /\ events = [d \in Devices |-> << >>]
    /\ observers = [d \in Devices |-> 0]
    /\ places = [d \in Devices |-> << >>]
    /\ detail = [d \in Devices |-> None]
    /\ orphan = [d \in Devices |-> None]
    /\ auth \in [Devices -> Users \cup {None}]
    /\ status = [d \in Devices |-> "off"]
    /\ writes = 0 /\ edits = 0 /\ faults = 0

Next ==
    \/ \E k \in Keys, info \in Infos : ConsoleAdd(k, info)
    \/ \E k \in Keys, info \in Infos : ConsoleEdit(k, info)
    \/ \E d \in Devices :
         \/ ServerApply(d)
         \/ Deliver(d)
         \/ Reconnect(d)
         \/ Launch(d)
         \/ Kill(d)
         \/ HandleEvent(d)
         \/ \E i \in DOMAIN places[d] : Visit(d, i)
         \/ \E i \in DOMAIN places[d], stars \in RateChoices :
              RateListed(d, i, stars)
         \/ \E stars \in RateChoices : RateOrphan(d, stars)
         \/ \E i \in DOMAIN places[d] : OpenDetail(d, i)
         \/ CloseDetail(d)
         \/ OpenMyPlaces(d)
         \/ FailUnwrap(d)
         \/ \E u \in Users : SignIn(d, u)
         \/ SignOut(d)

Spec == Init /\ [][Next]_vars

\* The network comes back, and the main queue is served.
Fairness ==
    \A d \in Devices : /\ WF_vars(ServerApply(d))
                       /\ WF_vars(Deliver(d))
                       /\ WF_vars(HandleEvent(d))

FairSpec == Spec /\ Fairness

-----------------------------------------------------------------------------
(* Properties.                                                             *)

\* Every variable holds what its Swift or SDK counterpart can hold; in
\* particular no operation builds a malformed record.
TypeOK ==
    /\ server \in [Keys -> Record \cup {None}]
    /\ view \in [Devices -> [Keys -> Record \cup {None}]]
    /\ sending \in [Devices -> Seq(Write)]
    /\ unacked \in [Devices -> Seq(Write)]
    /\ down \in [Devices -> Seq(Update)]
    /\ events \in [Devices -> Seq(Event)]
    /\ observers \in [Devices -> Nat]
    /\ places \in [Devices -> Seq(Entry)]
    /\ detail \in [Devices -> Keys \cup {None}]
    /\ orphan \in [Devices -> Record \cup {None}]
    /\ auth \in [Devices -> Users \cup {None}]
    /\ status \in [Devices -> Statuses]
    /\ writes \in Nat /\ edits \in Nat /\ faults \in Nat

\* All copies of places, wherever they lie.
Copies ==
    {server[k] : k \in Existing(server)}
      \cup UNION {
        {view[d][k] : k \in Existing(view[d])}
          \cup {sending[d][i].rec : i \in DOMAIN sending[d]}
          \cup {unacked[d][i].rec : i \in DOMAIN unacked[d]}
          \cup {down[d][i].rec : i \in DOMAIN down[d]}
          \cup {events[d][i].rec : i \in DOMAIN events[d]}
          \cup {places[d][i].rec : i \in DOMAIN places[d]}
          \cup ({orphan[d]} \ {None}) : d \in Devices}

\* However the copies of a place are written over one another, the average
\* stored in one (Place.rate) is that of the ratings stored in it, so the
\* list (which shows `rating') and the detail header (which computes it)
\* show the same number.
RatingMatchesRatings == \A rec \in Copies : RatingMatches(rec)

\* No interleaving of signed-in and anonymous visits lists a visitor twice,
\* and the name "Anonymous<n>" that Places.visit makes up is always unused.
VisitorsListedOnce == \A rec \in Copies : VisitorsWellFormed(rec)

\* The number that Places.rate makes up for an anonymous rating is never one
\* that another anonymous rating of that copy is stored under.
AnonymousRatingsStay == \A rec \in Copies : RatersWellFormed(rec)

\* The list never shows a place twice, although My Places registers further
\* pairs of observers that are never removed.
PlacesListedOnce ==
    \A d \in Devices : \A i, j \in DOMAIN places[d] :
       places[d][i].key = places[d][j].key => i = j

\* childChanged is never called before childAdded has listed the place: its
\* loop finds the place, and 0...count-1 (a trap when the list is empty) is
\* never evaluated on an empty list.
ChildChangedFindsPlace ==
    \A d \in Devices :
       Running(d) /\ events[d] # << >> /\ Head(events[d]).type = "changed"
         => Listed(places[d], Head(events[d]).key)

\* When the main queue has been served, the list shows what the SDK knows:
\* the device's own writes and everything it has received.
ListCatchesUp ==
    \A d \in Devices :
       Running(d) /\ events[d] = << >> =>
         {places[d][i] : i \in DOMAIN places[d]} =
           {[key |-> k, rec |-> view[d][k]] : k \in Existing(view[d])}

\* When nothing is under way, the devices and the database agree.
QuiescentAgreement ==
    \A d \in Devices :
       /\ Running(d)
       /\ sending[d] = << >> /\ unacked[d] = << >>
       /\ down[d] = << >> /\ events[d] = << >>
       => {places[d][i] : i \in DOMAIN places[d]} =
            {[key |-> k, rec |-> server[k]] : k \in Existing(server)}

\* Rows stay where they are: while the app runs, the list only grows at its
\* end, so an index taken from it (a tapped row) stays valid.
RowsStay ==
    [][\A d \in Devices : Running(d) /\ status'[d] = "running" =>
         /\ Len(places[d]) <= Len(places'[d])
         /\ \A i \in DOMAIN places[d] :
              places'[d][i].key = places[d][i].key]_vars

\* Everybody who is in one record is in the other one.
Keeps(old, new) ==
    /\ \A i \in DOMAIN old.visitors : HasVisited(new, old.visitors[i])
    /\ \A pair \in old.ratings : HasRated(new, pair[1])
    /\ new.info = old.info

Writes(d) == Len(sending'[d]) = Len(sending[d]) + 1 /\ unacked'[d] = unacked[d]
LastWrite(d) == sending'[d][Len(sending'[d])]

\* A write drops nothing that the device has been told, if the main queue has
\* been served and the screen shares its object with the list.
FreshWriteKeepsAll ==
    [][\A d \in Devices :
         Writes(d) /\ events[d] = << >> /\ orphan[d] = None =>
           LET w == LastWrite(d) IN Keeps(view[d][w.key], w.rec)]_vars

\* "Congratulations! You have visited ...!": on the device, a signed-in
\* user's visit stays among the visitors of the place.
VisitIsKept ==
    [][\A d \in Devices, k \in Keys, u \in Users :
         /\ Running(d) /\ status'[d] = "running"
         /\ view[d][k] # None
         /\ auth[d] = u
         /\ HasVisited(view[d][k], Uid(u))
         => HasVisited(view'[d][k], Uid(u))]_vars

\* The forced cast of `ratings' in placeFromDictionary holds.
RatingsAreDictionary == \A d \in Devices : status[d] # "castFailed"

\* The forced unwrapping of the current user in visitedPlaces holds.
UserIsSignedIn == \A d \in Devices : status[d] # "nilUnwrapped"

Shrinks(queues, queuesAfter) ==
    \A d \in Devices : \/ queuesAfter[d] = queues[d]
                       \/ Len(queuesAfter[d]) < Len(queues[d])

\* The devices do not keep one another busy.  While no user, administrator or
\* fault takes a hand, writes are sent and none is added; when none is sent,
\* updates arrive and none is added; when none arrives, the main queue is
\* served and nothing is added to it; and when it is not served, the list, the
\* SDK's cache and the database stay as they are.
WorkRunsOut ==
    [][UNCHANGED <<writes, edits, faults, observers>> =>
         /\ Shrinks(sending, sending')
         /\ UNCHANGED sending => Shrinks(down, down')
         /\ UNCHANGED <<sending, down>> => Shrinks(events, events')
         /\ UNCHANGED <<sending, down, events>> =>
               UNCHANGED <<server, view, unacked, places>>]_vars

\* Whatever is written when, in the end the list of a running app is the
\* database.
Convergence ==
    \A d \in Devices :
       <>[](Running(d) =>
              {places[d][i] : i \in DOMAIN places[d]} =
                {[key |-> k, rec |-> server[k]] : k \in Existing(server)})

=============================================================================
