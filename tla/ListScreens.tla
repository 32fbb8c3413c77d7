----------------------------- MODULE ListScreens ------------------------------
(***************************************************************************)
(* The screens of one app that show the list: the root of the tab Places,  *)
(* My Places (the same class with showOnlyVisited, pushed by the Profile   *)
(* screen), and the detail screens opened from their rows.                 *)
(*                                                                         *)
(* Places.sharedInstance tells one object, its weak delegate, that the     *)
(* places were updated.  The list that loads takes the delegate: first the *)
(* root, then each My Places; when My Places is popped its controller is   *)
(* freed and the delegate is nil.  A list screen shows a copy of the array *)
(* from the last time it was told, so its rows hold Place objects that the *)
(* shared list may have replaced since.                                    *)
(*                                                                         *)
(* Of a place's content only two things matter here: which users are among *)
(* its visitors, and `note', all the rest that a row shows.  What other    *)
(* devices write is any content at any time; PlacesSync has the order in   *)
(* which it comes.                                                         *)
(***************************************************************************)
EXTENDS Integers, Sequences, FiniteSets

CONSTANTS
    Users, Keys, Notes, None,
    MaxWrites,      \* bound: visits and ratings on this device
    MaxUpdates,     \* bound: records received from the server
    MaxObservers    \* bound: registrations of the two observers

ASSUME ScreensKeysAssumption == Keys \subseteq Int /\ IsFiniteSet(Keys)

VARIABLES
    view,       \* SDK: its cache
    events,     \* main queue: calls of the observers' blocks
    observers,  \* how often the pair of observers is registered
    objects,    \* all Place objects made so far; a reference is an index
    list,       \* Places.sharedInstance.places
    delegate,   \* Places.sharedInstance.delegate
    copy,       \* `places' of each list screen
    rows,       \* what its table has drawn
    shown,      \* its table is visible (alpha = 1, not 0)
    myOpen,     \* My Places is on the Profile tab's stack
    detail,     \* the object of the detail screen opened from each list
    user,       \* Auth.auth().currentUser
    trap,       \* where a forced unwrapping has stopped the app
    writes, updates,    \* counters for the bounds
    removed     \* history: places that have been removed from the database

screens == <<delegate, copy, rows, shown, myOpen, detail>>
vars == <<view, events, observers, objects, list, screens, user, trap,
          writes, updates, removed>>

Lists == {"root", "my"}
People == Users \cup {None}
Content == [visitors : SUBSET Users, note : Notes]
Place == [key : Keys, content : Content]
Row == [key : Keys, note : Notes]
Event == [type : {"added", "changed"}, key : Keys, content : Content]

ASSUME ScreensNoneAssumption == None \notin Users \cup Keys \cup Nat \cup Content

Running == trap = "no"

-----------------------------------------------------------------------------
(* The SDK: external, as the code uses it.                                 *)

Existing == {k \in Keys : view[k] # None}

\* The members of a set of integers, in increasing order.
InOrder(S) == {order \in [1 .. Cardinality(S) -> S] :
                 \A i, j \in DOMAIN order : i < j => order[i] < order[j]}

Calls(type, k, content) ==
    [i \in 1 .. observers |-> [type |-> type, key |-> k, content |-> content]]

\* A content that is the same here may differ in what is left out, and then
\* the observers hear of it.
CacheBecomes(k, content) ==
    /\ view' = [view EXCEPT ![k] = content]
    /\ \/ events' = events \o Calls(IF view[k] = None THEN "added"
                                                      ELSE "changed",
                                    k, content)
       \/ view[k] = content /\ UNCHANGED events

\* The server's updates and snapshots.
Receive(k, content) ==
    /\ Running
    /\ updates < MaxUpdates
    /\ updates' = updates + 1
    /\ CacheBecomes(k, content)
    /\ UNCHANGED <<observers, objects, list, screens, user, trap, writes,
                   removed>>

\* A place is removed at the console.  No observer is there to hear of it, and
\* a write of the place makes it anew.
Remove(k) ==
    /\ Running
    /\ updates < MaxUpdates
    /\ updates' = updates + 1
    /\ view[k] # None
    /\ view' = [view EXCEPT ![k] = None]
    /\ removed' = removed \cup {k}
    /\ UNCHANGED <<events, observers, objects, list, screens, user, trap,
                   writes>>

-----------------------------------------------------------------------------
(* Places and the lists.                                                   *)

\* visitedPlaces.  (Its test for repetitions never fails: the list has none.)
VisitedPlaces(places, heap) ==
    LET visited == {i \in DOMAIN places : user \in heap[places[i]].content.visitors}
        order == CHOOSE o \in InOrder(visited) : TRUE
    IN  [n \in DOMAIN order |-> places[order[n]]]

\* Variant: a row shows the visitors.
CellWithVisitors(place) == [key |-> place.key, note |-> place.content.visitors]

\* cellForRowAt
CellFor(place) == [key |-> place.key, note |-> place.content.note]

Cells(places, heap) == [i \in DOMAIN places |-> CellFor(heap[places[i]])]

\* The rest of placesUpdated: the copy, the table made visible and reloaded.
Show(screen, places, heap) ==
    /\ copy' = [copy EXCEPT ![screen] = places]
    /\ rows' = [rows EXCEPT ![screen] = Cells(places, heap)]
    /\ shown' = [shown EXCEPT ![screen] = TRUE]
    /\ UNCHANGED trap

\* Variant: My Places shows all places once it is told of an update.
PlacesUpdatedAll(places, heap) ==
    \/ delegate \in Lists /\ Show(delegate, places, heap)
    \/ delegate = "none" /\ UNCHANGED <<copy, rows, shown, trap>>

\* delegate?.placesUpdated()
PlacesUpdated(places, heap) ==
    \/ /\ delegate = "none"
       /\ UNCHANGED <<copy, rows, shown, trap>>
    \/ /\ delegate = "root"
       /\ Show("root", places, heap)
    \/ /\ delegate = "my"
       /\ user # None \/ places = << >>
       /\ Show("my", VisitedPlaces(places, heap), heap)
    \/ /\ delegate = "my"
       /\ user = None /\ places # << >>
       /\ trap' = "placesUpdated"
       /\ UNCHANGED <<copy, rows, shown>>

Listed(k) == \E i \in DOMAIN list : objects[list[i]].key = k

HandleChildAdded ==
    /\ Running
    /\ events # << >>
    /\ LET e == Head(events)
       IN /\ e.type = "added"
          /\ \/ Listed(e.key) /\ UNCHANGED <<objects, list>>
             \/ /\ ~ Listed(e.key)
                /\ objects' = Append(objects, [key |-> e.key,
                                               content |-> e.content])
                /\ list' = Append(list, Len(objects) + 1)
    /\ PlacesUpdated(list', objects')
    /\ events' = Tail(events)
    /\ UNCHANGED <<view, observers, delegate, myOpen, detail, user, writes,
                   updates, removed>>

\* The list with the new object in its first row with the key.
Replaced(k) ==
    [i \in DOMAIN list |->
       IF /\ objects[list[i]].key = k
          /\ \A j \in 1 .. i - 1 : objects[list[j]].key # k
       THEN Len(objects) + 1
       ELSE list[i]]

\* Variant: nobody is told.
HandleChildChangedUntold ==
    /\ Running
    /\ events # << >>
    /\ LET e == Head(events)
       IN /\ e.type = "changed"
          /\ objects' = Append(objects, [key |-> e.key,
                                         content |-> e.content])
          /\ list' = Replaced(e.key)
    /\ events' = Tail(events)
    /\ UNCHANGED <<view, observers, screens, user, trap, writes, updates,
                   removed>>

HandleChildChanged ==
    /\ Running
    /\ events # << >>
    /\ LET e == Head(events)
       IN /\ e.type = "changed"
          /\ objects' = Append(objects, [key |-> e.key,
                                         content |-> e.content])
          /\ list' = Replaced(e.key)
    /\ PlacesUpdated(list', objects')
    /\ events' = Tail(events)
    /\ UNCHANGED <<view, observers, delegate, myOpen, detail, user, writes,
                   updates, removed>>

\* An object is changed in place and written as a whole.
ChangeAndWrite(o, content) ==
    /\ writes < MaxWrites
    /\ writes' = writes + 1
    /\ objects' = [objects EXCEPT ![o].content = content]
    /\ CacheBecomes(objects[o].key, content)
    /\ UNCHANGED <<observers, list, screens, user, trap, updates, removed>>

\* Places.visit, called by the Locator for an object of the shared list.  An
\* anonymous visitor is always new, and not among the users.
Visit(i) ==
    /\ Running
    /\ i \in DOMAIN list
    /\ LET content == objects[list[i]].content
       IN /\ user = None \/ user \notin content.visitors
          /\ ChangeAndWrite(list[i],
                            [content EXCEPT !.visitors = @ \cup ({user} \ {None})])

\* Places.rate, on a detail screen.
Rate(screen, note) ==
    /\ Running
    /\ detail[screen] # None
    /\ LET o == detail[screen]
       IN ChangeAndWrite(o, [objects[o].content EXCEPT !.note = note])

-----------------------------------------------------------------------------
(* The screens.                                                            *)

\* A row that scrolls into view is drawn from its object.
Scroll(screen, i) ==
    /\ Running
    /\ shown[screen]
    /\ i \in DOMAIN copy[screen]
    /\ rows' = [rows EXCEPT ![screen][i] = CellFor(objects[copy[screen][i]])]
    /\ UNCHANGED <<view, events, observers, objects, list, delegate, copy,
                   shown, myOpen, detail, user, trap, writes, updates,
                   removed>>

\* prepare(for:): the detail screen gets the object of the tapped row.
TapRow(screen, i) ==
    /\ Running
    /\ shown[screen] /\ detail[screen] = None
    /\ i \in DOMAIN copy[screen]
    /\ detail' = [detail EXCEPT ![screen] = copy[screen][i]]
    /\ UNCHANGED <<view, events, observers, objects, list, delegate, copy,
                   rows, shown, myOpen, user, trap, writes, updates, removed>>

CloseDetail(screen) ==
    /\ Running
    /\ detail[screen] # None
    /\ detail' = [detail EXCEPT ![screen] = None]
    /\ UNCHANGED <<view, events, observers, objects, list, delegate, copy,
                   rows, shown, myOpen, user, trap, writes, updates, removed>>

\* What viewDidLoad of a list does with the list, its table still invisible.
Load(screen, places) ==
    /\ copy' = [copy EXCEPT ![screen] = places]
    /\ rows' = [rows EXCEPT ![screen] = Cells(places, objects)]
    /\ shown' = [shown EXCEPT ![screen] = FALSE]
    /\ delegate' = screen

\* Variant: the observers are not registered again.
OpenMyPlacesOnce ==
    /\ Running
    /\ ~ myOpen
    /\ user # None
    /\ VisitedPlaces(list, objects) # << >>
    /\ myOpen' = TRUE
    /\ Load("my", VisitedPlaces(list, objects))
    /\ UNCHANGED <<view, events, observers, objects, list, detail, user,
                   trap, writes, updates, removed>>

\* The row My Places of the Profile screen is tapped: if there is a visited
\* place the new list is pushed and loads, which registers both observers
\* again, and the SDK calls them for every place of its cache.
OpenMyPlaces ==
    /\ Running
    /\ ~ myOpen
    /\ user # None
    /\ VisitedPlaces(list, objects) # << >>
    /\ observers < MaxObservers
    /\ observers' = observers + 1
    /\ myOpen' = TRUE
    /\ Load("my", VisitedPlaces(list, objects))
    /\ \E order \in InOrder(Existing) :
          events' = events \o
                      [i \in DOMAIN order |->
                         [type |-> "added", key |-> order[i],
                          content |-> view[order[i]]]]
    /\ UNCHANGED <<view, objects, list, detail, user, trap, writes, updates,
                   removed>>

\* The same without a user: visitedPlaces unwraps nil.
TapMyPlacesSignedOut ==
    /\ Running
    /\ ~ myOpen
    /\ user = None
    /\ list # << >>
    /\ trap' = "tapped"
    /\ UNCHANGED <<view, events, observers, objects, list, screens, user,
                   writes, updates, removed>>

\* Variant: something keeps the popped controller, as a strong delegate would.
CloseMyPlacesKept ==
    /\ Running
    /\ myOpen
    /\ myOpen' = FALSE
    /\ detail' = [detail EXCEPT !["my"] = None]
    /\ UNCHANGED <<view, events, observers, objects, list, delegate, copy,
                   rows, shown, user, trap, writes, updates, removed>>

\* My Places is popped, with its detail screen if there is one: its controller
\* is freed, and the weak delegate becomes nil.
CloseMyPlaces ==
    /\ Running
    /\ myOpen
    /\ myOpen' = FALSE
    /\ delegate' = IF delegate = "my" THEN "none" ELSE delegate
    /\ copy' = [copy EXCEPT !["my"] = << >>]
    /\ rows' = [rows EXCEPT !["my"] = << >>]
    /\ shown' = [shown EXCEPT !["my"] = FALSE]
    /\ detail' = [detail EXCEPT !["my"] = None]
    /\ UNCHANGED <<view, events, observers, objects, list, user, trap,
                   writes, updates, removed>>

\* Signing in and out is done on the Profile screen, which My Places covers.
SignIn(u) ==
    /\ Running
    /\ ~ myOpen
    /\ user = None
    /\ user' = u
    /\ UNCHANGED <<view, events, observers, objects, list, screens, trap,
                   writes, updates, removed>>

SignOut ==
    /\ Running
    /\ ~ myOpen
    /\ user # None
    /\ user' = None
    /\ UNCHANGED <<view, events, observers, objects, list, screens, trap,
                   writes, updates, removed>>

-----------------------------------------------------------------------------
(* The app starts with its root list, which has loaded.                    *)

Init ==
    /\ view = [k \in Keys |-> None]
    /\ events = << >>
    /\ observers = 1
    /\ objects = << >>
    /\ list = << >>
    /\ delegate = "root"
    /\ copy = [s \in Lists |-> << >>]
    /\ rows = [s \in Lists |-> << >>]
    /\ shown = [s \in Lists |-> FALSE]
    /\ myOpen = FALSE
    /\ detail = [s \in Lists |-> None]
    /\ user \in People
    /\ trap = "no"
    /\ writes = 0 /\ updates = 0
    /\ removed = {}

HandleEvent == HandleChildAdded \/ HandleChildChanged

Next ==
    \/ \E k \in Keys : Remove(k) \/ \E content \in Content : Receive(k, content)
    \/ HandleEvent
    \/ \E i \in DOMAIN list : Visit(i)
    \/ \E s \in Lists :
         \/ \E i \in DOMAIN copy[s] : Scroll(s, i) \/ TapRow(s, i)
         \/ \E note \in Notes : Rate(s, note)
         \/ CloseDetail(s)
    \/ OpenMyPlaces
    \/ TapMyPlacesSignedOut
    \/ CloseMyPlaces
    \/ \E u \in Users : SignIn(u)
    \/ SignOut

Spec == Init /\ [][Next]_vars

\* The main queue is served.
FairSpec == Spec /\ WF_vars(HandleEvent)

-----------------------------------------------------------------------------
(* Properties.                                                             *)

Objects == DOMAIN objects

\* References are to objects that exist.
TypeOK ==
    /\ view \in [Keys -> Content \cup {None}]
    /\ events \in Seq(Event)
    /\ observers \in Nat
    /\ objects \in Seq(Place)
    /\ list \in Seq(Objects)
    /\ delegate \in Lists \cup {"none"}
    /\ copy \in [Lists -> Seq(Objects)]
    /\ rows \in [Lists -> Seq(Row)]
    /\ shown \in [Lists -> BOOLEAN]
    /\ myOpen \in BOOLEAN
    /\ detail \in [Lists -> Objects \cup {None}]
    /\ user \in People
    /\ trap \in {"no", "tapped", "placesUpdated"}
    /\ writes \in Nat /\ updates \in Nat /\ removed \subseteq Keys

RowKeys(screen) == {objects[copy[screen][i]].key : i \in DOMAIN copy[screen]}

\* A screen has at most one row for a place, drawn as the SDK has the place
\* now, and opening it gives the detail screen an object that is up to date:
\* its first rating takes nobody's visit back.  (A place that has once been
\* removed keeps the row it had, whatever the console makes of it later.)
UpToDate(screen) ==
    /\ Len(copy[screen]) = Cardinality(RowKeys(screen))
    /\ \A i \in DOMAIN copy[screen] :
          LET place == objects[copy[screen][i]]
          IN place.key \notin removed =>
                /\ place.content = view[place.key]
                /\ rows[screen][i] = CellFor(place)

\* As long as the root list is the delegate: when the main queue has been
\* served it shows all places, as they are, and those that were removed, each
\* once even if it has been entered again.
RootFollows ==
    Running /\ delegate = "root" /\ events = << >> =>
       UpToDate("root") /\ RowKeys("root") = Existing \cup removed

\* As long as My Places is open: when the main queue has been served it shows
\* just the places that have the user among their visitors.
MyPlacesExact ==
    Running /\ myOpen /\ events = << >> =>
       /\ UpToDate("my")
       /\ RowKeys("my") \ removed =
            {k \in Existing \ removed : user \in view[k].visitors}

\* placesUpdated never unwraps a user who is not there: My Places is freed
\* before anybody can sign out, and the blocks that its registration left
\* behind reach no list that needs the user.
UpdateKnowsUser == trap # "placesUpdated"

\* My Places, loaded with an invisible table, becomes visible: the second
\* registration brings the call of placesUpdated that shows it, if there is
\* any place left in the database.
MyPlacesShows == myOpen /\ Existing # {} ~> shown["my"] \/ ~ myOpen

=============================================================================
