------------------------------- MODULE Locator -------------------------------
(***************************************************************************)
(* The Locator tab: LocatorViewController, its LocationManager and its     *)
(* MeterCircularView (the radar), between Core Location, which reports     *)
(* positions and changes of the permission, and the geocoder, which        *)
(* answers each request once, in any order and at any time.  Every answer  *)
(* is handled with the position its request was made for.                  *)
(*                                                                         *)
(* The list keeps its places, and a place is its distance from the user    *)
(* and whether the record listed now has a visit of the user: childChanged *)
(* may replace it at any time by one without, that somebody has written    *)
(* from an older copy.  Places.visit returns true for a signed-in user     *)
(* whom the record does not list, and always for an anonymous one, whose   *)
(* name is made up anew.                                                   *)
(***************************************************************************)
EXTENDS Integers

CONSTANTS
    Places,      \* Places.sharedInstance.places
    Positions,   \* where the user may be: how far from each place, in metres
    None,
    Slots,       \* bound: requests the geocoder has at a time
    MaxVisits,   \* bound: visits of one place
    MaxLosses    \* bound: how often a place's record loses the user's visit

ASSUME LocatorAssumption ==
    /\ Positions \subseteq [Places -> Nat]
    /\ None \notin Places \cup Positions
    /\ MaxVisits \in Nat \ {0}
    /\ MaxLosses \in Nat

VARIABLES
    permission,  \* CLLocationManager.authorizationStatus()
    asking,      \* the system asks the user for the permission
    callback,    \* a call of didChangeAuthorization is due
    loaded,      \* viewDidLoad has run and set locationManager.delegate
    onScreen,    \* the tab is selected
    updating,    \* locator.startUpdatingLocation() is in force
    radar,       \* the arrow of the radar turns
    requests,    \* positions sent to the geocoder, without an answer yet
    alert,       \* the place of the alert on the screen
    label,       \* placeLabel.text
    visited,     \* the places whose listed record has a visit of the user
    signedIn,    \* whether the user is signed in
    distance,    \* where the user is
    closest,     \* history: the smallest distance so far
    visits,      \* history: how often Places.visit has returned true
    losses       \* history: how often a visit has gone from the record

vars == <<permission, asking, callback, loaded, onScreen, updating, radar,
          requests, alert, label, visited, signedIn, distance, closest, visits,
          losses>>

record == <<visited, visits, losses>>

user == <<signedIn, distance, closest>>

Permissions == {"notDetermined", "authorizedWhenInUse", "denied"}

NoText == [text |-> "none"]
Labels ==
    [text : {"none", "address", "wrong"}]
      \cup [text : {"closer"}, place : Places, metres : Int]
      \cup [text : {"visited"}, place : Places]

Init ==
    /\ permission \in Permissions
    /\ asking = FALSE
    /\ callback = TRUE      \* due as soon as the manager exists
    /\ loaded = FALSE
    /\ onScreen = FALSE
    /\ updating = FALSE
    /\ radar = FALSE
    /\ requests = [s \in Slots |-> None]
    /\ alert = None
    /\ label = NoText
    /\ signedIn \in BOOLEAN
    /\ visited \in IF signedIn THEN SUBSET Places ELSE {{}}
    /\ visits = [p \in Places |-> 0]
    /\ losses = [p \in Places |-> 0]
    /\ distance \in Positions
    /\ closest = distance

-----------------------------------------------------------------------------
(* MeterCircularView.                                                      *)

Rotate == radar' = TRUE

StopRotating == radar' = FALSE

-----------------------------------------------------------------------------
(* LocationManager.                                                        *)

Authorized == permission = "authorizedWhenInUse"

\* getLocation, which is checkPermission: start, ask, or only log (a permission
\* that is restricted counts as denied).
GetLocation ==
    \/ /\ Authorized
       /\ updating' = TRUE
       /\ UNCHANGED asking
    \/ /\ permission = "notDetermined"
       /\ asking' = TRUE
       /\ UNCHANGED updating
    \/ /\ permission = "denied"
       /\ UNCHANGED <<asking, updating>>

\* didChangeAuthorization, and startLocationUpdates of the delegate; there
\* is no delegate before the tab has been opened.
DidChangeAuthorization ==
    /\ callback
    /\ callback' = FALSE
    /\ \/ /\ Authorized
          /\ loaded
          /\ Rotate
          /\ GetLocation
       \/ /\ ~ Authorized \/ ~ loaded
          /\ UNCHANGED <<radar, asking, updating>>
    /\ UNCHANGED <<permission, loaded, onScreen, requests, alert, label,
                   record, user>>

\* didUpdateLocations with sufficient accuracy: the position goes to a
\* geocoder of its own.  (An inaccurate position changes nothing.)
DidUpdateLocations(s) ==
    /\ updating
    /\ Authorized
    /\ requests[s] = None
    /\ requests' = [requests EXCEPT ![s] = distance]
    /\ UNCHANGED <<permission, asking, callback, loaded, onScreen, updating,
                   radar, alert, label, record, user>>

\* didFailWithError, and locationFailed: the updates themselves go on.
DidFailWithError ==
    /\ updating
    /\ StopRotating
    /\ label' = [text |-> "wrong"]
    /\ UNCHANGED <<permission, asking, callback, loaded, onScreen, updating,
                   requests, alert, record, user>>

-----------------------------------------------------------------------------
(* LocatorViewController.                                                  *)

\* Variant: the tests of `distance' with a threshold too high.
NearWithin1000(position) == {p \in Places : position[p] < 1000}

Near(position) == {p \in Places : position[p] < 500}

\* Variant: Places.visit without its test of the visitors.
NewVisitsUnchecked(position) == Near(position)

\* The places for which Places.visit returns true.
NewVisits(position) ==
    {p \in Near(position) : ~ signedIn \/ p \notin visited}

\* Variant: the second test left out.
ReachedFromAfar(position) == NewVisits(position)

\* The places whose visit is announced.
Reached(position) == {p \in NewVisits(position) : position[p] < 100}

\* Variant: a congratulation without the name of the place.
LabelUnnamed(position, p) == [text |-> "visited"]

\* The loop over the places leaves the text for the last near one.
LabelAfter(position, p) ==
    IF p \in Reached(position)
    THEN [text |-> "visited", place |-> p]
    ELSE [text |-> "closer", place |-> p, metres |-> position[p] - 100]

\* locationUpdated.  The alert appears only over a view on the screen that
\* does not show one already.
LocationUpdated(position) ==
    /\ \A p \in NewVisits(position) : visits[p] < MaxVisits
    /\ visits' = [p \in Places |->
                    IF p \in NewVisits(position) THEN visits[p] + 1
                                                 ELSE visits[p]]
    /\ visited' = visited \cup NewVisits(position)
    /\ \/ /\ Near(position) = {}
          /\ label' = [text |-> "address"]
       \/ \E p \in Near(position) : label' = LabelAfter(position, p)
    /\ \/ /\ Reached(position) = {}
          /\ UNCHANGED <<radar, updating, alert>>
       \/ /\ Reached(position) # {}
          /\ StopRotating
          /\ updating' = FALSE
          /\ IF onScreen /\ alert = None
             THEN alert' \in Reached(position)
             ELSE UNCHANGED alert

\* Variant: answers are dropped while the screen is not shown.
GeocodedOnScreen(s) ==
    /\ requests[s] # None
    /\ requests' = [requests EXCEPT ![s] = None]
    /\ IF onScreen THEN LocationUpdated(requests[s])
                   ELSE UNCHANGED <<updating, radar, alert, label, visited, visits>>
    /\ UNCHANGED <<permission, asking, callback, loaded, onScreen, losses, user>>

\* The geocoder answers with an error or with an address.
Geocoded(s) ==
    /\ requests[s] # None
    /\ requests' = [requests EXCEPT ![s] = None]
    /\ LocationUpdated(requests[s])
    /\ UNCHANGED <<permission, asking, callback, loaded, onScreen, losses, user>>

\* The geocoder answers with no placemark: the position is dropped.
GeocodedNowhere(s) ==
    /\ requests[s] # None
    /\ requests' = [requests EXCEPT ![s] = None]
    /\ UNCHANGED <<permission, asking, callback, loaded, onScreen, updating,
                   radar, alert, label, record, user>>

\* viewDidLoad (the first time) and viewDidAppear.
Appear ==
    /\ ~ onScreen
    /\ ~ asking
    /\ onScreen' = TRUE
    /\ loaded' = TRUE
    /\ label' = NoText
    /\ UNCHANGED <<permission, asking, callback, updating, radar, requests,
                   alert, record, user>>

\* viewWillDisappear; Core Animation drops the animations of a view that
\* leaves the window.
Disappear ==
    /\ onScreen
    /\ ~ asking
    /\ alert = None
    /\ onScreen' = FALSE
    /\ updating' = FALSE
    /\ StopRotating
    /\ UNCHANGED <<permission, asking, callback, loaded, requests, alert,
                   label, record, user>>

\* The screen can be tapped.
Tappable == onScreen /\ ~ asking /\ alert = None

GetLocationAction ==
    /\ Tappable
    /\ Rotate
    /\ GetLocation
    /\ UNCHANGED <<permission, callback, loaded, onScreen, requests, alert,
                   label, record, user>>

\* Variant: the radar is left turning.
StopLocationUpdatesOnly ==
    /\ Tappable
    /\ updating' = FALSE
    /\ UNCHANGED <<permission, asking, callback, loaded, onScreen, radar,
                   requests, alert, label, record, user>>

StopLocationAction ==
    /\ Tappable
    /\ StopRotating
    /\ updating' = FALSE
    /\ UNCHANGED <<permission, asking, callback, loaded, onScreen, requests,
                   alert, label, record, user>>

DismissAlert ==
    /\ alert # None
    /\ alert' = None
    /\ UNCHANGED <<permission, asking, callback, loaded, onScreen, updating,
                   radar, requests, label, record, user>>

-----------------------------------------------------------------------------
(* Places.childChanged, as far as visits are concerned: the object in the  *)
(* list is replaced by a record that somebody has written.                 *)

control == <<permission, asking, callback, loaded, onScreen, updating, radar,
             requests, alert, label>>

\* A record written from a copy older than the visit.
ReplacedWithout(p) ==
    /\ p \in visited
    /\ losses[p] < MaxLosses
    /\ visits[p] < MaxVisits
    /\ visited' = visited \ {p}
    /\ losses' = [losses EXCEPT ![p] = @ + 1]
    /\ UNCHANGED <<control, visits, user>>

\* A record with a visit that the list's one has lost, or that the signed-in
\* user made on another device.
ReplacedWith(p) ==
    /\ p \notin visited
    /\ signedIn \/ losses[p] > 0
    /\ visited' = visited \cup {p}
    /\ UNCHANGED <<control, visits, losses, user>>

-----------------------------------------------------------------------------
(* The user, outside the app's screens.                                    *)

\* The system's question is answered, or the permission changed in Settings;
\* didChangeAuthorization becomes due.
ChangePermission(new) ==
    /\ asking \/ permission # "notDetermined"
    /\ new \in Permissions \ {"notDetermined", permission}
    /\ permission' = new
    /\ asking' = FALSE
    /\ callback' = TRUE
    /\ UNCHANGED <<loaded, onScreen, updating, radar, requests, alert, label,
                   record, user>>

Move(position) ==
    /\ position # distance
    /\ distance' = position
    /\ closest' = [p \in Places |-> IF position[p] < closest[p]
                                    THEN position[p]
                                    ELSE closest[p]]
    /\ UNCHANGED <<permission, asking, callback, loaded, onScreen, updating,
                   radar, requests, alert, label, record, signedIn>>

Next ==
    \/ DidChangeAuthorization
    \/ \E s \in Slots : DidUpdateLocations(s)
    \/ DidFailWithError
    \/ \E s \in Slots : Geocoded(s)
    \/ \E s \in Slots : GeocodedNowhere(s)
    \/ Appear
    \/ Disappear
    \/ GetLocationAction
    \/ StopLocationAction
    \/ DismissAlert
    \/ \E p \in Places : ReplacedWithout(p)
    \/ \E p \in Places : ReplacedWith(p)
    \/ \E new \in Permissions : ChangePermission(new)
    \/ \E position \in Positions : Move(position)

Spec == Init /\ [][Next]_vars

\* Core Location keeps reporting positions, and the geocoder answers, not
\* always with nothing.
Fairness ==
    /\ WF_vars(\E s \in Slots : DidUpdateLocations(s))
    /\ \A s \in Slots : SF_vars(Geocoded(s))

FairSpec == Spec /\ Fairness

-----------------------------------------------------------------------------
(* Properties.                                                             *)

\* Every variable holds what its Swift or Core Location counterpart can hold.
TypeOK ==
    /\ permission \in Permissions
    /\ asking \in BOOLEAN
    /\ callback \in BOOLEAN
    /\ loaded \in BOOLEAN
    /\ onScreen \in BOOLEAN
    /\ updating \in BOOLEAN
    /\ radar \in BOOLEAN
    /\ requests \in [Slots -> Positions \cup {None}]
    /\ alert \in Places \cup {None}
    /\ label \in Labels
    /\ visited \subseteq Places
    /\ signedIn \in BOOLEAN
    /\ distance \in Positions
    /\ closest \in [Places -> Nat]
    /\ visits \in [Places -> Nat]
    /\ losses \in [Places -> Nat]

\* The radar turns only while the position is being determined, unless the
\* permission is missing: no order of taps, tab switches, failures, late
\* answers and permission changes leaves it turning alone.
RadarMeansUpdating ==
    radar /\ Authorized /\ ~ callback => updating

\* A visit is recorded only of a place the user has been within 500 metres
\* of, however late the geocoder answers and wherever the user is by then.
VisitedWasNear == \A p \in Places : visits[p] > 0 => closest[p] < 500

\* "Congratulations! You have visited ...!" is shown only for a place the
\* user has been within 100 metres of and whose visit has been recorded.
AlertIsTrue == alert # None => visits[alert] > 0 /\ closest[alert] < 100

\* Of all the visits that Places.visit has recorded for a signed-in user, in
\* whatever order several answers for one place and others' records came, at
\* most one stands, and each further one is there because a record without
\* the one before had replaced it.
VisitStandsOrIsLost ==
    signedIn =>
       \A p \in Places :
          visits[p] <= losses[p] + (IF p \in visited THEN 1 ELSE 0)

\* Who stays near a place with the updates on has the visit recorded, and
\* recorded again whenever somebody's older record has taken it back.
StayingIsRecorded ==
    \A p \in Places :
       <>[](updating /\ Authorized /\ distance[p] < 500) => []<>(p \in visited)

\* "Come ... metres closer to visit!": a visit takes less than 100 metres.
VisitTakes100Metres == \A p \in Places : visits[p] > 0 => closest[p] < 100

=============================================================================
