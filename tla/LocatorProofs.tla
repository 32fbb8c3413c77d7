---------------------------- MODULE LocatorProofs ----------------------------
(***************************************************************************)
(* The invariants of Locator, for any places, distances and number of      *)
(* requests under way.                                                     *)
(*                                                                         *)
(* The late answers are the difficulty: a request keeps the position of    *)
(* its time.  `Inv' therefore says of every request what `closest' says of *)
(* the user: no position under way is nearer than the nearest so far.      *)
(***************************************************************************)
EXTENDS Locator, TLAPS

USE DEF Rotate, StopRotating

\* The delegate is set, and a tap or a turning radar possible, only once the
\* tab has been opened.
LoadedFirst == (radar \/ onScreen) => loaded

\* The history is a lower bound of where the user is and of what the
\* geocoder is asked about.
ClosestBounds ==
    /\ \A p \in Places : closest[p] <= distance[p]
    /\ \A s \in Slots : requests[s] # None =>
          \A p \in Places : closest[p] <= requests[s][p]

Inv ==
    /\ TypeOK
    /\ LoadedFirst
    /\ RadarMeansUpdating
    /\ ClosestBounds
    /\ VisitedWasNear
    /\ AlertIsTrue
    /\ VisitStandsOrIsLost

LEMMA InitInv == Init => Inv
<1> SUFFICES ASSUME Init PROVE Inv
  OBVIOUS
<1>1. TypeOK
  BY LocatorAssumption DEF Init, TypeOK, NoText, Labels
<1>2. ClosestBounds
  <2> \A p \in Places : distance[p] \in Nat
    BY LocatorAssumption DEF Init
  <2> QED
    BY DEF Init, ClosestBounds
<1>3. LoadedFirst /\ RadarMeansUpdating
  BY DEF Init, LoadedFirst, RadarMeansUpdating
<1>4. VisitedWasNear /\ AlertIsTrue /\ VisitStandsOrIsLost
  BY DEF Init, VisitedWasNear, AlertIsTrue, VisitStandsOrIsLost
<1> QED
  BY <1>1, <1>2, <1>3, <1>4 DEF Inv

\* What locationUpdated (LocatorViewController.swift:57-91) makes of a
\* position that is no nearer than the user has been.
LEMMA LocationUpdatedInv ==
    ASSUME Inv, NEW position \in Positions,
           \A p \in Places : closest[p] <= position[p],
           LocationUpdated(position),
           UNCHANGED <<permission, callback, loaded, onScreen, losses, user>>
    PROVE  /\ updating' \in BOOLEAN /\ radar' \in BOOLEAN
           /\ alert' \in Places \cup {None}
           /\ label' \in Labels
           /\ visits' \in [Places -> Nat] /\ visited' \subseteq Places
           /\ (radar' => radar) /\ (radar' => updating' = updating)
           /\ VisitedWasNear' /\ AlertIsTrue' /\ VisitStandsOrIsLost'
<1> USE DEF Inv
<1>1. \A p \in Places : /\ position[p] \in Nat /\ closest[p] \in Nat
                        /\ visits[p] \in Nat /\ losses[p] \in Nat
  BY LocatorAssumption DEF TypeOK
<1>2. /\ visits' \in [Places -> Nat]
      /\ \A p \in Places : visits'[p] = IF p \in NewVisits(position)
                                        THEN visits[p] + 1 ELSE visits[p]
      /\ visited' = visited \cup NewVisits(position)
  BY <1>1 DEF LocationUpdated
<1>3. \A p \in NewVisits(position) :
         /\ p \in Places /\ position[p] < 500
         /\ signedIn => p \notin visited
  BY DEF NewVisits, Near
<1>4. \A p \in Reached(position) : p \in NewVisits(position) /\ position[p] < 100
  BY DEF Reached
<1>5. closest' = closest /\ signedIn' = signedIn /\ losses' = losses
  BY DEF user
<1>6. label' \in Labels
  <2>1. \A p \in Near(position) : LabelAfter(position, p) \in Labels
    <3> TAKE p \in Near(position)
    <3>1. p \in Places /\ position[p] - 100 \in Int
      BY <1>1 DEF Near
    <3> QED
      BY <3>1 DEF LabelAfter, Labels
  <2>2. [text |-> "address"] \in Labels
    BY DEF Labels
  <2> QED
    BY <2>1, <2>2 DEF LocationUpdated
<1>7. VisitedWasNear'
  <2> SUFFICES ASSUME NEW p \in Places, visits'[p] > 0
               PROVE  closest[p] < 500
    BY <1>5 DEF VisitedWasNear
  <2>1. CASE p \in NewVisits(position)
    BY <1>1, <1>3, <2>1
  <2>2. CASE p \notin NewVisits(position)
    BY <1>2, <2>2 DEF VisitedWasNear
  <2> QED
    BY <2>1, <2>2
<1>8. AlertIsTrue'
  <2>1. CASE alert' = alert
    BY <1>1, <1>2, <1>5, <2>1 DEF AlertIsTrue, TypeOK
  <2>2. CASE alert' \in Reached(position)
    <3>1. /\ alert' \in Places /\ alert' \in NewVisits(position)
          /\ position[alert'] < 100
      BY <1>3, <1>4, <2>2
    <3>2. visits'[alert'] > 0 /\ closest[alert'] < 100
      BY <1>1, <1>2, <3>1
    <3> QED
      BY <1>5, <3>2 DEF AlertIsTrue
  <2> QED
    BY <2>1, <2>2 DEF LocationUpdated
<1>9. VisitStandsOrIsLost'
  <2> SUFFICES ASSUME signedIn, NEW p \in Places
               PROVE  visits'[p] <= losses[p] + (IF p \in visited' THEN 1 ELSE 0)
    BY <1>5 DEF VisitStandsOrIsLost
  <2>1. visits[p] <= losses[p] + (IF p \in visited THEN 1 ELSE 0)
    BY DEF VisitStandsOrIsLost
  <2>2. CASE p \in NewVisits(position)
    BY <1>1, <1>2, <1>3, <2>1, <2>2
  <2>3. CASE p \notin NewVisits(position)
    BY <1>1, <1>2, <2>1, <2>3
  <2> QED
    BY <2>2, <2>3
<1>10. /\ updating' \in BOOLEAN /\ radar' \in BOOLEAN
       /\ (radar' => radar) /\ (radar' => updating' = updating)
  <2>1. CASE UNCHANGED <<radar, updating, alert>>
    BY <2>1 DEF TypeOK
  <2>2. CASE radar' = FALSE /\ updating' = FALSE
    BY <2>2
  <2> QED
    BY <2>1, <2>2 DEF LocationUpdated
<1>11. alert' \in Places \cup {None}
  BY <1>3, <1>4 DEF LocationUpdated, TypeOK
<1>12. visited' \subseteq Places
  BY <1>2, <1>3 DEF TypeOK
<1> QED
  BY <1>2, <1>6, <1>7, <1>8, <1>9, <1>10, <1>11, <1>12

LEMMA GeocodedInv ==
    ASSUME Inv, NEW s \in Slots, Geocoded(s)
    PROVE  Inv'
<1> DEFINE position == requests[s]
<1>1. position \in Positions /\ \A p \in Places : closest[p] <= position[p]
  BY DEF Geocoded, Inv, TypeOK, ClosestBounds
<1>2. /\ updating' \in BOOLEAN /\ radar' \in BOOLEAN
      /\ alert' \in Places \cup {None}
      /\ label' \in Labels
      /\ visits' \in [Places -> Nat] /\ visited' \subseteq Places
      /\ (radar' => radar) /\ (radar' => updating' = updating)
      /\ VisitedWasNear' /\ AlertIsTrue' /\ VisitStandsOrIsLost'
  BY <1>1, LocationUpdatedInv DEF Geocoded
<1>3. requests' \in [Slots -> Positions \cup {None}]
      /\ \A t \in Slots : requests'[t] = None \/ requests'[t] = requests[t]
  BY DEF Geocoded, Inv, TypeOK
<1>4. UNCHANGED <<permission, asking, callback, loaded, onScreen, signedIn,
                  distance, closest, losses>>
  BY DEF Geocoded, user
<1>5. TypeOK'
  BY <1>2, <1>3, <1>4 DEF Inv, TypeOK
<1>6. ClosestBounds'
  BY <1>3, <1>4 DEF Inv, ClosestBounds
<1>7. LoadedFirst' /\ RadarMeansUpdating'
  BY <1>2, <1>4 DEF Inv, LoadedFirst, RadarMeansUpdating, Authorized
<1> QED
  BY <1>2, <1>5, <1>6, <1>7 DEF Inv

LEMMA MoveInv ==
    ASSUME Inv, NEW position \in Positions, Move(position)
    PROVE  Inv'
<1>1. \A p \in Places : /\ position[p] \in Nat /\ closest[p] \in Nat
  BY LocatorAssumption DEF Inv, TypeOK
<1>2. /\ distance' = position
      /\ \A p \in Places : closest'[p] = IF position[p] < closest[p]
                                         THEN position[p] ELSE closest[p]
      /\ closest' \in [Places -> Nat]
  BY <1>1 DEF Move
<1>3. \A p \in Places : closest'[p] <= closest[p] /\ closest'[p] <= position[p]
                        /\ closest'[p] \in Nat
  BY <1>1, <1>2
<1>4. TypeOK'
  BY <1>2 DEF Move, record, Inv, TypeOK
<1>5. ClosestBounds'
  <2>1. requests' = requests
    BY DEF Move
  <2>2. ASSUME NEW s \in Slots, requests[s] # None, NEW p \in Places
        PROVE  closest'[p] <= requests[s][p]
    <3>1. requests[s][p] \in Nat /\ closest[p] <= requests[s][p]
      BY <2>2, LocatorAssumption DEF Inv, TypeOK, ClosestBounds
    <3> QED
      BY <1>1, <1>3, <3>1
  <2> QED
    BY <1>2, <1>3, <2>1, <2>2 DEF ClosestBounds
<1>6. VisitedWasNear' /\ VisitStandsOrIsLost'
  BY <1>1, <1>3 DEF Move, record, Inv, VisitedWasNear, VisitStandsOrIsLost
<1>7. AlertIsTrue'
  BY <1>1, <1>3 DEF Move, record, Inv, TypeOK, AlertIsTrue
<1>8. LoadedFirst' /\ RadarMeansUpdating'
  BY DEF Move, Inv, LoadedFirst, RadarMeansUpdating, Authorized
<1> QED
  BY <1>4, <1>5, <1>6, <1>7, <1>8 DEF Inv

\* The actions that leave the visits and the user's whereabouts alone.
LEMMA ControlInv ==
    ASSUME Inv,
           \/ DidChangeAuthorization
           \/ \E s \in Slots : DidUpdateLocations(s)
           \/ DidFailWithError
           \/ \E s \in Slots : GeocodedNowhere(s)
           \/ Appear
           \/ Disappear
           \/ GetLocationAction
           \/ StopLocationAction
           \/ DismissAlert
           \/ \E new \in Permissions : ChangePermission(new)
    PROVE  Inv'
<1> USE DEF Inv
<1>1. UNCHANGED <<visited, visits, losses, signedIn, distance, closest>>
  BY DEF DidChangeAuthorization, DidUpdateLocations, DidFailWithError,
         GeocodedNowhere, Appear, Disappear, GetLocationAction,
         StopLocationAction, DismissAlert, ChangePermission, record, user
<1>2. alert' = alert \/ alert' = None
  BY DEF DidChangeAuthorization, DidUpdateLocations, DidFailWithError,
         GeocodedNowhere, Appear, Disappear, GetLocationAction,
         StopLocationAction, DismissAlert, ChangePermission
<1>3. VisitedWasNear' /\ AlertIsTrue' /\ VisitStandsOrIsLost'
  BY <1>1, <1>2 DEF VisitedWasNear, AlertIsTrue, VisitStandsOrIsLost
<1>4. /\ requests' \in [Slots -> Positions \cup {None}]
      /\ \A s \in Slots : requests'[s] \in {None, requests[s], distance}
  BY DEF DidChangeAuthorization, DidUpdateLocations, DidFailWithError,
         GeocodedNowhere, Appear, Disappear, GetLocationAction,
         StopLocationAction, DismissAlert, ChangePermission, TypeOK
<1>5. ClosestBounds'
  BY <1>1, <1>4 DEF ClosestBounds
<1>6. /\ permission' \in Permissions /\ asking' \in BOOLEAN
      /\ callback' \in BOOLEAN /\ loaded' \in BOOLEAN
      /\ onScreen' \in BOOLEAN /\ updating' \in BOOLEAN /\ radar' \in BOOLEAN
  BY DEF DidChangeAuthorization, DidUpdateLocations, DidFailWithError,
         GeocodedNowhere, Appear, Disappear, GetLocationAction,
         StopLocationAction, DismissAlert, ChangePermission, GetLocation,
         TypeOK
<1>7. label' \in Labels
  <2> [text |-> "wrong"] \in Labels /\ NoText \in Labels
    BY DEF Labels, NoText
  <2> QED
    BY DEF DidChangeAuthorization, DidUpdateLocations, DidFailWithError,
           GeocodedNowhere, Appear, Disappear, GetLocationAction,
           StopLocationAction, DismissAlert, ChangePermission, TypeOK
<1>8. TypeOK'
  BY <1>1, <1>2, <1>4, <1>6, <1>7 DEF TypeOK
<1>9. LoadedFirst'
  BY DEF DidChangeAuthorization, DidUpdateLocations, DidFailWithError,
         GeocodedNowhere, Appear, Disappear, GetLocationAction, Tappable,
         StopLocationAction, DismissAlert, ChangePermission, LoadedFirst,
         TypeOK
<1>10. RadarMeansUpdating'
  BY DEF DidChangeAuthorization, DidUpdateLocations, DidFailWithError,
         GeocodedNowhere, Appear, Disappear, GetLocationAction, GetLocation,
         StopLocationAction, DismissAlert, ChangePermission, LoadedFirst,
         RadarMeansUpdating, Authorized, TypeOK, Permissions
<1> QED
  BY <1>3, <1>5, <1>8, <1>9, <1>10

\* The record in the list is replaced: a visit goes from it and is counted as
\* lost, or one comes back.
LEMMA ReplacedInv ==
    ASSUME Inv, NEW p \in Places, ReplacedWithout(p) \/ ReplacedWith(p)
    PROVE  Inv'
<1> USE DEF Inv
<1>1. /\ UNCHANGED <<permission, asking, callback, loaded, onScreen, updating,
                     radar, requests, alert, label, visits, signedIn, distance,
                     closest>>
      /\ visited' \subseteq Places
      /\ losses' \in [Places -> Nat]
  BY DEF ReplacedWithout, ReplacedWith, control, user, TypeOK
<1>2. TypeOK'
  BY <1>1 DEF TypeOK
<1>3. /\ LoadedFirst' /\ RadarMeansUpdating' /\ ClosestBounds'
      /\ VisitedWasNear' /\ AlertIsTrue'
  BY <1>1 DEF LoadedFirst, RadarMeansUpdating, Authorized, ClosestBounds,
              VisitedWasNear, AlertIsTrue
<1>4. VisitStandsOrIsLost'
  <2> SUFFICES ASSUME signedIn, NEW q \in Places
               PROVE  visits[q] <= losses'[q] + (IF q \in visited' THEN 1 ELSE 0)
    BY <1>1 DEF VisitStandsOrIsLost
  <2>1. /\ visits[q] <= losses[q] + (IF q \in visited THEN 1 ELSE 0)
        /\ visits[q] \in Nat /\ losses[q] \in Nat
    BY DEF VisitStandsOrIsLost, TypeOK
  <2>2. CASE ReplacedWithout(p)
    <3>1. /\ losses'[q] = IF q = p THEN losses[q] + 1 ELSE losses[q]
          /\ p \in visited /\ visited' = visited \ {p}
      BY <2>2 DEF ReplacedWithout, TypeOK
    <3> QED
      BY <2>1, <3>1
  <2>3. CASE ReplacedWith(p)
    BY <2>1, <2>3 DEF ReplacedWith
  <2> QED
    BY <2>2, <2>3
<1> QED
  BY <1>2, <1>3, <1>4

LEMMA StepInv == Inv /\ [Next]_vars => Inv'
<1> SUFFICES ASSUME Inv, [Next]_vars PROVE Inv'
  OBVIOUS
<1>1. CASE UNCHANGED vars
  BY <1>1 DEF vars, Inv, TypeOK, LoadedFirst, RadarMeansUpdating, Authorized,
              ClosestBounds, VisitedWasNear, AlertIsTrue, VisitStandsOrIsLost
<1>2. CASE \E s \in Slots : Geocoded(s)
  BY <1>2, GeocodedInv
<1>3. CASE \E position \in Positions : Move(position)
  BY <1>3, MoveInv
<1>4. CASE \E p \in Places : ReplacedWithout(p) \/ ReplacedWith(p)
  BY <1>4, ReplacedInv
<1> QED
  BY <1>1, <1>2, <1>3, <1>4, ControlInv DEF Next

THEOREM LocatorInv == Spec => []Inv
BY InitInv, StepInv, PTL DEF Spec

\* Type correctness of the tab's state, through every interleaving of Core
\* Location, the geocoder and the user.
THEOREM LocatorTypeCorrect == Spec => []TypeOK
<1>1. Inv => TypeOK
  BY DEF Inv
<1> QED
  BY <1>1, LocatorInv, PTL

\* MeterCircularView.rotate and stopRotating follow startUpdatingLocation and
\* stopUpdatingLocation, as far as the permission goes.
THEOREM RadarIsHonest == Spec => []RadarMeansUpdating
<1>1. Inv => RadarMeansUpdating
  BY DEF Inv
<1> QED
  BY <1>1, LocatorInv, PTL

\* locationUpdated records visits of places the user has been near.
THEOREM VisitsAreReal == Spec => []VisitedWasNear
<1>1. Inv => VisitedWasNear
  BY DEF Inv
<1> QED
  BY <1>1, LocatorInv, PTL

\* showVisitedAlert congratulates on visits made within 100 metres.
THEOREM AlertsAreTrue == Spec => []AlertIsTrue
<1>1. Inv => AlertIsTrue
  BY DEF Inv
<1> QED
  BY <1>1, LocatorInv, PTL

\* Places.visit returns true again for a signed-in user only after childChanged
\* (Places.swift:164) has put a record without the visit in the list.
THEOREM VisitsAgainOnlyIfLost == Spec => []VisitStandsOrIsLost
<1>1. Inv => VisitStandsOrIsLost
  BY DEF Inv
<1> QED
  BY <1>1, LocatorInv, PTL

=============================================================================
