----------------------------- MODULE StarRating -----------------------------
(***************************************************************************)
(* The star rating view CosmosView, as the app uses it: on the detail      *)
(* screen, where touches and VoiceOver set the rating and didFinishTouch-  *)
(* ingCosmos records it with Places.rate, and in the rows of the list,     *)
(* which only show a rating and are used again for other places.           *)
(*                                                                         *)
(* A rating is a whole number of Unit-ths of a star, and a touch is the    *)
(* whole number of points from the left edge of the first star; with       *)
(* Unit a multiple of 20 and of StarSize all the arithmetic is exact,      *)
(* where the code's Double rounds in the last bit.                         *)
(***************************************************************************)
EXTENDS Integers

CONSTANTS
    TotalStars, StarSize, StarMargin,   \* CosmosSettings, in stars and points
    FillMode,
    UpdateOnTouch,   \* FALSE in the list, whose view takes no touches either
    MinTouchRating,  \* in stars
    Unit,
    Touches,         \* where the finger may be
    Ratings,         \* of the places shown: averages of what is recorded
    None

ASSUME StarRatingAssumption ==
    /\ TotalStars \in Nat \ {0}
    /\ StarSize \in Nat \ {0}
    /\ StarMargin \in Nat
    /\ FillMode \in {"full", "half", "precise"}
    /\ UpdateOnTouch \in BOOLEAN
    /\ MinTouchRating \in 0 .. TotalStars
    /\ Unit \in Nat \ {0}
    /\ Unit % 20 = 0
    /\ Unit % StarSize = 0
    /\ Touches \subseteq Int
    /\ Ratings \subseteq 0 .. TotalStars * Unit
    /\ None \notin Int

VARIABLES
    rating,     \* CosmosView.rating
    layers,     \* how far each star is filled
    spoken,     \* accessibilityValue
    finger,     \* where the touch is
    previous,   \* previousRatingForDidTouchCallback
    told,       \* what didTouchCosmos was last called with
    recorded    \* the stars of the last call of Places.rate

vars == <<rating, layers, spoken, finger, previous, told, recorded>>

Atmost(limit, x) == IF x > limit THEN limit ELSE x
Atleast(limit, x) == IF x < limit THEN limit ELSE x

FloorTo(step, x) == (x \div step) * step
CeilTo(step, x) == FloorTo(step, x + step - 1)

\* Foundation's round() of a number that is not negative.
RoundTo(step, x) == FloorTo(step, x + step \div 2)

-----------------------------------------------------------------------------
(* CosmosRating: what is shown of a rating.                                *)

RoundFillLevel(level) ==
    CASE FillMode = "full"    -> RoundTo(Unit, level)
      [] FillMode = "half"    -> RoundTo(Unit \div 2, level)
      [] FillMode = "precise" -> level

StarFillLevel(remainder) == RoundFillLevel(Atleast(0, Atmost(Unit, remainder)))

DisplayedRating(precise) ==
    LET whole == FloorTo(Unit, precise)
    IN  Atleast(0, Atmost(TotalStars * Unit,
                          whole + StarFillLevel(precise - whole)))

NumberOfFilledStars(r) == Atleast(0, Atmost(TotalStars * Unit, r))

\* createStarLayers: a filled, an empty or a partly filled star each.
StarLayers(r) ==
    [i \in 1 .. TotalStars |-> StarFillLevel(NumberOfFilledStars(r) - (i - 1) * Unit)]

\* positionStarLayers: the left edge of a star.
StarLeft(i) == (i - 1) * (StarSize + StarMargin)

AccessibilityValue(r) == RoundTo(Unit \div 10, DisplayedRating(r))

-----------------------------------------------------------------------------
(* CosmosTouch and CosmosAccessibility: the rating a touch or a step means.*)

PreciseRating(position) ==
    LET pitch == StarSize + StarMargin
        whole == position \div pitch
        rest  == position - whole * pitch
    IN  CASE position < 0 -> 0
          [] position >= 0 /\ whole > TotalStars -> TotalStars * Unit
          [] position >= 0 /\ whole <= TotalStars ->
                whole * Unit + Atmost(Unit, rest * (Unit \div StarSize))

\* Variant: a star counts from its middle.
TouchRatingHalfway(position) ==
    Atleast(MinTouchRating * Unit, DisplayedRating(PreciseRating(position)))

\* The lowest 5 percent of a star do not count for it.
TouchRating(position) ==
    LET favour == CASE FillMode = "full"    -> 9 * (Unit \div 20)
                    [] FillMode = "half"    -> Unit \div 5
                    [] FillMode = "precise" -> 0
    IN  Atleast(MinTouchRating * Unit,
                DisplayedRating(PreciseRating(position) + favour))

Step == IF FillMode = "full" THEN Unit ELSE Unit \div 2

\* Variant: without the test for the last star.
IncrementUnbounded(r) == CeilTo(Step, r + 1) - r

\* The next multiple of the step above.
AccessibilityIncrement(r) ==
    IF r >= TotalStars * Unit THEN 0 ELSE CeilTo(Step, r + 1) - r

\* Variant: half stars in every fill mode.
DecrementByHalves(r) ==
    IF r <= MinTouchRating * Unit THEN 0 ELSE r - FloorTo(Unit \div 2, r - 1)

\* The next multiple of the step below.
AccessibilityDecrement(r) ==
    IF r <= MinTouchRating * Unit THEN 0 ELSE r - FloorTo(Step, r - 1)

-----------------------------------------------------------------------------
(* CosmosView.                                                             *)

Update(new) ==
    /\ layers' = StarLayers(new)
    /\ spoken' = AccessibilityValue(new)

\* Variant: drawn again only when the number of whole stars changes.
SetRatingByStars(new) ==
    /\ rating' = new
    /\ IF new \div Unit # rating \div Unit
       THEN Update(new)
       ELSE UNCHANGED <<layers, spoken>>

\* rating's didSet.
SetRating(new) ==
    /\ rating' = new
    /\ IF new # rating THEN Update(new) ELSE UNCHANGED <<layers, spoken>>

\* A row of the list starts with the default of the view, 2.718 stars; the
\* detail screen has a view of its own each time, whose rating is set in
\* viewDidLoad before it is shown.
Init ==
    /\ rating \in IF UpdateOnTouch THEN Ratings ELSE {(27 * Unit) \div 10}
    /\ layers = StarLayers(rating)
    /\ spoken = AccessibilityValue(rating)
    /\ finger = None
    /\ previous = None
    /\ told = None
    /\ recorded = None

\* cellForRowAt: a row is used for another place, or for the same one anew.
Reuse(r) ==
    /\ ~ UpdateOnTouch
    /\ SetRating(r)
    /\ UNCHANGED <<finger, previous, told, recorded>>

OnDidTouch(position) ==
    /\ SetRating(TouchRating(position))
    /\ previous' = TouchRating(position)
    /\ told' = IF TouchRating(position) = previous THEN told
                                                   ELSE TouchRating(position)

\* calculateSizeToFitLayers: the view ends with its last star.
ViewWidth == StarLeft(TotalStars) + StarSize

\* point(inside:), CosmosTouchTarget: a touch begins in the view, or beside
\* one less than 44 points wide.
Inside(position) ==
    LET increase == Atleast(0, 44 - ViewWidth)
    IN  - increase <= 2 * position /\ 2 * position < 2 * ViewWidth + increase

TouchesBegan(position) ==
    /\ UpdateOnTouch
    /\ Inside(position)
    /\ finger = None
    /\ finger' = position
    /\ OnDidTouch(position)
    /\ UNCHANGED recorded

TouchesMoved(position) ==
    /\ finger # None
    /\ finger' = position
    /\ OnDidTouch(position)
    /\ UNCHANGED recorded

\* PlaceDetailViewController.didFinishTouchingCosmos.
DidFinishTouchingCosmos(r) == recorded' = r \div Unit

\* touchesEnded, and touchesCancelled, which does the same.
TouchesEnded ==
    /\ finger # None
    /\ finger' = None
    /\ DidFinishTouchingCosmos(rating)
    /\ UNCHANGED <<rating, layers, spoken, previous, told>>

\* VoiceOver changes the value of an adjustable view.
Adjust(new) ==
    /\ UpdateOnTouch
    /\ finger = None
    /\ SetRating(new)
    /\ told' = new
    /\ DidFinishTouchingCosmos(new)
    /\ UNCHANGED <<finger, previous>>

Increment == Adjust(rating + AccessibilityIncrement(rating))

Decrement == Adjust(rating - AccessibilityDecrement(rating))

Next ==
    \/ \E r \in Ratings : Reuse(r)
    \/ \E position \in Touches : TouchesBegan(position)
    \/ \E position \in Touches : TouchesMoved(position)
    \/ TouchesEnded
    \/ Increment
    \/ Decrement

Spec == Init /\ [][Next]_vars

-----------------------------------------------------------------------------
(* Properties.                                                             *)

\* Ratings are numbers of Unit-ths of a star, none that can be touched above
\* the last star.
TypeOK ==
    /\ rating \in Nat
    /\ UpdateOnTouch => rating <= TotalStars * Unit
    /\ layers \in [1 .. TotalStars -> 0 .. Unit]
    /\ spoken \in 0 .. TotalStars * Unit
    /\ finger \in Touches \cup {None}
    /\ previous \in (0 .. TotalStars * Unit) \cup {None}
    /\ told \in (0 .. TotalStars * Unit) \cup {None}
    /\ recorded \in (0 .. TotalStars) \cup {None}

\* The stars are drawn from a remainder that shrinks from star to star, and
\* VoiceOver reads the rating rounded as a whole: both show the same number,
\* after any touches, steps and reuse of rows.
DrawnIsSpoken ==
    /\ \A i \in 1 .. TotalStars :
          layers[i] = Atleast(0, Atmost(Unit, DisplayedRating(rating) - (i - 1) * Unit))
    /\ spoken = AccessibilityValue(rating)

\* The finger has come into star i, further than its first 5 percent.
InStar(i, position) ==
    20 * (position - StarLeft(i)) >= StarSize

\* While the finger is down exactly the stars up to the one under it are
\* chosen, and never fewer than the lowest rating.
StarUnderFinger ==
    finger # None /\ FillMode = "full" =>
       \A i \in 1 .. TotalStars :
          rating >= i * Unit <=> i <= MinTouchRating \/ InStar(i, finger)

\* VoiceOver's decrement has nothing to take from a rating that is not above
\* the lowest (CosmosDistrib.swift:301) and reports it all the same: it may be
\* an average closer to the next star than to the one below.
LeftBetweenStars ==
    /\ rating < MinTouchRating * Unit
    /\ 2 * (rating - recorded * Unit) >= Unit

\* What Places.rate is called with, cut off by Int(), is the number of stars
\* drawn, rounded, after any touches and steps from any average; but for one
\* star too few where VoiceOver has reported an average below the lowest.
RecordedIsDrawn ==
    FillMode = "full" /\ finger = None /\ recorded # None =>
       \A i \in 1 .. TotalStars :
          layers[i] = IF i <= recorded \/ (i = recorded + 1 /\ LeftBetweenStars)
                      THEN Unit ELSE 0

=============================================================================
