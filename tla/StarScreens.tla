----------------------------- MODULE StarScreens ------------------------------
(***************************************************************************)
(* Both star rating views of Main.storyboard at once: the one of the       *)
(* detail screen, which takes touches (StarRating as it is extended here), *)
(* and the one of a row of the list, which is smaller, fills its stars     *)
(* precisely and is used for one place after another.                      *)
(***************************************************************************)
EXTENDS StarRating

CONSTANTS
    RowStarSize, RowStarMargin, RowUnit,
    RowRatings      \* of the places in the list

\* What StarRating assumes of its constants, for the view of a row.
ASSUME StarScreensAssumption ==
    /\ RowStarSize \in Nat \ {0}
    /\ RowStarMargin \in Nat
    /\ RowUnit \in Nat \ {0}
    /\ RowUnit % 20 = 0
    /\ RowUnit % RowStarSize = 0
    /\ RowRatings \subseteq 0 .. TotalStars * RowUnit

VARIABLES
    rowRating, rowLayers, rowSpoken,
    untouched       \* in place of the row's finger and what follows from it

rowVars == <<rowRating, rowLayers, rowSpoken, untouched>>

\* userInteractionEnabled is NO: there is nothing to touch or to record.
Row == INSTANCE StarRating WITH
    StarSize <- RowStarSize, StarMargin <- RowStarMargin, Unit <- RowUnit,
    FillMode <- "precise", UpdateOnTouch <- FALSE,
    Touches <- {}, Ratings <- RowRatings,
    rating <- rowRating, layers <- rowLayers, spoken <- rowSpoken,
    finger <- untouched, previous <- untouched, told <- untouched,
    recorded <- untouched

ScreensInit == Init /\ Row!Init

ScreensNext ==
    \/ Next /\ UNCHANGED rowVars
    \/ Row!Next /\ UNCHANGED vars

ScreensSpec == ScreensInit /\ [][ScreensNext]_<<vars, rowVars>>

\* The stars of a row are those of the place it is used for now, whatever
\* place it showed before, and VoiceOver reads the same.
RowDrawnIsSpoken == Row!DrawnIsSpoken

=============================================================================
