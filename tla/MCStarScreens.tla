---------------------------- MODULE MCStarScreens -----------------------------
(***************************************************************************)
(* The settings of Main.storyboard, in hundredths of a star on the detail  *)
(* screen and in 300ths in the row, whose stars are 15 points wide.        *)
(***************************************************************************)
EXTENDS StarScreens

\* The view is 125 points wide; a finger that moves may leave it, by less or
\* more than a star.
AcrossTheView == (-3 .. 128) \cup {160}

\* The averages of up to three ratings of 0 to 5 stars.
Averages == {(100 * sum) \div n : sum \in 0 .. 15, n \in 1 .. 3} \cap 0 .. 500

\* The averages 0, 1 1/2, 1 2/3 and 5: no star, two fillings of the same
\* star, all stars.
RowAverages == {0, 450, 500, 1500}

=============================================================================
