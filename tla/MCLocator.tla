------------------------------ MODULE MCLocator ------------------------------
(***************************************************************************)
(* A small instance of Locator for TLC: at, near and far from a place.     *)
(***************************************************************************)
EXTENDS Locator, TLC

CONSTANTS p1, p2, s1, s2

OnePlace == {p1}
TwoPlaces == {p1, p2}
OneSlot == {s1}
TwoSlots == {s1, s2}

AtNearFar == [OnePlace -> {50, 300, 700}]

\* At both places, at one and near the other one, near one only.
BesideEachOther ==
    {[p \in TwoPlaces |-> 50]}
      \cup {[p \in TwoPlaces |-> IF p = q THEN 50 ELSE 300] : q \in TwoPlaces}
      \cup {[p \in TwoPlaces |-> IF p = q THEN 300 ELSE 700] : q \in TwoPlaces}

\* Places are interchangeable, and so are requests.
Symmetry == Permutations(Places) \cup Permutations(Slots)

=============================================================================
