---------------------------- MODULE MCPlacesSync ----------------------------
(***************************************************************************)
(* Small instances of PlacesSync for TLC.                                  *)
(***************************************************************************)
EXTENDS PlacesSync, TLC

CONSTANTS d1, d2, u1, u2, i1, i2

OneDevice == {d1}
TwoDevices == {d1, d2}
OneUser == {u1}
OneInfo == {i1}
TwoInfos == {i1, i2}
OneKey == {1}
TwoKeys == {1, 2}
OneChoice == {4}
Nobody == {}
NoChoice == {}

\* Devices are interchangeable, and so are users and infos.
Symmetry == Permutations(Devices) \cup Permutations(Users) \cup Permutations(Infos)

=============================================================================
