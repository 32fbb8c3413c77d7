-------------------------- MODULE MCPlacesHistory ---------------------------
(***************************************************************************)
(* Small instances of PlacesHistory for TLC.                               *)
(***************************************************************************)
EXTENDS MCPlacesSync, PlacesHistory

=============================================================================
