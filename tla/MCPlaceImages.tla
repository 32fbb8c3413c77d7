---------------------------- MODULE MCPlaceImages ----------------------------
(***************************************************************************)
(* A small instance of PlaceImages for TLC.                                *)
(***************************************************************************)
EXTENDS PlaceImages

CONSTANTS i1, i2

TwoImages == {i1, i2}

=============================================================================
