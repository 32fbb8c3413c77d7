---------------------------- MODULE MCListScreens -----------------------------
(***************************************************************************)
(* A small instance of ListScreens for TLC.                                *)
(***************************************************************************)
EXTENDS ListScreens

CONSTANTS u1, n1, n2

OneUser == {u1}
TwoKeys == {1, 2}
TwoNotes == {n1, n2}

=============================================================================
