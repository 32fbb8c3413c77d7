---------------------------- MODULE MCProfileAuth -----------------------------
(***************************************************************************)
(* A small instance of ProfileAuth for TLC: a user of Facebook, one of     *)
(* Google, and an account without a name.                                  *)
(***************************************************************************)
EXTENDS ProfileAuth

CONSTANTS ann, bob, nix

Everybody == {ann, bob, nix}
WithName == {ann, bob}
WithFacebook == {ann}

=============================================================================
