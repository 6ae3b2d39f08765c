--------------------------- MODULE MCSigningKeys ---------------------------
(***************************************************************************)
(* An instance of SigningKeys: two rotations among three requests, so that *)
(* two of them and a first issuance, or two first issuances and a          *)
(* rotation, overlap each other and the script.                            *)
(***************************************************************************)
EXTENDS SigningKeys

=============================================================================
