--------------------------- MODULE MCVerification ---------------------------
(***************************************************************************)
(* Instances of Verification: one credential and two requests, which are   *)
(* interchangeable.                                                        *)
(***************************************************************************)
EXTENDS Verification, TLC

VerifierSymmetry == Permutations(Verifiers)

=============================================================================
