-------------------------- MODULE MCAnchorPipeline --------------------------
(***************************************************************************)
(* Instances of AnchorPipeline.  Requests are interchangeable in the       *)
(* safety runs; the liveness run uses no symmetry.                         *)
(***************************************************************************)
EXTENDS AnchorPipeline

RequestSymmetry == Permutations(Requests)

=============================================================================
