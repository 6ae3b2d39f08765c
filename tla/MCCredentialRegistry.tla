------------------------ MODULE MCCredentialRegistry ------------------------
(***************************************************************************)
(* The contract with two issuers (one of them its deployer), two           *)
(* credential ids and the empty one, and two proof hashes.  Ids and hashes *)
(* are only ever compared, so their permutations are symmetries.           *)
(***************************************************************************)
EXTENDS CredentialRegistry, TLC

CONSTANTS id1, id2, hash1, hash2

MCSymmetry == Permutations({id1, id2}) \cup Permutations({hash1, hash2})

=============================================================================
