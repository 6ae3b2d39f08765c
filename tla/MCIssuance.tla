----------------------------- MODULE MCIssuance -----------------------------
(***************************************************************************)
(* An instance of Issuance: two requests at a time.  The credentials, the  *)
(* handlers and the spellings of one pair are interchangeable.             *)
(***************************************************************************)
EXTENDS Issuance, TLC

Symmetric ==
    Permutations(Credentials) \cup Permutations(Handlers)
        \cup Permutations(UNION Spellings)

=============================================================================
