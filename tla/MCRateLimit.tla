---------------------------- MODULE MCRateLimit -----------------------------
(***************************************************************************)
(* An instance of RateLimit: one client that logs in and verifies through  *)
(* one process.                                                            *)
(***************************************************************************)
EXTENDS RateLimit, TLC

CONSTANTS l1, v1, v2, login, verification, api

MCRuleOf ==
    [r \in Requests |-> IF r = l1 THEN login ELSE verification]
MCProcessOf == [r \in Requests |-> api]
MCLimit == [rule \in Rules |-> 1]
MCWindow == [rule \in Rules |-> 2]

VerificationSymmetry == Permutations({v1, v2})

=============================================================================
