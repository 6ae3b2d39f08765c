---------------------------- MODULE MCAuditChain ----------------------------
(***************************************************************************)
(* Instances of AuditChain: three operations, two of which pass their      *)
(* transaction.                                                            *)
(***************************************************************************)
EXTENDS AuditChain

CONSTANTS rotateKey, bulkRevoke, login

=============================================================================
