------------------------------ MODULE Accounts ------------------------------
(***************************************************************************)
(* The administrator accounts of the API and their sessions.  Every        *)
(* request is authenticated once, by JwtStrategy, against the database;    *)
(* its handler then reads, checks and writes in separate statements, with  *)
(* no transaction around them and whatever else is running in between.     *)
(*                                                                         *)
(* Passwords, the expiry of tokens and the audit entries are left out: a   *)
(* login with a wrong password changes no account (AuditChain models the   *)
(* entries).                                                               *)
(***************************************************************************)
EXTENDS Naturals

CONSTANTS
    Admins,        \* the account ids, those not registered yet included
    FirstOwner,    \* the account that has been made an OWNER at deployment
    Managers,      \* requests that administer accounts
    Clients,       \* requests that log in or work
    Workers,       \* those of them that may do work that is counted
    MaxVersion,    \* bound on tokenVersion
    None           \* a field the request leaves out

ASSUME AccountsAssumption ==
    /\ FirstOwner \in Admins
    /\ Managers \cap Clients = {}
    /\ Workers \subseteq Clients
    /\ MaxVersion \in Nat
    /\ None \notin {"OWNER", "SUPER_ADMIN", "ADMIN", "AUDITOR"}
    /\ None \notin BOOLEAN
    /\ None \notin Admins

VARIABLES
    admin,     \* the Admin table
    worked,    \* the accounts adminHasActivity finds something of
    tokens,    \* the access tokens handed out
    dismissed, \* those whose account was since disabled or given another role
    requests   \* the requests in progress

vars == <<admin, worked, tokens, dismissed, requests>>

Roles == {"OWNER", "SUPER_ADMIN", "ADMIN", "AUDITOR"}
ManagerRoles == {"OWNER", "SUPER_ADMIN"}
MutatorRoles == {"OWNER", "SUPER_ADMIN", "ADMIN"}

Admin ==
    [state: {"unknown", "stored", "deleted"}, role: Roles, active: BOOLEAN,
     tokenVersion: Nat]

Token == [sub: Admins, tokenVersion: Nat]

\* UpdateAdminDto.
Dto == [role: Roles \cup {None}, active: BOOLEAN \cup {None}]
NoDto == [role |-> None, active |-> None]

\* What a handler holds between its statements: who the request was
\* authenticated as, what it was asked, and the account as it was read.
Request ==
    [pc: {"idle", "readUpdate", "lastOwner", "update", "readDelete",
          "activity", "delete", "create", "issueToken", "work"},
     actor: Admins \cup {None}, actorRole: Roles \cup {None},
     target: Admins \cup {None}, dto: Dto,
     existing: [role: Roles, active: BOOLEAN, tokenVersion: Nat]]

NothingRead == [role |-> "ADMIN", active |-> FALSE, tokenVersion |-> 0]
IdleRequest ==
    [pc |-> "idle", actor |-> None, actorRole |-> None, target |-> None,
     dto |-> NoDto, existing |-> NothingRead]

Unregistered ==
    [state |-> "unknown", role |-> "ADMIN", active |-> FALSE,
     tokenVersion |-> 0]
Account(role) ==
    [state |-> "stored", role |-> role, active |-> TRUE, tokenVersion |-> 0]

Init ==
    /\ admin = [a \in Admins |-> IF a = FirstOwner THEN Account("OWNER")
                                                   ELSE Unregistered]
    /\ worked = {}
    /\ tokens = {}
    /\ dismissed = {}
    /\ requests = [r \in Managers \cup Clients |-> IdleRequest]

Stored(a) == admin[a].state = "stored"
ActiveOwner(a) == Stored(a) /\ admin[a].role = "OWNER" /\ admin[a].active

-----------------------------------------------------------------------------
(* Requests *)

Goto(r, pc) == requests' = [requests EXCEPT ![r].pc = pc]
Finish(r) == requests' = [requests EXCEPT ![r] = IdleRequest]

\* JwtStrategy.validate: the account is there, active, and at the token's
\* version.
Validates(token) ==
    /\ Stored(token.sub)
    /\ admin[token.sub].active
    /\ admin[token.sub].tokenVersion = token.tokenVersion

\* JwtAuthGuard and RolesGuard let the request in; the role is the account's
\* present one, and the handler keeps it to the end.
Authenticated(r, token, roles, pc, target, dto) ==
    /\ requests[r].pc = "idle"
    /\ token \in tokens
    /\ Validates(token)
    /\ admin[token.sub].role \in roles
    /\ requests' = [requests EXCEPT
          ![r] = [pc |-> pc, actor |-> token.sub,
                  actorRole |-> admin[token.sub].role, target |-> target,
                  dto |-> dto, existing |-> NothingRead]]
    /\ UNCHANGED <<admin, worked, tokens, dismissed>>

Read(a) ==
    [role |-> admin[a].role, active |-> admin[a].active,
     tokenVersion |-> admin[a].tokenVersion]

-----------------------------------------------------------------------------
(* updateAdmin *)

StartUpdate(r, token, target, dto) ==
    /\ ~(token.sub = target /\ dto.active = FALSE)
    /\ Authenticated(r, token, ManagerRoles, "readUpdate", target, dto)

\* Disabling an OWNER, or giving it another role.
EndsOwnership(q, existing) ==
    /\ existing.role = "OWNER"
    /\ q.dto.role \notin {None, "OWNER"} \/ q.dto.active = FALSE

\* Mutant: anybody who manages accounts may make an OWNER.
UpdateAllowedToPromote(q, existing) ==
    existing.role = "OWNER" => q.actorRole = "OWNER"

\* Only an OWNER touches an OWNER, or makes an OWNER or a SUPER_ADMIN.
UpdateAllowed(q, existing) ==
    /\ existing.role = "OWNER" => q.actorRole = "OWNER"
    /\ q.dto.role \in ManagerRoles => q.actorRole = "OWNER"

\* The role checks of the code come on both sides of assertNotLastOwner; a
\* request that fails any of them ends without an effect.
ReadForUpdate(r) ==
    LET q == requests[r]
        existing == Read(q.target)
    IN  /\ q.pc = "readUpdate"
        /\ IF Stored(q.target) /\ UpdateAllowed(q, existing)
           THEN requests' = [requests EXCEPT
                   ![r].existing = existing,
                   ![r].pc = IF EndsOwnership(q, existing) THEN "lastOwner"
                                                           ELSE "update"]
           ELSE Finish(r)
        /\ UNCHANGED <<admin, worked, tokens, dismissed>>

\* Mutant: an OWNER that is disabled counts as one that is left.
AssertAnotherOwner(r) ==
    LET q == requests[r]
    IN  /\ q.pc = "lastOwner"
        /\ IF \E a \in Admins \ {q.target} :
                  Stored(a) /\ admin[a].role = "OWNER"
           THEN Goto(r, "update")
           ELSE Finish(r)
        /\ UNCHANGED <<admin, worked, tokens, dismissed>>

\* assertNotLastOwner counts the other active OWNERs.  A request that both
\* demotes and disables counts twice; this is the second count.
AssertNotLastOwner(r) ==
    LET q == requests[r]
    IN  /\ q.pc = "lastOwner"
        /\ IF \E a \in Admins \ {q.target} : ActiveOwner(a)
           THEN Goto(r, "update")
           ELSE Finish(r)
        /\ UNCHANGED <<admin, worked, tokens, dismissed>>

\* Mutant: disabling an account ends no session.
EndsSessionsOnRoleChange(q) == q.dto.role \notin {None, q.existing.role}

\* Sessions are to end: decided on the account as it was read.
EndsSessions(q) ==
    \/ q.dto.active = FALSE /\ q.existing.active
    \/ q.dto.role \notin {None, q.existing.role}

Updated(a, dto, ends) ==
    [admin[a] EXCEPT !.role = IF dto.role = None THEN @ ELSE dto.role,
                     !.active = IF dto.active = None THEN @ ELSE dto.active,
                     !.tokenVersion = IF ends THEN @ + 1 ELSE @]

TokensOf(a) == {t \in tokens : t.sub = a}

\* The account as it now is was disabled or given another role.
Dismisses(a, new) ==
    \/ admin[a].active /\ ~new.active
    \/ admin[a].role # new.role

\* admin.update sets what the request names, whatever the row has become since
\* it was read; the row may have been deleted, which is an error.
UpdateAdmin(r) ==
    LET q == requests[r]
        new == Updated(q.target, q.dto, EndsSessions(q))
    IN  /\ q.pc = "update"
        /\ IF Stored(q.target)
           THEN /\ new.tokenVersion <= MaxVersion
                /\ admin' = [admin EXCEPT ![q.target] = new]
                /\ dismissed' = IF Dismisses(q.target, new)
                                THEN dismissed \cup TokensOf(q.target)
                                ELSE dismissed
           ELSE UNCHANGED <<admin, dismissed>>
        /\ Finish(r)
        /\ UNCHANGED <<worked, tokens>>

-----------------------------------------------------------------------------
(* deleteAdmin *)

StartDelete(r, token, target) ==
    /\ token.sub # target
    /\ Authenticated(r, token, ManagerRoles, "readDelete", target, NoDto)

ReadForDelete(r) ==
    LET q == requests[r]
        existing == Read(q.target)
    IN  /\ q.pc = "readDelete"
        /\ IF /\ Stored(q.target)
              /\ existing.role = "OWNER" => q.actorRole = "OWNER"
              /\ ~existing.active
           THEN requests' = [requests EXCEPT ![r].pc = "activity",
                                             ![r].existing = existing]
           ELSE Finish(r)
        /\ UNCHANGED <<admin, worked, tokens, dismissed>>

AdminHasActivity(r) ==
    LET q == requests[r]
    IN  /\ q.pc = "activity"
        /\ IF q.target \in worked THEN Finish(r) ELSE Goto(r, "delete")
        /\ UNCHANGED <<admin, worked, tokens, dismissed>>

\* admin.delete asks for the id alone.
DeleteAdmin(r) ==
    LET q == requests[r]
    IN  /\ q.pc = "delete"
        /\ admin' = IF Stored(q.target)
                    THEN [admin EXCEPT ![q.target].state = "deleted"]
                    ELSE admin
        /\ Finish(r)
        /\ UNCHANGED <<worked, tokens, dismissed>>

-----------------------------------------------------------------------------
(* register, login, and the work that keeps an account *)

\* The new account is named by its username, which is unique.
StartRegister(r, token, target, role) ==
    /\ role \in ManagerRoles => admin[token.sub].role = "OWNER"
    /\ Authenticated(r, token, ManagerRoles, "create", target,
                     [NoDto EXCEPT !.role = role])

\* Registering hands out a token of the new account.
CreateAdmin(r) ==
    LET q == requests[r]
    IN  /\ q.pc = "create"
        /\ IF admin[q.target].state = "unknown"
           THEN /\ admin' = [admin EXCEPT ![q.target] = Account(q.dto.role)]
                /\ tokens' = tokens \cup {[sub |-> q.target, tokenVersion |-> 0]}
           ELSE UNCHANGED <<admin, tokens>>
        /\ Finish(r)
        /\ UNCHANGED <<worked, dismissed>>

\* login reads the account, compares the password and writes an audit entry
\* before it signs a token with the version it read.
StartLogin(r, a) ==
    /\ requests[r].pc = "idle"
    /\ Stored(a)
    /\ admin[a].active
    /\ requests' = [requests EXCEPT ![r].pc = "issueToken", ![r].target = a,
                                    ![r].existing = Read(a)]
    /\ UNCHANGED <<admin, worked, tokens, dismissed>>

IssueToken(r) ==
    LET q == requests[r]
    IN  /\ q.pc = "issueToken"
        /\ tokens' = tokens \cup {[sub |-> q.target,
                                   tokenVersion |-> q.existing.tokenVersion]}
        /\ Finish(r)
        /\ UNCHANGED <<admin, worked, dismissed>>

\* A bulk issuance, a revocation or a document proof.
StartWork(r, token) ==
    Authenticated(r, token, MutatorRoles, "work", None, NoDto)

Work(r) ==
    /\ requests[r].pc = "work"
    /\ worked' = worked \cup {requests[r].actor}
    /\ Finish(r)
    /\ UNCHANGED <<admin, tokens, dismissed>>

-----------------------------------------------------------------------------
ManagerStep(r) ==
    \/ \E token \in tokens, target \in Admins :
        \/ \E dto \in Dto : StartUpdate(r, token, target, dto)
        \/ StartDelete(r, token, target)
        \/ \E role \in Roles : StartRegister(r, token, target, role)
    \/ ReadForUpdate(r) \/ AssertNotLastOwner(r) \/ UpdateAdmin(r)
    \/ ReadForDelete(r) \/ AdminHasActivity(r) \/ DeleteAdmin(r)
    \/ CreateAdmin(r)

ClientStep(r) ==
    \/ \E a \in Admins : StartLogin(r, a)
    \/ IssueToken(r)
    \/ r \in Workers /\ \E token \in tokens : StartWork(r, token)
    \/ Work(r)

Next ==
    \/ \E r \in Managers : ManagerStep(r)
    \/ \E r \in Clients : ClientStep(r)

Spec == Init /\ [][Next]_vars

-----------------------------------------------------------------------------
(* Properties *)

\* The types; a dismissed token is one that was handed out.
TypeOK ==
    /\ admin \in [Admins -> Admin]
    /\ worked \subseteq Admins
    /\ tokens \subseteq Token
    /\ dismissed \subseteq tokens
    /\ requests \in [Managers \cup Clients -> Request]

\* SECURITY.md:45: the last active OWNER account cannot be deleted, disabled,
\* or demoted.
SomeOwnerIsActive == \E a \in Admins : ActiveOwner(a)

\* auth.service.ts:298: disabling an account or changing its role ends its
\* sessions, and for good: not even enabling the account again, with logins in
\* progress all the while, brings one of them back.
DismissedSessionsStayOut == \A token \in dismissed : ~Validates(token)

\* SECURITY.md:46-47, at the moment of the write: an OWNER account is only
\* changed, and an account is only made an OWNER or a SUPER_ADMIN, by a
\* request whose actor is then an active OWNER.
OnlyOwnersRuleOverOwners ==
    [][\A a \in Admins :
          LET old == admin[a]
              new == admin'[a]
          IN  (/\ old # new
               /\ \/ old.state = "stored" /\ old.role = "OWNER"
                  \/ new.role \in ManagerRoles
                        /\ (old.state # "stored" \/ old.role # new.role))
              => \E r \in Managers :
                    /\ requests[r].pc \in {"update", "delete", "create"}
                    /\ requests[r].target = a
                    /\ ActiveOwner(requests[r].actor)]_vars

=============================================================================
