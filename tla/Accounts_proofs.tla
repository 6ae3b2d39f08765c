--------------------------- MODULE Accounts_proofs ---------------------------
(***************************************************************************)
(* The rules of the account model, for any number of accounts, clients and *)
(* token versions, as long as one request at a time administers accounts.  *)
(* The rules are not inductive: a write rests on an account that was read  *)
(* and an actor that was authenticated two statements earlier.  ManagerInv *)
(* says what is still true of both at the write, SessionsInv how the       *)
(* versions of tokens and of logins in progress relate to the account's.   *)
(***************************************************************************)
EXTENDS Accounts, TLAPS

\* The actor of an administering request is still what it was let in as.
ActorStands(q) ==
    q.pc # "idle" =>
        /\ q.actor \in Admins
        /\ q.target \in Admins
        /\ Stored(q.actor)
        /\ admin[q.actor].active
        /\ admin[q.actor].role = q.actorRole

\* The account it read is still as it was, and the checks still hold.
TargetStands(q) ==
    /\ q.pc \in {"lastOwner", "update", "activity", "delete"} =>
          /\ Stored(q.target)
          /\ q.existing = Read(q.target)
          /\ admin[q.target].role = "OWNER" => q.actorRole = "OWNER"
    /\ q.pc \in {"lastOwner", "update"} =>
          (q.dto.role \in ManagerRoles => q.actorRole = "OWNER")
    /\ q.pc = "update" /\ EndsOwnership(q, q.existing) =>
          \E a \in Admins \ {q.target} : ActiveOwner(a)
    /\ q.pc \in {"activity", "delete"} => ~admin[q.target].active
    /\ q.pc = "create" =>
          /\ q.dto.role \in Roles
          /\ q.dto.role \in ManagerRoles => q.actorRole = "OWNER"

\* Requests keep to their kind; a login in progress is not ahead of the
\* account it read.
ManagersStand == \A r \in Managers : requests[r].pc \notin {"issueToken", "work"}

ClientStands(q) ==
    /\ q.pc \in {"idle", "issueToken", "work"}
    /\ q.pc = "work" => q.actor \in Admins
    /\ q.pc = "issueToken" =>
          /\ q.target \in Admins
          /\ admin[q.target].state # "unknown"
          /\ q.existing.tokenVersion <= admin[q.target].tokenVersion

\* No token is ahead of its account, a dismissed one is behind it for ever.
SessionsInv ==
    /\ \A t \in tokens : /\ admin[t.sub].state # "unknown"
                         /\ t.tokenVersion <= admin[t.sub].tokenVersion
    /\ \A t \in dismissed : t.tokenVersion < admin[t.sub].tokenVersion

ManagerInv(m) ==
    /\ TypeOK
    /\ SomeOwnerIsActive
    /\ ManagersStand
    /\ \A c \in Clients : ClientStands(requests[c])
    /\ ActorStands(requests[m])
    /\ TargetStands(requests[m])
    /\ SessionsInv

-----------------------------------------------------------------------------
LEMMA InitEstablishesManagerInv ==
    ASSUME NEW m, Managers = {m}, Init
    PROVE  ManagerInv(m)
<1> USE AccountsAssumption
<1>1. IdleRequest \in Request
  BY DEF IdleRequest, Request, NoDto, Dto, NothingRead, Roles
<1>2. TypeOK
  BY <1>1 DEF Init, TypeOK, Admin, Account, Unregistered, Roles
<1>3. SomeOwnerIsActive
  BY DEF Init, SomeOwnerIsActive, ActiveOwner, Stored, Account
<1>4. \A r \in Managers \cup Clients : requests[r].pc = "idle"
  BY DEF Init, IdleRequest
<1>5. /\ ManagersStand
      /\ \A c \in Clients : ClientStands(requests[c])
      /\ ActorStands(requests[m])
      /\ TargetStands(requests[m])
  BY <1>4 DEF ManagersStand, ClientStands, ActorStands, TargetStands
<1>6. SessionsInv
  BY DEF Init, SessionsInv
<1> QED BY <1>2, <1>3, <1>5, <1>6 DEF ManagerInv

\* One request moves and the others stay.
LEMMA RequestMoves ==
    ASSUME TypeOK, NEW r \in Managers \cup Clients, NEW q \in Request,
           requests' = [requests EXCEPT ![r] = q]
    PROVE  /\ requests' \in [Managers \cup Clients -> Request]
           /\ requests'[r] = q
           /\ \A s \in Managers \cup Clients :
                 s # r => requests'[s] = requests[s]
BY DEF TypeOK

\* The administering request reads, and nothing is written.
LEMMA ManagerMoves ==
    ASSUME NEW m, Managers = {m}, ManagerInv(m),
           NEW q \in Request, requests' = [requests EXCEPT ![m] = q],
           q.pc \notin {"issueToken", "work"},
           ActorStands(q), TargetStands(q),
           UNCHANGED <<admin, worked, tokens, dismissed>>
    PROVE  ManagerInv(m)'
<1> USE AccountsAssumption DEF ManagerInv
<1>1. /\ requests' \in [Managers \cup Clients -> Request]
      /\ requests'[m] = q
      /\ \A c \in Clients : requests'[c] = requests[c]
  BY RequestMoves
<1>2. TypeOK'
  BY <1>1 DEF TypeOK
<1>3. SomeOwnerIsActive'
  BY DEF SomeOwnerIsActive, ActiveOwner, Stored
<1>4. ManagersStand'
  BY <1>1 DEF ManagersStand
<1>5. \A c \in Clients : ClientStands(requests[c])'
  BY <1>1 DEF ClientStands
<1>6. ActorStands(requests[m])'
  BY <1>1 DEF ActorStands, Stored
<1>7. TargetStands(requests[m])'
  BY <1>1 DEF TargetStands, Stored, Read, ActiveOwner, EndsOwnership
<1>8. SessionsInv'
  BY DEF SessionsInv
<1> QED BY <1>2, <1>3, <1>4, <1>5, <1>6, <1>7, <1>8

\* The administering request writes, and is over.
LEMMA ManagerFinishes ==
    ASSUME NEW m, Managers = {m}, ManagerInv(m), Finish(m),
           admin' \in [Admins -> Admin],
           \A a \in Admins : admin[a].state # "unknown" =>
              /\ admin'[a].state # "unknown"
              /\ admin[a].tokenVersion <= admin'[a].tokenVersion,
           SomeOwnerIsActive', SessionsInv',
           tokens' \subseteq Token, dismissed' \subseteq tokens',
           worked' = worked
    PROVE  ManagerInv(m)'
<1> USE AccountsAssumption DEF ManagerInv
<1>1. IdleRequest \in Request /\ IdleRequest.pc = "idle"
  BY DEF IdleRequest, Request, NoDto, Dto, NothingRead, Roles
<1>2. /\ requests' \in [Managers \cup Clients -> Request]
      /\ requests'[m].pc = "idle"
      /\ \A c \in Clients : requests'[c] = requests[c]
  BY <1>1, RequestMoves DEF Finish
<1>3. TypeOK'
  BY <1>2 DEF TypeOK
<1>4. ManagersStand'
  BY <1>2 DEF ManagersStand
<1>5. \A c \in Clients : ClientStands(requests[c])'
  <2> SUFFICES ASSUME NEW c \in Clients
               PROVE  ClientStands(requests[c])'
    OBVIOUS
  <2>1. requests'[c] = requests[c] /\ ClientStands(requests[c])
    BY <1>2
  <2>2. requests[c] \in Request
    BY DEF TypeOK
  <2>3. requests[c].pc = "issueToken" =>
           /\ requests[c].target \in Admins
           /\ requests[c].existing.tokenVersion \in Nat
           /\ admin[requests[c].target].tokenVersion \in Nat
           /\ admin'[requests[c].target].tokenVersion \in Nat
    BY <2>1, <2>2, <1>3 DEF ClientStands, Request, TypeOK, Admin
  <2> QED BY <2>1, <2>3 DEF ClientStands
<1>6. ActorStands(requests[m])' /\ TargetStands(requests[m])'
  BY <1>2 DEF ActorStands, TargetStands
<1> QED BY <1>3, <1>4, <1>5, <1>6

\* A client's request moves; it may hand out a token or leave work behind.
LEMMA ClientMoves ==
    ASSUME NEW m, Managers = {m}, ManagerInv(m),
           NEW c \in Clients, NEW q \in Request,
           requests' = [requests EXCEPT ![c] = q],
           ClientStands(q), UNCHANGED <<admin, dismissed>>,
           tokens' \subseteq Token, tokens \subseteq tokens',
           worked' \subseteq Admins, SessionsInv'
    PROVE  ManagerInv(m)'
<1> USE AccountsAssumption DEF ManagerInv
<1>1. /\ requests' \in [Managers \cup Clients -> Request]
      /\ requests'[c] = q
      /\ requests'[m] = requests[m]
      /\ \A d \in Clients : d # c => requests'[d] = requests[d]
  BY RequestMoves
<1>2. TypeOK'
  BY <1>1 DEF TypeOK
<1>3. SomeOwnerIsActive'
  BY DEF SomeOwnerIsActive, ActiveOwner, Stored
<1>4. ManagersStand'
  BY <1>1 DEF ManagersStand
<1>5. \A d \in Clients : ClientStands(requests[d])'
  BY <1>1 DEF ClientStands
<1>6. ActorStands(requests[m])'
  BY <1>1 DEF ActorStands, Stored
<1>7. TargetStands(requests[m])'
  BY <1>1 DEF TargetStands, Stored, Read, ActiveOwner, EndsOwnership
<1> QED BY <1>2, <1>3, <1>4, <1>5, <1>6, <1>7

-----------------------------------------------------------------------------
(* The steps of the administering request *)

LEMMA ManagerTypes ==
    ASSUME NEW m, Managers = {m}, ManagerInv(m)
    PROVE  /\ requests[m] \in Request
           /\ m \in Managers \cup Clients
           /\ requests[m] = [requests[m] EXCEPT !.pc = requests[m].pc]
BY DEF ManagerInv, TypeOK, Request

\* An authenticated request starts with an actor that stands.
LEMMA AuthenticatedKeepsInv ==
    ASSUME NEW m, Managers = {m}, ManagerInv(m),
           NEW token \in tokens, NEW target \in Admins, NEW dto \in Dto,
           NEW pc \in {"readUpdate", "readDelete", "create"},
           Authenticated(m, token, ManagerRoles, pc, target, dto),
           pc = "create" =>
               /\ dto.role \in Roles
               /\ dto.role \in ManagerRoles => admin[token.sub].role = "OWNER"
    PROVE  ManagerInv(m)'
<1> DEFINE q == [pc |-> pc, actor |-> token.sub,
                 actorRole |-> admin[token.sub].role, target |-> target,
                 dto |-> dto, existing |-> NothingRead]
<1>1. /\ token.sub \in Admins
      /\ admin[token.sub].role \in Roles
      /\ Stored(token.sub)
      /\ admin[token.sub].active
  BY DEF ManagerInv, TypeOK, Token, Admin, Authenticated, Validates
<1>2. q \in Request
  BY <1>1 DEF Request, NothingRead, Roles
<1>3. ActorStands(q)
  BY <1>1 DEF ActorStands
<1>4. TargetStands(q)
  BY DEF TargetStands
<1>5. /\ requests' = [requests EXCEPT ![m] = q]
      /\ UNCHANGED <<admin, worked, tokens, dismissed>>
  BY DEF Authenticated
<1>6. q.pc \notin {"issueToken", "work"}
  OBVIOUS
<1> HIDE DEF q
<1> QED BY <1>2, <1>3, <1>4, <1>5, <1>6, ManagerMoves

LEMMA FinishKeepsInv ==
    ASSUME NEW m, Managers = {m}, ManagerInv(m), Finish(m),
           UNCHANGED <<admin, worked, tokens, dismissed>>
    PROVE  ManagerInv(m)'
<1>1. IdleRequest \in Request
  BY AccountsAssumption
  DEF IdleRequest, Request, NoDto, Dto, NothingRead, Roles
<1>2. /\ IdleRequest.pc \notin {"issueToken", "work"}
      /\ ActorStands(IdleRequest)
      /\ TargetStands(IdleRequest)
  BY DEF IdleRequest, ActorStands, TargetStands
<1> QED BY <1>1, <1>2, ManagerMoves DEF Finish

LEMMA ReadForUpdateKeepsInv ==
    ASSUME NEW m, Managers = {m}, ManagerInv(m), ReadForUpdate(m)
    PROVE  ManagerInv(m)'
<1> DEFINE old == requests[m]
           existing == Read(old.target)
           pc == IF EndsOwnership(old, existing) THEN "lastOwner" ELSE "update"
           q == [old EXCEPT !.pc = pc, !.existing = existing]
<1>1. old \in Request /\ old.pc = "readUpdate" /\ old.target \in Admins
  BY ManagerTypes DEF ReadForUpdate, ManagerInv, ActorStands
<1>2. CASE ~(Stored(old.target) /\ UpdateAllowed(old, existing))
  <2>1. Finish(m) /\ UNCHANGED <<admin, worked, tokens, dismissed>>
    BY <1>2 DEF ReadForUpdate
  <2> QED BY <2>1, FinishKeepsInv
<1>3. CASE Stored(old.target) /\ UpdateAllowed(old, existing)
  <2>1. /\ requests' = [requests EXCEPT ![m] = q]
        /\ UNCHANGED <<admin, worked, tokens, dismissed>>
    BY <1>1, <1>3 DEF ReadForUpdate, ManagerInv, TypeOK, Request
  <2>2. existing \in [role: Roles, active: BOOLEAN, tokenVersion: Nat]
    BY <1>1 DEF Read, ManagerInv, TypeOK, Admin
  <2>3. q \in Request
    BY <1>1, <2>2 DEF Request
  <2>4. /\ q.pc = pc /\ q.actor = old.actor /\ q.actorRole = old.actorRole
        /\ q.target = old.target /\ q.dto = old.dto /\ q.existing = existing
    BY <1>1 DEF Request
  <2>5. ActorStands(q)
    BY <1>1, <2>4 DEF ManagerInv, ActorStands
  <2>6. TargetStands(q)
    BY <1>3, <2>4 DEF TargetStands, UpdateAllowed, EndsOwnership, Read
  <2>7. q.pc \notin {"issueToken", "work"}
    BY <2>4
  <2> HIDE DEF q
  <2> QED BY <2>1, <2>3, <2>5, <2>6, <2>7, ManagerMoves
<1> QED BY <1>2, <1>3

LEMMA AssertNotLastOwnerKeepsInv ==
    ASSUME NEW m, Managers = {m}, ManagerInv(m), AssertNotLastOwner(m)
    PROVE  ManagerInv(m)'
<1> DEFINE old == requests[m]
           q == [old EXCEPT !.pc = "update"]
<1>1. old \in Request /\ old.pc = "lastOwner"
  BY ManagerTypes DEF AssertNotLastOwner
<1>2. CASE \E a \in Admins \ {old.target} : ActiveOwner(a)
  <2>1. /\ requests' = [requests EXCEPT ![m] = q]
        /\ UNCHANGED <<admin, worked, tokens, dismissed>>
    BY <1>1, <1>2 DEF AssertNotLastOwner, Goto, ManagerInv, TypeOK, Request
  <2>2. q \in Request
    BY <1>1 DEF Request
  <2>3. /\ q.pc = "update" /\ q.actor = old.actor
        /\ q.actorRole = old.actorRole /\ q.target = old.target
        /\ q.dto = old.dto /\ q.existing = old.existing
    BY <1>1 DEF Request
  <2>4. ActorStands(q)
    BY <1>1, <2>3 DEF ManagerInv, ActorStands
  <2>5. TargetStands(q)
    BY <1>1, <1>2, <2>3 DEF ManagerInv, TargetStands
  <2> HIDE DEF q
  <2> QED BY <2>1, <2>2, <2>3, <2>4, <2>5, ManagerMoves
<1>3. CASE ~ \E a \in Admins \ {old.target} : ActiveOwner(a)
  <2>1. Finish(m) /\ UNCHANGED <<admin, worked, tokens, dismissed>>
    BY <1>3 DEF AssertNotLastOwner
  <2> QED BY <2>1, FinishKeepsInv
<1> QED BY <1>2, <1>3

LEMMA ReadForDeleteKeepsInv ==
    ASSUME NEW m, Managers = {m}, ManagerInv(m), ReadForDelete(m)
    PROVE  ManagerInv(m)'
<1> DEFINE old == requests[m]
           existing == Read(old.target)
           allowed == /\ Stored(old.target)
                      /\ existing.role = "OWNER" => old.actorRole = "OWNER"
                      /\ ~existing.active
           q == [old EXCEPT !.pc = "activity", !.existing = existing]
<1>1. old \in Request /\ old.pc = "readDelete" /\ old.target \in Admins
  BY ManagerTypes DEF ReadForDelete, ManagerInv, ActorStands
<1>2. CASE ~allowed
  <2>1. Finish(m) /\ UNCHANGED <<admin, worked, tokens, dismissed>>
    BY <1>2 DEF ReadForDelete
  <2> QED BY <2>1, FinishKeepsInv
<1>3. CASE allowed
  <2>1. /\ requests' = [requests EXCEPT ![m] = q]
        /\ UNCHANGED <<admin, worked, tokens, dismissed>>
    BY <1>1, <1>3 DEF ReadForDelete, ManagerInv, TypeOK, Request
  <2>2. existing \in [role: Roles, active: BOOLEAN, tokenVersion: Nat]
    BY <1>1 DEF Read, ManagerInv, TypeOK, Admin
  <2>3. q \in Request
    BY <1>1, <2>2 DEF Request
  <2>4. /\ q.pc = "activity" /\ q.actor = old.actor
        /\ q.actorRole = old.actorRole /\ q.target = old.target
        /\ q.dto = old.dto /\ q.existing = existing
    BY <1>1 DEF Request
  <2>5. ActorStands(q)
    BY <1>1, <2>4 DEF ManagerInv, ActorStands
  <2>6. TargetStands(q)
    BY <1>3, <2>4 DEF TargetStands, Read
  <2> HIDE DEF q
  <2> QED BY <2>1, <2>3, <2>4, <2>5, <2>6, ManagerMoves
<1> QED BY <1>2, <1>3

LEMMA AdminHasActivityKeepsInv ==
    ASSUME NEW m, Managers = {m}, ManagerInv(m), AdminHasActivity(m)
    PROVE  ManagerInv(m)'
<1> DEFINE old == requests[m]
           q == [old EXCEPT !.pc = "delete"]
<1>1. old \in Request /\ old.pc = "activity"
  BY ManagerTypes DEF AdminHasActivity
<1>2. CASE old.target \notin worked
  <2>1. /\ requests' = [requests EXCEPT ![m] = q]
        /\ UNCHANGED <<admin, worked, tokens, dismissed>>
    BY <1>1, <1>2 DEF AdminHasActivity, Goto, ManagerInv, TypeOK, Request
  <2>2. q \in Request
    BY <1>1 DEF Request
  <2>3. /\ q.pc = "delete" /\ q.actor = old.actor
        /\ q.actorRole = old.actorRole /\ q.target = old.target
        /\ q.dto = old.dto /\ q.existing = old.existing
    BY <1>1 DEF Request
  <2>4. ActorStands(q)
    BY <1>1, <2>3 DEF ManagerInv, ActorStands
  <2>5. TargetStands(q)
    BY <1>1, <2>3 DEF ManagerInv, TargetStands
  <2> HIDE DEF q
  <2> QED BY <2>1, <2>2, <2>3, <2>4, <2>5, ManagerMoves
<1>3. CASE old.target \in worked
  <2>1. Finish(m) /\ UNCHANGED <<admin, worked, tokens, dismissed>>
    BY <1>3 DEF AdminHasActivity
  <2> QED BY <2>1, FinishKeepsInv
<1> QED BY <1>2, <1>3

\* At the write the account is as it was read, so an owner that loses the role
\* or is disabled leaves another one behind, and a version moves on whenever
\* a session is dismissed.
LEMMA UpdateAdminKeepsInv ==
    ASSUME NEW m, Managers = {m}, ManagerInv(m), UpdateAdmin(m)
    PROVE  ManagerInv(m)'
<1> DEFINE q == requests[m]
           x == q.target
           new == Updated(x, q.dto, EndsSessions(q))
<1>1. q \in Request /\ q.pc = "update" /\ x \in Admins /\ Stored(x)
  BY ManagerTypes DEF UpdateAdmin, ManagerInv, ActorStands, TargetStands
<1>2. admin \in [Admins -> Admin] /\ admin[x] \in Admin
  BY <1>1 DEF ManagerInv, TypeOK
<1>3. q.dto \in Dto
  BY <1>1 DEF Request
<1>4. /\ new.state = admin[x].state
      /\ new.role = IF q.dto.role = None THEN admin[x].role ELSE q.dto.role
      /\ new.active = IF q.dto.active = None THEN admin[x].active
                                             ELSE q.dto.active
      /\ new.tokenVersion = IF EndsSessions(q) THEN admin[x].tokenVersion + 1
                                               ELSE admin[x].tokenVersion
      /\ new \in Admin
  <2> DEFINE role == IF q.dto.role = None THEN admin[x].role ELSE q.dto.role
             active == IF q.dto.active = None THEN admin[x].active
                                              ELSE q.dto.active
             version == IF EndsSessions(q) THEN admin[x].tokenVersion + 1
                                           ELSE admin[x].tokenVersion
  <2>1. role \in Roles /\ active \in BOOLEAN /\ version \in Nat
    BY <1>2, <1>3 DEF Admin, Dto
  <2>2. new = [admin[x] EXCEPT !.role = role, !.active = active,
                               !.tokenVersion = version]
    BY DEF Updated
  <2> HIDE DEF role, active, version, new
  <2>3. /\ new.state = admin[x].state /\ new.role = role
        /\ new.active = active /\ new.tokenVersion = version
        /\ new \in Admin
    BY <2>1, <2>2, <1>2 DEF Admin
  <2> QED BY <2>3 DEF role, active, version
<1>5. /\ admin' = [admin EXCEPT ![x] = new]
      /\ dismissed' = IF Dismisses(x, new) THEN dismissed \cup TokensOf(x)
                                           ELSE dismissed
      /\ Finish(m) /\ UNCHANGED <<worked, tokens>>
  BY <1>1 DEF UpdateAdmin
<1>6. q.existing = Read(x)
  BY <1>1 DEF ManagerInv, TargetStands
<1> HIDE DEF new
<1>7. admin' \in [Admins -> Admin] /\ admin'[x] = new
      /\ \A a \in Admins \ {x} : admin'[a] = admin[a]
  BY <1>1, <1>2, <1>4, <1>5
<1>8. \A a \in Admins :
         /\ admin[a].state # "unknown" => admin'[a].state # "unknown"
         /\ admin[a].tokenVersion <= admin'[a].tokenVersion
  BY <1>1, <1>2, <1>4, <1>7 DEF Admin
<1>9. SomeOwnerIsActive'
  <2>1. CASE EndsOwnership(q, q.existing)
    <3>1. PICK a \in Admins \ {x} : ActiveOwner(a)
      BY <1>1, <2>1 DEF ManagerInv, TargetStands
    <3> QED BY <3>1, <1>7 DEF SomeOwnerIsActive, ActiveOwner, Stored
  <2>2. CASE ~EndsOwnership(q, q.existing)
    <3>1. PICK a \in Admins : ActiveOwner(a)
      BY DEF ManagerInv, SomeOwnerIsActive
    <3>2. CASE a # x
      BY <3>1, <3>2, <1>7 DEF SomeOwnerIsActive, ActiveOwner, Stored
    <3>3. CASE a = x
      <4>1. admin[x].role = "OWNER" /\ admin[x].active
        BY <3>1, <3>3 DEF ActiveOwner
      <4>2a. q.existing.role = "OWNER"
        BY <4>1, <1>6 DEF Read
      <4>2. q.dto.role \in {None, "OWNER"} /\ q.dto.active # FALSE
        BY <2>2, <4>2a, Zenon DEF EndsOwnership
      <4>3. new.role = "OWNER"
        BY <1>4, <4>1, <4>2
      <4>4. q.dto.active \in {TRUE, None}
        BY <1>3, <4>2 DEF Dto
      <4>5. new.active
        BY <1>4, <4>1, <4>4
      <4>6. new.state = "stored"
        BY <1>1, <1>4 DEF Stored
      <4> QED BY <1>1, <1>7, <4>3, <4>5, <4>6
              DEF SomeOwnerIsActive, ActiveOwner, Stored
    <3> QED BY <3>2, <3>3
  <2> QED BY <2>1, <2>2
<1>10. Dismisses(x, new) => EndsSessions(q)
  <2>1. admin[x].active /\ ~new.active => q.dto.active = FALSE
    BY <1>3, <1>4 DEF Dto
  <2>2. admin[x].role # new.role => q.dto.role \notin {None, admin[x].role}
    BY <1>4
  <2> QED BY <2>1, <2>2, <1>6 DEF Dismisses, EndsSessions, Read
<1>11. tokens \subseteq Token /\ dismissed \subseteq tokens
  BY DEF ManagerInv, TypeOK
<1>12. dismissed' \subseteq tokens'
  BY <1>5, <1>11 DEF TokensOf
<1>13. SessionsInv'
  <2>1. \A t \in tokens' : /\ admin'[t.sub].state # "unknown"
                           /\ t.tokenVersion <= admin'[t.sub].tokenVersion
    <3> SUFFICES ASSUME NEW t \in tokens
                 PROVE  /\ admin'[t.sub].state # "unknown"
                        /\ t.tokenVersion <= admin'[t.sub].tokenVersion
      BY <1>5
    <3>1. t.sub \in Admins /\ t.tokenVersion \in Nat
      BY <1>11 DEF Token
    <3>2. admin[t.sub].tokenVersion \in Nat /\ admin'[t.sub].tokenVersion \in Nat
      BY <3>1, <1>2, <1>7 DEF Admin
    <3>3. /\ admin[t.sub].state # "unknown"
          /\ t.tokenVersion <= admin[t.sub].tokenVersion
      BY DEF ManagerInv, SessionsInv
    <3> QED BY <3>1, <3>2, <3>3, <1>8
  <2>2. \A t \in dismissed' : t.tokenVersion < admin'[t.sub].tokenVersion
    <3> SUFFICES ASSUME NEW t \in dismissed'
                 PROVE  t.tokenVersion < admin'[t.sub].tokenVersion
      OBVIOUS
    <3>1. t \in tokens /\ t.sub \in Admins /\ t.tokenVersion \in Nat
      BY <1>12, <1>5, <1>11 DEF Token
    <3>2. admin[t.sub].tokenVersion \in Nat /\ admin'[t.sub].tokenVersion \in Nat
      BY <3>1, <1>2, <1>7 DEF Admin
    <3>3. CASE t \in dismissed
      <4>1. t.tokenVersion < admin[t.sub].tokenVersion
        BY <3>3 DEF ManagerInv, SessionsInv
      <4> QED BY <4>1, <3>1, <3>2, <1>8
    <3>4. CASE t \notin dismissed
      <4>1. t.sub = x /\ EndsSessions(q)
        BY <3>4, <1>5, <1>10 DEF TokensOf
      <4>2. t.tokenVersion <= admin[x].tokenVersion
        BY <3>1, <4>1 DEF ManagerInv, SessionsInv
      <4>3. admin'[x].tokenVersion = admin[x].tokenVersion + 1
        BY <4>1, <1>4, <1>7
      <4> QED BY <3>1, <3>2, <4>1, <4>2, <4>3
    <3> QED BY <3>3, <3>4
  <2> QED BY <2>1, <2>2 DEF SessionsInv
<1>14. tokens' \subseteq Token /\ worked' = worked /\ Finish(m)
  BY <1>5, <1>11
<1> QED BY <1>7, <1>8, <1>9, <1>12, <1>13, <1>14, ManagerFinishes

LEMMA DeleteAdminKeepsInv ==
    ASSUME NEW m, Managers = {m}, ManagerInv(m), DeleteAdmin(m)
    PROVE  ManagerInv(m)'
<1> DEFINE x == requests[m].target
           new == [admin[x] EXCEPT !.state = "deleted"]
<1>1. x \in Admins /\ Stored(x) /\ ~admin[x].active
  BY DEF DeleteAdmin, ManagerInv, ActorStands, TargetStands
<1>2. admin \in [Admins -> Admin] /\ tokens \subseteq Token
      /\ dismissed \subseteq tokens
  BY DEF ManagerInv, TypeOK
<1>3. /\ admin' = [admin EXCEPT ![x] = new]
      /\ Finish(m) /\ UNCHANGED <<worked, tokens, dismissed>>
  BY <1>1, <1>2 DEF DeleteAdmin
<1>4. /\ new \in Admin /\ new.state = "deleted"
      /\ new.tokenVersion = admin[x].tokenVersion
  BY <1>1, <1>2 DEF Admin
<1> HIDE DEF new
<1>5. admin' \in [Admins -> Admin] /\ admin'[x] = new
      /\ \A a \in Admins \ {x} : admin'[a] = admin[a]
  BY <1>1, <1>2, <1>3, <1>4
<1>6. \A a \in Admins :
         /\ admin[a].state # "unknown" => admin'[a].state # "unknown"
         /\ admin[a].tokenVersion = admin'[a].tokenVersion
         /\ admin[a].tokenVersion \in Nat
  BY <1>2, <1>4, <1>5 DEF Admin
<1>7. SomeOwnerIsActive'
  <2>1. PICK a \in Admins : ActiveOwner(a)
    BY DEF ManagerInv, SomeOwnerIsActive
  <2>2. a # x
    BY <2>1, <1>1 DEF ActiveOwner
  <2> QED BY <2>1, <2>2, <1>5 DEF SomeOwnerIsActive, ActiveOwner, Stored
<1>8. SessionsInv'
  BY <1>2, <1>3, <1>6 DEF ManagerInv, SessionsInv, Token
<1>9. \A a \in Admins : admin[a].state # "unknown" =>
         /\ admin'[a].state # "unknown"
         /\ admin[a].tokenVersion <= admin'[a].tokenVersion
  BY <1>6
<1> QED BY <1>2, <1>3, <1>5, <1>7, <1>8, <1>9, ManagerFinishes

\* An account that has just been registered has no earlier token.
LEMMA CreateAdminKeepsInv ==
    ASSUME NEW m, Managers = {m}, ManagerInv(m), CreateAdmin(m)
    PROVE  ManagerInv(m)'
<1> DEFINE x == requests[m].target
           new == Account(requests[m].dto.role)
           token == [sub |-> x, tokenVersion |-> 0]
<1>1. x \in Admins /\ requests[m].dto.role \in Roles
  BY DEF CreateAdmin, ManagerInv, ActorStands, TargetStands
<1>2. admin \in [Admins -> Admin] /\ tokens \subseteq Token
      /\ dismissed \subseteq tokens
  BY DEF ManagerInv, TypeOK
<1>3. CASE admin[x].state # "unknown"
  <2>1. Finish(m) /\ UNCHANGED <<admin, worked, tokens, dismissed>>
    BY <1>3 DEF CreateAdmin
  <2> QED BY <2>1, FinishKeepsInv
<1>4. CASE admin[x].state = "unknown"
  <2>1. /\ admin' = [admin EXCEPT ![x] = new]
        /\ tokens' = tokens \cup {token}
        /\ Finish(m) /\ UNCHANGED <<worked, dismissed>>
    BY <1>4 DEF CreateAdmin
  <2>2. new \in Admin /\ new.state = "stored" /\ new.tokenVersion = 0
    BY <1>1 DEF Account, Admin
  <2>3. token \in Token /\ token.sub = x /\ token.tokenVersion = 0
    BY <1>1 DEF Token
  <2> HIDE DEF new, token
  <2>4. admin' \in [Admins -> Admin] /\ admin'[x] = new
        /\ \A a \in Admins \ {x} : admin'[a] = admin[a]
    BY <1>1, <1>2, <2>1, <2>2
  <2>5. \A t \in tokens : t.sub # x /\ t.sub \in Admins
    BY <1>2, <1>4 DEF ManagerInv, SessionsInv, Token
  <2>6. SessionsInv'
    BY <1>1, <1>2, <2>1, <2>2, <2>3, <2>4, <2>5 DEF ManagerInv, SessionsInv
  <2>7. SomeOwnerIsActive'
    <3>1. PICK a \in Admins : ActiveOwner(a)
      BY DEF ManagerInv, SomeOwnerIsActive
    <3>2. a # x
      BY <3>1, <1>4 DEF ActiveOwner, Stored
    <3> QED BY <3>1, <3>2, <2>4 DEF SomeOwnerIsActive, ActiveOwner, Stored
  <2>8. \A a \in Admins : admin[a].state # "unknown" =>
           /\ admin'[a].state # "unknown"
           /\ admin[a].tokenVersion <= admin'[a].tokenVersion
    <3> SUFFICES ASSUME NEW a \in Admins, admin[a].state # "unknown"
                 PROVE  /\ admin'[a].state # "unknown"
                        /\ admin[a].tokenVersion <= admin'[a].tokenVersion
      OBVIOUS
    <3>1. a # x /\ admin[a].tokenVersion \in Nat
      BY <1>2, <1>4 DEF Admin
    <3> QED BY <3>1, <2>4
  <2>9. tokens' \subseteq Token /\ dismissed' \subseteq tokens'
    BY <1>2, <2>1, <2>3
  <2> QED BY <2>1, <2>4, <2>6, <2>7, <2>8, <2>9, ManagerFinishes
<1> QED BY <1>3, <1>4

-----------------------------------------------------------------------------
(* The steps of clients *)

LEMMA StartLoginKeepsInv ==
    ASSUME NEW m, Managers = {m}, ManagerInv(m),
           NEW c \in Clients, NEW a \in Admins, StartLogin(c, a)
    PROVE  ManagerInv(m)'
<1> DEFINE old == requests[c]
           q == [old EXCEPT !.pc = "issueToken", !.target = a,
                            !.existing = Read(a)]
<1>1. old \in Request /\ admin[a] \in Admin /\ Stored(a)
  BY DEF ManagerInv, TypeOK, StartLogin
<1>2. Read(a) \in [role: Roles, active: BOOLEAN, tokenVersion: Nat]
      /\ Read(a).tokenVersion = admin[a].tokenVersion
  BY <1>1 DEF Read, Admin
<1>3. /\ requests' = [requests EXCEPT ![c] = q]
      /\ UNCHANGED <<admin, worked, tokens, dismissed>>
  BY <1>1 DEF StartLogin, ManagerInv, TypeOK, Request
<1>4. /\ q \in Request /\ q.pc = "issueToken" /\ q.target = a
      /\ q.existing = Read(a)
  BY <1>1, <1>2 DEF Request
<1>5. admin[a].tokenVersion \in Nat
  BY <1>1 DEF Admin
<1> HIDE DEF q
<1>6. ClientStands(q)
  BY <1>1, <1>2, <1>4, <1>5 DEF ClientStands, Stored
<1>7. SessionsInv' /\ tokens' \subseteq Token /\ worked' \subseteq Admins
  BY <1>3 DEF ManagerInv, SessionsInv, TypeOK
<1> QED BY <1>3, <1>4, <1>6, <1>7, ClientMoves

LEMMA IssueTokenKeepsInv ==
    ASSUME NEW m, Managers = {m}, ManagerInv(m),
           NEW c \in Clients, IssueToken(c)
    PROVE  ManagerInv(m)'
<1> DEFINE old == requests[c]
           token == [sub |-> old.target,
                     tokenVersion |-> old.existing.tokenVersion]
<1>1. /\ old \in Request /\ old.target \in Admins
      /\ admin[old.target].state # "unknown"
      /\ old.existing.tokenVersion <= admin[old.target].tokenVersion
  BY DEF ManagerInv, TypeOK, IssueToken, ClientStands
<1>2. IdleRequest \in Request
  BY AccountsAssumption
  DEF IdleRequest, Request, NoDto, Dto, NothingRead, Roles
<1>3. ClientStands(IdleRequest)
  BY DEF ClientStands, IdleRequest
<1>4. /\ requests' = [requests EXCEPT ![c] = IdleRequest]
      /\ tokens' = tokens \cup {token}
      /\ UNCHANGED <<admin, worked, dismissed>>
  BY DEF IssueToken, Finish
<1>5. token \in Token /\ token.sub = old.target
      /\ token.tokenVersion = old.existing.tokenVersion
  BY <1>1 DEF Token, Request
<1> HIDE DEF token
<1>6. SessionsInv'
  BY <1>1, <1>4, <1>5 DEF ManagerInv, SessionsInv
<1>7. tokens' \subseteq Token /\ worked' \subseteq Admins
      /\ tokens \subseteq tokens'
  BY <1>4, <1>5 DEF ManagerInv, TypeOK
<1> QED BY <1>2, <1>3, <1>4, <1>6, <1>7, ClientMoves

LEMMA StartWorkKeepsInv ==
    ASSUME NEW m, Managers = {m}, ManagerInv(m),
           NEW c \in Clients, NEW token \in tokens, StartWork(c, token)
    PROVE  ManagerInv(m)'
<1> DEFINE q == [pc |-> "work", actor |-> token.sub,
                 actorRole |-> admin[token.sub].role, target |-> None,
                 dto |-> NoDto, existing |-> NothingRead]
<1>1. token.sub \in Admins /\ admin[token.sub].role \in Roles
  BY DEF ManagerInv, TypeOK, Token, Admin
<1>2. q \in Request /\ q.pc = "work" /\ q.actor = token.sub
  BY <1>1 DEF Request, NothingRead, NoDto, Dto, Roles
<1>3. /\ requests' = [requests EXCEPT ![c] = q]
      /\ UNCHANGED <<admin, worked, tokens, dismissed>>
  BY DEF StartWork, Authenticated
<1> HIDE DEF q
<1>4. ClientStands(q)
  BY <1>1, <1>2 DEF ClientStands
<1>5. SessionsInv' /\ tokens' \subseteq Token /\ worked' \subseteq Admins
  BY <1>3 DEF ManagerInv, SessionsInv, TypeOK
<1> QED BY <1>2, <1>3, <1>4, <1>5, ClientMoves

LEMMA WorkKeepsInv ==
    ASSUME NEW m, Managers = {m}, ManagerInv(m), NEW c \in Clients, Work(c)
    PROVE  ManagerInv(m)'
<1>1. IdleRequest \in Request
  BY AccountsAssumption
  DEF IdleRequest, Request, NoDto, Dto, NothingRead, Roles
<1>2. ClientStands(IdleRequest)
  BY DEF ClientStands, IdleRequest
<1>3. /\ requests' = [requests EXCEPT ![c] = IdleRequest]
      /\ UNCHANGED <<admin, tokens, dismissed>>
  BY DEF Work, Finish
<1>4. requests[c].actor \in Admins
  BY DEF Work, ManagerInv, ClientStands
<1>5. SessionsInv' /\ tokens' \subseteq Token /\ worked' \subseteq Admins
  BY <1>3, <1>4 DEF ManagerInv, SessionsInv, TypeOK, Work
<1> QED BY <1>1, <1>2, <1>3, <1>5, ClientMoves

-----------------------------------------------------------------------------
(* The theorems *)

LEMMA StartsKeepInv ==
    ASSUME NEW m, Managers = {m}, ManagerInv(m),
           NEW token \in tokens, NEW target \in Admins,
           \/ \E dto \in Dto : StartUpdate(m, token, target, dto)
           \/ StartDelete(m, token, target)
           \/ \E role \in Roles : StartRegister(m, token, target, role)
    PROVE  ManagerInv(m)'
<1>1. ASSUME NEW dto \in Dto, StartUpdate(m, token, target, dto)
      PROVE  ManagerInv(m)'
  <2>1. Authenticated(m, token, ManagerRoles, "readUpdate", target, dto)
    BY <1>1 DEF StartUpdate
  <2> QED BY <2>1, AuthenticatedKeepsInv
<1>2. ASSUME StartDelete(m, token, target)
      PROVE  ManagerInv(m)'
  <2>1. Authenticated(m, token, ManagerRoles, "readDelete", target, NoDto)
    BY <1>2 DEF StartDelete
  <2>2. NoDto \in Dto
    BY DEF NoDto, Dto
  <2> QED BY <2>1, <2>2, AuthenticatedKeepsInv
<1>3. ASSUME NEW role \in Roles, StartRegister(m, token, target, role)
      PROVE  ManagerInv(m)'
  <2> DEFINE dto == [NoDto EXCEPT !.role = role]
  <2>1. Authenticated(m, token, ManagerRoles, "create", target, dto)
    BY <1>3 DEF StartRegister
  <2>2. dto \in Dto /\ dto.role = role
    BY DEF NoDto, Dto
  <2>3. role \in ManagerRoles => admin[token.sub].role = "OWNER"
    BY <1>3 DEF StartRegister
  <2> HIDE DEF dto
  <2> QED BY <2>1, <2>2, <2>3, AuthenticatedKeepsInv
<1> QED BY <1>1, <1>2, <1>3

LEMMA NextKeepsManagerInv ==
    ASSUME NEW m, Managers = {m}, ManagerInv(m), [Next]_vars
    PROVE  ManagerInv(m)'
<1>1. ASSUME ManagerStep(m)
      PROVE  ManagerInv(m)'
  BY <1>1, StartsKeepInv, ReadForUpdateKeepsInv, AssertNotLastOwnerKeepsInv,
     UpdateAdminKeepsInv, ReadForDeleteKeepsInv, AdminHasActivityKeepsInv,
     DeleteAdminKeepsInv, CreateAdminKeepsInv
  DEF ManagerStep
<1>2. ASSUME NEW c \in Clients, ClientStep(c)
      PROVE  ManagerInv(m)'
  BY <1>2, StartLoginKeepsInv, IssueTokenKeepsInv, StartWorkKeepsInv,
     WorkKeepsInv
  DEF ClientStep
<1>3. ASSUME UNCHANGED vars
      PROVE  ManagerInv(m)'
  BY <1>3 DEF vars, ManagerInv, TypeOK, SomeOwnerIsActive, ActiveOwner, Stored,
     ManagersStand, ClientStands, ActorStands, TargetStands, Read,
     EndsOwnership, SessionsInv
<1> QED BY <1>1, <1>2, <1>3 DEF Next

\* One request at a time administers accounts: then, whatever logins and work
\* go on beside it, the invariant holds of every account model.
THEOREM ManagerInvariant ==
    ASSUME NEW m, Managers = {m}
    PROVE  Spec => []ManagerInv(m)
<1>1. Init => ManagerInv(m)
  BY InitEstablishesManagerInv
<1>2. ManagerInv(m) /\ [Next]_vars => ManagerInv(m)'
  BY NextKeepsManagerInv
<1> QED BY <1>1, <1>2, PTL DEF Spec

\* Accounts, tokens and requests keep their types.
THEOREM TypesHold ==
    ASSUME NEW m, Managers = {m}
    PROVE  Spec => []TypeOK
<1>1. ManagerInv(m) => TypeOK
  BY DEF ManagerInv
<1> QED BY <1>1, ManagerInvariant, PTL

\* An active OWNER is always left (SECURITY.md:45).
THEOREM AnOwnerIsLeft ==
    ASSUME NEW m, Managers = {m}
    PROVE  Spec => []SomeOwnerIsActive
<1>1. ManagerInv(m) => SomeOwnerIsActive
  BY DEF ManagerInv
<1> QED BY <1>1, ManagerInvariant, PTL

\* A session ended by disabling its account or changing its role stays ended.
THEOREM DismissalIsFinal ==
    ASSUME NEW m, Managers = {m}
    PROVE  Spec => []DismissedSessionsStayOut
<1>1. ManagerInv(m) => DismissedSessionsStayOut
  <2> SUFFICES ASSUME ManagerInv(m), NEW t \in dismissed
               PROVE  ~Validates(t)
    BY DEF DismissedSessionsStayOut
  <2>1. t.sub \in Admins /\ t.tokenVersion \in Nat
    BY DEF ManagerInv, TypeOK, Token
  <2>2. admin[t.sub].tokenVersion \in Nat
    BY <2>1 DEF ManagerInv, TypeOK, Admin
  <2>3. t.tokenVersion < admin[t.sub].tokenVersion
    BY DEF ManagerInv, SessionsInv
  <2> QED BY <2>1, <2>2, <2>3 DEF Validates
<1> QED BY <1>1, ManagerInvariant, PTL

\* What OnlyOwnersRuleOverOwners asks of one account in a step.
OwnersRule(a) ==
    LET old == admin[a]
        new == admin'[a]
    IN  (/\ old # new
         /\ \/ old.state = "stored" /\ old.role = "OWNER"
            \/ new.role \in ManagerRoles
                  /\ (old.state # "stored" \/ old.role # new.role))
        => \E r \in Managers :
              /\ requests[r].pc \in {"update", "delete", "create"}
              /\ requests[r].target = a
              /\ ActiveOwner(requests[r].actor)

LEMMA WritesFollowOwnersRule ==
    ASSUME NEW m, Managers = {m}, ManagerInv(m), [Next]_vars,
           NEW a \in Admins
    PROVE  OwnersRule(a)
<1> DEFINE q == requests[m]
<1>1. admin \in [Admins -> Admin] /\ q \in Request
  BY ManagerTypes DEF ManagerInv, TypeOK
<1>2. ASSUME q.pc \in {"update", "delete", "create"}, q.target = a,
             q.actorRole = "OWNER"
      PROVE  OwnersRule(a)
  <2>1. ActiveOwner(q.actor)
    BY <1>2 DEF ManagerInv, ActorStands, ActiveOwner
  <2> QED BY <1>2, <2>1 DEF OwnersRule
<1>3. CASE UpdateAdmin(m)
  <2> DEFINE new == Updated(q.target, q.dto, EndsSessions(q))
  <2>1. q.pc = "update" /\ Stored(q.target) /\ q.target \in Admins
    BY <1>3 DEF UpdateAdmin, ManagerInv, ActorStands, TargetStands
  <2>2. admin' = [admin EXCEPT ![q.target] = new]
    BY <1>3, <2>1 DEF UpdateAdmin
  <2>3. new.role = IF q.dto.role = None THEN admin[q.target].role
                                        ELSE q.dto.role
    BY <1>1, <2>1 DEF Updated, Admin
  <2>4. /\ admin[q.target].role = "OWNER" => q.actorRole = "OWNER"
        /\ q.dto.role \in ManagerRoles => q.actorRole = "OWNER"
    BY <2>1 DEF ManagerInv, TargetStands
  <2> HIDE DEF new
  <2>5. CASE q.target # a
    BY <1>1, <2>2, <2>5 DEF OwnersRule
  <2>6. CASE q.target = a /\ q.actorRole = "OWNER"
    BY <1>2, <2>1, <2>6
  <2>7. CASE q.target = a /\ q.actorRole # "OWNER"
    <3>1. admin'[a] = new
      BY <1>1, <2>2, <2>7
    <3>2. admin[a].role # "OWNER" /\ admin[a].state = "stored"
      BY <2>1, <2>4, <2>7 DEF Stored
    <3>3. new.role \in ManagerRoles => new.role = admin[a].role
      BY <2>3, <2>4, <2>7
    <3> QED BY <3>1, <3>2, <3>3 DEF OwnersRule
  <2> QED BY <2>5, <2>6, <2>7
<1>4. CASE DeleteAdmin(m)
  <2> DEFINE new == [admin[q.target] EXCEPT !.state = "deleted"]
  <2>1. q.pc = "delete" /\ Stored(q.target) /\ q.target \in Admins
    BY <1>4 DEF DeleteAdmin, ManagerInv, ActorStands, TargetStands
  <2>2. admin' = [admin EXCEPT ![q.target] = new]
    BY <1>1, <1>4, <2>1 DEF DeleteAdmin
  <2>3. new.role = admin[q.target].role
    BY <1>1, <2>1 DEF Admin
  <2>4. admin[q.target].role = "OWNER" => q.actorRole = "OWNER"
    BY <2>1 DEF ManagerInv, TargetStands
  <2> HIDE DEF new
  <2>5. CASE q.target # a
    BY <1>1, <2>2, <2>5 DEF OwnersRule
  <2>6. CASE q.target = a /\ q.actorRole = "OWNER"
    BY <1>2, <2>1, <2>6
  <2>7. CASE q.target = a /\ q.actorRole # "OWNER"
    <3>1. admin'[a] = new
      BY <1>1, <2>2, <2>7
    <3> QED BY <3>1, <2>1, <2>3, <2>4, <2>7 DEF OwnersRule, Stored
  <2> QED BY <2>5, <2>6, <2>7
<1>5. CASE CreateAdmin(m)
  <2> DEFINE new == Account(q.dto.role)
  <2>1. /\ q.pc = "create" /\ q.target \in Admins
        /\ q.dto.role \in ManagerRoles => q.actorRole = "OWNER"
    BY <1>5 DEF CreateAdmin, ManagerInv, ActorStands, TargetStands
  <2>2. CASE admin[q.target].state # "unknown"
    BY <1>5, <2>2 DEF CreateAdmin, OwnersRule
  <2>3. CASE admin[q.target].state = "unknown"
    <3>1. admin' = [admin EXCEPT ![q.target] = new]
      BY <1>5, <2>3 DEF CreateAdmin
    <3>2. new.role = q.dto.role
      BY DEF Account
    <3> HIDE DEF new
    <3>3. CASE q.target # a
      BY <1>1, <3>1, <3>3 DEF OwnersRule
    <3>4. CASE q.target = a /\ q.actorRole = "OWNER"
      BY <1>2, <2>1, <3>4
    <3>5. CASE q.target = a /\ q.actorRole # "OWNER"
      <4>1. admin'[a] = new
        BY <1>1, <3>1, <3>5
      <4> QED BY <4>1, <2>1, <2>3, <3>2, <3>5 DEF OwnersRule
    <3> QED BY <3>3, <3>4, <3>5
  <2> QED BY <2>2, <2>3
<1>6. CASE UNCHANGED admin
  BY <1>6 DEF OwnersRule
<1>7. \/ UpdateAdmin(m) \/ DeleteAdmin(m) \/ CreateAdmin(m)
      \/ UNCHANGED admin
  BY ZenonT(60) DEF Next, vars, ManagerStep, ClientStep, StartUpdate, StartDelete,
         StartRegister, Authenticated, ReadForUpdate, AssertNotLastOwner,
         ReadForDelete, AdminHasActivity, StartLogin, IssueToken, StartWork,
         Work
<1> QED BY <1>3, <1>4, <1>5, <1>6, <1>7

\* Only an active OWNER changes an OWNER account or makes an OWNER or a
\* SUPER_ADMIN (SECURITY.md:46-47), judged when the write happens.
THEOREM OwnersAloneRuleOverOwners ==
    ASSUME NEW m, Managers = {m}
    PROVE  Spec => OnlyOwnersRuleOverOwners
<1>1. ManagerInv(m) /\ [Next]_vars => [\A a \in Admins : OwnersRule(a)]_vars
  BY WritesFollowOwnersRule
<1>2. Spec => [][\A a \in Admins : OwnersRule(a)]_vars
  BY <1>1, ManagerInvariant, PTL DEF Spec
<1> QED BY <1>2 DEF OnlyOwnersRuleOverOwners, OwnersRule

=============================================================================
