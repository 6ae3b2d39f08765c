------------------------ MODULE SigningKeys_proofs ------------------------
(***************************************************************************)
(* Proofs about SigningKeys, for any number of requests, rotations and     *)
(* failures.  The three writers of the table (a first issuance, a rotation *)
(* and the script) are described once, by what becomes of the set of keys, *)
(* of those that are active and of the newest one; every invariant is then *)
(* an argument about these.                                                *)
(***************************************************************************)
EXTENDS SigningKeys, SequenceTheorems, TLAPS

-----------------------------------------------------------------------------
(* What the writers of the table do to it *)

\* A function on 1..n is a sequence of length n.
LEMMA Rewritten ==
    ASSUME NEW S, NEW n \in Nat, NEW f \in [1..n -> S]
    PROVE  f \in Seq(S) /\ Len(f) = n
<1>1. f \in Seq(S)
  BY SeqDef
<1>2. 1..Len(f) = 1..n /\ Len(f) \in Nat
  BY <1>1, LenProperties
<1> QED
  BY <1>1, <1>2

\* Appending keeps the elements and adds one.
LEMMA Appended ==
    ASSUME NEW S, NEW ks \in Seq(S), NEW e \in S
    PROVE  /\ Append(ks, e) \in Seq(S)
           /\ Len(ks) \in Nat
           /\ Len(Append(ks, e)) = Len(ks) + 1
           /\ \A k \in 1..Len(ks) : Append(ks, e)[k] = ks[k]
           /\ Append(ks, e)[Len(ks) + 1] = e
  BY LenProperties, AppendProperties

\* The newest active key is one of them.
LEMMA NewestIsActive ==
    \A k : Newest(k) => k \in Active /\ k \in Ids
  BY DEF Newest, Active

\* A first issuance adds an active key, which is the newest.
LEMMA Created ==
    ASSUME keys \in Seq(Key), NEW s \in Secrets,
           keys' = Append(keys, NewKey(s))
    PROVE  /\ keys' \in Seq(Key)
           /\ Len(keys) + 1 \notin Ids
           /\ Ids' = Ids \cup {Len(keys) + 1}
           /\ Active' = Active \cup {Len(keys) + 1}
           /\ Retired' = Retired
           /\ \A k : Newest(k)' => keys'[k].secret = s
<1>1. NewKey(s) \in Key /\ NewKey(s).active /\ NewKey(s).secret = s
  BY DEF NewKey, Key
<1>2. /\ keys' \in Seq(Key) /\ Len(keys) \in Nat
      /\ Len(keys') = Len(keys) + 1
      /\ \A k \in Ids : keys'[k] = keys[k]
      /\ keys'[Len(keys) + 1] = NewKey(s)
  BY <1>1, Appended DEF Ids
<1>3. Ids' = Ids \cup {Len(keys) + 1} /\ Len(keys) + 1 \notin Ids
  BY <1>2 DEF Ids
<1>4. Active' = Active \cup {Len(keys) + 1}
  BY <1>1, <1>2, <1>3 DEF Active
<1>5. Retired' = Retired
  BY <1>3, <1>4 DEF Retired, Active
<1>6. \A k : Newest(k)' => k = Len(keys) + 1
  BY <1>2, <1>4 DEF Newest, Active, Ids
<1> QED
  BY <1>1, <1>2, <1>3, <1>4, <1>5, <1>6

\* A rotation leaves the key it makes, and no other, active.
LEMMA Rotated ==
    ASSUME keys \in Seq(Key), NEW s \in Secrets,
           keys' = Append(Retire(Active), NewKey(s))
    PROVE  /\ keys' \in Seq(Key)
           /\ Len(keys) + 1 \notin Ids
           /\ Ids' = Ids \cup {Len(keys) + 1}
           /\ Active' = {Len(keys) + 1}
           /\ Retired' = Ids
           /\ \A k : Newest(k)' => keys'[k].secret = s
<1> DEFINE old == Retire(Active)
<1>1. NewKey(s) \in Key /\ NewKey(s).active /\ NewKey(s).secret = s
  BY DEF NewKey, Key
<1>2. keys \in [Ids -> Key] /\ Len(keys) \in Nat
  BY LenProperties DEF Ids
<1>3. old \in [Ids -> Key] /\ \A k \in Ids : ~old[k].active
  BY <1>2 DEF Retire, Active, Key
<1>4. old \in Seq(Key) /\ Len(old) = Len(keys)
  BY <1>2, <1>3, Rewritten DEF Ids
<1> HIDE DEF old
<1>5. /\ keys' \in Seq(Key)
      /\ Len(keys') = Len(keys) + 1
      /\ \A k \in Ids : keys'[k] = old[k]
      /\ keys'[Len(keys) + 1] = NewKey(s)
  BY <1>1, <1>4, Appended DEF Ids, old
<1>6. Ids' = Ids \cup {Len(keys) + 1} /\ Len(keys) + 1 \notin Ids
  BY <1>2, <1>5 DEF Ids
<1>7. Active' = {Len(keys) + 1}
  BY <1>1, <1>3, <1>5, <1>6 DEF Active
<1>8. Retired' = Ids
  BY <1>6, <1>7 DEF Retired
<1>9. \A k : Newest(k)' => k = Len(keys) + 1
  BY <1>7, NewestIsActive DEF Newest
<1> QED
  BY <1>1, <1>5, <1>6, <1>7, <1>8, <1>9

\* The script changes nothing but the secret, and that to the new one.
LEMMA Sealed ==
    ASSUME keys \in Seq(Key), Apply
    PROVE  /\ keys' \in Seq(Key)
           /\ Ids' = Ids
           /\ Active' = Active
           /\ Retired' = Retired
           /\ \A k \in Ids : keys'[k].secret \in {"new", keys[k].secret}
<1>1. keys \in [Ids -> Key] /\ Len(keys) \in Nat
  BY LenProperties DEF Ids
<1>2. /\ keys' \in [Ids -> Key]
      /\ \A k \in Ids : /\ keys'[k].active = keys[k].active
                        /\ keys'[k].secret \in {"new", keys[k].secret}
  BY <1>1 DEF Apply, Key, Secrets
<1>3. keys' \in Seq(Key) /\ Len(keys') = Len(keys)
  BY <1>1, <1>2, Rewritten DEF Ids
<1>4. Ids' = Ids
  BY <1>3 DEF Ids
<1>5. Active' = Active
  BY <1>2, <1>4 DEF Active
<1> QED
  BY <1>2, <1>3, <1>4, <1>5 DEF Retired

-----------------------------------------------------------------------------
(* Types *)

\* A request that will write a key has made it.
Made ==
    \A h \in Handlers :
        requests[h].pc \in {"create", "rotate", "commit"} =>
            requests[h].sealed \in Secrets

TypeInv == TypeOK /\ Made

\* Requests that stay well typed and made, with an unchanged table, keep the
\* type invariant.
LEMMA TypesStep == TypeInv /\ [Next]_vars => TypeInv'
<1> SUFFICES ASSUME TypeInv, [Next]_vars
             PROVE  TypeInv'
  OBVIOUS
<1> USE DEF TypeInv, TypeOK
<1>0. Len(keys) \in Nat /\ \A k \in Ids : keys[k] \in Key
  BY LenProperties DEF Ids
<1>1. ASSUME NEW h \in Handlers, FindKey(h)
      PROVE  TypeInv'
  <2>1. PICK k \in Ids : Becomes(h, [Idle EXCEPT !.pc = "sign",
                                                !.sealed = keys[k].secret])
    BY <1>1 DEF FindKey
  <2>2. keys[k].secret \in Secrets
    BY <1>0, <2>1 DEF Key
  <2>3. requests' \in [Handlers -> Request] /\ Made'
    BY <2>1, <2>2 DEF Becomes, Idle, Request, Made
  <2> QED
    BY <1>1, <2>3 DEF FindKey, operator, bounds, history, Ids
<1>2. ASSUME NEW h \in Handlers, FindNoKey(h)
      PROVE  TypeInv'
  BY <1>2 DEF FindNoKey, At, Becomes, Idle, Request, Made, operator, bounds,
       history, Ids
<1>3. ASSUME NEW h \in Handlers, CreateKey(h)
      PROVE  TypeInv'
  <2>1. requests[h].sealed \in Secrets
    BY <1>3 DEF CreateKey, Made, At
  <2>2. keys' \in Seq(Key) /\ Ids' = Ids \cup {Len(keys) + 1}
    BY <1>3, <2>1, Created DEF CreateKey
  <2>3. requests' \in [Handlers -> Request] /\ Made'
    BY <1>3 DEF CreateKey, Request, Made, At
  <2> QED
    BY <1>3, <2>2, <2>3 DEF CreateKey, operator, bounds, history
<1>4. ASSUME NEW h \in Handlers, AuditKey(h)
      PROVE  TypeInv'
  BY <1>4, SigningKeysAssumption
  DEF AuditKey, At, Fault, Request, Made, operator, history, Ids
<1>5. ASSUME NEW h \in Handlers, Sign(h)
      PROVE  TypeInv'
  BY <1>5 DEF Sign, At, Becomes, Idle, Request, Made, bounds, history, Ids
<1>6. ASSUME NEW h \in Handlers, SignFails(h)
      PROVE  TypeInv'
  BY <1>6 DEF SignFails, At, Becomes, Idle, Request, Made, bounds, history, Ids
<1>7. ASSUME NEW h \in Handlers, Rotate(h)
      PROVE  TypeInv'
  <2>1. requests' \in [Handlers -> Request] /\ Made'
    BY <1>7 DEF Rotate, Becomes, Idle, Request, Made
  <2>2. rotations' \in 0..MaxRotations
    BY <1>7, SigningKeysAssumption DEF Rotate
  <2> QED
    BY <1>7, <2>1, <2>2 DEF Rotate, operator, history, Ids
<1>8. ASSUME NEW h \in Handlers, LockAndFind(h)
      PROVE  TypeInv'
  <2>1. Active \subseteq Nat
    BY <1>0 DEF Active, Ids
  <2>2. requests' \in [Handlers -> Request] /\ Made'
    BY <1>8, <2>1 DEF LockAndFind, At, Becomes, Request, Made
  <2> QED
    BY <1>8, <2>2 DEF LockAndFind, operator, bounds, history, Ids
<1>9. ASSUME NEW h \in Handlers, Commit(h)
      PROVE  TypeInv'
  <2>1. requests[h].sealed \in Secrets
    BY <1>9 DEF Commit, Made, At
  <2>2. keys' \in Seq(Key) /\ Ids' = Ids \cup {Len(keys) + 1}
    BY <1>9, <2>1, Rotated DEF Commit
  <2>3. requests' \in [Handlers -> Request] /\ Made'
    BY <1>9 DEF Commit, Request, Made, At, Becomes, Idle
  <2>4. rotated' \subseteq [created: Nat, retired: SUBSET Nat]
    BY <1>0, <1>9 DEF Commit, Request
  <2>5. slipped' \subseteq Ids
    BY <1>9 DEF Commit, Active
  <2> QED
    BY <1>9, <2>2, <2>3, <2>4, <2>5 DEF Commit, operator, bounds, history
<1>10. ASSUME NEW h \in Handlers, Dies(h)
       PROVE  TypeInv'
  BY <1>10, SigningKeysAssumption
  DEF Dies, Fault, Becomes, Idle, Request, Made, operator, history, Ids
<1>11. CASE StartRunbook
  BY <1>11 DEF StartRunbook, Made, bounds, history, Ids
<1>12. CASE Plan
  BY <1>12 DEF Plan, Made, bounds, history, Ids
<1>13. CASE Apply
  BY <1>13, Sealed DEF Apply, Made, bounds, history
<1>14. CASE ScriptDies
  BY <1>14, SigningKeysAssumption DEF ScriptDies, Fault, Made, history, Ids
<1>15. CASE Restart
  BY <1>15 DEF Restart, Made, Idle, Request, Secrets, bounds, history, Ids
<1>16. CASE UNCHANGED vars
  BY <1>16 DEF vars, operator, bounds, history, Made, Ids
<1> QED
  BY <1>1, <1>2, <1>3, <1>4, <1>5, <1>6, <1>7, <1>8, <1>9, <1>10, <1>11,
     <1>12, <1>13, <1>14, <1>15, <1>16 DEF Next, Serve

LEMMA TypesAlways == Spec => []TypeInv
<1>1. Init => TypeInv
  BY SigningKeysAssumption
  DEF Init, TypeInv, TypeOK, Made, Idle, Request, Secrets, Ids
<1> QED
  BY <1>1, TypesStep, PTL DEF Spec

\* The state stays well formed: every key is sealed with the old or the new
\* secret, and the script plans for keys that exist.
THEOREM TypesHold == Spec => []TypeOK
  BY TypesAlways, PTL DEF TypeInv

-----------------------------------------------------------------------------
(* What the audit log says of the keys *)

\* A rotation that has looked at the keys holds the lock, and what it found is
\* still active.
Holder ==
    \A h \in Handlers :
        requests[h].pc = "commit" => lock = h /\ requests[h].found \subseteq Active

LogInv == Holder /\ RetirementsAreLogged

LEMMA LogKept ==
    ASSUME LogInv, Holder', Retired' = Retired,
           UNCHANGED <<rotated, slipped>>
    PROVE  LogInv'
  BY DEF LogInv, RetirementsAreLogged

LEMMA LogStep == TypeInv /\ LogInv /\ [Next]_vars => LogInv'
<1> SUFFICES ASSUME TypeInv, LogInv, [Next]_vars
             PROVE  LogInv'
  OBVIOUS
<1>0. keys \in Seq(Key) /\ requests \in [Handlers -> Request] /\ Holder
  BY DEF TypeInv, TypeOK, LogInv
<1>1. ASSUME UNCHANGED keys
      PROVE  Ids' = Ids /\ Active' = Active /\ Retired' = Retired
  BY <1>1 DEF Ids, Active, Retired
<1>2. ASSUME NEW h \in Handlers, FindKey(h)
      PROVE  LogInv'
  <2>1. Holder'
    BY <1>0, <1>1, <1>2 DEF Holder, FindKey, Becomes, Idle, Request
  <2> QED
    BY <1>1, <1>2, <2>1, LogKept DEF FindKey, history
<1>3. ASSUME NEW h \in Handlers, FindNoKey(h)
      PROVE  LogInv'
  <2>1. Holder'
    BY <1>0, <1>1, <1>3 DEF Holder, FindNoKey, Becomes, Idle, Request
  <2> QED
    BY <1>1, <1>3, <2>1, LogKept DEF FindNoKey, history
<1>4. ASSUME NEW h \in Handlers, CreateKey(h)
      PROVE  LogInv'
  <2>1. requests[h].sealed \in Secrets
    BY <1>4 DEF CreateKey, TypeInv, Made, At
  <2>2. Active' = Active \cup {Len(keys) + 1} /\ Retired' = Retired
    BY <1>0, <1>4, <2>1, Created DEF CreateKey
  <2>3. Holder'
    BY <1>0, <1>4, <2>2 DEF Holder, CreateKey, Request
  <2> QED
    BY <1>4, <2>2, <2>3, LogKept DEF CreateKey
<1>5. ASSUME NEW h \in Handlers, AuditKey(h)
      PROVE  LogInv'
  <2>1. Holder'
    BY <1>0, <1>1, <1>5 DEF Holder, AuditKey, Request
  <2> QED
    BY <1>1, <1>5, <2>1, LogKept DEF AuditKey, history
<1>6. ASSUME NEW h \in Handlers, Sign(h) \/ SignFails(h)
      PROVE  LogInv'
  <2>1. Holder'
    BY <1>0, <1>1, <1>6 DEF Holder, Sign, SignFails, Becomes, Idle, Request
  <2> QED
    BY <1>1, <1>6, <2>1, LogKept DEF Sign, SignFails, history
<1>7. ASSUME NEW h \in Handlers, Rotate(h)
      PROVE  LogInv'
  <2>1. Holder'
    BY <1>0, <1>1, <1>7 DEF Holder, Rotate, Becomes, Idle, Request
  <2> QED
    BY <1>1, <1>7, <2>1, LogKept DEF Rotate, history
<1>8. ASSUME NEW h \in Handlers, LockAndFind(h)
      PROVE  LogInv'
  <2>1. Holder'
    <3> SUFFICES ASSUME NEW g \in Handlers, requests'[g].pc = "commit"
                 PROVE  lock' = g /\ requests'[g].found \subseteq Active'
      BY DEF Holder
    <3>1. CASE g = h
      BY <1>0, <1>1, <1>8, <3>1 DEF LockAndFind, Becomes, Request
    <3>2. CASE g # h
      BY <1>0, <1>8, <3>2, SigningKeysAssumption
      DEF LockAndFind, Becomes, Holder
    <3> QED
      BY <3>1, <3>2
  <2> QED
    BY <1>1, <1>8, <2>1, LogKept DEF LockAndFind, history
<1>9. ASSUME NEW h \in Handlers, Commit(h)
      PROVE  LogInv'
  <2> DEFINE found == requests[h].found
             entry == [created |-> Len(keys) + 1, retired |-> found]
  <2>1. requests[h].sealed \in Secrets
    BY <1>9 DEF Commit, TypeInv, Made, At
  <2>2. Retired' = Ids
    BY <1>0, <1>9, <2>1, Rotated DEF Commit
  <2>3. lock = h /\ found \subseteq Active /\ Active \subseteq Ids
    BY <1>0, <1>9 DEF Commit, At, Holder, Active
  <2>4. Holder'
    BY <1>0, <1>9, <2>3 DEF Commit, Holder, Becomes, Idle
  <2>5. /\ rotated' = rotated \cup {entry}
        /\ slipped' = slipped \cup (Active \ found)
        /\ entry.retired = found
    BY <1>9 DEF Commit
  <2>6. /\ Retired = slipped \cup UNION {e.retired : e \in rotated}
        /\ \A e \in rotated : e.retired \cap slipped = {}
        /\ \A e, f \in rotated : e # f => e.retired \cap f.retired = {}
    BY DEF LogInv, RetirementsAreLogged
  <2> HIDE DEF found, entry
  <2>7. /\ slipped \cap Active = {}
        /\ \A e \in rotated : e.retired \cap Active = {}
    BY <2>6 DEF Retired
  <2>8. Ids = slipped' \cup UNION {e.retired : e \in rotated'}
    <3>1. UNION {e.retired : e \in rotated'}
             = found \cup UNION {e.retired : e \in rotated}
      BY <2>5
    <3> QED
      BY <2>3, <2>5, <2>6, <3>1 DEF Retired
  <2>9. \A e \in rotated' : e.retired \cap slipped' = {}
    BY <2>3, <2>5, <2>6, <2>7
  <2>10. \A e, f \in rotated' : e # f => e.retired \cap f.retired = {}
    BY <2>3, <2>5, <2>6, <2>7
  <2> QED
    BY <2>2, <2>4, <2>8, <2>9, <2>10 DEF LogInv, RetirementsAreLogged
<1>10. ASSUME NEW h \in Handlers, Dies(h)
       PROVE  LogInv'
  <2>1. Holder'
    BY <1>0, <1>1, <1>10 DEF Holder, Dies, Becomes, Idle, Request
  <2> QED
    BY <1>1, <1>10, <2>1, LogKept DEF Dies, history
<1>11. CASE StartRunbook \/ Plan \/ ScriptDies
  <2>1. Holder'
    BY <1>0, <1>1, <1>11 DEF Holder, StartRunbook, Plan, ScriptDies
  <2> QED
    BY <1>1, <1>11, <2>1, LogKept DEF StartRunbook, Plan, ScriptDies, history
<1>12. CASE Apply
  <2>1. Active' = Active /\ Retired' = Retired
    BY <1>0, <1>12, Sealed
  <2>2. Holder'
    BY <1>0, <1>12, <2>1 DEF Holder, Apply
  <2> QED
    BY <1>12, <2>1, <2>2, LogKept DEF Apply, history
<1>13. CASE Restart
  <2>1. Holder'
    BY <1>13 DEF Holder, Restart, Idle
  <2> QED
    BY <1>1, <1>13, <2>1, LogKept DEF Restart, history
<1>14. CASE UNCHANGED vars
  <2>1. Holder'
    BY <1>0, <1>1, <1>14 DEF Holder, vars
  <2> QED
    BY <1>1, <1>14, <2>1, LogKept DEF vars, history
<1> QED
  BY <1>2, <1>3, <1>4, <1>5, <1>6, <1>7, <1>8, <1>9, <1>10, <1>11, <1>12,
     <1>13, <1>14 DEF Next, Serve

\* The entries of the rotations name each retired key once, except one that an
\* issuance made between a rotation's two statements.
THEOREM RetirementsAccounted == Spec => []RetirementsAreLogged
<1>1. Init => LogInv
  <2> SUFFICES ASSUME Init
               PROVE  LogInv
    OBVIOUS
  <2>1. Ids = {}
    BY DEF Init, Ids
  <2>2. Retired = {} /\ rotated = {} /\ slipped = {}
    BY <2>1 DEF Init, Retired
  <2> QED
    BY <2>2 DEF Init, LogInv, Holder, Idle, RetirementsAreLogged
<1> QED
  BY <1>1, LogStep, TypesAlways, PTL DEF Spec, LogInv

-----------------------------------------------------------------------------
(* How many keys sign *)

LEMMA OneSignerStep == TypeInv /\ OneSigner /\ [Next]_vars => OneSigner'
<1> SUFFICES ASSUME TypeInv, OneSigner, [Next]_vars
             PROVE  OneSigner'
  OBVIOUS
<1>0. keys \in Seq(Key)
  BY DEF TypeInv, TypeOK
<1>1. ASSUME UNCHANGED <<keys, extra>>
      PROVE  OneSigner'
  BY <1>1 DEF OneSigner, Active, Ids
<1>2. ASSUME NEW h \in Handlers, CreateKey(h)
      PROVE  OneSigner'
  <2>1. requests[h].sealed \in Secrets
    BY <1>2 DEF CreateKey, TypeInv, Made, At
  <2>2. Active' = Active \cup {Len(keys) + 1}
    BY <1>0, <1>2, <2>1, Created DEF CreateKey
  <2> QED
    BY <1>2, <2>2 DEF CreateKey, OneSigner
<1>3. ASSUME NEW h \in Handlers, Commit(h)
      PROVE  OneSigner'
  <2>1. requests[h].sealed \in Secrets
    BY <1>3 DEF Commit, TypeInv, Made, At
  <2>2. Active' = {Len(keys) + 1}
    BY <1>0, <1>3, <2>1, Rotated DEF Commit
  <2> QED
    BY <2>2 DEF OneSigner
<1>4. CASE Apply
  <2>1. Active' = Active
    BY <1>0, <1>4, Sealed
  <2> QED
    BY <1>4, <2>1 DEF Apply, OneSigner, history
<1> QED
  BY <1>1, <1>2, <1>3, <1>4
  DEF Next, Serve, FindKey, FindNoKey, AuditKey, Sign, SignFails, Rotate,
      LockAndFind, Dies, StartRunbook, Plan, ScriptDies, Restart, history, vars

\* There is one key to sign with, but for those of overlapping first issuances.
THEOREM OneKeySigns == Spec => []OneSigner
<1>1. Init => OneSigner
  BY DEF Init, OneSigner, Active, Ids
<1> QED
  BY <1>1, OneSignerStep, TypesAlways, PTL DEF Spec

-----------------------------------------------------------------------------
(* The runbook *)

NewestIsNew == \A k \in Ids : Newest(k) => keys[k].secret = "new"

\* Somebody has seen, since the restart, that the newest key opens.
Seen ==
    \/ runbook = "done"
    \/ \E h \in Handlers : /\ requests[h].pc \in {"auditKey", "sign"}
                           /\ requests[h].sealed = "new"

\* After the restart no request of the old process is left to write a key, so
\* that a newest key that opened is followed by ones that open.
RunbookInv ==
    /\ runbook \in {"verify", "done"} => secret = "new"
    /\ secret = "new" =>
          /\ \A h \in Handlers :
                requests[h].pc \in {"create", "rotate", "commit"} =>
                    requests[h].sealed = "new"
          /\ Seen => NewestIsNew

LEMMA RunbookStep == TypeInv /\ RunbookInv /\ [Next]_vars => RunbookInv'
<1> SUFFICES ASSUME TypeInv, RunbookInv, [Next]_vars
             PROVE  RunbookInv'
  OBVIOUS
<1>0. keys \in Seq(Key) /\ requests \in [Handlers -> Request]
  BY DEF TypeInv, TypeOK
<1>1. ASSUME UNCHANGED keys
      PROVE  NewestIsNew' <=> NewestIsNew
  BY <1>1 DEF NewestIsNew, Newest, Active, Ids
<1>2. ASSUME NEW h \in Handlers, FindKey(h)
      PROVE  RunbookInv'
  <2>1. PICK k \in Ids :
           /\ Newest(k)
           /\ Becomes(h, [Idle EXCEPT !.pc = "sign",
                                      !.sealed = keys[k].secret])
    BY <1>2 DEF FindKey
  <2>2. \A l : Newest(l) => l = k
    BY <1>0, <2>1, LenProperties DEF Newest, Active, Ids
  <2>3. keys[k].secret = "new" => NewestIsNew
    BY <2>2 DEF NewestIsNew
  <2>4. Seen' => Seen \/ keys[k].secret = "new"
    BY <1>0, <1>2, <2>1 DEF Seen, Becomes, FindKey, operator, Idle
  <2> QED
    BY <1>0, <1>1, <1>2, <2>1, <2>3, <2>4
    DEF RunbookInv, FindKey, Becomes, Idle, operator
<1>3. ASSUME NEW h \in Handlers, FindNoKey(h)
      PROVE  RunbookInv'
  BY <1>0, <1>1, <1>3
  DEF RunbookInv, Seen, FindNoKey, Becomes, Idle, operator
<1>4. ASSUME NEW h \in Handlers, CreateKey(h)
      PROVE  RunbookInv'
  <2>1. requests[h].sealed \in Secrets /\ requests[h].pc = "create"
    BY <1>4 DEF CreateKey, TypeInv, Made, At
  <2>2. \A k : Newest(k)' => keys'[k].secret = requests[h].sealed
    BY <1>0, <1>4, <2>1, Created DEF CreateKey
  <2>3. secret = "new" => NewestIsNew'
    BY <2>1, <2>2 DEF RunbookInv, NewestIsNew
  <2> QED
    BY <1>0, <1>4, <2>3 DEF RunbookInv, CreateKey, operator
<1>5. ASSUME NEW h \in Handlers, AuditKey(h)
      PROVE  RunbookInv'
  BY <1>0, <1>1, <1>5 DEF RunbookInv, Seen, AuditKey, At, operator
<1>6. ASSUME NEW h \in Handlers, Sign(h)
      PROVE  RunbookInv'
  <2>1. secret = "new" => Seen
    BY <1>6 DEF Sign, Opens, At, Seen
  <2> QED
    BY <1>0, <1>1, <1>6, <2>1 DEF RunbookInv, Sign, Becomes, Idle
<1>7. ASSUME NEW h \in Handlers, SignFails(h)
      PROVE  RunbookInv'
  BY <1>0, <1>1, <1>7 DEF RunbookInv, Seen, SignFails, Becomes, Idle
<1>8. ASSUME NEW h \in Handlers, Rotate(h)
      PROVE  RunbookInv'
  BY <1>0, <1>1, <1>8 DEF RunbookInv, Seen, Rotate, Becomes, Idle, operator
<1>9. ASSUME NEW h \in Handlers, LockAndFind(h)
      PROVE  RunbookInv'
  BY <1>0, <1>1, <1>9
  DEF RunbookInv, Seen, LockAndFind, At, Becomes, Request, operator
<1>10. ASSUME NEW h \in Handlers, Commit(h)
       PROVE  RunbookInv'
  <2>1. requests[h].sealed \in Secrets /\ requests[h].pc = "commit"
    BY <1>10 DEF Commit, TypeInv, Made, At
  <2>2. \A k : Newest(k)' => keys'[k].secret = requests[h].sealed
    BY <1>0, <1>10, <2>1, Rotated DEF Commit
  <2>3. secret = "new" => NewestIsNew'
    BY <2>1, <2>2 DEF RunbookInv, NewestIsNew
  <2> QED
    BY <1>0, <1>10, <2>3 DEF RunbookInv, Commit, Becomes, Idle, operator
<1>11. ASSUME NEW h \in Handlers, Dies(h)
       PROVE  RunbookInv'
  BY <1>0, <1>1, <1>11 DEF RunbookInv, Seen, Dies, Becomes, Idle, operator
<1>12. CASE StartRunbook \/ Plan \/ ScriptDies
  BY <1>1, <1>12 DEF RunbookInv, Seen, StartRunbook, Plan, ScriptDies
<1>13. CASE Apply
  <2>1. /\ Ids' = Ids /\ Active' = Active
        /\ \A k \in Ids : keys'[k].secret \in {"new", keys[k].secret}
    BY <1>0, <1>13, Sealed
  <2>2. NewestIsNew => NewestIsNew'
    BY <2>1 DEF NewestIsNew, Newest
  <2>3. runbook' = "verify" => secret = "new"
    BY <1>13 DEF Apply, TypeInv, TypeOK, Secrets
  <2> QED
    BY <1>13, <2>2, <2>3 DEF RunbookInv, Seen, Apply
<1>14. CASE Restart
  BY <1>14 DEF RunbookInv, Seen, Restart, Idle
<1>15. CASE UNCHANGED vars
  BY <1>1, <1>15 DEF RunbookInv, Seen, vars, operator
<1> QED
  BY <1>2, <1>3, <1>4, <1>5, <1>6, <1>7, <1>8, <1>9, <1>10, <1>11, <1>12,
     <1>13, <1>14, <1>15 DEF Next, Serve

\* Once a credential was issued after the restart, the key that signs next
\* opens with the secret the API has.
THEOREM RunbookHolds == Spec => []VerifiedMeansUsable
<1>1. Init => RunbookInv
  BY DEF Init, RunbookInv, Idle
<1>2. RunbookInv => VerifiedMeansUsable
  BY DEF RunbookInv, Seen, NewestIsNew, VerifiedMeansUsable
<1> QED
  BY <1>1, <1>2, RunbookStep, TypesAlways, PTL DEF Spec

=============================================================================
