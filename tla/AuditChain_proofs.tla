-------------------------- MODULE AuditChain_proofs --------------------------
(***************************************************************************)
(* The committed audit log verifies for any number of operations and       *)
(* failures.  The inductive invariant adds to the chain itself what the    *)
(* lock gives its holder: the last hash it read is still the last one, and *)
(* as long as nothing was rolled back the sequence is one ahead of the     *)
(* table.                                                                  *)
(***************************************************************************)
EXTENDS AuditChain, TLAPS

LockIsHeld ==
    \A o \in Operations : op[o].pc \in {"read", "insert", "commit"} <=> lock = o

RowsAreChained == ~BrokenLink(rows) /\ ~WrongHash(rows)

HeadIsLast ==
    IF rows = <<>> THEN head = NoHead
    ELSE head = [seq |-> rows[Len(rows)].seq,
                 entryHash |-> rows[Len(rows)].entryHash]

HolderHasLastHash ==
    \A o \in Operations :
        op[o].pc \in {"insert", "commit"} => op[o].prevHash = LastHash

\* The seq after which the next one has to follow.
LastSeq == IF rows = <<>> THEN 0 ELSE rows[Len(rows)].seq

SeqIsContiguous ==
    rollbacks = 0 =>
        /\ ~HasGap(rows)
        /\ IF \E o \in Operations : op[o].pc = "commit"
           THEN nextSeq = LastSeq + 2
           ELSE nextSeq = LastSeq + 1
        /\ \A o \in Operations : op[o].pc = "commit" => op[o].seq = LastSeq + 1

AuditInv ==
    /\ TypeOK
    /\ LockIsHeld
    /\ RowsAreChained
    /\ HeadIsLast
    /\ HolderHasLastHash
    /\ SeqIsContiguous
    /\ EntriesMatchWork

LEMMA LastRowIsARow ==
  ASSUME TypeOK, rows # <<>>
  PROVE  rows[Len(rows)] \in Row
  BY DEF TypeOK

LEMMA LastSeqIsANumber ==
  ASSUME TypeOK
  PROVE  LastSeq \in Nat /\ LastHash \in Hashes
  BY LastRowIsARow DEF LastSeq, LastHash, Row, Genesis, Hashes

LEMMA InitEstablishesAuditInv == Init => AuditInv
  <1> SUFFICES ASSUME Init PROVE AuditInv
    OBVIOUS
  <1> USE AuditAssumption DEF Init
  <1>1. TypeOK
    BY DEF TypeOK, Operation, Idle, Genesis, Hashes, Verifier, IdleVerifier,
           Verdicts
  <1>2. LockIsHeld /\ HolderHasLastHash /\ HeadIsLast
    BY DEF LockIsHeld, HolderHasLastHash, HeadIsLast, Idle
  <1>3. RowsAreChained /\ SeqIsContiguous
    BY DEF RowsAreChained, BrokenLink, WrongHash, SeqIsContiguous, HasGap,
           LastSeq, Idle
  <1>4. EntriesMatchWork
    <2>1. ~\E i \in 1..Len(rows) : TRUE
      OBVIOUS
    <2> QED BY <2>1 DEF EntriesMatchWork
  <1> QED BY <1>1, <1>2, <1>3, <1>4 DEF AuditInv

\* Only the holder of the lock is between its first read and its commit.
LEMMA OneWriter ==
  ASSUME LockIsHeld, NEW o \in Operations, NEW p \in Operations,
         op[o].pc \in {"read", "insert", "commit"},
         op[p].pc \in {"read", "insert", "commit"}
  PROVE  o = p
  BY DEF LockIsHeld

\* A step that leaves the log, the sequence and every operation in the middle
\* of a write alone.
LEMMA VerifyKeepsInv ==
  ASSUME AuditInv, StartVerify \/ ReadRows \/ ReadHead \/ Conclude
  PROVE  AuditInv'
  <1> USE DEF AuditInv
  <1>1. UNCHANGED <<rows, head, nextSeq, lock, op, worked, rollbacks>>
    BY DEF StartVerify, ReadRows, ReadHead, Conclude
  <1>2. verifier' \in Verifier
    <2>1. CASE StartVerify
      <3>1. IdleVerifier \in Verifier
        BY DEF IdleVerifier, Verifier, Verdicts
      <3> QED BY <2>1, <3>1 DEF StartVerify, Verifier
    <2>2. CASE ReadRows
      BY <2>2 DEF ReadRows, Verifier, TypeOK
    <2>3. CASE ReadHead
      BY <2>3 DEF ReadHead, Verifier, TypeOK
    <2>4. CASE Conclude
      <3>1. Verdict(verifier.rows, verifier.head) \in Verdicts
        BY DEF Verdict, Verdicts
      <3> QED BY <2>4, <3>1 DEF Conclude, Verifier, TypeOK
    <2> QED BY <2>1, <2>2, <2>3, <2>4
  <1>3. TypeOK'
    BY <1>1, <1>2 DEF TypeOK
  <1>4. LockIsHeld' /\ RowsAreChained' /\ HeadIsLast' /\ HolderHasLastHash'
    BY <1>1 DEF LockIsHeld, RowsAreChained, BrokenLink, WrongHash, PrevHash,
                HeadIsLast, HolderHasLastHash, LastHash
  <1>5. SeqIsContiguous' /\ EntriesMatchWork'
    BY <1>1 DEF SeqIsContiguous, HasGap, LastSeq, EntriesMatchWork
  <1> QED BY <1>3, <1>4, <1>5

LEMMA BeginKeepsInv ==
  ASSUME AuditInv, NEW o \in Operations, Begin(o)
  PROVE  AuditInv'
  <1> USE DEF AuditInv, Begin
  <1>1. /\ op' \in [Operations -> Operation]
        /\ op'[o].pc = "lock"
        /\ \A p \in Operations : p # o => op'[p] = op[p]
    BY DEF TypeOK, Operation
  <1>2. TypeOK'
    BY <1>1 DEF TypeOK
  <1>3. LockIsHeld' /\ RowsAreChained' /\ HeadIsLast' /\ HolderHasLastHash'
    BY <1>1 DEF LockIsHeld, RowsAreChained, BrokenLink, WrongHash, PrevHash,
                HeadIsLast, HolderHasLastHash, LastHash
  <1>4. SeqIsContiguous' /\ EntriesMatchWork'
    BY <1>1 DEF SeqIsContiguous, HasGap, LastSeq, EntriesMatchWork
  <1> QED BY <1>2, <1>3, <1>4

LEMMA LockChainKeepsInv ==
  ASSUME AuditInv, NEW o \in Operations, LockChain(o)
  PROVE  AuditInv'
  <1> USE AuditAssumption DEF AuditInv, LockChain
  <1>1. /\ op' \in [Operations -> Operation]
        /\ op'[o].pc = "read"
        /\ \A p \in Operations : p # o => op'[p] = op[p]
    BY DEF TypeOK, Operation
  <1>2. TypeOK'
    BY <1>1 DEF TypeOK
  <1>3. LockIsHeld' /\ RowsAreChained' /\ HeadIsLast' /\ HolderHasLastHash'
    BY <1>1 DEF LockIsHeld, RowsAreChained, BrokenLink, WrongHash, PrevHash,
                HeadIsLast, HolderHasLastHash, LastHash
  <1>4. SeqIsContiguous' /\ EntriesMatchWork'
    BY <1>1 DEF SeqIsContiguous, HasGap, LastSeq, EntriesMatchWork
  <1> QED BY <1>2, <1>3, <1>4

LEMMA ReadLastKeepsInv ==
  ASSUME AuditInv, NEW o \in Operations, ReadLast(o)
  PROVE  AuditInv'
  <1> USE DEF AuditInv, ReadLast
  <1>1. LastHash \in Hashes
    BY LastSeqIsANumber
  <1>2. /\ op' \in [Operations -> Operation]
        /\ op'[o].pc = "insert" /\ op'[o].prevHash = LastHash
        /\ \A p \in Operations : p # o => op'[p] = op[p]
    BY <1>1 DEF TypeOK, Operation
  <1>3. TypeOK'
    BY <1>2 DEF TypeOK
  <1>4. LockIsHeld' /\ RowsAreChained' /\ HeadIsLast' /\ HolderHasLastHash'
    BY <1>2 DEF LockIsHeld, RowsAreChained, BrokenLink, WrongHash, PrevHash,
                HeadIsLast, HolderHasLastHash, LastHash
  <1>5. SeqIsContiguous' /\ EntriesMatchWork'
    BY <1>2 DEF SeqIsContiguous, HasGap, LastSeq, EntriesMatchWork
  <1> QED BY <1>3, <1>4, <1>5

LEMMA InsertKeepsInv ==
  ASSUME AuditInv, NEW o \in Operations, Insert(o)
  PROVE  AuditInv'
  <1> USE DEF AuditInv, Insert
  <1>1. /\ op' \in [Operations -> Operation]
        /\ op'[o].pc = "commit" /\ op'[o].prevHash = op[o].prevHash
        /\ op'[o].seq = nextSeq
        /\ \A p \in Operations : p # o => op'[p] = op[p]
    BY DEF TypeOK, Operation
  <1>2. TypeOK'
    BY <1>1 DEF TypeOK
  <1>3. LockIsHeld' /\ RowsAreChained' /\ HeadIsLast' /\ HolderHasLastHash'
    BY <1>1 DEF LockIsHeld, RowsAreChained, BrokenLink, WrongHash, PrevHash,
                HeadIsLast, HolderHasLastHash, LastHash
  <1>4. \A p \in Operations : op[p].pc # "commit"
    BY OneWriter
  <1>5. LastSeq' = LastSeq /\ LastSeq \in Nat
    BY LastSeqIsANumber DEF LastSeq
  <1>6. SeqIsContiguous'
    BY <1>1, <1>4, <1>5 DEF SeqIsContiguous, HasGap, TypeOK
  <1>7. EntriesMatchWork'
    BY <1>1 DEF EntriesMatchWork
  <1> QED BY <1>2, <1>3, <1>6, <1>7

LEMMA CommitKeepsInv ==
  ASSUME AuditInv, NEW o \in Operations, Commit(o)
  PROVE  AuditInv'
  <1> USE DEF AuditInv, Commit
  <1> DEFINE n == Len(rows)
             row == NewRow(o)
  <1>1. /\ op' \in [Operations -> Operation]
        /\ op'[o].pc = "done"
        /\ \A p \in Operations : p # o => op'[p] = op[p]
    BY DEF TypeOK, Operation
  <1>2. /\ row \in Row
        /\ row.seq = op[o].seq /\ row.content = o
        /\ row.prevHash = op[o].prevHash
        /\ row.entryHash = Hash(row.prevHash, row.content)
    BY DEF NewRow, Row, TypeOK, Operation, Hashes, Hash
  <1>3. /\ rows' \in Seq(Row) /\ n \in Nat /\ Len(rows') = n + 1
        /\ rows' # <<>> /\ rows'[n + 1] = row
        /\ \A i \in 1..n : rows'[i] = rows[i]
    BY <1>2 DEF TypeOK
  <1>4. TypeOK'
    BY <1>1, <1>2, <1>3 DEF TypeOK, ChainHead, Row
  <1>5. LockIsHeld' /\ HolderHasLastHash'
    <2>1. \A p \in Operations : p # o =>
             op[p].pc \notin {"read", "insert", "commit"}
      BY OneWriter
    <2>2. \A p \in Operations : op'[p].pc \notin {"read", "insert", "commit"}
      BY <1>1, <2>1
    <2> QED BY <2>2, AuditAssumption DEF LockIsHeld, HolderHasLastHash
  <1>6. row.prevHash = PrevHash(rows', n + 1)
    BY <1>2, <1>3 DEF HolderHasLastHash, LastHash, PrevHash
  <1>7. \A i \in 1..n : PrevHash(rows', i) = PrevHash(rows, i)
    BY <1>3 DEF PrevHash
  <1>8. RowsAreChained'
    BY <1>2, <1>3, <1>6, <1>7 DEF RowsAreChained, BrokenLink, WrongHash
  <1>9. HeadIsLast'
    BY <1>2, <1>3 DEF HeadIsLast
  <1>10. SeqIsContiguous'
    <2> SUFFICES ASSUME rollbacks = 0
                 PROVE  /\ ~HasGap(rows')
                        /\ nextSeq' = LastSeq' + 1
                        /\ \A p \in Operations : op'[p].pc # "commit"
      BY DEF SeqIsContiguous
    <2>1. \A p \in Operations : op'[p].pc # "commit"
      BY <1>1, OneWriter
    <2>2. op[o].seq = LastSeq + 1 /\ nextSeq = LastSeq + 2 /\ LastSeq \in Nat
      BY LastSeqIsANumber DEF SeqIsContiguous
    <2>3. LastSeq' = LastSeq + 1
      BY <1>2, <1>3, <2>2 DEF LastSeq
    <2>4. ~HasGap(rows')
      <3> SUFFICES ASSUME NEW i \in 2..(n + 1)
                   PROVE  rows'[i].seq = rows'[i - 1].seq + 1
        BY <1>3 DEF HasGap
      <3>1. CASE i \in 2..n
        BY <1>3, <3>1 DEF SeqIsContiguous, HasGap
      <3>2. CASE i = n + 1
        BY <1>2, <1>3, <2>2, <3>2 DEF LastSeq
      <3> QED BY <1>3, <3>1, <3>2
    <2> QED BY <2>1, <2>2, <2>3, <2>4
  <1>11. EntriesMatchWork'
    BY <1>2, <1>3 DEF EntriesMatchWork
  <1> QED BY <1>4, <1>5, <1>8, <1>9, <1>10, <1>11

LEMMA RollBackKeepsInv ==
  ASSUME AuditInv, NEW o \in Operations, RollBack(o)
  PROVE  AuditInv'
  <1> USE DEF AuditInv, RollBack
  <1>1. /\ op' \in [Operations -> Operation]
        /\ op'[o].pc = "failed"
        /\ \A p \in Operations : p # o => op'[p] = op[p]
    BY DEF TypeOK, Operation
  <1>2. TypeOK' /\ rollbacks' # 0
    BY <1>1 DEF TypeOK
  <1>3. LockIsHeld' /\ RowsAreChained' /\ HeadIsLast' /\ HolderHasLastHash'
    BY <1>1, AuditAssumption
       DEF LockIsHeld, RowsAreChained, BrokenLink, WrongHash, PrevHash,
           HeadIsLast, HolderHasLastHash, LastHash
  <1>4. SeqIsContiguous' /\ EntriesMatchWork'
    BY <1>1, <1>2 DEF SeqIsContiguous, EntriesMatchWork
  <1> QED BY <1>2, <1>3, <1>4

LEMMA NextKeepsAuditInv == AuditInv /\ [Next]_vars => AuditInv'
  <1> SUFFICES ASSUME AuditInv, [Next]_vars PROVE AuditInv'
    OBVIOUS
  <1>1. ASSUME NEW o \in Operations, WriteEntry(o) PROVE AuditInv'
    BY <1>1, LockChainKeepsInv, ReadLastKeepsInv, InsertKeepsInv,
       CommitKeepsInv DEF WriteEntry
  <1>2. ASSUME NEW o \in Operations, Begin(o) \/ RollBack(o) PROVE AuditInv'
    BY <1>2, BeginKeepsInv, RollBackKeepsInv
  <1>3. CASE StartVerify \/ ReadRows \/ ReadHead \/ Conclude
    BY <1>3, VerifyKeepsInv
  <1>4. CASE UNCHANGED vars
    BY <1>4 DEF vars, AuditInv, TypeOK, LockIsHeld, RowsAreChained, BrokenLink,
                WrongHash, PrevHash, HeadIsLast, HolderHasLastHash, LastHash,
                SeqIsContiguous, HasGap, LastSeq, EntriesMatchWork
  <1> QED BY <1>1, <1>2, <1>3, <1>4 DEF Next

\* The invariant holds however appends, rollbacks and a verification interleave.
THEOREM AuditInvariant == Spec => []AuditInv
  <1> QED BY InitEstablishesAuditInv, NextKeepsAuditInv, PTL DEF Spec

\* Rows, head, lock and transactions keep their types.
THEOREM TypesHold == Spec => []TypeOK
  <1>1. AuditInv => TypeOK
    BY DEF AuditInv
  <1> QED BY <1>1, AuditInvariant, PTL

\* verifyAuditChainRows accepts the committed log at all times, whatever the
\* number of writers; after a rollback it may report a gap and nothing else.
THEOREM CommittedLogIsIntact == Spec => []CommittedLogVerifies
  <1>1. AuditInv => CommittedLogVerifies
    <2> SUFFICES ASSUME AuditInv PROVE CommittedLogVerifies
      OBVIOUS
    <2>1. CASE rows = <<>>
      BY <2>1 DEF AuditInv, HeadIsLast, CommittedLogVerifies, Verdict
    <2>2. CASE rows # <<>>
      <3>1. /\ head.seq = rows[Len(rows)].seq
            /\ head.entryHash = rows[Len(rows)].entryHash
        BY <2>2 DEF AuditInv, HeadIsLast
      <3>2. ~HeadDiffers(rows, head)
        BY <3>1 DEF HeadDiffers
      <3>3. HasGap(rows) => rollbacks > 0
        BY DEF AuditInv, SeqIsContiguous, TypeOK
      <3> QED BY <2>2, <3>2, <3>3
              DEF AuditInv, RowsAreChained, CommittedLogVerifies, Verdict
    <2> QED BY <2>1, <2>2
  <1> QED BY <1>1, AuditInvariant, PTL

\* The fail-closed operations are recorded exactly when they happened, and
\* nothing is recorded that did not happen.
THEOREM EntriesAreHonest == Spec => []EntriesMatchWork
  <1>1. AuditInv => EntriesMatchWork
    BY DEF AuditInv
  <1> QED BY <1>1, AuditInvariant, PTL

-----------------------------------------------------------------------------
(* The chain implements AuditTrail                                         *)
(*                                                                         *)
(* Where an operation is tells what the trail knows of it: its entry is    *)
(* there only when it is done, and its work from its beginning or, of a    *)
(* fail-closed one, from its commit.                                       *)

TrailInv ==
    \A o \in Operations :
        /\ (\E i \in 1..Len(rows) : rows[i].content = o) => op[o].pc = "done"
        /\ o \notin FailClosed => (o \in worked <=> op[o].pc # "idle")
        /\ o \in FailClosed => (o \in worked <=> op[o].pc = "done")

LEMMA InitEstablishesTrailInv == Init => TrailInv
  <1> SUFFICES ASSUME Init PROVE TrailInv
    OBVIOUS
  <1>1. ~\E i \in 1..Len(rows) : TRUE
    BY DEF Init
  <1> QED BY <1>1 DEF Init, Idle, TrailInv

\* What a step does to the operations, the rows and the work.
LEMMA OperationMoves ==
  ASSUME TypeOK, NEW o \in Operations,
         NEW pc, op' = [op EXCEPT ![o].pc = pc]
  PROVE  /\ op'[o].pc = pc
         /\ \A p \in Operations : p # o => op'[p].pc = op[p].pc
  BY DEF TypeOK, Operation

LEMMA CommitAppends ==
  ASSUME TypeOK, NEW o \in Operations, Commit(o)
  PROVE  /\ Len(rows) \in Nat /\ Len(rows') = Len(rows) + 1
         /\ \A i \in 1..Len(rows) : rows'[i].content = rows[i].content
         /\ rows'[Len(rows) + 1].content = o
         /\ Contents' = Append(Contents, o)
  <1>1. NewRow(o) \in Row /\ NewRow(o).content = o
    BY DEF NewRow, Row, TypeOK, Operation, Hashes, Hash
  <1>2. /\ Len(rows) \in Nat /\ Len(rows') = Len(rows) + 1
        /\ \A i \in 1..Len(rows) : rows'[i] = rows[i]
        /\ rows'[Len(rows) + 1] = NewRow(o)
    BY <1>1 DEF TypeOK, Commit
  <1>3. /\ Contents \in Seq(Operations) /\ Len(Contents) = Len(rows)
        /\ \A i \in 1..Len(rows) : Contents[i] = rows[i].content
    <2>1. \A i \in 1..Len(rows) : rows[i] \in Row
      BY DEF TypeOK
    <2>2. Contents \in [1..Len(rows) -> Operations]
      BY <2>1 DEF Contents, Row
    <2>3. \A i \in 1..Len(rows) : Contents[i] = rows[i].content
      BY DEF Contents
    <2> QED BY <1>2, <2>2, <2>3
  <1>4. /\ Contents' \in Seq(Operations) /\ Len(Contents') = Len(rows) + 1
        /\ \A i \in 1..(Len(rows) + 1) : Contents'[i] = rows'[i].content
    <2>1. \A i \in 1..(Len(rows) + 1) : rows'[i] \in Row
      <3>1. rows' \in Seq(Row)
        BY <1>1 DEF TypeOK, Commit
      <3> QED BY <1>2, <3>1
    <2>2. Contents' \in [1..(Len(rows) + 1) -> Operations]
      BY <1>2, <2>1 DEF Contents, Row
    <2>3. \A i \in 1..(Len(rows) + 1) : Contents'[i] = rows'[i].content
      BY <1>2 DEF Contents
    <2> QED BY <1>2, <2>2, <2>3
  <1>5. Contents' = Append(Contents, o)
    <2>1. /\ Append(Contents, o) \in Seq(Operations)
          /\ Len(Append(Contents, o)) = Len(rows) + 1
          /\ \A i \in 1..(Len(rows) + 1) :
                Append(Contents, o)[i] = Contents'[i]
      BY <1>1, <1>2, <1>3, <1>4
    <2> QED BY <1>2, <1>4, <2>1
  <1> QED BY <1>1, <1>2, <1>5

LEMMA NextKeepsTrailInv == TypeOK /\ TrailInv /\ [Next]_vars => TrailInv'
  <1> SUFFICES ASSUME TypeOK, TrailInv, [Next]_vars PROVE TrailInv'
    OBVIOUS
  <1>1. ASSUME NEW o \in Operations, Begin(o) PROVE TrailInv'
    <2>1. /\ op[o].pc = "idle" /\ op'[o].pc = "lock"
          /\ \A p \in Operations : p # o => op'[p].pc = op[p].pc
      BY <1>1, OperationMoves DEF Begin
    <2>2. /\ rows' = rows
          /\ o \in FailClosed => worked' = worked
          /\ o \notin FailClosed => worked' = worked \cup {o}
      BY <1>1 DEF Begin
    <2> QED BY <2>1, <2>2 DEF TrailInv
  <1>2. ASSUME NEW o \in Operations, LockChain(o) PROVE TrailInv'
    BY <1>2, OperationMoves DEF LockChain, TrailInv
  <1>3. ASSUME NEW o \in Operations, ReadLast(o) \/ Insert(o) PROVE TrailInv'
    <2>1. /\ op[o].pc \in {"read", "insert"} /\ op'[o].pc \in {"insert", "commit"}
          /\ \A p \in Operations : p # o => op'[p].pc = op[p].pc
      BY <1>3 DEF ReadLast, Insert, TypeOK, Operation
    <2>2. UNCHANGED <<rows, worked>>
      BY <1>3 DEF ReadLast, Insert
    <2> QED BY <2>1, <2>2 DEF TrailInv
  <1>4. ASSUME NEW o \in Operations, Commit(o) PROVE TrailInv'
    <2>1. /\ op'[o].pc = "done"
          /\ \A p \in Operations : p # o => op'[p].pc = op[p].pc
      BY <1>4, OperationMoves DEF Commit
    <2>2. \A p \in Operations : p \in worked' <=> p \in worked \/ p = o
      BY <1>4 DEF Commit
    <2>3. \A p \in Operations : p # o =>
             ((\E i \in 1..Len(rows') : rows'[i].content = p)
                => \E i \in 1..Len(rows) : rows[i].content = p)
      BY <1>4, CommitAppends
    <2>4. op[o].pc = "commit"
      BY <1>4 DEF Commit
    <2> QED BY <2>1, <2>2, <2>3, <2>4 DEF TrailInv
  <1>5. ASSUME NEW o \in Operations, RollBack(o) PROVE TrailInv'
    BY <1>5, OperationMoves DEF RollBack, TrailInv
  <1>6. CASE StartVerify \/ ReadRows \/ ReadHead \/ Conclude
    BY <1>6 DEF StartVerify, ReadRows, ReadHead, Conclude, TrailInv
  <1>7. CASE UNCHANGED vars
    BY <1>7 DEF vars, TrailInv
  <1> QED BY <1>1, <1>2, <1>3, <1>4, <1>5, <1>6, <1>7 DEF Next, WriteEntry

\* A step that leaves the rows and the work alone is a stutter of the trail.
LEMMA TrailStays ==
  ASSUME UNCHANGED <<rows, worked>> PROVE UNCHANGED Trail!vars
  BY DEF Trail!vars, Contents

\* The commit of a fail-closed operation is its work and its entry in one; of
\* any other it is the entry of work that was done before.
LEMMA CommitRecords ==
  ASSUME TypeOK, TrailInv, NEW o \in Operations, Commit(o)
  PROVE  Trail!Next
  <1>1. Contents' = Append(Contents, o) /\ worked' = worked \cup {o}
    BY CommitAppends DEF Commit
  <1>2. ~Trail!Recorded(o)
    <2>1. ~\E i \in 1..Len(rows) : rows[i].content = o
      BY DEF Commit, TrailInv
    <2>2. /\ DOMAIN Contents = 1..Len(rows)
          /\ \A i \in 1..Len(rows) : Contents[i] = rows[i].content
      BY DEF Contents
    <2> QED BY <2>1, <2>2 DEF Trail!Recorded
  <1>3. CASE o \in FailClosed
    <2>1. o \notin worked
      BY <1>3 DEF Commit, TrailInv
    <2>2. Trail!WorkAndRecord(o)
      BY <1>1, <1>3, <2>1 DEF Trail!WorkAndRecord
    <2> QED BY <2>2 DEF Trail!Next
  <1>4. CASE o \notin FailClosed
    <2>1. o \in worked
      BY <1>4 DEF Commit, TrailInv
    <2>2. Trail!Record(o)
      BY <1>1, <1>2, <1>4, <2>1 DEF Trail!Record
    <2> QED BY <2>2 DEF Trail!Next
  <1> QED BY <1>3, <1>4

LEMMA StepsImplementTrail ==
  TypeOK /\ TrailInv /\ [Next]_vars => [Trail!Next]_(Trail!vars)
  <1> SUFFICES ASSUME TypeOK, TrailInv, [Next]_vars
               PROVE  Trail!Next \/ UNCHANGED Trail!vars
    OBVIOUS
  <1>1. ASSUME NEW o \in Operations, Begin(o)
        PROVE  Trail!Next \/ UNCHANGED Trail!vars
    <2>1. CASE o \in FailClosed
      <3>1. UNCHANGED <<rows, worked>>
        BY <1>1, <2>1 DEF Begin
      <3> QED BY <3>1, TrailStays
    <2>2. CASE o \notin FailClosed
      <3>1. o \notin worked
        BY <1>1, <2>2 DEF Begin, TrailInv
      <3>2. worked' = worked \cup {o} /\ Contents' = Contents
        BY <1>1, <2>2 DEF Begin, Contents
      <3>3. Trail!Work(o)
        BY <2>2, <3>1, <3>2 DEF Trail!Work
      <3> QED BY <3>3 DEF Trail!Next
    <2> QED BY <2>1, <2>2
  <1>2. ASSUME NEW o \in Operations, Commit(o)
        PROVE  Trail!Next \/ UNCHANGED Trail!vars
    BY <1>2, CommitRecords
  <1>3. ASSUME NEW o \in Operations,
               LockChain(o) \/ ReadLast(o) \/ Insert(o) \/ RollBack(o)
        PROVE  Trail!Next \/ UNCHANGED Trail!vars
    <2>1. UNCHANGED <<rows, worked>>
      BY <1>3 DEF LockChain, ReadLast, Insert, RollBack
    <2> QED BY <2>1, TrailStays
  <1>4. CASE StartVerify \/ ReadRows \/ ReadHead \/ Conclude \/ UNCHANGED vars
    <2>1. UNCHANGED <<rows, worked>>
      BY <1>4 DEF StartVerify, ReadRows, ReadHead, Conclude, vars
    <2> QED BY <2>1, TrailStays
  <1> QED BY <1>1, <1>2, <1>3, <1>4 DEF Next, WriteEntry

\* However appends interleave, wait and fail, the log is a trail: it only
\* grows, records nothing twice and nothing before it was done, and the work
\* of an operation that passes its transaction appears with its entry.
THEOREM LogIsATrail == Spec => ImplementsTrail
  <1>1. Init => Trail!Init
    BY DEF Init, Trail!Init, Contents
  <1>2. Spec => []TrailInv
    BY InitEstablishesTrailInv, NextKeepsTrailInv, TypesHold, PTL DEF Spec
  <1> QED BY <1>1, <1>2, TypesHold, StepsImplementTrail, PTL
          DEF Spec, ImplementsTrail, Trail!Spec

=============================================================================
