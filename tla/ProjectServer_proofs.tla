------------------------- MODULE ProjectServer_proofs -----------------------
(***************************************************************************)
(* Proofs about ProjectServer, for any number of requests, any models and  *)
(* batches that obey the laws of OpAlgebra.                                *)
(*                                                                         *)
(* LogReplays is not inductive by itself: that CommitTx appends what it    *)
(* persists, to the version it was computed on, rests on the row lock.     *)
(* The strengthening IInv says what a handler may rely on at each label.   *)
(***************************************************************************)
EXTENDS ProjectServer, SequenceTheorems, TLAPS

(* Only the holder of the row lock is between lock and COMMIT.             *)
Holding == {"locked", "loaded", "deriving", "written"}
LockInv == \A r \in Request : pc[r] \in Holding => lock = r

(* Only requests that derive ops get that far; only a new snapshot is      *)
(* inserted.                                                               *)
AskedInv == \A r \in Request :
    /\ pc[r] \in Holding \cup {"ready"} => req[r] \in Derivable
    /\ pc[r] = "reading" => req[r].kind \in Reading
    /\ pc[r] = "inserting" => req[r].kind = "snapshot"

(* What a handler has read under the lock is still so.                     *)
SeenInv == \A r \in Request :
    /\ pc[r] \in {"loaded", "deriving", "written"} => seen[r].model = rows
    /\ pc[r] \in {"deriving", "written"} => seen[r].seq = currentSeq

(* What a transaction has persisted is one valid batch.                    *)
WrittenInv == \A r \in Request :
    /\ pc[r] \in {"written", "committed"} => written[r] \in Batch
    /\ pc[r] = "written" => /\ Apply(rows, written[r]) # Failure
                            /\ Persist(rows, written[r]) # Failure

IInv == TypeOK /\ LockInv /\ AskedInv /\ SeenInv /\ WrittenInv /\ LogReplays
-----------------------------------------------------------------------------
LEMMA currentSeqType == TypeOK => currentSeq \in Nat
  BY DEF TypeOK, currentSeq

LEMMA ModelAtType == ASSUME TypeOK, NEW s \in 0..currentSeq PROVE ModelAt(s) \in Model
<1>1. CASE s = 0
  BY <1>1, EmptyLaw DEF ModelAt
<1>2. CASE s # 0
  <2>1. revisions[s] \in Revision
    BY <1>2 DEF TypeOK, currentSeq
  <2> QED BY <1>2, <2>1 DEF ModelAt, Revision
<1> QED BY <1>1, <1>2

LEMMA DiffType == ASSUME NEW m \in Model, NEW n \in Model PROVE Diff(m, n) \in Batch \cup {NoOps}
  BY DiffLaw, SameModelLaw

(* A request is sent with ops that lead from a version to an integral      *)
(* model.                                                                  *)
LEMMA RequestsType ==
  ASSUME TypeOK, NEW q \in Requests, q.kind \in {"mutate", "push"} => q.ops # NoOps
  PROVE  q \in Asked
<1>1. ASSUME NEW s \in 0..currentSeq, NEW m \in Model
      PROVE  Diff(ModelAt(s), m) \in Batch \cup {NoOps}
  BY ModelAtType, DiffType
<1>2. currentSeq \in Nat
  BY currentSeqType
<1>3. CASE q \in {Mutate(Diff(ModelAt(s), m)) : s \in 0..currentSeq, m \in Model}
  BY <1>1, <1>3 DEF Mutate, Asked, Derivable
<1>4. CASE q \in {Push(Diff(ModelAt(s), m), s, m) : s \in 0..currentSeq, m \in Model}
  BY <1>1, <1>2, <1>4 DEF Push, Asked, Derivable
<1>5. FreshIds \subseteq Snapshot
  BY DEF FreshIds
<1>6. CASE q \notin UNION {{Mutate(Diff(ModelAt(s), m)) : s \in 0..currentSeq, m \in Model},
                           {Push(Diff(ModelAt(s), m), s, m) : s \in 0..currentSeq, m \in Model}}
  BY <1>5, <1>6 DEF Requests, Restore, Get, Create, Delete, Asked
<1> QED BY <1>3, <1>4, <1>6

LEMMA DeriveType ==
  ASSUME TypeOK, NEW r \in Request, req[r] \in Derivable
  PROVE  deriveOps(r) \in Batch \cup {NoOps, Failure}
<1>1. seen[r].model \in Model
  BY DEF TypeOK, Version
<1>2. CASE req[r].kind = "restore"
  <2>1. req[r].target \in Model
    BY <1>2 DEF Derivable
  <2> QED BY <1>1, <1>2, <2>1, DiffType DEF deriveOps
<1>3. CASE req[r].kind = "mutate"
  BY <1>3 DEF Derivable, deriveOps
<1>4. CASE req[r].kind = "push"
  BY <1>4 DEF Derivable, deriveOps
<1> QED BY <1>2, <1>3, <1>4 DEF Derivable

LEMMA DerivedType ==
  ASSUME TypeOK, NEW r \in Request, req[r] \in Derivable, deriveOps(r) \notin {Failure, NoOps}
  PROVE  Derived(r) \in Batch
<1>1. seen[r].model \in Model
  BY DEF TypeOK, Version
<1> QED BY <1>1, DeriveType, RewriteLaw DEF Derived

LEMMA StepKeepsIInv == IInv /\ [Next]_vars => IInv'
<1> SUFFICES ASSUME IInv, [Next]_vars PROVE IInv'
  OBVIOUS
<1> USE DEF IInv
<1>1. ASSUME NEW r \in Request, Send(r) PROVE IInv'
  <2>1. TypeOK'
    <3>1. PICK q \in Requests : /\ q.kind \in {"mutate", "push"} => q.ops # NoOps
                                /\ req' = [req EXCEPT ![r] = q]
      BY <1>1 DEF Send
    <3>2. req' \in [Request -> Asked]
      BY <3>1, RequestsType DEF TypeOK
    <3>3. seen' \in [Request -> Version]
      BY <1>1, EmptyLaw DEF TypeOK, Version, Nothing, Send
    <3> QED BY <1>1, <3>2, <3>3 DEF TypeOK, Labels, Send, dbVars, Goto
  <2>2. LockInv'
    BY <1>1 DEF TypeOK, LockInv, Holding, Send, dbVars, txVars, Goto
  <2>3. AskedInv'
    BY <1>1 DEF TypeOK, AskedInv, Holding, Send, Goto
  <2>4. SeenInv'
    BY <1>1 DEF TypeOK, SeenInv, currentSeq, Send, dbVars, txVars, Goto
  <2>5. WrittenInv'
    BY <1>1 DEF TypeOK, WrittenInv, Send, dbVars, txVars, Goto
  <2>6. LogReplays'
    BY <1>1 DEF LogReplays, ModelAt, currentSeq, Send, dbVars, txVars, Goto
  <2> QED BY <2>1, <2>2, <2>3, <2>4, <2>5, <2>6
<1>2. ASSUME NEW r \in Request, FindSnapshot(r) PROVE IInv'
  <2>1. TypeOK'
    <3>1. req[r].id \in Snapshot
      BY <1>2 DEF TypeOK, Asked, Derivable, FindSnapshot
    <3>2. req' \in [Request -> Asked]
      BY <1>2, <3>1 DEF TypeOK, Asked, Derivable, FindSnapshot
    <3> QED BY <1>2, <3>2 DEF TypeOK, Labels, FindSnapshot, dbVars, txVars, Goto
  <2>2. LockInv'
    BY <1>2 DEF TypeOK, LockInv, Holding, FindSnapshot, dbVars, txVars, Goto
  <2>3. AskedInv'
    <3>1. req[r].id \in Snapshot
      BY <1>2 DEF TypeOK, Asked, Derivable, FindSnapshot
    <3>2. pc'[r] = "ready" => req'[r] \in Derivable
      BY <1>2, <3>1 DEF TypeOK, Derivable, FindSnapshot, Goto
    <3> QED BY <1>2, <3>2 DEF TypeOK, AskedInv, Holding, FindSnapshot, Goto
  <2>4. SeenInv'
    BY <1>2 DEF TypeOK, SeenInv, currentSeq, FindSnapshot, dbVars, txVars, Goto
  <2>5. WrittenInv'
    BY <1>2 DEF TypeOK, WrittenInv, FindSnapshot, dbVars, txVars, Goto
  <2>6. LogReplays'
    BY <1>2 DEF LogReplays, ModelAt, currentSeq, FindSnapshot, dbVars, txVars, Goto
  <2> QED BY <2>1, <2>2, <2>3, <2>4, <2>5, <2>6
<1>3. ASSUME NEW r \in Request, LockProject(r) PROVE IInv'
  <2>1. TypeOK'
    BY <1>3 DEF TypeOK, Labels, LockProject, dbVars, txVars, Goto
  <2>2. LockInv'
    BY <1>3, ServerBounds DEF TypeOK, LockInv, Holding, LockProject, Goto
  <2>3. AskedInv'
    <3>1. req[r] \in Derivable
      BY <1>3 DEF TypeOK, AskedInv, LockProject, Arrived, Asked, Derivable
    <3> QED BY <1>3, <3>1 DEF TypeOK, AskedInv, Holding, LockProject, Goto
  <2>4. SeenInv'
    BY <1>3 DEF TypeOK, SeenInv, currentSeq, LockProject, dbVars, txVars, Goto
  <2>5. WrittenInv'
    BY <1>3 DEF TypeOK, WrittenInv, LockProject, dbVars, txVars, Goto
  <2>6. LogReplays'
    BY <1>3 DEF LogReplays, ModelAt, currentSeq, LockProject, dbVars, txVars, Goto
  <2> QED BY <2>1, <2>2, <2>3, <2>4, <2>5, <2>6
<1>4. ASSUME NEW r \in Request, LoadModel(r) PROVE IInv'
  <2>1. TypeOK'
    <3>1. seen' \in [Request -> Version]
      BY <1>4 DEF TypeOK, Version, LoadModel
    <3> QED BY <1>4, <3>1 DEF TypeOK, Labels, LoadModel, dbVars, Goto
  <2>2. LockInv'
    BY <1>4 DEF TypeOK, LockInv, Holding, LoadModel, dbVars, txVars, Goto
  <2>3. AskedInv'
    BY <1>4 DEF TypeOK, AskedInv, Holding, LoadModel, dbVars, txVars, Goto
  <2>4. SeenInv'
    BY <1>4 DEF TypeOK, SeenInv, currentSeq, LoadModel, dbVars, txVars, Goto
  <2>5. WrittenInv'
    BY <1>4 DEF TypeOK, WrittenInv, LoadModel, dbVars, txVars, Goto
  <2>6. LogReplays'
    BY <1>4 DEF LogReplays, ModelAt, currentSeq, LoadModel, dbVars, txVars, Goto
  <2> QED BY <2>1, <2>2, <2>3, <2>4, <2>5, <2>6
<1>5. ASSUME NEW r \in Request, ReadSeq(r) PROVE IInv'
  <2>1. TypeOK'
    <3>1. seen' \in [Request -> Version]
      BY <1>5, currentSeqType DEF TypeOK, Version, ReadSeq
    <3> QED BY <1>5, <3>1 DEF TypeOK, Labels, ReadSeq, dbVars, Goto
  <2>2. LockInv'
    BY <1>5 DEF TypeOK, LockInv, Holding, ReadSeq, dbVars, txVars, Goto
  <2>3. AskedInv'
    BY <1>5 DEF TypeOK, AskedInv, Holding, ReadSeq, dbVars, txVars, Goto
  <2>4. SeenInv'
    BY <1>5 DEF TypeOK, SeenInv, currentSeq, ReadSeq, dbVars, txVars, Goto
  <2>5. WrittenInv'
    BY <1>5 DEF TypeOK, WrittenInv, ReadSeq, dbVars, txVars, Goto
  <2>6. LogReplays'
    BY <1>5 DEF LogReplays, ModelAt, currentSeq, ReadSeq, dbVars, txVars, Goto
  <2> QED BY <2>1, <2>2, <2>3, <2>4, <2>5, <2>6
<1>6. ASSUME NEW r \in Request, RollBack(r) PROVE IInv'
  <2>1. TypeOK'
    BY <1>6 DEF TypeOK, Labels, RollBack, Unlock, dbVars, Goto
  <2>2. LockInv'
    BY <1>6 DEF TypeOK, LockInv, Holding, RollBack, dbVars, txVars, Goto
  <2>3. AskedInv'
    BY <1>6 DEF TypeOK, AskedInv, Holding, RollBack, dbVars, txVars, Goto
  <2>4. SeenInv'
    BY <1>6 DEF TypeOK, SeenInv, currentSeq, RollBack, dbVars, txVars, Goto
  <2>5. WrittenInv'
    BY <1>6 DEF TypeOK, WrittenInv, RollBack, dbVars, txVars, Goto
  <2>6. LogReplays'
    BY <1>6 DEF LogReplays, ModelAt, currentSeq, RollBack, dbVars, txVars, Goto
  <2> QED BY <2>1, <2>2, <2>3, <2>4, <2>5, <2>6
<1>7. ASSUME NEW r \in Request, AnswerNoop(r) PROVE IInv'
  <2>1. TypeOK'
    BY <1>7 DEF TypeOK, Labels, AnswerNoop, Unlock, dbVars, Goto
  <2>2. LockInv'
    BY <1>7 DEF TypeOK, LockInv, Holding, AnswerNoop, dbVars, txVars, Goto
  <2>3. AskedInv'
    BY <1>7 DEF TypeOK, AskedInv, Holding, AnswerNoop, dbVars, txVars, Goto
  <2>4. SeenInv'
    BY <1>7 DEF TypeOK, SeenInv, currentSeq, AnswerNoop, dbVars, txVars, Goto
  <2>5. WrittenInv'
    BY <1>7 DEF TypeOK, WrittenInv, AnswerNoop, dbVars, txVars, Goto
  <2>6. LogReplays'
    BY <1>7 DEF LogReplays, ModelAt, currentSeq, AnswerNoop, dbVars, txVars, Goto
  <2> QED BY <2>1, <2>2, <2>3, <2>4, <2>5, <2>6
<1>8. ASSUME NEW r \in Request, PersistBatch(r) PROVE IInv'
  <2>1. TypeOK'
    <3>1. Derived(r) \in Batch
      BY <1>8, DerivedType DEF AskedInv, Holding, PersistBatch
    <3> QED BY <1>8, <3>1 DEF TypeOK, Labels, PersistBatch, dbVars, Goto
  <2>2. LockInv'
    BY <1>8 DEF TypeOK, LockInv, Holding, PersistBatch, dbVars, txVars, Goto
  <2>3. AskedInv'
    BY <1>8 DEF TypeOK, AskedInv, Holding, PersistBatch, dbVars, txVars, Goto
  <2>4. SeenInv'
    BY <1>8 DEF TypeOK, SeenInv, currentSeq, PersistBatch, dbVars, txVars, Goto
  <2>5. WrittenInv'
    <3>1. Derived(r) \in Batch /\ seen[r].model = rows
      BY <1>8, DerivedType DEF AskedInv, SeenInv, Holding, PersistBatch
    <3> QED BY <1>8, <3>1 DEF TypeOK, WrittenInv, PersistBatch, dbVars, Goto
  <2>6. LogReplays'
    BY <1>8 DEF LogReplays, ModelAt, currentSeq, PersistBatch, dbVars, txVars, Goto
  <2> QED BY <2>1, <2>2, <2>3, <2>4, <2>5, <2>6
<1>9. ASSUME NEW r \in Request, CommitTx(r) PROVE IInv'
  <2>1. /\ seen[r].seq = currentSeq /\ written[r] \in Batch /\ req[r] \in Asked
        /\ lock = r /\ lock' = NoOne
    BY <1>9 DEF TypeOK, SeenInv, WrittenInv, LockInv, Holding, Asked, CommitTx, Unlock
  <2>2. Persist(rows, written[r]) = Apply(rows, written[r]) /\ Apply(rows, written[r]) \in Model
    BY <1>9, <2>1, ApplyLaw, PersistLaw DEF TypeOK, WrittenInv, CommitTx
  <2>3. /\ rows' = Apply(rows, written[r])
        /\ revisions' = Append(revisions, [ops |-> written[r], author |-> [slot |-> r, asked |-> req[r]],
                                           result |-> rows'])
        /\ pc' = [pc EXCEPT ![r] = "committed"]
        /\ UNCHANGED <<snapshots, req, seen, written, channel>>
    BY <1>9, <2>1, <2>2 DEF CommitTx, Goto
  <2>4. [ops |-> written[r], author |-> [slot |-> r, asked |-> req[r]], result |-> rows'] \in Revision
    BY <2>1, <2>2, <2>3 DEF Revision
  <2>5. \A x \in Request : pc'[x] \notin Holding
    BY <2>1, <2>3 DEF TypeOK, LockInv, Holding
  <2>6. TypeOK'
    BY <2>1, <2>2, <2>3, <2>4 DEF TypeOK, Labels
  <2>7. LockInv' /\ SeenInv'
    BY <2>5 DEF LockInv, SeenInv, Holding
  <2>8. AskedInv'
    BY <2>3 DEF TypeOK, AskedInv, Holding
  <2>9. WrittenInv'
    BY <2>1, <2>3, <2>5 DEF TypeOK, WrittenInv, Holding
  <2>10. LogReplays'
    <3>1. Len(revisions') = Len(revisions) + 1 /\ Len(revisions) \in Nat
      BY <2>3 DEF TypeOK
    <3>2. \A s \in 1..Len(revisions) : revisions'[s] = revisions[s]
      BY <2>3 DEF TypeOK
    <3>3. /\ revisions'[Len(revisions) + 1].ops = written[r]
          /\ revisions'[Len(revisions) + 1].result = rows'
      BY <2>3 DEF TypeOK
    <3>4. rows = IF Len(revisions) = 0 THEN Empty ELSE revisions[Len(revisions)].result
      BY DEF LogReplays, ModelAt, currentSeq
    <3>5. \A s \in 1..Len(revisions) : Apply(ModelAt(s - 1)', revisions'[s].ops) = ModelAt(s)'
      BY <3>1, <3>2 DEF LogReplays, ModelAt, currentSeq
    <3>6. \A n \in Nat : n = Len(revisions) => ModelAt(n)' = rows
      BY <3>2, <3>4 DEF ModelAt
    <3>7. /\ rows' = revisions'[Len(revisions')].result /\ Len(revisions') # 0
          /\ Apply(rows, revisions'[Len(revisions')].ops) = revisions'[Len(revisions')].result
      BY <2>3, <3>1, <3>3
    <3>8. \A s \in 1..Len(revisions') : Apply(ModelAt(s - 1)', revisions'[s].ops) = ModelAt(s)'
      <4> SUFFICES ASSUME NEW s \in 1..Len(revisions')
                   PROVE  Apply(ModelAt(s - 1)', revisions'[s].ops) = ModelAt(s)'
        OBVIOUS
      <4>1. CASE s = Len(revisions')
        BY <3>1, <3>6, <3>7, <4>1 DEF ModelAt
      <4> QED BY <3>1, <3>5, <4>1
    <3> QED BY <3>7, <3>8 DEF LogReplays, ModelAt, currentSeq
  <2> QED BY <2>6, <2>7, <2>8, <2>9, <2>10
<1>10. ASSUME NEW r \in Request, PublishOps(r) PROVE IInv'
  <2>1. TypeOK'
    <3>1. [seq |-> seen[r].seq + 1, ops |-> written[r]] \in Frame
      BY <1>10 DEF TypeOK, WrittenInv, PublishOps, Version, Frame
    <3> QED BY <1>10, <3>1 DEF TypeOK, Labels, PublishOps, dbVars, txVars, Goto
  <2>2. LockInv'
    BY <1>10 DEF TypeOK, LockInv, Holding, PublishOps, dbVars, txVars, Goto
  <2>3. AskedInv'
    BY <1>10 DEF TypeOK, AskedInv, Holding, PublishOps, dbVars, txVars, Goto
  <2>4. SeenInv'
    BY <1>10 DEF TypeOK, SeenInv, currentSeq, PublishOps, dbVars, txVars, Goto
  <2>5. WrittenInv'
    BY <1>10 DEF TypeOK, WrittenInv, PublishOps, dbVars, txVars, Goto
  <2>6. LogReplays'
    BY <1>10 DEF LogReplays, ModelAt, currentSeq, PublishOps, dbVars, txVars, Goto
  <2> QED BY <2>1, <2>2, <2>3, <2>4, <2>5, <2>6
<1>11. ASSUME NEW r \in Request, BeginRead(r) PROVE IInv'
  <2>1. TypeOK'
    <3>1. seen' \in [Request -> Version]
      BY <1>11 DEF TypeOK, Version, currentSeq, BeginRead
    <3> QED BY <1>11, <3>1 DEF TypeOK, Labels, BeginRead, dbVars, Goto
  <2>2. LockInv'
    BY <1>11 DEF TypeOK, LockInv, Holding, BeginRead, dbVars, txVars, Goto
  <2>3. AskedInv'
    BY <1>11 DEF TypeOK, AskedInv, Holding, BeginRead, dbVars, txVars, Goto
  <2>4. SeenInv'
    BY <1>11 DEF TypeOK, SeenInv, currentSeq, BeginRead, dbVars, txVars, Goto
  <2>5. WrittenInv'
    BY <1>11 DEF TypeOK, WrittenInv, BeginRead, dbVars, txVars, Goto
  <2>6. LogReplays'
    BY <1>11 DEF LogReplays, ModelAt, currentSeq, BeginRead, dbVars, txVars, Goto
  <2> QED BY <2>1, <2>2, <2>3, <2>4, <2>5, <2>6
<1>12. ASSUME NEW r \in Request, FinishRead(r) PROVE IInv'
  <2>1. TypeOK'
    BY <1>12 DEF TypeOK, Labels, FinishRead, dbVars, txVars, Goto
  <2>2. LockInv'
    BY <1>12 DEF TypeOK, LockInv, Holding, FinishRead, dbVars, txVars, Goto
  <2>3. AskedInv'
    BY <1>12 DEF TypeOK, AskedInv, Holding, Reading, FinishRead, Goto
  <2>4. SeenInv'
    BY <1>12 DEF TypeOK, SeenInv, currentSeq, FinishRead, dbVars, txVars, Goto
  <2>5. WrittenInv'
    BY <1>12 DEF TypeOK, WrittenInv, FinishRead, dbVars, txVars, Goto
  <2>6. LogReplays'
    BY <1>12 DEF LogReplays, ModelAt, currentSeq, FinishRead, dbVars, txVars, Goto
  <2> QED BY <2>1, <2>2, <2>3, <2>4, <2>5, <2>6
<1>13. ASSUME NEW r \in Request, InsertSnapshot(r) PROVE IInv'
  <2>1. TypeOK'
    <3>1. req[r].id \in Snapshot
      BY <1>13 DEF TypeOK, AskedInv, Asked, Derivable, InsertSnapshot
    <3>2. DOMAIN snapshots' \subseteq Snapshot
      BY <1>13, <3>1 DEF TypeOK, InsertSnapshot
    <3>3. \A id \in DOMAIN snapshots' : snapshots'[id] \in [revisionSeq : Nat, model : Model]
      BY <1>13 DEF TypeOK, Version, InsertSnapshot
    <3> QED BY <1>13, <3>2, <3>3 DEF TypeOK, Labels, InsertSnapshot, txVars, Goto
  <2>2. LockInv'
    BY <1>13 DEF TypeOK, LockInv, Holding, InsertSnapshot, dbVars, txVars, Goto
  <2>3. AskedInv'
    BY <1>13 DEF TypeOK, AskedInv, Holding, InsertSnapshot, dbVars, txVars, Goto
  <2>4. SeenInv'
    BY <1>13 DEF TypeOK, SeenInv, currentSeq, InsertSnapshot, dbVars, txVars, Goto
  <2>5. WrittenInv'
    BY <1>13 DEF TypeOK, WrittenInv, InsertSnapshot, dbVars, txVars, Goto
  <2>6. LogReplays'
    BY <1>13 DEF LogReplays, ModelAt, currentSeq, InsertSnapshot, dbVars, txVars, Goto
  <2> QED BY <2>1, <2>2, <2>3, <2>4, <2>5, <2>6
<1>14. ASSUME NEW r \in Request, DeleteSnapshot(r) PROVE IInv'
  <2>1. TypeOK'
    BY <1>14 DEF TypeOK, Labels, DeleteSnapshot, dbVars, txVars, Goto
  <2>2. LockInv'
    BY <1>14 DEF TypeOK, LockInv, Holding, DeleteSnapshot, dbVars, txVars, Goto
  <2>3. AskedInv'
    BY <1>14 DEF TypeOK, AskedInv, Holding, DeleteSnapshot, dbVars, txVars, Goto
  <2>4. SeenInv'
    BY <1>14 DEF TypeOK, SeenInv, currentSeq, DeleteSnapshot, dbVars, txVars, Goto
  <2>5. WrittenInv'
    BY <1>14 DEF TypeOK, WrittenInv, DeleteSnapshot, dbVars, txVars, Goto
  <2>6. LogReplays'
    BY <1>14 DEF LogReplays, ModelAt, currentSeq, DeleteSnapshot, dbVars, txVars, Goto
  <2> QED BY <2>1, <2>2, <2>3, <2>4, <2>5, <2>6
<1>15. ASSUME NEW r \in Request, FindDoomed(r) PROVE IInv'
  <2>1. TypeOK'
    BY <1>15 DEF TypeOK, Labels, FindDoomed, dbVars, txVars, Goto
  <2>2. LockInv'
    BY <1>15 DEF TypeOK, LockInv, Holding, FindDoomed, dbVars, txVars, Goto
  <2>3. AskedInv'
    BY <1>15 DEF TypeOK, AskedInv, Holding, FindDoomed, dbVars, txVars, Goto
  <2>4. SeenInv'
    BY <1>15 DEF TypeOK, SeenInv, currentSeq, FindDoomed, dbVars, txVars, Goto
  <2>5. WrittenInv'
    BY <1>15 DEF TypeOK, WrittenInv, FindDoomed, dbVars, txVars, Goto
  <2>6. LogReplays'
    BY <1>15 DEF LogReplays, ModelAt, currentSeq, FindDoomed, dbVars, txVars, Goto
  <2> QED BY <2>1, <2>2, <2>3, <2>4, <2>5, <2>6
<1>16. CASE Crash
  <2>1. TypeOK'
    BY <1>16 DEF TypeOK, Labels, Crash, dbVars
  <2>2. LockInv' /\ AskedInv' /\ SeenInv' /\ WrittenInv'
    BY <1>16 DEF TypeOK, LockInv, AskedInv, SeenInv, WrittenInv, Holding, Crash
  <2>3. LogReplays'
    BY <1>16 DEF LogReplays, ModelAt, currentSeq, Crash, dbVars
  <2> QED BY <2>1, <2>2, <2>3
<1>17. CASE UNCHANGED vars
  <2>1. TypeOK' /\ LogReplays'
    BY <1>17 DEF TypeOK, LogReplays, ModelAt, currentSeq, vars
  <2>2. LockInv' /\ AskedInv' /\ SeenInv' /\ WrittenInv'
    BY <1>17 DEF LockInv, AskedInv, SeenInv, WrittenInv, currentSeq, vars
  <2> QED BY <2>1, <2>2
<1> QED BY <1>1, <1>2, <1>3, <1>4, <1>5, <1>6, <1>7, <1>8, <1>9, <1>10, <1>11, <1>12, <1>13, <1>14, <1>15, <1>16, <1>17
        DEF Next, Handle

LEMMA InitIInv == Init => IInv
<1> SUFFICES ASSUME Init PROVE IInv
  OBVIOUS
<1>1. TypeOK
  BY EmptyLaw DEF Init, TypeOK, Labels, Get, Asked, Nothing, Version
<1>2. LockInv /\ AskedInv /\ SeenInv /\ WrittenInv
  BY DEF Init, LockInv, AskedInv, SeenInv, WrittenInv, Holding
<1>3. LogReplays
  BY DEF Init, LogReplays, ModelAt, currentSeq
<1> QED BY <1>1, <1>2, <1>3 DEF IInv

LEMMA SpecIInv == Spec => []IInv
  BY InitIInv, StepKeepsIInv, PTL DEF Spec

(* The server's state stays what its tables and handlers can hold          *)
(* (runMutation and the request handlers).                                 *)
THEOREM ServerTypeCorrect == Spec => []TypeOK
<1>1. IInv => TypeOK
  BY DEF IInv
<1> QED BY <1>1, SpecIInv, PTL

(* However requests interleave, fail or die with the process, the rows are *)
(* the replay of the revisions table (runMutation).                        *)
THEOREM ServerLogReplays == Spec => []LogReplays
<1>1. IInv => LogReplays
  BY DEF IInv
<1> QED BY <1>1, SpecIInv, PTL
-----------------------------------------------------------------------------
(* Second layer, on top of IInv: what pushes and restores amount to.       *)

(* A push was computed against a version of the log.                       *)
PushAsked == \A r \in Request : req[r].kind = "push" =>
    /\ req[r].expectedSeq \in 0..currentSeq
    /\ req[r].ops = Diff(ModelAt(req[r].expectedSeq), req[r].target)
    /\ req[r].ops # NoOps

(* What a transaction has persisted is what it derived from what it read.  *)
WrittenFrom == \A r \in Request : pc[r] = "written" =>
    written[r] = Derived(r) /\ deriveOps(r) \notin {Failure, NoOps}

GInv == PushAsked /\ WrittenFrom /\ PushLandsOnItsBase /\ RestoresReachTarget

(* A step that neither extends the log, nor changes what is asked, nor     *)
(* persists anything.                                                      *)
Calm ==
    /\ revisions' = revisions /\ req' = req
    /\ \A r \in Request : pc'[r] = "written" =>
          pc[r] = "written" /\ seen'[r] = seen[r] /\ written'[r] = written[r]

LEMMA CalmKeepsGInv == GInv /\ Calm => GInv'
<1> SUFFICES ASSUME GInv, Calm PROVE GInv'
  OBVIOUS
<1>1. PushAsked'
  BY DEF GInv, Calm, PushAsked, currentSeq, ModelAt
<1>2. WrittenFrom'
  BY DEF GInv, Calm, WrittenFrom, Derived, deriveOps
<1>3. PushLandsOnItsBase' /\ RestoresReachTarget'
  BY DEF GInv, Calm, PushLandsOnItsBase, RestoresReachTarget, AskedFor, currentSeq, ModelAt
<1> QED BY <1>1, <1>2, <1>3 DEF GInv

(* The one revision a transaction commits leads to the model that was      *)
(* asked for.                                                              *)
LEMMA CommitReachesTarget ==
  ASSUME IInv, GInv, NEW r \in Request, pc[r] = "written", req[r].kind \in {"push", "restore"}
  PROVE  /\ Persist(rows, written[r]) = req[r].target
         /\ req[r].kind = "push" => req[r].expectedSeq = currentSeq
<1>1. /\ rows \in Model /\ written[r] \in Batch /\ rows = ModelAt(currentSeq)
      /\ seen[r].model = rows /\ seen[r].seq = currentSeq /\ req[r] \in Derivable
  BY DEF IInv, TypeOK, WrittenInv, SeenInv, AskedInv, LogReplays, Holding
<1>2. req[r].target \in Model
  BY <1>1 DEF Derivable
<1>3. deriveOps(r) \in Batch /\ written[r] = Rewrite(rows, deriveOps(r))
  BY <1>1, DeriveType DEF GInv, WrittenFrom, Derived, IInv
<1>4. Persist(rows, written[r]) = Apply(rows, written[r])
  BY <1>1, PersistLaw DEF IInv, WrittenInv
<1>5. Apply(rows, written[r]) = Apply(rows, deriveOps(r))
  BY <1>1, <1>3, RewriteLaw
<1>6. /\ deriveOps(r) = Diff(rows, req[r].target)
      /\ req[r].kind = "push" => req[r].expectedSeq = currentSeq
  <2>1. CASE req[r].kind = "restore"
    BY <1>1, <2>1 DEF deriveOps
  <2>2. CASE req[r].kind = "push"
    <3>1. req[r].expectedSeq = currentSeq /\ deriveOps(r) = req[r].ops
      BY <1>1, <2>2 DEF GInv, WrittenFrom, deriveOps
    <3> QED BY <1>1, <2>2, <3>1 DEF GInv, PushAsked
  <2> QED BY <2>1, <2>2
<1>7. rows # req[r].target
  BY <1>1, <1>2, <1>3, <1>6, EmptyLaw, SameModelLaw
<1> QED BY <1>1, <1>2, <1>4, <1>5, <1>6, <1>7, DiffLaw

LEMMA StepKeepsGInv == IInv /\ GInv /\ [Next]_vars => GInv'
<1> SUFFICES ASSUME IInv, GInv, [Next]_vars PROVE GInv'
  OBVIOUS
<1>t. TypeOK
  BY DEF IInv
<1>1. ASSUME NEW r \in Request, Send(r) PROVE GInv'
  <2>1. PICK q \in Requests : /\ q.kind \in {"mutate", "push"} => q.ops # NoOps
                            /\ req' = [req EXCEPT ![r] = q]
    BY <1>1 DEF Send
  <2>2. q.kind = "push" => /\ q.expectedSeq \in 0..currentSeq
                           /\ q.ops = Diff(ModelAt(q.expectedSeq), q.target)
    BY DEF Requests, Mutate, Push, Restore, Get, Create, Delete
  <2>3. revisions' = revisions
    BY <1>1 DEF Send, dbVars
  <2>4. PushAsked'
    BY <1>t, <2>1, <2>2, <2>3 DEF TypeOK, GInv, PushAsked, currentSeq, ModelAt
  <2>5. WrittenFrom'
    BY <1>t, <1>1 DEF TypeOK, GInv, WrittenFrom, Derived, deriveOps, Send, Goto
  <2>6. PushLandsOnItsBase' /\ RestoresReachTarget'
    BY <2>3 DEF GInv, PushLandsOnItsBase, RestoresReachTarget, AskedFor, currentSeq, ModelAt
  <2> QED BY <2>4, <2>5, <2>6 DEF GInv
<1>2. ASSUME NEW r \in Request, FindSnapshot(r) PROVE GInv'
  <2>1. revisions' = revisions
    BY <1>2 DEF FindSnapshot, dbVars
  <2>2. PushAsked'
    BY <1>t, <1>2, <2>1 DEF TypeOK, GInv, PushAsked, currentSeq, ModelAt, FindSnapshot
  <2>3. WrittenFrom'
    BY <1>t, <1>2 DEF TypeOK, GInv, WrittenFrom, Derived, deriveOps, FindSnapshot, Goto, txVars
  <2>4. PushLandsOnItsBase' /\ RestoresReachTarget'
    BY <2>1 DEF GInv, PushLandsOnItsBase, RestoresReachTarget, AskedFor, currentSeq, ModelAt
  <2> QED BY <2>2, <2>3, <2>4 DEF GInv
<1>3. ASSUME NEW r \in Request, PersistBatch(r) PROVE GInv'
  <2>1. revisions' = revisions /\ req' = req
    BY <1>3 DEF PersistBatch, dbVars
  <2>2. PushAsked' /\ PushLandsOnItsBase' /\ RestoresReachTarget'
    BY <2>1 DEF GInv, PushAsked, PushLandsOnItsBase, RestoresReachTarget, AskedFor,
                currentSeq, ModelAt
  <2>3. WrittenFrom'
    BY <1>t, <1>3 DEF TypeOK, GInv, WrittenFrom, Derived, deriveOps, PersistBatch, Goto
  <2> QED BY <2>2, <2>3 DEF GInv
<1>4. ASSUME NEW r \in Request, CommitTx(r) PROVE GInv'
  <2>1. CASE revisions' = revisions
    <3>1. Calm
      BY <1>t, <1>4, <2>1 DEF TypeOK, Calm, CommitTx, Goto
    <3> QED BY <3>1, CalmKeepsGInv
  <2>2. CASE revisions' # revisions
    <3> DEFINE entry == [ops |-> written[r], author |-> [slot |-> r, asked |-> req[r]],
                         result |-> Persist(rows, written[r])]
    <3>1. revisions' = Append(revisions, entry) /\ req' = req
      BY <1>4, <2>2 DEF CommitTx
    <3>2. revisions \in Seq(Revision) /\ Len(revisions) \in Nat
      BY <1>t DEF TypeOK
    <3> HIDE DEF entry
    <3>3. /\ Len(revisions') = Len(revisions) + 1
          /\ \A s \in 1..Len(revisions) : revisions'[s] = revisions[s]
          /\ revisions'[Len(revisions) + 1] = entry
      BY <3>1, <3>2
    <3>4. PushAsked'
      BY <3>1, <3>2, <3>3 DEF GInv, PushAsked, currentSeq, ModelAt
    <3>5. WrittenFrom'
      BY <1>t, <1>4 DEF TypeOK, GInv, WrittenFrom, Derived, deriveOps, CommitTx, Goto
    <3>6. /\ req[r].kind \in {"push", "restore"} => entry.result = req[r].target
          /\ req[r].kind = "push" => req[r].expectedSeq = Len(revisions)
      BY <1>4, CommitReachesTarget DEF CommitTx, entry, currentSeq
    <3>7. entry.author.asked = req[r]
      BY DEF entry
    <3>8. PushLandsOnItsBase'
      BY <3>2, <3>3, <3>6, <3>7 DEF GInv, PushLandsOnItsBase, AskedFor, currentSeq, ModelAt
    <3>9. RestoresReachTarget'
      BY <3>2, <3>3, <3>6, <3>7 DEF GInv, RestoresReachTarget, AskedFor, currentSeq, ModelAt
    <3> QED BY <3>4, <3>5, <3>8, <3>9 DEF GInv
  <2> QED BY <2>1, <2>2
<1>5. ASSUME NEW r \in Request, LockProject(r) \/ LoadModel(r) \/ ReadSeq(r) PROVE GInv'
  <2>1. Calm
    BY <1>t, <1>5 DEF TypeOK, Calm, LockProject, LoadModel, ReadSeq, Goto, dbVars, txVars
  <2> QED BY <2>1, CalmKeepsGInv
<1>6. ASSUME NEW r \in Request, RollBack(r) \/ AnswerNoop(r) \/ PublishOps(r) PROVE GInv'
  <2>1. Calm
    BY <1>t, <1>6 DEF TypeOK, Calm, RollBack, AnswerNoop, PublishOps, Goto, dbVars, txVars
  <2> QED BY <2>1, CalmKeepsGInv
<1>7. ASSUME NEW r \in Request, BeginRead(r) \/ FinishRead(r) PROVE GInv'
  <2>1. Calm
    BY <1>t, <1>7 DEF TypeOK, Calm, BeginRead, FinishRead, Goto, dbVars, txVars
  <2> QED BY <2>1, CalmKeepsGInv
<1>8. ASSUME NEW r \in Request, InsertSnapshot(r) \/ FindDoomed(r) \/ DeleteSnapshot(r) PROVE GInv'
  <2>1. Calm
    BY <1>t, <1>8 DEF TypeOK, Calm, InsertSnapshot, FindDoomed, DeleteSnapshot, Goto, dbVars, txVars
  <2> QED BY <2>1, CalmKeepsGInv
<1>9. CASE Crash
  <2>1. Calm
    BY <1>9 DEF Calm, Crash, dbVars
  <2> QED BY <2>1, CalmKeepsGInv
<1>10. CASE UNCHANGED vars
  <2>1. Calm
    BY <1>10 DEF Calm, vars
  <2> QED BY <2>1, CalmKeepsGInv
<1> QED BY <1>1, <1>2, <1>3, <1>4, <1>5, <1>6, <1>7, <1>8, <1>9, <1>10 DEF Next, Handle

LEMMA InitGInv == Init => GInv
  BY DEF Init, GInv, PushAsked, WrittenFrom, PushLandsOnItsBase, RestoresReachTarget,
         currentSeq, Get

LEMMA SpecGInv == Spec => []GInv
  BY SpecIInv, InitGInv, StepKeepsGInv, PTL DEF Spec

(* A push that is committed lands on the version it was merged against and *)
(* leaves exactly the merged model, whatever else was in flight            *)
(* (model.push, expectedSeq checked under the row lock).                   *)
THEOREM ServerPushLandsOnItsBase == Spec => []PushLandsOnItsBase
<1>1. GInv => PushLandsOnItsBase
  BY DEF GInv
<1> QED BY <1>1, SpecGInv, PTL
-----------------------------------------------------------------------------
(* What the rest of the system sees of the server: the seq in an answer,   *)
(* the frames on the channel, what a restore that changes nothing has      *)
(* found, and that the whole of it is the abstract log of RevisionLog.     *)
(*                                                                         *)
(* Between COMMIT and publishOps a handler holds no lock, so two of them   *)
(* can be there at once.  What keeps their frames apart is that each one's *)
(* seq names its own revision (AnswerNamesOwnRevision).                    *)

(* Nothing is persisted before the ops are derived.                        *)
Unwritten == \A r \in Request :
    pc[r] \in {"sent", "ready", "locked", "loaded", "deriving"} => written[r] = NoOps

Doomed == \A r \in Request : pc[r] = "deleting" => req[r].kind = "delete"

(* A committed batch that is still to be published is what the log holds   *)
(* at its seq, and the channel has not heard of that seq.                  *)
ToPublish == \A r \in Request : pc[r] = "committed" =>
    /\ req[r].kind \in Writing
    /\ revisions[seen[r].seq + 1].ops = written[r]
    /\ \A i \in DOMAIN channel : channel[i].seq # seen[r].seq + 1

Answers == Unwritten /\ Doomed
HInv == Answers /\ AnswerNamesOwnRevision /\ ToPublish /\ ChannelAnnouncesLog

LEMMA StepKeepsAnswers == IInv /\ Answers /\ [Next]_vars => Answers'
<1> SUFFICES ASSUME TypeOK, Answers, [Next]_vars PROVE Answers'
  BY DEF IInv
<1> USE DEF TypeOK, Answers, Unwritten, Doomed, Goto, dbVars, txVars
<1>1. ASSUME NEW r \in Request, Send(r) \/ FindSnapshot(r) \/ LockProject(r) PROVE Answers'
  BY <1>1 DEF Send, FindSnapshot, LockProject, Arrived
<1>2. ASSUME NEW r \in Request, LoadModel(r) \/ ReadSeq(r) \/ RollBack(r) \/ AnswerNoop(r)
      PROVE  Answers'
  BY <1>2 DEF LoadModel, ReadSeq, RollBack, AnswerNoop
<1>3. ASSUME NEW r \in Request, PersistBatch(r) \/ CommitTx(r) \/ PublishOps(r) PROVE Answers'
  BY <1>3 DEF PersistBatch, CommitTx, PublishOps
<1>4. ASSUME NEW r \in Request, BeginRead(r) \/ FinishRead(r) \/ InsertSnapshot(r) PROVE Answers'
  BY <1>4 DEF BeginRead, FinishRead, InsertSnapshot
<1>5. ASSUME NEW r \in Request, FindDoomed(r) \/ DeleteSnapshot(r) PROVE Answers'
  BY <1>5 DEF FindDoomed, DeleteSnapshot
<1>6. CASE Crash
  BY <1>6 DEF Crash
<1>7. CASE UNCHANGED vars
  BY <1>7 DEF vars
<1> QED BY <1>1, <1>2, <1>3, <1>4, <1>5, <1>6, <1>7 DEF Next, Handle
-----------------------------------------------------------------------------
(* A step that writes neither the log nor the channel and commits nothing: *)
(* every request it answers is a reader, or a writer with nothing to write. *)
Unheard ==
    /\ revisions' = revisions /\ channel' = channel
    /\ \A r \in Request :
          \/ pc'[r] \notin {"committed", "answered"}
          \/ pc'[r] = pc[r] /\ seen'[r] = seen[r] /\ written'[r] = written[r] /\ req'[r] = req[r]
          \/ pc'[r] = "answered" /\ (req'[r].kind \notin Writing \/ written'[r] = NoOps)

LEMMA UnheardKeepsHInv == HInv /\ Unheard /\ Answers' => HInv'
<1> SUFFICES ASSUME HInv, Unheard, Answers' PROVE HInv'
  OBVIOUS
<1>1. AnswerNamesOwnRevision'
  BY DEF HInv, Unheard, AnswerNamesOwnRevision, currentSeq
<1>2. ToPublish'
  BY DEF HInv, Unheard, ToPublish
<1>3. ChannelAnnouncesLog'
  BY DEF HInv, Unheard, ChannelAnnouncesLog, currentSeq
<1> QED BY <1>1, <1>2, <1>3 DEF HInv

(* Which steps these are.                                                  *)
LEMMA UnheardSteps ==
  ASSUME IInv, HInv, NEW r \in Request,
         Send(r) \/ FindSnapshot(r) \/ LockProject(r) \/ LoadModel(r) \/ ReadSeq(r)
            \/ RollBack(r) \/ AnswerNoop(r) \/ PersistBatch(r)
            \/ BeginRead(r) \/ FinishRead(r) \/ InsertSnapshot(r)
            \/ FindDoomed(r) \/ DeleteSnapshot(r)
  PROVE  Unheard /\ rows' = rows /\ \A x \in Request : /\ pc'[x] = "committed" <=> pc[x] = "committed"
                                                       /\ pc'[x] = "committed" => seen'[x] = seen[x]
<1> USE DEF IInv, TypeOK, Goto, dbVars, txVars, Unheard
<1>1. CASE Send(r)
  BY <1>1 DEF Send, Ended
<1>2. CASE FindSnapshot(r) \/ LockProject(r)
  BY <1>2 DEF FindSnapshot, LockProject, Arrived
<1>3. CASE LoadModel(r) \/ ReadSeq(r)
  BY <1>3 DEF LoadModel, ReadSeq
<1>4. CASE RollBack(r) \/ PersistBatch(r)
  BY <1>4 DEF RollBack, PersistBatch
<1>5. CASE AnswerNoop(r)
  <2>1. written[r] = NoOps
    BY <1>5 DEF AnswerNoop, HInv, Answers, Unwritten
  <2> QED BY <1>5, <2>1 DEF AnswerNoop
<1>6. CASE BeginRead(r)
  BY <1>6 DEF BeginRead
<1>7. CASE FinishRead(r)
  <2>1. req[r].kind \notin Writing
    BY <1>7 DEF FinishRead, AskedInv, Reading, Writing
  <2> QED BY <1>7, <2>1 DEF FinishRead
<1>8. CASE InsertSnapshot(r)
  <2>1. req[r].kind \notin Writing
    BY <1>8 DEF InsertSnapshot, AskedInv, Writing
  <2> QED BY <1>8, <2>1 DEF InsertSnapshot
<1>9. CASE FindDoomed(r)
  BY <1>9 DEF FindDoomed
<1>10. CASE DeleteSnapshot(r)
  <2>1. req[r].kind \notin Writing
    BY <1>10 DEF DeleteSnapshot, HInv, Answers, Doomed, Writing
  <2> QED BY <1>10, <2>1 DEF DeleteSnapshot
<1> QED BY <1>1, <1>2, <1>3, <1>4, <1>5, <1>6, <1>7, <1>8, <1>9, <1>10
-----------------------------------------------------------------------------
(* COMMIT either appends the batch as a revision of its own, or fails on   *)
(* the unique index and changes nothing.                                   *)
LEMMA CommitAppends ==
  ASSUME IInv, NEW r \in Request, CommitTx(r)
  PROVE  /\ Len(revisions') = Len(revisions) + 1 /\ Len(revisions) \in Nat
         /\ seen[r].seq = Len(revisions)
         /\ \A s \in 1..Len(revisions) : revisions'[s] = revisions[s]
         /\ revisions'[Len(revisions) + 1] =
               [ops |-> written[r], author |-> [slot |-> r, asked |-> req[r]],
                result |-> Persist(rows, written[r])]
         /\ rows' = Persist(rows, written[r])
         /\ pc' = [pc EXCEPT ![r] = "committed"]
         /\ UNCHANGED <<req, seen, written, channel>>
<1>1. seen[r].seq = currentSeq /\ revisions \in Seq(Revision) /\ Len(revisions) \in Nat
  BY DEF CommitTx, IInv, SeenInv, TypeOK
<1>2. /\ revisions' = Append(revisions, [ops |-> written[r], author |-> [slot |-> r, asked |-> req[r]],
                                       result |-> Persist(rows, written[r])])
      /\ rows' = Persist(rows, written[r])
      /\ pc' = [pc EXCEPT ![r] = "committed"]
      /\ UNCHANGED <<req, seen, written, channel>>
  BY <1>1 DEF CommitTx, Goto
<1> QED BY <1>1, <1>2 DEF currentSeq

LEMMA CommittedOwn ==
  ASSUME IInv, HInv, NEW r \in Request, pc[r] = "committed"
  PROVE  seen[r].seq + 1 \in 1..currentSeq /\ revisions[seen[r].seq + 1].author.slot = r
<1>1. written[r] # NoOps /\ req[r].kind \in Writing
  BY EmptyLaw DEF IInv, WrittenInv, HInv, ToPublish
<1>2. /\ seen[r].seq + 1 \in 1..currentSeq
      /\ revisions[seen[r].seq + 1].author = [slot |-> r, asked |-> req[r]]
  BY <1>1 DEF HInv, AnswerNamesOwnRevision
<1> QED BY <1>2

LEMMA StepKeepsHInv == IInv /\ HInv /\ [Next]_vars => HInv'
<1> SUFFICES ASSUME IInv, HInv, [Next]_vars PROVE HInv'
  OBVIOUS
<1>t. TypeOK
  BY DEF IInv
<1>a. Answers'
  BY StepKeepsAnswers DEF HInv
<1>1. ASSUME NEW r \in Request, CommitTx(r) PROVE HInv'
  <2> DEFINE n == Len(revisions)
             entry == [ops |-> written[r], author |-> [slot |-> r, asked |-> req[r]],
                       result |-> Persist(rows, written[r])]
  <2>1. /\ n \in Nat /\ Len(revisions') = n + 1 /\ seen[r].seq = n
        /\ \A s \in 1..n : revisions'[s] = revisions[s]
        /\ revisions'[n + 1] = entry
        /\ pc' = [pc EXCEPT ![r] = "committed"]
        /\ UNCHANGED <<req, seen, written, channel>>
    BY <1>1, CommitAppends
  <2>2. entry.ops = written[r] /\ entry.author = [slot |-> r, asked |-> req[r]]
    OBVIOUS
  <2> HIDE DEF entry, n
  <2>3. \A x \in Request \ {r} : pc'[x] = pc[x]
    BY <1>t, <2>1 DEF TypeOK
  <2>4. \A x \in Request : pc[x] = "committed" => seen[x].seq + 1 \in 1..n
    BY CommittedOwn DEF currentSeq, n
  <2>5. AnswerNamesOwnRevision'
    <3> SUFFICES ASSUME NEW x \in Request, pc'[x] \in {"committed", "answered"},
                        req[x].kind \in Writing, written[x] # NoOps
                 PROVE  /\ seen[x].seq + 1 \in 1..(n + 1)
                        /\ revisions'[seen[x].seq + 1].author = [slot |-> x, asked |-> req[x]]
      BY <2>1 DEF AnswerNamesOwnRevision, currentSeq
    <3>1. CASE x = r
      BY <2>1, <2>2, <3>1
    <3>2. CASE x # r
      <4>1. /\ seen[x].seq + 1 \in 1..n
            /\ revisions[seen[x].seq + 1].author = [slot |-> x, asked |-> req[x]]
        BY <2>3, <3>2 DEF HInv, AnswerNamesOwnRevision, currentSeq, n
      <4> QED BY <2>1, <4>1
    <3> QED BY <3>1, <3>2
  <2>6. ToPublish'
    <3> SUFFICES ASSUME NEW x \in Request, pc'[x] = "committed"
                 PROVE  /\ req[x].kind \in Writing
                        /\ revisions'[seen[x].seq + 1].ops = written[x]
                        /\ \A i \in DOMAIN channel : channel[i].seq # seen[x].seq + 1
      BY <2>1 DEF ToPublish
    <3>1. CASE x = r
      <4>1. req[r].kind \in Writing
        BY <1>1 DEF IInv, AskedInv, CommitTx, Holding, Derivable, Writing
      <4>2. \A i \in DOMAIN channel : channel[i].seq \in 1..n
        BY DEF HInv, ChannelAnnouncesLog, currentSeq, n
      <4> QED BY <2>1, <2>2, <3>1, <4>1, <4>2
    <3>2. CASE x # r
      BY <2>1, <2>3, <2>4, <3>2 DEF HInv, ToPublish
    <3> QED BY <3>1, <3>2
  <2>7. ChannelAnnouncesLog'
    <3>1. \A i \in DOMAIN channel :
            channel[i].seq \in 1..n /\ channel[i].ops = revisions[channel[i].seq].ops
      BY DEF HInv, ChannelAnnouncesLog, currentSeq, n
    <3>2. \A i, j \in DOMAIN channel : channel[i].seq = channel[j].seq => i = j
      BY DEF HInv, ChannelAnnouncesLog
    <3> QED BY <2>1, <3>1, <3>2 DEF ChannelAnnouncesLog, currentSeq
  <2> QED BY <1>a, <2>5, <2>6, <2>7 DEF HInv
<1>2. ASSUME NEW r \in Request, PublishOps(r) PROVE HInv'
  <2> DEFINE frame == [seq |-> seen[r].seq + 1, ops |-> written[r]]
  <2>1. /\ pc[r] = "committed" /\ pc' = [pc EXCEPT ![r] = "answered"]
        /\ channel' = Append(channel, frame)
        /\ UNCHANGED <<revisions, req, seen, written>>
    BY <1>2 DEF PublishOps, Goto, dbVars, txVars
  <2>2. channel \in Seq(Frame) /\ channel' \in Seq(Frame)
    BY StepKeepsIInv DEF IInv, TypeOK
  <2> HIDE DEF frame
  <2>3. /\ Len(channel') = Len(channel) + 1
        /\ DOMAIN channel = 1..Len(channel) /\ DOMAIN channel' = 1..Len(channel')
        /\ Len(channel) \in Nat
        /\ \A i \in 1..Len(channel) : channel'[i] = channel[i]
        /\ channel'[Len(channel) + 1] = frame
    BY <2>1, <2>2
  <2>4. /\ seen[r].seq + 1 \in 1..currentSeq
        /\ revisions[seen[r].seq + 1].author.slot = r
    BY <2>1, CommittedOwn
  <2>5. AnswerNamesOwnRevision'
    BY <1>t, <2>1 DEF TypeOK, HInv, AnswerNamesOwnRevision, currentSeq
  <2>6. ToPublish'
    <3>1. ASSUME NEW x \in Request, pc'[x] = "committed"
          PROVE  pc[x] = "committed" /\ seen[x].seq + 1 # seen[r].seq + 1
      <4>1. x # r /\ pc[x] = "committed"
        BY <1>t, <2>1, <3>1 DEF TypeOK
      <4>2. revisions[seen[x].seq + 1].author.slot = x
        BY <4>1, CommittedOwn
      <4> QED BY <2>4, <4>1, <4>2
    <3>2. frame.seq = seen[r].seq + 1
      BY DEF frame
    <3> QED BY <2>1, <2>2, <2>3, <3>1, <3>2 DEF HInv, ToPublish
  <2>7. ChannelAnnouncesLog'
    <3>1. frame.seq = seen[r].seq + 1 /\ frame.ops = revisions[seen[r].seq + 1].ops
      BY <2>1 DEF frame, HInv, ToPublish
    <3>2. \A i \in DOMAIN channel : channel[i].seq # frame.seq
      BY <2>1, <3>1 DEF HInv, ToPublish
    <3> QED BY <2>1, <2>2, <2>3, <2>4, <3>1, <3>2 DEF HInv, ChannelAnnouncesLog, currentSeq
  <2> QED BY <1>a, <2>5, <2>6, <2>7 DEF HInv
<1>3. CASE Crash
  <2>1. Unheard
    BY <1>3 DEF Unheard, Crash, dbVars
  <2> QED BY <1>a, <2>1, UnheardKeepsHInv
<1>4. CASE UNCHANGED vars
  <2>1. Unheard
    BY <1>4 DEF Unheard, vars
  <2> QED BY <1>a, <2>1, UnheardKeepsHInv
<1>5. ASSUME NEW r \in Request, Send(r) \/ Handle(r), ~ CommitTx(r), ~ PublishOps(r) PROVE HInv'
  <2>1. Unheard
    BY <1>5, UnheardSteps DEF Handle
  <2> QED BY <1>a, <2>1, UnheardKeepsHInv
<1> QED BY <1>1, <1>2, <1>3, <1>4, <1>5 DEF Next

LEMMA InitHInv == Init => HInv
  BY DEF Init, HInv, Answers, Unwritten, Doomed, AnswerNamesOwnRevision, ToPublish,
         ChannelAnnouncesLog, currentSeq

LEMMA SpecHInv == Spec => []HInv
  BY SpecIInv, InitHInv, StepKeepsHInv, PTL DEF Spec

(* Whatever is sent on the channel is committed, is exactly the revision   *)
(* its seq names, and is sent once (mutateAndPublish).                     *)
THEOREM ServerChannelAnnouncesLog == Spec => []ChannelAnnouncesLog
<1>1. HInv => ChannelAnnouncesLog
  BY DEF HInv
<1> QED BY <1>1, SpecHInv, PTL

(* A writer is answered with the seq of its own revision (runMutation):    *)
(* the fact the web client's test "seq # lastSeq + 1" rests on.            *)
THEOREM ServerAnswerNamesOwnRevision == Spec => []AnswerNamesOwnRevision
<1>1. HInv => AnswerNamesOwnRevision
  BY DEF HInv
<1> QED BY <1>1, SpecHInv, PTL
-----------------------------------------------------------------------------
(* A restore that has nothing to change: under the lock its empty diff     *)
(* says that the rows are the snapshot's model.  Afterwards the log only   *)
(* grows, and what the handler has seen is not touched again.              *)
LEMMA LogGrows ==
  ASSUME IInv, [Next]_vars
  PROVE  /\ currentSeq \in Nat /\ currentSeq' \in Nat /\ currentSeq <= currentSeq'
         /\ \A s \in 0..currentSeq : ModelAt(s)' = ModelAt(s)
<1>t. currentSeq \in Nat
  BY DEF IInv, TypeOK, currentSeq
<1>1. ASSUME revisions' = revisions
      PROVE  currentSeq' = currentSeq /\ \A s \in 0..currentSeq : ModelAt(s)' = ModelAt(s)
  BY <1>1 DEF currentSeq, ModelAt
<1>2. ASSUME NEW r \in Request, CommitTx(r)
      PROVE  currentSeq' = currentSeq + 1 /\ \A s \in 0..currentSeq : ModelAt(s)' = ModelAt(s)
  <2>1. Len(revisions') = Len(revisions) + 1 /\ \A s \in 1..Len(revisions) : revisions'[s] = revisions[s]
    BY <1>2, CommitAppends
  <2> QED BY <1>t, <2>1 DEF currentSeq, ModelAt
<1>3. ASSUME NEW r \in Request, Send(r) \/ Handle(r), ~ CommitTx(r) PROVE revisions' = revisions
  BY <1>3 DEF Handle, Send, FindSnapshot, LockProject, LoadModel, ReadSeq, RollBack, AnswerNoop,
              PersistBatch, PublishOps, BeginRead, FinishRead, InsertSnapshot, FindDoomed,
              DeleteSnapshot, dbVars
<1>4. CASE Crash \/ UNCHANGED vars
  BY <1>t, <1>1, <1>4 DEF Crash, vars, dbVars
<1>5. CASE \E r \in Request : Send(r) \/ Handle(r)
  BY <1>t, <1>1, <1>2, <1>3, <1>5
<1> QED BY <1>4, <1>5 DEF Next

(* No other step turns a request into a restore answered with nothing.     *)
Untouched(x) == NoopRestore(x)' => NoopRestore(x) /\ seen'[x] = seen[x] /\ req'[x] = req[x]

LEMMA OnlyNoopsAnswerNothing ==
  ASSUME IInv, HInv, NEW r \in Request, Send(r) \/ Handle(r), ~ AnswerNoop(r), NEW x \in Request
  PROVE  Untouched(x)
<1> USE DEF IInv, TypeOK, Goto, dbVars, txVars, Untouched, NoopRestore
<1>1. CASE Send(r) \/ FindSnapshot(r) \/ LockProject(r) \/ LoadModel(r) \/ ReadSeq(r)
  BY <1>1 DEF Send, FindSnapshot, LockProject, LoadModel, ReadSeq
<1>2. CASE RollBack(r) \/ PersistBatch(r) \/ BeginRead(r) \/ FindDoomed(r)
  BY <1>2 DEF RollBack, PersistBatch, BeginRead, FindDoomed
<1>3. CASE CommitTx(r)
  BY <1>3 DEF CommitTx
<1>4. CASE PublishOps(r)
  <2>1. written[r] # NoOps
    BY <1>4, EmptyLaw DEF PublishOps, WrittenInv
  <2> QED BY <1>4, <2>1 DEF PublishOps
<1>5. CASE FinishRead(r)
  <2>1. req[r].kind # "restore"
    BY <1>5 DEF FinishRead, AskedInv, Reading
  <2> QED BY <1>5, <2>1 DEF FinishRead
<1>6. CASE InsertSnapshot(r)
  <2>1. req[r].kind # "restore"
    BY <1>6 DEF InsertSnapshot, AskedInv
  <2> QED BY <1>6, <2>1 DEF InsertSnapshot
<1>7. CASE DeleteSnapshot(r)
  <2>1. req[r].kind # "restore"
    BY <1>7 DEF DeleteSnapshot, HInv, Answers, Doomed
  <2> QED BY <1>7, <2>1 DEF DeleteSnapshot
<1> QED BY <1>1, <1>2, <1>3, <1>4, <1>5, <1>6, <1>7 DEF Handle

LEMMA StepKeepsNoops == IInv /\ HInv /\ NoopsAreRestored /\ [Next]_vars => NoopsAreRestored'
<1> SUFFICES ASSUME IInv, HInv, NoopsAreRestored, [Next]_vars PROVE NoopsAreRestored'
  OBVIOUS
<1> DEFINE Fits(x) == seen[x].seq \in 0..currentSeq /\ ModelAt(seen[x].seq) = req[x].target
<1>1. ASSUME NEW x \in Request, Fits(x), seen'[x] = seen[x], req'[x] = req[x] PROVE Fits(x)'
  <2>1. /\ currentSeq \in Nat /\ currentSeq' \in Nat /\ currentSeq <= currentSeq'
        /\ \A s \in 0..currentSeq : ModelAt(s)' = ModelAt(s)
    BY LogGrows
  <2>2. seen[x].seq \in 0..currentSeq'
    BY <1>1, <2>1
  <2> QED BY <1>1, <2>1, <2>2 DEF ModelAt
<1>2. ASSUME NEW x \in Request, Untouched(x), NoopRestore(x)' PROVE Fits(x)'
  BY <1>1, <1>2 DEF Untouched, NoopsAreRestored
<1>3. ASSUME NEW r \in Request, AnswerNoop(r), NEW x \in Request, NoopRestore(x)' PROVE Fits(x)'
  <2>1. /\ seen' = seen /\ req' = req /\ written' = written
        /\ pc' = [pc EXCEPT ![r] = "answered"]
    BY <1>3 DEF AnswerNoop, Goto
  <2>2. CASE x = r
    <3>1. /\ rows \in Model /\ rows = ModelAt(currentSeq) /\ currentSeq \in Nat
          /\ seen[r].model = rows /\ seen[r].seq = currentSeq /\ req[r] \in Derivable
      BY <1>3, currentSeqType
         DEF AnswerNoop, IInv, TypeOK, SeenInv, AskedInv, LogReplays, Holding
    <3>2. req[r].kind = "restore"
      BY <1>3, <2>1, <2>2 DEF NoopRestore
    <3>3. Diff(rows, req[r].target) = NoOps /\ req[r].target \in Model
      BY <1>3, <3>1, <3>2 DEF AnswerNoop, deriveOps, Derivable
    <3>4. rows = req[r].target
      BY <3>1, <3>3, DiffLaw, EmptyLaw
    <3>5. Fits(x)
      BY <2>2, <3>1, <3>4
    <3>6. seen'[x] = seen[x] /\ req'[x] = req[x]
      BY <2>1
    <3> HIDE DEF Fits
    <3> QED BY <1>1, <3>5, <3>6
  <2>3. CASE x # r
    <3>1. Untouched(x)
      BY <2>1, <2>3 DEF Untouched, NoopRestore, IInv, TypeOK
    <3> QED BY <1>2, <1>3, <3>1
  <2> QED BY <2>2, <2>3
<1>4. ASSUME NEW x \in Request, NoopRestore(x)' PROVE Fits(x)'
  <2>1. CASE \E r \in Request : AnswerNoop(r)
    BY <1>3, <1>4, <2>1
  <2>2. CASE \E r \in Request : (Send(r) \/ Handle(r)) /\ ~ AnswerNoop(r)
    BY <1>2, <1>4, <2>2, OnlyNoopsAnswerNothing
  <2>3. CASE Crash \/ UNCHANGED vars
    <3>1. Untouched(x)
      BY <2>3 DEF Crash, vars, Untouched, NoopRestore
    <3> QED BY <1>2, <1>4, <3>1
  <2> QED BY <2>1, <2>2, <2>3 DEF Next
<1> QED BY <1>4 DEF NoopsAreRestored

LEMMA SpecNoops == Spec => []NoopsAreRestored
<1>1. Init => NoopsAreRestored
  BY DEF Init, NoopsAreRestored, NoopRestore
<1> QED BY <1>1, SpecIInv, SpecHInv, StepKeepsNoops, PTL DEF Spec

(* A restore leaves exactly the snapshot's model, whatever was committed   *)
(* while it waited for the lock, and answers without a revision only where *)
(* that model was there already (snapshot.restore).                        *)
THEOREM ServerRestoreReproducesSnapshot == Spec => []RestoreReproducesSnapshot
<1>1. GInv => RestoresReachTarget
  BY DEF GInv
<1> QED BY <1>1, SpecGInv, SpecNoops, PTL DEF RestoreReproducesSnapshot
-----------------------------------------------------------------------------
(* The readers.  Their one snapshot of the database is a version of the    *)
(* log, which only grows: it is still that version when it is answered or  *)
(* inserted.                                                               *)
IsVersion(version) == version.seq \in 0..currentSeq /\ version.model = ModelAt(version.seq)
Reads(r) == pc[r] \in {"reading", "inserting"} \/ (pc[r] = "answered" /\ req[r].kind = "get")
ReadersInv == \A r \in Request : Reads(r) => IsVersion(seen[r])
RowsInv == \A id \in DOMAIN snapshots :
    IsVersion([model |-> snapshots[id].model, seq |-> snapshots[id].revisionSeq])

(* Only BeginRead makes a request a reader.                                *)
LEMMA ReadersFrom ==
  ASSUME IInv, HInv, NEW r \in Request, Send(r) \/ Handle(r), ~ BeginRead(r), NEW x \in Request, Reads(x)'
  PROVE  Reads(x) /\ seen'[x] = seen[x]
<1> USE DEF IInv, TypeOK, Goto, dbVars, txVars, Reads
<1>1. CASE Send(r) \/ FindSnapshot(r) \/ LockProject(r) \/ LoadModel(r) \/ ReadSeq(r)
  BY <1>1 DEF Send, FindSnapshot, LockProject, LoadModel, ReadSeq, Arrived
<1>2. CASE RollBack(r) \/ PersistBatch(r) \/ CommitTx(r) \/ FindDoomed(r)
  BY <1>2 DEF RollBack, PersistBatch, CommitTx, FindDoomed
<1>3. CASE AnswerNoop(r)
  <2>1. req[r].kind # "get"
    BY <1>3 DEF AnswerNoop, AskedInv, Holding, Derivable
  <2> QED BY <1>3, <2>1 DEF AnswerNoop
<1>4. CASE PublishOps(r)
  <2>1. req[r].kind # "get"
    BY <1>4 DEF PublishOps, HInv, ToPublish, Writing
  <2> QED BY <1>4, <2>1 DEF PublishOps
<1>5. CASE FinishRead(r)
  BY <1>5 DEF FinishRead
<1>6. CASE InsertSnapshot(r)
  <2>1. req[r].kind # "get"
    BY <1>6 DEF InsertSnapshot, AskedInv
  <2> QED BY <1>6, <2>1 DEF InsertSnapshot
<1>7. CASE DeleteSnapshot(r)
  <2>1. req[r].kind # "get"
    BY <1>7 DEF DeleteSnapshot, HInv, Answers, Doomed
  <2> QED BY <1>7, <2>1 DEF DeleteSnapshot
<1> QED BY <1>1, <1>2, <1>3, <1>4, <1>5, <1>6, <1>7 DEF Handle

LEMMA StepKeepsReaders == IInv /\ HInv /\ ReadersInv /\ [Next]_vars => ReadersInv'
<1> SUFFICES ASSUME IInv, HInv, ReadersInv, [Next]_vars, NEW x \in Request, Reads(x)'
             PROVE  IsVersion(seen[x])'
  BY DEF ReadersInv
<1>1. ASSUME Reads(x), seen'[x] = seen[x] PROVE IsVersion(seen[x])'
  <2> DEFINE v == seen[x]
  <2>1. IsVersion(v)
    BY <1>1 DEF ReadersInv
  <2>2. /\ currentSeq \in Nat /\ currentSeq' \in Nat /\ currentSeq <= currentSeq'
        /\ \A s \in 0..currentSeq : ModelAt(s)' = ModelAt(s)
    BY LogGrows
  <2>3. v.seq \in 0..currentSeq /\ v.model = ModelAt(v.seq)
    BY <2>1 DEF IsVersion
  <2> QED BY <1>1, <2>2, <2>3 DEF IsVersion, ModelAt
<1>2. ASSUME NEW r \in Request, BeginRead(r) PROVE IsVersion(seen[x])'
  <2>1. CASE x = r
    <3>1. seen'[x] = [model |-> rows, seq |-> currentSeq] /\ revisions' = revisions
      BY <1>2, <2>1 DEF BeginRead, dbVars, IInv, TypeOK
    <3>2. currentSeq \in Nat /\ rows = ModelAt(currentSeq)
      BY currentSeqType DEF IInv, LogReplays
    <3> QED BY <3>1, <3>2 DEF IsVersion, currentSeq, ModelAt
  <2>2. CASE x # r
    <3>1. Reads(x) /\ seen'[x] = seen[x]
      BY <1>2, <2>2 DEF BeginRead, Goto, Reads, IInv, TypeOK
    <3> QED BY <1>1, <3>1
  <2> QED BY <2>1, <2>2
<1>3. CASE \E r \in Request : (Send(r) \/ Handle(r)) /\ ~ BeginRead(r)
  BY <1>1, <1>3, ReadersFrom
<1>4. CASE Crash \/ UNCHANGED vars
  <2>1. Reads(x) /\ seen'[x] = seen[x]
    BY <1>4 DEF Crash, vars, Reads
  <2> QED BY <1>1, <2>1
<1> QED BY <1>2, <1>3, <1>4 DEF Next

LEMMA StepKeepsRows == IInv /\ ReadersInv /\ RowsInv /\ [Next]_vars => RowsInv'
<1> SUFFICES ASSUME IInv, ReadersInv, RowsInv, [Next]_vars, NEW id \in DOMAIN snapshots'
             PROVE  IsVersion([model |-> snapshots[id].model, seq |-> snapshots[id].revisionSeq])'
  BY DEF RowsInv
<1>l. /\ currentSeq \in Nat /\ currentSeq' \in Nat /\ currentSeq <= currentSeq'
      /\ \A s \in 0..currentSeq : ModelAt(s)' = ModelAt(s)
  BY LogGrows
<1>1. ASSUME NEW v, IsVersion(v), snapshots'[id] = [revisionSeq |-> v.seq, model |-> v.model]
      PROVE  IsVersion([model |-> snapshots[id].model, seq |-> snapshots[id].revisionSeq])'
  <2>1. v.seq \in 0..currentSeq' /\ v.model = ModelAt(v.seq)'
    BY <1>l, <1>1 DEF IsVersion, ModelAt
  <2> QED BY <1>1, <2>1 DEF IsVersion, ModelAt
<1>2. ASSUME id \in DOMAIN snapshots, snapshots'[id] = snapshots[id]
      PROVE  IsVersion([model |-> snapshots[id].model, seq |-> snapshots[id].revisionSeq])'
  <2> DEFINE v == [model |-> snapshots[id].model, seq |-> snapshots[id].revisionSeq]
  <2>1. v.seq \in 0..currentSeq /\ v.model = ModelAt(v.seq)
    BY <1>2 DEF RowsInv, IsVersion
  <2>2. v.seq \in 0..currentSeq' /\ v.model = ModelAt(v.seq)'
    BY <1>2, <1>l, <2>1 DEF ModelAt
  <2> QED BY <1>2, <2>2 DEF IsVersion, ModelAt
<1>3. ASSUME NEW r \in Request, InsertSnapshot(r)
      PROVE  IsVersion([model |-> snapshots[id].model, seq |-> snapshots[id].revisionSeq])'
  <2>1. IsVersion(seen[r])
    BY <1>3 DEF InsertSnapshot, ReadersInv, Reads
  <2>2. CASE id = req[r].id
    <3>1. snapshots'[id] = [revisionSeq |-> seen[r].seq, model |-> seen[r].model]
      BY <1>3, <2>2 DEF InsertSnapshot
    <3>2. \E v : IsVersion(v) /\ snapshots'[id] = [revisionSeq |-> v.seq, model |-> v.model]
      BY <2>1, <3>1
    <3> QED BY <1>1, <3>2
  <2>3. CASE id # req[r].id
    BY <1>2, <1>3, <2>3 DEF InsertSnapshot
  <2> QED BY <2>2, <2>3
<1>4. ASSUME NEW r \in Request, DeleteSnapshot(r)
      PROVE  IsVersion([model |-> snapshots[id].model, seq |-> snapshots[id].revisionSeq])'
  BY <1>2, <1>4 DEF DeleteSnapshot
<1>5. CASE snapshots' = snapshots
  BY <1>2, <1>5
<1>6. \/ snapshots' = snapshots
      \/ \E r \in Request : InsertSnapshot(r) \/ DeleteSnapshot(r)
  BY DEF Next, Handle, vars, dbVars, Send, FindSnapshot, LockProject, LoadModel, ReadSeq, RollBack,
         AnswerNoop, PersistBatch, CommitTx, PublishOps, BeginRead, FinishRead, FindDoomed, Crash
<1> QED BY <1>3, <1>4, <1>5, <1>6

LEMMA SpecReaders == Spec => [](ReadersInv /\ RowsInv)
<1>1. Init => ReadersInv /\ RowsInv
  BY DEF Init, ReadersInv, RowsInv, Reads
<1>2. IInv /\ HInv /\ ReadersInv /\ RowsInv /\ [Next]_vars => ReadersInv' /\ RowsInv'
  BY StepKeepsReaders, StepKeepsRows
<1> QED BY <1>1, <1>2, SpecIInv, SpecHInv, PTL DEF Spec

(* The model and the seq of an answer to model.get are one version, though *)
(* they are read by two statements (model.get's repeatable read).          *)
THEOREM ServerGetAnswersOneVersion == Spec => []GetAnswersOneVersion
<1>1. ReadersInv => GetAnswersOneVersion
  BY DEF ReadersInv, Reads, IsVersion, GetAnswersOneVersion
<1> QED BY <1>1, SpecReaders, PTL

(* A snapshot's row is the version it names, though it is inserted after   *)
(* the transaction that read it has ended (snapshot.create).               *)
THEOREM ServerSnapshotsAreVersions == Spec => []SnapshotsAreVersions
<1>1. RowsInv => SnapshotsAreVersions
  BY DEF RowsInv, IsVersion, SnapshotsAreVersions
<1> QED BY <1>1, SpecReaders, PTL
-----------------------------------------------------------------------------
(* Step simulation: the log the server's tables and handlers amount to.    *)
AbstractRevision == [ops : Batch, author : {"someone"}, result : Model]
Abstract(rev) == [ops |-> rev.ops, author |-> "someone", result |-> rev.result]
LogOf(revs) == [s \in 1..Len(revs) |-> Abstract(revs[s])]
Pending == {seen[r].seq + 1 : r \in {x \in Request : pc[x] = "committed"}}

LEMMA LogOfType ==
  ASSUME NEW revs \in Seq(Revision)
  PROVE  LogOf(revs) \in Seq(AbstractRevision) /\ Len(LogOf(revs)) = Len(revs)
<1>1. Len(revs) \in Nat /\ \A s \in 1..Len(revs) : Abstract(revs[s]) \in AbstractRevision
  <2>1. \A rev \in Revision : rev.ops \in Batch /\ rev.result \in Model
    BY DEF Revision
  <2>2. \A rev \in Revision : Abstract(rev) \in AbstractRevision
    BY <2>1 DEF Abstract, AbstractRevision
  <2> QED BY <2>2
<1>2. LogOf(revs) \in [1..Len(revs) -> AbstractRevision]
  BY <1>1 DEF LogOf
<1> QED BY <1>1, <1>2

LEMMA LogOfAppend ==
  ASSUME NEW revs \in Seq(Revision), NEW rev \in Revision
  PROVE  LogOf(Append(revs, rev)) = Append(LogOf(revs), Abstract(rev))
<1> DEFINE longer == Append(revs, rev)
<1>1. /\ longer \in Seq(Revision) /\ Len(longer) = Len(revs) + 1 /\ Len(revs) \in Nat
      /\ \A s \in 1..Len(revs) : longer[s] = revs[s]
      /\ longer[Len(revs) + 1] = rev
  OBVIOUS
<1>2. Abstract(rev) \in AbstractRevision
  BY DEF Revision, Abstract, AbstractRevision
<1>3. /\ LogOf(longer) \in Seq(AbstractRevision) /\ Len(LogOf(longer)) = Len(revs) + 1
      /\ LogOf(revs) \in Seq(AbstractRevision) /\ Len(LogOf(revs)) = Len(revs)
  BY <1>1, LogOfType
<1>4. /\ \A s \in 1..Len(revs) : LogOf(longer)[s] = LogOf(revs)[s]
      /\ LogOf(longer)[Len(revs) + 1] = Abstract(rev)
  BY <1>1 DEF LogOf
<1> HIDE DEF longer
<1>5. /\ Append(LogOf(revs), Abstract(rev)) \in Seq(AbstractRevision)
      /\ Len(Append(LogOf(revs), Abstract(rev))) = Len(revs) + 1
      /\ \A s \in 1..Len(revs) : Append(LogOf(revs), Abstract(rev))[s] = LogOf(revs)[s]
      /\ Append(LogOf(revs), Abstract(rev))[Len(revs) + 1] = Abstract(rev)
  BY <1>1, <1>2, <1>3
<1>6. \A s \in 1..(Len(revs) + 1) : LogOf(longer)[s] = Append(LogOf(revs), Abstract(rev))[s]
  BY <1>1, <1>4, <1>5
<1>7. LogOf(longer) = Append(LogOf(revs), Abstract(rev))
  BY <1>3, <1>5, <1>6, SeqEqual
<1> QED BY <1>7 DEF longer

(* COMMIT is the abstract Commit of the batch the handler has derived.     *)
LEMMA CommitSimulates ==
  ASSUME IInv, GInv, NEW r \in Request, CommitTx(r)
  PROVE  Log!Commit(deriveOps(r), "someone") /\ deriveOps(r) \in Batch
<1> DEFINE rev == [ops |-> written[r], author |-> [slot |-> r, asked |-> req[r]],
                   result |-> Persist(rows, written[r])]
<1>1. /\ revisions' = Append(revisions, rev)
      /\ rows' = Persist(rows, written[r])
      /\ pc' = [pc EXCEPT ![r] = "committed"]
      /\ seen' = seen /\ seen[r].seq = currentSeq
  BY DEF CommitTx, Goto, IInv, SeenInv
<1>2. pc[r] = "written" /\ seen[r].model = rows /\ req[r] \in Derivable
  BY DEF CommitTx, IInv, SeenInv, AskedInv, Holding
<1>3. deriveOps(r) \in Batch /\ written[r] = Rewrite(rows, deriveOps(r))
  BY <1>2, DeriveType DEF GInv, WrittenFrom, Derived, IInv
<1>4. Apply(rows, written[r]) # Failure /\ Persist(rows, written[r]) # Failure
  BY <1>2 DEF IInv, WrittenInv
<1>5. revisions \in Seq(Revision) /\ rev \in Revision
  <2>1. Persist(rows, written[r]) \in Model /\ written[r] \in Batch
    BY <1>2, <1>4, PersistLaw, ApplyLaw DEF IInv, WrittenInv, TypeOK
  <2>2. req[r] \in Asked /\ revisions \in Seq(Revision)
    BY DEF IInv, TypeOK
  <2> QED BY <2>1, <2>2 DEF Revision
<1>6. Abstract(rev) = [ops |-> written[r], author |-> "someone", result |-> rows']
  BY <1>1 DEF Abstract
<1> HIDE DEF rev
<1>7. LogOf(revisions)' = Append(LogOf(revisions), Abstract(rev))
  BY <1>1, <1>5, LogOfAppend DEF LogOf
<1>8. Pending' = Pending \cup {currentSeq + 1}
  BY <1>1 DEF Pending, currentSeq, IInv, TypeOK
<1>9. Len(LogOf(revisions)) = currentSeq
  BY <1>5, LogOfType DEF currentSeq
<1> QED BY <1>1, <1>3, <1>4, <1>6, <1>7, <1>8, <1>9
        DEF Log!Commit, Log!Acceptable, Log!currentSeq, LogOf, Abstract, Pending, currentSeq

LEMMA PublishSimulates ==
  ASSUME IInv, HInv, NEW r \in Request, PublishOps(r)
  PROVE  seen[r].seq + 1 \in Pending /\ Log!Announce(seen[r].seq + 1)
<1>1. /\ pc[r] = "committed" /\ pc' = [pc EXCEPT ![r] = "answered"]
      /\ UNCHANGED <<rows, revisions, seen>>
  BY DEF PublishOps, Goto, dbVars, txVars
<1>2. \A x \in Request \ {r} : pc[x] = "committed" => seen[x].seq + 1 # seen[r].seq + 1
  BY <1>1, CommittedOwn
<1>3. Pending' = Pending \ {seen[r].seq + 1}
  <2>1. \A x \in Request : pc'[x] = "committed" <=> pc[x] = "committed" /\ x # r
    BY <1>1 DEF IInv, TypeOK
  <2> QED BY <1>1, <1>2, <2>1 DEF Pending
<1>4. seen[r].seq + 1 \in Pending
  BY <1>1 DEF Pending
<1> QED BY <1>1, <1>3, <1>4 DEF Log!Announce, Pending, currentSeq

LEMMA CrashSimulates ==
  ASSUME Crash
  PROVE  Log!ForgetUnpublished \/ UNCHANGED Log!logVars
<1>1. rows' = rows /\ revisions' = revisions /\ Pending' = {}
  BY DEF Crash, dbVars, Pending
<1> QED BY <1>1 DEF Log!ForgetUnpublished, Log!logVars, Pending, currentSeq

(* Any other step of a handler leaves what the abstract log sees alone.    *)
LEMMA OtherStepsAreSilent ==
  ASSUME IInv, HInv, NEW r \in Request, Send(r) \/ Handle(r), ~ CommitTx(r), ~ PublishOps(r)
  PROVE  UNCHANGED Log!logVars
<1>1. /\ Unheard /\ rows' = rows
      /\ \A x \in Request : /\ pc'[x] = "committed" <=> pc[x] = "committed"
                            /\ pc'[x] = "committed" => seen'[x] = seen[x]
  BY UnheardSteps DEF Handle
<1>2. Pending' = Pending
  BY <1>1 DEF Pending
<1> QED BY <1>1, <1>2 DEF Unheard, Log!logVars, Pending, currentSeq

LEMMA StepSimulates == IInv /\ GInv /\ HInv /\ [Next]_vars => [Log!LogNext]_(Log!logVars)
<1> SUFFICES ASSUME IInv, GInv, HInv, [Next]_vars PROVE [Log!LogNext]_(Log!logVars)
  OBVIOUS
<1>1. ASSUME NEW r \in Request, CommitTx(r) PROVE Log!LogNext
  BY <1>1, CommitSimulates DEF Log!LogNext
<1>2. ASSUME NEW r \in Request, PublishOps(r) PROVE Log!LogNext
  <2>1. seen[r].seq + 1 \in Pending /\ Log!Announce(seen[r].seq + 1)
    BY <1>2, PublishSimulates
  <2>2. \E s \in Pending : Log!Announce(s)
    BY <2>1 DEF Log!Announce
  <2> QED BY <2>2 DEF Log!LogNext, Pending
<1>3. CASE Crash
  BY <1>3, CrashSimulates DEF Log!LogNext
<1>4. ASSUME NEW r \in Request, Send(r) \/ Handle(r), ~ CommitTx(r), ~ PublishOps(r)
      PROVE  UNCHANGED Log!logVars
  BY <1>4, OtherStepsAreSilent
<1>5. CASE UNCHANGED vars
  BY <1>5 DEF vars, Log!logVars, currentSeq
<1> QED BY <1>1, <1>2, <1>3, <1>4, <1>5 DEF Next

(* The server, request by request, is the abstract log the clients are     *)
(* modelled on: every COMMIT is one Commit, every publishOps one Announce, *)
(* a crash forgets what was not announced, and nothing else is visible     *)
(* (mutateAndPublish and runMutation).                                     *)
THEOREM ServerImplementsRevisionLog == Spec => ImplementsRevisionLog
<1>1. Init => Log!LogInit
  BY DEF Init, Log!LogInit, currentSeq
<1> QED BY <1>1, SpecIInv, SpecGInv, SpecHInv, StepSimulates, PTL
        DEF Spec, ImplementsRevisionLog
=============================================================================
