--------------------------- MODULE ProjectServer ----------------------------
(***************************************************************************)
(* One project on the server, request by request: model.mutate,            *)
(* model.push, snapshot.restore (all through mutateAndPublish and          *)
(* runMutation), model.get and snapshot.create (a repeatable-read          *)
(* transaction), snapshot.delete.  Requests interleave at every await.     *)
(* The process may die between any two steps: Postgres then rolls back     *)
(* what was not committed.                                                 *)
(***************************************************************************)
EXTENDS OpAlgebra, FiniteSets

CONSTANTS
    Request,        \* request slots: how many requests are in flight at once
    Snapshot,       \* ids a snapshot row can get
    Kinds,          \* which requests the environment sends
    NoOne,          \* the project row is not locked
    MaxRequests,    \* bound: requests the environment sends in one behaviour
    MaxCrashes      \* bound: times the server process dies

ASSUME ServerBounds == MaxRequests \in Nat /\ MaxCrashes \in Nat /\ NoOne \notin Request

VARIABLES
    rows, revisions,    \* committed state, as in RevisionLog
    snapshots,          \* the snapshots table: a function from ids to rows
    lock,               \* who holds the row lock of SELECT .. FOR UPDATE
    pc, req,            \* per request: where its handler is, what it asked
    seen,               \* per request: the model and seq its handler has read
    written,            \* per request: ops persisted by its open transaction
    channel,            \* frames publishOps has sent, oldest first
    sent, crashes       \* counters for the bounds

vars == <<rows, revisions, snapshots, lock, pc, req, seen, written, channel, sent, crashes>>
txVars == <<lock, seen, written>>
dbVars == <<rows, revisions, snapshots>>

currentSeq == Len(revisions)
ModelAt(s) == IF s = 0 THEN Empty ELSE revisions[s].result

Writing == {"mutate", "push", "restore"}
Reading == {"get", "snapshot"}
Mutate(ops)          == [kind |-> "mutate", ops |-> ops]
Push(ops, seq, goal) == [kind |-> "push", ops |-> ops, expectedSeq |-> seq, target |-> goal]
Restore(id)          == [kind |-> "restore", id |-> id]
Get                  == [kind |-> "get"]
Create(id)           == [kind |-> "snapshot", id |-> id]
Delete(id)           == [kind |-> "delete", id |-> id]

(* A slot whose request has been answered takes the next one.              *)
Ended == {"idle", "answered", "failed"}

(* uuidv7 never gives an id twice, nor one that is being inserted.         *)
FreshIds == {id \in Snapshot \ DOMAIN snapshots :
                \A r \in Request : req[r] = Create(id) => pc[r] \in Ended}

(* Edits and pushes are computed against a version the sender has read,    *)
(* which need not be the current one (a push names the one it read).       *)
Requests ==
    {Mutate(Diff(ModelAt(s), m)) : s \in 0..currentSeq, m \in Model}
    \cup {Push(Diff(ModelAt(s), m), s, m) : s \in 0..currentSeq, m \in Model}
    \cup {Restore(id) : id \in Snapshot} \cup {Get}
    \cup {Create(id) : id \in FreshIds} \cup {Delete(id) : id \in Snapshot}

Nothing == [model |-> Empty, seq |-> 0]

Init ==
    /\ rows = Empty /\ revisions = << >> /\ snapshots = << >>
    /\ lock = NoOne
    /\ pc = [r \in Request |-> "idle"]
    /\ req = [r \in Request |-> Get]
    /\ seen = [r \in Request |-> Nothing]
    /\ written = [r \in Request |-> NoOps]
    /\ channel = << >>
    /\ sent = 0 /\ crashes = 0

Goto(r, label) == pc' = [pc EXCEPT ![r] = label]

(* zod refuses an empty ops array (min(1)), so none is ever sent.          *)
Send(r) ==
    /\ pc[r] \in Ended /\ sent < MaxRequests
    /\ \E q \in Requests :
          /\ q.kind \in Kinds
          /\ q.kind \in {"mutate", "push"} => q.ops # NoOps
          /\ req' = [req EXCEPT ![r] = q]
    /\ Goto(r, "sent")
    /\ sent' = sent + 1
    /\ seen' = [seen EXCEPT ![r] = Nothing]
    /\ written' = [written EXCEPT ![r] = NoOps]
    /\ UNCHANGED <<dbVars, lock, channel, crashes>>
-----------------------------------------------------------------------------
(* snapshot.restore reads the snapshot row before it opens its             *)
(* transaction: NOT_FOUND, or the handler keeps the row's model.           *)
FindSnapshot(r) ==
    /\ pc[r] = "sent" /\ req[r].kind = "restore"
    /\ IF req[r].id \in DOMAIN snapshots
       THEN /\ req' = [req EXCEPT ![r] = [kind |-> "restore", id |-> req[r].id,
                                          target |-> snapshots[req[r].id].model]]
            /\ Goto(r, "ready")
       ELSE Goto(r, "failed") /\ UNCHANGED req
    /\ UNCHANGED <<dbVars, txVars, channel, sent, crashes>>

Arrived(r) == \/ pc[r] = "sent" /\ req[r].kind \in {"mutate", "push"}
              \/ pc[r] = "ready"

(* SELECT id FROM projects .. FOR UPDATE waits for the lock.               *)
(* A mutated form: a plain SELECT.                                         *)
LockProject_PlainSelect(r) ==
    /\ Arrived(r)
    /\ Goto(r, "locked")
    /\ UNCHANGED <<dbVars, req, txVars, channel, sent, crashes>>

LockProject(r) ==
    /\ Arrived(r)
    /\ lock = NoOne
    /\ lock' = r
    /\ Goto(r, "locked")
    /\ UNCHANGED <<dbVars, req, seen, written, channel, sent, crashes>>

(* loadProjectModel; the prepare hook has nothing to do for these three.   *)
LoadModel(r) ==
    /\ pc[r] = "locked"
    /\ seen' = [seen EXCEPT ![r].model = rows]
    /\ Goto(r, "loaded")
    /\ UNCHANGED <<dbVars, req, lock, written, channel, sent, crashes>>

(* currentSeq(tx), read after the model.                                   *)
ReadSeq(r) ==
    /\ pc[r] = "loaded"
    /\ seen' = [seen EXCEPT ![r].seq = currentSeq]
    /\ Goto(r, "deriving")
    /\ UNCHANGED <<dbVars, req, lock, written, channel, sent, crashes>>

(* deriveOps of the three callers: the client's ops, the pushed ops if the *)
(* server has not moved on (CONFLICT otherwise), the diff to the snapshot. *)
(* Mutated forms: push forgets expectedSeq; restore trusts the snapshot's  *)
(* own version as the base of its diff.                                    *)
deriveOps_UncheckedPush(r) ==
    IF req[r].kind = "restore" THEN Diff(seen[r].model, req[r].target) ELSE req[r].ops
deriveOps_StaleRestore(r) ==
    CASE req[r].kind = "mutate"  -> req[r].ops
      [] req[r].kind = "push"    -> IF seen[r].seq = req[r].expectedSeq THEN req[r].ops ELSE Failure
      [] req[r].kind = "restore" -> Diff(ModelAt(IF seen[r].seq = 0 THEN 0 ELSE seen[r].seq - 1),
                                         req[r].target)

deriveOps(r) ==
    CASE req[r].kind = "mutate"  -> req[r].ops
      [] req[r].kind = "push"    -> IF seen[r].seq = req[r].expectedSeq THEN req[r].ops ELSE Failure
      [] req[r].kind = "restore" -> Diff(seen[r].model, req[r].target)

Unlock(r) == lock' = IF lock = r THEN NoOne ELSE lock

(* CONFLICT, OpApplyError or a database error: the transaction rolls back. *)
(* A mutated form: the connection is kept, and the row lock with it.       *)
RollBack_KeepingLock(r) ==
    /\ pc[r] = "deriving"
    /\ \/ deriveOps(r) = Failure
       \/ /\ deriveOps(r) \notin {Failure, NoOps}
          /\ LET ops == Rewrite(seen[r].model, deriveOps(r))
             IN  Apply(seen[r].model, ops) = Failure \/ Persist(rows, ops) = Failure
    /\ Goto(r, "failed")
    /\ UNCHANGED <<dbVars, req, txVars, channel, sent, crashes>>

RollBack(r) ==
    /\ pc[r] = "deriving"
    /\ \/ deriveOps(r) = Failure
       \/ /\ deriveOps(r) \notin {Failure, NoOps}
          /\ LET ops == Rewrite(seen[r].model, deriveOps(r))
             IN  Apply(seen[r].model, ops) = Failure \/ Persist(rows, ops) = Failure
    /\ Unlock(r)
    /\ Goto(r, "failed")
    /\ UNCHANGED <<dbVars, req, seen, written, channel, sent, crashes>>

(* Nothing to change (a restore to the current model): no revision.        *)
AnswerNoop(r) ==
    /\ pc[r] = "deriving"
    /\ deriveOps(r) = NoOps
    /\ Unlock(r)
    /\ Goto(r, "answered")
    /\ UNCHANGED <<dbVars, req, seen, written, channel, sent, crashes>>

(* withAuthoritativeHistory, applyOps, persistOps, insert of the revision: *)
(* all inside the open transaction.                                        *)
Derived(r) == Rewrite(seen[r].model, deriveOps(r))

(* A mutated form: the errors of applyOps and of the statements are        *)
(* swallowed.                                                              *)
PersistBatch_Swallowing(r) ==
    /\ pc[r] = "deriving" /\ deriveOps(r) \notin {Failure, NoOps}
    /\ written' = [written EXCEPT ![r] = Derived(r)]
    /\ Goto(r, "written")
    /\ UNCHANGED <<dbVars, req, lock, seen, channel, sent, crashes>>

PersistBatch(r) ==
    /\ pc[r] = "deriving" /\ deriveOps(r) \notin {Failure, NoOps}
    /\ Apply(seen[r].model, Derived(r)) # Failure /\ Persist(rows, Derived(r)) # Failure
    /\ written' = [written EXCEPT ![r] = Derived(r)]
    /\ Goto(r, "written")
    /\ UNCHANGED <<dbVars, req, lock, seen, channel, sent, crashes>>

(* COMMIT.  ux_revisions_project_seq makes a second revision with the same *)
(* seq impossible: such a transaction fails instead.                       *)
CommitTx(r) ==
    /\ pc[r] = "written"
    /\ Unlock(r)
    /\ IF seen[r].seq = currentSeq
       THEN /\ rows' = Persist(rows, written[r])
            /\ revisions' = Append(revisions, [ops |-> written[r], author |-> [slot |-> r, asked |-> req[r]],
                                              result |-> rows'])
            /\ Goto(r, "committed")
       ELSE Goto(r, "failed") /\ UNCHANGED <<rows, revisions>>
    /\ UNCHANGED <<snapshots, req, seen, written, channel, sent, crashes>>

(* mutateAndPublish: the transaction has resolved, now the channel hears.  *)
PublishOps(r) ==
    /\ pc[r] = "committed"
    /\ channel' = Append(channel, [seq |-> seen[r].seq + 1, ops |-> written[r]])
    /\ Goto(r, "answered")
    /\ UNCHANGED <<dbVars, req, txVars, sent, crashes>>
-----------------------------------------------------------------------------
(* model.get and snapshot.create read the model and then the seq in one    *)
(* repeatable-read transaction: both statements see the database as of the *)
(* first one.                                                              *)
BeginRead(r) ==
    /\ pc[r] = "sent" /\ req[r].kind \in Reading
    /\ seen' = [seen EXCEPT ![r] = [model |-> rows, seq |-> currentSeq]]
    /\ Goto(r, "reading")
    /\ UNCHANGED <<dbVars, req, lock, written, channel, sent, crashes>>

(* A mutated form: the default isolation level, read committed.            *)
FinishRead_ReadCommitted(r) ==
    /\ pc[r] = "reading"
    /\ seen' = [seen EXCEPT ![r].seq = currentSeq]
    /\ Goto(r, IF req[r].kind = "get" THEN "answered" ELSE "inserting")
    /\ UNCHANGED <<dbVars, req, lock, written, channel, sent, crashes>>

FinishRead(r) ==
    /\ pc[r] = "reading"
    /\ Goto(r, IF req[r].kind = "get" THEN "answered" ELSE "inserting")
    /\ UNCHANGED <<dbVars, req, txVars, channel, sent, crashes>>

(* The snapshot row is inserted after the reading transaction has ended.   *)
InsertSnapshot(r) ==
    /\ pc[r] = "inserting"
    /\ snapshots' = [id \in DOMAIN snapshots \cup {req[r].id} |->
                        IF id = req[r].id
                        THEN [revisionSeq |-> seen[r].seq, model |-> seen[r].model]
                        ELSE snapshots[id]]
    /\ Goto(r, "answered")
    /\ UNCHANGED <<rows, revisions, req, txVars, channel, sent, crashes>>

(* snapshot.delete looks for the row and then deletes it, two statements.  *)
FindDoomed(r) ==
    /\ pc[r] = "sent" /\ req[r].kind = "delete"
    /\ Goto(r, IF req[r].id \in DOMAIN snapshots THEN "deleting" ELSE "failed")
    /\ UNCHANGED <<dbVars, req, txVars, channel, sent, crashes>>

DeleteSnapshot(r) ==
    /\ pc[r] = "deleting"
    /\ snapshots' = [id \in DOMAIN snapshots \ {req[r].id} |-> snapshots[id]]
    /\ Goto(r, "answered")
    /\ UNCHANGED <<rows, revisions, req, txVars, channel, sent, crashes>>

Crash ==
    /\ crashes < MaxCrashes
    /\ crashes' = crashes + 1
    /\ pc' = [r \in Request |-> "idle"]
    /\ lock' = NoOne
    /\ UNCHANGED <<dbVars, req, seen, written, channel, sent>>

Handle(r) ==
    \/ FindSnapshot(r) \/ LockProject(r) \/ LoadModel(r) \/ ReadSeq(r)
    \/ RollBack(r) \/ AnswerNoop(r) \/ PersistBatch(r) \/ CommitTx(r) \/ PublishOps(r)
    \/ BeginRead(r) \/ FinishRead(r) \/ InsertSnapshot(r)
    \/ FindDoomed(r) \/ DeleteSnapshot(r)

Next == (\E r \in Request : Send(r) \/ Handle(r)) \/ Crash

(* Every handler keeps running while the process lives, and the lock queue *)
(* of Postgres is fair, so a waiting transaction gets the lock in the end. *)
Fairness == \A r \in Request :
    /\ WF_vars(FindSnapshot(r) \/ LoadModel(r) \/ ReadSeq(r) \/ RollBack(r) \/ AnswerNoop(r)
               \/ PersistBatch(r) \/ CommitTx(r) \/ PublishOps(r) \/ BeginRead(r) \/ FinishRead(r)
               \/ InsertSnapshot(r) \/ FindDoomed(r) \/ DeleteSnapshot(r))
    /\ SF_vars(LockProject(r))

Spec == Init /\ [][Next]_vars
FairSpec == Spec /\ Fairness
-----------------------------------------------------------------------------
Labels == {"idle", "sent", "ready", "locked", "loaded", "deriving", "written", "committed",
           "reading", "inserting", "deleting", "answered", "failed"}

(* What a request can ask: "id" is a snapshot; a restore gets its target   *)
(* from the snapshot row it finds.                                         *)
Derivable == [kind : {"mutate"}, ops : Batch]
             \cup [kind : {"push"}, ops : Batch, expectedSeq : Nat, target : Model]
             \cup [kind : {"restore"}, id : Snapshot, target : Model]
Asked == Derivable \cup [kind : {"get"}] \cup [kind : {"restore", "snapshot", "delete"}, id : Snapshot]
Version == [model : Model, seq : Nat]
Revision == [ops : Batch, author : [slot : Request, asked : Asked], result : Model]
Frame == [seq : Nat, ops : Batch]

TypeOK ==
    /\ rows \in Model
    /\ revisions \in Seq(Revision)
    /\ DOMAIN snapshots \subseteq Snapshot
    /\ \A id \in DOMAIN snapshots : snapshots[id] \in [revisionSeq : Nat, model : Model]
    /\ lock \in Request \cup {NoOne}
    /\ pc \in [Request -> Labels]
    /\ req \in [Request -> Asked]
    /\ seen \in [Request -> Version]
    /\ written \in [Request -> Batch \cup {NoOps}]
    /\ channel \in Seq(Frame)

(* The rows are the log replayed: no interleaving of requests makes the    *)
(* validated model, the persisted rows and the revisions table drift apart *)
(* (runMutation under the project row lock).                               *)
LogReplays ==
    /\ rows = ModelAt(currentSeq)
    /\ \A s \in 1..currentSeq : Apply(ModelAt(s - 1), revisions[s].ops) = ModelAt(s)

AskedFor(s) == revisions[s].author.asked

(* A push is committed only on top of the very version its merge was       *)
(* computed from, so the project becomes exactly the merged model          *)
(* (model.ts:59-62).                                                       *)
PushLandsOnItsBase ==
    \A s \in 1..currentSeq : AskedFor(s).kind = "push" =>
        /\ AskedFor(s).expectedSeq = s - 1
        /\ ModelAt(s) = AskedFor(s).target

(* Whatever was committed while a restore waited for the lock, the restore *)
(* leaves exactly the snapshot's model (snapshot.ts:92-121); and if it     *)
(* answers without a revision of its own, the version it looked at was     *)
(* that model already (mutation.ts: no ops, no revision).                  *)
RestoresReachTarget ==
    \A s \in 1..currentSeq : AskedFor(s).kind = "restore" => ModelAt(s) = AskedFor(s).target
NoopRestore(r) == pc[r] = "answered" /\ req[r].kind = "restore" /\ written[r] = NoOps
NoopsAreRestored ==
    \A r \in Request : NoopRestore(r) =>
        seen[r].seq \in 0..currentSeq /\ ModelAt(seen[r].seq) = req[r].target
RestoreReproducesSnapshot == RestoresReachTarget /\ NoopsAreRestored

(* The model and the seq of one answer belong together; the realtime       *)
(* client replays later frames on top of exactly this pair (model.get).    *)
GetAnswersOneVersion ==
    \A r \in Request : pc[r] = "answered" /\ req[r].kind = "get" =>
        seen[r].model = ModelAt(seen[r].seq)

(* A snapshot's model is the version its revisionSeq names.                *)
SnapshotsAreVersions ==
    \A id \in DOMAIN snapshots : snapshots[id].model = ModelAt(snapshots[id].revisionSeq)

(* What goes out on the channel is committed, is what the log holds, and   *)
(* goes out once (mutate-publish.ts:9-15).                                 *)
ChannelAnnouncesLog ==
    /\ \A i \in DOMAIN channel :
          /\ channel[i].seq \in 1..currentSeq
          /\ channel[i].ops = revisions[channel[i].seq].ops
    /\ \A i, j \in DOMAIN channel : channel[i].seq = channel[j].seq => i = j

(* The seq a writer is answered with is the seq of its own revision: the   *)
(* web client counts on it to notice that someone came in between.         *)
AnswerNamesOwnRevision ==
    \A r \in Request :
        pc[r] \in {"committed", "answered"} /\ req[r].kind \in Writing /\ written[r] # NoOps =>
            /\ seen[r].seq + 1 \in 1..currentSeq
            /\ revisions[seen[r].seq + 1].author = [slot |-> r, asked |-> req[r]]

(* No handler waits for ever: the row lock is always given back.           *)
EveryRequestEnds == \A r \in Request : pc[r] = "sent" ~> pc[r] \in Ended

(* The server implements the abstract log.                                 *)
Log == INSTANCE RevisionLog WITH
    Author <- {"someone"},
    revisions <- [s \in 1..currentSeq |-> [ops |-> revisions[s].ops, author |-> "someone",
                                           result |-> revisions[s].result]],
    unpublished <- {seen[r].seq + 1 : r \in {x \in Request : pc[x] = "committed"}}
ImplementsRevisionLog == Log!LogInit /\ [][Log!LogNext]_(Log!logVars)
=============================================================================
