-------------------------- MODULE EditorSync_proofs -------------------------
(***************************************************************************)
(* Proofs about EditorSync, for any number of editors, any models and      *)
(* batches that obey the laws of OpAlgebra, and any bounds.                *)
(*                                                                         *)
(* ModelAtSeq speaks of an editor between two chain tasks.  What makes it  *)
(* true is what holds in the middle of one: while a request is under way   *)
(* the chunks that are left lead from the version the editor last heard of *)
(* to the model on its screen, unless it knows that it was interleaved.    *)
(***************************************************************************)
EXTENDS EditorSync, SequenceTheorems, WellFoundedInduction, TLAPS

Sound(c) == ~ overwritten[c] /\ alarmed[c] # "unsaved"

(* Every seq an editor holds names a version the log has.                  *)
SeqsKnown(c) ==
    {store[c].seq, cached[c], query[c].seq, chain[c].lastSeq} \subseteq 0..currentSeq

(* A frame on its way carries a revision of the log as it is there.        *)
FramesTrue(c) == \A i \in 1..Len(inbox[c]) :
    inbox[c][i].type = "ops" =>
        /\ inbox[c][i].seq \in 1..currentSeq
        /\ inbox[c][i].ops = revisions[inbox[c][i].seq].ops

(* A request is in flight exactly while a task of the chain waits for one, *)
(* and an answer names a later version, which its chunk made.              *)
CallTrue(c) ==
    /\ call[c].stage # "none" <=> chain[c].phase = "call"
    /\ chain[c].phase = "call" => chain[c].todo # << >>
    /\ chain[c].phase \notin {"idle", "reload"} => chain[c].ops \in Batch
    /\ call[c].stage = "committed" =>
          /\ call[c].seq \in chain[c].lastSeq + 1 .. currentSeq
          /\ Apply(ModelAt(call[c].seq - 1), Head(chain[c].todo)) = ModelAt(call[c].seq)

(* The chunks that are left lead to the model on the screen.               *)
CallLeads(c) == chain[c].phase = "call" /\ Sound(c) =>
    /\ chain[c].left => ~ store[c].here
    /\ store[c].seq <= chain[c].lastSeq
    /\ ~ chain[c].interleaved =>
          LeadsTo(ModelAt(chain[c].lastSeq), chain[c].todo, store[c].model)

(* Without a request the model is the version the store names, or a task   *)
(* is about to replace it.                                                 *)
HeldInSync(c) ==
    /\ chain[c].phase \in {"repair", "settle"} => ~ chain[c].left
    /\ chain[c].phase \in {"idle", "reload"} /\ store[c].here /\ Sound(c) => InSync(c)

ClientInv(c) == SeqsKnown(c) /\ FramesTrue(c) /\ CallTrue(c) /\ CallLeads(c) /\ HeldInSync(c)
SyncInv == SyncTypeOK /\ LogReplays /\ \A c \in Client : ClientInv(c)
-----------------------------------------------------------------------------
(* The log only grows: what a seq named stays what it names.               *)
LogGrows ==
    /\ currentSeq' \in Nat /\ currentSeq <= currentSeq'
    /\ \A s \in 0..currentSeq : ModelAt(s)' = ModelAt(s)
    /\ \A s \in 1..currentSeq : revisions'[s] = revisions[s]

LEMMA LogFacts == LogTypeOK => currentSeq \in Nat /\ \A s \in 0..currentSeq : ModelAt(s) \in Model
<1> SUFFICES ASSUME LogTypeOK PROVE currentSeq \in Nat /\ \A s \in 0..currentSeq : ModelAt(s) \in Model
  OBVIOUS
<1>1. currentSeq \in Nat
  BY DEF LogTypeOK, currentSeq
<1>2. ASSUME NEW s \in 0..currentSeq PROVE ModelAt(s) \in Model
  <2>1. CASE s = 0
    BY <2>1, EmptyLaw DEF ModelAt
  <2>2. CASE s # 0
    <3>1. revisions[s] \in Revision
      BY <2>2 DEF LogTypeOK, currentSeq
    <3> QED BY <2>2, <3>1 DEF ModelAt, Revision
  <2> QED BY <2>1, <2>2
<1> QED BY <1>1, <1>2

LEMMA LogStays ==
  ASSUME LogTypeOK, LogReplays, revisions' = revisions, rows' = rows,
         unpublished' \subseteq unpublished
  PROVE  LogTypeOK' /\ LogReplays' /\ LogGrows
<1>1. currentSeq \in Nat
  BY LogFacts
<1>2. \A s : ModelAt(s)' = ModelAt(s)
  BY DEF ModelAt
<1> QED BY <1>1, <1>2 DEF LogTypeOK, LogReplays, LogGrows, currentSeq

(* A commit keeps the log replayable, and its revision is what the batch,  *)
(* as it was sent, makes of the version before it.                         *)
LEMMA CommitExtends ==
  ASSUME LogTypeOK, LogReplays, NEW b \in Batch, NEW a \in Author, Commit(b, a)
  PROVE  /\ LogTypeOK' /\ LogReplays' /\ LogGrows
         /\ currentSeq' = currentSeq + 1
         /\ \A s : s = currentSeq + 1 => Apply(ModelAt(s - 1), b) = ModelAt(s)'
<1> DEFINE sent == Rewrite(rows, b)
<1>1. sent \in Batch /\ rows \in Model /\ Apply(rows, sent) = Apply(rows, b)
  BY RewriteLaw DEF LogTypeOK
<1>2. rows' \in Model /\ rows' = Apply(rows, b) /\ rows' = Apply(rows, sent)
  BY <1>1, PersistLaw, ApplyLaw DEF Commit, Acceptable
<1>3. [ops |-> sent, author |-> a, result |-> rows'] \in Revision
  BY <1>1, <1>2 DEF Revision
<1>4. currentSeq \in Nat /\ Len(revisions') = currentSeq + 1 /\ revisions' \in Seq(Revision)
  BY <1>3 DEF LogTypeOK, Commit, currentSeq
<1>5. revisions'[currentSeq + 1] = [ops |-> sent, author |-> a, result |-> rows']
  BY <1>3, <1>4 DEF LogTypeOK, Commit, currentSeq
<1>6. \A s \in 1..currentSeq : revisions'[s] = revisions[s]
  BY <1>3, <1>4 DEF LogTypeOK, Commit, currentSeq
<1>7. \A s \in 0..currentSeq : ModelAt(s)' = ModelAt(s)
  BY <1>4, <1>6 DEF ModelAt
<1>8. \A s : s = currentSeq + 1 => ModelAt(s)' = rows'
  BY <1>4, <1>5 DEF ModelAt
<1>9. LogTypeOK'
  <2>1. unpublished \subseteq 1..currentSeq /\ unpublished' = unpublished \cup {currentSeq + 1}
    BY DEF LogTypeOK, Commit, currentSeq
  <2>2. unpublished' \subseteq 1..Len(revisions')
    BY <1>4, <2>1
  <2> QED BY <1>2, <1>4, <2>2 DEF LogTypeOK
<1>10. LogReplays'
  <2>1. ASSUME NEW s \in 1..currentSeq PROVE Apply(ModelAt(s - 1)', revisions'[s].ops) = ModelAt(s)'
    <3>1. s - 1 \in 0..currentSeq /\ s \in 0..currentSeq
      BY <1>4
    <3> QED BY <3>1, <1>6, <1>7 DEF LogReplays, currentSeq
  <2>2. ASSUME NEW s, s = currentSeq + 1
        PROVE  Apply(ModelAt(s - 1)', revisions'[s].ops) = ModelAt(s)'
    <3>1. s - 1 = currentSeq /\ s - 1 \in 0..currentSeq
      BY <1>4, <2>2
    <3>2. ModelAt(s - 1)' = rows
      BY <3>1, <1>7 DEF LogReplays
    <3> QED BY <3>2, <2>2, <1>2, <1>5, <1>8
  <2>3. ASSUME NEW s \in 1..Len(revisions') PROVE Apply(ModelAt(s - 1)', revisions'[s].ops) = ModelAt(s)'
    <3>1. CASE s \in 1..currentSeq
      BY <3>1, <2>1
    <3>2. CASE s = currentSeq + 1
      BY <3>2, <2>2
    <3> QED BY <1>4, <3>1, <3>2
  <2> QED BY <1>4, <1>8, <2>3 DEF LogReplays, currentSeq
<1>11. \A s : s = currentSeq + 1 => Apply(ModelAt(s - 1), b) = ModelAt(s)'
  <2> SUFFICES ASSUME NEW s, s = currentSeq + 1 PROVE Apply(ModelAt(s - 1), b) = ModelAt(s)'
    OBVIOUS
  <2>1. s - 1 = currentSeq
    BY <1>4
  <2> QED BY <1>2, <1>8, <2>1 DEF LogReplays
<1> QED BY <1>4, <1>6, <1>7, <1>9, <1>10, <1>11 DEF LogGrows, currentSeq

LEMMA LongTail == ASSUME NEW S, NEW s \in Seq(S), Len(s) > 1 PROVE Tail(s) # << >>
<1>1. Len(Tail(s)) = Len(s) - 1 /\ Len(s) \in Nat
  OBVIOUS
<1>2. Tail(s) \in Seq(S) /\ Len(Tail(s)) > 0
  BY <1>1
<1>3. \A t \in Seq(S) : Len(t) > 0 => t # << >>
  OBVIOUS
<1> QED BY <1>2, <1>3

(* One chunk further: the rest still leads to where the whole led.         *)
LEMMA LeadsOn ==
  ASSUME NEW m \in Model, NEW chunks \in Seq(Batch), chunks # << >>, NEW n \in Model,
         LeadsTo(m, chunks, n)
  PROVE  /\ LeadsTo(Apply(m, Head(chunks)), Tail(chunks), n)
         /\ Len(chunks) = 1 => Apply(m, Head(chunks)) = n
<1> DEFINE more == Len(Tail(chunks))
<1>1. PICK after \in [0..Len(chunks) -> Model] :
        /\ after[0] = m /\ after[Len(chunks)] = n
        /\ \A i \in 1..Len(chunks) : Apply(after[i-1], chunks[i]) = after[i]
  BY DEF LeadsTo
<1>2. more \in Nat /\ Len(chunks) = more + 1 /\ Head(chunks) = chunks[1]
  OBVIOUS
<1>3. \A i \in 1..more : Tail(chunks)[i] = chunks[i + 1]
  BY <1>2
<1>4. Apply(m, Head(chunks)) = after[1]
  BY <1>1, <1>2
<1> DEFINE rest == [i \in 0..more |-> after[i + 1]]
<1>5. rest \in [0..more -> Model] /\ rest[0] = after[1] /\ rest[more] = n
  BY <1>1, <1>2
<1>6. ASSUME NEW i \in 1..more PROVE Apply(rest[i-1], Tail(chunks)[i]) = rest[i]
  <2>1. rest[i-1] = after[i] /\ rest[i] = after[i+1] /\ i + 1 \in 1..Len(chunks)
    BY <1>2
  <2>2. Apply(after[(i+1)-1], chunks[i+1]) = after[i+1]
    BY <2>1, <1>1
  <2> QED BY <2>1, <2>2, <1>3
<1> QED BY <1>1, <1>2, <1>4, <1>5, <1>6 DEF LeadsTo
-----------------------------------------------------------------------------
(* An editor that takes no part in a step is in order afterwards too.      *)
SameClient(d) ==
    /\ store'[d] = store[d] /\ chain'[d] = chain[d] /\ call'[d] = call[d]
    /\ query'[d] = query[d] /\ cached'[d] = cached[d] /\ inbox'[d] = inbox[d]
    /\ alarmed'[d] = alarmed[d] /\ overwritten'[d] = overwritten[d]

LEMMA SeqTypes ==
  ASSUME SyncTypeOK, NEW d \in Client
  PROVE  /\ store[d] \in Store /\ chain[d] \in Task
         /\ store[d].seq \in Nat /\ cached[d] \in Nat /\ query[d].seq \in Nat
         /\ chain[d].lastSeq \in Nat /\ call[d].seq \in Nat
         /\ store[d].model \in Model /\ chain[d].todo \in Seq(Batch)
         /\ inbox[d] \in Seq(Received)
  BY DEF SyncTypeOK, Store, Task

LEMMA SeqsStayKnown ==
  ASSUME SyncTypeOK, LogGrows, NEW d \in Client, SeqsKnown(d),
         store'[d].seq = store[d].seq, cached'[d] = cached[d], query'[d].seq = query[d].seq,
         chain'[d].lastSeq = chain[d].lastSeq
  PROVE  SeqsKnown(d)'
<1>1. currentSeq \in Nat
  BY LogFacts DEF SyncTypeOK
<1> QED BY <1>1, SeqTypes DEF SeqsKnown, LogGrows

LEMMA FramesStayTrue ==
  ASSUME SyncTypeOK, LogGrows, NEW d \in Client, FramesTrue(d), inbox'[d] = inbox[d]
  PROVE  FramesTrue(d)'
<1>1. currentSeq \in Nat
  BY LogFacts DEF SyncTypeOK
<1> QED BY <1>1 DEF FramesTrue, LogGrows

LEMMA CallStaysTrue ==
  ASSUME SyncTypeOK, LogGrows, NEW d \in Client, SeqsKnown(d), CallTrue(d),
         call'[d] = call[d], chain'[d] = chain[d]
  PROVE  CallTrue(d)'
<1>1. currentSeq \in Nat
  BY LogFacts DEF SyncTypeOK
<1>2. ASSUME call[d].stage = "committed"
      PROVE  /\ call[d].seq \in chain[d].lastSeq + 1 .. currentSeq'
             /\ Apply(ModelAt(call[d].seq - 1)', Head(chain[d].todo)) = ModelAt(call[d].seq)'
  <2>1. call[d].seq \in 0..currentSeq /\ call[d].seq - 1 \in 0..currentSeq
    BY <1>1, <1>2, SeqTypes DEF SeqsKnown, CallTrue
  <2>2. ModelAt(call[d].seq - 1)' = ModelAt(call[d].seq - 1) /\ ModelAt(call[d].seq)' = ModelAt(call[d].seq)
    BY <2>1 DEF LogGrows
  <2> QED BY <1>1, <1>2, <2>2, SeqTypes DEF CallTrue, LogGrows
<1> QED BY <1>2 DEF CallTrue

LEMMA LeadsStay ==
  ASSUME SyncTypeOK, LogGrows, NEW d \in Client, SeqsKnown(d), CallLeads(d),
         chain'[d] = chain[d], store'[d] = store[d], Sound(d)' => Sound(d)
  PROVE  CallLeads(d)'
<1>1. ModelAt(chain[d].lastSeq)' = ModelAt(chain[d].lastSeq)
  BY DEF LogGrows, SeqsKnown
<1> QED BY <1>1 DEF CallLeads

LEMMA HeldStays ==
  ASSUME SyncTypeOK, LogGrows, NEW d \in Client, SeqsKnown(d), HeldInSync(d),
         chain'[d] = chain[d], store'[d].model = store[d].model, store'[d].seq = store[d].seq,
         store'[d].here => store[d].here, Sound(d)' => Sound(d)
  PROVE  HeldInSync(d)'
<1>1. ModelAt(store[d].seq)' = ModelAt(store[d].seq)
  BY DEF LogGrows, SeqsKnown
<1> QED BY <1>1 DEF HeldInSync, InSync

LEMMA OthersUntouched ==
  ASSUME SyncTypeOK, LogGrows, NEW d \in Client, ClientInv(d), SameClient(d)
  PROVE  ClientInv(d)'
<1>1. Sound(d)' <=> Sound(d)
  BY DEF Sound, SameClient
<1> QED BY <1>1, SeqsStayKnown, FramesStayTrue, CallStaysTrue, LeadsStay, HeldStays
        DEF ClientInv, SameClient
-----------------------------------------------------------------------------
(* The store's operations.                                                 *)
LEMMA ResyncShows ==
  ASSUME LogTypeOK, NEW st \in Store, NEW s \in 0..currentSeq
  PROVE  /\ resync(st, s) \in Store /\ setLoaded(st, s) \in Store
         /\ resync(st, s).model = ModelAt(s) /\ resync(st, s).seq = s
         /\ resync(st, s).here = st.here
         /\ setLoaded(st, s).model = ModelAt(s) /\ setLoaded(st, s).seq = s
         /\ setLoaded(st, s).here = TRUE
<1>1. ModelAt(s) \in Model /\ s \in Nat
  BY LogFacts
<1>2. << >> \in Seq(Entry)
  OBVIOUS
<1>3. /\ resync(st, s) \in Store
      /\ resync(st, s).model = ModelAt(s) /\ resync(st, s).seq = s
      /\ resync(st, s).here = st.here
  BY <1>1, <1>2 DEF resync, Store
<1>4. \A r \in Store : /\ [r EXCEPT !.here = TRUE] \in Store
                       /\ [r EXCEPT !.here = TRUE].model = r.model
                       /\ [r EXCEPT !.here = TRUE].seq = r.seq
                       /\ [r EXCEPT !.here = TRUE].here = TRUE
  BY DEF Store
<1> QED BY <1>3, <1>4 DEF setLoaded

LEMMA CappedType == ASSUME NEW S, NEW s \in Seq(S) PROVE Capped(s) \in Seq(S)
<1>1. CASE Len(s) > HISTORY_CAP
  <2>1. HISTORY_CAP \in Nat \ {0}
    BY SyncBounds
  <2>2. Len(s) - HISTORY_CAP + 1 \in 1..Len(s)
    BY <1>1, <2>1
  <2>3. SubSeq(s, Len(s) - HISTORY_CAP + 1, Len(s)) \in Seq(S)
    BY <2>2
  <2> QED BY <1>1, <2>3 DEF Capped
<1> QED BY <1>1 DEF Capped

LEMMA RecordedKeepsModel ==
  ASSUME NEW st \in Store, NEW task \in Task, task.ops \in Batch
  PROVE  /\ Recorded(st, task) \in Store
         /\ Recorded(st, task).model = st.model /\ Recorded(st, task).seq = st.seq
         /\ Recorded(st, task).here = st.here
<1> DEFINE entry == [edit |-> task.edit, ops |-> task.ops]
<1>1. st.undo \in Seq(Entry) /\ st.redo \in Seq(Entry) /\ entry \in Entry
  BY DEF Store, Task, Entry
<1>2. Capped(Append(st.undo, entry)) \in Seq(Entry)
  <2>1. Append(st.undo, entry) \in Seq(Entry)
    BY <1>1
  <2> QED BY <2>1, CappedType
<1>3. CASE task.kind = "edit"
  <2>1. Recorded(st, task) = [st EXCEPT !.undo = Capped(Append(st.undo, entry)), !.redo = << >>]
    BY <1>3 DEF Recorded, recordEdit
  <2>2. << >> \in Seq(Entry)
    OBVIOUS
  <2> HIDE DEF entry
  <2> QED BY <1>1, <1>2, <2>1, <2>2 DEF Store
<1>4. CASE task.kind = "undo"
  <2>1. ASSUME st.undo # << >>
        PROVE  Front(st.undo) \in Seq(Entry) /\ Append(st.redo, Last(st.undo)) \in Seq(Entry)
    BY <1>1, <2>1 DEF Front, Last
  <2> QED BY <1>1, <1>4, <2>1 DEF Recorded, moveUndoToRedo, Store
<1>5. CASE task.kind = "redo"
  <2>1. ASSUME st.redo # << >>
        PROVE  Front(st.redo) \in Seq(Entry) /\ Append(st.undo, Last(st.redo)) \in Seq(Entry)
    BY <1>1, <2>1 DEF Front, Last
  <2> QED BY <1>1, <1>5, <2>1 DEF Recorded, moveRedoToUndo, Store
<1> QED BY <1>3, <1>4, <1>5 DEF Recorded

LEMMA ContinuedShows ==
  ASSUME SyncTypeOK, NEW c \in Client, ClientInv(c), NEW st \in Store, NEW s \in 0..currentSeq
  PROVE  /\ Continued(c, st, s) \in Store /\ Continued(c, st, s).here = st.here
         /\ Resyncs(c, st) => /\ Continued(c, st, s).model = ModelAt(s)
                               /\ Continued(c, st, s).seq = s
         /\ ~ Resyncs(c, st) => /\ Continued(c, st, s).model = st.model
                                 /\ Continued(c, st, s).seq = st.seq
<1> DEFINE fresh == IF Resyncs(c, st) THEN resync(st, s) ELSE st
<1>1. fresh \in Store /\ fresh.here = st.here
  BY ResyncShows DEF SyncTypeOK
<1>2. /\ Resyncs(c, st) => fresh.model = ModelAt(s) /\ fresh.seq = s
      /\ ~ Resyncs(c, st) => fresh.model = st.model /\ fresh.seq = st.seq
  <2>1. resync(st, s).model = ModelAt(s) /\ resync(st, s).seq = s
    BY ResyncShows DEF SyncTypeOK
  <2> QED BY <2>1
<1>3. CASE chain[c].phase = "settle"
  <2>1. chain[c] \in Task /\ chain[c].ops \in Batch
    BY <1>3, SeqTypes DEF ClientInv, CallTrue
  <2>2. Continued(c, st, s) = Recorded(fresh, chain[c])
    BY <1>3 DEF Continued
  <2> HIDE DEF fresh
  <2> QED BY <1>1, <1>2, <2>1, <2>2, RecordedKeepsModel
<1>4. CASE chain[c].phase # "settle"
  BY <1>1, <1>2, <1>4 DEF Continued
<1> QED BY <1>3, <1>4
-----------------------------------------------------------------------------
(* One lemma per action: the types, the log, the editor that acts; the     *)
(* others are untouched.                                                   *)
LEMMA NoLogChange ==
  ASSUME SyncInv, UNCHANGED logVars
  PROVE  LogTypeOK' /\ LogReplays' /\ LogGrows /\ currentSeq \in Nat
         /\ \A s : ModelAt(s)' = ModelAt(s)
<1>1. currentSeq \in Nat
  BY LogFacts DEF SyncInv, SyncTypeOK
<1>2. \A s : ModelAt(s)' = ModelAt(s)
  BY DEF ModelAt, logVars
<1> QED BY <1>1, <1>2, LogStays DEF SyncInv, SyncTypeOK, logVars

LEMMA SpendType ==
  ASSUME SyncTypeOK, NEW what \in Spending, NEW bound, Spend(what, bound), 
         what = "edits" => bound = MaxEdits
  PROVE  spent' \in [Spending -> Nat] /\ spent'.edits <= MaxEdits
<1>1. spent \in [Spending -> Nat] /\ spent.edits <= MaxEdits /\ spent' = [spent EXCEPT ![what] = @ + 1]
  BY DEF SyncTypeOK, Spend
<1>2. MaxEdits \in Nat
  BY SyncBounds
<1>3. CASE what = "edits"
  BY <1>1, <1>2, <1>3 DEF Spending, Spend
<1>4. CASE what # "edits"
  BY <1>1, <1>2, <1>4 DEF Spending
<1> QED BY <1>3, <1>4

LEMMA SubmitKeeps ==
  ASSUME SyncInv, NEW c \in Client, NEW kind \in {"edit", "undo", "redo"}, NEW target,
         Submit(c, kind, target)
  PROVE  SyncInv'
<1> DEFINE ops == Diff(store[c].model, target)
           task == [Idle EXCEPT !.phase = "call", !.kind = kind, !.edit = spent.edits + 1,
                                !.ops = ops, !.todo = Chunks(ops), !.lastSeq = store[c].seq]
<1>1. /\ store[c].model \in Model /\ target \in Model /\ store[c].model # target
      /\ chain[c].phase = "idle" /\ store[c].here
      /\ chain' = [chain EXCEPT ![c] = task] /\ store' = [store EXCEPT ![c].model = target]
      /\ call' = [call EXCEPT ![c] = [stage |-> "sent", seq |-> 0]]
  BY SeqTypes DEF SyncInv, Submit
<1>2. /\ ops \in Batch /\ Chunks(ops) \in Seq(Batch) /\ Chunks(ops) # << >>
      /\ LeadsTo(store[c].model, Chunks(ops), target)
  BY <1>1, DiffLaw
<1>3. spent' \in [Spending -> Nat] /\ spent'.edits <= MaxEdits /\ spent.edits + 1 \in 0..MaxEdits
  <2>1. Spend("edits", MaxEdits)
    BY DEF Submit
  <2>2. spent.edits \in Nat /\ spent.edits < MaxEdits /\ MaxEdits \in Nat
    BY <2>1, SyncBounds DEF Spend, SyncInv, SyncTypeOK, Spending
  <2> QED BY <2>1, <2>2, SpendType DEF SyncInv, Spending
<1>4. /\ task \in Task
      /\ task.phase = "call" /\ task.todo = Chunks(ops) /\ task.ops = ops
      /\ task.lastSeq = store[c].seq /\ task.interleaved = FALSE /\ task.left = FALSE
  <2>1. store[c].seq \in Nat
    BY SeqTypes DEF SyncInv
  <2> HIDE DEF ops
  <2> QED BY <1>2, <1>3, <2>1 DEF Task, Idle, Phases
<1> HIDE DEF ops, task
<1>5. LogTypeOK' /\ LogReplays' /\ LogGrows /\ currentSeq \in Nat /\ \A s : ModelAt(s)' = ModelAt(s)
  BY NoLogChange DEF Submit
<1>6. store' \in [Client -> Store] /\ chain' \in [Client -> Task]
  <2>1. \A st \in Store : [st EXCEPT !.model = target] \in Store
    BY <1>1 DEF Store
  <2>2. store' = [store EXCEPT ![c] = [store[c] EXCEPT !.model = target]]
    BY <1>1
  <2> QED BY <1>1, <1>4, <2>1, <2>2 DEF SyncInv, SyncTypeOK
<1>7. SyncTypeOK'
  <2>1. call' \in [Client -> [stage : {"none", "sent", "committed", "error"}, seq : Nat]]
    BY <1>1 DEF SyncInv, SyncTypeOK
  <2>2. UNCHANGED <<query, cached, sock, inbox, dialog, orphans, alarmed, overwritten>>
    BY DEF Submit
  <2> QED BY <1>3, <1>5, <1>6, <2>1, <2>2 DEF SyncInv, SyncTypeOK
<1>8. ASSUME NEW d \in Client, d # c PROVE ClientInv(d)'
  BY <1>1, <1>5, <1>8, OthersUntouched DEF SyncInv, SyncTypeOK, SameClient, Submit
<1>9. /\ store'[c].model = target /\ store'[c].seq = store[c].seq /\ chain'[c] = task
      /\ call'[c] = [stage |-> "sent", seq |-> 0]
      /\ query'[c] = query[c] /\ cached'[c] = cached[c] /\ inbox'[c] = inbox[c]
      /\ (Sound(c)' <=> Sound(c))
  BY <1>1 DEF SyncInv, SyncTypeOK, Store, Submit, Sound
<1>10. ClientInv(c)'
  <2>1. SeqsKnown(c)'
    BY <1>4, <1>5, <1>9, SeqTypes DEF SyncInv, ClientInv, SeqsKnown, LogGrows
  <2>2. FramesTrue(c)'
    BY <1>5, <1>9, FramesStayTrue DEF SyncInv, ClientInv
  <2>3. CallTrue(c)'
    BY <1>2, <1>4, <1>9 DEF CallTrue
  <2>4. CallLeads(c)'
    <3>1. Sound(c) => store[c].model = ModelAt(store[c].seq)
      BY <1>1 DEF SyncInv, ClientInv, HeldInSync, InSync
    <3> QED BY <1>2, <1>4, <1>5, <1>9, <3>1, SeqTypes DEF CallLeads, SyncInv
  <2>5. HeldInSync(c)'
    BY <1>4, <1>9 DEF HeldInSync
  <2> QED BY <2>1, <2>2, <2>3, <2>4, <2>5 DEF ClientInv
<1> QED BY <1>5, <1>7, <1>8, <1>10 DEF SyncInv

LEMMA AuthorKnown == ASSUME NEW c \in Client, NEW e \in 0..MaxEdits PROVE <<c, e>> \in Author
  BY SyncBounds

LEMMA ServerMutateKeeps ==
  ASSUME SyncInv, NEW c \in Client, ServerMutate(c)
  PROVE  SyncInv'
<1> DEFINE b == Head(chain[c].todo)
<1>1. /\ call[c].stage = "sent"
      /\ UNCHANGED <<store, chain, query, cached, sock, inbox, dialog, orphans, spent, alarmed, overwritten>>
  BY DEF ServerMutate
<1>2. /\ chain[c].phase = "call" /\ chain[c].todo # << >> /\ b \in Batch
      /\ chain[c].ops \in Batch /\ chain[c].edit \in 0..MaxEdits
  <2>1. chain[c].phase = "call" /\ chain[c].todo # << >> /\ chain[c].ops \in Batch
    BY <1>1 DEF SyncInv, ClientInv, CallTrue
  <2> QED BY <2>1, SeqTypes DEF SyncInv, Task
<1>3. call[c].seq \in Nat /\ chain[c].lastSeq \in 0..currentSeq /\ currentSeq \in Nat
  BY SeqTypes, LogFacts DEF SyncInv, ClientInv, SeqsKnown, SyncTypeOK
<1>4. /\ LogTypeOK' /\ LogReplays' /\ LogGrows
      /\ call' \in [Client -> [stage : {"none", "sent", "committed", "error"}, seq : Nat]]
      /\ \A d \in Client \ {c} : call'[d] = call[d]
      /\ call'[c].stage \in {"committed", "error"}
      /\ call'[c].stage = "committed" =>
            /\ call'[c].seq = currentSeq + 1 /\ currentSeq' = currentSeq + 1
            /\ \A s : s = currentSeq + 1 => Apply(ModelAt(s - 1)', b) = ModelAt(s)'
  <2>1. CASE Acceptable(b)
    <3>1. Commit(b, <<c, chain[c].edit>>) /\ call' = [call EXCEPT ![c] = [stage |-> "committed", seq |-> currentSeq + 1]]
      BY <2>1 DEF ServerMutate
    <3>2. <<c, chain[c].edit>> \in Author
      BY <1>2, AuthorKnown
    <3>3. /\ LogTypeOK' /\ LogReplays' /\ LogGrows /\ currentSeq' = currentSeq + 1
          /\ \A s : s = currentSeq + 1 => Apply(ModelAt(s - 1), b) = ModelAt(s)'
      BY <1>2, <3>1, <3>2, CommitExtends DEF SyncInv, SyncTypeOK
    <3>4. \A s : s = currentSeq + 1 => ModelAt(s - 1)' = ModelAt(s - 1)
      BY <1>3, <3>3 DEF LogGrows
    <3> HIDE DEF b
    <3> QED BY <1>3, <3>1, <3>3, <3>4 DEF SyncInv, SyncTypeOK
  <2>2. CASE ~ Acceptable(b)
    <3>1. UNCHANGED logVars /\ call' = [call EXCEPT ![c].stage = "error"]
      BY <2>2 DEF ServerMutate
    <3> QED BY <3>1, NoLogChange DEF SyncInv, SyncTypeOK
  <2> QED BY <2>1, <2>2
<1>5. SyncTypeOK'
  BY <1>1, <1>4 DEF SyncInv, SyncTypeOK
<1>6. ASSUME NEW d \in Client, d # c PROVE ClientInv(d)'
  BY <1>1, <1>4, <1>6, OthersUntouched DEF SyncInv, SameClient
<1>7. ClientInv(c)'
  <2>1. Sound(c)' <=> Sound(c)
    BY <1>1 DEF Sound
  <2>2. CallTrue(c)'
    <3>1. PICK s : s = currentSeq + 1
      OBVIOUS
    <3>2. call'[c].stage = "committed" =>
            /\ call'[c].seq = s /\ s \in chain[c].lastSeq + 1 .. currentSeq'
            /\ Apply(ModelAt(s - 1)', b) = ModelAt(s)'
      BY <1>3, <1>4, <3>1
    <3>3. call'[c].stage = "committed" =>
            /\ call'[c].seq \in chain'[c].lastSeq + 1 .. currentSeq'
            /\ Apply(ModelAt(call[c].seq - 1)', Head(chain[c].todo)') = ModelAt(call[c].seq)'
      BY <1>1, <3>2
    <3> QED BY <1>1, <1>2, <1>4, <3>3 DEF CallTrue
  <2> QED BY <1>1, <1>4, <2>1, <2>2, SeqsStayKnown, FramesStayTrue, LeadsStay, HeldStays
          DEF SyncInv, ClientInv
<1> QED BY <1>4, <1>5, <1>6, <1>7 DEF SyncInv

(* What an answer makes of the task.                                       *)
LEMMA AnsweredTask ==
  ASSUME SyncInv, NEW c \in Client, Answer(c)
  PROVE  /\ chain[c].phase = "call" /\ chain[c].todo # << >>
         /\ AfterAnswer(c) \in Task
         /\ AfterAnswer(c).phase = "call" /\ AfterAnswer(c).ops \in Batch
         /\ AfterAnswer(c).todo = Tail(chain[c].todo)
         /\ AfterAnswer(c).lastSeq = call[c].seq
         /\ AfterAnswer(c).left = ~ StillHere(c)
         /\ call[c].seq \in 0..currentSeq
         /\ Sound(c) /\ AfterAnswer(c).left => ~ store[c].here
         /\ Sound(c) => store[c].seq <= call[c].seq
         /\ Sound(c) /\ ~ AfterAnswer(c).interleaved =>
              /\ LeadsTo(ModelAt(call[c].seq), Tail(chain[c].todo), store[c].model)
              /\ Len(chain[c].todo) = 1 => store[c].model = ModelAt(call[c].seq)
<1> DEFINE t == chain[c]
<1>1. /\ t \in Task /\ t.phase = "call" /\ t.todo # << >> /\ t.todo \in Seq(Batch) /\ t.ops \in Batch
      /\ call[c].seq \in t.lastSeq + 1 .. currentSeq
      /\ Apply(ModelAt(call[c].seq - 1), Head(t.todo)) = ModelAt(call[c].seq)
  BY SeqTypes DEF SyncInv, ClientInv, CallTrue, Answer
<1>2. /\ currentSeq \in Nat /\ t.lastSeq \in 0..currentSeq /\ store[c].seq \in 0..currentSeq
      /\ store[c].model \in Model
  BY LogFacts, SeqTypes DEF SyncInv, SyncTypeOK, ClientInv, SeqsKnown
<1>3. Tail(t.todo) \in Seq(Batch) /\ call[c].seq \in 0..currentSeq /\ call[c].seq \in Nat
  BY <1>1, <1>2
<1>4. StillHere(c) \in BOOLEAN
  BY <1>1, SeqTypes DEF SyncInv, StillHere, Task, Store
<1>5. /\ AfterAnswer(c) \in Task
      /\ AfterAnswer(c).phase = "call" /\ AfterAnswer(c).ops = t.ops
      /\ AfterAnswer(c).todo = Tail(t.todo) /\ AfterAnswer(c).lastSeq = call[c].seq
      /\ AfterAnswer(c).left = ~ StillHere(c)
      /\ AfterAnswer(c).interleaved = (t.interleaved \/ call[c].seq # t.lastSeq + 1)
  <2> HIDE DEF t
  <2> SUFFICES ASSUME AfterAnswer(c) = [t EXCEPT !.todo = Tail(@), !.lastSeq = call[c].seq,
                                          !.left = ~ StillHere(c),
                                          !.interleaved = @ \/ call[c].seq # t.lastSeq + 1]
               PROVE  /\ AfterAnswer(c) \in Task
                      /\ AfterAnswer(c).phase = "call" /\ AfterAnswer(c).ops = t.ops
                      /\ AfterAnswer(c).todo = Tail(t.todo) /\ AfterAnswer(c).lastSeq = call[c].seq
                      /\ AfterAnswer(c).left = ~ StillHere(c)
                      /\ AfterAnswer(c).interleaved = (t.interleaved \/ call[c].seq # t.lastSeq + 1)
    BY DEF AfterAnswer, t
  <2> QED BY <1>1, <1>3, <1>4 DEF Task
<1>6. ASSUME Sound(c), ~ AfterAnswer(c).interleaved
      PROVE  /\ LeadsTo(ModelAt(call[c].seq), Tail(t.todo), store[c].model)
             /\ Len(t.todo) = 1 => store[c].model = ModelAt(call[c].seq)
  <2>1. ~ t.interleaved /\ call[c].seq - 1 = t.lastSeq
    <3>1. ~ t.interleaved /\ call[c].seq = t.lastSeq + 1
      BY <1>5, <1>6, Zenon
    <3> QED BY <1>2, <3>1
  <2>2. LeadsTo(ModelAt(t.lastSeq), t.todo, store[c].model)
    BY <1>1, <1>6, <2>1 DEF SyncInv, ClientInv, CallLeads
  <2>3. ModelAt(t.lastSeq) \in Model
    BY <1>2, LogFacts DEF SyncInv, SyncTypeOK
  <2>4. /\ LeadsTo(Apply(ModelAt(t.lastSeq), Head(t.todo)), Tail(t.todo), store[c].model)
        /\ Len(t.todo) = 1 => Apply(ModelAt(t.lastSeq), Head(t.todo)) = store[c].model
    BY <1>1, <1>2, <2>2, <2>3, LeadsOn
  <2> QED BY <1>1, <2>1, <2>4
<1>7. Sound(c) => store[c].seq <= call[c].seq
  <2>1. Sound(c) => store[c].seq <= t.lastSeq
    BY <1>1 DEF SyncInv, ClientInv, CallLeads
  <2> QED BY <1>1, <1>2, <2>1
<1>8. Sound(c) /\ AfterAnswer(c).left => ~ store[c].here
  BY <1>1, <1>5 DEF SyncInv, ClientInv, CallLeads, StillHere
<1> QED BY <1>1, <1>3, <1>5, <1>6, <1>7, <1>8

LEMMA NextChunkKeeps ==
  ASSUME SyncInv, NEW c \in Client, NextChunk(c)
  PROVE  SyncInv'
<1>1. /\ Answer(c) /\ Len(chain[c].todo) > 1
      /\ chain' = [chain EXCEPT ![c] = AfterAnswer(c)]
      /\ call' = [call EXCEPT ![c] = [stage |-> "sent", seq |-> 0]]
      /\ UNCHANGED logVars
      /\ UNCHANGED <<store, query, cached, sock, inbox, dialog, orphans, spent, alarmed, overwritten>>
  BY DEF NextChunk
<1>2. PICK task \in Task : 
      /\ task = AfterAnswer(c) /\ task.phase = "call" /\ task.ops \in Batch
      /\ task.todo = Tail(chain[c].todo) /\ task.lastSeq = call[c].seq
      /\ call[c].seq \in 0..currentSeq
      /\ Sound(c) /\ task.left => ~ store[c].here
      /\ Sound(c) => store[c].seq <= call[c].seq
      /\ Sound(c) /\ ~ task.interleaved =>
            LeadsTo(ModelAt(call[c].seq), Tail(chain[c].todo), store[c].model)
      /\ task.todo # << >>
  <2>1. Tail(chain[c].todo) # << >>
    <3>1. chain[c].todo \in Seq(Batch)
      BY SeqTypes DEF SyncInv
    <3> QED BY <1>1, <3>1, LongTail
  <2> QED BY <1>1, <2>1, AnsweredTask
<1>3. LogTypeOK' /\ LogReplays' /\ LogGrows /\ currentSeq \in Nat /\ \A s : ModelAt(s)' = ModelAt(s)
  BY <1>1, NoLogChange
<1>4. SyncTypeOK'
  BY <1>1, <1>2, <1>3 DEF SyncInv, SyncTypeOK
<1>5. ASSUME NEW d \in Client, d # c PROVE ClientInv(d)'
  BY <1>1, <1>3, <1>5, OthersUntouched DEF SyncInv, SyncTypeOK, SameClient
<1>6. /\ chain'[c] = task /\ call'[c] = [stage |-> "sent", seq |-> 0]
      /\ (Sound(c)' <=> Sound(c))
  BY <1>1, <1>2 DEF SyncInv, SyncTypeOK, Sound
<1>7. ClientInv(c)'
  <2>1. SeqsKnown(c)'
    BY <1>1, <1>2, <1>3, <1>6, SeqTypes DEF SyncInv, ClientInv, SeqsKnown, LogGrows
  <2>2. FramesTrue(c)'
    BY <1>1, <1>3, FramesStayTrue DEF SyncInv, ClientInv
  <2>3. CallTrue(c)'
    <3>1. chain'[c].phase = "call" /\ chain'[c].ops \in Batch
      BY <1>2, <1>6
    <3>2. chain'[c].todo # << >>
      BY <1>2, <1>6, Zenon
    <3>3. call'[c].stage = "sent"
      BY <1>6
    <3> QED BY <3>1, <3>2, <3>3 DEF CallTrue
  <2>4. CallLeads(c)'
    BY <1>1, <1>2, <1>3, <1>6 DEF CallLeads
  <2>5. HeldInSync(c)'
    BY <1>2, <1>6 DEF HeldInSync
  <2> QED BY <2>1, <2>2, <2>3, <2>4, <2>5 DEF ClientInv
<1> QED BY <1>3, <1>4, <1>5, <1>7 DEF SyncInv

LEMMA FetchKeeps ==
  ASSUME SyncTypeOK, NEW c \in Client, fetchQuery(c) \/ query' = query
  PROVE  /\ query' \in [Client -> [stage : {"idle", "asked", "read"}, seq : Nat]]
         /\ query'[c].seq = query[c].seq
         /\ \A d \in Client \ {c} : query'[d] = query[d]
<1>1. query \in [Client -> [stage : {"idle", "asked", "read"}, seq : Nat]]
  BY DEF SyncTypeOK
<1>2. [query[c] EXCEPT !.stage = "asked"] = [stage |-> "asked", seq |-> query[c].seq]
      /\ query[c].seq \in Nat
  BY <1>1
<1>3. query' = query \/ query' = [query EXCEPT ![c] = [query[c] EXCEPT !.stage = "asked"]]
  BY DEF fetchQuery
<1> QED BY <1>1, <1>2, <1>3

LEMMA IdleTask == Idle \in Task
  BY SyncBounds DEF Idle, Task, Phases

LEMMA setSeqShows ==
  ASSUME NEW st \in Store, NEW s \in Nat, st.seq <= s
  PROVE  /\ setSeq(st, s) \in Store /\ setSeq(st, s).seq = s
         /\ setSeq(st, s).model = st.model /\ setSeq(st, s).here = st.here
  BY DEF setSeq, Store

LEMMA LastChunkKeeps ==
  ASSUME SyncInv, NEW c \in Client, LastChunk(c)
  PROVE  SyncInv'
<1> DEFINE task == AfterAnswer(c)
           settling == [task EXCEPT !.phase = "settle"]
<1>1. /\ Answer(c) /\ Len(chain[c].todo) = 1
      /\ call' = [call EXCEPT ![c] = NoCall]
      /\ UNCHANGED logVars
      /\ UNCHANGED <<cached, sock, inbox, dialog, orphans, spent, alarmed, overwritten>>
  BY DEF LastChunk
<1>2. /\ chain[c].phase = "call"
      /\ task \in Task /\ task.ops \in Batch
      /\ task.lastSeq = call[c].seq /\ call[c].seq \in 0..currentSeq
      /\ Sound(c) /\ task.left => ~ store[c].here
      /\ Sound(c) => store[c].seq <= call[c].seq
      /\ Sound(c) /\ ~ task.interleaved => store[c].model = ModelAt(call[c].seq)
  BY <1>1, AnsweredTask
<1>3. /\ settling \in Task /\ settling.phase = "settle" /\ settling.ops \in Batch
      /\ settling.left = task.left /\ settling.lastSeq = call[c].seq
  BY <1>2 DEF Task, Phases
<1>4. \/ /\ task.left /\ chain' = [chain EXCEPT ![c] = Idle] /\ UNCHANGED <<store, query>>
      \/ /\ ~ task.left /\ chain' = [chain EXCEPT ![c] = settling]
         /\ fetchQuery(c) /\ UNCHANGED store
      \/ /\ ~ task.left /\ ~ task.interleaved
         /\ store' = [store EXCEPT ![c] = Recorded(setSeq(@, task.lastSeq), task)]
         /\ chain' = [chain EXCEPT ![c] = Idle] /\ UNCHANGED query
  BY DEF LastChunk
<1> HIDE DEF task, settling
<1>5. LogTypeOK' /\ LogReplays' /\ LogGrows /\ currentSeq \in Nat /\ \A s : ModelAt(s)' = ModelAt(s)
  BY <1>1, NoLogChange
<1>6. /\ query' \in [Client -> [stage : {"idle", "asked", "read"}, seq : Nat]]
      /\ query'[c].seq = query[c].seq /\ \A d \in Client \ {c} : query'[d] = query[d]
  BY <1>4, FetchKeeps DEF SyncInv
<1>7. PICK recorded \in Store :
        /\ recorded = Recorded(setSeq(store[c], task.lastSeq), task)
        /\ recorded.model = store[c].model /\ recorded.here = store[c].here
        /\ recorded.seq \in 0..currentSeq
        /\ Sound(c) => recorded.seq = call[c].seq
  <2>1. store[c] \in Store /\ store[c].seq \in 0..currentSeq
    BY SeqTypes DEF SyncInv, ClientInv, SeqsKnown
  <2>2. /\ setSeq(store[c], task.lastSeq) \in Store
        /\ setSeq(store[c], task.lastSeq).model = store[c].model
        /\ setSeq(store[c], task.lastSeq).here = store[c].here
        /\ setSeq(store[c], task.lastSeq).seq \in 0..currentSeq
    BY <1>2, <1>5, <2>1 DEF setSeq, Store
  <2>3. Sound(c) => setSeq(store[c], task.lastSeq).seq = call[c].seq
    BY <1>2, <1>5, <2>1, setSeqShows
  <2> HIDE DEF task
  <2> QED BY <1>2, <2>2, <2>3, RecordedKeepsModel
<1>8. /\ chain' \in [Client -> Task] /\ store' \in [Client -> Store]
      /\ \A d \in Client \ {c} : chain'[d] = chain[d] /\ store'[d] = store[d]
      /\ \/ task.left /\ chain'[c] = Idle /\ store'[c] = store[c]
         \/ ~ task.left /\ chain'[c] = settling /\ store'[c] = store[c]
         \/ ~ task.left /\ ~ task.interleaved /\ chain'[c] = Idle /\ store'[c] = recorded
  <2>1. chain \in [Client -> Task] /\ store \in [Client -> Store]
    BY DEF SyncInv, SyncTypeOK
  <2>2. \/ task.left /\ chain' = [chain EXCEPT ![c] = Idle] /\ store' = store
        \/ ~ task.left /\ chain' = [chain EXCEPT ![c] = settling] /\ store' = store
        \/ /\ ~ task.left /\ ~ task.interleaved
           /\ chain' = [chain EXCEPT ![c] = Idle] /\ store' = [store EXCEPT ![c] = recorded]
    BY <1>4, <1>7
  <2>3. CASE task.left /\ chain' = [chain EXCEPT ![c] = Idle] /\ store' = store
    BY <2>1, <2>3, IdleTask
  <2>4. CASE ~ task.left /\ chain' = [chain EXCEPT ![c] = settling] /\ store' = store
    BY <1>3, <2>1, <2>4
  <2>5. CASE /\ ~ task.left /\ ~ task.interleaved
             /\ chain' = [chain EXCEPT ![c] = Idle] /\ store' = [store EXCEPT ![c] = recorded]
    BY <1>7, <2>1, <2>5, IdleTask
  <2> QED BY <2>2, <2>3, <2>4, <2>5
<1>9. /\ call' \in [Client -> [stage : {"none", "sent", "committed", "error"}, seq : Nat]]
      /\ call'[c] = NoCall /\ \A d \in Client \ {c} : call'[d] = call[d]
  BY <1>1 DEF SyncInv, SyncTypeOK, NoCall
<1>10. SyncTypeOK'
  BY <1>1, <1>5, <1>6, <1>8, <1>9 DEF SyncInv, SyncTypeOK
<1>11. ASSUME NEW d \in Client, d # c PROVE ClientInv(d)'
  BY <1>1, <1>5, <1>6, <1>8, <1>9, <1>11, OthersUntouched DEF SyncInv, SameClient
<1>12. Idle.phase = "idle" /\ Idle.lastSeq = 0 /\ NoCall.stage = "none"
  BY DEF Idle, NoCall
<1>13. Sound(c)' <=> Sound(c)
  BY <1>1 DEF Sound
<1>14. ClientInv(c)'
  <2>1. SeqsKnown(c)'
    <3>1. store'[c].seq \in 0..currentSeq /\ chain'[c].lastSeq \in 0..currentSeq
      <4>1. store[c].seq \in 0..currentSeq /\ 0 \in 0..currentSeq
        BY <1>5 DEF SyncInv, ClientInv, SeqsKnown
      <4>2. store'[c].seq \in 0..currentSeq
        BY <1>7, <1>8, <4>1
      <4>3. chain'[c].lastSeq \in 0..currentSeq
        BY <1>2, <1>3, <1>8, <1>12, <4>1
      <4> QED BY <4>2, <4>3
    <3>2. cached'[c] \in 0..currentSeq /\ query'[c].seq \in 0..currentSeq
      BY <1>1, <1>6 DEF SyncInv, ClientInv, SeqsKnown
    <3> QED BY <1>5, <3>1, <3>2 DEF SeqsKnown, LogGrows
  <2>2. FramesTrue(c)'
    BY <1>1, <1>5, FramesStayTrue DEF SyncInv, ClientInv
  <2>3. CallTrue(c)'
    BY <1>3, <1>8, <1>9, <1>12 DEF CallTrue
  <2>4. CallLeads(c)'
    BY <1>3, <1>8, <1>12 DEF CallLeads
  <2>5. HeldInSync(c)'
    <3>1. CASE task.left /\ chain'[c] = Idle /\ store'[c] = store[c]
      BY <1>2, <1>12, <1>13, <3>1 DEF HeldInSync
    <3>2. CASE ~ task.left /\ chain'[c] = settling /\ store'[c] = store[c]
      BY <1>3, <3>2 DEF HeldInSync
    <3>3. CASE ~ task.left /\ ~ task.interleaved /\ chain'[c] = Idle /\ store'[c] = recorded
      <4>1. Sound(c) => store'[c].model = ModelAt(store'[c].seq)
        BY <1>2, <1>7, <3>3
      <4>2. ModelAt(store[c].seq)' = ModelAt(store'[c].seq)
        BY <1>5
      <4> QED BY <1>12, <1>13, <3>3, <4>1, <4>2 DEF HeldInSync, InSync
    <3> QED BY <1>8, <3>1, <3>2, <3>3
  <2> QED BY <2>1, <2>2, <2>3, <2>4, <2>5 DEF ClientInv
<1> QED BY <1>5, <1>10, <1>11, <1>14 DEF SyncInv

LEMMA CallFailsKeeps ==
  ASSUME SyncInv, NEW c \in Client, CallFails(c)
  PROVE  SyncInv'
<1>1. /\ call' = [call EXCEPT ![c] = NoCall] /\ Caught(c)
      /\ UNCHANGED logVars
      /\ UNCHANGED <<store, cached, sock, inbox, dialog, alarmed, overwritten>>
  BY DEF CallFails
<1>2. chain[c].phase = "call" /\ chain[c] \in Task /\ chain[c].ops \in Batch
      /\ chain[c].todo \in Seq(Batch) /\ chain[c].todo # << >>
  <2>1. call[c].stage \in {"error", "sent", "committed"}
    BY DEF CallFails
  <2>2. chain[c].phase = "call"
    BY <2>1 DEF SyncInv, ClientInv, CallTrue
  <2> QED BY <2>2, SeqTypes DEF SyncInv, ClientInv, CallTrue
<1>3. orphans' \subseteq [by : Client, edit : 0..MaxEdits, ops : Batch]
  <2>1. [by |-> c, edit |-> chain[c].edit, ops |-> Head(chain[c].todo)]
          \in [by : Client, edit : 0..MaxEdits, ops : Batch]
    <3>1. Head(chain[c].todo) \in Batch
      BY <1>2
    <3> QED BY <1>2, <3>1 DEF Task
  <2>2. \/ orphans' = orphans
        \/ orphans' = orphans \cup
                        {[by |-> c, edit |-> chain[c].edit, ops |-> Head(chain[c].todo)]}
    BY DEF CallFails
  <2> QED BY <2>1, <2>2 DEF SyncInv, SyncTypeOK
<1>4. spent' \in [Spending -> Nat] /\ spent'.edits <= MaxEdits
  <2>1. spent' = spent \/ Spend("faults", MaxFaults)
    BY DEF CallFails
  <2> QED BY <2>1, SpendType DEF SyncInv, SyncTypeOK, Spending
<1>5. LogTypeOK' /\ LogReplays' /\ LogGrows /\ currentSeq \in Nat /\ \A s : ModelAt(s)' = ModelAt(s)
  BY <1>1, NoLogChange
<1>6. PICK task \in Task :
        /\ chain' = [chain EXCEPT ![c] = task] /\ task.lastSeq \in 0..currentSeq
        /\ \/ StillHere(c) /\ task.phase = "repair" /\ task.left = FALSE /\ task.ops \in Batch
           \/ ~ StillHere(c) /\ task = Idle
  <2>1. CASE StillHere(c)
    <3>1. chain' = [chain EXCEPT ![c] = [chain[c] EXCEPT !.phase = "repair"]]
      BY <1>1, <2>1 DEF Caught
    <3>2. chain[c].left = FALSE /\ chain[c].lastSeq \in 0..currentSeq
      BY <1>2, <2>1 DEF StillHere, SyncInv, ClientInv, SeqsKnown, Task
    <3>3. [chain[c] EXCEPT !.phase = "repair"] \in Task
          /\ [chain[c] EXCEPT !.phase = "repair"].phase = "repair"
          /\ [chain[c] EXCEPT !.phase = "repair"].left = chain[c].left
          /\ [chain[c] EXCEPT !.phase = "repair"].ops = chain[c].ops
          /\ [chain[c] EXCEPT !.phase = "repair"].lastSeq = chain[c].lastSeq
      BY <1>2 DEF Task, Phases
    <3> QED BY <1>2, <2>1, <3>1, <3>2, <3>3
  <2>2. CASE ~ StillHere(c)
    <3>1. chain' = [chain EXCEPT ![c] = Idle] /\ Idle.lastSeq = 0
      BY <1>1, <2>2 DEF Caught, Idle
    <3>2. Idle.lastSeq \in 0..currentSeq
      BY <1>5, <3>1
    <3> QED BY <2>2, <3>1, <3>2, IdleTask, Zenon
  <2> QED BY <2>1, <2>2
<1>7. /\ query' \in [Client -> [stage : {"idle", "asked", "read"}, seq : Nat]]
      /\ query'[c].seq = query[c].seq /\ \A d \in Client \ {c} : query'[d] = query[d]
  <2>1. fetchQuery(c) \/ query' = query
    BY <1>1 DEF Caught
  <2> QED BY <2>1, FetchKeeps DEF SyncInv
<1>8. /\ chain' \in [Client -> Task] /\ chain'[c] = task
      /\ call' \in [Client -> [stage : {"none", "sent", "committed", "error"}, seq : Nat]]
      /\ call'[c].stage = "none"
      /\ \A d \in Client \ {c} : chain'[d] = chain[d] /\ call'[d] = call[d]
  BY <1>1, <1>6 DEF SyncInv, SyncTypeOK, NoCall
<1>9. SyncTypeOK'
  BY <1>1, <1>3, <1>4, <1>5, <1>7, <1>8 DEF SyncInv, SyncTypeOK
<1>10. ASSUME NEW d \in Client, d # c PROVE ClientInv(d)'
  BY <1>1, <1>5, <1>7, <1>8, <1>10, OthersUntouched DEF SyncInv, SameClient
<1>11. ClientInv(c)'
  <2>1. SeqsKnown(c)'
    BY <1>1, <1>5, <1>6, <1>7, <1>8 DEF SyncInv, ClientInv, SeqsKnown, LogGrows
  <2>2. FramesTrue(c)'
    BY <1>1, <1>5, FramesStayTrue DEF SyncInv, ClientInv
  <2>3. CallTrue(c)'
    BY <1>6, <1>8 DEF CallTrue, Idle
  <2>4. CallLeads(c)'
    BY <1>6, <1>8 DEF CallLeads, Idle
  <2>5. HeldInSync(c)'
    <3>1. CASE task.phase = "repair" /\ task.left = FALSE
      BY <1>8, <3>1 DEF HeldInSync
    <3>2. CASE ~ StillHere(c) /\ task = Idle
      <4>1. Sound(c) => ~ store[c].here
        BY <1>2, <3>2 DEF SyncInv, ClientInv, CallLeads, StillHere
      <4>2. Sound(c)' => ~ store'[c].here
        BY <1>1, <4>1 DEF Sound
      <4> QED BY <1>8, <3>2, <4>2 DEF HeldInSync, Idle
    <3> QED BY <1>6, <3>1, <3>2
  <2> QED BY <2>1, <2>2, <2>3, <2>4, <2>5 DEF ClientInv
<1> QED BY <1>5, <1>9, <1>10, <1>11 DEF SyncInv

LEMMA LogStepKeeps ==
  ASSUME SyncInv, LogTypeOK', LogReplays', LogGrows, UNCHANGED clientVars,
         spent' \in [Spending -> Nat], spent'.edits <= MaxEdits, orphans' \subseteq orphans
  PROVE  SyncInv'
<1>1. SyncTypeOK'
  BY DEF SyncInv, SyncTypeOK, clientVars
<1>2. ASSUME NEW d \in Client PROVE ClientInv(d)'
  BY OthersUntouched DEF SyncInv, SameClient, clientVars
<1> QED BY <1>1, <1>2 DEF SyncInv

LEMMA OrphanArrivesKeeps == ASSUME SyncInv, OrphanArrives PROVE SyncInv'
<1>1. PICK o \in orphans :
        /\ orphans' = orphans \ {o}
        /\ IF Acceptable(o.ops) THEN Commit(o.ops, <<o.by, o.edit>>) ELSE UNCHANGED logVars
  BY DEF OrphanArrives
<1>2. o \in [by : Client, edit : 0..MaxEdits, ops : Batch]
  BY DEF SyncInv, SyncTypeOK
<1>3. o.ops \in Batch /\ <<o.by, o.edit>> \in Author
  BY <1>2, AuthorKnown
<1>4. LogTypeOK' /\ LogReplays' /\ LogGrows
  BY <1>1, <1>3, CommitExtends, NoLogChange DEF SyncInv, SyncTypeOK
<1>5. UNCHANGED clientVars /\ spent' = spent
  BY DEF OrphanArrives
<1> QED BY <1>1, <1>4, <1>5, LogStepKeeps DEF SyncInv, SyncTypeOK

LEMMA OtherWritesKeeps == ASSUME SyncInv, OtherWrites PROVE SyncInv'
<1>1. PICK m \in Model \ {rows} : Commit(Diff(rows, m), <<Other, 0>>)
  BY DEF OtherWrites
<1>2. Diff(rows, m) \in Batch
  BY <1>1, DiffLaw DEF SyncInv, SyncTypeOK, LogTypeOK
<1>3. <<Other, 0>> \in Author
  BY SyncBounds
<1>4. LogTypeOK' /\ LogReplays' /\ LogGrows
  BY <1>1, <1>2, <1>3, CommitExtends DEF SyncInv, SyncTypeOK
<1>5. spent' \in [Spending -> Nat] /\ spent'.edits <= MaxEdits
  BY SpendType DEF OtherWrites, SyncInv, Spending
<1> QED BY <1>4, <1>5, LogStepKeeps DEF OtherWrites

(* Steps of an editor's socket and query that leave its chain and store    *)
(* alone.                                                                  *)
LEMMA QuietKeeps ==
  ASSUME SyncInv, NEW c \in Client, LogTypeOK', LogReplays', LogGrows,
         UNCHANGED <<store, chain, call, cached, orphans, alarmed, overwritten>>,
         spent' \in [Spending -> Nat], spent'.edits <= MaxEdits,
         query' \in [Client -> [stage : {"idle", "asked", "read"}, seq : Nat]],
         query'[c].seq \in 0..currentSeq,
         \A d \in Client \ {c} : query'[d] = query[d] /\ inbox'[d] = inbox[d],
         sock' \in [Client -> [stage : {"closed", "subscribed", "read", "open"}, seq : Nat]],
         inbox' \in [Client -> Seq(Received)], FramesTrue(c)',
         dialog' \in [Client -> [stage : {"none", "committed", "fetch"}, seq : Nat]]
  PROVE  SyncInv'
<1>1. SyncTypeOK'
  BY DEF SyncInv, SyncTypeOK
<1>2. ASSUME NEW d \in Client, d # c PROVE ClientInv(d)'
  BY <1>2, OthersUntouched DEF SyncInv, SameClient
<1>3. ClientInv(c)'
  <2>1. SeqsKnown(c)'
    <3>1. currentSeq \in Nat
      BY LogFacts DEF SyncInv, SyncTypeOK
    <3> QED BY <3>1 DEF SyncInv, ClientInv, SeqsKnown, LogGrows
  <2>2. Sound(c)' <=> Sound(c)
    BY DEF Sound
  <2> QED BY <2>1, <2>2, CallStaysTrue, LeadsStay, HeldStays DEF SyncInv, ClientInv
<1> QED BY <1>1, <1>2, <1>3 DEF SyncInv

LEMMA SpendFacts ==
  ASSUME SyncInv, NEW what \in Spending \ {"edits"}, NEW bound, Spend(what, bound)
  PROVE  spent' \in [Spending -> Nat] /\ spent'.edits <= MaxEdits
  BY SpendType DEF SyncInv

LEMMA QuietFacts ==
  ASSUME SyncInv, NEW c \in Client
  PROVE  /\ query \in [Client -> [stage : {"idle", "asked", "read"}, seq : Nat]]
         /\ sock \in [Client -> [stage : {"closed", "subscribed", "read", "open"}, seq : Nat]]
         /\ inbox \in [Client -> Seq(Received)]
         /\ dialog \in [Client -> [stage : {"none", "committed", "fetch"}, seq : Nat]]
         /\ spent \in [Spending -> Nat] /\ spent.edits <= MaxEdits
         /\ query[c].seq \in 0..currentSeq /\ FramesTrue(c)
         /\ currentSeq \in Nat
         /\ LogTypeOK /\ LogReplays
  BY LogFacts DEF SyncInv, SyncTypeOK, ClientInv, SeqsKnown

LEMMA QueryReadKeeps == ASSUME SyncInv, NEW c \in Client, QueryRead(c) PROVE SyncInv'
<1>1. LogTypeOK' /\ LogReplays' /\ LogGrows /\ FramesTrue(c)'
  BY NoLogChange, FramesStayTrue, QuietFacts DEF QueryRead, SyncInv
<1>2. /\ query' \in [Client -> [stage : {"idle", "asked", "read"}, seq : Nat]]
      /\ query'[c].seq \in 0..currentSeq /\ \A d \in Client \ {c} : query'[d] = query[d]
  BY QuietFacts DEF QueryRead
<1>3. UNCHANGED <<logVars, store, chain, call, cached, sock, inbox, dialog, orphans, spent, alarmed, overwritten>>
  BY DEF QueryRead
<1> QED BY <1>1, <1>2, <1>3, QuietFacts, QuietKeeps

LEMMA BackgroundRefetchKeeps ==
  ASSUME SyncInv, NEW c \in Client, BackgroundRefetch(c) PROVE SyncInv'
<1>1. LogTypeOK' /\ LogReplays' /\ LogGrows /\ FramesTrue(c)'
  BY NoLogChange, FramesStayTrue, QuietFacts DEF BackgroundRefetch, SyncInv
<1>2. /\ query' \in [Client -> [stage : {"idle", "asked", "read"}, seq : Nat]]
      /\ query'[c].seq \in 0..currentSeq /\ \A d \in Client \ {c} : query'[d] = query[d]
  BY QuietFacts, FetchKeeps DEF BackgroundRefetch, SyncInv
<1>3. spent' \in [Spending -> Nat] /\ spent'.edits <= MaxEdits
  BY SpendFacts DEF BackgroundRefetch, Spending
<1>4. UNCHANGED <<store, chain, call, cached, sock, inbox, dialog, orphans, alarmed, overwritten>>
  BY DEF BackgroundRefetch
<1> QED BY <1>1, <1>2, <1>3, <1>4, QuietFacts, QuietKeeps

LEMMA SubscribeKeeps == ASSUME SyncInv, NEW c \in Client, Subscribe(c) PROVE SyncInv'
<1>1. LogTypeOK' /\ LogReplays' /\ LogGrows /\ FramesTrue(c)'
  BY NoLogChange, FramesStayTrue, QuietFacts DEF Subscribe, SyncInv
<1>2. sock' \in [Client -> [stage : {"closed", "subscribed", "read", "open"}, seq : Nat]]
  BY QuietFacts DEF Subscribe
<1>3. UNCHANGED <<store, chain, call, query, cached, inbox, dialog, orphans, spent, alarmed, overwritten>>
  BY DEF Subscribe
<1> QED BY <1>1, <1>2, <1>3, QuietFacts, QuietKeeps

LEMMA ReadSeqKeeps == ASSUME SyncInv, NEW c \in Client, ReadSeq(c) PROVE SyncInv'
<1>1. LogTypeOK' /\ LogReplays' /\ LogGrows /\ FramesTrue(c)'
  BY NoLogChange, FramesStayTrue, QuietFacts DEF ReadSeq, SyncInv
<1>2. sock' \in [Client -> [stage : {"closed", "subscribed", "read", "open"}, seq : Nat]]
  BY QuietFacts DEF ReadSeq
<1>3. UNCHANGED <<store, chain, call, query, cached, inbox, dialog, orphans, spent, alarmed, overwritten>>
  BY DEF ReadSeq
<1> QED BY <1>1, <1>2, <1>3, QuietFacts, QuietKeeps

(* A frame more, or fewer of them.                                         *)
LEMMA FrameArrives ==
  ASSUME SyncInv, LogGrows, NEW c \in Client, NEW frame \in Received,
         frame.type = "ops" => frame.seq \in 1..currentSeq /\ frame.ops = revisions[frame.seq].ops,
         inbox'[c] = Append(inbox[c], frame)
  PROVE  FramesTrue(c)'
<1>1. inbox[c] \in Seq(Received) /\ currentSeq \in Nat
  BY QuietFacts
<1>2. ASSUME NEW i \in 1..Len(inbox'[c]), inbox'[c][i].type = "ops"
      PROVE  /\ inbox'[c][i].seq \in 1..currentSeq
             /\ inbox'[c][i].ops = revisions[inbox'[c][i].seq].ops
  <2>1. CASE i = Len(inbox[c]) + 1
    BY <1>1, <1>2, <2>1
  <2>2. CASE i \in 1..Len(inbox[c])
    BY <1>1, <1>2, <2>2, QuietFacts DEF FramesTrue
  <2> QED BY <1>1, <2>1, <2>2
<1> QED BY <1>1, <1>2 DEF FramesTrue, LogGrows

LEMMA PrefixStaysTrue ==
  ASSUME SyncInv, LogGrows, NEW c \in Client, inbox'[c] \in Prefixes(inbox[c])
  PROVE  FramesTrue(c)' /\ inbox'[c] \in Seq(Received)
<1>1. inbox[c] \in Seq(Received) /\ currentSeq \in Nat
  BY QuietFacts
<1>2. PICK n \in 0..Len(inbox[c]) : inbox'[c] = SubSeq(inbox[c], 1, n)
  BY DEF Prefixes
<1>3. /\ inbox'[c] \in Seq(Received) /\ Len(inbox'[c]) = n
      /\ \A i \in 1..n : inbox'[c][i] = inbox[c][i]
  BY <1>1, <1>2
<1> QED BY <1>1, <1>2, <1>3, QuietFacts DEF FramesTrue, LogGrows

LEMMA SendReadyKeeps == ASSUME SyncInv, NEW c \in Client, SendReady(c) PROVE SyncInv'
<1> DEFINE frame == [type |-> "ready", seq |-> sock[c].seq, ops |-> NoOps]
<1>1. LogTypeOK' /\ LogReplays' /\ LogGrows
  BY NoLogChange DEF SendReady
<1>2. frame \in Received /\ frame.type # "ops" /\ inbox' = [inbox EXCEPT ![c] = Append(@, frame)]
  BY QuietFacts DEF SendReady, Received
<1> HIDE DEF frame
<1>3. inbox' \in [Client -> Seq(Received)] /\ inbox'[c] = Append(inbox[c], frame)
      /\ \A d \in Client \ {c} : inbox'[d] = inbox[d]
  BY <1>2, QuietFacts
<1>4. FramesTrue(c)'
  BY <1>1, <1>2, <1>3, FrameArrives
<1>5. sock' \in [Client -> [stage : {"closed", "subscribed", "read", "open"}, seq : Nat]]
  BY QuietFacts DEF SendReady
<1>6. UNCHANGED <<store, chain, call, query, cached, dialog, orphans, spent, alarmed, overwritten>>
  BY DEF SendReady
<1> QED BY <1>1, <1>3, <1>4, <1>5, <1>6, QuietFacts, QuietKeeps

LEMMA DisconnectKeeps == ASSUME SyncInv, NEW c \in Client, Disconnect(c) PROVE SyncInv'
<1>1. LogTypeOK' /\ LogReplays' /\ LogGrows
  BY NoLogChange DEF Disconnect
<1>2. inbox'[c] \in Prefixes(inbox[c]) /\ \A d \in Client \ {c} : inbox'[d] = inbox[d]
  BY QuietFacts DEF Disconnect
<1>3. FramesTrue(c)' /\ inbox'[c] \in Seq(Received)
  BY <1>1, <1>2, PrefixStaysTrue
<1>4. inbox' \in [Client -> Seq(Received)]
  <2>1. PICK kept : inbox' = [inbox EXCEPT ![c] = kept]
    BY DEF Disconnect
  <2> QED BY <1>3, <2>1, QuietFacts
<1>5. sock' \in [Client -> [stage : {"closed", "subscribed", "read", "open"}, seq : Nat]]
  BY QuietFacts DEF Disconnect
<1>6. spent' \in [Spending -> Nat] /\ spent'.edits <= MaxEdits
  BY SpendFacts DEF Disconnect, Spending
<1>7. UNCHANGED <<store, chain, call, query, cached, dialog, orphans, alarmed, overwritten>>
  BY DEF Disconnect
<1> QED BY <1>1, <1>2, <1>3, <1>4, <1>5, <1>6, <1>7, QuietFacts, QuietKeeps

LEMMA RestoreKeeps == ASSUME SyncInv, NEW c \in Client, Restore(c) PROVE SyncInv'
<1> DEFINE Dialogs == [stage : {"none", "committed", "fetch"}, seq : Nat]
<1>1. PICK s \in 0..currentSeq :
        \/ /\ UNCHANGED logVars
           /\ dialog' = [dialog EXCEPT ![c] = [stage |-> "committed", seq |-> 0]]
        \/ /\ ModelAt(s) # rows
           /\ Commit(Diff(rows, ModelAt(s)), <<c, 0>>)
           /\ dialog' = [dialog EXCEPT ![c] = [stage |-> "committed", seq |-> currentSeq + 1]]
  BY DEF Restore
<1>2. dialog' \in [Client -> Dialogs]
  <2>1. PICK n \in Nat : dialog' = [dialog EXCEPT ![c] = [stage |-> "committed", seq |-> n]]
    <3>1. 0 \in Nat /\ currentSeq + 1 \in Nat
      BY QuietFacts
    <3> QED BY <1>1, <3>1
  <2>2. [stage |-> "committed", seq |-> n] \in Dialogs
    OBVIOUS
  <2> QED BY <2>1, <2>2, QuietFacts
<1>3. LogTypeOK' /\ LogReplays' /\ LogGrows
  <2>1. ASSUME ModelAt(s) # rows, Commit(Diff(rows, ModelAt(s)), <<c, 0>>)
        PROVE  LogTypeOK' /\ LogReplays' /\ LogGrows
    <3>1. Diff(rows, ModelAt(s)) \in Batch
      BY <2>1, LogFacts, DiffLaw, QuietFacts DEF LogTypeOK
    <3>2. <<c, 0>> \in Author
      BY SyncBounds, AuthorKnown
    <3> QED BY <2>1, <3>1, <3>2, CommitExtends, QuietFacts
  <2> QED BY <1>1, <2>1, NoLogChange
<1>4. FramesTrue(c)'
  BY <1>3, FramesStayTrue, QuietFacts DEF Restore, SyncInv
<1>5. spent' \in [Spending -> Nat] /\ spent'.edits <= MaxEdits
  BY SpendFacts DEF Restore, Spending
<1>6. UNCHANGED <<store, chain, call, query, cached, sock, inbox, orphans, alarmed, overwritten>>
  BY DEF Restore
<1> QED BY <1>2, <1>3, <1>4, <1>5, <1>6, QuietFacts, QuietKeeps

LEMMA RestoreAnsweredKeeps ==
  ASSUME SyncInv, NEW c \in Client, RestoreAnswered(c) PROVE SyncInv'
<1>1. LogTypeOK' /\ LogReplays' /\ LogGrows /\ FramesTrue(c)'
  BY NoLogChange, FramesStayTrue, QuietFacts DEF RestoreAnswered, SyncInv
<1>2. /\ query' \in [Client -> [stage : {"idle", "asked", "read"}, seq : Nat]]
      /\ query'[c].seq \in 0..currentSeq /\ \A d \in Client \ {c} : query'[d] = query[d]
  BY QuietFacts, FetchKeeps DEF RestoreAnswered, SyncInv
<1>3. dialog' \in [Client -> [stage : {"none", "committed", "fetch"}, seq : Nat]]
  BY QuietFacts DEF RestoreAnswered
<1>4. UNCHANGED <<store, chain, call, cached, sock, inbox, orphans, spent, alarmed, overwritten>>
  BY DEF RestoreAnswered
<1> QED BY <1>1, <1>2, <1>3, <1>4, QuietFacts, QuietKeeps
-----------------------------------------------------------------------------
(* A fetch ends, with an answer or without.                                *)

LEMMA QueryAnswerKeeps == ASSUME SyncInv, NEW c \in Client, QueryAnswer(c) PROVE SyncInv'
<1> DEFINE s == query[c].seq
<1>1. /\ UNCHANGED logVars
      /\ UNCHANGED <<call, sock, inbox, dialog, orphans, spent, overwritten>>
      /\ query' = [query EXCEPT ![c] = NoQuery]
      /\ cached' = [cached EXCEPT ![c] = s]
  BY DEF QueryAnswer
<1>2. LogTypeOK' /\ LogReplays' /\ LogGrows /\ currentSeq \in Nat /\ \A n : ModelAt(n)' = ModelAt(n)
  BY <1>1, NoLogChange
<1>3. /\ s \in 0..currentSeq /\ s \in Nat /\ 0 \in 0..currentSeq
      /\ store[c] \in Store /\ chain[c] \in Task /\ ClientInv(c) /\ SyncTypeOK
  BY <1>2, QuietFacts, SeqTypes DEF SyncInv
<1>4. PICK kept \in Store :
        /\ kept = Continued(c, store[c], s) /\ kept.here = store[c].here
        /\ Resyncs(c, store[c]) => kept.model = ModelAt(s) /\ kept.seq = s
        /\ ~ Resyncs(c, store[c]) => kept.model = store[c].model /\ kept.seq = store[c].seq
  BY <1>3, ContinuedShows
<1>5. kept.seq \in 0..currentSeq /\ store[c].seq \in 0..currentSeq
  BY <1>3, <1>4 DEF ClientInv, SeqsKnown
<1>6. /\ store' \in [Client -> Store] /\ store'[c] = kept
      /\ \A d \in Client \ {c} : store'[d] = store[d]
  <2>1. store' = [store EXCEPT ![c] = kept]
    BY <1>4 DEF QueryAnswer
  <2> QED BY <1>3, <2>1 DEF SyncTypeOK
<1>7. PICK task \in Task :
        /\ chain' = [chain EXCEPT ![c] = task]
        /\ Waiting(c) => task = Idle
        /\ ~ Waiting(c) => task = chain[c]
  <2>1. CASE Waiting(c)
    BY <2>1, IdleTask DEF QueryAnswer
  <2>2. CASE ~ Waiting(c)
    <3>1. chain' = [chain EXCEPT ![c] = chain[c]]
      BY <1>3, <2>2 DEF QueryAnswer, SyncTypeOK
    <3> QED BY <1>3, <2>2, <3>1
  <2> QED BY <2>1, <2>2
<1>8. /\ chain' \in [Client -> Task] /\ chain'[c] = task
      /\ \A d \in Client \ {c} : chain'[d] = chain[d]
  BY <1>3, <1>7 DEF SyncTypeOK
<1>9. /\ query' \in [Client -> [stage : {"idle", "asked", "read"}, seq : Nat]]
      /\ query'[c].seq = 0 /\ \A d \in Client \ {c} : query'[d] = query[d]
      /\ cached' \in [Client -> Nat]
      /\ cached'[c] = s /\ \A d \in Client \ {c} : cached'[d] = cached[d]
  BY <1>1, <1>3 DEF SyncTypeOK, NoQuery
<1>10. /\ alarmed' \in [Client -> {"none", "stale", "unsaved"}]
       /\ \A d \in Client \ {c} : alarmed'[d] = alarmed[d]
       /\ ~ Resyncs(c, store[c]) => alarmed'[c] = alarmed[c]
  BY <1>3 DEF QueryAnswer, SyncTypeOK
<1>11. SyncTypeOK'
  BY <1>1, <1>2, <1>3, <1>6, <1>8, <1>9, <1>10 DEF SyncTypeOK
<1>12. ASSUME NEW d \in Client, d # c PROVE ClientInv(d)'
  BY <1>1, <1>2, <1>6, <1>8, <1>9, <1>10, <1>12, OthersUntouched DEF SyncInv, SameClient
<1>13. Idle.phase = "idle" /\ Idle.lastSeq = 0
  BY DEF Idle
<1>14. ClientInv(c)'
  <2>1. SeqsKnown(c)'
    <3>1. chain'[c].lastSeq \in 0..currentSeq
      <4>1. chain[c].lastSeq \in 0..currentSeq
        BY <1>3 DEF ClientInv, SeqsKnown
      <4> QED BY <1>3, <1>7, <1>8, <1>13, <4>1
    <3> QED BY <1>2, <1>3, <1>5, <1>6, <1>9, <3>1 DEF SeqsKnown, LogGrows
  <2>2. FramesTrue(c)'
    BY <1>1, <1>2, <1>3, FramesStayTrue DEF ClientInv
  <2>3. CASE Waiting(c)
    <3>1. CallTrue(c)'
      <4>1. call[c].stage \notin {"sent", "committed", "error"} /\ call[c].stage = "none"
        BY <1>3, <2>3 DEF ClientInv, CallTrue, Waiting
      <4> QED BY <1>1, <1>7, <1>8, <1>13, <2>3, <4>1 DEF CallTrue
    <3>2. CallLeads(c)'
      BY <1>7, <1>8, <1>13, <2>3 DEF CallLeads
    <3>3. HeldInSync(c)'
      <4>1. store[c].here => Resyncs(c, store[c])
        BY <1>3, <2>3 DEF ClientInv, HeldInSync, Waiting, Resyncs
      <4>2. store'[c].here => store'[c].model = ModelAt(store'[c].seq)
        BY <1>4, <1>6, <4>1
      <4>3. ModelAt(store[c].seq)' = ModelAt(store'[c].seq)
        BY <1>2
      <4> QED BY <1>7, <1>8, <1>13, <2>3, <4>2, <4>3 DEF HeldInSync, InSync
    <3> QED BY <2>1, <2>2, <3>1, <3>2, <3>3 DEF ClientInv
  <2>4. CASE ~ Waiting(c)
    <3>1. ~ Resyncs(c, store[c]) /\ chain[c].phase # "settle"
      BY <2>4 DEF Resyncs, Waiting
    <3>2. store'[c] = store[c] /\ chain'[c] = chain[c]
      BY <1>4, <1>6, <1>7, <1>8, <2>4, <3>1 DEF Continued
    <3>3. Sound(c)' <=> Sound(c)
      BY <1>1, <1>10, <3>1 DEF Sound
    <3> QED BY <1>1, <1>2, <1>3, <2>1, <2>2, <3>2, <3>3, CallStaysTrue, LeadsStay, HeldStays
            DEF ClientInv
  <2> QED BY <2>3, <2>4
<1> QED BY <1>2, <1>11, <1>12, <1>14 DEF SyncInv

LEMMA RestoreLoadsKeeps == ASSUME SyncInv, NEW c \in Client, RestoreLoads(c) PROVE SyncInv'
<1> DEFINE s == query[c].seq
<1>1. /\ UNCHANGED logVars
      /\ UNCHANGED <<call, sock, inbox, orphans, spent>>
      /\ query' = [query EXCEPT ![c] = NoQuery]
      /\ cached' = [cached EXCEPT ![c] = s]
      /\ dialog' = [dialog EXCEPT ![c] = NoCall]
      /\ alarmed' = [alarmed EXCEPT ![c] = "none"]
      /\ overwritten' = [overwritten EXCEPT ![c] = @ \/ chain[c].phase = "call"]
  BY DEF RestoreLoads
<1>2. LogTypeOK' /\ LogReplays' /\ LogGrows /\ currentSeq \in Nat /\ \A n : ModelAt(n)' = ModelAt(n)
  BY <1>1, NoLogChange
<1>3. /\ s \in 0..currentSeq /\ s \in Nat /\ 0 \in 0..currentSeq
      /\ store[c] \in Store /\ chain[c] \in Task /\ ClientInv(c) /\ SyncTypeOK
  BY <1>2, QuietFacts, SeqTypes DEF SyncInv
<1>4. /\ store' \in [Client -> Store]
      /\ store'[c].model = ModelAt(s) /\ store'[c].seq = s
      /\ \A d \in Client \ {c} : store'[d] = store[d]
  <2> DEFINE loadedLast == setLoaded(Continued(c, store[c], s), s)
             loadedFirst == Continued(c, setLoaded(store[c], s), s)
  <2>1. loadedLast \in Store /\ loadedLast.model = ModelAt(s) /\ loadedLast.seq = s
    <3>1. PICK st \in Store : st = Continued(c, store[c], s)
      BY <1>3, ContinuedShows
    <3>2. setLoaded(st, s) \in Store /\ setLoaded(st, s).model = ModelAt(s) /\ setLoaded(st, s).seq = s
      BY <1>3, ResyncShows DEF SyncTypeOK
    <3> QED BY <3>1, <3>2
  <2>2. loadedFirst \in Store /\ loadedFirst.model = ModelAt(s) /\ loadedFirst.seq = s
    <3>0. /\ setLoaded(store[c], s) \in Store
          /\ setLoaded(store[c], s).model = ModelAt(s) /\ setLoaded(store[c], s).seq = s
      BY <1>3, ResyncShows DEF SyncTypeOK
    <3>1. PICK st \in Store : st = setLoaded(store[c], s) /\ st.model = ModelAt(s) /\ st.seq = s
      BY <3>0, Zenon
    <3>2. /\ Continued(c, st, s) \in Store
          /\ Continued(c, st, s).model = ModelAt(s) /\ Continued(c, st, s).seq = s
      BY <1>3, <3>1, ContinuedShows
    <3> QED BY <3>1, <3>2
  <2>3. store' = [store EXCEPT ![c] = loadedLast] \/ store' = [store EXCEPT ![c] = loadedFirst]
    BY DEF RestoreLoads
  <2> HIDE DEF loadedLast, loadedFirst
  <2> QED BY <1>3, <2>1, <2>2, <2>3 DEF SyncTypeOK
<1>5. PICK task \in Task :
        /\ chain' = [chain EXCEPT ![c] = task]
        /\ Waiting(c) => task = Idle
        /\ ~ Waiting(c) => task = chain[c]
  <2>1. CASE Waiting(c)
    BY <2>1, IdleTask DEF RestoreLoads
  <2>2. CASE ~ Waiting(c)
    <3>1. chain' = [chain EXCEPT ![c] = chain[c]]
      BY <1>3, <2>2 DEF RestoreLoads, SyncTypeOK
    <3> QED BY <1>3, <2>2, <3>1
  <2> QED BY <2>1, <2>2
<1>6. /\ chain' \in [Client -> Task] /\ chain'[c] = task
      /\ \A d \in Client \ {c} : chain'[d] = chain[d]
  BY <1>3, <1>5 DEF SyncTypeOK
<1>7. /\ query' \in [Client -> [stage : {"idle", "asked", "read"}, seq : Nat]]
      /\ query'[c].seq = 0 /\ \A d \in Client \ {c} : query'[d] = query[d]
      /\ cached' \in [Client -> Nat]
      /\ cached'[c] = s /\ \A d \in Client \ {c} : cached'[d] = cached[d]
      /\ dialog' \in [Client -> [stage : {"none", "committed", "fetch"}, seq : Nat]]
  BY <1>1, <1>3 DEF SyncTypeOK, NoQuery, NoCall
<1>8. /\ alarmed' \in [Client -> {"none", "stale", "unsaved"}]
      /\ overwritten' \in [Client -> BOOLEAN]
      /\ overwritten'[c] = (overwritten[c] \/ chain[c].phase = "call")
      /\ \A d \in Client \ {c} : alarmed'[d] = alarmed[d] /\ overwritten'[d] = overwritten[d]
  BY <1>1, <1>3 DEF SyncTypeOK
<1>9. SyncTypeOK'
  BY <1>1, <1>2, <1>3, <1>4, <1>6, <1>7, <1>8 DEF SyncTypeOK
<1>10. ASSUME NEW d \in Client, d # c PROVE ClientInv(d)'
  BY <1>1, <1>2, <1>4, <1>6, <1>7, <1>8, <1>10, OthersUntouched DEF SyncInv, SameClient
<1>11. Idle.phase = "idle" /\ Idle.lastSeq = 0
  BY DEF Idle
<1>12. ClientInv(c)'
  <2>1. SeqsKnown(c)'
    <3>1. chain'[c].lastSeq \in 0..currentSeq
      <4>1. chain[c].lastSeq \in 0..currentSeq
        BY <1>3 DEF ClientInv, SeqsKnown
      <4> QED BY <1>3, <1>5, <1>6, <1>11, <4>1
    <3> QED BY <1>2, <1>3, <1>4, <1>7, <3>1 DEF SeqsKnown, LogGrows
  <2>2. FramesTrue(c)'
    BY <1>1, <1>2, <1>3, FramesStayTrue DEF ClientInv
  <2>3. CallTrue(c)'
    <3>1. CASE Waiting(c)
      <4>1. call[c].stage \notin {"sent", "committed", "error"} /\ call[c].stage = "none"
        BY <1>3, <3>1 DEF ClientInv, CallTrue, Waiting
      <4> QED BY <1>1, <1>5, <1>6, <1>11, <3>1, <4>1 DEF CallTrue
    <3>2. CASE ~ Waiting(c)
      BY <1>1, <1>2, <1>3, <1>5, <1>6, <3>2, CallStaysTrue DEF ClientInv
    <3> QED BY <3>1, <3>2
  <2>4. CallLeads(c)'
    <3>1. chain'[c].phase = "call" => chain[c].phase = "call"
      BY <1>5, <1>6, <1>11
    <3> QED BY <1>8, <3>1 DEF CallLeads, Sound
  <2>5. HeldInSync(c)'
    <3>1. store'[c].model = ModelAt(store'[c].seq)
      BY <1>4
    <3>2. ModelAt(store[c].seq)' = ModelAt(store'[c].seq)
      BY <1>2
    <3>3. chain'[c].phase \in {"repair", "settle"} => ~ chain'[c].left
      BY <1>3, <1>5, <1>6, <1>11 DEF ClientInv, HeldInSync
    <3> QED BY <3>1, <3>2, <3>3 DEF HeldInSync, InSync
  <2> QED BY <2>1, <2>2, <2>3, <2>4, <2>5 DEF ClientInv
<1> QED BY <1>2, <1>9, <1>10, <1>12 DEF SyncInv

LEMMA QueryFailsKeeps == ASSUME SyncInv, NEW c \in Client, QueryFails(c) PROVE SyncInv'
<1>1. UNCHANGED logVars /\ UNCHANGED <<store, call, cached, sock, inbox, orphans, overwritten>>
  BY DEF QueryFails
<1>2. LogTypeOK' /\ LogReplays' /\ LogGrows /\ currentSeq \in Nat /\ \A n : ModelAt(n)' = ModelAt(n)
  BY <1>1, NoLogChange
<1>3. /\ store[c] \in Store /\ chain[c] \in Task /\ ClientInv(c) /\ SyncTypeOK
      /\ 0 \in 0..currentSeq
  BY <1>2, SeqTypes DEF SyncInv
<1>4. PICK task \in Task :
        /\ chain' = [chain EXCEPT ![c] = task]
        /\ \/ /\ chain[c].phase = "settle" /\ StillHere(c)
              /\ task.phase = "repair" /\ task.left = chain[c].left
              /\ task.lastSeq = chain[c].lastSeq /\ task.ops = chain[c].ops
           \/ /\ ~ (chain[c].phase = "settle" /\ StillHere(c))
              /\ IF Waiting(c) THEN task = Idle ELSE task = chain[c]
  <2>1. CASE chain[c].phase = "settle" /\ StillHere(c)
    <3> DEFINE repairing == [chain[c] EXCEPT !.phase = "repair"]
    <3>1. chain' = [chain EXCEPT ![c] = repairing]
      BY <2>1 DEF QueryFails
    <3>2. /\ repairing \in Task /\ repairing.phase = "repair" /\ repairing.left = chain[c].left
          /\ repairing.lastSeq = chain[c].lastSeq /\ repairing.ops = chain[c].ops
      BY <1>3 DEF Task, Phases
    <3> QED BY <2>1, <3>1, <3>2
  <2>2. CASE ~ (chain[c].phase = "settle" /\ StillHere(c)) /\ Waiting(c)
    BY <2>2, IdleTask DEF QueryFails
  <2>3. CASE ~ (chain[c].phase = "settle" /\ StillHere(c)) /\ ~ Waiting(c)
    <3>1. chain' = [chain EXCEPT ![c] = chain[c]]
      BY <1>3, <2>3 DEF QueryFails, SyncTypeOK
    <3> QED BY <1>3, <2>3, <3>1
  <2> QED BY <2>1, <2>2, <2>3
<1>5. /\ chain' \in [Client -> Task] /\ chain'[c] = task
      /\ \A d \in Client \ {c} : chain'[d] = chain[d]
  BY <1>3, <1>4 DEF SyncTypeOK
<1>6. /\ query' \in [Client -> [stage : {"idle", "asked", "read"}, seq : Nat]]
      /\ query'[c].seq = 0 /\ \A d \in Client \ {c} : query'[d] = query[d]
  <2>1. PICK asked \in {[stage |-> "asked", seq |-> 0], NoQuery} : query' = [query EXCEPT ![c] = asked]
    BY DEF QueryFails
  <2>2. asked \in [stage : {"idle", "asked", "read"}, seq : Nat] /\ asked.seq = 0
    BY DEF NoQuery
  <2> QED BY <1>3, <2>1, <2>2 DEF SyncTypeOK
<1>7. dialog' \in [Client -> [stage : {"none", "committed", "fetch"}, seq : Nat]]
  BY <1>3 DEF QueryFails, SyncTypeOK, NoCall
<1>8. /\ alarmed' \in [Client -> {"none", "stale", "unsaved"}]
      /\ \A d \in Client \ {c} : alarmed'[d] = alarmed[d]
      /\ alarmed'[c] # "unsaved" => chain[c].phase # "repair" /\ alarmed[c] # "unsaved"
  BY <1>3 DEF QueryFails, SyncTypeOK
<1>9. spent' \in [Spending -> Nat] /\ spent'.edits <= MaxEdits
  BY SpendFacts DEF QueryFails, Spending
<1>10. SyncTypeOK'
  BY <1>1, <1>2, <1>3, <1>5, <1>6, <1>7, <1>8, <1>9 DEF SyncTypeOK
<1>11. ASSUME NEW d \in Client, d # c PROVE ClientInv(d)'
  BY <1>1, <1>2, <1>5, <1>6, <1>8, <1>11, OthersUntouched DEF SyncInv, SameClient
<1>12. Idle.phase = "idle" /\ Idle.lastSeq = 0
  BY DEF Idle
<1>13. Sound(c)' => Sound(c) /\ chain[c].phase # "repair"
  BY <1>1, <1>8 DEF Sound
<1>14. ClientInv(c)'
  <2>1. SeqsKnown(c)'
    <3>1. chain'[c].lastSeq \in 0..currentSeq
      <4>1. chain[c].lastSeq \in 0..currentSeq
        BY <1>3 DEF ClientInv, SeqsKnown
      <4> QED BY <1>3, <1>4, <1>5, <1>12, <4>1
    <3> QED BY <1>1, <1>2, <1>3, <1>6, <3>1 DEF ClientInv, SeqsKnown, LogGrows
  <2>2. FramesTrue(c)'
    BY <1>1, <1>2, <1>3, FramesStayTrue DEF ClientInv
  <2>3. CASE ~ Waiting(c)
    <3>1. chain'[c] = chain[c]
      BY <1>4, <1>5, <2>3 DEF Waiting
    <3> QED BY <1>1, <1>2, <1>3, <1>13, <2>1, <2>2, <3>1, CallStaysTrue, LeadsStay, HeldStays
            DEF ClientInv
  <2>4. CASE Waiting(c)
    <3>1. chain'[c].phase \in {"idle", "repair"} /\ chain[c].phase \in {"reload", "repair", "settle"}
      BY <1>4, <1>5, <1>12, <2>4 DEF Waiting
    <3>2. call'[c].stage = "none"
      <4>1. call[c].stage \notin {"sent", "committed", "error"} /\ call[c].stage = "none"
        BY <1>3, <3>1 DEF ClientInv, CallTrue
      <4> QED BY <1>1, <4>1
    <3>3. CallTrue(c)'
      <4>1. chain'[c].phase = "repair" => chain'[c].ops \in Batch
        BY <1>3, <1>4, <1>5, <1>12, <2>4 DEF ClientInv, CallTrue
      <4> QED BY <3>1, <3>2, <4>1 DEF CallTrue
    <3>4. CallLeads(c)'
      BY <3>1 DEF CallLeads
    <3>5. HeldInSync(c)'
      <4>1. CASE chain'[c].phase = "repair"
        BY <1>3, <1>4, <1>5, <1>12, <2>4, <4>1 DEF ClientInv, HeldInSync
      <4>2. CASE chain[c].phase = "reload" /\ chain'[c].phase = "idle"
        BY <1>1, <1>2, <1>3, <1>13, <4>2 DEF ClientInv, HeldInSync, InSync
      <4>3. CASE chain[c].phase = "repair" /\ chain'[c].phase = "idle"
        BY <1>13, <4>3 DEF HeldInSync
      <4>4. CASE chain[c].phase = "settle" /\ chain'[c].phase = "idle"
        <5>1. ~ StillHere(c) /\ ~ chain[c].left
          BY <1>3, <1>4, <1>5, <4>4 DEF ClientInv, HeldInSync
        <5>2. ~ store'[c].here
          BY <1>1, <5>1 DEF StillHere
        <5> QED BY <4>4, <5>2 DEF HeldInSync
      <4> QED BY <3>1, <4>1, <4>2, <4>3, <4>4
    <3> QED BY <2>1, <2>2, <3>3, <3>4, <3>5 DEF ClientInv
  <2> QED BY <2>3, <2>4
<1> QED BY <1>2, <1>10, <1>11, <1>14 DEF SyncInv
-----------------------------------------------------------------------------
(* A frame is judged by the seq of the store and applied to its model.     *)
LEMMA FrameApplies ==
  ASSUME SyncInv, NEW c \in Client, inbox[c] # << >>, store[c].here,
         Verdict(store[c], Head(inbox[c])) = "apply"
  PROVE  /\ Head(inbox[c]).seq \in 1..currentSeq
         /\ Apply(store[c].model, Head(inbox[c]).ops) \in Model
         /\ InSync(c) => Apply(store[c].model, Head(inbox[c]).ops) = ModelAt(Head(inbox[c]).seq)
<1> DEFINE f == Head(inbox[c])
<1>1. inbox[c] \in Seq(Received) /\ store[c].seq \in Nat /\ store[c].model \in Model
  BY SeqTypes DEF SyncInv
<1>2. f \in Received /\ f = inbox[c][1] /\ 1 \in 1..Len(inbox[c])
  BY <1>1
<1>3. /\ f.type # "ready" /\ f.seq = store[c].seq + 1
      /\ Apply(store[c].model, f.ops) # Failure
  BY DEF Verdict
<1>4. /\ f.type = "ops" /\ f.seq \in 1..currentSeq /\ f.ops = revisions[f.seq].ops
      /\ revisions[f.seq] \in Revision
  BY <1>2, <1>3 DEF SyncInv, SyncTypeOK, LogTypeOK, ClientInv, FramesTrue, Received, currentSeq
<1>5. Apply(store[c].model, f.ops) \in Model
  BY <1>1, <1>3, <1>4, ApplyLaw DEF Revision
<1>6. ASSUME InSync(c) PROVE Apply(store[c].model, f.ops) = ModelAt(f.seq)
  <2>1. store[c].seq = f.seq - 1
    <3> HIDE DEF f
    <3> QED BY <1>1, <1>3, <1>4
  <2>2. Apply(ModelAt(f.seq - 1), revisions[f.seq].ops) = ModelAt(f.seq)
    BY <1>4 DEF SyncInv, LogReplays, currentSeq
  <2> QED BY <1>4, <1>6, <2>1, <2>2 DEF InSync
<1> QED BY <1>4, <1>5, <1>6

LEMMA RestTrue ==
  ASSUME SyncInv, LogGrows, NEW c \in Client, inbox[c] # << >>, inbox'[c] = Tail(inbox[c])
  PROVE  FramesTrue(c)' /\ inbox'[c] \in Seq(Received)
<1>1. inbox[c] \in Seq(Received) /\ currentSeq \in Nat
  BY QuietFacts
<1>2. /\ inbox'[c] \in Seq(Received) /\ Len(inbox'[c]) = Len(inbox[c]) - 1
      /\ \A i \in 1..Len(inbox'[c]) : inbox'[c][i] = inbox[c][i + 1] /\ i + 1 \in 1..Len(inbox[c])
  BY <1>1
<1> QED BY <1>1, <1>2, QuietFacts DEF FramesTrue, LogGrows

LEMMA HandleFrameKeeps == ASSUME SyncInv, NEW c \in Client, HandleFrame(c) PROVE SyncInv'
<1> DEFINE f == Head(inbox[c])
           v == Verdict(store[c], f)
<1>1. /\ chain[c].phase = "idle" /\ inbox[c] # << >>
      /\ inbox' = [inbox EXCEPT ![c] = Tail(@)]
      /\ UNCHANGED logVars
      /\ UNCHANGED <<call, cached, sock, dialog, orphans, spent, alarmed, overwritten>>
  BY DEF HandleFrame
<1>2. LogTypeOK' /\ LogReplays' /\ LogGrows /\ currentSeq \in Nat /\ \A n : ModelAt(n)' = ModelAt(n)
  BY <1>1, NoLogChange
<1>3. /\ store[c] \in Store /\ chain[c] \in Task /\ ClientInv(c) /\ SyncTypeOK
  BY SeqTypes DEF SyncInv
<1>4. \/ UNCHANGED <<store, chain, query>>
      \/ /\ v = "apply"
         /\ store' = [store EXCEPT ![c].model = Apply(@, f.ops), ![c].seq = f.seq]
         /\ UNCHANGED <<chain, query>>
      \/ /\ chain' = [chain EXCEPT ![c].phase = "reload"]
         /\ fetchQuery(c)
         /\ UNCHANGED store
  BY DEF HandleFrame
<1>5. PICK st \in Store :
        /\ store' = [store EXCEPT ![c] = st] /\ st.here = store[c].here
        /\ st.seq \in 0..currentSeq
        /\ store[c].here /\ InSync(c) => st.model = ModelAt(st.seq)
  <2>1. store[c].seq \in 0..currentSeq
    BY <1>3 DEF ClientInv, SeqsKnown
  <2>2. CASE UNCHANGED store
    <3>1. store' = [store EXCEPT ![c] = store[c]]
      BY <1>3, <2>2 DEF SyncTypeOK
    <3> QED BY <1>3, <2>1, <3>1 DEF InSync
  <2>3. CASE v = "apply" /\ store' = [store EXCEPT ![c].model = Apply(@, f.ops), ![c].seq = f.seq]
    <3>1. store[c].here
      BY <2>3 DEF Verdict
    <3> DEFINE next == [store[c] EXCEPT !.model = Apply(store[c].model, f.ops), !.seq = f.seq]
    <3>2. store' = [store EXCEPT ![c] = next]
      BY <1>3, <2>3 DEF SyncTypeOK
    <3>3. /\ f.seq \in 1..currentSeq /\ Apply(store[c].model, f.ops) \in Model
          /\ InSync(c) => Apply(store[c].model, f.ops) = ModelAt(f.seq)
      BY <1>1, <2>3, <3>1, FrameApplies
    <3> HIDE DEF f
    <3>4. f.seq \in 0..currentSeq /\ f.seq \in Nat
      BY <1>2, <3>3
    <3>5. \A m \in Model, n \in Nat :
            /\ [store[c] EXCEPT !.model = m, !.seq = n] \in Store
            /\ [store[c] EXCEPT !.model = m, !.seq = n].here = store[c].here
            /\ [store[c] EXCEPT !.model = m, !.seq = n].seq = n
            /\ [store[c] EXCEPT !.model = m, !.seq = n].model = m
      BY <1>3 DEF Store
    <3>6. /\ next \in Store /\ next.here = store[c].here /\ next.seq = f.seq
          /\ next.model = Apply(store[c].model, f.ops)
      BY <3>3, <3>4, <3>5
    <3> QED BY <3>2, <3>3, <3>4, <3>6
  <2> QED BY <1>4, <2>2, <2>3
<1>6. PICK task \in Task :
        /\ chain' = [chain EXCEPT ![c] = task] /\ task.phase \in {"idle", "reload"}
        /\ task.lastSeq = chain[c].lastSeq
  <2>1. CASE UNCHANGED chain
    <3>1. chain' = [chain EXCEPT ![c] = chain[c]]
      BY <1>3, <2>1 DEF SyncTypeOK
    <3> QED BY <1>1, <1>3, <3>1
  <2>2. CASE chain' = [chain EXCEPT ![c].phase = "reload"]
    <3>1. chain' = [chain EXCEPT ![c] = [chain[c] EXCEPT !.phase = "reload"]]
      BY <1>3, <2>2 DEF SyncTypeOK
    <3>2. /\ [chain[c] EXCEPT !.phase = "reload"] \in Task
          /\ [chain[c] EXCEPT !.phase = "reload"].phase = "reload"
          /\ [chain[c] EXCEPT !.phase = "reload"].lastSeq = chain[c].lastSeq
      BY <1>3 DEF Task, Phases
    <3> QED BY <3>1, <3>2
  <2> QED BY <1>4, <2>1, <2>2
<1>7. /\ store' \in [Client -> Store] /\ chain' \in [Client -> Task]
      /\ store'[c] = st /\ chain'[c] = task
      /\ \A d \in Client \ {c} : store'[d] = store[d] /\ chain'[d] = chain[d]
  BY <1>3, <1>5, <1>6 DEF SyncTypeOK
<1>8. /\ query' \in [Client -> [stage : {"idle", "asked", "read"}, seq : Nat]]
      /\ query'[c].seq = query[c].seq /\ \A d \in Client \ {c} : query'[d] = query[d]
  <2>1. fetchQuery(c) \/ query' = query
    BY <1>4
  <2> QED BY <1>3, <2>1, FetchKeeps
<1>9. /\ FramesTrue(c)' /\ inbox' \in [Client -> Seq(Received)]
      /\ \A d \in Client \ {c} : inbox'[d] = inbox[d]
  <2>1. inbox'[c] = Tail(inbox[c]) /\ \A d \in Client \ {c} : inbox'[d] = inbox[d]
    BY <1>1, QuietFacts
  <2>2. FramesTrue(c)' /\ inbox'[c] \in Seq(Received)
    BY <1>1, <1>2, <2>1, RestTrue
  <2> QED BY <1>1, <2>1, <2>2, QuietFacts
<1>10. SyncTypeOK'
  BY <1>1, <1>2, <1>3, <1>7, <1>8, <1>9 DEF SyncTypeOK
<1>11. ASSUME NEW d \in Client, d # c PROVE ClientInv(d)'
  BY <1>1, <1>2, <1>7, <1>8, <1>9, <1>11, OthersUntouched DEF SyncInv, SameClient
<1>12. ClientInv(c)'
  <2>1. SeqsKnown(c)'
    BY <1>1, <1>2, <1>3, <1>5, <1>6, <1>7, <1>8 DEF ClientInv, SeqsKnown, LogGrows
  <2>2. CallTrue(c)'
    <3>1. call[c].stage = "none"
      <4>1. call[c].stage = "none" <=> chain[c].phase # "call"
        BY <1>3 DEF ClientInv, CallTrue
      <4> QED BY <1>1, <4>1
    <3> QED BY <1>1, <1>6, <1>7, <3>1 DEF CallTrue
  <2>3. CallLeads(c)'
    BY <1>6, <1>7 DEF CallLeads
  <2>4. HeldInSync(c)'
    <3>1. store[c].here /\ Sound(c) => InSync(c)
      BY <1>1, <1>3 DEF ClientInv, HeldInSync
    <3>2. store'[c].here /\ Sound(c)' => st.model = ModelAt(st.seq)
      BY <1>1, <1>5, <1>7, <3>1 DEF Sound
    <3>3. ModelAt(store[c].seq)' = ModelAt(store'[c].seq)
      BY <1>2
    <3> QED BY <1>6, <1>7, <3>2, <3>3 DEF HeldInSync, InSync
  <2> QED BY <1>9, <2>1, <2>2, <2>3, <2>4 DEF ClientInv
<1> QED BY <1>2, <1>10, <1>11, <1>12 DEF SyncInv
-----------------------------------------------------------------------------
(* The server tells every socket, or dies and is heard of by every editor. *)
LEMMA PublishKeeps == ASSUME SyncInv, NEW n \in unpublished, publishOps(n) PROVE SyncInv'
<1> DEFINE frame == [type |-> "ops", seq |-> n, ops |-> revisions[n].ops]
<1>1. /\ revisions' = revisions /\ rows' = rows /\ unpublished' \subseteq unpublished
      /\ UNCHANGED <<store, chain, call, query, cached, sock, dialog, orphans, spent, alarmed, overwritten>>
  BY DEF publishOps, Announce
<1>2. LogTypeOK' /\ LogReplays' /\ LogGrows
  BY <1>1, LogStays DEF SyncInv, SyncTypeOK
<1>3. frame \in Received /\ frame.seq \in 1..currentSeq /\ frame.ops = revisions[frame.seq].ops
  <2>1. n \in 1..currentSeq /\ n \in Nat /\ revisions[n] \in Revision
    BY DEF SyncInv, SyncTypeOK, LogTypeOK, currentSeq
  <2>2. revisions[n].ops \in Batch
    BY <2>1 DEF Revision
  <2> QED BY <2>1, <2>2 DEF Received
<1>4. inbox' = [d \in Client |-> IF sock[d].stage = "closed" THEN inbox[d] ELSE Append(inbox[d], frame)]
  BY DEF publishOps
<1> HIDE DEF frame
<1>5. ASSUME NEW d \in Client PROVE inbox'[d] \in Seq(Received) /\ FramesTrue(d)'
  <2>1. inbox[d] \in Seq(Received)
    BY QuietFacts
  <2>2. CASE sock[d].stage = "closed"
    BY <1>2, <1>4, <2>1, <2>2, FramesStayTrue DEF SyncInv, ClientInv
  <2>3. CASE sock[d].stage # "closed"
    <3>1. inbox'[d] = Append(inbox[d], frame)
      BY <1>4, <2>3
    <3> QED BY <1>2, <1>3, <2>1, <3>1, FrameArrives
  <2> QED BY <2>2, <2>3
<1>6. SyncTypeOK'
  <2>1. inbox' \in [Client -> Seq(Received)]
    BY <1>4, <1>5
  <2> QED BY <1>1, <1>2, <2>1 DEF SyncInv, SyncTypeOK
<1>7. ASSUME NEW d \in Client PROVE ClientInv(d)'
  <2>1. Sound(d)' <=> Sound(d)
    BY <1>1 DEF Sound
  <2> QED BY <1>1, <1>2, <1>5, <2>1, SeqsStayKnown, CallStaysTrue, LeadsStay, HeldStays
          DEF SyncInv, ClientInv
<1> QED BY <1>2, <1>6, <1>7 DEF SyncInv

LEMMA ServerCrashKeeps == ASSUME SyncInv, ServerCrash PROVE SyncInv'
<1>1. /\ revisions' = revisions /\ rows' = rows /\ unpublished' \subseteq unpublished
      /\ orphans' = {} /\ UNCHANGED <<store, chain, query, cached, alarmed, overwritten>>
  BY DEF ServerCrash
<1>2. LogTypeOK' /\ LogReplays' /\ LogGrows
  BY <1>1, LogStays DEF SyncInv, SyncTypeOK
<1>3. spent' \in [Spending -> Nat] /\ spent'.edits <= MaxEdits
  BY SpendFacts DEF ServerCrash, Spending
<1>4. ASSUME NEW d \in Client PROVE inbox'[d] \in Seq(Received) /\ FramesTrue(d)'
  <2>1. inbox'[d] \in Prefixes(inbox[d])
    BY DEF ServerCrash
  <2> QED BY <1>2, <2>1, PrefixStaysTrue
<1>5. inbox' \in [Client -> Seq(Received)]
  <2>1. \A S, f : f \in [Client -> S] /\ (\A d \in Client : f[d] \in Seq(Received))
                => f \in [Client -> Seq(Received)]
    OBVIOUS
  <2>2. inbox' \in [Client -> UNION {Prefixes(inbox[c]) : c \in Client}]
    BY DEF ServerCrash
  <2> QED BY <1>4, <2>1, <2>2, Zenon
<1>6. /\ call' \in [Client -> [stage : {"none", "sent", "committed", "error"}, seq : Nat]]
      /\ \A d \in Client : /\ call'[d].stage # "none" <=> call[d].stage # "none"
                            /\ call'[d].stage # "committed"
  BY DEF SyncInv, SyncTypeOK, ServerCrash
<1>7. /\ sock' \in [Client -> [stage : {"closed", "subscribed", "read", "open"}, seq : Nat]]
      /\ dialog' \in [Client -> [stage : {"none", "committed", "fetch"}, seq : Nat]]
  BY DEF SyncInv, SyncTypeOK, ServerCrash, NoCall
<1>8. SyncTypeOK'
  BY <1>1, <1>2, <1>3, <1>5, <1>6, <1>7 DEF SyncInv, SyncTypeOK
<1>9. ASSUME NEW d \in Client PROVE ClientInv(d)'
  <2>1. Sound(d)' <=> Sound(d)
    BY <1>1 DEF Sound
  <2>2. CallTrue(d)'
    BY <1>1, <1>6 DEF SyncInv, ClientInv, CallTrue
  <2> QED BY <1>1, <1>2, <1>4, <2>1, <2>2, SeqsStayKnown, LeadsStay, HeldStays
          DEF SyncInv, ClientInv
<1> QED BY <1>2, <1>8, <1>9 DEF SyncInv
-----------------------------------------------------------------------------
(* Another project, and back.                                              *)
LEMMA LeaveKeeps == ASSUME SyncInv, NEW c \in Client, Leave(c) PROVE SyncInv'
<1>1. UNCHANGED logVars /\ UNCHANGED <<chain, call, query, cached, dialog, orphans, alarmed, overwritten>>
  BY DEF Leave
<1>2. LogTypeOK' /\ LogReplays' /\ LogGrows
  BY <1>1, NoLogChange
<1>3. PICK st \in Store :
        /\ store' = [store EXCEPT ![c] = st]
        /\ st.model = store[c].model /\ st.seq = store[c].seq /\ st.here = FALSE
  <2> DEFINE gone == [store[c] EXCEPT !.here = FALSE, !.undo = << >>, !.redo = << >>]
  <2>1. store[c] \in Store /\ << >> \in Seq(Entry)
    BY SeqTypes DEF SyncInv
  <2>2. store' = [store EXCEPT ![c] = gone]
    BY DEF Leave, SyncInv, SyncTypeOK
  <2>3. gone \in Store /\ gone.model = store[c].model /\ gone.seq = store[c].seq /\ gone.here = FALSE
    BY <2>1 DEF Store
  <2> QED BY <2>2, <2>3
<1>4. /\ store' \in [Client -> Store] /\ store'[c] = st
      /\ \A d \in Client \ {c} : store'[d] = store[d]
  BY <1>3 DEF SyncInv, SyncTypeOK
<1>5. PICK kept \in Prefixes(inbox[c]) : inbox' = [inbox EXCEPT ![c] = kept]
  BY DEF Leave
<1>6. inbox'[c] = kept /\ \A d \in Client \ {c} : inbox'[d] = inbox[d]
  BY <1>5, QuietFacts
<1>7. FramesTrue(c)' /\ inbox'[c] \in Seq(Received)
  BY <1>2, <1>5, <1>6, PrefixStaysTrue
<1>8. inbox' \in [Client -> Seq(Received)]
  BY <1>5, <1>6, <1>7, QuietFacts
<1>9. /\ sock' \in [Client -> [stage : {"closed", "subscribed", "read", "open"}, seq : Nat]]
      /\ spent' \in [Spending -> Nat] /\ spent'.edits <= MaxEdits
  BY QuietFacts, SpendFacts DEF Leave, Spending
<1>10. SyncTypeOK'
  BY <1>1, <1>2, <1>4, <1>8, <1>9 DEF SyncInv, SyncTypeOK
<1>11. ASSUME NEW d \in Client, d # c PROVE ClientInv(d)'
  BY <1>1, <1>2, <1>4, <1>6, <1>11, OthersUntouched DEF SyncInv, SameClient
<1>12. ClientInv(c)'
  <2>1. SeqsKnown(c)'
    BY <1>1, <1>2, <1>3, <1>4, SeqsStayKnown DEF SyncInv, ClientInv
  <2>2. CallTrue(c)'
    BY <1>1, <1>2, CallStaysTrue DEF SyncInv, ClientInv
  <2>3. CallLeads(c)'
    <3>1. CallLeads(c) /\ (Sound(c)' <=> Sound(c))
      BY <1>1 DEF SyncInv, ClientInv, Sound
    <3>2. ModelAt(chain[c].lastSeq)' = ModelAt(chain[c].lastSeq)
      <4>1. chain[c].lastSeq \in 0..currentSeq
        BY DEF SyncInv, ClientInv, SeqsKnown
      <4> QED BY <1>1, <1>2, <4>1 DEF LogGrows
    <3>3. /\ store'[c].model = store[c].model /\ store'[c].seq = store[c].seq
          /\ store'[c].here = FALSE /\ chain' = chain
      BY <1>1, <1>3, <1>4
    <3>4. ASSUME chain'[c].phase = "call", Sound(c)'
          PROVE  /\ store[c].seq <= chain[c].lastSeq
                 /\ ~ chain[c].interleaved =>
                       LeadsTo(ModelAt(chain[c].lastSeq), chain[c].todo, store[c].model)
      BY <3>1, <3>3, <3>4 DEF CallLeads
    <3>5. chain'[c].phase = "call" /\ Sound(c)' /\ ~ chain'[c].interleaved =>
            LeadsTo(ModelAt(chain[c].lastSeq)', chain'[c].todo, store'[c].model)
      BY <3>2, <3>3, <3>4
    <3> QED BY <3>3, <3>4, <3>5 DEF CallLeads
  <2>4. HeldInSync(c)'
    BY <1>1, <1>3, <1>4 DEF SyncInv, ClientInv, HeldInSync
  <2> QED BY <1>7, <2>1, <2>2, <2>3, <2>4 DEF ClientInv
<1> QED BY <1>2, <1>10, <1>11, <1>12 DEF SyncInv

LEMMA ReturnKeeps == ASSUME SyncInv, NEW c \in Client, Return(c) PROVE SyncInv'
<1>1. /\ UNCHANGED logVars /\ UNCHANGED <<chain, call, cached, sock, inbox, dialog, orphans, spent>>
      /\ alarmed' = [alarmed EXCEPT ![c] = "none"]
      /\ overwritten' = [overwritten EXCEPT ![c] = @ \/ chain[c].phase = "call"]
  BY DEF Return
<1>2. LogTypeOK' /\ LogReplays' /\ LogGrows /\ \A n : ModelAt(n)' = ModelAt(n)
  BY <1>1, NoLogChange
<1>3. PICK st \in Store :
        /\ store' = [store EXCEPT ![c] = st] /\ st.model = ModelAt(st.seq) /\ st.seq = cached[c]
  <2>1. store[c] \in Store /\ cached[c] \in 0..currentSeq
    BY SeqTypes DEF SyncInv, ClientInv, SeqsKnown
  <2>2. /\ setLoaded(store[c], cached[c]) \in Store
        /\ setLoaded(store[c], cached[c]).model = ModelAt(cached[c])
        /\ setLoaded(store[c], cached[c]).seq = cached[c]
    BY <2>1, ResyncShows DEF SyncInv, SyncTypeOK
  <2>3. store' = [store EXCEPT ![c] = setLoaded(store[c], cached[c])]
    BY DEF Return
  <2> QED BY <2>2, <2>3
<1>4. /\ store' \in [Client -> Store] /\ store'[c] = st
      /\ \A d \in Client \ {c} : store'[d] = store[d]
  BY <1>3 DEF SyncInv, SyncTypeOK
<1>5. /\ query' \in [Client -> [stage : {"idle", "asked", "read"}, seq : Nat]]
      /\ query'[c].seq = query[c].seq /\ \A d \in Client \ {c} : query'[d] = query[d]
  BY FetchKeeps DEF SyncInv, Return
<1>6. /\ alarmed' \in [Client -> {"none", "stale", "unsaved"}]
      /\ overwritten' \in [Client -> BOOLEAN]
      /\ overwritten'[c] = (overwritten[c] \/ chain[c].phase = "call")
      /\ \A d \in Client \ {c} : alarmed'[d] = alarmed[d] /\ overwritten'[d] = overwritten[d]
  BY <1>1 DEF SyncInv, SyncTypeOK
<1>7. SyncTypeOK'
  BY <1>1, <1>2, <1>4, <1>5, <1>6 DEF SyncInv, SyncTypeOK
<1>8. ASSUME NEW d \in Client, d # c PROVE ClientInv(d)'
  BY <1>1, <1>2, <1>4, <1>5, <1>6, <1>8, OthersUntouched DEF SyncInv, SameClient
<1>9. ClientInv(c)'
  <2>1. SeqsKnown(c)'
    <3>1. currentSeq \in Nat /\ SeqsKnown(c)
      BY LogFacts DEF SyncInv, SyncTypeOK, ClientInv
    <3> QED BY <1>1, <1>2, <1>3, <1>4, <1>5, <3>1 DEF SeqsKnown, LogGrows
  <2>2. FramesTrue(c)'
    BY <1>1, <1>2, FramesStayTrue DEF SyncInv, ClientInv
  <2>3. CallTrue(c)'
    BY <1>1, <1>2, CallStaysTrue DEF SyncInv, ClientInv
  <2>4. CallLeads(c)'
    BY <1>1, <1>6 DEF CallLeads, Sound
  <2>5. HeldInSync(c)'
    <3>1. InSync(c)'
      <4>1. ModelAt(store[c].seq)' = ModelAt(store'[c].seq)
        BY <1>2
      <4> QED BY <1>3, <1>4, <4>1 DEF InSync
    <3> QED BY <1>1, <3>1 DEF SyncInv, ClientInv, HeldInSync
  <2> QED BY <2>1, <2>2, <2>3, <2>4, <2>5 DEF ClientInv
<1> QED BY <1>2, <1>7, <1>8, <1>9 DEF SyncInv
-----------------------------------------------------------------------------
LEMMA SyncInitHolds == SyncInit => SyncInv
<1> SUFFICES ASSUME SyncInit PROVE SyncInv
  OBVIOUS
<1>1. /\ rows = Empty /\ revisions = << >> /\ unpublished = {} /\ currentSeq = 0
      /\ ModelAt(0) = Empty /\ Empty \in Model
  BY EmptyLaw DEF SyncInit, LogInit, currentSeq, ModelAt
<1>2. LogTypeOK /\ LogReplays
  BY <1>1 DEF LogTypeOK, LogReplays, currentSeq
<1>3. << >> \in Seq(Entry) /\ << >> \in Seq(Received)
  OBVIOUS
<1>4. /\ store \in [Client -> Store]
      /\ \A c \in Client : store[c].model = Empty /\ store[c].seq = 0
  BY <1>1, <1>3 DEF SyncInit, Store
<1>5. /\ chain \in [Client -> Task] /\ \A c \in Client : chain[c] = Idle
  BY IdleTask DEF SyncInit
<1>6. /\ call \in [Client -> [stage : {"none", "sent", "committed", "error"}, seq : Nat]]
      /\ query \in [Client -> [stage : {"idle", "asked", "read"}, seq : Nat]]
      /\ dialog \in [Client -> [stage : {"none", "committed", "fetch"}, seq : Nat]]
      /\ \A c \in Client : call[c].stage = "none" /\ query[c].seq = 0
  BY DEF SyncInit, NoCall, NoQuery
<1>7. /\ cached \in [Client -> Nat] /\ inbox \in [Client -> Seq(Received)]
      /\ \A c \in Client : cached[c] = 0 /\ inbox[c] = << >>
  BY <1>3 DEF SyncInit
<1>8. /\ sock \in [Client -> [stage : {"closed", "subscribed", "read", "open"}, seq : Nat]]
      /\ orphans \subseteq [by : Client, edit : 0..MaxEdits, ops : Batch]
      /\ alarmed \in [Client -> {"none", "stale", "unsaved"}] /\ overwritten \in [Client -> BOOLEAN]
  BY DEF SyncInit
<1>9. spent \in [Spending -> Nat] /\ spent.edits <= MaxEdits
  BY SyncBounds DEF SyncInit, Spending
<1>10. SyncTypeOK
  BY <1>2, <1>4, <1>5, <1>6, <1>7, <1>8, <1>9 DEF SyncTypeOK
<1>11. ASSUME NEW c \in Client PROVE ClientInv(c)
  <2>1. chain[c].phase = "idle" /\ chain[c].lastSeq = 0
    BY <1>5 DEF Idle
  <2>2. SeqsKnown(c)
    BY <1>1, <1>4, <1>6, <1>7, <2>1 DEF SeqsKnown
  <2>3. FramesTrue(c)
    BY <1>7 DEF FramesTrue
  <2>4. CallTrue(c) /\ CallLeads(c)
    BY <1>6, <2>1 DEF CallTrue, CallLeads
  <2>5. HeldInSync(c)
    BY <1>1, <1>4, <2>1 DEF HeldInSync, InSync
  <2> QED BY <2>2, <2>3, <2>4, <2>5 DEF ClientInv
<1> QED BY <1>2, <1>10, <1>11 DEF SyncInv

LEMMA SyncNextKeeps == SyncInv /\ [SyncNext]_vars => SyncInv'
<1> SUFFICES ASSUME SyncInv, [SyncNext]_vars PROVE SyncInv'
  OBVIOUS
<1>1. ASSUME NEW c \in Client, ClientNext(c) PROVE SyncInv'
  <2>1. CASE Edit(c)
    BY <2>1, SubmitKeeps DEF Edit
  <2>2. CASE Undo(c)
    BY <2>2, SubmitKeeps DEF Undo
  <2>3. CASE Redo(c)
    BY <2>3, SubmitKeeps DEF Redo
  <2>4. CASE ServerMutate(c) \/ NextChunk(c) \/ LastChunk(c) \/ CallFails(c)
    BY <2>4, ServerMutateKeeps, NextChunkKeeps, LastChunkKeeps, CallFailsKeeps
  <2>5. CASE QueryRead(c) \/ QueryAnswer(c) \/ QueryFails(c) \/ BackgroundRefetch(c)
    BY <2>5, QueryReadKeeps, QueryAnswerKeeps, QueryFailsKeeps, BackgroundRefetchKeeps
  <2>6. CASE Subscribe(c) \/ ReadSeq(c) \/ SendReady(c) \/ Disconnect(c) \/ HandleFrame(c)
    BY <2>6, SubscribeKeeps, ReadSeqKeeps, SendReadyKeeps, DisconnectKeeps, HandleFrameKeeps
  <2>7. CASE Leave(c) \/ Return(c)
    BY <2>7, LeaveKeeps, ReturnKeeps
  <2>8. CASE Restore(c) \/ RestoreAnswered(c) \/ RestoreLoads(c)
    BY <2>8, RestoreKeeps, RestoreAnsweredKeeps, RestoreLoadsKeeps
  <2> QED BY <1>1, <2>1, <2>2, <2>3, <2>4, <2>5, <2>6, <2>7, <2>8 DEF ClientNext
<1>2. ASSUME NEW n \in unpublished, publishOps(n) PROVE SyncInv'
  BY <1>2, PublishKeeps
<1>3. CASE OrphanArrives \/ OtherWrites \/ ServerCrash
  BY <1>3, OrphanArrivesKeeps, OtherWritesKeeps, ServerCrashKeeps
<1>4. CASE UNCHANGED vars
  <2>1. UNCHANGED logVars /\ UNCHANGED clientVars /\ orphans' = orphans /\ spent' = spent
    BY <1>4 DEF vars
  <2> QED BY <2>1, NoLogChange, LogStepKeeps DEF SyncInv, SyncTypeOK
<1> QED BY <1>1, <1>2, <1>3, <1>4 DEF SyncNext

LEMMA SyncInvHolds == SyncSpec => []SyncInv
<1> QED BY SyncInitHolds, SyncNextKeeps, PTL DEF SyncSpec
-----------------------------------------------------------------------------
(* Every value of the editors and of the log has its type, whatever is     *)
(* edited, restored, lost or refused: in particular no editor ever holds   *)
(* the failure of an operation as its model (commitModel, applyRemote).    *)
THEOREM SyncTypes == SyncSpec => []SyncTypeOK
<1>1. SyncInv => SyncTypeOK
  BY DEF SyncInv
<1> QED BY <1>1, SyncInvHolds, PTL

(* Between two chain tasks the model on the screen is the server's version *)
(* that store.seq names: after every interleaving of edits, undo, redo,    *)
(* frames, reloads, restores, lost requests and crashes (use-model.ts,     *)
(* use-realtime.ts), but for a model loaded over an edit in flight.        *)
THEOREM EditorsShowWhatSeqNames == SyncSpec => []ModelAtSeq
<1>1. SyncInv => ModelAtSeq
  <2> SUFFICES ASSUME SyncInv, NEW c \in Client, Resting(c), ~ overwritten[c] PROVE InSync(c)
    BY DEF ModelAtSeq
  <2> QED BY DEF SyncInv, ClientInv, HeldInSync, Sound, Resting
<1> QED BY <1>1, SyncInvHolds, PTL

(* With any number of editors, restores and crashes at work, the revisions *)
(* still replay to the rows, and no frame on its way carries anything but  *)
(* a revision as the log has it (mutate.ts, hub.ts).                       *)
FramesCarryLog == \A c \in Client : FramesTrue(c)
THEOREM EditorsKeepLog == SyncSpec => [](LogReplays /\ FramesCarryLog)
<1>1. SyncInv => LogReplays /\ FramesCarryLog
  BY DEF SyncInv, ClientInv, FramesCarryLog
<1> QED BY <1>1, SyncInvHolds, PTL

(* Seen from the log alone, editors, other writers, restores and crashes   *)
(* do nothing but what RevisionLog allows: whole batches that leave a      *)
(* revision, announced at most once (runMutation, hub.publishOps).         *)
THEOREM EditorsImplementLog == SyncSpec => LogSpec
<1>1. SyncInit => LogInit
  BY DEF SyncInit
<1>2. SyncInv /\ [SyncNext]_vars => [LogNext]_logVars
  <2> SUFFICES ASSUME SyncInv, [SyncNext]_vars PROVE LogNext \/ UNCHANGED logVars
    OBVIOUS
  <2>1. ASSUME NEW b \in Batch, NEW a \in Author, Commit(b, a) PROVE LogNext
    BY <2>1 DEF LogNext
  <2>2. ASSUME NEW c \in Client, ServerMutate(c) PROVE LogNext \/ UNCHANGED logVars
    <3>1. chain[c].phase = "call" /\ chain[c].todo # << >>
      BY <2>2 DEF SyncInv, ClientInv, CallTrue, ServerMutate
    <3>2. Head(chain[c].todo) \in Batch /\ <<c, chain[c].edit>> \in Author
      BY <3>1, SeqTypes, AuthorKnown DEF SyncInv, Task
    <3> QED BY <2>1, <2>2, <3>2 DEF ServerMutate
  <2>3. ASSUME NEW c \in Client, Restore(c) PROVE LogNext \/ UNCHANGED logVars
    <3>1. PICK s \in 0..currentSeq :
            \/ UNCHANGED logVars
            \/ ModelAt(s) # rows /\ Commit(Diff(rows, ModelAt(s)), <<c, 0>>)
      BY <2>3 DEF Restore
    <3>2. ModelAt(s) # rows => Diff(rows, ModelAt(s)) \in Batch
      BY LogFacts, DiffLaw, QuietFacts DEF LogTypeOK, SyncInv, SyncTypeOK
    <3>3. <<c, 0>> \in Author
      BY SyncBounds, AuthorKnown
    <3> QED BY <2>1, <3>1, <3>2, <3>3
  <2>4. ASSUME NEW c \in Client, ClientNext(c) PROVE LogNext \/ UNCHANGED logVars
    BY <2>2, <2>3, <2>4 DEF ClientNext, Edit, Undo, Redo, Submit, NextChunk, LastChunk, CallFails,
       QueryRead, QueryAnswer, QueryFails, BackgroundRefetch, Subscribe, ReadSeq, SendReady,
       Disconnect, HandleFrame, Leave, Return, RestoreAnswered, RestoreLoads
  <2>5. CASE OrphanArrives
    <3>1. PICK o \in orphans :
            IF Acceptable(o.ops) THEN Commit(o.ops, <<o.by, o.edit>>) ELSE UNCHANGED logVars
      BY <2>5 DEF OrphanArrives
    <3>2. o \in [by : Client, edit : 0..MaxEdits, ops : Batch]
      BY DEF SyncInv, SyncTypeOK
    <3>3. o.ops \in Batch /\ <<o.by, o.edit>> \in Author
      BY <3>2, AuthorKnown
    <3> QED BY <2>1, <3>1, <3>3
  <2>6. CASE OtherWrites
    <3>1. PICK m \in Model \ {rows} : Commit(Diff(rows, m), <<Other, 0>>)
      BY <2>6 DEF OtherWrites
    <3>2. Diff(rows, m) \in Batch
      BY <3>1, DiffLaw DEF SyncInv, SyncTypeOK, LogTypeOK
    <3>3. <<Other, 0>> \in Author
      BY SyncBounds
    <3> QED BY <2>1, <3>1, <3>2, <3>3
  <2>7. CASE ServerCrash
    <3>1. unpublished' = {} /\ UNCHANGED <<rows, revisions>>
      BY <2>7 DEF ServerCrash
    <3> QED BY <3>1 DEF LogNext, ForgetUnpublished, logVars
  <2>8. ASSUME NEW n \in unpublished, publishOps(n) PROVE LogNext
    BY <2>8 DEF publishOps, LogNext
  <2>9. CASE UNCHANGED vars
    BY <2>9 DEF vars
  <2> QED BY <2>4, <2>5, <2>6, <2>7, <2>8, <2>9 DEF SyncNext
<1> QED BY <1>1, <1>2, SyncInvHolds, PTL DEF SyncSpec, LogSpec
-----------------------------------------------------------------------------
(* Undo and redo, with one editor, no failure and no fetch but its own.    *)
(*                                                                         *)
(* An entry joins two models if its ops lead from the first to the second  *)
(* and their inverse leads back.                                           *)
Joins(ops, m, n) == Apply(m, ops) = n /\ Apply(n, Invert(ops)) = m
Steps(way, ops, m, n) == IF way = "undo" THEN Joins(ops, n, m) ELSE Joins(ops, m, n)

(* The models a stack walks through from m: below place i of the stack     *)
(* stands the model its entry leads to from the model at i.                *)
Trail(way, m, stack) == \E at \in [0..Len(stack) -> Model] :
    /\ at[Len(stack)] = m
    /\ \A i \in 1..Len(stack) : Steps(way, stack[i].ops, at[i], at[i-1])
Trails(c, m) == Trail("undo", m, store[c].undo) /\ Trail("redo", m, store[c].redo)

(* The task in hand leads from m to the model on the screen: by ops of its *)
(* own, or by the entry on top of the stack it will move.                  *)
TaskLeads(c, m) ==
    \/ chain[c].kind = "edit" /\ Joins(chain[c].ops, m, store[c].model)
    \/ /\ chain[c].kind = "undo" /\ store[c].undo # << >>
       /\ Steps("undo", Last(store[c].undo).ops, m, store[c].model)
    \/ /\ chain[c].kind = "redo" /\ store[c].redo # << >>
       /\ Steps("redo", Last(store[c].redo).ops, m, store[c].model)

(* Nobody else is at work: the editor knows the last version, its answers  *)
(* come in order, and whatever it fetches is the last version too.         *)
Alone(c) ==
    /\ orphans = {} /\ dialog[c].stage = "none"
    /\ store[c].here /\ ~ chain[c].left /\ ~ chain[c].interleaved
    /\ chain[c].phase \in {"idle", "call", "reload", "repair"}
    /\ query[c].stage # "idle" => chain[c].phase \in {"reload", "repair"}
    /\ query[c].stage = "read" => query[c].seq = currentSeq
    /\ chain[c].phase \in {"idle", "reload"} => store[c].seq = currentSeq
    /\ call[c].stage = "sent" => chain[c].lastSeq = currentSeq
    /\ call[c].stage = "committed" => /\ call[c].seq = currentSeq
                                      /\ chain[c].lastSeq + 1 = currentSeq

StacksHold(c) ==
    /\ chain[c].phase \in {"idle", "reload"} => Trails(c, store[c].model)
    /\ chain[c].phase = "call" => \E m \in Model : Trails(c, m) /\ TaskLeads(c, m)

Steady(c) == Alone(c) /\ StacksHold(c)
UndoInv == Undisturbed => \A c \in Client : Steady(c)
(* Induction, as the least element of a set.                               *)
LEMMA UpTo ==
  ASSUME NEW n \in Nat, NEW S, 0 \in S, \A i \in 0..n-1 : i \in S => i + 1 \in S
  PROVE  n \in S
<1> DEFINE T == 0..n \ S
<1>1. T = {}
  <2> SUFFICES ASSUME T # {} PROVE FALSE
    OBVIOUS
  <2>1. PICK R : R = OpToRel(<, Nat)
    OBVIOUS
  <2>2. IsWellFoundedOn(R, Nat)
    BY <2>1, NatLessThanWellFounded
  <2>3. PICK j \in T : \A k \in T : <<k, j>> \notin R
    <3>1. T \in SUBSET Nat /\ T # {}
      OBVIOUS
    <3> HIDE DEF T
    <3> QED BY <2>2, <3>1, WFMin
  <2>4. j # 0 /\ j - 1 \in 0..n-1 /\ j - 1 + 1 = j
    BY <2>3
  <2>5. j - 1 \in S
    <3>1. <<j - 1, j>> \in R
      BY <2>1, <2>4 DEF OpToRel
    <3> QED BY <2>3, <2>4, <3>1
  <2> QED BY <2>3, <2>4, <2>5
<1> QED BY <1>1

LEMMA StepsLead ==
  ASSUME NEW way \in {"undo", "redo"}, NEW ops, NEW m, NEW n, Steps(way, ops, m, n)
  PROVE  n = IF way = "undo" THEN Apply(m, Invert(ops)) ELSE Apply(m, ops)
  BY DEF Steps, Joins

LEMMA TrailEmpty == ASSUME NEW way, NEW m \in Model PROVE Trail(way, m, << >>)
<1> DEFINE at == [i \in 0..0 |-> m]
<1>1. at \in [0..0 -> Model] /\ at[0] = m
  OBVIOUS
<1>2. Len(<< >>) = 0 /\ 1..0 = {}
  OBVIOUS
<1> HIDE DEF at
<1> QED BY <1>1, <1>2 DEF Trail

(* The entry on top leads to a model, and the rest of the stack goes on    *)
(* from there.                                                             *)
LEMMA TrailPop ==
  ASSUME NEW way \in {"undo", "redo"}, NEW m \in Model, NEW s \in Seq(Entry), s # << >>, Trail(way, m, s)
  PROVE  \E n \in Model : Steps(way, Last(s).ops, m, n) /\ Trail(way, n, Front(s))
<1>1. PICK k \in Nat : k + 1 = Len(s)
  <2>1. Len(s) \in Nat /\ Len(s) # 0
    OBVIOUS
  <2>2. Len(s) - 1 \in Nat /\ Len(s) - 1 + 1 = Len(s)
    BY <2>1
  <2> QED BY <2>2
<1>2. PICK at \in [0..k+1 -> Model] :
        at[k+1] = m /\ \A i \in 1..k+1 : Steps(way, s[i].ops, at[i], at[i-1])
  BY <1>1 DEF Trail
<1>3. Last(s) = s[k+1] /\ Front(s) \in Seq(Entry) /\ Len(Front(s)) = k
      /\ \A i \in 1..k : Front(s)[i] = s[i]
  BY <1>1 DEF Last, Front
<1> DEFINE below == [i \in 0..k |-> at[i]]
<1>4. below \in [0..k -> Model] /\ below[k] = at[k] /\ at[k] \in Model
  BY <1>2
<1>5. Steps(way, Last(s).ops, m, at[k])
  <2>1. k + 1 \in 1..k+1 /\ (k + 1) - 1 = k
    OBVIOUS
  <2> QED BY <1>2, <1>3, <2>1
<1>6. ASSUME NEW i \in 1..k PROVE Steps(way, Front(s)[i].ops, below[i], below[i-1])
  <2>1. i \in 0..k /\ i - 1 \in 0..k /\ i \in 1..k+1
    OBVIOUS
  <2> QED BY <1>2, <1>3, <2>1
<1>7. Trail(way, at[k], Front(s))
  <2> HIDE DEF below
  <2> QED BY <1>3, <1>4, <1>6 DEF Trail
<1> QED BY <1>4, <1>5, <1>7

LEMMA TrailPush ==
  ASSUME NEW way \in {"undo", "redo"}, NEW m \in Model, NEW n \in Model,
         NEW s \in Seq(Entry), NEW e \in Entry, Trail(way, m, s), Steps(way, e.ops, n, m)
  PROVE  Trail(way, n, Append(s, e))
<1>1. PICK k \in Nat : k = Len(s)
  OBVIOUS
<1>2. PICK at \in [0..k -> Model] :
        at[k] = m /\ \A i \in 1..k : Steps(way, s[i].ops, at[i], at[i-1])
  BY <1>1 DEF Trail
<1>3. /\ Len(Append(s, e)) = k + 1 /\ Append(s, e)[k+1] = e
      /\ \A i \in 1..k : Append(s, e)[i] = s[i]
  BY <1>1
<1> DEFINE above == [i \in 0..k+1 |-> IF i = k + 1 THEN n ELSE at[i]]
<1>4. above \in [0..k+1 -> Model] /\ above[k+1] = n /\ \A i \in 0..k : above[i] = at[i]
  BY <1>2
<1> HIDE DEF above
<1>5. ASSUME NEW i \in 1..k+1 PROVE Steps(way, Append(s, e)[i].ops, above[i], above[i-1])
  <2>1. CASE i = k + 1
    <3>1. above[i] = n /\ above[i-1] = m /\ Append(s, e)[i] = e
      BY <1>2, <1>3, <1>4, <2>1
    <3> QED BY <3>1
  <2>2. CASE i # k + 1
    <3>1. i \in 1..k /\ i \in 0..k /\ i - 1 \in 0..k
      BY <2>2
    <3> QED BY <1>2, <1>3, <1>4, <3>1
  <2> QED BY <2>1, <2>2
<1> QED BY <1>3, <1>4, <1>5 DEF Trail

LEMMA TrailCap ==
  ASSUME NEW way \in {"undo", "redo"}, NEW m \in Model, NEW s \in Seq(Entry), Trail(way, m, s)
  PROVE  Trail(way, m, Capped(s))
<1>1. CASE Len(s) > HISTORY_CAP
  <2>1. PICK k \in Nat, h \in Nat : k = Len(s) /\ h = HISTORY_CAP /\ h < k /\ h # 0
    BY <1>1, SyncBounds
  <2>2. PICK d \in Nat : d = k - h
    <3>1. k - h \in Nat
      BY <2>1
    <3> QED BY <3>1
  <2>3. Capped(s) = SubSeq(s, d + 1, k)
    BY <1>1, <2>1, <2>2 DEF Capped
  <2>4. Len(Capped(s)) = h /\ \A i \in 1..h : Capped(s)[i] = s[i + d]
    BY <2>1, <2>2, <2>3
  <2>5. PICK at \in [0..k -> Model] :
          at[k] = m /\ \A i \in 1..k : Steps(way, s[i].ops, at[i], at[i-1])
    BY <2>1 DEF Trail
  <2> DEFINE upper == [i \in 0..h |-> at[i + d]]
  <2>6. /\ upper \in [0..h -> Model] /\ upper[h] = m
        /\ \A i \in 0..h : upper[i] = at[i + d]
    <3>1. \A i \in 0..h : i + d \in 0..k
      BY <2>1, <2>2
    <3>2. h + d = k /\ h \in 0..h
      BY <2>1, <2>2
    <3>3. \A i \in 0..h : at[i + d] \in Model
      BY <2>5, <3>1
    <3> QED BY <2>5, <3>2, <3>3
  <2> HIDE DEF upper
  <2>7. ASSUME NEW i \in 1..h PROVE Steps(way, Capped(s)[i].ops, upper[i], upper[i-1])
    <3>1. i + d \in 1..k /\ i \in 0..h /\ i - 1 \in 0..h /\ (i + d) - 1 = (i - 1) + d
      BY <2>1, <2>2
    <3>2. Steps(way, s[i+d].ops, at[i+d], at[(i+d)-1])
      BY <2>5, <3>1
    <3>3. upper[i] = at[i+d] /\ upper[i-1] = at[(i+d)-1] /\ Capped(s)[i] = s[i+d]
      BY <2>4, <2>6, <3>1
    <3> QED BY <3>2, <3>3
  <2> QED BY <2>4, <2>6, <2>7 DEF Trail
<1>2. CASE ~ (Len(s) > HISTORY_CAP)
  BY <1>2 DEF Capped
<1> QED BY <1>1, <1>2

(* What Undone and Redone compute is the model at the bottom of the trail. *)
Walks(g, way, m, s) == g = [n \in 0..Len(s) |->
    IF n = 0 THEN m
    ELSE IF g[n-1] = Failure THEN Failure
    ELSE IF way = "undo" THEN Apply(g[n-1], Invert(s[Len(s) + 1 - n].ops))
         ELSE Apply(g[n-1], s[Len(s) + 1 - n].ops)]

LEMMA TrailWalked ==
  ASSUME NEW way \in {"undo", "redo"}, NEW m \in Model, NEW s \in Seq(Entry), Trail(way, m, s)
  PROVE  \E g : Walks(g, way, m, s)
<1>1. PICK k \in Nat : k = Len(s)
  OBVIOUS
<1>2. PICK at \in [0..k -> Model] :
        at[k] = m /\ \A i \in 1..k : Steps(way, s[i].ops, at[i], at[i-1])
  BY <1>1 DEF Trail
<1>3. PICK g : g = [n \in 0..k |-> at[k - n]]
  OBVIOUS
<1>4. ASSUME NEW n \in 0..k
      PROVE  g[n] = IF n = 0 THEN m
                    ELSE IF g[n-1] = Failure THEN Failure
                    ELSE IF way = "undo" THEN Apply(g[n-1], Invert(s[k + 1 - n].ops))
                         ELSE Apply(g[n-1], s[k + 1 - n].ops)
  <2>1. CASE n = 0
    BY <1>2, <1>3, <2>1
  <2>2. CASE n # 0
    <3>1. PICK i \in 1..k : i = k + 1 - n /\ i - 1 = k - n /\ i = k - (n - 1)
      BY <2>2
    <3>2. g[n] = at[i-1] /\ g[n-1] = at[i] /\ at[i] \in Model
      BY <1>2, <1>3, <2>2, <3>1
    <3>3. at[i] # Failure
      BY <3>2, EmptyLaw
    <3>4. at[i-1] = IF way = "undo" THEN Apply(at[i], Invert(s[i].ops)) ELSE Apply(at[i], s[i].ops)
      BY <1>2, StepsLead
    <3> QED BY <2>2, <3>1, <3>2, <3>3, <3>4
  <2> QED BY <2>1, <2>2
<1>5. g = [n \in 0..k |-> g[n]]
  BY <1>3
<1>6. Walks(g, way, m, s)
  BY <1>1, <1>4, <1>5 DEF Walks
<1> QED BY <1>6

LEMMA WalkEnds ==
  ASSUME NEW way \in {"undo", "redo"}, NEW m \in Model, NEW s \in Seq(Entry), Trail(way, m, s),
         NEW g, Walks(g, way, m, s)
  PROVE  g[Len(s)] \in Model
<1>1. PICK k \in Nat : k = Len(s)
  OBVIOUS
<1>2. PICK at \in [0..k -> Model] :
        at[k] = m /\ \A i \in 1..k : Steps(way, s[i].ops, at[i], at[i-1])
  BY <1>1 DEF Trail
<1>3. \A n \in 0..k : g[n] = IF n = 0 THEN m
                    ELSE IF g[n-1] = Failure THEN Failure
                    ELSE IF way = "undo" THEN Apply(g[n-1], Invert(s[k + 1 - n].ops))
                         ELSE Apply(g[n-1], s[k + 1 - n].ops)
  BY <1>1 DEF Walks
<1> DEFINE S == {n \in 0..k : g[n] = at[k - n]}
<1>4. 0 \in S
  BY <1>2, <1>3
<1>5. ASSUME NEW n \in 0..k-1, n \in S PROVE n + 1 \in S
  <2>1. PICK i \in 1..k : i = k - n /\ i - 1 = k - (n + 1) /\ i = k + 1 - (n + 1)
    OBVIOUS
  <2>2. g[n] = at[i] /\ at[i] \in Model /\ at[i] # Failure
    BY <1>2, <1>5, <2>1, EmptyLaw
  <2>3. PICK j \in 0..k : j = n + 1 /\ j # 0 /\ j - 1 = n /\ k + 1 - j = i
    BY <2>1
  <2>4. g[j] = IF way = "undo" THEN Apply(at[i], Invert(s[i].ops)) ELSE Apply(at[i], s[i].ops)
    BY <1>3, <2>2, <2>3
  <2>5. g[j] = at[i-1]
    BY <1>2, <2>4, StepsLead
  <2> QED BY <2>1, <2>3, <2>5
<1>6. k \in S
  <2> HIDE DEF S
  <2> QED BY <1>4, <1>5, UpTo
<1>7. g[k] = at[0]
  BY <1>6
<1> QED BY <1>1, <1>2, <1>7

LEMMA TrailsWalkBack ==
  ASSUME NEW c \in Client, store[c] \in Store, Trails(c, store[c].model)
  PROVE  Undone(c) # Failure /\ Redone(c) # Failure
<1>1. PICK st : st = store[c]
  OBVIOUS
<1>2. /\ st.model \in Model /\ st.undo \in Seq(Entry) /\ st.redo \in Seq(Entry)
      /\ Trail("undo", st.model, st.undo) /\ Trail("redo", st.model, st.redo)
  BY <1>1 DEF Store, Trails
<1>3. Undone(c) # Failure
  <2>1. PICK g : Walks(g, "undo", st.model, st.undo)
    BY <1>2, TrailWalked
  <2>2. PICK b : b = CHOOSE h : h = [n \in 0..Len(st.undo) |->
            IF n = 0 THEN st.model
            ELSE IF h[n-1] = Failure THEN Failure
            ELSE Apply(h[n-1], Invert(st.undo[Len(st.undo) + 1 - n].ops))]
    OBVIOUS
  <2>3. Walks(b, "undo", st.model, st.undo)
    BY <2>1, <2>2 DEF Walks
  <2>4. b[Len(st.undo)] \in Model
    BY <1>2, <2>3, WalkEnds
  <2>5. Undone(c) = b[Len(st.undo)]
    BY <1>1, <2>2 DEF Undone
  <2> QED BY <2>4, <2>5, EmptyLaw
<1>4. Redone(c) # Failure
  <2>1. PICK g : Walks(g, "redo", st.model, st.redo)
    BY <1>2, TrailWalked
  <2>2. PICK b : b = CHOOSE h : h = [n \in 0..Len(st.redo) |->
            IF n = 0 THEN st.model
            ELSE IF h[n-1] = Failure THEN Failure
            ELSE Apply(h[n-1], st.redo[Len(st.redo) + 1 - n].ops)]
    OBVIOUS
  <2>3. Walks(b, "redo", st.model, st.redo)
    BY <2>1, <2>2 DEF Walks
  <2>4. b[Len(st.redo)] \in Model
    BY <1>2, <2>3, WalkEnds
  <2>5. Redone(c) = b[Len(st.redo)]
    BY <1>1, <2>2 DEF Redone
  <2> QED BY <2>4, <2>5, EmptyLaw
<1> QED BY <1>3, <1>4
-----------------------------------------------------------------------------
(* What was undisturbed after a step was so before it; what ends the calm  *)
(* need not be looked at.                                                  *)
LEMMA SpendDisturbs ==
  ASSUME SyncTypeOK, NEW what \in Spending \ {"edits"}, NEW bound, Spend(what, bound)
  PROVE  ~ Undisturbed'
<1>1. spent \in [Spending -> Nat] /\ spent' = [spent EXCEPT ![what] = @ + 1]
  BY DEF SyncTypeOK, Spend
<1>2. spent'[what] # 0
  BY <1>1
<1> QED BY <1>2 DEF Undisturbed

LEMMA SpendEdits ==
  ASSUME SyncTypeOK, NEW bound, Spend("edits", bound), Undisturbed'
  PROVE  Undisturbed
<1>1. spent \in [Spending -> Nat] /\ spent' = [spent EXCEPT !["edits"] = @ + 1]
  BY DEF SyncTypeOK, Spend
<1>2. \A what \in Spending \ {"edits"} : spent'[what] = spent[what]
  BY <1>1
<1> QED BY <1>2 DEF Undisturbed

(* Everything these two speak of but the log, the frames and the socket.   *)
LEMMA SteadyStays ==
  ASSUME NEW c \in Client, Steady(c), UNCHANGED <<store, chain, call, query, dialog, orphans>>,
         currentSeq' = currentSeq
  PROVE  Steady(c)'
<1>1. Alone(c)'
  BY DEF Steady, Alone
<1>2. \A m : (Trails(c, m)' <=> Trails(c, m)) /\ (TaskLeads(c, m)' <=> TaskLeads(c, m))
  BY DEF Trails, TaskLeads
<1>3. StacksHold(c)'
  BY <1>2 DEF Steady, StacksHold
<1> QED BY <1>1, <1>3 DEF Steady

LEMMA NoSeqChange == ASSUME UNCHANGED logVars PROVE currentSeq' = currentSeq
  BY DEF logVars, currentSeq

LEMMA SubmitSteady ==
  ASSUME SyncInv, NEW c \in Client, Steady(c), NEW kind \in {"edit", "undo", "redo"}, NEW target,
         Submit(c, kind, target),
         kind = "undo" => store[c].undo # << >> /\ target = Apply(store[c].model, Invert(Last(store[c].undo).ops)),
         kind = "redo" => store[c].redo # << >> /\ target = Apply(store[c].model, Last(store[c].redo).ops)
  PROVE  Steady(c)'
<1>0. PICK m \in Model : m = store[c].model
  BY SeqTypes DEF SyncInv
<1>1. /\ chain[c].phase = "idle" /\ store[c].here /\ target \in Model \ {m}
      /\ UNCHANGED logVars /\ UNCHANGED <<query, dialog, orphans>>
  BY <1>0 DEF Submit
<1>2. PICK ops : ops = Diff(m, target)
  OBVIOUS
<1>3. PICK task : task = [Idle EXCEPT !.phase = "call", !.kind = kind, !.edit = spent.edits + 1,
                                      !.ops = ops, !.todo = Chunks(ops), !.lastSeq = store[c].seq]
  OBVIOUS
<1>4. /\ chain' = [chain EXCEPT ![c] = task] /\ store' = [store EXCEPT ![c].model = target]
      /\ call' = [call EXCEPT ![c] = [stage |-> "sent", seq |-> 0]]
  BY <1>0, <1>2, <1>3 DEF Submit
<1>5. /\ task.phase = "call" /\ task.kind = kind /\ task.ops = ops /\ task.lastSeq = store[c].seq
      /\ task.left = FALSE /\ task.interleaved = FALSE
  BY <1>3 DEF Idle
<1>6. /\ chain'[c] = task /\ call'[c].stage = "sent"
      /\ store'[c].model = target /\ store'[c].here = store[c].here
      /\ store'[c].undo = store[c].undo /\ store'[c].redo = store[c].redo
  BY <1>4 DEF SyncInv, SyncTypeOK, Store
<1>7. currentSeq' = currentSeq /\ store[c].seq = currentSeq
  BY <1>1, NoSeqChange DEF Steady, Alone
<1>9. Alone(c)'
  <2>1. dialog'[c] = dialog[c] /\ query'[c] = query[c] /\ orphans' = orphans
    BY <1>1
  <2>2. query[c].stage = "idle"
    BY <1>1 DEF Steady, Alone
  <2> QED BY <1>1, <1>5, <1>6, <1>7, <2>1, <2>2 DEF Steady, Alone
<1>10. Trails(c, m)'
  <2>1. Trails(c, m)
    BY <1>0, <1>1 DEF Steady, StacksHold
  <2> QED BY <1>6, <2>1 DEF Trails
<1>11. TaskLeads(c, m)'
  <2>1. CASE kind = "edit"
    <3>1. Joins(ops, m, target)
      BY <1>1, <1>2, DiffLaw, InvertLaw DEF Joins
    <3> QED BY <1>5, <1>6, <2>1, <3>1 DEF TaskLeads
  <2>2. CASE kind = "undo"
    <3>1. store[c].undo \in Seq(Entry) /\ store[c].undo # << >> /\ Trail("undo", m, store[c].undo)
      BY <1>0, <1>1, <2>2, SeqTypes DEF SyncInv, Store, Steady, StacksHold, Trails
    <3>2. PICK n \in Model : Steps("undo", Last(store[c].undo).ops, m, n)
      BY <3>1, TrailPop
    <3>3. n = target
      BY <1>0, <2>2, <3>2, StepsLead
    <3> QED BY <1>5, <1>6, <2>2, <3>1, <3>2, <3>3 DEF TaskLeads
  <2>3. CASE kind = "redo"
    <3>1. store[c].redo \in Seq(Entry) /\ store[c].redo # << >> /\ Trail("redo", m, store[c].redo)
      BY <1>0, <1>1, <2>3, SeqTypes DEF SyncInv, Store, Steady, StacksHold, Trails
    <3>2. PICK n \in Model : Steps("redo", Last(store[c].redo).ops, m, n)
      BY <3>1, TrailPop
    <3>3. n = target
      BY <1>0, <2>3, <3>2, StepsLead
    <3> QED BY <1>5, <1>6, <2>3, <3>1, <3>2, <3>3 DEF TaskLeads
  <2> QED BY <2>1, <2>2, <2>3
<1>12. StacksHold(c)'
  BY <1>5, <1>6, <1>10, <1>11 DEF StacksHold
<1> QED BY <1>9, <1>12 DEF Steady

LEMMA ServerMutateSteady ==
  ASSUME SyncInv, NEW c \in Client, Steady(c), ServerMutate(c)
  PROVE  Steady(c)'
<1>1. /\ call[c].stage = "sent"
      /\ UNCHANGED <<store, chain, query, dialog, orphans>>
  BY DEF ServerMutate
<1>2. chain[c].phase = "call" /\ chain[c].lastSeq = currentSeq /\ currentSeq \in Nat
  BY <1>1, QuietFacts DEF SyncInv, ClientInv, CallTrue, Steady, Alone
<1>3. PICK b : b = Head(chain[c].todo)
  OBVIOUS
<1>4. /\ call'[c].stage \in {"committed", "error"}
      /\ call'[c].stage = "committed" => call'[c].seq = currentSeq + 1 /\ currentSeq' = currentSeq + 1
  <2>1. CASE Acceptable(b)
    <3>1. Commit(b, <<c, chain[c].edit>>) /\ call' = [call EXCEPT ![c] = [stage |-> "committed", seq |-> currentSeq + 1]]
      BY <1>3, <2>1 DEF ServerMutate
    <3>2. b \in Batch /\ <<c, chain[c].edit>> \in Author
      <4>1. chain[c] \in Task /\ chain[c].todo \in Seq(Batch) /\ chain[c].todo # << >>
        BY <1>2, SeqTypes DEF SyncInv, ClientInv, CallTrue
      <4> QED BY <1>3, <4>1, AuthorKnown DEF Task
    <3>3. currentSeq' = currentSeq + 1
      BY <3>1, <3>2, CommitExtends, QuietFacts
    <3> QED BY <3>1, <3>3 DEF SyncInv, SyncTypeOK
  <2>2. CASE ~ Acceptable(b)
    <3>1. call' = [call EXCEPT ![c].stage = "error"]
      BY <1>3, <2>2 DEF ServerMutate
    <3> QED BY <3>1 DEF SyncInv, SyncTypeOK
  <2> QED BY <2>1, <2>2
<1>5. Alone(c)'
  <2>1. query[c].stage = "idle"
    BY <1>2 DEF Steady, Alone
  <2> QED BY <1>1, <1>2, <1>4, <2>1 DEF Steady, Alone
<1>6. StacksHold(c)'
  <2>1. \A m : (Trails(c, m)' <=> Trails(c, m)) /\ (TaskLeads(c, m)' <=> TaskLeads(c, m))
    BY <1>1 DEF Trails, TaskLeads
  <2> QED BY <1>1, <2>1 DEF Steady, StacksHold
<1> QED BY <1>5, <1>6 DEF Steady

(* An answer comes in order and to an editor that is still there.          *)
LEMMA AnswerSteady ==
  ASSUME SyncInv, NEW c \in Client, Steady(c), Answer(c)
  PROVE  /\ chain[c].phase = "call" /\ query[c].stage = "idle"
         /\ call[c].seq = currentSeq /\ currentSeq \in Nat
         /\ AfterAnswer(c).phase = "call" /\ AfterAnswer(c).lastSeq = currentSeq
         /\ AfterAnswer(c).left = FALSE /\ AfterAnswer(c).interleaved = FALSE
         /\ AfterAnswer(c).kind = chain[c].kind /\ AfterAnswer(c).ops = chain[c].ops
<1>1. chain[c].phase = "call" /\ chain[c] \in Task /\ currentSeq \in Nat
  BY AnsweredTask, SeqTypes, QuietFacts DEF SyncInv
<1>2. /\ query[c].stage = "idle" /\ call[c].seq = currentSeq /\ chain[c].lastSeq + 1 = currentSeq
      /\ ~ chain[c].interleaved /\ StillHere(c)
  BY <1>1 DEF Steady, Alone, Answer, StillHere
<1> QED BY <1>1, <1>2 DEF AfterAnswer, Task

LEMMA NextChunkSteady ==
  ASSUME SyncInv, NEW c \in Client, Steady(c), NextChunk(c)
  PROVE  Steady(c)'
<1>1. /\ Answer(c) /\ chain' = [chain EXCEPT ![c] = AfterAnswer(c)]
      /\ call' = [call EXCEPT ![c] = [stage |-> "sent", seq |-> 0]]
      /\ UNCHANGED logVars /\ UNCHANGED <<store, query, dialog, orphans>>
  BY DEF NextChunk
<1>2. /\ chain'[c] = AfterAnswer(c) /\ call'[c].stage = "sent" /\ currentSeq' = currentSeq
  BY <1>1, NoSeqChange DEF SyncInv, SyncTypeOK
<1>3. Alone(c)'
  BY <1>1, <1>2, AnswerSteady DEF Steady, Alone
<1>4. StacksHold(c)'
  <2>1. PICK m \in Model : Trails(c, m) /\ TaskLeads(c, m)
    BY <1>1, AnswerSteady DEF Steady, StacksHold
  <2>2. Trails(c, m)' /\ TaskLeads(c, m)'
    BY <1>1, <1>2, <2>1, AnswerSteady DEF Trails, TaskLeads
  <2> QED BY <1>1, <1>2, <2>2, AnswerSteady DEF StacksHold
<1> QED BY <1>3, <1>4 DEF Steady

(* The stacks after an applied submit: of a new edit, or with the entry    *)
(* that was submitted moved from one to the other.                         *)
LEMMA RecordedTrails ==
  ASSUME NEW c \in Client, store[c] \in Store, chain[c] \in Task, chain[c].ops \in Batch,
         NEW m \in Model, Trails(c, m), TaskLeads(c, m),
         NEW task, task.kind = chain[c].kind, task.ops = chain[c].ops, task.edit = chain[c].edit,
         NEW st \in Store, st.undo = store[c].undo, st.redo = store[c].redo,
         st.model = store[c].model
  PROVE  /\ Trail("undo", st.model, Recorded(st, task).undo)
         /\ Trail("redo", st.model, Recorded(st, task).redo)
<1> DEFINE n == st.model
           undo == st.undo
           redo == st.redo
<1>1. /\ n \in Model /\ undo \in Seq(Entry) /\ redo \in Seq(Entry)
      /\ Trail("undo", m, undo) /\ Trail("redo", m, redo)
  BY DEF Store, Trails
<1>2. CASE chain[c].kind = "edit"
  <2>1. PICK e \in Entry : e = [edit |-> task.edit, ops |-> task.ops] /\ e.ops = chain[c].ops
    <3>1. chain[c].edit \in 0..MaxEdits
      BY DEF Task
    <3>2. [edit |-> chain[c].edit, ops |-> chain[c].ops] \in Entry
      BY <3>1 DEF Entry
    <3> QED BY <3>2
  <2>2. Steps("undo", e.ops, n, m)
    BY <1>2, <2>1 DEF TaskLeads, Steps
  <2>3. Append(undo, e) \in Seq(Entry) /\ Trail("undo", n, Append(undo, e))
    BY <1>1, <2>2, TrailPush
  <2>4. Trail("undo", n, Capped(Append(undo, e)))
    BY <1>1, <2>3, TrailCap
  <2>5. Recorded(st, task) = [st EXCEPT !.undo = Capped(Append(@, e)), !.redo = << >>]
    BY <1>2, <2>1 DEF Recorded, recordEdit
  <2>6. Recorded(st, task).undo = Capped(Append(undo, e)) /\ Recorded(st, task).redo = << >>
    BY <2>5 DEF Store
  <2> QED BY <1>1, <2>4, <2>6, TrailEmpty
<1>3. CASE chain[c].kind = "undo"
  <2>1. undo # << >> /\ Steps("undo", Last(undo).ops, m, n)
    BY <1>3 DEF TaskLeads
  <2>2. PICK k \in Model : Steps("undo", Last(undo).ops, m, k) /\ Trail("undo", k, Front(undo))
    BY <1>1, <2>1, TrailPop
  <2>3. k = n
    BY <2>1, <2>2, StepsLead
  <2>4. Last(undo) \in Entry
    BY <1>1, <2>1 DEF Last
  <2>5. Steps("redo", Last(undo).ops, n, m)
    BY <2>1 DEF Steps
  <2>6. Trail("redo", n, Append(redo, Last(undo)))
    BY <1>1, <2>4, <2>5, TrailPush
  <2>7. Recorded(st, task).undo = Front(undo) /\ Recorded(st, task).redo = Append(redo, Last(undo))
    BY <1>3, <2>1 DEF Recorded, moveUndoToRedo, Store
  <2> QED BY <2>2, <2>3, <2>6, <2>7
<1>4. CASE chain[c].kind = "redo"
  <2>1. redo # << >> /\ Steps("redo", Last(redo).ops, m, n)
    BY <1>4 DEF TaskLeads
  <2>2. PICK k \in Model : Steps("redo", Last(redo).ops, m, k) /\ Trail("redo", k, Front(redo))
    BY <1>1, <2>1, TrailPop
  <2>3. k = n
    BY <2>1, <2>2, StepsLead
  <2>4. Last(redo) \in Entry
    BY <1>1, <2>1 DEF Last
  <2>5. Steps("undo", Last(redo).ops, n, m)
    BY <2>1 DEF Steps
  <2>6. Trail("undo", n, Append(undo, Last(redo)))
    BY <1>1, <2>4, <2>5, TrailPush
  <2>7. Recorded(st, task).redo = Front(redo) /\ Recorded(st, task).undo = Append(undo, Last(redo))
    BY <1>4, <2>1 DEF Recorded, moveRedoToUndo, Store
  <2> QED BY <2>2, <2>3, <2>6, <2>7
<1> QED BY <1>2, <1>3, <1>4 DEF TaskLeads

LEMMA LastChunkSteady ==
  ASSUME SyncInv, NEW c \in Client, Steady(c), LastChunk(c)
  PROVE  Steady(c)'
<1>1. /\ Answer(c) /\ call' = [call EXCEPT ![c] = NoCall]
      /\ UNCHANGED logVars /\ UNCHANGED <<dialog, orphans>>
  BY DEF LastChunk
<1>2. PICK task \in Task : /\ task = AfterAnswer(c) /\ task.left = FALSE /\ task.interleaved = FALSE
                           /\ task.lastSeq = currentSeq /\ task.kind = chain[c].kind
                           /\ task.ops = chain[c].ops /\ task.ops \in Batch
                           /\ task.edit = chain[c].edit
  <2>1. chain[c] \in Task
    BY SeqTypes DEF SyncInv
  <2>2. AfterAnswer(c).edit = chain[c].edit
    BY <2>1 DEF AfterAnswer, Task
  <2> QED BY <1>1, <2>2, AnsweredTask, AnswerSteady
<1>3. /\ store' = [store EXCEPT ![c] = Recorded(setSeq(@, task.lastSeq), task)]
      /\ chain' = [chain EXCEPT ![c] = Idle] /\ UNCHANGED query
  BY <1>2 DEF LastChunk
<1>4. store[c] \in Store /\ store[c].seq \in 0..currentSeq /\ currentSeq \in Nat /\ chain[c] \in Task
  BY SeqTypes, QuietFacts DEF SyncInv, ClientInv, SeqsKnown
<1>5. PICK st \in Store : /\ st = setSeq(store[c], task.lastSeq) /\ st.seq = currentSeq
                          /\ st.model = store[c].model /\ st.here = store[c].here
                          /\ st.undo = store[c].undo /\ st.redo = store[c].redo
  <2>1. PICK old \in Store, n \in Nat : /\ old = store[c] /\ n = currentSeq /\ old.seq <= n
                                       /\ task.lastSeq = n
    BY <1>2, <1>4
  <2>2. n = IF n > old.seq THEN n ELSE old.seq
    BY <2>1 DEF Store
  <2>3. setSeq(old, n) = [old EXCEPT !.seq = n]
    BY <2>2 DEF setSeq
  <2>4. /\ setSeq(old, n) \in Store /\ setSeq(old, n).seq = n
        /\ setSeq(old, n).model = old.model /\ setSeq(old, n).here = old.here
        /\ setSeq(old, n).undo = old.undo /\ setSeq(old, n).redo = old.redo
    BY <2>3 DEF Store
  <2> QED BY <2>1, <2>4
<1>6. PICK new \in Store : /\ new = Recorded(st, task) /\ new.model = st.model
                           /\ new.seq = st.seq /\ new.here = st.here
  BY <1>2, <1>5, RecordedKeepsModel
<1>7. /\ store'[c] = new /\ chain'[c] = Idle /\ call'[c] = NoCall /\ query'[c] = query[c]
      /\ currentSeq' = currentSeq
  BY <1>1, <1>3, <1>5, <1>6, NoSeqChange DEF SyncInv, SyncTypeOK
<1>8. Alone(c)'
  <2>1. orphans' = {} /\ dialog'[c].stage = "none" /\ store[c].here
    BY <1>1 DEF Steady, Alone
  <2>2. store'[c].here /\ store'[c].seq = currentSeq'
    BY <1>5, <1>6, <1>7, <2>1
  <2>3. query'[c].stage = "idle"
    BY <1>1, <1>7, AnswerSteady
  <2>4. /\ chain'[c].phase = "idle" /\ ~ chain'[c].left /\ ~ chain'[c].interleaved
        /\ call'[c].stage = "none"
    BY <1>7 DEF Idle, NoCall
  <2> QED BY <2>1, <2>2, <2>3, <2>4 DEF Alone
<1>9. Trails(c, new.model)'
  <2>1. PICK m \in Model : Trails(c, m) /\ TaskLeads(c, m)
    BY <1>1, AnswerSteady DEF Steady, StacksHold
  <2>2. Trail("undo", st.model, Recorded(st, task).undo) /\ Trail("redo", st.model, Recorded(st, task).redo)
    BY <1>2, <1>4, <1>5, <2>1, RecordedTrails
  <2> QED BY <1>6, <1>7, <2>2 DEF Trails
<1>10. StacksHold(c)'
  BY <1>7, <1>9 DEF StacksHold, Idle
<1> QED BY <1>8, <1>10 DEF Steady

LEMMA CallFailsSteady ==
  ASSUME SyncInv, NEW c \in Client, Steady(c), CallFails(c), Undisturbed'
  PROVE  Steady(c)'
<1>1. call[c].stage = "error" /\ UNCHANGED <<orphans, spent>>
  <2>1. "faults" \in Spending \ {"edits"}
    BY DEF Spending
  <2> QED BY <2>1, SpendDisturbs DEF CallFails, SyncInv
<1>2. /\ call' = [call EXCEPT ![c] = NoCall] /\ Caught(c)
      /\ UNCHANGED logVars /\ UNCHANGED <<store, dialog>>
  BY DEF CallFails
<1>3. chain[c].phase = "call" /\ StillHere(c) /\ chain[c] \in Task
  <2>1. chain[c].phase = "call"
    BY <1>1 DEF SyncInv, ClientInv, CallTrue
  <2> QED BY <2>1, SeqTypes DEF SyncInv, Steady, Alone, StillHere
<1>4. chain' = [chain EXCEPT ![c].phase = "repair"] /\ fetchQuery(c)
  BY <1>2, <1>3 DEF Caught
<1>5. /\ chain'[c] = [chain[c] EXCEPT !.phase = "repair"] /\ call'[c].stage = "none"
      /\ query[c].stage = "idle" /\ query'[c].stage = "asked" /\ currentSeq' = currentSeq
  <2>1. query[c].stage = "idle"
    BY <1>3 DEF Steady, Alone
  <2>2. query' = [query EXCEPT ![c].stage = "asked"]
    BY <1>4, <2>1 DEF fetchQuery
  <2> QED BY <1>2, <1>4, <2>1, <2>2, NoSeqChange DEF SyncInv, SyncTypeOK, NoCall
<1>6. chain'[c].phase = "repair" /\ chain'[c].left = chain[c].left /\ chain'[c].interleaved = chain[c].interleaved
  BY <1>3, <1>5 DEF Task
<1>7. Alone(c)'
  BY <1>1, <1>2, <1>5, <1>6 DEF Steady, Alone
<1>8. StacksHold(c)'
  BY <1>6 DEF StacksHold
<1> QED BY <1>7, <1>8 DEF Steady

LEMMA QueryReadSteady ==
  ASSUME SyncInv, NEW c \in Client, Steady(c), QueryRead(c)
  PROVE  Steady(c)'
<1>1. /\ query[c].stage = "asked" /\ query' = [query EXCEPT ![c] = [stage |-> "read", seq |-> currentSeq]]
      /\ UNCHANGED logVars /\ UNCHANGED <<store, chain, call, dialog, orphans>>
  BY DEF QueryRead
<1>2. query'[c] = [stage |-> "read", seq |-> currentSeq] /\ currentSeq' = currentSeq
  BY <1>1, NoSeqChange DEF SyncInv, SyncTypeOK
<1>3. Alone(c)'
  BY <1>1, <1>2 DEF Steady, Alone
<1>4. \A m : (Trails(c, m)' <=> Trails(c, m)) /\ (TaskLeads(c, m)' <=> TaskLeads(c, m))
  BY <1>1 DEF Trails, TaskLeads
<1>5. StacksHold(c)'
  BY <1>1, <1>4 DEF Steady, StacksHold
<1> QED BY <1>3, <1>5 DEF Steady

(* The answer of a reload or a repair: the last version, and empty stacks. *)
LEMMA QueryAnswerSteady ==
  ASSUME SyncInv, NEW c \in Client, Steady(c), QueryAnswer(c)
  PROVE  Steady(c)'
<1>1. /\ query[c].stage = "read" /\ query' = [query EXCEPT ![c] = NoQuery]
      /\ store' = [store EXCEPT ![c] = Continued(c, @, query[c].seq)]
      /\ chain' = IF Waiting(c) THEN [chain EXCEPT ![c] = Idle] ELSE chain
      /\ UNCHANGED logVars /\ UNCHANGED <<call, dialog, orphans>>
  BY DEF QueryAnswer
<1>2. chain[c].phase \in {"reload", "repair"} /\ query[c].seq = currentSeq /\ store[c].here /\ ~ chain[c].left
  BY <1>1 DEF Steady, Alone
<1>3. call[c].stage = "none"
  BY <1>2 DEF SyncInv, ClientInv, CallTrue, SyncTypeOK
<1>4. Waiting(c) /\ Resyncs(c, store[c]) /\ chain[c].phase # "settle"
  BY <1>2 DEF Waiting, Resyncs
<1>5. Continued(c, store[c], query[c].seq) = resync(store[c], currentSeq)
  BY <1>2, <1>4 DEF Continued
<1>6. /\ store'[c] = resync(store[c], currentSeq) /\ chain'[c] = Idle /\ query'[c] = NoQuery
      /\ call'[c] = call[c] /\ dialog'[c] = dialog[c] /\ currentSeq' = currentSeq
  BY <1>1, <1>4, <1>5, NoSeqChange DEF SyncInv, SyncTypeOK
<1>7. /\ store'[c].model = ModelAt(currentSeq) /\ store'[c].seq = currentSeq
      /\ store'[c].here = store[c].here /\ store'[c].undo = << >> /\ store'[c].redo = << >>
  <2>1. store[c] \in Store
    BY SeqTypes DEF SyncInv
  <2> QED BY <1>6, <2>1 DEF resync, Store
<1>8. ModelAt(currentSeq) \in Model
  BY LogFacts, QuietFacts
<1>9. Alone(c)'
  <2>1. orphans' = {} /\ dialog'[c].stage = "none"
    BY <1>1 DEF Steady, Alone
  <2>2. store'[c].here /\ store'[c].seq = currentSeq'
    BY <1>2, <1>6, <1>7
  <2>3. query'[c].stage = "idle" /\ call'[c].stage = "none"
    BY <1>3, <1>6 DEF NoQuery
  <2>4. chain'[c].phase = "idle" /\ ~ chain'[c].left /\ ~ chain'[c].interleaved
    BY <1>6 DEF Idle
  <2> QED BY <2>1, <2>2, <2>3, <2>4 DEF Alone
<1>10. Trails(c, ModelAt(currentSeq))'
  <2>1. PICK m \in Model : m = ModelAt(currentSeq) /\ m = ModelAt(currentSeq)'
    BY <1>1, <1>6, <1>8 DEF ModelAt, logVars
  <2>2. Trail("undo", m, << >>) /\ Trail("redo", m, << >>)
    BY TrailEmpty
  <2> QED BY <1>7, <2>1, <2>2 DEF Trails
<1>11. StacksHold(c)'
  <2>1. store'[c].model = ModelAt(currentSeq)'
    BY <1>1, <1>6, <1>7 DEF ModelAt, logVars
  <2> QED BY <1>6, <1>10, <2>1 DEF StacksHold, Idle
<1> QED BY <1>9, <1>11 DEF Steady

(* A frame is one the editor has made itself and drops, or ready.          *)
LEMMA HandleFrameSteady ==
  ASSUME SyncInv, NEW c \in Client, Steady(c), HandleFrame(c)
  PROVE  Steady(c)'
<1>1. /\ chain[c].phase = "idle" /\ inbox[c] # << >>
      /\ UNCHANGED logVars /\ UNCHANGED <<call, dialog, orphans>>
  BY DEF HandleFrame
<1>2. PICK f, v : f = Head(inbox[c]) /\ v = Verdict(store[c], f)
  OBVIOUS
<1>3. v # "apply"
  <2>1. currentSeq \in Nat /\ store[c].seq = currentSeq /\ inbox[c] \in Seq(Received)
    BY <1>1, QuietFacts DEF Steady, Alone
  <2>2. f = inbox[c][1] /\ 1 \in 1..Len(inbox[c]) /\ f \in Received
    BY <1>1, <1>2, <2>1
  <2>3. f.type = "ready" \/ f.seq <= store[c].seq
    <3>1. f.type = "ops" \/ f.type = "ready"
      BY <2>2 DEF Received
    <3>2. f.type = "ops" => f.seq \in 1..currentSeq
      BY <2>2, QuietFacts DEF FramesTrue
    <3> QED BY <2>1, <3>1, <3>2
  <2> QED BY <1>2, <2>3 DEF Verdict
<1>4. CASE v = "drop"
  <2>1. UNCHANGED <<store, chain, query>>
    BY <1>2, <1>4 DEF HandleFrame
  <2> QED BY <1>1, <2>1, NoSeqChange, SteadyStays
<1>5. CASE v = "reload"
  <2>1. chain' = [chain EXCEPT ![c].phase = "reload"] /\ fetchQuery(c) /\ UNCHANGED store
    BY <1>2, <1>5 DEF HandleFrame
  <2>2. query[c].stage = "idle" /\ call[c].stage = "none" /\ chain[c] \in Task
    BY <1>1, SeqTypes DEF Steady, Alone, SyncInv, SyncTypeOK, ClientInv, CallTrue
  <2>3. query' = [query EXCEPT ![c].stage = "asked"]
    BY <2>1, <2>2 DEF fetchQuery
  <2>4. /\ chain'[c] = [chain[c] EXCEPT !.phase = "reload"] /\ query'[c].stage = "asked"
        /\ currentSeq' = currentSeq
    BY <1>1, <2>1, <2>3, NoSeqChange DEF SyncInv, SyncTypeOK
  <2>5. chain'[c].phase = "reload" /\ chain'[c].left = chain[c].left /\ chain'[c].interleaved = chain[c].interleaved
    BY <2>2, <2>4 DEF Task
  <2>6. Alone(c)'
    BY <1>1, <2>1, <2>2, <2>4, <2>5 DEF Steady, Alone
  <2>7. StacksHold(c)'
    <3>1. Trails(c, store[c].model)
      BY <1>1 DEF Steady, StacksHold
    <3>2. Trails(c, store[c].model)'
      BY <2>1, <3>1 DEF Trails
    <3> QED BY <2>1, <2>5, <3>2 DEF StacksHold
  <2> QED BY <2>6, <2>7 DEF Steady
<1> QED BY <1>2, <1>3, <1>4, <1>5 DEF HandleFrame

LEMMA SteadyStart == SyncInit => UndoInv
<1> SUFFICES ASSUME SyncInit, NEW c \in Client PROVE Steady(c)
  BY DEF UndoInv
<1>1. /\ store[c] = [model |-> Empty, seq |-> 0, here |-> TRUE, undo |-> << >>, redo |-> << >>]
      /\ chain[c] = Idle /\ call[c] = NoCall /\ query[c] = NoQuery /\ dialog[c] = NoCall
      /\ orphans = {} /\ currentSeq = 0
  BY DEF SyncInit, LogInit, currentSeq
<1>2. Alone(c)
  BY <1>1 DEF Alone, Idle, NoCall, NoQuery
<1>3. Empty \in Model
  BY EmptyLaw
<1>4. Trails(c, Empty)
  BY <1>1, <1>3, TrailEmpty DEF Trails
<1>5. StacksHold(c)
  BY <1>1, <1>4 DEF StacksHold, Idle
<1> QED BY <1>2, <1>5 DEF Steady

LEMMA ClientSteady ==
  ASSUME SyncInv, NEW c \in Client, Steady(c), ClientNext(c), Undisturbed'
  PROVE  Steady(c)'
<1>1. SyncTypeOK
  BY DEF SyncInv
<1>2. {"others", "refetches", "faults", "switches", "restores"} \subseteq Spending \ {"edits"}
  BY DEF Spending
<1>3. CASE Edit(c)
  BY <1>3, SubmitSteady DEF Edit
<1>4. CASE Undo(c)
  BY <1>4, SubmitSteady DEF Undo
<1>5. CASE Redo(c)
  BY <1>5, SubmitSteady DEF Redo
<1>6. CASE ServerMutate(c) \/ NextChunk(c) \/ LastChunk(c) \/ CallFails(c)
  BY <1>6, ServerMutateSteady, NextChunkSteady, LastChunkSteady, CallFailsSteady
<1>7. CASE QueryRead(c) \/ QueryAnswer(c) \/ HandleFrame(c)
  BY <1>7, QueryReadSteady, QueryAnswerSteady, HandleFrameSteady
<1>8. CASE QueryFails(c) \/ BackgroundRefetch(c) \/ Disconnect(c) \/ Leave(c) \/ Restore(c)
  BY <1>1, <1>2, <1>8, SpendDisturbs DEF QueryFails, BackgroundRefetch, Disconnect, Leave, Restore
<1>9. CASE Subscribe(c) \/ ReadSeq(c) \/ SendReady(c)
  BY <1>9, NoSeqChange, SteadyStays DEF Subscribe, ReadSeq, SendReady
<1>10. CASE Return(c) \/ RestoreAnswered(c) \/ RestoreLoads(c)
  BY <1>10 DEF Steady, Alone, Return, RestoreAnswered, RestoreLoads
<1> QED BY <1>3, <1>4, <1>5, <1>6, <1>7, <1>8, <1>9, <1>10 DEF ClientNext

LEMMA CalmBefore ==
  ASSUME SyncInv, [SyncNext]_vars, Undisturbed' PROVE Undisturbed
<1>1. SyncTypeOK
  BY DEF SyncInv
<1>2. {"others", "refetches", "faults", "switches", "restores"} \subseteq Spending \ {"edits"}
  BY DEF Spending
<1>3. CASE spent' = spent
  BY <1>3 DEF Undisturbed
<1>4. CASE \E what \in Spending : \E bound : Spend(what, bound)
  BY <1>1, <1>4, SpendDisturbs, SpendEdits
<1>5. ASSUME NEW c \in Client, ClientNext(c)
      PROVE  spent' = spent \/ \E what \in Spending : \E bound : Spend(what, bound)
  <2>1. CASE Edit(c) \/ Undo(c) \/ Redo(c)
    BY <2>1 DEF Edit, Undo, Redo, Submit, Spending
  <2>2. CASE CallFails(c) \/ QueryFails(c) \/ BackgroundRefetch(c) \/ Disconnect(c) \/ Leave(c) \/ Restore(c)
    BY <1>2, <2>2 DEF CallFails, QueryFails, BackgroundRefetch, Disconnect, Leave, Restore
  <2>3. CASE \/ ServerMutate(c) \/ NextChunk(c) \/ LastChunk(c) \/ QueryRead(c) \/ QueryAnswer(c)
             \/ Subscribe(c) \/ ReadSeq(c) \/ SendReady(c) \/ HandleFrame(c) \/ Return(c)
             \/ RestoreAnswered(c) \/ RestoreLoads(c)
    BY <2>3 DEF ServerMutate, NextChunk, LastChunk, QueryRead, QueryAnswer, Subscribe, ReadSeq,
                SendReady, HandleFrame, Return, RestoreAnswered, RestoreLoads
  <2> QED BY <1>5, <2>1, <2>2, <2>3 DEF ClientNext
<1>6. CASE OtherWrites \/ ServerCrash
  <2>1. Spend("others", MaxOthers) \/ Spend("faults", MaxFaults)
    BY <1>6 DEF OtherWrites, ServerCrash
  <2> QED BY <1>2, <1>4, <2>1
<1>7. CASE OrphanArrives \/ (\E n \in unpublished : publishOps(n)) \/ UNCHANGED vars
  BY <1>3, <1>7 DEF OrphanArrives, publishOps, vars
<1> QED BY <1>3, <1>4, <1>5, <1>6, <1>7 DEF SyncNext

LEMMA UndoInvKeeps == SyncInv /\ UndoInv /\ [SyncNext]_vars => UndoInv'
<1> SUFFICES ASSUME SyncInv, UndoInv, [SyncNext]_vars, Undisturbed', NEW d \in Client PROVE Steady(d)'
  BY DEF UndoInv
<1>1. Undisturbed /\ Steady(d) /\ SyncTypeOK
  BY CalmBefore DEF UndoInv, SyncInv
<1>2. ASSUME NEW c \in Client, ClientNext(c) PROVE Steady(d)'
  <2>1. c = d
    BY <1>1 DEF Undisturbed
  <2> QED BY <1>1, <1>2, <2>1, ClientSteady
<1>3. ASSUME NEW n \in unpublished, publishOps(n) PROVE Steady(d)'
  <2>1. revisions' = revisions /\ UNCHANGED <<store, chain, call, query, dialog, orphans>>
    BY <1>3 DEF publishOps, Announce
  <2>2. currentSeq' = currentSeq
    BY <2>1 DEF currentSeq
  <2> QED BY <1>1, <2>1, <2>2, SteadyStays
<1>4. CASE OtherWrites \/ ServerCrash
  <2>1. {"others", "faults"} \subseteq Spending \ {"edits"}
    BY DEF Spending
  <2> QED BY <1>1, <1>4, <2>1, SpendDisturbs DEF OtherWrites, ServerCrash
<1>5. CASE OrphanArrives
  BY <1>1, <1>5 DEF Steady, Alone, OrphanArrives
<1>6. CASE UNCHANGED vars
  <2>1. UNCHANGED logVars /\ UNCHANGED <<store, chain, call, query, dialog, orphans>>
    BY <1>6 DEF vars, clientVars
  <2> QED BY <1>1, <2>1, NoSeqChange, SteadyStays
<1> QED BY <1>2, <1>3, <1>4, <1>5, <1>6 DEF SyncNext

(* An editor that is alone and undisturbed can press undo until its stack  *)
(* is empty and redo until that one is, whatever was edited, undone,       *)
(* redone, cut into chunks, refused by the server, capped or cleared by a  *)
(* reload: every step applies (use-model.ts, undo and redo; store.ts,      *)
(* recordEdit, moveUndoToRedo, moveRedoToUndo).                            *)
THEOREM UndoWalksBackAlways == SyncSpec => []UndoWalksBack
<1>1. SyncInv /\ UndoInv => UndoWalksBack
  <2> SUFFICES ASSUME SyncInv, UndoInv, Undisturbed, NEW c \in Client, Resting(c)
               PROVE  Undone(c) # Failure /\ Redone(c) # Failure
    BY DEF UndoWalksBack
  <2>1. chain[c].phase = "idle" /\ Trails(c, store[c].model)
    BY DEF UndoInv, Steady, StacksHold, Resting
  <2> QED BY <2>1, SeqTypes, TrailsWalkBack DEF SyncInv
<1>2. SyncSpec => []UndoInv
  BY SteadyStart, UndoInvKeeps, SyncInvHolds, PTL DEF SyncSpec
<1> QED BY <1>1, <1>2, SyncInvHolds, PTL
=============================================================================
