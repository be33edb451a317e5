-------------------------- MODULE FileStore_proofs --------------------------
(***************************************************************************)
(* Proofs about FileStore, for any files, models and writers: a save never *)
(* overwrites what it has not seen, and unsaved edits survive every order  *)
(* of loads, failures, crashes and restarts.                               *)
(*                                                                         *)
(* UnsavedSurvives needs to know where the unsaved model is at any time:   *)
(* in the store, in the draft, or in the draft that waits for the files to *)
(* become readable; and that no load, however late, replaces it.           *)
(***************************************************************************)
EXTENDS FileStore, SequenceTheorems, TLAPS

(* Loads run only once the process does; the first one starts the store.   *)
NothingRead == store.model \notin Model \/ store.pending # None
ReadsInOrder ==
    /\ up \in {"down", "adopting"} => reads = << >>
    /\ up = "loading" => Len(reads) = 1 /\ reads[1].seq = 0 /\ reads[1].cause = "start"
    /\ up = "up" => \A i \in 1..Len(reads) : reads[i].cause # "start"
    /\ NothingRead => \A i \in 1..Len(reads) : reads[i].seq = 0

(* The store before the first load, and between it and the draft.          *)
StartsFresh ==
    /\ up \in {"down", "loading"} => store = NewStore
    /\ up # "up" => task.kind = "idle"
    /\ up = "adopting" =>
          /\ store.seq = 0 /\ store.pending = None
          /\ ~ store.external /\ ~ unsaved /\ ~ store.timer
          /\ IF store.ok
             THEN store.model \in Model /\ store.base.modelSignature = Render(store.model)
             ELSE store.base.signature = None

(* As long as no files were read nothing is edited either, and a draft     *)
(* waits for them as it was read.                                          *)
WaitsForFiles ==
    /\ NothingRead => /\ store.seq = 0 /\ task.kind = "idle"
                      /\ ~ unsaved /\ ~ store.timer /\ ~ store.external
    /\ store.pending # None =>
          up = "up" /\ ~ store.ok /\ store.pending = draft /\ store.base.signature = None

(* Where the unsaved model is.                                             *)
DraftHolds == edits.drafted # None => draft # None /\ draft.model = edits.drafted
EditsKept == edits.made # None =>
    /\ up # "up" \/ store.pending # None \/ ~ store.draftPending => edits.drafted = edits.made
    /\ up = "up" /\ store.pending = None => unsaved /\ store.model = edits.made
    /\ task.kind # "saved"
SavedIsClean == task.kind = "saved" => edits.drafted = None

(* A save that nobody disturbed has seen the files it has yet to write.    *)
SaveSees ==
    /\ store.base.signature # None => store.base.tree = store.base.signature
    /\ task.kind = "save" =>
          /\ \A i, j \in 1..Len(task.todo) : task.todo[i] = task.todo[j] => i = j
          /\ ~ task.raced => \A i \in 1..Len(task.todo) :
                                files[task.todo[i]] = store.base.tree[task.todo[i]]

FileInv ==
    /\ FileTypeOK /\ ReadsInOrder /\ StartsFresh /\ WaitsForFiles
    /\ DraftHolds /\ EditsKept /\ SavedIsClean /\ SaveSees
-----------------------------------------------------------------------------
LEMMA NewTypes ==
  /\ NewStore \in Store /\ NoTask \in Task /\ NoBase \in Base
  /\ NewStore.seq = 0 /\ NewStore.pending = None /\ NewStore.external = FALSE
  /\ NewStore.draftPending = FALSE /\ NewStore.dirty = FALSE /\ NewStore.timer = FALSE
  /\ NewStore.base.signature = None /\ NewStore.ok = TRUE
  /\ NoTask.kind = "idle" /\ NoTask.raced = FALSE
<1>1. NoBase \in Base /\ NoBase.signature = None
  BY DEF NoBase, Base
<1>2. NoTask \in Task /\ NoTask.kind = "idle" /\ NoTask.raced = FALSE
  <2>1. << >> \in Seq(File) /\ InitialFiles \in Tree
    BY FileBounds
  <2> QED BY <2>1 DEF NoTask, Task
<1> QED BY <1>1, <1>2 DEF NewStore, Store

LEMMA InvTypes ==
  ASSUME FileInv
  PROVE  /\ files \in Tree /\ draft \in Draft \cup {None}
         /\ store \in Store /\ store.base \in Base /\ task \in Task
         /\ reads \in Seq(Load) /\ Len(reads) \in 0..MaxReads
         /\ edits \in [made : Model \cup {None}, drafted : Model \cup {None}]
         /\ woken \in BOOLEAN /\ missed \in BOOLEAN /\ spent \in 0..MaxEvents
         /\ MaxReads \in Nat \ {0} /\ MaxEvents \in Nat
  BY FileBounds DEF FileInv, FileTypeOK, Store

LEMMA EventType == ASSUME FileInv, Event PROVE spent' \in 0..MaxEvents
  BY InvTypes DEF Event

LEMMA WrittenType ==
  ASSUME FileInv, NEW f \in File, NEW content \in Content, Written(f, content)
  PROVE  /\ files' \in Tree /\ woken' \in BOOLEAN
         /\ \A g \in File \ {f} : files'[g] = files[g]
  BY InvTypes DEF Written, Tree

LEMMA ReadingType ==
  ASSUME FileInv, NEW cause \in {"start", "watch", "discard"}
  PROVE  /\ Reading(cause) \in Load /\ Reading(cause).seq = store.seq
         /\ Reading(cause).cause = cause
  BY InvTypes, FileBounds DEF Reading, Load, Store
-----------------------------------------------------------------------------
(* Steps that leave the store, the draft and the edits alone.              *)
LEMMA DiskKeeps ==
  ASSUME FileInv, UNCHANGED <<draft, store, up, edits>>,
         files' \in Tree, woken' \in BOOLEAN, missed' \in BOOLEAN, spent' \in 0..MaxEvents,
         task' \in Task, task'.kind \in {task.kind, "idle"},
         reads' \in Seq(Load), Len(reads') <= MaxReads, ReadsInOrder', SaveSees'
  PROVE  FileInv'
<1>1. FileTypeOK'
  BY DEF FileInv, FileTypeOK
<1>2. StartsFresh' /\ WaitsForFiles'
  BY DEF FileInv, StartsFresh, WaitsForFiles, NothingRead, unsaved
<1>3. DraftHolds' /\ EditsKept' /\ SavedIsClean'
  BY DEF FileInv, DraftHolds, EditsKept, SavedIsClean, unsaved
<1> QED BY <1>1, <1>2, <1>3 DEF FileInv

(* A write by somebody else, seen by a save under way.                     *)
RacedTask == task' = [task EXCEPT !.raced = task.kind = "save"]
LEMMA RacedKeeps ==
  ASSUME FileInv, RacedTask, UNCHANGED store
  PROVE  task' \in Task /\ task'.kind = task.kind /\ SaveSees'
<1>1. /\ task' \in Task /\ task'.kind = task.kind /\ task'.todo = task.todo
      /\ task'.raced = (task.kind = "save")
  BY InvTypes DEF RacedTask, Task
<1> QED BY <1>1 DEF FileInv, SaveSees

LEMMA OutsideWriteKeeps == ASSUME FileInv, OutsideWrite PROVE FileInv'
<1>1. PICK w \in Writings :
        /\ Written(w[1], w[2])
        /\ missed' = (missed \/ (up \in {"loading", "adopting"} /\ files[w[1]] # w[2]))
  BY DEF OutsideWrite
<1>2. w[1] \in File /\ w[2] \in Content
  BY FileBounds
<1>3. files' \in Tree /\ woken' \in BOOLEAN /\ missed' \in BOOLEAN
  BY <1>1, <1>2, WrittenType, InvTypes
<1>4. task' \in Task /\ task'.kind = task.kind /\ SaveSees'
  BY RacedKeeps DEF OutsideWrite, RacedTask
<1>5. spent' \in 0..MaxEvents
  BY EventType DEF OutsideWrite
<1>6. UNCHANGED <<draft, store, reads, up, edits>>
  BY DEF OutsideWrite
<1>7. ReadsInOrder'
  BY <1>6 DEF FileInv, ReadsInOrder, NothingRead
<1> QED BY <1>3, <1>4, <1>5, <1>6, <1>7, InvTypes, DiskKeeps

(* One load goes on.                                                       *)
LEMMA ReadsGoOn ==
  ASSUME FileInv, UNCHANGED <<store, up>>, NEW i \in 1..Len(reads), NEW r \in Load,
         r.seq = reads[i].seq, r.cause = reads[i].cause, reads' = [reads EXCEPT ![i] = r]
  PROVE  reads' \in Seq(Load) /\ Len(reads') <= MaxReads /\ ReadsInOrder'
<1>1. /\ reads' \in Seq(Load) /\ Len(reads') = Len(reads)
      /\ \A j \in 1..Len(reads) : reads'[j].seq = reads[j].seq /\ reads'[j].cause = reads[j].cause
  BY InvTypes
<1>2. up \notin {"down", "adopting"}
  BY InvTypes DEF FileInv, ReadsInOrder
<1> QED BY <1>1, <1>2, InvTypes DEF FileInv, ReadsInOrder, NothingRead

LEMMA ReadTypes ==
  ASSUME FileInv, NEW i \in DOMAIN reads
  PROVE  i \in 1..Len(reads) /\ reads[i] \in Load
  BY InvTypes

LEMMA ReadTablesKeeps ==
  ASSUME FileInv, NEW i \in DOMAIN reads, ReadTables(i) PROVE FileInv'
<1>1. PICK stage \in {"assign", "layout"} :
        reads' = [reads EXCEPT ![i].stage = stage, ![i].tree["tables"] = files["tables"]]
  BY DEF ReadTables
<1>2. PICK r : /\ r = [reads[i] EXCEPT !.stage = stage, !.tree = [@ EXCEPT !["tables"] = files["tables"]]]
               /\ reads' = [reads EXCEPT ![i] = r]
  <2>1. reads' = [reads EXCEPT ![i] = [reads[i] EXCEPT !.stage = stage, !.tree["tables"] = files["tables"]]]
    BY <1>1
  <2> QED BY <2>1
<1>3. files["tables"] \in Content /\ "tables" \in File
  BY InvTypes DEF Tree, File
<1>4. r \in Load /\ r.seq = reads[i].seq /\ r.cause = reads[i].cause
  <2>1. reads[i] \in Load /\ reads[i].tree \in Tree
    BY ReadTypes DEF Load
  <2>2. PICK tree \in Tree : tree = [reads[i].tree EXCEPT !["tables"] = files["tables"]]
    BY <1>3, <2>1 DEF Tree
  <2>3. r = [reads[i] EXCEPT !.stage = stage, !.tree = tree]
    BY <1>2, <2>2
  <2> QED BY <2>1, <2>2, <2>3 DEF Load
<1>5. UNCHANGED <<files, draft, store, task, woken, up, spent, edits, missed>>
  BY DEF ReadTables
<1>6. reads' \in Seq(Load) /\ Len(reads') <= MaxReads /\ ReadsInOrder'
  BY <1>2, <1>4, <1>5, ReadTypes, ReadsGoOn
<1>7. SaveSees'
  BY <1>5 DEF FileInv, SaveSees
<1> QED BY <1>5, <1>6, <1>7, InvTypes, DiskKeeps

LEMMA ReadLayoutKeeps ==
  ASSUME FileInv, NEW i \in DOMAIN reads, ReadLayout(i) PROVE FileInv'
<1>2. PICK r : /\ r = [reads[i] EXCEPT !.stage = "read", !.tree = [@ EXCEPT !["layout"] = files["layout"]]]
               /\ reads' = [reads EXCEPT ![i] = r]
  <2>1. reads' = [reads EXCEPT ![i] = [reads[i] EXCEPT !.stage = "read", !.tree["layout"] = files["layout"]]]
    BY DEF ReadLayout
  <2> QED BY <2>1
<1>3. files["layout"] \in Content /\ "layout" \in File
  BY InvTypes DEF Tree, File
<1>4. r \in Load /\ r.seq = reads[i].seq /\ r.cause = reads[i].cause
  <2>1. reads[i] \in Load /\ reads[i].tree \in Tree
    BY ReadTypes DEF Load
  <2>2. PICK tree \in Tree : tree = [reads[i].tree EXCEPT !["layout"] = files["layout"]]
    BY <1>3, <2>1 DEF Tree
  <2>3. r = [reads[i] EXCEPT !.stage = "read", !.tree = tree]
    BY <1>2, <2>2
  <2> QED BY <2>1, <2>2, <2>3 DEF Load
<1>5. UNCHANGED <<files, draft, store, task, woken, up, spent, edits, missed>>
  BY DEF ReadLayout
<1>6. reads' \in Seq(Load) /\ Len(reads') <= MaxReads /\ ReadsInOrder'
  BY <1>2, <1>4, <1>5, ReadTypes, ReadsGoOn
<1>7. SaveSees'
  BY <1>5 DEF FileInv, SaveSees
<1> QED BY <1>5, <1>6, <1>7, InvTypes, DiskKeeps

LEMMA ReadFailsKeeps ==
  ASSUME FileInv, NEW i \in DOMAIN reads, ReadFails(i) PROVE FileInv'
<1> DEFINE r == [reads[i] EXCEPT !.stage = "failed"]
<1>2. reads' = [reads EXCEPT ![i] = r]
  BY DEF ReadFails
<1>4. r \in Load /\ r.seq = reads[i].seq /\ r.cause = reads[i].cause
  BY ReadTypes DEF Load
<1>5. UNCHANGED <<files, draft, store, task, woken, up, edits, missed>>
  BY DEF ReadFails
<1>6. spent' \in 0..MaxEvents
  BY EventType DEF ReadFails, Fault
<1> HIDE DEF r
<1>7. reads' \in Seq(Load) /\ Len(reads') <= MaxReads /\ ReadsInOrder'
  BY <1>2, <1>4, <1>5, ReadTypes, ReadsGoOn
<1>8. SaveSees'
  BY <1>5 DEF FileInv, SaveSees
<1> QED BY <1>5, <1>6, <1>7, <1>8, InvTypes, DiskKeeps

LEMMA WriteIdsBackKeeps ==
  ASSUME FileInv, NEW i \in DOMAIN reads, WriteIdsBack(i) PROVE FileInv'
<1>1. PICK ided \in Assign(reads[i].tree["tables"]) :
        /\ reads' = [reads EXCEPT ![i].stage = "layout", ![i].tree["tables"] = ided]
        /\ Written("tables", ided)
  BY DEF WriteIdsBack
<1>2. PICK r : /\ r = [reads[i] EXCEPT !.stage = "layout", !.tree = [@ EXCEPT !["tables"] = ided]]
               /\ reads' = [reads EXCEPT ![i] = r]
  <2>1. reads' = [reads EXCEPT ![i] = [reads[i] EXCEPT !.stage = "layout", !.tree["tables"] = ided]]
    BY <1>1
  <2> QED BY <2>1
<1>3. ided \in Content /\ "tables" \in File
  <2>1. reads[i].tree["tables"] \in Content
    BY ReadTypes DEF Load, Tree, File
  <2> QED BY <2>1, FilesMeanModels DEF File
<1>4. r \in Load /\ r.seq = reads[i].seq /\ r.cause = reads[i].cause
  <2>1. reads[i] \in Load /\ reads[i].tree \in Tree
    BY ReadTypes DEF Load
  <2>2. PICK tree \in Tree : tree = [reads[i].tree EXCEPT !["tables"] = ided]
    BY <1>3, <2>1 DEF Tree
  <2>3. r = [reads[i] EXCEPT !.stage = "layout", !.tree = tree]
    BY <1>2, <2>2
  <2> QED BY <2>1, <2>2, <2>3 DEF Load
<1>5. UNCHANGED <<draft, store, up, spent, edits, missed>>
  BY DEF WriteIdsBack
<1>6. reads' \in Seq(Load) /\ Len(reads') <= MaxReads /\ ReadsInOrder'
  BY <1>2, <1>4, <1>5, ReadTypes, ReadsGoOn
<1>7. task' \in Task /\ task'.kind = task.kind /\ SaveSees'
  BY <1>5, RacedKeeps DEF WriteIdsBack, RacedTask
<1>8. files' \in Tree /\ woken' \in BOOLEAN
  BY <1>1, <1>3, WrittenType
<1> QED BY <1>5, <1>6, <1>7, <1>8, InvTypes, DiskKeeps

(* One load more.                                                          *)
LEMMA WatchFiresKeeps == ASSUME FileInv, WatchFires PROVE FileInv'
<1> DEFINE r == Reading("watch")
<1>1. /\ up = "up" /\ Len(reads) < MaxReads /\ woken' = FALSE /\ reads' = Append(reads, r)
      /\ UNCHANGED <<files, draft, store, task, up, spent, edits, missed>>
  BY DEF WatchFires
<1>2. r \in Load /\ r.seq = store.seq /\ r.cause = "watch"
  BY ReadingType
<1> HIDE DEF r
<1>3. /\ reads' \in Seq(Load) /\ Len(reads') = Len(reads) + 1 /\ Len(reads') <= MaxReads
      /\ reads'[Len(reads) + 1] = r
      /\ \A j \in 1..Len(reads) : reads'[j] = reads[j]
  BY <1>1, <1>2, InvTypes
<1>4. NothingRead => store.seq = 0
  BY DEF FileInv, WaitsForFiles
<1>5. \A j \in 1..Len(reads') : reads'[j].cause # "start" /\ (NothingRead => reads'[j].seq = 0)
  BY <1>1, <1>2, <1>3, <1>4, InvTypes DEF FileInv, ReadsInOrder
<1>6. ReadsInOrder'
  BY <1>1, <1>5 DEF ReadsInOrder, NothingRead
<1>7. SaveSees'
  BY <1>1 DEF FileInv, SaveSees
<1> QED BY <1>1, <1>3, <1>6, <1>7, InvTypes, DiskKeeps

(* The save goes on, or gives up.                                          *)
LEMMA SaveFileKeeps == ASSUME FileInv, SaveFile PROVE FileInv'
<1> DEFINE f == Head(task.todo)
<1>1. /\ task.kind = "save" /\ task.todo # << >> /\ Written(f, task.next[f])
      /\ task' = [task EXCEPT !.todo = Tail(@)]
      /\ UNCHANGED <<draft, store, reads, up, spent, edits, missed>>
  BY DEF SaveFile
<1>2. task.todo \in Seq(File) /\ task.next \in Tree
  BY InvTypes DEF Task
<1>3. /\ f \in File /\ task.next[f] \in Content /\ f = task.todo[1]
      /\ Len(task.todo) \in Nat \ {0}
  BY <1>1, <1>2 DEF Tree
<1>4. /\ Tail(task.todo) \in Seq(File) /\ Len(Tail(task.todo)) = Len(task.todo) - 1
      /\ \A i \in 1..Len(task.todo) - 1 : Tail(task.todo)[i] = task.todo[i + 1]
  BY <1>1, <1>2
<1>5. /\ task' \in Task /\ task'.kind = "save" /\ task'.raced = task.raced
      /\ task'.todo = Tail(task.todo)
  BY <1>1, <1>4, InvTypes DEF Task
<1>6. files' \in Tree /\ woken' \in BOOLEAN /\ \A g \in File \ {f} : files'[g] = files[g]
  BY <1>1, <1>3, WrittenType
<1> HIDE DEF f
<1>7. SaveSees'
  <2>1. /\ store.base.signature # None => store.base.tree = store.base.signature
        /\ \A i, j \in 1..Len(task.todo) : task.todo[i] = task.todo[j] => i = j
        /\ ~ task.raced => \A i \in 1..Len(task.todo) :
                              files[task.todo[i]] = store.base.tree[task.todo[i]]
    BY <1>1 DEF FileInv, SaveSees
  <2>2. ASSUME NEW i \in 1..Len(task'.todo)
        PROVE  /\ i + 1 \in 1..Len(task.todo) /\ task'.todo[i] = task.todo[i + 1]
               /\ task.todo[i + 1] \in File \ {f}
    <3>1. i + 1 \in 1..Len(task.todo) /\ task'.todo[i] = task.todo[i + 1] /\ i + 1 # 1
      BY <1>3, <1>4, <1>5
    <3>2. 1 \in 1..Len(task.todo)
      BY <1>3
    <3> QED BY <1>2, <1>3, <2>1, <3>1, <3>2
  <2>3. ASSUME NEW i \in 1..Len(task'.todo), NEW j \in 1..Len(task'.todo), task'.todo[i] = task'.todo[j]
        PROVE  i = j
    BY <2>1, <2>2, <2>3
  <2>4. ASSUME NEW i \in 1..Len(task'.todo), ~ task'.raced
        PROVE  files'[task'.todo[i]] = store'.base.tree[task'.todo[i]]
    BY <1>1, <1>5, <1>6, <2>1, <2>2, <2>4
  <2> QED BY <1>1, <2>1, <2>3, <2>4 DEF SaveSees
<1>8. ReadsInOrder'
  BY <1>1 DEF FileInv, ReadsInOrder, NothingRead
<1> QED BY <1>1, <1>5, <1>6, <1>7, <1>8, InvTypes, DiskKeeps

LEMMA SaveFailsKeeps == ASSUME FileInv, SaveFails PROVE FileInv'
<1>1. task' = NoTask /\ UNCHANGED <<files, draft, store, reads, woken, up, edits, missed>>
  BY DEF SaveFails
<1>2. spent' \in 0..MaxEvents
  BY EventType DEF SaveFails, Fault
<1>3. ReadsInOrder' /\ SaveSees'
  BY <1>1, NewTypes DEF FileInv, ReadsInOrder, NothingRead, SaveSees
<1> QED BY <1>1, <1>2, <1>3, NewTypes, InvTypes, DiskKeeps
-----------------------------------------------------------------------------
(* The process starts and ends.                                            *)
LEMMA StartKeeps == ASSUME FileInv, Start PROVE FileInv'
<1> DEFINE r == Reading("start")
<1>1. /\ up = "down" /\ up' = "loading" /\ missed' = FALSE /\ reads' = << r >>
      /\ UNCHANGED <<files, draft, store, task, woken, spent, edits>>
  BY DEF Start
<1>2. r \in Load /\ r.seq = store.seq /\ r.cause = "start"
  BY ReadingType
<1>3. store = NewStore /\ task.kind = "idle"
  BY <1>1 DEF FileInv, StartsFresh
<1> HIDE DEF r
<1>4. /\ reads' \in Seq(Load) /\ Len(reads') = 1 /\ reads'[1] = r
  BY <1>1, <1>2
<1>5. FileTypeOK'
  <2>1. Len(reads') <= MaxReads
    BY <1>4, InvTypes
  <2>2. woken' \in BOOLEAN /\ missed' \in BOOLEAN
    BY <1>1, InvTypes
  <2> QED BY <1>1, <1>4, <2>1, <2>2, InvTypes DEF FileTypeOK
<1>6. ReadsInOrder'
  BY <1>1, <1>2, <1>3, <1>4, NewTypes DEF ReadsInOrder
<1>7. StartsFresh' /\ WaitsForFiles' /\ SavedIsClean' /\ SaveSees' /\ DraftHolds'
  BY <1>1, <1>3, NewTypes DEF FileInv, StartsFresh, WaitsForFiles, NothingRead, SavedIsClean,
                              SaveSees, DraftHolds, unsaved
<1>8. EditsKept'
  BY <1>1, <1>3 DEF FileInv, EditsKept
<1> QED BY <1>5, <1>6, <1>7, <1>8 DEF FileInv

LEMMA ForgetKeeps ==
  ASSUME FileInv, Forget, draft' \in Draft \cup {None}, spent' \in 0..MaxEvents,
         edits' \in [made : Model \cup {None}, drafted : Model \cup {None}],
         DraftHolds', edits'.made # None => edits'.drafted = edits'.made
  PROVE  FileInv'
<1>1. /\ up' = "down" /\ store' = NewStore /\ task' = NoTask /\ reads' = << >>
      /\ woken' = FALSE /\ files' = files /\ missed' = missed
  BY DEF Forget
<1>2. << >> \in Seq(Load) /\ Len(<< >>) = 0
  OBVIOUS
<1>3. FileTypeOK'
  <2>1. Len(reads') <= MaxReads
    BY <1>1, <1>2, InvTypes
  <2>2. woken' \in BOOLEAN /\ missed' \in BOOLEAN
    BY <1>1, InvTypes
  <2> QED BY <1>1, <1>2, <2>1, <2>2, NewTypes, InvTypes DEF FileTypeOK
<1>4. ReadsInOrder'
  BY <1>1, <1>2 DEF ReadsInOrder
<1>5. StartsFresh' /\ WaitsForFiles' /\ SavedIsClean' /\ SaveSees'
  BY <1>1, NewTypes DEF StartsFresh, WaitsForFiles, SavedIsClean, SaveSees, unsaved
<1>6. EditsKept'
  BY <1>1, NewTypes DEF EditsKept
<1> QED BY <1>3, <1>4, <1>5, <1>6 DEF FileInv

LEMMA CrashKeeps == ASSUME FileInv, Crash PROVE FileInv'
<1>1. Forget /\ edits' = [edits EXCEPT !.made = edits.drafted] /\ draft' = draft
  BY DEF Crash
<1>2. edits' \in [made : Model \cup {None}, drafted : Model \cup {None}]
      /\ edits'.drafted = edits.drafted /\ edits'.made = edits.drafted
  BY <1>1, InvTypes
<1>3. spent' \in 0..MaxEvents
  BY EventType DEF Crash, Fault
<1>4. DraftHolds'
  BY <1>1, <1>2 DEF FileInv, DraftHolds
<1> QED BY <1>1, <1>2, <1>3, <1>4, InvTypes, ForgetKeeps

(* What a flush leaves.                                                    *)
LEMMA FlushedFacts ==
  ASSUME FileInv, NEW dirty, Flushed(dirty), up = "up", ~ NothingRead
  PROVE  /\ draft' \in Draft \cup {None}
         /\ edits' \in [made : Model \cup {None}, drafted : Model \cup {None}]
         /\ DraftHolds'
         /\ edits'.made # None => /\ dirty /\ edits'.drafted = edits'.made
                                  /\ store.model = edits'.made
<1>1. store.model \in Model /\ store.pending = None
  BY DEF NothingRead
<1>2. edits.made # None => store.model = edits.made
  BY <1>1 DEF FileInv, EditsKept
<1>3. CASE dirty
  <2>1. draft' = Drafted /\ edits' = [edits EXCEPT !.drafted = store.model]
    BY <1>3 DEF Flushed
  <2>2. Drafted \in Draft /\ Drafted.model = store.model
    BY <1>1, InvTypes DEF Drafted, Draft, Store, Base
  <2>3. /\ edits' \in [made : Model \cup {None}, drafted : Model \cup {None}]
        /\ edits'.made = edits.made /\ edits'.drafted = store.model
    BY <1>1, <2>1, InvTypes
  <2>4. Drafted # None
    BY <2>2, FileBounds
  <2> QED BY <1>2, <1>3, <2>1, <2>2, <2>3, <2>4 DEF DraftHolds
<1>4. CASE ~ dirty
  <2>1. draft' = None /\ edits' = NoEdits
    BY <1>4 DEF Flushed
  <2> QED BY <2>1 DEF NoEdits, DraftHolds
<1> QED BY <1>3, <1>4

LEMMA CloseKeeps == ASSUME FileInv, Close PROVE FileInv'
<1>1. up = "up" /\ task.kind = "idle" /\ Forget /\ spent' = spent
      /\ IF store.draftPending THEN Flushed(Dirty) ELSE UNCHANGED <<draft, edits>>
  BY DEF Close, ChainFree
<1>2. CASE store.draftPending
  <2>1. ~ NothingRead
    BY <1>2 DEF FileInv, WaitsForFiles, unsaved
  <2>2. Flushed(Dirty)
    BY <1>1, <1>2
  <2> QED BY <1>1, <2>1, <2>2, InvTypes, FlushedFacts, ForgetKeeps
<1>3. CASE ~ store.draftPending
  <2>1. UNCHANGED <<draft, edits>>
    BY <1>1, <1>3
  <2>2. edits'.made # None => edits'.drafted = edits'.made
    BY <1>1, <1>3, <2>1 DEF FileInv, EditsKept
  <2>3. DraftHolds'
    BY <2>1 DEF FileInv, DraftHolds
  <2> QED BY <1>1, <2>1, <2>2, <2>3, InvTypes, ForgetKeeps
<1> QED BY <1>2, <1>3
-----------------------------------------------------------------------------
(* The chain: flush and the end of a save.                                 *)
LEMMA SameReads ==
  ASSUME FileInv, reads' = reads, up' = up, NothingRead' => NothingRead
  PROVE  ReadsInOrder'
  BY DEF FileInv, ReadsInOrder

LEMMA WorkingFacts ==
  ASSUME FileInv, task.kind # "idle" \/ unsaved \/ store.timer \/ store.external
  PROVE  up = "up" /\ ~ NothingRead /\ store.model \in Model /\ store.pending = None
<1>1. ~ NothingRead
  BY DEF FileInv, WaitsForFiles
<1>2. up = "up"
  <2>1. up \in {"down", "loading", "adopting", "up"}
    BY DEF FileInv, FileTypeOK
  <2>2. up # "up" => task.kind = "idle"
    BY DEF FileInv, StartsFresh
  <2>3. up \in {"down", "loading"} => ~ unsaved /\ ~ store.timer /\ ~ store.external
    BY NewTypes DEF FileInv, StartsFresh, unsaved
  <2>4. up = "adopting" => ~ unsaved /\ ~ store.timer /\ ~ store.external
    BY DEF FileInv, StartsFresh
  <2> QED BY <2>1, <2>2, <2>3, <2>4
<1> QED BY <1>1, <1>2 DEF NothingRead

LEMMA flushKeeps == ASSUME FileInv, flush PROVE FileInv'
<1>1. /\ ChainFree /\ store.timer /\ store' = [store EXCEPT !.timer = FALSE]
      /\ task' = [NoTask EXCEPT !.kind = "flush", !.dirty = Dirty]
      /\ UNCHANGED <<files, draft, reads, woken, up, spent, edits, missed>>
  BY DEF flush
<1>2. up = "up" /\ ~ NothingRead /\ store.model \in Model /\ store.pending = None
  BY <1>1, WorkingFacts
<1>3. /\ store' \in Store /\ store'.model = store.model /\ store'.pending = store.pending
      /\ store'.seq = store.seq /\ store'.base = store.base
      /\ store'.dirty = store.dirty /\ store'.draftPending = store.draftPending
  BY <1>1, InvTypes DEF Store
<1>4. task' \in Task /\ task'.kind = "flush"
  BY <1>1, NewTypes DEF Task, Dirty
<1>5. ~ NothingRead'
  BY <1>2, <1>3 DEF NothingRead
<1>6. FileTypeOK'
  BY <1>1, <1>3, <1>4 DEF FileInv, FileTypeOK
<1>7. ReadsInOrder'
  BY <1>1, <1>5, SameReads
<1>8. StartsFresh' /\ WaitsForFiles'
  BY <1>1, <1>2, <1>3, <1>5 DEF StartsFresh, WaitsForFiles
<1>9. DraftHolds' /\ EditsKept' /\ SavedIsClean'
  BY <1>1, <1>2, <1>3, <1>4 DEF FileInv, DraftHolds, EditsKept, SavedIsClean, unsaved
<1>10. SaveSees'
  BY <1>3, <1>4 DEF FileInv, SaveSees
<1> QED BY <1>6, <1>7, <1>8, <1>9, <1>10 DEF FileInv

LEMMA FlushEndsKeeps == ASSUME FileInv, FlushEnds PROVE FileInv'
<1>1. /\ task.kind = "flush" /\ task' = NoTask
      /\ UNCHANGED <<files, reads, woken, up, missed>>
  BY DEF FlushEnds
<1>2. up = "up" /\ ~ NothingRead /\ store.model \in Model /\ store.pending = None
  BY <1>1, WorkingFacts
<1>3. CASE /\ Flushed(task.dirty) /\ spent' = spent
           /\ store' = [store EXCEPT !.draftPending = FALSE, !.dirty = task.dirty]
  <2>1. /\ store' \in Store /\ store'.model = store.model /\ store'.pending = None
        /\ store'.base = store.base /\ store'.draftPending = FALSE /\ store'.dirty = task.dirty
    BY <1>2, <1>3, InvTypes DEF Store, Task
  <2>2. ~ NothingRead'
    BY <1>2, <2>1 DEF NothingRead
  <2>3. /\ draft' \in Draft \cup {None}
        /\ edits' \in [made : Model \cup {None}, drafted : Model \cup {None}]
        /\ DraftHolds'
        /\ edits'.made # None => /\ task.dirty /\ edits'.drafted = edits'.made
                                 /\ store.model = edits'.made
    BY <1>2, <1>3, FlushedFacts
  <2>4. FileTypeOK'
    BY <1>1, <1>3, <2>1, <2>3, NewTypes DEF FileInv, FileTypeOK
  <2>5. ReadsInOrder'
    BY <1>1, <2>2, SameReads
  <2>6. StartsFresh' /\ WaitsForFiles' /\ SavedIsClean'
    BY <1>1, <1>2, <2>1, <2>2, NewTypes DEF StartsFresh, WaitsForFiles, SavedIsClean
  <2>7. EditsKept'
    BY <1>1, <2>1, <2>3, NewTypes DEF EditsKept, unsaved
  <2>8. SaveSees'
    BY <1>1, <2>1, NewTypes DEF FileInv, SaveSees
  <2> QED BY <2>3, <2>4, <2>5, <2>6, <2>7, <2>8 DEF FileInv
<1>4. CASE Fault /\ UNCHANGED <<draft, edits, store>>
  <2>1. spent' \in 0..MaxEvents
    BY <1>4, EventType DEF Fault
  <2>2. ReadsInOrder' /\ SaveSees'
    BY <1>1, <1>4, NewTypes DEF FileInv, ReadsInOrder, NothingRead, SaveSees
  <2> QED BY <1>1, <1>4, <2>1, <2>2, NewTypes, InvTypes, DiskKeeps
<1> QED BY <1>3, <1>4 DEF FlushEnds

LEMMA DiffersNames ==
  ASSUME FileInv, NEW tree \in Tree
  PROVE  /\ Differs(tree) \in Seq(File)
         /\ \A i, j \in 1..Len(Differs(tree)) : Differs(tree)[i] = Differs(tree)[j] => i = j
<1> DEFINE t == IF tree["tables"] # store.base.tree["tables"] THEN << "tables" >> ELSE << >>
           l == IF tree["layout"] # store.base.tree["layout"] THEN << "layout" >> ELSE << >>
<1>1. Differs(tree) = t \o l
  BY DEF Differs
<1>2. /\ t \in Seq(File) /\ Len(t) \in 0..1 /\ \A i \in 1..Len(t) : t[i] = "tables"
      /\ l \in Seq(File) /\ Len(l) \in 0..1 /\ \A i \in 1..Len(l) : l[i] = "layout"
  <2>1. ASSUME NEW f \in File
        PROVE  /\ << f >> \in Seq(File) /\ Len(<< f >>) \in 0..1 /\ \A i \in 1..Len(<< f >>) : << f >>[i] = f
    OBVIOUS
  <2>2. << >> \in Seq(File) /\ Len(<< >>) \in 0..1 /\ \A i \in 1..Len(<< >>) : << >>[i] \in {}
    OBVIOUS
  <2>3. t \in {<< "tables" >>, << >>} /\ l \in {<< "layout" >>, << >>}
    OBVIOUS
  <2>4. "tables" \in File /\ "layout" \in File
    BY DEF File
  <2> HIDE DEF t, l
  <2>5. t \in Seq(File) /\ Len(t) \in 0..1 /\ \A i \in 1..Len(t) : t[i] = "tables"
    BY <2>1, <2>2, <2>3, <2>4
  <2>6. l \in Seq(File) /\ Len(l) \in 0..1 /\ \A i \in 1..Len(l) : l[i] = "layout"
    BY <2>1, <2>2, <2>3, <2>4
  <2> QED BY <2>5, <2>6
<1> HIDE DEF t, l
<1>3. t \o l \in Seq(File) /\ Len(t \o l) = Len(t) + Len(l)
  BY <1>2
<1>4. \A i \in 1..Len(t \o l) : \/ i = 1 /\ i <= Len(t) /\ (t \o l)[i] = "tables"
                                \/ i = Len(t) + 1 /\ (t \o l)[i] = "layout"
  <2> SUFFICES ASSUME NEW i \in 1..Len(t \o l)
               PROVE  \/ i = 1 /\ i <= Len(t) /\ (t \o l)[i] = "tables"
                      \/ i = Len(t) + 1 /\ (t \o l)[i] = "layout"
    OBVIOUS
  <2>1. CASE i <= Len(t)
    BY <1>2, <1>3, <2>1
  <2>2. CASE i > Len(t)
    <3>1. i - Len(t) \in 1..Len(l) /\ (t \o l)[i] = l[i - Len(t)] /\ i = Len(t) + 1
      BY <1>2, <1>3, <2>2
    <3> QED BY <1>2, <3>1
  <2> QED BY <1>2, <1>3, <2>1, <2>2
<1>5. ASSUME NEW i \in 1..Len(t \o l), NEW j \in 1..Len(t \o l), (t \o l)[i] = (t \o l)[j]
      PROVE  i = j
  BY <1>2, <1>4, <1>5
<1> QED BY <1>1, <1>3, <1>5

LEMMA saveKeeps == ASSUME FileInv, save PROVE FileInv'
<1>1. /\ up = "up" /\ task.kind = "idle"
      /\ UNCHANGED <<files, draft, reads, woken, up, spent, edits, missed>>
  BY DEF save, ChainFree
<1>2. PICK external \in BOOLEAN :
        /\ store' = [store EXCEPT !.timer = FALSE, !.external = external]
        /\ external => store.external \/ unsaved
  <2> DEFINE attempt == store.ok /\ ~ store.external /\ unsaved /\ Broken \notin Range(files)
  <2>1. store' = [store EXCEPT !.timer = FALSE, !.external = store.external \/ (attempt /\ Unseen)]
    BY DEF save
  <2>2. (store.external \/ (attempt /\ Unseen)) \in BOOLEAN
    BY InvTypes DEF Store
  <2> QED BY <2>1, <2>2
<1>3. /\ store' \in Store /\ store'.model = store.model /\ store'.pending = store.pending
      /\ store'.seq = store.seq /\ store'.base = store.base /\ store'.ok = store.ok
      /\ store'.dirty = store.dirty /\ store'.draftPending = store.draftPending
      /\ store'.timer = FALSE /\ store'.external = external
  BY <1>2, InvTypes DEF Store
<1>4. \/ task' = task
      \/ /\ unsaved /\ files = store.base.signature
         /\ task' = [NoTask EXCEPT !.kind = "save", !.next = Render(store.model),
                                   !.todo = Differs(Render(store.model))]
  BY DEF save, Unseen
<1>5. CASE task' = task
  <2>1. FileTypeOK'
    BY <1>1, <1>3, <1>5 DEF FileInv, FileTypeOK
  <2>2. ReadsInOrder'
    BY <1>1, <1>3, SameReads DEF NothingRead
  <2>3. StartsFresh' /\ WaitsForFiles'
    BY <1>1, <1>2, <1>3, <1>5 DEF FileInv, StartsFresh, WaitsForFiles, NothingRead, unsaved
  <2>4. DraftHolds' /\ EditsKept' /\ SavedIsClean'
    BY <1>1, <1>3, <1>5 DEF FileInv, DraftHolds, EditsKept, SavedIsClean, unsaved
  <2>5. SaveSees'
    BY <1>1, <1>3, <1>5 DEF FileInv, SaveSees
  <2> QED BY <2>1, <2>2, <2>3, <2>4, <2>5 DEF FileInv
<1>6. CASE /\ unsaved /\ files = store.base.signature
           /\ task' = [NoTask EXCEPT !.kind = "save", !.next = Render(store.model),
                                     !.todo = Differs(Render(store.model))]
  <2>1. ~ NothingRead /\ store.model \in Model /\ store.pending = None
    BY <1>6, WorkingFacts
  <2>2. Render(store.model) \in Tree
    BY <2>1, FilesMeanModels
  <2>3. PICK todo \in Seq(File) :
          /\ todo = Differs(Render(store.model))
          /\ \A i, j \in 1..Len(todo) : todo[i] = todo[j] => i = j
    BY <2>2, DiffersNames
  <2>4. task' \in Task /\ task'.kind = "save" /\ task'.todo = todo
    BY <1>6, <2>2, <2>3, NewTypes DEF Task
  <2>5. ~ NothingRead'
    BY <1>3, <2>1 DEF NothingRead
  <2>6. FileTypeOK'
    BY <1>1, <1>3, <2>4 DEF FileInv, FileTypeOK
  <2>7. ReadsInOrder'
    BY <1>1, <2>5, SameReads
  <2>8. StartsFresh' /\ WaitsForFiles'
    BY <1>1, <1>3, <2>1, <2>5 DEF StartsFresh, WaitsForFiles
  <2>9. DraftHolds' /\ EditsKept' /\ SavedIsClean'
    BY <1>1, <1>3, <2>4 DEF FileInv, DraftHolds, EditsKept, SavedIsClean, unsaved
  <2>10. SaveSees'
    <3>1. store.base.signature # None
      BY <1>6, InvTypes, FileBounds
    <3>2. files = store.base.tree
      BY <1>6, <3>1 DEF FileInv, SaveSees
    <3> QED BY <1>1, <1>3, <2>3, <2>4, <3>2 DEF FileInv, SaveSees
  <2> QED BY <2>6, <2>7, <2>8, <2>9, <2>10 DEF FileInv
<1> QED BY <1>4, <1>5, <1>6

LEMMA SaveCommitsKeeps == ASSUME FileInv, SaveCommits PROVE FileInv'
<1> DEFINE base == [tree |-> task.next, signature |-> task.next, modelSignature |-> Render(store.model)]
<1>1. /\ task.kind = "save" /\ task' = [NoTask EXCEPT !.kind = "saved"] /\ edits' = NoEdits
      /\ UNCHANGED <<files, draft, reads, woken, up, spent, missed>>
  BY DEF SaveCommits
<1>2. up = "up" /\ ~ NothingRead /\ store.model \in Model /\ store.pending = None
  BY <1>1, WorkingFacts
<1>3. store' = [store EXCEPT !.base = base, !.draftPending = FALSE, !.dirty = FALSE]
  BY DEF SaveCommits, Adopted
<1>4. base \in Base /\ base.tree = base.signature
  <2>1. task.next \in Tree /\ Render(store.model) \in Tree
    BY <1>2, FilesMeanModels, InvTypes DEF Task
  <2> QED BY <2>1 DEF Base, Tree
<1> HIDE DEF base
<1>5. /\ store' \in Store /\ store'.model = store.model /\ store'.pending = store.pending
      /\ store'.base = base
  BY <1>3, <1>4, InvTypes DEF Store
<1>6. task' \in Task /\ task'.kind = "saved"
  BY <1>1, NewTypes DEF Task
<1>7. ~ NothingRead'
  BY <1>2, <1>5 DEF NothingRead
<1>8. FileTypeOK'
  BY <1>1, <1>5, <1>6 DEF FileInv, FileTypeOK, NoEdits
<1>9. ReadsInOrder'
  BY <1>1, <1>7, SameReads
<1>10. StartsFresh' /\ WaitsForFiles'
  BY <1>1, <1>2, <1>5, <1>7 DEF StartsFresh, WaitsForFiles
<1>11. DraftHolds' /\ EditsKept' /\ SavedIsClean' /\ SaveSees'
  BY <1>1, <1>4, <1>5, <1>6 DEF DraftHolds, EditsKept, SavedIsClean, SaveSees, NoEdits
<1> QED BY <1>8, <1>9, <1>10, <1>11 DEF FileInv

LEMMA RemoveDraftKeeps == ASSUME FileInv, RemoveDraft PROVE FileInv'
<1>1. /\ task.kind = "saved" /\ draft' = None /\ task' = NoTask
      /\ UNCHANGED <<files, store, reads, woken, up, spent, edits, missed>>
  BY DEF RemoveDraft
<1>2. up = "up" /\ ~ NothingRead /\ store.pending = None
  BY <1>1, WorkingFacts
<1>3. edits.made = None /\ edits.drafted = None
  BY <1>1 DEF FileInv, EditsKept, SavedIsClean
<1>4. FileTypeOK'
  BY <1>1, NewTypes DEF FileInv, FileTypeOK
<1>5. ReadsInOrder'
  BY <1>1, SameReads DEF NothingRead
<1>6. StartsFresh' /\ WaitsForFiles'
  BY <1>1, <1>2 DEF StartsFresh, WaitsForFiles, NothingRead
<1>7. DraftHolds' /\ EditsKept' /\ SavedIsClean' /\ SaveSees'
  BY <1>1, <1>3, NewTypes DEF FileInv, DraftHolds, EditsKept, SavedIsClean, SaveSees
<1> QED BY <1>4, <1>5, <1>6, <1>7 DEF FileInv
-----------------------------------------------------------------------------
(* The chain: a load is committed.                                         *)
LEMMA HeadFacts ==
  ASSUME FileInv, reads # << >>
  PROVE  /\ Head(reads) \in Load /\ Head(reads) = reads[1] /\ up \in {"loading", "up"}
         /\ Head(reads).cause = "start" <=> up = "loading"
         /\ Tail(reads) \in Seq(Load) /\ Len(Tail(reads)) = Len(reads) - 1 /\ Len(reads) >= 1
         /\ \A i \in 1..Len(reads) - 1 : Tail(reads)[i] = reads[i + 1]
         /\ up = "loading" \/ NothingRead => Head(reads).seq = store.seq
<1>1. reads \in Seq(Load) /\ Len(reads) \in Nat \ {0}
  BY InvTypes
<1>2. Head(reads) \in Load /\ Head(reads) = reads[1]
  BY <1>1
<1>3. /\ Tail(reads) \in Seq(Load) /\ Len(Tail(reads)) = Len(reads) - 1 /\ Len(reads) >= 1
      /\ \A i \in 1..Len(reads) - 1 : Tail(reads)[i] = reads[i + 1]
  BY <1>1
<1>4. up \in {"loading", "up"}
  BY DEF FileInv, FileTypeOK, ReadsInOrder
<1>5. 1 \in 1..Len(reads)
  BY <1>1
<1>6. reads[1].cause = "start" <=> up = "loading"
  BY <1>4, <1>5 DEF FileInv, ReadsInOrder
<1>7. up = "loading" => reads[1].seq = 0 /\ store.seq = 0
  BY NewTypes DEF FileInv, ReadsInOrder, StartsFresh
<1>8. NothingRead => reads[1].seq = 0 /\ store.seq = 0
  BY <1>5 DEF FileInv, ReadsInOrder, WaitsForFiles
<1> QED BY <1>2, <1>3, <1>4, <1>6, <1>7, <1>8

LEMMA ApplyFacts ==
  ASSUME NEW free \in Store, NEW d \in Draft, free.model \in Model,
         free.base.modelSignature = Render(free.model), free.ok, free.pending = None
  PROVE  \E st \in Store :
            /\ st = applyDraft(free, d)
            /\ st.pending = None /\ st.model = d.model /\ st.model \in Model
            /\ st.ok /\ st.base = free.base /\ (st.dirty \/ st.draftPending)
<1> DEFINE m == free.model
<1>0. PICK st : st = applyDraft(free, d)
  OBVIOUS
<1>1. d.model \in Model /\ d.seq \in Nat /\ free.seq \in Nat
  BY DEF Draft, Store
<1>2. CASE Render(d.model) = Render(m)
  <2>1. d.model = m
    BY <1>1, <1>2, FilesMeanModels
  <2>2. st = [free EXCEPT !.draftPending = TRUE, !.timer = TRUE]
    BY <1>0, <1>2 DEF applyDraft, scheduleFlush
  <2>3. /\ st \in Store /\ st.pending = None /\ st.model = m /\ st.ok = TRUE
        /\ st.base = free.base /\ st.draftPending = TRUE
    BY <2>2 DEF Store
  <2> QED BY <1>0, <2>1, <2>3
<1>3. CASE Render(d.model) # Render(m)
  <2>1. PICK seq \in Nat, external \in BOOLEAN :
           st = [free EXCEPT !.dirty = TRUE, !.ok = TRUE, !.model = d.model, !.seq = seq,
                             !.external = external]
    <3>1. (free.external \/ d.baseSignature # free.base.signature) \in BOOLEAN
      BY DEF Store
    <3>2. (IF d.seq > free.seq THEN d.seq ELSE free.seq) \in Nat
      BY <1>1
    <3>3. st = [free EXCEPT !.dirty = TRUE, !.ok = TRUE, !.model = d.model,
                            !.seq = IF d.seq > free.seq THEN d.seq ELSE free.seq,
                            !.external = free.external \/ d.baseSignature # free.base.signature]
      BY <1>0, <1>3 DEF applyDraft
    <3> QED BY <3>1, <3>2, <3>3
  <2>2. /\ st \in Store /\ st.pending = None /\ st.model = d.model /\ st.ok = TRUE
        /\ st.base = free.base /\ st.dirty = TRUE
    BY <1>1, <2>1 DEF Store
  <2> QED BY <1>0, <1>1, <2>2
<1> QED BY <1>0, <1>2, <1>3

LEMMA ConfirmedFacts ==
  ASSUME FileInv, NEW tree \in Tree, NEW m \in Model, Parse(tree) = m,
         NEW st, st = Confirmed(store, tree, store.seq)
  PROVE  /\ st \in Store /\ st.pending = None /\ st.model \in Model /\ st.ok = TRUE
         /\ st.base.signature # None => st.base.tree = st.base.signature
         /\ store.pending = None /\ unsaved =>
               /\ st.model = store.model
               /\ st.dirty = store.dirty /\ st.draftPending = store.draftPending
         /\ store.pending # None => st.model = store.pending.model /\ (st.dirty \/ st.draftPending)
         /\ store.pending = None /\ ~ unsaved =>
               /\ ~ st.dirty /\ ~ st.draftPending /\ ~ st.external
               /\ st.timer = store.timer /\ st.seq = store.seq
               /\ store.base.signature = None => st.base.modelSignature = Render(st.model)
<1>1. store \in Store /\ store.base \in Base /\ store.seq \in Nat
  BY InvTypes DEF Store
<1>2. tree # None /\ Render(m) \in Tree
  BY FileBounds, FilesMeanModels
<1>3. store.base.signature # None => store.base.tree = store.base.signature
  BY DEF FileInv, SaveSees
<1>4. CASE store.pending = None /\ unsaved
  <2>1. store.model \in Model
    BY <1>4, WorkingFacts
  <2>2. PICK external \in BOOLEAN : st = tryAdoptPending([store EXCEPT !.ok = TRUE, !.external = external])
    BY <1>4 DEF Confirmed
  <2>3. PICK kept \in Store : kept = [store EXCEPT !.ok = TRUE, !.external = external]
    BY <1>1 DEF Store
  <2>4. /\ kept.model = store.model /\ kept.base = store.base /\ kept.ok = TRUE
        /\ kept.dirty = store.dirty /\ kept.draftPending = store.draftPending
        /\ kept.pending = None
    BY <1>1, <1>4, <2>3 DEF Store
  <2>5. st = kept
    BY <2>2, <2>3, <2>4 DEF tryAdoptPending
  <2> QED BY <1>3, <1>4, <2>1, <2>4, <2>5
<1>5. ASSUME ~ unsaved
      PROVE  \E base \in Base, read \in Store :
                /\ st = tryAdoptPending(read)
                /\ read.base = base /\ read.ok = TRUE /\ read.external = FALSE
                /\ read.model = m /\ read.seq = store.seq /\ read.pending = store.pending
                /\ read.dirty = FALSE /\ read.draftPending = FALSE /\ read.timer = store.timer
                /\ base.signature # None => base.tree = base.signature
                /\ store.base.signature = None => base.modelSignature = Render(m)
  <2>1. store.dirty = FALSE /\ store.draftPending = FALSE
    BY <1>1, <1>5 DEF unsaved, Store
  <2>2. CASE tree # store.base.signature
    <3>1. PICK base \in Base : base = [tree |-> tree, signature |-> tree, modelSignature |-> Render(m)]
      BY <1>2 DEF Base, Tree
    <3>2. st = tryAdoptPending([store EXCEPT !.ok = TRUE, !.external = FALSE, !.base = base,
                                             !.model = m, !.seq = store.seq])
      BY <1>5, <2>2, <3>1 DEF Confirmed, Adopted
    <3>3. PICK read \in Store : read = [store EXCEPT !.ok = TRUE, !.external = FALSE, !.base = base,
                                                     !.model = m, !.seq = store.seq]
      BY <1>1 DEF Store
    <3>4. /\ read.base = base /\ read.ok = TRUE /\ read.external = FALSE
          /\ read.model = m /\ read.seq = store.seq /\ read.pending = store.pending
          /\ read.dirty = FALSE /\ read.draftPending = FALSE /\ read.timer = store.timer
      BY <1>1, <2>1, <3>3 DEF Store
    <3> QED BY <3>1, <3>2, <3>3, <3>4
  <2>3. CASE tree = store.base.signature
    <3>1. st = tryAdoptPending([store EXCEPT !.ok = TRUE, !.external = FALSE,
                                             !.model = m, !.seq = store.seq])
      BY <1>5, <2>3 DEF Confirmed
    <3>2. PICK read \in Store : read = [store EXCEPT !.ok = TRUE, !.external = FALSE,
                                                     !.model = m, !.seq = store.seq]
      BY <1>1 DEF Store
    <3>3. /\ read.base = store.base /\ read.ok = TRUE /\ read.external = FALSE
          /\ read.model = m /\ read.seq = store.seq /\ read.pending = store.pending
          /\ read.dirty = FALSE /\ read.draftPending = FALSE /\ read.timer = store.timer
      BY <1>1, <2>1, <3>2 DEF Store
    <3> QED BY <1>1, <1>2, <1>3, <2>3, <3>1, <3>2, <3>3
  <2> QED BY <2>2, <2>3
<1>6. CASE store.pending = None /\ ~ unsaved
  <2>1. PICK base \in Base, read \in Store :
           /\ st = tryAdoptPending(read)
           /\ read.base = base /\ read.ok = TRUE /\ read.external = FALSE
           /\ read.model = m /\ read.seq = store.seq /\ read.pending = store.pending
           /\ read.dirty = FALSE /\ read.draftPending = FALSE /\ read.timer = store.timer
           /\ base.signature # None => base.tree = base.signature
           /\ store.base.signature = None => base.modelSignature = Render(m)
    BY <1>5, <1>6
  <2>2. st = read
    BY <1>6, <2>1 DEF tryAdoptPending
  <2> QED BY <1>6, <2>1, <2>2
<1>7. CASE store.pending # None
  <2>1. ~ unsaved
    BY <1>7 DEF FileInv, WaitsForFiles, NothingRead
  <2>2. PICK base \in Base, read \in Store :
           /\ st = tryAdoptPending(read)
           /\ read.base = base /\ read.ok = TRUE /\ read.external = FALSE
           /\ read.model = m /\ read.seq = store.seq /\ read.pending = store.pending
           /\ read.dirty = FALSE /\ read.draftPending = FALSE /\ read.timer = store.timer
           /\ base.signature # None => base.tree = base.signature
           /\ store.base.signature = None => base.modelSignature = Render(m)
    BY <1>5, <2>1
  <2>3. PICK d \in Draft : d = store.pending
    BY <1>1, <1>7 DEF Store
  <2>4. PICK free \in Store : free = [read EXCEPT !.pending = None]
    BY DEF Store
  <2>5. /\ free.pending = None /\ free.base = base /\ free.model = m
         /\ free.ok = TRUE /\ free.seq = store.seq
    BY <2>2, <2>4 DEF Store
  <2>6. st = applyDraft(free, d)
    BY <1>7, <2>2, <2>3, <2>4 DEF tryAdoptPending
  <2>7. store.base.signature = None
    BY <1>7 DEF FileInv, WaitsForFiles
  <2>8. /\ st \in Store /\ st.pending = None /\ st.model = d.model /\ st.model \in Model
        /\ st.ok = TRUE /\ st.base = base /\ (st.dirty \/ st.draftPending)
    <3>1. free.model \in Model /\ free.base.modelSignature = Render(free.model) /\ free.ok
      BY <2>2, <2>5, <2>7
    <3>2. PICK applied \in Store :
            /\ applied = applyDraft(free, d)
            /\ applied.pending = None /\ applied.model = d.model /\ applied.model \in Model
            /\ applied.ok /\ applied.base = free.base /\ (applied.dirty \/ applied.draftPending)
      BY <2>5, <3>1, ApplyFacts
    <3>3. applied.ok = TRUE
      BY <3>2 DEF Store
    <3> QED BY <2>5, <2>6, <3>2, <3>3
  <2> QED BY <1>7, <2>2, <2>3, <2>8
<1> QED BY <1>4, <1>6, <1>7

LEMMA CommitLoadKeeps == ASSUME FileInv, CommitLoad PROVE FileInv'
<1> DEFINE r == Head(reads)
<1>1. /\ reads # << >> /\ task.kind = "idle" /\ r.stage \in {"read", "failed"}
      /\ UNCHANGED <<files, draft, task, woken, spent, edits, missed>>
  BY DEF CommitLoad, ChainFree
<1>2. /\ r \in Load /\ up \in {"loading", "up"}
      /\ r.cause = "start" <=> up = "loading"
      /\ Tail(reads) \in Seq(Load) /\ Len(Tail(reads)) = Len(reads) - 1 /\ Len(reads) >= 1
      /\ \A i \in 1..Len(reads) - 1 : Tail(reads)[i] = reads[i + 1]
      /\ up = "loading" \/ NothingRead => r.seq = store.seq
  BY <1>1, HeadFacts
<1>3. CASE Stale(r) /\ ~ LastAttempt(r)
  <2>1. up = "up" /\ ~ NothingRead
    BY <1>2, <1>3 DEF Stale
  <2>2. PICK again \in Load : again = [Reading(r.cause) EXCEPT !.attempt = r.attempt + 1]
                              /\ again.cause = r.cause
    <3>1. r.cause \in {"start", "watch", "discard"} /\ r.attempt + 1 \in 1..MAX_LOAD_ATTEMPTS
      BY <1>2, <1>3, FileBounds DEF Load, LastAttempt
    <3>2. Reading(r.cause) \in Load /\ Reading(r.cause).cause = r.cause
      BY <3>1, ReadingType
    <3>3. [Reading(r.cause) EXCEPT !.attempt = r.attempt + 1] \in Load
      BY <3>1, <3>2 DEF Load
    <3>4. [Reading(r.cause) EXCEPT !.attempt = r.attempt + 1].cause = r.cause
      BY <3>2 DEF Load
    <3> QED BY <3>3, <3>4
  <2>3. reads' = Append(Tail(reads), again) /\ UNCHANGED <<store, up>>
    BY <1>3, <2>2 DEF CommitLoad
  <2> HIDE DEF r
  <2>4. /\ reads' \in Seq(Load) /\ Len(reads') = Len(reads)
        /\ \A i \in 1..Len(reads) - 1 : reads'[i] = reads[i + 1]
        /\ reads'[Len(reads)] = again
    BY <1>2, <2>2, <2>3, InvTypes
  <2>5. \A i \in 1..Len(reads) : reads[i].cause # "start"
    BY <2>1 DEF FileInv, ReadsInOrder
  <2>6. \A i \in 1..Len(reads') : reads'[i].cause # "start"
    <3> SUFFICES ASSUME NEW i \in 1..Len(reads') PROVE reads'[i].cause # "start"
      OBVIOUS
    <3>1. CASE i \in 1..Len(reads) - 1
      <4>1. i + 1 \in 1..Len(reads)
        BY <3>1, <1>2, InvTypes
      <4> QED BY <2>4, <2>5, <3>1, <4>1
    <3>2. CASE i = Len(reads)
      BY <1>2, <2>1, <2>2, <2>4, <3>2
    <3> QED BY <2>4, <3>1, <3>2, InvTypes
  <2>7. ReadsInOrder'
    BY <2>1, <2>3, <2>6 DEF ReadsInOrder, NothingRead
  <2>8. SaveSees'
    BY <1>1, <2>3 DEF FileInv, SaveSees
  <2> QED BY <1>1, <2>3, <2>4, <2>7, <2>8, InvTypes, DiskKeeps
<1>4. CASE ~ (Stale(r) /\ ~ LastAttempt(r))
  <2>1. /\ reads' = Tail(reads)
        /\ up' = IF r.cause = "start" THEN "adopting" ELSE up
        /\ store' = CASE Failed(r) -> [store EXCEPT !.ok = FALSE]
                      [] Stale(r)  -> GiveUp(store)
                      [] OTHER     -> Confirmed(store, r.tree, r.seq)
    BY <1>4 DEF CommitLoad
  <2>2. up' = IF up = "loading" THEN "adopting" ELSE "up"
    BY <1>2, <2>1
  <2>3. /\ Parse(r.tree) \in Model \cup {Failure} /\ r.tree \in Tree
        /\ ~ Failed(r) => Parse(r.tree) \in Model
    BY <1>2, FilesMeanModels DEF Load, Failed
  <2> HIDE DEF r
  <2>4. \/ Failed(r) /\ store' = [store EXCEPT !.ok = FALSE]
        \/ Stale(r) /\ store' = [store EXCEPT !.external = TRUE]
        \/ ~ Failed(r) /\ r.seq = store.seq /\ store' = Confirmed(store, r.tree, store.seq)
    BY <2>1 DEF Stale, GiveUp
  <2>5. ASSUME NothingRead' => NothingRead PROVE ReadsInOrder' /\ reads' \in Seq(Load) /\ Len(reads') <= MaxReads
    <3>1. \A i \in 1..Len(reads) - 1 : i + 1 \in 1..Len(reads)
      BY <1>2, InvTypes
    <3>2. up = "loading" => Len(reads) = 1
      BY DEF FileInv, ReadsInOrder
    <3>3. up = "loading" => Tail(reads) = << >>
      <4>1. \A t \in Seq(Load) : Len(t) = 0 => t = << >>
        BY EmptySeq
      <4>2. PICK t \in Seq(Load) : t = Tail(reads) /\ Len(t) = Len(reads) - 1
        BY <1>2, Zenon
      <4>3. up = "loading" => Len(t) = 0
        BY <3>2, <4>2
      <4> QED BY <4>1, <4>2, <4>3
    <3>4. reads' \in Seq(Load) /\ Len(reads') <= MaxReads
      BY <1>2, <2>1, InvTypes
    <3>5. /\ up = "up" => \A i \in 1..Len(reads) - 1 : Tail(reads)[i].cause # "start"
          /\ NothingRead => \A i \in 1..Len(reads) - 1 : Tail(reads)[i].seq = 0
      BY <1>2, <3>1 DEF FileInv, ReadsInOrder
    <3> QED BY <1>2, <2>1, <2>2, <2>5, <3>3, <3>4, <3>5 DEF ReadsInOrder
  <2>6. CASE Failed(r) /\ store' = [store EXCEPT !.ok = FALSE]
    <3>1. /\ store' \in Store /\ store'.ok = FALSE /\ store'.model = store.model
          /\ store'.seq = store.seq /\ store'.base = store.base /\ store'.external = store.external
          /\ store'.pending = store.pending /\ store'.draftPending = store.draftPending
          /\ store'.dirty = store.dirty /\ store'.timer = store.timer
      BY <2>6, InvTypes DEF Store
    <3>2. NothingRead' <=> NothingRead
      BY <3>1 DEF NothingRead
    <3>3. ReadsInOrder' /\ reads' \in Seq(Load) /\ Len(reads') <= MaxReads
      BY <2>5, <3>2
    <3>4. FileTypeOK'
      BY <1>1, <2>2, <3>1, <3>3 DEF FileInv, FileTypeOK
    <3>5. StartsFresh'
      BY <1>1, <1>2, <2>2, <3>1, NewTypes DEF FileInv, StartsFresh, unsaved
    <3>6. WaitsForFiles'
      BY <1>1, <1>2, <2>2, <3>1, <3>2, NewTypes DEF FileInv, StartsFresh, WaitsForFiles, unsaved
    <3>7. DraftHolds' /\ EditsKept' /\ SavedIsClean' /\ SaveSees'
      BY <1>1, <1>2, <2>2, <3>1 DEF FileInv, DraftHolds, EditsKept, SavedIsClean, SaveSees, unsaved
    <3> QED BY <3>3, <3>4, <3>5, <3>6, <3>7 DEF FileInv
  <2>7. CASE Stale(r) /\ store' = [store EXCEPT !.external = TRUE]
    <3>1. up = "up" /\ ~ NothingRead
      BY <1>2, <2>7 DEF Stale
    <3>2. /\ store' \in Store /\ store'.model = store.model /\ store'.base = store.base
          /\ store'.pending = store.pending /\ store'.draftPending = store.draftPending
          /\ store'.dirty = store.dirty
      BY <2>7, InvTypes DEF Store
    <3>3. ~ NothingRead' /\ store'.pending = None
      BY <3>1, <3>2 DEF NothingRead
    <3>4. ReadsInOrder' /\ reads' \in Seq(Load) /\ Len(reads') <= MaxReads
      BY <2>5, <3>3
    <3>5. FileTypeOK'
      BY <1>1, <2>2, <3>2, <3>4 DEF FileInv, FileTypeOK
    <3>6. StartsFresh' /\ WaitsForFiles'
      BY <1>1, <2>2, <3>1, <3>3 DEF StartsFresh, WaitsForFiles
    <3>7. DraftHolds' /\ EditsKept' /\ SavedIsClean' /\ SaveSees'
      BY <1>1, <2>2, <3>1, <3>2 DEF FileInv, DraftHolds, EditsKept, SavedIsClean, SaveSees, unsaved
    <3> QED BY <3>4, <3>5, <3>6, <3>7 DEF FileInv
  <2>8. CASE ~ Failed(r) /\ r.seq = store.seq /\ store' = Confirmed(store, r.tree, store.seq)
    <3>1. PICK m \in Model : Parse(r.tree) = m
      BY <2>3, <2>8
    <3>2. PICK st : st = Confirmed(store, r.tree, store.seq)
      OBVIOUS
    <3>3. /\ st \in Store /\ st.pending = None /\ st.model \in Model /\ st.ok = TRUE
          /\ st.base.signature # None => st.base.tree = st.base.signature
          /\ store.pending = None /\ unsaved =>
                /\ st.model = store.model
                /\ st.dirty = store.dirty /\ st.draftPending = store.draftPending
          /\ store.pending # None => st.model = store.pending.model /\ (st.dirty \/ st.draftPending)
          /\ store.pending = None /\ ~ unsaved =>
                /\ ~ st.dirty /\ ~ st.draftPending /\ ~ st.external
                /\ st.timer = store.timer /\ st.seq = store.seq
                /\ store.base.signature = None => st.base.modelSignature = Render(st.model)
      BY <2>3, <3>1, <3>2, ConfirmedFacts
    <3>4. store' = st
      BY <2>8, <3>2
    <3>5. ~ NothingRead'
      BY <3>3, <3>4 DEF NothingRead
    <3>6. ReadsInOrder' /\ reads' \in Seq(Load) /\ Len(reads') <= MaxReads
      BY <2>5, <3>5
    <3>7. FileTypeOK'
      BY <1>1, <2>2, <3>3, <3>4, <3>6 DEF FileInv, FileTypeOK
    <3>8. WaitsForFiles' /\ SavedIsClean' /\ SaveSees' /\ DraftHolds'
      BY <1>1, <3>3, <3>4, <3>5 DEF FileInv, WaitsForFiles, SavedIsClean, SaveSees, DraftHolds
    <3>9. StartsFresh'
      <4>1. CASE up = "loading"
        <5>1. store = NewStore
          BY <4>1 DEF FileInv, StartsFresh
        <5>2. /\ ~ unsaved /\ store.pending = None /\ store.base.signature = None
              /\ store.seq = 0 /\ ~ store.timer
          BY <5>1, NewTypes DEF unsaved
        <5> QED BY <1>1, <2>2, <3>3, <3>4, <4>1, <5>2 DEF StartsFresh, unsaved
      <4>2. CASE up = "up"
        BY <2>2, <4>2 DEF StartsFresh
      <4> QED BY <1>2, <4>1, <4>2
    <3>10. EditsKept'
      <4> SUFFICES ASSUME edits'.made # None PROVE EditsKept'
        BY DEF EditsKept
      <4>1. edits.made # None
        BY <1>1
      <4>2. CASE up = "loading"
        BY <1>1, <2>2, <4>1, <4>2 DEF FileInv, EditsKept
      <4>3. CASE up = "up" /\ store.pending = None
        <5>1. unsaved /\ store.model = edits.made
          BY <4>1, <4>3 DEF FileInv, EditsKept
        <5> QED BY <1>1, <2>2, <3>3, <3>4, <4>1, <4>3, <5>1 DEF FileInv, EditsKept, unsaved
      <4>4. CASE up = "up" /\ store.pending # None
        <5>1. edits.drafted = edits.made /\ store.pending = draft
          BY <4>1, <4>4 DEF FileInv, EditsKept, WaitsForFiles
        <5>2. store.pending.model = edits.made
          BY <4>1, <5>1 DEF FileInv, DraftHolds
        <5> QED BY <1>1, <2>2, <3>3, <3>4, <4>4, <5>1, <5>2 DEF EditsKept, unsaved
      <4> QED BY <1>2, <4>2, <4>3, <4>4
    <3> QED BY <3>6, <3>7, <3>8, <3>9, <3>10 DEF FileInv
  <2> QED BY <2>4, <2>6, <2>7, <2>8
<1> QED BY <1>3, <1>4

(* The draft is taken over as the process comes up.                        *)
LEMMA adoptDraftKeeps == ASSUME FileInv, adoptDraft PROVE FileInv'
<1>1. /\ up = "adopting" /\ up' = "up" /\ task.kind = "idle"
      /\ UNCHANGED <<files, draft, task, reads, woken, spent, edits, missed>>
      /\ store' = IF draft = None THEN store
                  ELSE IF store.ok THEN applyDraft(store, draft)
                  ELSE [store EXCEPT !.pending = draft]
  BY DEF adoptDraft, ChainFree
<1>2. /\ store.seq = 0 /\ store.pending = None /\ ~ store.external /\ ~ unsaved /\ ~ store.timer
      /\ store.ok => store.model \in Model /\ store.base.modelSignature = Render(store.model)
      /\ ~ store.ok => store.base.signature = None
  BY <1>1 DEF FileInv, StartsFresh
<1>3. reads = << >> /\ Len(reads) = 0
  BY <1>1 DEF FileInv, ReadsInOrder
<1>4. edits.made # None => /\ draft # None /\ draft.model = edits.made
                           /\ edits.drafted = edits.made
  BY <1>1 DEF FileInv, EditsKept, DraftHolds
<1>5. ReadsInOrder' /\ StartsFresh'
  BY <1>1, <1>3 DEF ReadsInOrder, StartsFresh
<1>6. DraftHolds' /\ SavedIsClean'
  BY <1>1 DEF FileInv, DraftHolds, SavedIsClean
<1>7. CASE draft = None
  <2>1. FileTypeOK' /\ WaitsForFiles' /\ EditsKept' /\ SaveSees'
    BY <1>1, <1>2, <1>4, <1>7 DEF FileInv, FileTypeOK, WaitsForFiles, NothingRead, unsaved,
                                  EditsKept, SaveSees
  <2> QED BY <1>5, <1>6, <2>1 DEF FileInv
<1>8. CASE draft # None /\ store.ok
  <2>2. PICK d \in Draft : d = draft
    BY <1>8, InvTypes
  <2>5. PICK st \in Store :
           /\ st = applyDraft(store, d)
           /\ st.pending = None /\ st.model = d.model /\ st.model \in Model
           /\ st.ok /\ st.base = store.base /\ (st.dirty \/ st.draftPending)
    BY <1>2, <1>8, InvTypes, ApplyFacts
  <2>6. store' = st
    BY <1>1, <1>8, <2>2, <2>5
  <2>7. FileTypeOK' /\ SaveSees'
    BY <1>1, <2>5, <2>6 DEF FileInv, FileTypeOK, SaveSees
  <2>8. WaitsForFiles' /\ EditsKept'
    BY <1>1, <1>4, <2>2, <2>5, <2>6 DEF WaitsForFiles, NothingRead, EditsKept, unsaved
  <2> QED BY <1>5, <1>6, <2>7, <2>8 DEF FileInv
<1>9. CASE draft # None /\ ~ store.ok
  <2>1. store' = [store EXCEPT !.pending = draft]
    BY <1>1, <1>9
  <2>2. /\ store' \in Store /\ store'.pending = draft /\ store'.seq = store.seq
        /\ store'.ok = store.ok /\ store'.base = store.base /\ store'.external = store.external
        /\ store'.timer = store.timer /\ store'.dirty = store.dirty
        /\ store'.draftPending = store.draftPending
    BY <2>1, InvTypes DEF Store
  <2>3. FileTypeOK' /\ SaveSees'
    BY <1>1, <2>2 DEF FileInv, FileTypeOK, SaveSees
  <2>4. WaitsForFiles'
    BY <1>1, <1>2, <1>9, <2>2 DEF WaitsForFiles, unsaved
  <2>5. EditsKept'
    BY <1>1, <1>4, <1>9, <2>2 DEF EditsKept
  <2> QED BY <1>5, <1>6, <2>3, <2>4, <2>5 DEF FileInv
<1> QED BY <1>7, <1>8, <1>9

(* The user edits, discards, keeps.                                        *)
LEMMA mutateKeeps == ASSUME FileInv, mutate PROVE FileInv'
<1>1. /\ up = "up" /\ task.kind = "idle" /\ store.ok
      /\ UNCHANGED <<files, draft, task, reads, woken, up, missed>>
  BY DEF mutate, ChainFree
<1>2. PICK m \in Model :
        /\ store' = [store EXCEPT !.model = m, !.seq = store.seq + 1,
                                  !.draftPending = TRUE, !.timer = TRUE]
        /\ edits' = [edits EXCEPT !.made = m]
  BY FileBounds DEF mutate, scheduleFlush
<1>3. spent' \in 0..MaxEvents
  BY EventType DEF mutate
<1>4. store.pending = None
  BY <1>1 DEF FileInv, WaitsForFiles
<1>5. /\ store' \in Store /\ store'.model = m /\ store'.pending = None
      /\ store'.base = store.base /\ store'.draftPending = TRUE
  <2>1. store.seq + 1 \in Nat
    BY InvTypes DEF Store
  <2> QED BY <1>2, <1>4, <2>1, InvTypes DEF Store
<1>6. /\ edits' \in [made : Model \cup {None}, drafted : Model \cup {None}]
      /\ edits'.made = m /\ edits'.drafted = edits.drafted
  BY <1>2, InvTypes
<1>7. ~ NothingRead'
  BY <1>5 DEF NothingRead
<1>8. FileTypeOK'
  BY <1>1, <1>3, <1>5, <1>6 DEF FileInv, FileTypeOK
<1>9. ReadsInOrder'
  BY <1>1, <1>7, SameReads
<1>10. StartsFresh' /\ WaitsForFiles'
  BY <1>1, <1>5, <1>7 DEF StartsFresh, WaitsForFiles
<1>11. DraftHolds' /\ EditsKept' /\ SavedIsClean' /\ SaveSees'
  BY <1>1, <1>5, <1>6 DEF FileInv, DraftHolds, EditsKept, SavedIsClean, SaveSees, unsaved
<1> QED BY <1>8, <1>9, <1>10, <1>11 DEF FileInv

LEMMA discardKeeps == ASSUME FileInv, discard PROVE FileInv'
<1> DEFINE r == Reading("discard")
           base == [store.base EXCEPT !.signature = None, !.modelSignature = None]
<1>1. /\ up = "up" /\ task.kind = "idle" /\ (store.external \/ unsaved) /\ Len(reads) < MaxReads
      /\ draft' = None /\ edits' = NoEdits /\ reads' = Append(reads, r)
      /\ UNCHANGED <<files, task, woken, up, spent, missed>>
  BY DEF discard, ChainFree
<1>2. ~ NothingRead /\ store.model \in Model
  BY <1>1, WorkingFacts
<1>3. base \in Base /\ base.signature = None
  BY InvTypes DEF Base
<1>4. store' = [store EXCEPT !.timer = FALSE, !.draftPending = FALSE, !.dirty = FALSE,
                             !.external = FALSE, !.pending = None, !.base = base]
  BY DEF discard
<1>5. r \in Load /\ r.cause = "discard"
  BY ReadingType
<1> HIDE DEF r, base
<1>6. /\ store' \in Store /\ store'.model = store.model /\ store'.pending = None
      /\ store'.base = base
  BY <1>3, <1>4, InvTypes DEF Store
<1>7. ~ NothingRead'
  BY <1>2, <1>6 DEF NothingRead
<1>8. /\ reads' \in Seq(Load) /\ Len(reads') = Len(reads) + 1 /\ Len(reads') <= MaxReads
      /\ reads'[Len(reads) + 1] = r
      /\ \A j \in 1..Len(reads) : reads'[j] = reads[j]
  BY <1>1, <1>5, InvTypes
<1>9. \A j \in 1..Len(reads') : reads'[j].cause # "start"
  BY <1>1, <1>5, <1>8, InvTypes DEF FileInv, ReadsInOrder
<1>10. FileTypeOK'
  BY <1>1, <1>6, <1>8 DEF FileInv, FileTypeOK, NoEdits
<1>11. ReadsInOrder'
  BY <1>1, <1>7, <1>9 DEF ReadsInOrder
<1>12. StartsFresh' /\ WaitsForFiles'
  BY <1>1, <1>6, <1>7 DEF StartsFresh, WaitsForFiles
<1>13. DraftHolds' /\ EditsKept' /\ SavedIsClean' /\ SaveSees'
  BY <1>1, <1>3, <1>6 DEF DraftHolds, EditsKept, SavedIsClean, SaveSees, NoEdits
<1> QED BY <1>10, <1>11, <1>12, <1>13 DEF FileInv

LEMMA keepKeeps == ASSUME FileInv, keep PROVE FileInv'
<1> DEFINE base == [tree |-> files, signature |-> files, modelSignature |-> Render(Parse(files))]
<1>1. /\ up = "up" /\ task.kind = "idle" /\ store.external /\ Parse(files) # Failure
      /\ UNCHANGED <<files, draft, task, reads, woken, up, spent, edits, missed>>
  BY DEF keep, ChainFree
<1>2. ~ NothingRead /\ store.model \in Model /\ store.pending = None
  BY <1>1, WorkingFacts
<1>3. base \in Base /\ base.tree = base.signature
  <2>1. files \in Tree /\ Render(Parse(files)) \in Tree
    BY <1>1, FilesMeanModels, InvTypes
  <2> QED BY <2>1 DEF Base, Tree
<1>4. store' = [store EXCEPT !.base = base, !.external = FALSE, !.draftPending = TRUE, !.timer = TRUE]
  BY DEF keep, scheduleFlush, Acknowledged, Adopted
<1> HIDE DEF base
<1>5. /\ store' \in Store /\ store'.model = store.model /\ store'.pending = None
      /\ store'.base = base /\ store'.draftPending = TRUE
  BY <1>2, <1>3, <1>4, InvTypes DEF Store
<1>6. ~ NothingRead'
  BY <1>2, <1>5 DEF NothingRead
<1>7. FileTypeOK'
  BY <1>1, <1>5 DEF FileInv, FileTypeOK
<1>8. ReadsInOrder'
  BY <1>1, <1>6, SameReads
<1>9. StartsFresh' /\ WaitsForFiles'
  BY <1>1, <1>5, <1>6 DEF StartsFresh, WaitsForFiles
<1>10. DraftHolds' /\ EditsKept' /\ SavedIsClean' /\ SaveSees'
  BY <1>1, <1>2, <1>3, <1>5 DEF FileInv, DraftHolds, EditsKept, SavedIsClean, SaveSees, unsaved
<1> QED BY <1>7, <1>8, <1>9, <1>10 DEF FileInv
-----------------------------------------------------------------------------
LEMMA InitHolds == ASSUME Init PROVE FileInv
<1>1. << >> \in Seq(Load) /\ Len(<< >>) = 0 /\ 0 <= MaxReads /\ 0 \in 0..MaxEvents
  BY FileBounds
<1>2. FileTypeOK
  <2>1. files \in Tree /\ draft = None /\ up = "down" /\ woken = FALSE /\ missed = FALSE
    BY FileBounds DEF Init
  <2> QED BY <1>1, <2>1, NewTypes DEF Init, FileTypeOK, NoEdits
<1>3. ReadsInOrder
  BY <1>1 DEF Init, ReadsInOrder
<1>4. StartsFresh /\ WaitsForFiles
  BY NewTypes DEF Init, StartsFresh, WaitsForFiles, unsaved
<1>5. DraftHolds /\ EditsKept /\ SavedIsClean /\ SaveSees
  BY NewTypes DEF Init, DraftHolds, EditsKept, SavedIsClean, SaveSees, NoEdits
<1> QED BY <1>2, <1>3, <1>4, <1>5 DEF FileInv

LEMMA NextKeeps == ASSUME FileInv, [Next]_vars PROVE FileInv'
<1>1. CASE Next
  BY <1>1, StartKeeps, CrashKeeps, CloseKeeps, OutsideWriteKeeps, WatchFiresKeeps,
     ReadTablesKeeps, WriteIdsBackKeeps, ReadLayoutKeeps, ReadFailsKeeps, CommitLoadKeeps,
     adoptDraftKeeps, mutateKeeps, flushKeeps, FlushEndsKeeps, saveKeeps, SaveFileKeeps,
     SaveFailsKeeps, SaveCommitsKeeps, RemoveDraftKeeps, discardKeeps, keepKeeps
  DEF Next
<1>2. CASE UNCHANGED vars
  <2>1. ReadsInOrder' /\ SaveSees'
    BY <1>2 DEF FileInv, vars, ReadsInOrder, NothingRead, SaveSees
  <2> QED BY <1>2, <2>1, InvTypes, DiskKeeps DEF vars
<1> QED BY <1>1, <1>2

LEMMA FileInvHolds == Spec => []FileInv
  BY InitHolds, NextKeeps, PTL DEF Spec

(* The store, its loads and its files keep their types: no load outlives   *)
(* its attempts, no draft is half a draft (store.ts:236-262, 700-720).     *)
THEOREM FilesAreTyped == Spec => []FileTypeOK
<1>1. FileInv => FileTypeOK
  BY DEF FileInv
<1> QED BY <1>1, FileInvHolds, PTL

(* Unsaved edits stay on the screen or wait for the files to be readable,  *)
(* whatever loads, failures, crashes and restarts come in between          *)
(* (#commitLoad, adoptDraft, tryAdoptPending).                             *)
THEOREM UnsavedEditsSurvive == Spec => []UnsavedSurvives
<1>1. FileInv => UnsavedSurvives
  <2> SUFFICES ASSUME FileInv, up = "up", edits.made # None
               PROVE  \/ store.model = edits.made
                      \/ ~ store.ok /\ store.pending # None /\ store.pending.model = edits.made
    BY DEF UnsavedSurvives
  <2>1. CASE store.pending = None
    BY <2>1 DEF FileInv, EditsKept
  <2>2. CASE store.pending # None
    BY <2>2 DEF FileInv, EditsKept, DraftHolds, WaitsForFiles
  <2> QED BY <2>1, <2>2
<1> QED BY <1>1, FileInvHolds, PTL

(* A save overwrites a file only if it is the file the edits are based on, *)
(* or if it was changed after the save had read the files again.           *)
THEOREM SavesKeepUnseen == Spec => SaveKeepsUnseen
<1>1. ASSUME FileInv, SaveFile
      PROVE  files[Head(task.todo)] = store.base.tree[Head(task.todo)] \/ task.raced
  <2>1. task.kind = "save" /\ task.todo # << >>
    BY <1>1 DEF SaveFile
  <2>2. task.todo \in Seq(File)
    BY <1>1, InvTypes DEF Task
  <2>3. Head(task.todo) = task.todo[1] /\ 1 \in 1..Len(task.todo)
    BY <2>1, <2>2
  <2> QED BY <1>1, <2>1, <2>3 DEF FileInv, SaveSees
<1>2. FileInv => [SaveFile => files[Head(task.todo)] = store.base.tree[Head(task.todo)] \/ task.raced]_vars
  BY <1>1
<1> QED BY <1>2, FileInvHolds, PTL DEF SaveKeepsUnseen
=============================================================================
