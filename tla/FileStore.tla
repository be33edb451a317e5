----------------------------- MODULE FileStore -----------------------------
(***************************************************************************)
(* erdd serve without a server: the FileStore that holds a model in memory *)
(* between YAML files anybody may write (an editor, an agent, git) and one *)
(* browser tab.  Edits go to memory and, debounced, to a draft; only save  *)
(* writes the files.  Everything that changes the store runs in one chain  *)
(* (#serialize) except the file reads of load, which several may make at   *)
(* once, and the process may die at any step.                              *)
(*                                                                         *)
(* Two files stand for all of them: "tables" for what readTree reads,      *)
(* "layout" for layout.yaml, which is read and written after it.  A        *)
(* content is a YAML value, so a signature is the tree itself.             *)
(***************************************************************************)
EXTENDS Naturals, Sequences, SequencesExt

CONSTANTS
    Content,            \* what one file may hold, its absence included
    Broken,             \* a content that is no YAML
    Model,              \* what files may mean
    Edited,             \* the models a user edits to
    Parse(_),           \* filesToModel, integrity, applyLayout; or Failure
    Render(_),          \* modelToFiles and layoutFromModel
    Assign(_),          \* a content with fresh ids where it has none: the possible ones
    Failure, None,
    EmptyModel,
    InitialFiles,       \* the files when serve is first started
    Writings,           \* <<file, content>> pairs others may write
    MAX_LOAD_ATTEMPTS,
    MaxEvents,          \* bound: edits, writes by others, failures and crashes together
    MayFail,            \* bound: whether reads and writes fail and the process dies
    MaxReads            \* bound: loads in flight at once

File == {"tables", "layout"}
Tree == [File -> Content]
Draft == [baseSignature : Tree \cup {None}, seq : Nat, model : Model]

ASSUME FileBounds ==
    /\ {MAX_LOAD_ATTEMPTS, MaxReads} \subseteq Nat \ {0}
    /\ MaxEvents \in Nat /\ MayFail \in BOOLEAN
    /\ InitialFiles \in Tree /\ Writings \subseteq File \X Content
    /\ Edited \subseteq Model /\ Failure \notin Model \cup {None}
    /\ None \notin Model /\ None \notin Tree /\ None \notin Draft

(* Files mean a model or are refused; writing a model and reading it back  *)
(* is the identity (file-format.test.ts:311), so files tell models apart.  *)
ASSUME FilesMeanModels ==
    /\ \A tree \in Tree : Parse(tree) \in Model \cup {Failure}
    /\ \A m \in Model : Render(m) \in Tree
    /\ \A m, n \in Model : Render(m) = Render(n) => m = n
    /\ \A content \in Content : Assign(content) \subseteq Content

VARIABLES
    files,      \* the files under erdd/
    draft,      \* .erdd/draft.json: None or a record
    store,      \* the FileStore's fields
    task,       \* the flush or save that holds the chain
    reads,      \* loads in flight, oldest first
    woken,      \* the watcher has an event it has not reported
    up,         \* the process: down, loading, adopting, up
    spent,      \* the events so far (bound)
    edits,      \* history: the unsaved model, and the one the draft was last written with
    missed      \* history: a file changed before the watcher was registered

vars == <<files, draft, store, task, reads, woken, up, spent, edits, missed>>

NoTask == [kind |-> "idle", todo |-> << >>, next |-> InitialFiles, dirty |-> FALSE, raced |-> FALSE]
NoBase == [tree |-> [f \in File |-> None], signature |-> None, modelSignature |-> None]
NoEdits == [made |-> None, drafted |-> None]
NewStore == [ok |-> TRUE, model |-> EmptyModel, seq |-> 0, base |-> NoBase, external |-> FALSE,
             pending |-> None, draftPending |-> FALSE, dirty |-> FALSE, timer |-> FALSE]

Init ==
    /\ files = InitialFiles /\ draft = None
    /\ store = NewStore /\ task = NoTask /\ reads = << >>
    /\ woken = FALSE /\ up = "down"
    /\ spent = 0
    /\ edits = NoEdits /\ missed = FALSE

Event == spent < MaxEvents /\ spent' = spent + 1
Fault == MayFail /\ Event
Running == up \in {"loading", "adopting", "up"}
ChainFree == task.kind = "idle" /\ Running
(* Mutated form: an edit counts once its draft is written.                 *)
unsaved_DirtyOnly == store.dirty
unsaved == store.dirty \/ store.draftPending
-----------------------------------------------------------------------------
(* Start, stop, and the others who write the files.                        *)
Reading(cause) ==
    [cause |-> cause, stage |-> "tables", attempt |-> 1, seq |-> store.seq, tree |-> files]

Start ==
    /\ up = "down"
    /\ up' = "loading" /\ missed' = FALSE
    /\ reads' = << Reading("start") >>
    /\ UNCHANGED <<files, draft, store, task, woken, spent, edits>>

Forget ==
    /\ up' = "down" /\ store' = NewStore /\ task' = NoTask /\ reads' = << >>
    /\ woken' = FALSE
    /\ UNCHANGED <<files, missed>>

Crash ==
    /\ Running /\ Fault
    /\ Forget
    /\ edits' = [edits EXCEPT !.made = edits.drafted]
    /\ UNCHANGED draft

(* fs.watch reports what is written under erdd/, by us or by others.       *)
Written(f, content) ==
    /\ files' = [files EXCEPT ![f] = content]
    /\ woken' = (woken \/ up = "up")

OutsideWrite ==
    /\ Event
    /\ \E w \in Writings :
          /\ Written(w[1], w[2])
          /\ missed' = (missed \/ (up \in {"loading", "adopting"} /\ files[w[1]] # w[2]))
    /\ task' = [task EXCEPT !.raced = task.kind = "save"]
    /\ UNCHANGED <<draft, store, reads, up, edits>>

(* The debounced callback: it does not wait for loads in flight.           *)
WatchFires ==
    /\ woken /\ up = "up" /\ Len(reads) < MaxReads
    /\ woken' = FALSE
    /\ reads' = Append(reads, Reading("watch"))
    /\ UNCHANGED <<files, draft, store, task, up, spent, edits, missed>>
-----------------------------------------------------------------------------
(* #loadOnce: outside the chain, file by file.                             *)
NeedsIds(content) == content \notin Assign(content)

ReadTables(i) ==
    /\ reads[i].stage = "tables"
    /\ reads' = [reads EXCEPT ![i].stage = IF NeedsIds(files["tables"]) THEN "assign" ELSE "layout",
                               ![i].tree["tables"] = files["tables"]]
    /\ UNCHANGED <<files, draft, store, task, woken, up, spent, edits, missed>>

(* Ids it issues are written back at once, over whatever is there by now.  *)
WriteIdsBack(i) ==
    /\ reads[i].stage = "assign"
    /\ \E ided \in Assign(reads[i].tree["tables"]) :
          /\ reads' = [reads EXCEPT ![i].stage = "layout", ![i].tree["tables"] = ided]
          /\ Written("tables", ided)
    /\ task' = [task EXCEPT !.raced = task.kind = "save"]
    /\ UNCHANGED <<draft, store, up, spent, edits, missed>>

ReadLayout(i) ==
    /\ reads[i].stage = "layout"
    /\ reads' = [reads EXCEPT ![i].stage = "read", ![i].tree["layout"] = files["layout"]]
    /\ UNCHANGED <<files, draft, store, task, woken, up, spent, edits, missed>>

(* A read or the write-back fails: #commitLoad is told so.                 *)
ReadFails(i) ==
    /\ reads[i].stage \in {"tables", "assign", "layout"}
    /\ Fault
    /\ reads' = [reads EXCEPT ![i].stage = "failed"]
    /\ UNCHANGED <<files, draft, store, task, woken, up, edits, missed>>

(* A draft is laid over the files.                                         *)
scheduleFlush(st) == [st EXCEPT !.draftPending = TRUE, !.timer = TRUE]
applyDraft(st, d) ==
    IF Render(d.model) = st.base.modelSignature THEN scheduleFlush(st)
    ELSE [st EXCEPT !.dirty = TRUE, !.ok = TRUE, !.model = d.model,
                    !.seq = IF d.seq > @ THEN d.seq ELSE @,
                    !.external = @ \/ d.baseSignature # st.base.signature]
tryAdoptPending(st) ==
    IF st.pending = None THEN st ELSE applyDraft([st EXCEPT !.pending = None], st.pending)

Adopted(st, tree, model) ==
    [st EXCEPT !.base = [tree |-> tree, signature |-> tree, modelSignature |-> Render(model)]]

(* What a load that read the files whole makes of the store.               *)
Confirmed(st, tree, seq) ==
    LET changed == tree # st.base.signature
        kept    == [st EXCEPT !.ok = TRUE, !.external = FALSE]
    IN  tryAdoptPending(
          CASE changed /\ unsaved     -> [st EXCEPT !.ok = TRUE, !.external = TRUE]
            [] ~ changed /\ unsaved   -> kept
            [] changed /\ ~ unsaved   -> [Adopted(kept, tree, Parse(tree)) EXCEPT
                                              !.model = Parse(tree), !.seq = seq]
            [] ~ changed /\ ~ unsaved -> [kept EXCEPT !.model = Parse(tree), !.seq = seq])

Failed(r) == r.stage = "failed" \/ Parse(r.tree) = Failure
Stale(r) == ~ Failed(r) /\ r.seq # store.seq
(* Mutated form: one attempt too many.                                     *)
LastAttempt_TooLate(r) == r.attempt > MAX_LOAD_ATTEMPTS
LastAttempt(r) == r.attempt >= MAX_LOAD_ATTEMPTS
(* Mutated form: the last attempt's result is dropped in silence.          *)
GiveUp_Silently(st) == st
GiveUp(st) == [st EXCEPT !.external = TRUE]

(* #commitLoad, in the chain.  Loads are committed in the order they began.*)
CommitLoad ==
    /\ reads # << >> /\ ChainFree
    /\ LET r == Head(reads)
       IN  /\ r.stage \in {"read", "failed"}
           /\ IF Stale(r) /\ ~ LastAttempt(r)
              THEN /\ reads' = Append(Tail(reads), [Reading(r.cause) EXCEPT !.attempt = r.attempt + 1])
                   /\ UNCHANGED <<store, up>>
              ELSE /\ reads' = Tail(reads)
                   /\ store' = CASE Failed(r) -> [store EXCEPT !.ok = FALSE]
                                 [] Stale(r)  -> GiveUp(store)
                                 [] OTHER     -> Confirmed(store, r.tree, r.seq)
                   /\ up' = IF r.cause = "start" THEN "adopting" ELSE up
    /\ UNCHANGED <<files, draft, task, woken, spent, edits, missed>>

(* adoptDraft, then the watcher is registered and the server listens.      *)
adoptDraft ==
    /\ up = "adopting" /\ ChainFree
    /\ up' = "up"
    /\ store' = IF draft = None THEN store
                ELSE IF store.ok THEN applyDraft(store, draft)
                ELSE [store EXCEPT !.pending = draft]
    /\ UNCHANGED <<files, draft, task, reads, woken, spent, edits, missed>>
-----------------------------------------------------------------------------
(* mutate and setModel (a snapshot is restored).                           *)
mutate ==
    /\ up = "up" /\ ChainFree /\ store.ok
    /\ Event
    /\ \E m \in Edited \ {store.model} :
          /\ store' = scheduleFlush([store EXCEPT !.model = m, !.seq = @ + 1])
          /\ edits' = [edits EXCEPT !.made = m]
    /\ UNCHANGED <<files, draft, task, reads, woken, up, missed>>

(* flush: the draft is written to a temporary file, which is then renamed. *)
Dirty == Render(store.model) # store.base.modelSignature
flush ==
    /\ ChainFree /\ store.timer
    /\ store' = [store EXCEPT !.timer = FALSE]
    /\ task' = [NoTask EXCEPT !.kind = "flush", !.dirty = Dirty]
    /\ UNCHANGED <<files, draft, reads, woken, up, spent, edits, missed>>

Drafted == [baseSignature |-> store.base.signature, seq |-> store.seq, model |-> store.model]
Flushed(dirty) ==
    /\ draft' = IF dirty THEN Drafted ELSE None
    /\ edits' = IF dirty THEN [edits EXCEPT !.drafted = store.model] ELSE NoEdits

FlushEnds ==
    /\ task.kind = "flush"
    /\ task' = NoTask
    /\ \/ /\ Flushed(task.dirty)
          /\ store' = [store EXCEPT !.draftPending = FALSE, !.dirty = task.dirty]
          /\ UNCHANGED spent
       \/ /\ Fault     \* the write fails: the next flush retries
          /\ UNCHANGED <<draft, edits, store>>
    /\ UNCHANGED <<files, reads, woken, up, missed>>

(* close: what is pending is flushed before the process ends.              *)
Close ==
    /\ up = "up" /\ ChainFree
    /\ IF store.draftPending THEN Flushed(Dirty) ELSE UNCHANGED <<draft, edits>>
    /\ Forget
    /\ UNCHANGED spent
-----------------------------------------------------------------------------
(* save.                                                                   *)
Differs(tree) ==
    LET changed(f) == IF tree[f] # store.base.tree[f] THEN << f >> ELSE << >>
    IN  changed("tables") \o changed("layout")
(* Mutated form: the files are not read again before they are written.     *)
Unseen_NotRead == FALSE
Unseen == files # store.base.signature

save ==
    /\ up = "up" /\ ChainFree
    /\ LET attempt == store.ok /\ ~ store.external /\ unsaved /\ Broken \notin Range(files)
       IN  /\ store' = [store EXCEPT !.timer = FALSE, !.external = @ \/ (attempt /\ Unseen)]
           /\ task' = IF attempt /\ ~ Unseen
                      THEN [NoTask EXCEPT !.kind = "save", !.next = Render(store.model),
                                          !.todo = Differs(Render(store.model))]
                      ELSE task
    /\ UNCHANGED <<files, draft, reads, woken, up, spent, edits, missed>>

SaveFile ==
    /\ task.kind = "save" /\ task.todo # << >>
    /\ Written(Head(task.todo), task.next[Head(task.todo)])
    /\ task' = [task EXCEPT !.todo = Tail(@)]
    /\ UNCHANGED <<draft, store, reads, up, spent, edits, missed>>

(* An exception: what is written stays written, the store is as before.    *)
SaveFails ==
    /\ task.kind = "save" /\ task.todo # << >>
    /\ Fault
    /\ task' = NoTask
    /\ UNCHANGED <<files, draft, store, reads, woken, up, edits, missed>>

SaveCommits ==
    /\ task.kind = "save" /\ task.todo = << >>
    /\ store' = [Adopted(store, task.next, store.model) EXCEPT !.draftPending = FALSE, !.dirty = FALSE]
    /\ task' = [NoTask EXCEPT !.kind = "saved"]
    /\ edits' = NoEdits
    /\ UNCHANGED <<files, draft, reads, woken, up, spent, missed>>

RemoveDraft ==
    /\ task.kind = "saved"
    /\ draft' = None /\ task' = NoTask
    /\ UNCHANGED <<files, store, reads, woken, up, spent, edits, missed>>

(* The two ways out of a change from outside.                              *)
discard ==
    /\ up = "up" /\ ChainFree /\ (store.external \/ unsaved)
    /\ Len(reads) < MaxReads
    /\ store' = [store EXCEPT !.timer = FALSE, !.draftPending = FALSE, !.dirty = FALSE,
                              !.external = FALSE, !.pending = None,
                              !.base.signature = None, !.base.modelSignature = None]
    /\ draft' = None /\ edits' = NoEdits
    /\ reads' = Append(reads, Reading("discard"))
    /\ UNCHANGED <<files, task, woken, up, spent, missed>>

(* Mutated form: the base stays what an earlier read made it.              *)
Acknowledged_NotReadAgain(st) == st
Acknowledged(st) == Adopted(st, files, Parse(files))
keep ==
    /\ up = "up" /\ ChainFree /\ store.external
    /\ Parse(files) # Failure
    /\ store' = scheduleFlush([Acknowledged(store) EXCEPT !.external = FALSE])
    /\ UNCHANGED <<files, draft, task, reads, woken, up, spent, edits, missed>>
-----------------------------------------------------------------------------
Next ==
    \/ Start \/ Crash \/ Close \/ OutsideWrite \/ WatchFires
    \/ \E i \in DOMAIN reads :
          ReadTables(i) \/ WriteIdsBack(i) \/ ReadLayout(i) \/ ReadFails(i)
    \/ CommitLoad \/ adoptDraft \/ mutate \/ flush \/ FlushEnds
    \/ save \/ SaveFile \/ SaveFails \/ SaveCommits \/ RemoveDraft \/ discard \/ keep

(* Reads end, the chain goes on, the debounce timers fire.  Nothing is     *)
(* assumed of the user, of those who write files, and of failures.         *)
Fairness ==
    /\ WF_vars(\E i \in DOMAIN reads : ReadTables(i) \/ WriteIdsBack(i) \/ ReadLayout(i))
    /\ WF_vars(CommitLoad) /\ WF_vars(adoptDraft) /\ WF_vars(WatchFires)
    /\ WF_vars(flush) /\ WF_vars(FlushEnds)
    /\ WF_vars(SaveFile) /\ WF_vars(SaveCommits) /\ WF_vars(RemoveDraft)

Spec == Init /\ [][Next]_vars
FairSpec == Spec /\ Fairness
-----------------------------------------------------------------------------
Load == [cause : {"start", "watch", "discard"},
         stage : {"tables", "assign", "layout", "read", "failed"},
         attempt : 1..MAX_LOAD_ATTEMPTS, seq : Nat, tree : Tree]

Base == [tree : [File -> Content \cup {None}],
         signature : Tree \cup {None}, modelSignature : Tree \cup {None}]
Store == [ok : BOOLEAN, model : Model \cup {EmptyModel}, seq : Nat, base : Base,
          external : BOOLEAN, pending : Draft \cup {None},
          draftPending : BOOLEAN, dirty : BOOLEAN, timer : BOOLEAN]
Task == [kind : {"idle", "flush", "save", "saved"}, todo : Seq(File), next : Tree,
         dirty : BOOLEAN, raced : BOOLEAN]

FileTypeOK ==
    /\ files \in Tree /\ draft \in Draft \cup {None}
    /\ store \in Store /\ task \in Task
    /\ reads \in Seq(Load) /\ Len(reads) <= MaxReads
    /\ up \in {"down", "loading", "adopting", "up"} /\ {woken, missed} \subseteq BOOLEAN
    /\ edits \in [made : Model \cup {None}, drafted : Model \cup {None}]
    /\ spent \in 0..MaxEvents

Quiet == up = "up" /\ task.kind = "idle" /\ reads = << >> /\ ~ woken /\ ~ missed

(* If the files are not those the unsaved edits are based on, the user has *)
(* been told (D2: no automatic merge).                                     *)
BannerWhenNeeded == Quiet /\ store.ok /\ unsaved /\ files # store.base.tree => store.external

(* A draft that was made from other files is not laid over these without   *)
(* the user's knowledge (store.ts:710-711).                                *)
DraftOfOtherFiles ==
    /\ draft # None /\ unsaved /\ ~ store.draftPending
    /\ draft.baseSignature # files
DraftOverlayIsTold == Quiet /\ store.ok /\ DraftOfOtherFiles => store.external

(* The unsaved model stays on the screen whatever loads run; and what was  *)
(* unsaved when the draft was last written is there again after a crash, a *)
(* restart and a broken file in between, or waits to be laid over them.    *)
UnsavedSurvives ==
    up = "up" /\ edits.made # None =>
        \/ store.model = edits.made
        \/ ~ store.ok /\ store.pending # None /\ store.pending.model = edits.made

(* A save never overwrites a file that somebody else changed before the    *)
(* save read the files again; raced marks the changes made after that.     *)
SaveKeepsUnseen ==
    [][SaveFile => files[Head(task.todo)] = store.base.tree[Head(task.todo)] \/ task.raced]_vars

(* Again and again the screen shows the files or the unsaved edits on top  *)
(* of them, or the user has been told why not: no outside change, no       *)
(* half-written save that a load met, no failure stays unnoticed.          *)
Settled == \/ up = "down" \/ missed \/ store.external \/ ~ store.ok
           \/ files = store.base.tree /\ (unsaved \/ store.model = Parse(files))
Settles == []<> Settled
=============================================================================
