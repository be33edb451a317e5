----------------------------- MODULE EditorSync -----------------------------
(***************************************************************************)
(* Editors of one project in the web client, on top of the server's log    *)
(* (RevisionLog): the zustand store, the mutation chain every edit, undo,  *)
(* redo and received frame goes through (use-model.ts, use-realtime.ts),   *)
(* the one TanStack query slot of model.get, the realtime socket, and the  *)
(* snapshot restore of the version dialog, which runs outside the chain.   *)
(*                                                                         *)
(* A chain task holds the chain over its awaits; what happens at an await  *)
(* is any action of another client, of the server or of the network.       *)
(* One request of a client is one atomic step of the server here:          *)
(* ProjectServer shows that its requests implement Commit and Announce.    *)
(***************************************************************************)
EXTENDS RevisionLog, SequencesExt

CONSTANTS
    Client,             \* browser tabs with the project open
    Other,              \* any writer that is not one of them (CLI push, promotion)
    HISTORY_CAP,        \* how many edits the undo stack keeps
    MaxEdits,           \* bound: edits, undos and redos of all clients
    MaxOthers,          \* bound: revisions by Other
    MaxRefetches,       \* bound: fetches of model.get TanStack starts on its own
    MaxFaults,          \* bound: lost requests, dropped sockets, crashes
    MaxSwitches,        \* bound: times somebody leaves the project's page
    MaxRestores,        \* bound: snapshot restores
    Mixtures            \* bound: which of these may come together

ASSUME SyncBounds ==
    /\ HISTORY_CAP \in Nat \ {0}
    /\ {MaxEdits, MaxOthers, MaxRefetches, MaxFaults, MaxSwitches, MaxRestores} \subseteq Nat
    /\ Other \notin Client
    /\ (Client \cup {Other}) \X (0..MaxEdits) \subseteq Author

VARIABLES
    store,      \* per client: model, seq, undoStack, redoStack; "here" is
                \* loadedProjectId = this project
    chain,      \* per client: the task that holds the mutation chain
    call,       \* per client: its model.mutate request
    query,      \* per client: the model.get fetch in flight, if any
    cached,     \* per client: the version the query cache holds
    sock,       \* per client: its realtime connection, as the hub sees it
    inbox,      \* per client: frames sent to it and not yet handled
    dialog,     \* per client: its snapshot restore
    orphans,    \* mutate requests nobody waits for any more
    spent,      \* what the bounds have left (counters)
    alarmed,    \* per client: it was told to reload the page, because the
                \* model is "stale" or holds an "unsaved" edit
    overwritten \* history: setLoaded replaced a model with an edit in flight

clientVars == <<store, chain, call, query, cached, sock, inbox, dialog, alarmed, overwritten>>
vars == <<logVars, clientVars, orphans, spent>>

Idle == [phase |-> "idle", kind |-> "none", edit |-> 0, ops |-> NoOps, todo |-> << >>,
         lastSeq |-> 0, interleaved |-> FALSE, left |-> FALSE]
NoCall == [stage |-> "none", seq |-> 0]
NoQuery == [stage |-> "idle", seq |-> 0]

SyncInit ==
    /\ LogInit
    /\ store = [c \in Client |-> [model |-> Empty, seq |-> 0, here |-> TRUE,
                                  undo |-> << >>, redo |-> << >>]]
    /\ chain = [c \in Client |-> Idle]
    /\ call = [c \in Client |-> NoCall]
    /\ query = [c \in Client |-> NoQuery]
    /\ cached = [c \in Client |-> 0]
    /\ sock = [c \in Client |-> [stage |-> "closed", seq |-> 0]]
    /\ inbox = [c \in Client |-> << >>]
    /\ dialog = [c \in Client |-> NoCall]
    /\ orphans = {}
    /\ spent = [edits |-> 0, others |-> 0, refetches |-> 0, faults |-> 0, switches |-> 0, restores |-> 0]
    /\ alarmed = [c \in Client |-> "none"]
    /\ overwritten = [c \in Client |-> FALSE]

Spend(what, bound) ==
    /\ spent[what] < bound
    /\ spent' = [spent EXCEPT ![what] = @ + 1]
    /\ spent' \in Mixtures
-----------------------------------------------------------------------------
(* The store's own operations.                                             *)
resync(st, seq) ==
    [st EXCEPT !.model = ModelAt(seq), !.seq = seq, !.undo = << >>, !.redo = << >>]
setLoaded(st, seq) == [resync(st, seq) EXCEPT !.here = TRUE]
setSeq(st, seq) == [st EXCEPT !.seq = IF seq > @ THEN seq ELSE @]

Capped(s) == IF Len(s) > HISTORY_CAP THEN SubSeq(s, Len(s) - HISTORY_CAP + 1, Len(s)) ELSE s

(* A mutated form: a new edit leaves the redo stack alone.                 *)
recordEdit_KeepRedo(st, entry) == [st EXCEPT !.undo = Capped(Append(@, entry))]

recordEdit(st, entry) == [st EXCEPT !.undo = Capped(Append(@, entry)), !.redo = << >>]
moveUndoToRedo(st) ==
    IF st.undo = << >> THEN st
    ELSE [st EXCEPT !.undo = Front(@), !.redo = Append(@, Last(st.undo))]
moveRedoToUndo(st) ==
    IF st.redo = << >> THEN st
    ELSE [st EXCEPT !.redo = Front(@), !.undo = Append(@, Last(st.redo))]

(* What useModelMutation, undo and redo do with an applied submit.         *)
Recorded(st, task) ==
    CASE task.kind = "edit" -> recordEdit(st, [edit |-> task.edit, ops |-> task.ops])
      [] task.kind = "undo" -> moveUndoToRedo(st)
      [] task.kind = "redo" -> moveRedoToUndo(st)
      [] OTHER -> st
-----------------------------------------------------------------------------
(* submit: guard, optimistic model, chunks.  Empty diffs and producers     *)
(* that throw end at once and change nothing.                              *)
Submit(c, kind, target) ==
    /\ chain[c].phase = "idle" /\ store[c].here
    /\ target \in Model \ {store[c].model}
    /\ Spend("edits", MaxEdits)
    /\ LET ops == Diff(store[c].model, target)
       IN  chain' = [chain EXCEPT ![c] =
               [Idle EXCEPT !.phase = "call", !.kind = kind, !.edit = spent.edits + 1,
                            !.ops = ops, !.todo = Chunks(ops), !.lastSeq = store[c].seq]]
    /\ store' = [store EXCEPT ![c].model = target]
    /\ call' = [call EXCEPT ![c] = [stage |-> "sent", seq |-> 0]]
    /\ UNCHANGED <<logVars, query, cached, sock, inbox, dialog, orphans, alarmed, overwritten>>

Edit(c) == \E m \in Model : Submit(c, "edit", m)
Undo(c) == /\ store[c].undo # << >>
           /\ Submit(c, "undo", Apply(store[c].model, Invert(Last(store[c].undo).ops)))
Redo(c) == /\ store[c].redo # << >>
           /\ Submit(c, "redo", Apply(store[c].model, Last(store[c].redo).ops))

(* The server handles the chunk in flight.                                 *)
ServerMutate(c) ==
    /\ call[c].stage = "sent"
    /\ IF Acceptable(Head(chain[c].todo))
       THEN /\ Commit(Head(chain[c].todo), <<c, chain[c].edit>>)
            /\ call' = [call EXCEPT ![c] = [stage |-> "committed", seq |-> currentSeq + 1]]
       ELSE /\ call' = [call EXCEPT ![c].stage = "error"]
            /\ UNCHANGED logVars
    /\ UNCHANGED <<store, chain, query, cached, sock, inbox, dialog, orphans, spent, alarmed, overwritten>>

StillHere(c) == ~ chain[c].left /\ store[c].here
(* fetchQuery starts a fetch, or joins the one in flight.                  *)
fetchQuery(c) == query' = IF query[c].stage # "idle" THEN query
                          ELSE [query EXCEPT ![c].stage = "asked"]

(* The loop of submit over the chunks, after each await: the answer comes  *)
(* only after publishOps has run.                                          *)
Answer(c) == call[c].stage = "committed" /\ call[c].seq \notin unpublished

AfterAnswer(c) ==
    [chain[c] EXCEPT !.todo = Tail(@), !.lastSeq = call[c].seq, !.left = ~ StillHere(c),
                     !.interleaved = @ \/ call[c].seq # chain[c].lastSeq + 1]

NextChunk(c) ==
    /\ Answer(c) /\ Len(chain[c].todo) > 1
    /\ chain' = [chain EXCEPT ![c] = AfterAnswer(c)]
    /\ call' = [call EXCEPT ![c] = [stage |-> "sent", seq |-> 0]]
    /\ UNCHANGED <<logVars, store, query, cached, sock, inbox, dialog, orphans, spent, alarmed, overwritten>>

LastChunk(c) ==
    /\ Answer(c) /\ Len(chain[c].todo) = 1
    /\ call' = [call EXCEPT ![c] = NoCall]
    /\ LET task == AfterAnswer(c)
       IN  \/ /\ task.left                  \* another project is loaded now
              /\ chain' = [chain EXCEPT ![c] = Idle]
              /\ UNCHANGED <<store, query>>
           \/ /\ ~ task.left /\ task.interleaved
              /\ chain' = [chain EXCEPT ![c] = [task EXCEPT !.phase = "settle"]]
              /\ fetchQuery(c)
              /\ UNCHANGED store
           \/ /\ ~ task.left /\ ~ task.interleaved
              /\ store' = [store EXCEPT ![c] = Recorded(setSeq(@, task.lastSeq), task)]
              /\ chain' = [chain EXCEPT ![c] = Idle]
              /\ UNCHANGED query
    /\ UNCHANGED <<logVars, cached, sock, inbox, dialog, orphans, spent, alarmed, overwritten>>

(* catch: refetch if the project is still on the screen.                   *)
(* Mutated form: the error is shown, the optimistic model stays.           *)
Caught_NoRepair(c) == chain' = [chain EXCEPT ![c] = Idle] /\ UNCHANGED query

Caught(c) ==
    IF StillHere(c)
    THEN chain' = [chain EXCEPT ![c].phase = "repair"] /\ fetchQuery(c)
    ELSE chain' = [chain EXCEPT ![c] = Idle] /\ UNCHANGED query

(* The request was refused, or is lost on the way, or its answer is.       *)
CallFails(c) ==
    /\ \/ call[c].stage = "error" /\ UNCHANGED <<orphans, spent>>
       \/ /\ call[c].stage \in {"sent", "committed"}
          /\ Spend("faults", MaxFaults)
          /\ \/ UNCHANGED orphans
             \/ /\ call[c].stage = "sent"   \* it still arrives one day
                /\ orphans' = orphans \cup
                      {[by |-> c, edit |-> chain[c].edit, ops |-> Head(chain[c].todo)]}
    /\ call' = [call EXCEPT ![c] = NoCall]
    /\ Caught(c)
    /\ UNCHANGED <<logVars, store, cached, sock, inbox, dialog, alarmed, overwritten>>

(* A request whose sender gave up is handled all the same.                 *)
OrphanArrives ==
    /\ \E o \in orphans :
          /\ orphans' = orphans \ {o}
          /\ IF Acceptable(o.ops) THEN Commit(o.ops, <<o.by, o.edit>>) ELSE UNCHANGED logVars
    /\ UNCHANGED <<clientVars, spent>>

(* Somebody else writes: a CLI push, a promotion, an editor elsewhere.     *)
OtherWrites ==
    /\ Spend("others", MaxOthers)
    /\ \E m \in Model \ {rows} : Commit(Diff(rows, m), <<Other, 0>>)
    /\ UNCHANGED <<clientVars, orphans>>
-----------------------------------------------------------------------------
(* model.get: one slot per client.                                         *)
QueryRead(c) ==
    /\ query[c].stage = "asked"
    /\ query' = [query EXCEPT ![c] = [stage |-> "read", seq |-> currentSeq]]
    /\ UNCHANGED <<logVars, store, chain, call, cached, sock, inbox, dialog, orphans, spent, alarmed, overwritten>>

(* What the chain task that awaits the fetch does with it, the store being *)
(* st.  A settling task records its edit whether or not the project is     *)
(* still loaded.                                                           *)
(* Mutated form of Waiting: a reload never gives the chain back.           *)
Waiting_NotReload(c) == chain[c].phase \in {"repair", "settle"}
Waiting(c) == chain[c].phase \in {"reload", "repair", "settle"}
Resyncs(c, st) ==
    /\ st.here
    /\ \/ chain[c].phase = "reload"
       \/ chain[c].phase \in {"repair", "settle"} /\ ~ chain[c].left

Continued(c, st, seq) ==
    LET fresh == IF Resyncs(c, st) THEN resync(st, seq) ELSE st
    IN  IF chain[c].phase = "settle" THEN Recorded(fresh, chain[c]) ELSE fresh

QueryAnswer(c) ==
    /\ query[c].stage = "read" /\ dialog[c].stage # "fetch"
    /\ query' = [query EXCEPT ![c] = NoQuery]
    /\ cached' = [cached EXCEPT ![c] = query[c].seq]
    /\ store' = [store EXCEPT ![c] = Continued(c, @, query[c].seq)]
    /\ chain' = IF Waiting(c) THEN [chain EXCEPT ![c] = Idle] ELSE chain
    /\ alarmed' = [alarmed EXCEPT ![c] = IF Resyncs(c, store[c]) THEN "none" ELSE @]
    /\ UNCHANGED <<logVars, call, sock, inbox, dialog, orphans, spent, overwritten>>

(* The restore's onSuccess takes the same answer, outside the chain and    *)
(* whatever is on the screen; which of the two continuations runs first    *)
(* depends on who asked first.                                             *)
RestoreLoads(c) ==
    /\ query[c].stage = "read" /\ dialog[c].stage = "fetch"
    /\ query' = [query EXCEPT ![c] = NoQuery]
    /\ cached' = [cached EXCEPT ![c] = query[c].seq]
    /\ \/ store' = [store EXCEPT ![c] = setLoaded(Continued(c, @, query[c].seq), query[c].seq)]
       \/ store' = [store EXCEPT ![c] = Continued(c, setLoaded(@, query[c].seq), query[c].seq)]
    /\ chain' = IF Waiting(c) THEN [chain EXCEPT ![c] = Idle] ELSE chain
    /\ dialog' = [dialog EXCEPT ![c] = NoCall]
    /\ alarmed' = [alarmed EXCEPT ![c] = "none"]
    /\ overwritten' = [overwritten EXCEPT ![c] = @ \/ chain[c].phase = "call"]
    /\ UNCHANGED <<logVars, call, sock, inbox, orphans, spent>>

(* Both tries (retry: 1) fail.                                             *)
QueryFails(c) ==
    /\ query[c].stage # "idle"
    /\ Spend("faults", MaxFaults)
    /\ dialog' = IF dialog[c].stage = "fetch" THEN [dialog EXCEPT ![c] = NoCall] ELSE dialog
    /\ IF chain[c].phase = "settle" /\ StillHere(c)
       THEN /\ chain' = [chain EXCEPT ![c].phase = "repair"]
            /\ query' = [query EXCEPT ![c] = [stage |-> "asked", seq |-> 0]]
       ELSE /\ chain' = IF Waiting(c) THEN [chain EXCEPT ![c] = Idle] ELSE chain
            /\ query' = [query EXCEPT ![c] = NoQuery]
    /\ alarmed' = [alarmed EXCEPT ![c] = CASE chain[c].phase = "repair" -> "unsaved"
                                            [] chain[c].phase = "reload" /\ @ = "none" -> "stale"
                                            [] OTHER -> @]
    /\ UNCHANGED <<logVars, store, call, cached, sock, inbox, orphans, overwritten>>

(* refetchOnReconnect, a remount of a component that uses the query.       *)
BackgroundRefetch(c) ==
    /\ query[c].stage = "idle"
    /\ Spend("refetches", MaxRefetches)
    /\ fetchQuery(c)
    /\ UNCHANGED <<logVars, store, chain, call, cached, sock, inbox, dialog, orphans, alarmed, overwritten>>
-----------------------------------------------------------------------------
(* ws.ts and the hub: subscribe first, then read the seq, then ready.      *)
Subscribe(c) ==
    /\ sock[c].stage = "closed" /\ store[c].here
    /\ sock' = [sock EXCEPT ![c] = [stage |-> "subscribed", seq |-> 0]]
    /\ UNCHANGED <<logVars, store, chain, call, query, cached, inbox, dialog, orphans, spent, alarmed, overwritten>>

ReadSeq(c) ==
    /\ sock[c].stage = "subscribed"
    /\ sock' = [sock EXCEPT ![c] = [stage |-> "read", seq |-> currentSeq]]
    /\ UNCHANGED <<logVars, store, chain, call, query, cached, inbox, dialog, orphans, spent, alarmed, overwritten>>

SendReady(c) ==
    /\ sock[c].stage = "read"
    /\ inbox' = [inbox EXCEPT ![c] = Append(@, [type |-> "ready", seq |-> sock[c].seq, ops |-> NoOps])]
    /\ sock' = [sock EXCEPT ![c].stage = "open"]
    /\ UNCHANGED <<logVars, store, chain, call, query, cached, dialog, orphans, spent, alarmed, overwritten>>

(* Mutated form: a socket hears frames only once it has been told ready.   *)
publishOps_ToReadySockets(seq) ==
    /\ Announce(seq)
    /\ inbox' = [c \in Client |->
                    IF sock[c].stage # "open" THEN inbox[c]
                    ELSE Append(inbox[c], [type |-> "ops", seq |-> seq, ops |-> revisions[seq].ops])]
    /\ UNCHANGED <<store, chain, call, query, cached, sock, dialog, orphans, spent, alarmed, overwritten>>

publishOps(seq) ==
    /\ Announce(seq)
    /\ inbox' = [c \in Client |->
                    IF sock[c].stage = "closed" THEN inbox[c]
                    ELSE Append(inbox[c], [type |-> "ops", seq |-> seq, ops |-> revisions[seq].ops])]
    /\ UNCHANGED <<store, chain, call, query, cached, sock, dialog, orphans, spent, alarmed, overwritten>>

(* The frames that have not reached the tab yet are lost with the socket.  *)
Disconnect(c) ==
    /\ sock[c].stage # "closed"
    /\ Spend("faults", MaxFaults)
    /\ sock' = [sock EXCEPT ![c] = [stage |-> "closed", seq |-> 0]]
    /\ \E kept \in Prefixes(inbox[c]) : inbox' = [inbox EXCEPT ![c] = kept]
    /\ UNCHANGED <<logVars, store, chain, call, query, cached, dialog, orphans, alarmed, overwritten>>

(* The server process dies: commits stay, everything else it held is gone. *)
ServerCrash ==
    /\ Spend("faults", MaxFaults)
    /\ unpublished' = {}
    /\ UNCHANGED <<rows, revisions>>
    /\ sock' = [c \in Client |-> [stage |-> "closed", seq |-> 0]]
    /\ inbox' \in [Client -> UNION {Prefixes(inbox[c]) : c \in Client}]
    /\ \A c \in Client : inbox'[c] \in Prefixes(inbox[c])
    /\ call' = [c \in Client |-> IF call[c].stage = "none" THEN call[c]
                                 ELSE [stage |-> "error", seq |-> 0]]
    /\ dialog' = [c \in Client |-> IF dialog[c].stage = "fetch" THEN dialog[c] ELSE NoCall]
    /\ orphans' = {}
    /\ UNCHANGED <<store, chain, query, cached, alarmed, overwritten>>

(* handle(msg), first part: what a frame calls for.                        *)
(* Mutated form: a frame with the next seq is taken to apply.              *)
Verdict_TrustNext(st, f) ==
    CASE ~ st.here -> "drop"
      [] f.type = "ready" -> IF f.seq # st.seq THEN "reload" ELSE "drop"
      [] f.seq <= st.seq -> "drop"
      [] f.seq # st.seq + 1 -> "reload"
      [] OTHER -> "apply"

Verdict(st, f) ==
    CASE ~ st.here -> "drop"
      [] f.type = "ready" -> IF f.seq # st.seq THEN "reload" ELSE "drop"
      [] f.seq <= st.seq -> "drop"
      [] f.seq # st.seq + 1 \/ Apply(st.model, f.ops) = Failure -> "reload"
      [] OTHER -> "apply"

HandleFrame(c) ==
    /\ chain[c].phase = "idle" /\ inbox[c] # << >>
    /\ inbox' = [inbox EXCEPT ![c] = Tail(@)]
    /\ LET f == Head(inbox[c])
           v == Verdict(store[c], f)
       IN  \/ v = "drop" /\ UNCHANGED <<store, chain, query>>
           \/ /\ v = "apply"
              /\ store' = [store EXCEPT ![c].model = Apply(@, f.ops), ![c].seq = f.seq]
              /\ UNCHANGED <<chain, query>>
           \/ /\ v = "reload"
              /\ chain' = [chain EXCEPT ![c].phase = "reload"]
              /\ fetchQuery(c)
              /\ UNCHANGED store
    /\ UNCHANGED <<logVars, call, cached, sock, dialog, orphans, spent, alarmed, overwritten>>
-----------------------------------------------------------------------------
(* Another project is loaded: setLoaded replaces the store, the realtime   *)
(* effect closes the socket.  The chain task goes on.                      *)
Leave(c) ==
    /\ store[c].here
    /\ Spend("switches", MaxSwitches)
    /\ store' = [store EXCEPT ![c].here = FALSE, ![c].undo = << >>, ![c].redo = << >>]
    /\ sock' = [sock EXCEPT ![c] = [stage |-> "closed", seq |-> 0]]
    /\ \E kept \in Prefixes(inbox[c]) : inbox' = [inbox EXCEPT ![c] = kept]
    /\ UNCHANGED <<logVars, chain, call, query, cached, dialog, orphans, alarmed, overwritten>>

(* Back again: useModelLoader loads what the query cache holds, and the    *)
(* mount starts a refetch.                                                 *)
Return(c) ==
    /\ ~ store[c].here
    /\ store' = [store EXCEPT ![c] = setLoaded(@, cached[c])]
    /\ fetchQuery(c)
    /\ alarmed' = [alarmed EXCEPT ![c] = "none"]
    /\ overwritten' = [overwritten EXCEPT ![c] = @ \/ chain[c].phase = "call"]
    /\ UNCHANGED <<logVars, chain, call, cached, sock, inbox, dialog, orphans, spent>>

(* snapshot.restore, answered: rows become an earlier version (or are it). *)
Restore(c) ==
    /\ dialog[c].stage = "none" /\ store[c].here
    /\ Spend("restores", MaxRestores)
    /\ \E s \in 0..currentSeq :
          \/ /\ ModelAt(s) = rows
             /\ dialog' = [dialog EXCEPT ![c] = [stage |-> "committed", seq |-> 0]]
             /\ UNCHANGED logVars
          \/ /\ ModelAt(s) # rows
             /\ Commit(Diff(rows, ModelAt(s)), <<c, 0>>)
             /\ dialog' = [dialog EXCEPT ![c] = [stage |-> "committed", seq |-> currentSeq + 1]]
    /\ UNCHANGED <<store, chain, call, query, cached, sock, inbox, orphans, alarmed, overwritten>>

RestoreAnswered(c) ==
    /\ dialog[c].stage = "committed" /\ dialog[c].seq \notin unpublished
    /\ dialog' = [dialog EXCEPT ![c].stage = "fetch"]
    /\ fetchQuery(c)
    /\ UNCHANGED <<logVars, store, chain, call, cached, sock, inbox, orphans, spent, alarmed, overwritten>>

ClientNext(c) ==
    \/ Edit(c) \/ Undo(c) \/ Redo(c) \/ ServerMutate(c) \/ NextChunk(c) \/ LastChunk(c) \/ CallFails(c)
    \/ QueryRead(c) \/ QueryAnswer(c) \/ QueryFails(c) \/ BackgroundRefetch(c)
    \/ Subscribe(c) \/ ReadSeq(c) \/ SendReady(c) \/ Disconnect(c) \/ HandleFrame(c)
    \/ Leave(c) \/ Return(c) \/ Restore(c) \/ RestoreAnswered(c) \/ RestoreLoads(c)

SyncNext ==
    \/ \E c \in Client : ClientNext(c)
    \/ \E s \in unpublished : publishOps(s)
    \/ OrphanArrives \/ OtherWrites \/ ServerCrash

(* Requests are handled and answered, published frames are delivered,      *)
(* sockets reconnect (onclose sets a timer), fetches end, the chain goes   *)
(* on.  Nothing is assumed of users, other writers and faults.             *)
Fairness ==
    /\ \A c \in Client :
          /\ WF_vars(ServerMutate(c)) /\ WF_vars(NextChunk(c)) /\ WF_vars(LastChunk(c))
          /\ WF_vars(call[c].stage = "error" /\ CallFails(c))
          /\ WF_vars(QueryRead(c)) /\ WF_vars(QueryAnswer(c)) /\ WF_vars(RestoreLoads(c))
          /\ WF_vars(RestoreAnswered(c))
          /\ WF_vars(Subscribe(c)) /\ WF_vars(ReadSeq(c)) /\ WF_vars(SendReady(c))
          /\ WF_vars(HandleFrame(c))
    /\ WF_vars(\E s \in unpublished : publishOps(s))

SyncSpec == SyncInit /\ [][SyncNext]_vars
FairSyncSpec == SyncSpec /\ Fairness
-----------------------------------------------------------------------------
Phases == {"idle", "call", "reload", "repair", "settle"}
Entry == [edit : 0..MaxEdits, ops : Batch]
Task == [phase : Phases, kind : {"none", "edit", "undo", "redo"}, edit : 0..MaxEdits,
         ops : Batch \cup {NoOps}, todo : Seq(Batch), lastSeq : Nat,
         interleaved : BOOLEAN, left : BOOLEAN]
Spending == {"edits", "others", "refetches", "faults", "switches", "restores"}
Store == [model : Model, seq : Nat, here : BOOLEAN, undo : Seq(Entry), redo : Seq(Entry)]
Received == [type : {"ops", "ready"}, seq : Nat, ops : Batch \cup {NoOps}]

SyncTypeOK ==
    /\ LogTypeOK
    /\ store \in [Client -> Store]
    /\ chain \in [Client -> Task]
    /\ call \in [Client -> [stage : {"none", "sent", "committed", "error"}, seq : Nat]]
    /\ query \in [Client -> [stage : {"idle", "asked", "read"}, seq : Nat]]
    /\ cached \in [Client -> Nat]
    /\ sock \in [Client -> [stage : {"closed", "subscribed", "read", "open"}, seq : Nat]]
    /\ inbox \in [Client -> Seq(Received)]
    /\ dialog \in [Client -> [stage : {"none", "committed", "fetch"}, seq : Nat]]
    /\ orphans \subseteq [by : Client, edit : 0..MaxEdits, ops : Batch]
    /\ spent \in [Spending -> Nat] /\ spent.edits <= MaxEdits
    /\ alarmed \in [Client -> {"none", "stale", "unsaved"}] /\ overwritten \in [Client -> BOOLEAN]

InSync(c) == store[c].model = ModelAt(store[c].seq)
Resting(c) == chain[c].phase = "idle" /\ store[c].here /\ alarmed[c] # "unsaved"

(* Between two chain tasks the model on the screen is exactly the server's *)
(* version that store.seq names, whatever was edited, refused, lost or     *)
(* interleaved: every later frame is judged by that number and applied to  *)
(* that model.  Known exception: setLoaded ran while an edit was in flight *)
(* (overwritten).                                                          *)
ModelAtSeq == \A c \in Client : Resting(c) /\ ~ overwritten[c] => InSync(c)

(* As long as nobody else has written, nothing has failed and nothing but  *)
(* the editor's own reloads has fetched the model, undo can be pressed     *)
(* until the stack is empty and redo until the redo stack is, and every    *)
(* step applies.  A fetch TanStack starts on its own is excluded because a *)
(* reload may join it and take an answer read before the last edit: the    *)
(* next edit counts as interleaved, and if it settles on a second such     *)
(* answer, it is on the undo stack and not in the model.                   *)
Undone(c) ==
    LET st == store[c]
        back[n \in 0..Len(st.undo)] ==
            IF n = 0 THEN st.model
            ELSE IF back[n-1] = Failure THEN Failure
            ELSE Apply(back[n-1], Invert(st.undo[Len(st.undo) + 1 - n].ops))
    IN  back[Len(st.undo)]
Redone(c) ==
    LET st == store[c]
        ahead[n \in 0..Len(st.redo)] ==
            IF n = 0 THEN st.model
            ELSE IF ahead[n-1] = Failure THEN Failure
            ELSE Apply(ahead[n-1], st.redo[Len(st.redo) + 1 - n].ops)
    IN  ahead[Len(st.redo)]
Undisturbed ==
    /\ \E c \in Client : Client = {c}
    /\ \A what \in Spending \ {"edits"} : spent[what] = 0
UndoWalksBack ==
    Undisturbed => \A c \in Client :
        Resting(c) => Undone(c) # Failure /\ Redone(c) # Failure

(* Once the users, the other writers and the faults have stopped, every    *)
(* editor shows the rows of the server, or tells its user to reload: what  *)
(* realtime.md:79 says of `ready`.  Not so if the model was fetched        *)
(* outside the chain, by TanStack's refetch on reconnect or on the page's  *)
(* mount, or after a restore.  Such a fetch may have read an older version *)
(* when the reload for a `ready`, or for a task, joins it                  *)
(* (use-realtime.ts:114).  The editor then stays behind, without an alarm, *)
(* until the next frame.                                                   *)
Converged(c) == /\ chain[c].phase = "idle" /\ InSync(c)
                /\ store[c].seq = currentSeq /\ store[c].model = rows
OnlyTasksFetch == spent.refetches = 0 /\ spent.switches = 0 /\ spent.restores = 0
Converge ==
    <>[](OnlyTasksFetch => \A c \in Client : store[c].here => alarmed[c] # "none" \/ Converged(c))

(* The mutation chain never stays held: no edit, undo or frame waits for   *)
(* ever behind a task.                                                     *)
ChainDrains == \A c \in Client : chain[c].phase # "idle" ~> chain[c].phase = "idle"
=============================================================================
