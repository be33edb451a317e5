------------------------------ MODULE CliSync -------------------------------
(***************************************************************************)
(* erdd pull and erdd push (packages/cli/src/commands): one working tree,  *)
(* the server it is connected to, and the people who edit either one while *)
(* a command runs.                                                         *)
(*                                                                         *)
(* push reads the files and the base - the files as the last sync left     *)
(* them -, asks for the server's model, merges the three, writes the ids   *)
(* it gave to new entities into the files, and sends the difference with   *)
(* the revision it was computed on.  The server refuses it if the project  *)
(* has moved on, and push computes once more.  Both commands end by        *)
(* writing the server's model over the files, then over the base.          *)
(*                                                                         *)
(* A command can be cut short anywhere.  A request whose answer nobody     *)
(* waits for any more is still on the wire: the server may take it later,  *)
(* or never.                                                               *)
(***************************************************************************)
EXTENDS FileMerge

CONSTANTS
    Start,              \* the model the tree was last synchronised with
    Edits(_),           \* what one edit of a person makes of a model
    NewTable,           \* a table written into the files without an id
    Unnamed,            \* what stands for the id it does not have
    NewIds,             \* the ids uuidv7 gives out, a sequence
    MaxTheirs,          \* bounds: edits on the server,
    MaxMine, MaxNew,    \*   edits of the files, tables written without an id,
    MaxEdits,           \*   all of them together,
    MaxRuns, MaxCuts    \*   commands started, commands cut short
ASSUME EntitiesHaveFields ==
    /\ FromSchemas(Start) /\ validateModelIntegrity(Start)
    /\ IsFunction(NewTable) /\ DOMAIN NewTable = EntityFields["table"]
ASSUME IdsAreIds == NewIds \in Seq(Range(NewIds)) /\ Unnamed \notin Range(NewIds)

VARIABLES
    log,     \* every model the project has had; its revision is Len(log)
    files,   \* what the files hold, keyed like a model
    base,    \* .erdd/base.json
    cli,     \* the running command
    wire,    \* the pushes the server has not taken
    issued,  \* how many ids the command line has given out
    spent,   \* the bounds used up
    mine,    \* ghost: the keys a person has changed in the files
    cut      \* ghost: the keys a sync has written that the base does not have yet

vars == <<log, files, base, cli, wire, issued, spent, mine, cut>>

seq == Len(log)
server == log[seq]
Idle == [at |-> "idle"]

NewKey(n) == <<"table", NewIds[n]>>
NoId == <<"table", Unnamed>>

Init ==
    /\ log = <<Start>>
    /\ files = fileVisibleModel(Start)
    /\ base = files
    /\ cli = Idle
    /\ wire = {} /\ issued = 0
    /\ spent = [theirs |-> 0, mine |-> 0, new |-> 0, runs |-> 0, cuts |-> 0]
    /\ mine = {} /\ cut = {}

Spend(what, max) ==
    /\ spent[what] < max
    /\ spent' = [spent EXCEPT ![what] = @ + 1]
SpendEdit(what, max) == spent.theirs + spent.mine + spent.new < MaxEdits /\ Spend(what, max)

ChangedKeys(m, n) ==
    {k \in DOMAIN m \cup DOMAIN n : k \notin DOMAIN m \cap DOMAIN n \/ m[k] # n[k]}

(* Another client's accepted mutation.                                      *)
TheirEdit ==
    /\ SpendEdit("theirs", MaxTheirs)
    /\ \E m \in Edits(server) : FromSchemas(m) /\ validateModelIntegrity(m) /\ log' = Append(log, m)
    /\ UNCHANGED <<files, base, cli, wire, issued, mine, cut>>

(* A person, or an agent, edits the files: also while a command runs.      *)
FilesBecome(model) ==
    /\ model # files
    /\ files' = model
    /\ mine' = mine \cup ChangedKeys(files, model)
    /\ cut' = cut \ ChangedKeys(files, model)
    /\ UNCHANGED <<log, base, cli, wire, issued>>
MyEdit ==
    \/ SpendEdit("mine", MaxMine) /\ \E m \in Edits(files) : FromSchemas(m) /\ FilesBecome(fileVisibleModel(m))
    \/ SpendEdit("new", MaxNew) /\ FilesBecome(With(files, NoId, NewTable))
-----------------------------------------------------------------------------
(* One file holds a table with what belongs to it, or all of one kind.     *)
FileOf(k, entity) ==
    IF k[1] = "table" THEN k[2]
    ELSE IF "tableId" \in DOMAIN entity THEN entity.tableId
    ELSE IF "childTableId" \in DOMAIN entity THEN entity.childTableId ELSE k[1]
KeysIn(model, file) == {k \in DOMAIN model : FileOf(k, model[k]) = file}
FilesOf(model) == {FileOf(k, model[k]) : k \in DOMAIN model}

(* The files after one of them is written, or deleted, as tree has it.     *)
FileWritten(tree, file) ==
    LET other == DOMAIN files \ KeysIn(files, file)
    IN  [k \in other \cup KeysIn(tree, file) |->
            IF k \in KeysIn(tree, file) THEN tree[k] ELSE files[k]]

(* filesToModel with newId: the entity without an id gets a fresh one.     *)
NamedKey(k) == IF k = NoId THEN NewKey(issued + 1) ELSE k
Named(model) ==
    IF NoId \in DOMAIN model THEN With(Without(model, NoId), NewKey(issued + 1), model[NoId]) ELSE model

(* buildPlan, first half: the base and the files are read, ids are given.  *)
(* Files with a broken reference, and no files at all, are refused.        *)
ReadTree(retried) ==
    /\ validateModelIntegrity(files)
    /\ DOMAIN files # {} \/ DOMAIN base = {}
    /\ issued < Len(NewIds)
    /\ cli' = [at |-> "read", retried |-> retried, base |-> base,
               assigned |-> NoId \in DOMAIN files, local |-> Named(files),
               mine |-> {NamedKey(k) : k \in mine}, cut |-> cut]
    /\ issued' = IF NoId \in DOMAIN files THEN issued + 1 ELSE issued

Push ==
    /\ cli = Idle
    /\ Spend("runs", MaxRuns)
    /\ ReadTree(FALSE)
    /\ UNCHANGED <<log, files, base, wire, mine, cut>>

(* buildPlan, second half: model.get and the merge.  A conflict, or nothing *)
(* to send, ends the command.                                              *)
Planned(base0, local) ==
    LET plan == mergeModels(base0, local, fileVisibleModel(server))
    IN  IF plan.conflicts # {} THEN << >>
        ELSE diffModels(server, applyMerge(server, plan.merged))

Plan ==
    /\ cli.at = "read"
    /\ LET ops == Planned(cli.base, cli.local)
       IN  cli' = IF ops = << >> THEN Idle
                  ELSE [at |-> "planned", retried |-> cli.retried, assigned |-> cli.assigned,
                        request |-> [seq |-> seq, ops |-> ops, base |-> cli.base,
                                     local |-> cli.local, mine |-> cli.mine, cut |-> cli.cut]]
    /\ UNCHANGED <<log, files, base, wire, issued, spent, mine, cut>>

(* reserveIds: the file the new entity was read from is written again,     *)
(* with its id, whatever it holds by now.                                  *)
(* A mutated form: the ids are only in the request.                        *)
ReservedFiles_NotWritten == files
ReservedFiles ==
    LET key == NewKey(issued)
    IN  With(Without(files, NoId), key, cli.request.local[key])

reserveIds ==
    /\ cli.at = "planned"
    /\ cli' = [at |-> "reserved", retried |-> cli.retried, request |-> cli.request]
    /\ IF cli.assigned
       THEN files' = ReservedFiles /\ mine' = (mine \ {NoId}) \cup {NewKey(issued)}
       ELSE UNCHANGED <<files, mine>>
    /\ UNCHANGED <<log, base, wire, issued, spent, cut>>

Send ==
    /\ cli.at = "reserved"
    /\ wire' = wire \cup {cli.request}
    /\ cli' = [cli EXCEPT !.at = "sent"]
    /\ UNCHANGED <<log, files, base, issued, spent, mine, cut>>

(* model.push: under the project's lock the revision is compared, the ops  *)
(* are applied and logged (ProjectServer has the whole transaction).       *)
(* A mutated form: the revision is not compared.                           *)
Accepts_AnySeq(request) == applyOps(server, request.ops) # OpApplyError
Accepts(request) == request.seq = seq /\ applyOps(server, request.ops) # OpApplyError

Waits(request) == cli.at = "sent" /\ cli.request = request
Answered(request, answer) ==
    IF Waits(request)
    THEN cli' = [at |-> answer, retried |-> cli.retried]
    ELSE UNCHANGED cli

Take(request) ==
    /\ wire' = wire \ {request}
    /\ IF Accepts(request)
       THEN log' = Append(log, applyOps(server, request.ops)) /\ Answered(request, "committed")
       ELSE UNCHANGED log /\ Answered(request, "conflict")
    /\ UNCHANGED <<files, base, issued, spent, mine, cut>>
modelPush == \E request \in wire : Take(request)

(* CONFLICT: computed again, once.                                         *)
Retry ==
    /\ cli.at = "conflict"
    /\ IF cli.retried THEN cli' = Idle /\ UNCHANGED issued ELSE ReadTree(TRUE)
    /\ UNCHANGED <<log, files, base, wire, spent, mine, cut>>

(* Cut short: the process dies, the person says no, a request of its own   *)
(* fails.  What is on the wire stays there.                                *)
CutShort ==
    /\ cli # Idle
    /\ Spend("cuts", MaxCuts)
    /\ cli' = Idle
    /\ UNCHANGED <<log, files, base, wire, issued, mine, cut>>
-----------------------------------------------------------------------------
(* pull; whoever has changed the files has agreed to lose that.            *)
Pull ==
    /\ cli = Idle
    /\ Spend("runs", MaxRuns)
    /\ cli' = [at |-> "committed", retried |-> FALSE]
    /\ UNCHANGED <<log, files, base, wire, issued, mine, cut>>

(* syncDown: model.get, every file, the base.  writeTree deletes the files *)
(* the model does not have before it writes the others.                    *)
GetModel ==
    /\ cli.at = "committed"
    /\ LET tree == fileVisibleModel(server)
       IN  cli' = [at |-> "writing", tree |-> tree,
                   gone |-> FilesOf(files) \ FilesOf(tree), left |-> FilesOf(tree),
                   baseToo |-> FALSE]
    /\ UNCHANGED <<log, files, base, wire, issued, spent, mine, cut>>

NextFiles == IF cli.gone # {} THEN cli.gone ELSE cli.left

WriteFile ==
    /\ cli.at = "writing"
    /\ LET file    == CHOOSE f \in NextFiles : TRUE
           written == KeysIn(files, file) \cup KeysIn(cli.tree, file)
       IN  /\ NextFiles # {}
           /\ files' = FileWritten(cli.tree, file)
           /\ mine' = mine \ written
           /\ cut' = cut \cup written
           /\ cli' = [cli EXCEPT !.gone = @ \ {file}, !.left = @ \ {file}]
    /\ UNCHANGED <<log, base, wire, issued, spent>>

TreeFirst(left) == left = {}

(* The base may never be newer than the files.                             *)
writeBase ==
    /\ cli.at = "writing"
    /\ TreeFirst(NextFiles) /\ ~ cli.baseToo
    /\ base' = cli.tree
    /\ cut' = {}
    /\ cli' = [cli EXCEPT !.baseToo = TRUE]
    /\ UNCHANGED <<log, files, wire, issued, spent, mine>>

SyncEnds ==
    /\ cli.at = "writing" /\ NextFiles = {} /\ cli.baseToo
    /\ cli' = Idle
    /\ UNCHANGED <<log, files, base, wire, issued, spent, mine, cut>>

Next ==
    \/ TheirEdit \/ MyEdit
    \/ Push \/ Plan \/ reserveIds \/ Send \/ modelPush \/ Retry \/ CutShort
    \/ Pull \/ GetModel \/ WriteFile \/ writeBase \/ SyncEnds

Spec == Init /\ [][Next]_vars
-----------------------------------------------------------------------------
(* What the three sides of a push are merged to, and what the server is to *)
(* become.                                                                 *)
MergedOf(request, old) == mergeModels(request.base, request.local, fileVisibleModel(old)).merged
Target(request, old) == applyMerge(old, MergedOf(request, old))

(* A push that is still current is never refused for what it does: its ops *)
(* lead to the merge, pruned, which is integral, and the row statements    *)
(* reach it too (file-merge.ts:556-561).                                   *)
PlansAreAccepted ==
    \A request \in wire : request.seq = seq =>
        LET result == applyOps(server, request.ops)
        IN  /\ result # OpApplyError /\ result = Target(request, server)
            /\ persistOps(server, request.ops) = result

(* What was written without an id is on the server at most once,           *)
(* whatever answers were lost and however often push was run again.        *)
NoCopies ==
    Cardinality({k \in KeysOf(server, "table") : server[k].data = NewTable.data}) <= spent.new

(* What an entity needs to be kept, and what a reference needs.            *)
Stands(k, entity, model) ==
    /\ k[1] = "column" => Has(model, "table", entity.tableId)
    /\ k[1] = "index" => IndexHolds(model, entity)
    /\ k[1] = "relationship" => RelationshipHolds(model, entity)
Pruned(k, merged, new) == k \in DOMAIN merged /\ ~ Stands(k, merged[k], new)
Cleared(f, entity, new) ==
    f \in DOMAIN LooseReferences /\ ~ HasOrNone(new, LooseReferences[f], entity[f])

(* A push replaces only what its author had seen: a field it writes held   *)
(* the base's value until then, and what it deletes nobody had changed     *)
(* since the base.  Apart from what cannot stand any more: a part whose    *)
(* table or column is gone, a reference to a group or domain that is gone. *)
KeepsTheirs(request, old, new) ==
    \A k \in DOMAIN old :
        \/ Pruned(k, MergedOf(request, old), new)
        \/ /\ k \in DOMAIN new
           /\ \A f \in FILE_FIELDS(old[k]) : old[k][f] # new[k][f] =>
                 \/ k \in DOMAIN request.base /\ old[k][f] = request.base[k][f]
                 \/ Cleared(f, old[k], new)
        \/ /\ k \in DOMAIN request.base \ DOMAIN new
           /\ Same(old[k], request.base[k], deleteJudgeFields(old[k]))

NeverOverwrites ==
    [][\A request \in wire :
          request \notin wire' /\ log' # log => KeepsTheirs(request, server, server')]_vars

(* Everything the author changed is there afterwards: a conflict is never  *)
(* resolved silently.  What cannot stand any more is pruned, and a change  *)
(* of an origin alone yields to a deletion.                                *)
BringsMine(request, old, new) ==
    /\ \A k \in DOMAIN request.local : \A f \in FILE_FIELDS(request.local[k]) \ {"origin"} :
          \/ k \in DOMAIN request.base /\ request.base[k][f] = request.local[k][f]
          \/ k \in DOMAIN new /\ new[k][f] = request.local[k][f]
          \/ Pruned(k, MergedOf(request, old), new)
          \/ Cleared(f, request.local[k], new)
    /\ (DOMAIN request.base \ DOMAIN request.local) \cap DOMAIN new = {}

OwnEditsArrive ==
    [][\A request \in wire :
          request \notin wire' /\ log' # log => BringsMine(request, server, server')]_vars
=============================================================================
