--------------------------- MODULE ResourceLibrary --------------------------
(***************************************************************************)
(* One shared library, one project that exchanges dictionary entries with  *)
(* it, and the queue of promotion requests.  Handlers serve requests       *)
(* statement by statement: a promotion (asked for, or approved from the    *)
(* queue) runs in the project's transaction and locks the items; an import *)
(* locks the library's row and then the items; an item's update reads and  *)
(* then writes without a lock.  Postgres is READ COMMITTED: a statement    *)
(* that waits for rows sees their new values but not rows inserted since   *)
(* it began.                                                               *)
(***************************************************************************)
EXTENDS LibraryPlans, Sequences

CONSTANTS Handlers, MaxFlows, MaxEdits, MaxRequests,
          StartItems, StartModel, Data, EntityEdits(_), FileEdits(_)
ASSUME LimitsAreNumbers == MaxFlows \in Nat /\ MaxEdits \in Nat /\ MaxRequests \in Nat
ASSUME StartIsFinite ==
    /\ IsFiniteSet(DOMAIN StartItems)
    /\ \A i \in DOMAIN StartItems :
          /\ i \in 1..Cardinality(DOMAIN StartItems)
          /\ StartItems[i].domain \in DOMAIN StartItems \cup {None}
ASSUME NoneIsNoId == None \notin Nat

(* A project's dictionary: finitely many numbered entities of the kinds    *)
(* there are, whose origins are items that have been given out.            *)
KINDS == Range(RESOURCE_KINDS)
FIELDS == {"kind", "name", "data", "domain", "origin"}
Entity(dictionary, e, next) ==
    /\ e \in Nat /\ dictionary[e].kind \in KINDS /\ dictionary[e] = [x \in FIELDS |-> dictionary[e][x]]
    /\ dictionary[e].origin # None => dictionary[e].origin.item \in Nat /\ dictionary[e].origin.item < next
Dictionary(dictionary, next) ==
    IsFiniteSet(DOMAIN dictionary) /\ \A e \in DOMAIN dictionary : Entity(dictionary, e, next)
ASSUME StartIsTyped ==
    /\ Dictionary(StartModel, Cardinality(DOMAIN StartItems) + 1)
    /\ \A i \in DOMAIN StartItems : StartItems[i].kind \in KINDS

VARIABLES
    items,      \* resource_items, committed
    nextItem,   \* the next item id (uuidv7)
    model,      \* the project's dictionary, committed
    requests,   \* promotion_requests, in order of creation
    file,       \* a library file somebody exported, or None
    at,         \* what each handler is doing
    written,    \* every [item, version, payload] that was committed
    landed,     \* request -> entities its approval promoted
    flows, edits

vars == <<items, nextItem, model, requests, file, at, written, landed, flows, edits>>

Idle == [does |-> "nothing"]
Start(h, flow) ==
    /\ at[h] = Idle /\ flows < MaxFlows
    /\ flows' = flows + 1 /\ at' = [at EXCEPT ![h] = flow]
End(h) == at' = [at EXCEPT ![h] = Idle]

Committed(rows) == {[item |-> i, version |-> rows[i].version, payload |-> PayloadOf(rows[i])] : i \in DOMAIN rows}
Row(i, row) == [j \in {i} |-> row]
(* Rows inserted and updated: an update leaves the kind.                   *)
Stored(writes, rows) ==
    Over([i \in DOMAIN writes |->
             IF i \in DOMAIN rows THEN ItemRow(rows[i].kind, PayloadOf(writes[i]), writes[i].version)
             ELSE writes[i]], rows)
NextEntity == Max(DOMAIN model \cup {0}) + 1

(* Locks, as the steps that hold them.                                     *)
Promoting(h) == at[h].does \in {"planning", "writing"}
ProjectLocked == \E h \in Handlers : Promoting(h)
RequestLocked(r) == \E h \in Handlers : Promoting(h) /\ at[h].request = r
RowLocked(i) == \E h \in Handlers : at[h].does = "writing" /\ i \in at[h].rows
RowsLocked(S) == \E i \in S \cap DOMAIN items : RowLocked(i)
LibraryLocked == \E h \in Handlers : at[h].does = "importing"
-----------------------------------------------------------------------------
Init ==
    /\ items = StartItems /\ nextItem = Cardinality(DOMAIN StartItems) + 1
    /\ model = StartModel /\ requests = << >> /\ file = None
    /\ at = [h \in Handlers |-> Idle]
    /\ written = Committed(StartItems) /\ landed = << >>
    /\ flows = 0 /\ edits = 0

(* model.mutate: somebody edits the project's dictionary.                  *)
EditProject ==
    /\ edits < MaxEdits /\ ~ProjectLocked
    /\ edits' = edits + 1
    /\ model' \in EntityEdits(model)
    /\ UNCHANGED <<items, nextItem, requests, file, at, written, landed, flows>>

(* promotion.create: only entities the plan has are kept.                  *)
Ask ==
    /\ Len(requests) < MaxRequests
    /\ \E wanted \in SUBSET DOMAIN model :
          LET valid == wanted \cap DOMAIN planPromote(model, items).entries
          IN  /\ valid # {}
              /\ requests' = Append(requests, [entities |-> valid, status |-> "pending", approved |-> {}])
    /\ landed' = Append(landed, {})
    /\ UNCHANGED <<items, nextItem, model, file, at, written, flows, edits>>

(* promotion.cancel reads the request, then updates it if still pending.   *)
LoadRequest(h) ==
    \E r \in DOMAIN requests :
        /\ requests[r].status = "pending"
        /\ Start(h, [does |-> "cancel", request |-> r])
        /\ UNCHANGED <<items, nextItem, model, requests, file, written, landed, edits>>
Cancelled_AsRead(request) == [request EXCEPT !.status = "cancelled"]
Cancelled(request) == IF request.status = "pending" THEN [request EXCEPT !.status = "cancelled"] ELSE request
Cancel(h) ==
    /\ at[h].does = "cancel" /\ ~RequestLocked(at[h].request)
    /\ requests' = [requests EXCEPT ![at[h].request] = Cancelled(@)]
    /\ End(h)
    /\ UNCHANGED <<items, nextItem, model, file, written, landed, flows, edits>>

(* promotion.resolve with nothing approved.                                *)
Reject ==
    \E r \in DOMAIN requests :
        /\ requests[r].status = "pending" /\ ~RequestLocked(r)
        /\ requests' = [requests EXCEPT ![r].status = "rejected"]
        /\ UNCHANGED <<items, nextItem, model, file, at, written, landed, flows, edits>>
-----------------------------------------------------------------------------
(* The plan on somebody's screen, and what is chosen from it: the promote  *)
(* tab and dict push (request = None), promotion.get before resolve.       *)
ViewPlan(h, request, offered) ==
    \E plan \in {planPromote(model, items).entries} :
        \E chosen \in SUBSET (offered \cap DOMAIN plan) \ {{}} :
            /\ IsFiniteSet(chosen)
            /\ Start(h, [does |-> "promote", request |-> request, expected |-> Restrict(plan, chosen),
                         seen |-> [e \in chosen |-> IF plan[e].target = None THEN None
                                                    ELSE PayloadOf(items[plan[e].target])]])
            /\ UNCHANGED <<items, nextItem, model, requests, file, written, landed, edits>>
ViewOwnPlan(h) == ViewPlan(h, None, DOMAIN model)
ViewRequest(h) ==
    \E r \in DOMAIN requests : requests[r].status = "pending" /\ ViewPlan(h, r, requests[r].entities)

(* runMutation locks the project, its prepare hook locks the request and   *)
(* begins to read the items FOR UPDATE.                                    *)
LockProject(h) ==
    /\ at[h].does = "promote" /\ ~ProjectLocked
    /\ IF at[h].request # None /\ requests[at[h].request].status # "pending"
       THEN End(h)
       ELSE at' = [at EXCEPT ![h] = [does |-> "planning", request |-> @.request, expected |-> @.expected,
                                     seen |-> @.seen, visible |-> DOMAIN items]]
    /\ UNCHANGED <<items, nextItem, model, requests, file, written, landed, flows, edits>>

(* Only entries the plan of now has just as expected are promoted.         *)
AsExpected_AnyVersion(plan, expected) ==
    {e \in DOMAIN plan \cap DOMAIN expected :
        plan[e].status = expected[e].status /\ plan[e].target = expected[e].target}
AsExpected(plan, expected) == {e \in DOMAIN plan \cap DOMAIN expected : plan[e] = expected[e]}

(* The items arrive locked; the rest of runPromoteInTx is computed.        *)
LockItems(h) ==
    /\ at[h].does = "planning" /\ ~RowsLocked(at[h].visible)
    /\ \E rows \in {Restrict(items, at[h].visible \cap DOMAIN items)} :
       \E plan \in {planPromote(model, rows)} :
       \E chosen \in {AsExpected(plan.entries, at[h].expected)} :
       \E result \in {applyPromotePlan(model, plan, chosen, nextItem)} :
           /\ at' = [at EXCEPT ![h] = [does |-> "writing", request |-> @.request, seen |-> Restrict(@.seen, chosen),
                                       rows |-> DOMAIN rows, chosen |-> chosen,
                                       writes |-> result.writes, model |-> result.model]]
           /\ nextItem' = nextItem + Cardinality(New(plan, chosen))
    /\ UNCHANGED <<items, model, requests, file, written, landed, flows, edits>>

(* The writes and the library's updatedAt wait for an import's lock on the *)
(* library; the request is settled in the same transaction.                *)
Settled(request, chosen) == [request EXCEPT !.status = "resolved", !.approved = chosen]
CommitPromote(h) ==
    /\ at[h].does = "writing"
    /\ at[h].chosen # {} => ~LibraryLocked
    /\ items' = Stored(at[h].writes, items)
    /\ written' = written \cup Committed(at[h].writes)
    /\ model' = at[h].model
    /\ IF at[h].request = None THEN UNCHANGED <<requests, landed>>
       ELSE /\ requests' = [requests EXCEPT ![at[h].request] = Settled(@, at[h].chosen)]
            /\ landed' = [landed EXCEPT ![at[h].request] = @ \cup at[h].chosen]
    /\ End(h)
    /\ UNCHANGED <<nextItem, file, flows, edits>>
-----------------------------------------------------------------------------
(* resource.items.update: the row is read, and written later over whatever *)
(* is there.                                                               *)
ReadItem(h) ==
    \E i \in DOMAIN items, d \in Data :
        /\ items[i].data # d
        /\ Start(h, [does |-> "update", item |-> i,
                     row |-> ItemRow(items[i].kind, [PayloadOf(items[i]) EXCEPT !.data = d], items[i].version + 1)])
        /\ UNCHANGED <<items, nextItem, model, requests, file, written, landed, edits>>
WriteItem(h) ==
    /\ at[h].does = "update" /\ ~RowLocked(at[h].item)
    /\ LET rows == IF at[h].item \in DOMAIN items THEN Row(at[h].item, at[h].row) ELSE << >>
       IN  items' = Stored(rows, items) /\ written' = written \cup Committed(rows)
    /\ End(h)
    /\ UNCHANGED <<nextItem, model, requests, file, landed, flows, edits>>

(* resource.items.remove: references to the item stay.                     *)
RemoveItem ==
    /\ edits < MaxEdits
    /\ edits' = edits + 1
    /\ \E i \in DOMAIN items : ~RowLocked(i) /\ items' = Restrict(items, DOMAIN items \ {i})
    /\ UNCHANGED <<nextItem, model, requests, file, at, written, landed, flows>>

(* resource.items.create: the foreign key waits for an import's lock.      *)
CreateItem ==
    /\ edits < MaxEdits /\ ~LibraryLocked
    /\ edits' = edits + 1 /\ nextItem' = nextItem + 1
    /\ \E e \in DOMAIN StartModel :
          LET first(d) == Least(Namesakes(items, StartModel[d]))
              index == [d \in {f \in DOMAIN StartModel : first(f) # {}} |-> CHOOSE i \in first(d) : TRUE]
              row   == ItemRow(StartModel[e].kind, Through(PayloadOf(StartModel[e]), index), 1)
          IN  items' = Stored(Row(nextItem, row), items) /\ written' = written \cup Committed(Row(nextItem, row))
    /\ UNCHANGED <<model, requests, file, at, landed, flows>>
-----------------------------------------------------------------------------
(* The resync tab and dict pull: the items are read, decisions are made on *)
(* the plan, and the result is an edit of the project.                     *)
ViewItems(h) ==
    \E plan \in {planResync(model, items)} :
        \E chosen \in SUBSET DOMAIN plan \ {{}} :
        \E decisions \in [chosen -> {"apply", "keep", "adopt"}] :
            /\ \A i \in chosen :
                  decisions[i] \in {"apply", IF plan[i].status = "added" THEN "adopt" ELSE "keep"}
            /\ Start(h, [does |-> "resync", plan |-> plan, decisions |-> decisions])
            /\ UNCHANGED <<items, nextItem, model, requests, file, written, landed, edits>>
Resync(h) ==
    /\ at[h].does = "resync" /\ ~ProjectLocked
    /\ model' = applyResyncPlan(model, at[h].plan, at[h].decisions, NextEntity)
    /\ End(h)
    /\ UNCHANGED <<items, nextItem, requests, file, written, landed, flows, edits>>
-----------------------------------------------------------------------------
Export ==
    /\ file = None /\ file' = exportLibraryFile(items)
    /\ UNCHANGED <<items, nextItem, model, requests, at, written, landed, flows, edits>>
EditFile ==
    /\ file # None /\ edits < MaxEdits
    /\ edits' = edits + 1
    /\ file' \in FileEdits(file) /\ IsFiniteSet(DOMAIN file'.entries)
    /\ UNCHANGED <<items, nextItem, model, requests, at, written, landed, flows>>

(* The preview's stamp of the library: every item and its version.         *)
libraryStateHash_IdsOnly(rows) == DOMAIN rows
libraryStateHash(rows) == [i \in DOMAIN rows |-> rows[i].version]

Unmatched(rows, doc) == DOMAIN doc.entries \ DOMAIN MatchOf(rows, doc.entries)
PlanOf(rows, doc) == planLibraryImport(rows, doc, MatchOf(rows, doc.entries), nextItem)
PreviewImport(h) ==
    /\ file # None /\ parseLibraryFile(file.entries)
    /\ \E plan \in {PlanOf(items, file)} : \E prune, includeStale \in BOOLEAN :
          Start(h, [does |-> "import", doc |-> file, prune |-> prune, includeStale |-> includeStale,
                    hash |-> libraryStateHash(items),
                    shown |-> summarizeLibraryImport(items, file, plan)])
    /\ UNCHANGED <<items, nextItem, model, requests, file, written, landed, edits>>
LockLibrary(h) ==
    /\ at[h].does = "import" /\ ~LibraryLocked
    /\ at' = [at EXCEPT ![h] = [does |-> "importing", doc |-> @.doc, prune |-> @.prune,
                                includeStale |-> @.includeStale, hash |-> @.hash, shown |-> @.shown,
                                visible |-> DOMAIN items]]
    /\ UNCHANGED <<items, nextItem, model, requests, file, written, landed, flows, edits>>
Import(h) ==
    /\ at[h].does = "importing" /\ ~RowsLocked(at[h].visible)
    /\ \E rows \in {Restrict(items, at[h].visible \cap DOMAIN items)} :
          IF libraryStateHash(rows) # at[h].hash THEN UNCHANGED <<items, written, nextItem>>
          ELSE \E plan \in {PlanOf(rows, at[h].doc)} :
               \E result \in {materializeLibraryImport(rows, plan, Referenced(rows, at[h].doc, plan),
                                                       at[h].prune, at[h].includeStale)} :
                   /\ items' = Stored(result.writes, Restrict(items, DOMAIN items \ result.removes))
                   /\ written' = written \cup Committed(result.writes)
                   /\ nextItem' = nextItem + Cardinality(Unmatched(rows, at[h].doc))
    /\ End(h)
    /\ UNCHANGED <<model, requests, file, landed, flows, edits>>

(* An import that waits for rows of a promotion that waits for the         *)
(* library: Postgres fails one of the two (40P01).                         *)
Deadlock(h, g) ==
    /\ at[h].does = "writing" /\ at[h].chosen # {}
    /\ at[g].does = "importing" /\ at[h].rows \cap at[g].visible \cap DOMAIN items # {}
BreakDeadlock(h) ==
    /\ \E g \in Handlers : Deadlock(h, g) \/ Deadlock(g, h)
    /\ End(h)
    /\ UNCHANGED <<items, nextItem, model, requests, file, written, landed, flows, edits>>

Works(h) ==
    \/ Cancel(h) \/ LockProject(h) \/ LockItems(h) \/ CommitPromote(h)
    \/ WriteItem(h) \/ Resync(h) \/ LockLibrary(h) \/ Import(h) \/ BreakDeadlock(h)
Begins(h) ==
    LoadRequest(h) \/ ViewOwnPlan(h) \/ ViewRequest(h) \/ ReadItem(h) \/ ViewItems(h) \/ PreviewImport(h)
(* Every flow has come to its end; elsewhere TLC reports a deadlock.       *)
Rest == (\A h \in Handlers : at[h] = Idle) /\ UNCHANGED vars
Next ==
    \/ EditProject \/ Ask \/ Reject \/ RemoveItem \/ CreateItem \/ Export \/ EditFile
    \/ \E h \in Handlers : Begins(h) \/ Works(h)
    \/ Rest

Spec == Init /\ [][Next]_vars
-----------------------------------------------------------------------------

(* The queue tells the truth: a request is resolved with exactly the       *)
(* entities its approval promoted, and a cancelled, rejected or pending    *)
(* one promoted nothing, however cancel, reject and two approvals          *)
(* interleave (promotion.ts:158-160, 273-275).                             *)
RequestTellsWhatLanded ==
    \A r \in DOMAIN requests :
        landed[r] = IF requests[r].status = "resolved" THEN requests[r].approved ELSE {}

(* A plan that was carried out is finished: what a promotion wrote neither *)
(* it nor a resync offers again, and a resync with every entry applied, or *)
(* every entry reviewed, leaves no entry but items it could not adopt.     *)
(* Items two entities came from are apart: promote takes the first of them *)
(* and resync the last.                                                    *)
Leaves(left, answer) == \A i \in DOMAIN left : left[i].status = "added" /\ answer[i] = "adopt"
Answered(plan, answer) == planResync(applyResyncPlan(model, plan, answer, NextEntity), items)
ResyncSettles(plan, review) ==
    /\ Answered(plan, [i \in DOMAIN plan |-> "apply"]) = << >>
    /\ Leaves(Answered(plan, review), review)
PromoteSettles(result, rows, chosen) ==
    /\ DOMAIN planPromote(result.model, rows).entries \cap chosen = {}
    /\ \A i \in DOMAIN planResync(result.model, rows) \cap DOMAIN result.writes :
          Cardinality(Linkers(result.model, i)) > 1
Quiet == \A h \in Handlers : at[h] = Idle
PlansSettle == Quiet =>
    /\ \A plan \in {planResync(model, items)} :
          ResyncSettles(plan, [i \in DOMAIN plan |-> IF plan[i].status = "added" THEN "adopt" ELSE "keep"])
    /\ \A plan \in {planPromote(model, items)} : \A chosen \in SUBSET DOMAIN plan.entries :
       \A result \in {applyPromotePlan(model, plan, chosen, nextItem)} :
          PromoteSettles(result, Over(result.writes, items), chosen)

(* A version that items.update wrote over another writer's of the same     *)
(* number.                                                                 *)
Raced(i, version) ==
    \E w, x \in written : w.item = i /\ x.item = i /\ w.version = version /\ x.version = version
                          /\ w.payload # x.payload

Promotes(h) == at[h].does = "writing" /\ at'[h] = Idle /\ model' = at[h].model /\ items' # items
Imports(h) == at[h].does = "importing" /\ at'[h] = Idle /\ items' # items

(* A promotion replaces a row of the library only if whoever chose it saw  *)
(* that very value on the screen ("look, then overwrite", and              *)
(* promote.ts:89-90); a version that two writers share is set apart.       *)
PromoteReplacesWhatWasSeen ==
    [][\A h \in Handlers : Promotes(h) =>
          \A i \in DOMAIN at[h].writes \cap DOMAIN items :
              Raced(i, items[i].version) \/ PayloadOf(items[i]) \in Range(at[h].seen)]_vars

(* An import changes the library exactly as its preview showed, or not at  *)
(* all (library-import.ts:41-44, 133-138).                                 *)
ImportAppliesPreview ==
    [][\A h \in Handlers : Imports(h) =>
          \/ summarizeLibraryImport(items, at[h].doc, PlanOf(items, at[h].doc)) = at[h].shown
          \/ \E i \in DOMAIN items : Raced(i, items[i].version)]_vars
=============================================================================
