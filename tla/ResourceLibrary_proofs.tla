----------------------- MODULE ResourceLibrary_proofs -----------------------
(***************************************************************************)
(* Proofs about ResourceLibrary, for any number of handlers, any library,  *)
(* project and file: the promotion queue tells what landed, a promotion    *)
(* replaces only what was seen on the screen, an import does what its      *)
(* preview showed, and a plan that was carried out is finished.            *)
(***************************************************************************)
EXTENDS ResourceLibrary, SequenceTheorems, FiniteSetTheorems, WellFoundedInduction, TLAPS

(* The queue.  Who approves a request holds the project's lock, and the    *)
(* request is still pending then.                                          *)
Statuses == {"pending", "cancelled", "rejected", "resolved"}
Request(S) == [entities : SUBSET S, status : Statuses, approved : SUBSET S]
QueueOf(S) == requests \in Seq(Request(S)) /\ landed \in Seq(SUBSET S) /\ Len(landed) = Len(requests)

Speaks(h) ==
    /\ at[h].does = "cancel" => at[h].request \in DOMAIN requests
    /\ at[h].does \in {"promote", "planning", "writing"} => at[h].request \in DOMAIN requests \cup {None}
    /\ Promoting(h) /\ at[h].request # None => requests[at[h].request].status = "pending"

QueueInv ==
    /\ at = [h \in Handlers |-> at[h]]
    /\ \E S : QueueOf(S)
    /\ \A h \in Handlers : Speaks(h)
    /\ \A h, g \in Handlers : Promoting(h) /\ Promoting(g) => h = g
    /\ RequestTellsWhatLanded
-----------------------------------------------------------------------------
LEMMA Turn ==
  ASSUME QueueInv, NEW h \in Handlers, NEW flow, at' = [at EXCEPT ![h] = flow]
  PROVE  /\ at' = [g \in Handlers |-> at'[g]]
         /\ at'[h] = flow /\ \A g \in Handlers \ {h} : at'[g] = at[g]
  BY DEF QueueInv

(* Steps that leave the queue alone.                                       *)
LEMMA OthersSpeak ==
  ASSUME QueueInv, UNCHANGED <<requests, landed>>, NEW g \in Handlers, at'[g] = at[g]
  PROVE  Speaks(g)'
  BY DEF QueueInv, Speaks, Promoting

LEMMA FlowKeepsQueue ==
  ASSUME QueueInv, UNCHANGED <<requests, landed>>,
         NEW h \in Handlers, NEW flow, at' = [at EXCEPT ![h] = flow],
         flow.does = "cancel" => flow.request \in DOMAIN requests,
         flow.does \in {"promote", "planning", "writing"} => flow.request \in DOMAIN requests \cup {None},
         flow.does \in {"planning", "writing"} =>
            \/ Promoting(h) /\ flow.request = at[h].request
            \/ ~ ProjectLocked /\ (flow.request # None => requests[flow.request].status = "pending")
  PROVE  QueueInv'
<1>1. /\ at' = [g \in Handlers |-> at'[g]]
      /\ at'[h] = flow /\ \A g \in Handlers \ {h} : at'[g] = at[g]
  BY Turn
<1>2. \E S : QueueOf(S)'
  BY DEF QueueInv, QueueOf
<1>3. Speaks(h)'
  BY <1>1 DEF QueueInv, Speaks, Promoting
<1>4. \A g \in Handlers : Speaks(g)'
  BY <1>1, <1>3, OthersSpeak
<1>5. ASSUME NEW f \in Handlers, NEW g \in Handlers, Promoting(f)', Promoting(g)'
      PROVE  f = g
  <2>1. (Promoting(f) \/ f = h) /\ (Promoting(g) \/ g = h)
    BY <1>1, <1>5 DEF Promoting
  <2>2. f = h \/ g = h => Promoting(h) \/ ~ ProjectLocked
    BY <1>1, <1>5 DEF Promoting
  <2> QED BY <2>1, <2>2 DEF QueueInv, ProjectLocked
<1>6. RequestTellsWhatLanded'
  BY DEF QueueInv, RequestTellsWhatLanded
<1> QED BY <1>1, <1>2, <1>4, <1>5, <1>6 DEF QueueInv

LEMMA RestKeepsQueue ==
  ASSUME QueueInv, UNCHANGED <<at, requests, landed>> PROVE QueueInv'
<1>1. \A g \in Handlers : Speaks(g)'
  BY OthersSpeak
<1>2. \E S : QueueOf(S)'
  BY DEF QueueInv, QueueOf
<1> QED BY <1>1, <1>2 DEF QueueInv, Promoting, RequestTellsWhatLanded

LEMMA EndKeepsQueue ==
  ASSUME QueueInv, UNCHANGED <<requests, landed>>, NEW h \in Handlers, End(h)
  PROVE  QueueInv'
<1>1. Idle.does = "nothing" /\ at' = [at EXCEPT ![h] = Idle]
  BY DEF End, Idle
<1> QED BY <1>1, FlowKeepsQueue

LEMMA BeginsKeepsQueue ==
  ASSUME QueueInv, NEW h \in Handlers, Begins(h) PROVE QueueInv'
<1> DEFINE FlowBegins ==
       \E flow : /\ at' = [at EXCEPT ![h] = flow]
                 /\ flow.does \in {"cancel", "promote", "update", "resync", "import"}
                 /\ flow.does = "cancel" => flow.request \in DOMAIN requests
                 /\ flow.does = "promote" => flow.request \in DOMAIN requests \cup {None}
<1>1. UNCHANGED <<requests, landed>>
  BY DEF Begins, LoadRequest, ViewOwnPlan, ViewRequest, ViewPlan, ReadItem, ViewItems, PreviewImport
<1>2. FlowBegins
  <2>1. CASE LoadRequest(h)
    <3>1. PICK r \in DOMAIN requests : at' = [at EXCEPT ![h] = [does |-> "cancel", request |-> r]]
      BY <2>1 DEF LoadRequest, Start
    <3> WITNESS [does |-> "cancel", request |-> r]
    <3> QED BY <3>1
  <2>2. ASSUME NEW request \in DOMAIN requests \cup {None}, NEW offered, ViewPlan(h, request, offered)
        PROVE  FlowBegins
    <3>1. PICK expected, seen :
             at' = [at EXCEPT ![h] = [does |-> "promote", request |-> request,
                                      expected |-> expected, seen |-> seen]]
      BY <2>2 DEF ViewPlan, Start
    <3> WITNESS [does |-> "promote", request |-> request, expected |-> expected, seen |-> seen]
    <3> QED BY <3>1
  <2> HIDE DEF FlowBegins
  <2>3. CASE ViewOwnPlan(h) \/ ViewRequest(h)
    BY <2>2, <2>3 DEF ViewOwnPlan, ViewRequest
  <2> USE DEF FlowBegins
  <2>4. CASE ReadItem(h)
    <3>1. PICK i, row : at' = [at EXCEPT ![h] = [does |-> "update", item |-> i, row |-> row]]
      BY <2>4 DEF ReadItem, Start
    <3> WITNESS [does |-> "update", item |-> i, row |-> row]
    <3> QED BY <3>1
  <2>5. CASE ViewItems(h)
    <3>1. PICK plan, decisions :
             at' = [at EXCEPT ![h] = [does |-> "resync", plan |-> plan, decisions |-> decisions]]
      BY <2>5 DEF ViewItems, Start
    <3> WITNESS [does |-> "resync", plan |-> plan, decisions |-> decisions]
    <3> QED BY <3>1
  <2>6. CASE PreviewImport(h)
    <3>1. PICK doc, prune, includeStale, hash, shown :
             at' = [at EXCEPT ![h] = [does |-> "import", doc |-> doc, prune |-> prune,
                                      includeStale |-> includeStale, hash |-> hash, shown |-> shown]]
      BY <2>6 DEF PreviewImport, Start
    <3> WITNESS [does |-> "import", doc |-> doc, prune |-> prune,
                 includeStale |-> includeStale, hash |-> hash, shown |-> shown]
    <3> QED BY <3>1
  <2> QED BY <2>1, <2>3, <2>4, <2>5, <2>6 DEF Begins
<1> QED BY <1>1, <1>2, FlowKeepsQueue

LEMMA LockProjectKeepsQueue ==
  ASSUME QueueInv, NEW h \in Handlers, LockProject(h) PROVE QueueInv'
<1>1. /\ at[h].does = "promote" /\ ~ ProjectLocked /\ UNCHANGED <<requests, landed>>
      /\ IF at[h].request # None /\ requests[at[h].request].status # "pending"
         THEN End(h)
         ELSE at' = [at EXCEPT ![h] = [does |-> "planning", request |-> at[h].request,
                                       expected |-> at[h].expected, seen |-> at[h].seen,
                                       visible |-> DOMAIN items]]
  BY DEF LockProject, QueueInv
<1>2. CASE at[h].request # None /\ requests[at[h].request].status # "pending"
  BY <1>1, <1>2, EndKeepsQueue
<1>3. CASE ~ (at[h].request # None /\ requests[at[h].request].status # "pending")
  <2>1. PICK flow : /\ at' = [at EXCEPT ![h] = flow]
                    /\ flow.does = "planning" /\ flow.request = at[h].request
    BY <1>1, <1>3
  <2>2. at[h].request \in DOMAIN requests \cup {None}
    BY <1>1 DEF QueueInv, Speaks
  <2> QED BY <1>1, <1>3, <2>1, <2>2, FlowKeepsQueue
<1> QED BY <1>2, <1>3

LEMMA LockItemsKeepsQueue ==
  ASSUME QueueInv, NEW h \in Handlers, LockItems(h) PROVE QueueInv'
<1>1. at[h].does = "planning" /\ UNCHANGED <<requests, landed>>
  BY DEF LockItems
<1>2. PICK flow : /\ at' = [at EXCEPT ![h] = flow]
                  /\ flow.does = "writing" /\ flow.request = at[h].request
  BY DEF LockItems, QueueInv
<1>3. at[h].request \in DOMAIN requests \cup {None} /\ Promoting(h)
  BY <1>1 DEF QueueInv, Speaks, Promoting
<1> QED BY <1>1, <1>2, <1>3, FlowKeepsQueue

LEMMA LockLibraryKeepsQueue ==
  ASSUME QueueInv, NEW h \in Handlers, LockLibrary(h) PROVE QueueInv'
<1>1. UNCHANGED <<requests, landed>>
  BY DEF LockLibrary
<1>2. PICK flow : at' = [at EXCEPT ![h] = flow] /\ flow.does = "importing"
  <2> DEFINE locks == [does |-> "importing", doc |-> at[h].doc, prune |-> at[h].prune,
                       includeStale |-> at[h].includeStale, hash |-> at[h].hash,
                       shown |-> at[h].shown, visible |-> DOMAIN items]
  <2>1. at' = [at EXCEPT ![h] = locks]
    BY DEF LockLibrary
  <2>2. locks.does = "importing"
    OBVIOUS
  <2> QED BY <2>1, <2>2
<1> QED BY <1>1, <1>2, FlowKeepsQueue

(* Steps on the queue.                                                     *)
LEMMA Grown ==
  ASSUME NEW S, NEW D, QueueOf(S)
  PROVE  QueueOf(S \cup D)
<1>1. Request(S) \subseteq Request(S \cup D) /\ SUBSET S \subseteq SUBSET (S \cup D)
  BY DEF Request
<1>2. ASSUME NEW A, NEW B, A \subseteq B, NEW s \in Seq(A) PROVE s \in Seq(B)
  BY <1>2
<1>3. requests \in Seq(Request(S \cup D)) /\ landed \in Seq(SUBSET (S \cup D))
  BY <1>1, <1>2 DEF QueueOf
<1> QED BY <1>3 DEF QueueOf

LEMMA AskKeepsQueue == ASSUME QueueInv, Ask PROVE QueueInv'
<1>1. PICK valid : /\ requests' = Append(requests, [entities |-> valid, status |-> "pending", approved |-> {}])
                   /\ landed' = Append(landed, {}) /\ at' = at
  BY DEF Ask
<1>2. PICK S : QueueOf(S)
  BY DEF QueueInv
<1>3. PICK T : QueueOf(T) /\ valid \in SUBSET T
  <2> WITNESS S \cup valid
  <2> QED BY <1>2, Grown
<1>4. PICK r \in Request(T) : r = [entities |-> valid, status |-> "pending", approved |-> {}]
  BY <1>3 DEF Request, Statuses
<1>5. /\ requests' \in Seq(Request(T)) /\ landed' \in Seq(SUBSET T)
      /\ Len(requests') = Len(requests) + 1 /\ Len(landed') = Len(requests')
      /\ requests'[Len(requests) + 1] = r /\ landed'[Len(requests) + 1] = {}
      /\ \A q \in 1..Len(requests) : requests'[q] = requests[q] /\ landed'[q] = landed[q]
      /\ DOMAIN requests = 1..Len(requests) /\ DOMAIN requests' = 1..Len(requests) + 1
      /\ Len(requests) \in Nat
  BY <1>1, <1>3, <1>4 DEF QueueOf
<1>6. \E U : QueueOf(U)'
  BY <1>5 DEF QueueOf
<1>7. \A h \in Handlers : Speaks(h)'
  BY <1>1, <1>5 DEF QueueInv, Speaks, Promoting
<1>8. RequestTellsWhatLanded'
  <2> SUFFICES ASSUME NEW q \in DOMAIN requests'
               PROVE  landed'[q] = IF requests'[q].status = "resolved" THEN requests'[q].approved ELSE {}
    BY DEF RequestTellsWhatLanded
  <2>1. CASE q \in DOMAIN requests
    BY <1>5, <2>1 DEF QueueInv, RequestTellsWhatLanded
  <2>2. CASE q = Len(requests) + 1
    <3>1. r.status = "pending"
      BY <1>4
    <3> QED BY <1>5, <2>2, <3>1
  <2> QED BY <1>5, <2>1, <2>2
<1> QED BY <1>1, <1>6, <1>7, <1>8 DEF QueueInv, Promoting

(* One request is settled otherwise than by an approval.                   *)
LEMMA SettleFacts ==
  ASSUME QueueInv, NEW r \in DOMAIN requests, NEW status \in Statuses \ {"resolved"},
         requests[r].status = "pending", landed' = landed,
         requests' = [requests EXCEPT ![r].status = status]
  PROVE  /\ \E S : QueueOf(S)'
         /\ DOMAIN requests' = DOMAIN requests /\ \A q \in DOMAIN requests \ {r} : requests'[q] = requests[q]
         /\ RequestTellsWhatLanded'
<1>1. PICK S : QueueOf(S)
  BY DEF QueueInv
<1>2. requests[r] \in Request(S)
  BY <1>1 DEF QueueOf
<1>3. PICK new \in Request(S) : new = [requests[r] EXCEPT !.status = status] /\ new.status = status
  BY <1>2 DEF Request
<1>4. requests' = [requests EXCEPT ![r] = new]
  BY <1>3
<1>5. /\ requests' \in Seq(Request(S)) /\ Len(requests') = Len(requests)
      /\ DOMAIN requests' = DOMAIN requests /\ requests'[r] = new
      /\ \A q \in DOMAIN requests \ {r} : requests'[q] = requests[q]
  BY <1>1, <1>4 DEF QueueOf
<1>6. QueueOf(S)'
  BY <1>1, <1>5 DEF QueueOf
<1>7. landed[r] = {}
  BY DEF QueueInv, RequestTellsWhatLanded
<1> QED BY <1>3, <1>5, <1>6, <1>7 DEF QueueInv, RequestTellsWhatLanded

LEMMA CancelKeepsQueue ==
  ASSUME QueueInv, NEW h \in Handlers, Cancel(h) PROVE QueueInv'
<1>1. /\ at[h].does = "cancel" /\ ~ RequestLocked(at[h].request) /\ End(h) /\ landed' = landed
      /\ requests' = [requests EXCEPT ![at[h].request] = Cancelled(requests[at[h].request])]
  BY DEF Cancel
<1>2. PICK r \in DOMAIN requests : r = at[h].request
  BY <1>1 DEF QueueInv, Speaks
<1>3. PICK S : QueueOf(S)
  BY DEF QueueInv
<1>4. CASE requests[r].status = "pending"
  <2>1. requests' = [requests EXCEPT ![r].status = "cancelled"]
    BY <1>1, <1>2, <1>4 DEF Cancelled
  <2>2. /\ \E T : QueueOf(T)'
        /\ DOMAIN requests' = DOMAIN requests /\ \A q \in DOMAIN requests \ {r} : requests'[q] = requests[q]
        /\ RequestTellsWhatLanded'
    BY <1>1, <1>4, <2>1, SettleFacts DEF Statuses
  <2>3. /\ at' = [g \in Handlers |-> at'[g]]
        /\ at'[h] = Idle /\ \A g \in Handlers \ {h} : at'[g] = at[g]
    BY <1>1, Turn DEF End
  <2>4. \A g \in Handlers : Speaks(g)'
    <3> SUFFICES ASSUME NEW g \in Handlers PROVE Speaks(g)'
      OBVIOUS
    <3>1. CASE g = h
      BY <2>3, <3>1 DEF Speaks, Promoting, Idle
    <3>2. CASE g # h
      <4>1. Speaks(g) /\ at'[g] = at[g]
        BY <2>3, <3>2 DEF QueueInv
      <4>2. Promoting(g) => at[g].request # r
        BY <1>1, <1>2 DEF RequestLocked
      <4> QED BY <2>2, <4>1, <4>2 DEF Speaks, Promoting
    <3> QED BY <3>1, <3>2
  <2>5. \A f, g \in Handlers : Promoting(f)' /\ Promoting(g)' => f = g
    BY <2>3 DEF QueueInv, Promoting, Idle
  <2> QED BY <2>2, <2>3, <2>4, <2>5 DEF QueueInv
<1>5. CASE requests[r].status # "pending"
  <2>1. requests' = requests
    BY <1>1, <1>2, <1>3, <1>5 DEF Cancelled, QueueOf
  <2> QED BY <1>1, <2>1, EndKeepsQueue
<1> QED BY <1>4, <1>5

LEMMA RejectKeepsQueue == ASSUME QueueInv, Reject PROVE QueueInv'
<1>1. PICK r \in DOMAIN requests :
        /\ requests[r].status = "pending" /\ ~ RequestLocked(r)
        /\ requests' = [requests EXCEPT ![r].status = "rejected"]
        /\ at' = at /\ landed' = landed
  BY DEF Reject
<1>2. /\ \E S : QueueOf(S)'
      /\ DOMAIN requests' = DOMAIN requests /\ \A q \in DOMAIN requests \ {r} : requests'[q] = requests[q]
      /\ RequestTellsWhatLanded'
  BY <1>1, SettleFacts DEF Statuses
<1>3. \A g \in Handlers : Speaks(g)'
  <2> SUFFICES ASSUME NEW g \in Handlers PROVE Speaks(g)'
    OBVIOUS
  <2>1. Promoting(g) => at[g].request # r
    BY <1>1 DEF RequestLocked
  <2> QED BY <1>1, <1>2, <2>1 DEF QueueInv, Speaks, Promoting
<1> QED BY <1>1, <1>2, <1>3 DEF QueueInv, Promoting

LEMMA CommitKeepsQueue ==
  ASSUME QueueInv, NEW h \in Handlers, CommitPromote(h) PROVE QueueInv'
<1>1. /\ at[h].does = "writing" /\ End(h)
      /\ IF at[h].request = None THEN UNCHANGED <<requests, landed>>
         ELSE /\ requests' = [requests EXCEPT ![at[h].request] = Settled(requests[at[h].request], at[h].chosen)]
              /\ landed' = [landed EXCEPT ![at[h].request] = landed[at[h].request] \cup at[h].chosen]
  BY DEF CommitPromote
<1>2. CASE at[h].request = None
  BY <1>1, <1>2, EndKeepsQueue
<1>3. CASE at[h].request # None
  <2>1. Promoting(h)
    BY <1>1 DEF Promoting
  <2>2. PICK r \in DOMAIN requests : r = at[h].request /\ requests[r].status = "pending"
    BY <1>1, <1>3, <2>1 DEF QueueInv, Speaks
  <2>3. PICK chosen : chosen = at[h].chosen
    OBVIOUS
  <2>4. PICK S : QueueOf(S)
    BY DEF QueueInv
  <2>5. PICK T : QueueOf(T) /\ chosen \in SUBSET T
    <3> WITNESS S \cup chosen
    <3> QED BY <2>4, Grown
  <2>6. requests[r] \in Request(T)
    BY <2>5 DEF QueueOf
  <2>7. PICK new \in Request(T) : new = [requests[r] EXCEPT !.status = "resolved", !.approved = chosen]
    BY <2>5, <2>6 DEF Request, Statuses
  <2>8. new.status = "resolved" /\ new.approved = chosen
    BY <2>6, <2>7 DEF Request
  <2>9. landed[r] = {} /\ r \in DOMAIN landed
    BY <2>2, <2>5 DEF QueueInv, RequestTellsWhatLanded, QueueOf
  <2>10. requests' = [requests EXCEPT ![r] = new] /\ landed' = [landed EXCEPT ![r] = chosen]
    BY <1>1, <1>3, <2>2, <2>3, <2>7, <2>9 DEF Settled
  <2>11. /\ requests' \in Seq(Request(T)) /\ Len(requests') = Len(requests)
         /\ DOMAIN requests' = DOMAIN requests /\ requests'[r] = new
         /\ \A q \in DOMAIN requests \ {r} : requests'[q] = requests[q]
    BY <2>5, <2>10 DEF QueueOf
  <2>12. /\ landed' \in Seq(SUBSET T) /\ Len(landed') = Len(landed) /\ landed'[r] = chosen
         /\ \A q \in DOMAIN requests \ {r} : landed'[q] = landed[q]
    BY <2>5, <2>9, <2>10 DEF QueueOf
  <2>13. QueueOf(T)'
    BY <2>5, <2>11, <2>12 DEF QueueOf
  <2>14. RequestTellsWhatLanded'
    BY <2>8, <2>11, <2>12 DEF QueueInv, RequestTellsWhatLanded
  <2>15. /\ at' = [g \in Handlers |-> at'[g]]
         /\ at'[h] = Idle /\ \A g \in Handlers \ {h} : at'[g] = at[g]
    BY <1>1, Turn DEF End
  <2>16. \A g \in Handlers : ~ Promoting(g)'
    BY <2>1, <2>15 DEF QueueInv, Promoting, Idle
  <2>17. \A g \in Handlers : Speaks(g)'
    BY <2>11, <2>15, <2>16 DEF QueueInv, Speaks, Idle
  <2> QED BY <2>13, <2>14, <2>15, <2>16, <2>17 DEF QueueInv
<1> QED BY <1>2, <1>3

LEMMA QueueKept == ASSUME QueueInv, [Next]_vars PROVE QueueInv'
<1>1. CASE EditProject \/ RemoveItem \/ CreateItem \/ Export \/ EditFile \/ Rest \/ UNCHANGED vars
  BY <1>1, RestKeepsQueue DEF EditProject, RemoveItem, CreateItem, Export, EditFile, Rest, vars
<1>2. CASE Ask \/ Reject
  BY <1>2, AskKeepsQueue, RejectKeepsQueue
<1>3. ASSUME NEW h \in Handlers, Begins(h) \/ Works(h) PROVE QueueInv'
  <2>1. CASE Begins(h)
    BY <2>1, BeginsKeepsQueue
  <2>2. CASE WriteItem(h) \/ Resync(h) \/ Import(h) \/ BreakDeadlock(h)
    BY <2>2, EndKeepsQueue DEF WriteItem, Resync, Import, BreakDeadlock
  <2>3. CASE Cancel(h) \/ LockProject(h) \/ LockItems(h) \/ CommitPromote(h) \/ LockLibrary(h)
    BY <2>3, CancelKeepsQueue, LockProjectKeepsQueue, LockItemsKeepsQueue, CommitKeepsQueue,
       LockLibraryKeepsQueue
  <2> QED BY <1>3, <2>1, <2>2, <2>3 DEF Works
<1> QED BY <1>1, <1>2, <1>3 DEF Next

LEMMA QueueStarts == ASSUME Init PROVE QueueInv
<1>1. requests = << >> /\ landed = << >> /\ at = [h \in Handlers |-> Idle]
  BY DEF Init
<1>2. QueueOf({})
  BY <1>1 DEF QueueOf
<1>3. DOMAIN requests = {}
  BY <1>1
<1> QED BY <1>1, <1>2, <1>3 DEF QueueInv, Speaks, Promoting, RequestTellsWhatLanded, Idle

(* A request is resolved with exactly the entities its approval promoted,  *)
(* and anything else promoted nothing, for any number of approvers.        *)
THEOREM QueueTellsWhatLanded == Spec => []RequestTellsWhatLanded
<1>1. QueueInv => RequestTellsWhatLanded
  BY DEF QueueInv
<1> QED BY <1>1, QueueStarts, QueueKept, PTL DEF Spec
-----------------------------------------------------------------------------
(* What is seen and replaced.  Ids grow, every committed value is          *)
(* remembered, and what a promotion is about to replace it holds locked.   *)
Value(i, version, payload) == [item |-> i, version |-> version, payload |-> payload]
Shows(expected, seen) ==
    /\ IsFiniteSet(DOMAIN expected) /\ DOMAIN seen = DOMAIN expected
    /\ \A e \in DOMAIN expected :
          expected[e].target # None => Value(expected[e].target, expected[e].version, seen[e]) \in written
WasSeen(i, seen) == Raced(i, items[i].version) \/ PayloadOf(items[i]) \in Range(seen)

Looks(h) == at[h].does \in {"promote", "planning"} => Shows(at[h].expected, at[h].seen)
Writes(h) == at[h].does = "writing" =>
    \A i \in DOMAIN at[h].writes :
        /\ i \in Nat /\ i < nextItem
        /\ i \in DOMAIN items => i \in at[h].rows /\ WasSeen(i, at[h].seen)
Uploads(h) == at[h].does \in {"import", "importing"} => IsFiniteSet(DOMAIN at[h].doc.entries)

ItemsInv ==
    /\ nextItem \in Nat /\ \A i \in DOMAIN items : i \in Nat /\ i < nextItem
    /\ Committed(items) \subseteq written
    /\ file # None => IsFiniteSet(DOMAIN file.entries)
SeenInv ==
    /\ QueueInv /\ ItemsInv
    /\ \A h \in Handlers : Looks(h) /\ Writes(h) /\ Uploads(h)

(* Rows over rows.                                                         *)
LEMMA OverFacts ==
  ASSUME NEW f, NEW g
  PROVE  /\ DOMAIN Over(f, g) = DOMAIN f \cup DOMAIN g
         /\ \A x \in DOMAIN f : Over(f, g)[x] = f[x]
         /\ \A x \in DOMAIN g \ DOMAIN f : Over(f, g)[x] = g[x]
         /\ Committed(Over(f, g)) \subseteq Committed(f) \cup Committed(g)
<1>1. /\ DOMAIN Over(f, g) = DOMAIN f \cup DOMAIN g
      /\ \A x \in DOMAIN f : Over(f, g)[x] = f[x]
      /\ \A x \in DOMAIN g \ DOMAIN f : Over(f, g)[x] = g[x]
  BY DEF Over
<1>2. ASSUME NEW c \in Committed(Over(f, g)) PROVE c \in Committed(f) \cup Committed(g)
  <2>1. PICK i \in DOMAIN Over(f, g) : c = Value(i, Over(f, g)[i].version, PayloadOf(Over(f, g)[i]))
    BY <1>2 DEF Committed, Value
  <2>2. CASE i \in DOMAIN f
    <3>1. c = Value(i, f[i].version, PayloadOf(f[i]))
      BY <1>1, <2>1, <2>2
    <3> QED BY <2>2, <3>1 DEF Committed, Value
  <2>3. CASE i \in DOMAIN g \ DOMAIN f
    <3>1. c = Value(i, g[i].version, PayloadOf(g[i]))
      BY <1>1, <2>1, <2>3
    <3> QED BY <2>3, <3>1 DEF Committed, Value
  <2> QED BY <1>1, <2>1, <2>2, <2>3
<1> QED BY <1>1, <1>2

(* Rows written: what was there keeps its kind.                            *)
LEMMA StoredFacts ==
  ASSUME NEW f, NEW g
  PROVE  /\ DOMAIN Stored(f, g) = DOMAIN f \cup DOMAIN g
         /\ \A x \in DOMAIN f : PayloadOf(Stored(f, g)[x]) = PayloadOf(f[x])
         /\ \A x \in DOMAIN g : Stored(f, g)[x].kind = g[x].kind
         /\ \A x \in DOMAIN g \ DOMAIN f : Stored(f, g)[x] = g[x]
         /\ Committed(Stored(f, g)) \subseteq Committed(f) \cup Committed(g)
<1>1. PICK s : s = [x \in DOMAIN f |-> IF x \in DOMAIN g THEN ItemRow(g[x].kind, PayloadOf(f[x]), f[x].version)
                                      ELSE f[x]]
  OBVIOUS
<1>2. Stored(f, g) = Over(s, g) /\ DOMAIN s = DOMAIN f
  BY <1>1 DEF Stored
<1>3. ASSUME NEW x \in DOMAIN f
      PROVE  /\ PayloadOf(s[x]) = PayloadOf(f[x]) /\ s[x].version = f[x].version
             /\ x \in DOMAIN g => s[x].kind = g[x].kind
  BY <1>1, <1>3 DEF ItemRow, PayloadOf
<1>4. Committed(s) \subseteq Committed(f)
  <2> SUFFICES ASSUME NEW c \in Committed(s) PROVE c \in Committed(f)
    OBVIOUS
  <2>1. PICK x \in DOMAIN f : c = Value(x, s[x].version, PayloadOf(s[x]))
    BY <1>2 DEF Committed, Value
  <2>2. c = Value(x, f[x].version, PayloadOf(f[x]))
    BY <1>3, <2>1
  <2> QED BY <2>2 DEF Committed, Value
<1>5. /\ DOMAIN Over(s, g) = DOMAIN f \cup DOMAIN g
      /\ \A x \in DOMAIN f : Over(s, g)[x] = s[x]
      /\ \A x \in DOMAIN g \ DOMAIN f : Over(s, g)[x] = g[x]
      /\ Committed(Over(s, g)) \subseteq Committed(s) \cup Committed(g)
  <2>1. /\ DOMAIN Over(s, g) = DOMAIN s \cup DOMAIN g
        /\ \A x \in DOMAIN s : Over(s, g)[x] = s[x]
        /\ \A x \in DOMAIN g \ DOMAIN s : Over(s, g)[x] = g[x]
        /\ Committed(Over(s, g)) \subseteq Committed(s) \cup Committed(g)
    BY OverFacts
  <2> QED BY <1>2, <2>1
<1>6. PICK both : both = Over(s, g)
  OBVIOUS
<1>7. /\ \A x \in DOMAIN f : PayloadOf(both[x]) = PayloadOf(f[x])
      /\ \A x \in DOMAIN g : both[x].kind = g[x].kind
  BY <1>2, <1>3, <1>5, <1>6
<1> QED BY <1>2, <1>4, <1>5, <1>6, <1>7

LEMMA RestrictFacts ==
  ASSUME NEW f, NEW S, S \subseteq DOMAIN f
  PROVE  /\ DOMAIN Restrict(f, S) = S /\ \A x \in S : Restrict(f, S)[x] = f[x]
         /\ Committed(Restrict(f, S)) \subseteq Committed(f)
<1>1. DOMAIN Restrict(f, S) = S /\ \A x \in S : Restrict(f, S)[x] = f[x]
  BY DEF Restrict
<1>2. ASSUME NEW c \in Committed(Restrict(f, S)) PROVE c \in Committed(f)
  <2>1. PICK i \in S : c = Value(i, Restrict(f, S)[i].version, PayloadOf(Restrict(f, S)[i]))
    BY <1>1, <1>2 DEF Committed, Value
  <2>2. c = Value(i, f[i].version, PayloadOf(f[i]))
    BY <1>1, <2>1
  <2> QED BY <2>1, <2>2 DEF Committed, Value
<1> QED BY <1>1, <1>2

LEMMA PositionFacts ==
  ASSUME NEW S, IsFiniteSet(S), NEW x \in S
  PROVE  Position(x, S) \in Nat /\ Cardinality(S) \in Nat /\ Position(x, S) < Cardinality(S)
<1> DEFINE B == {y \in S \ {x} : y < x}
<1>1. B \in SUBSET S /\ x \notin B
  OBVIOUS
<1>2. /\ IsFiniteSet(B) /\ Cardinality(B) <= Cardinality(S)
      /\ Cardinality(S) = Cardinality(B) => S = B
  BY <1>1, FS_Subset
<1>3. Cardinality(B) \in Nat /\ Cardinality(S) \in Nat
  BY <1>2, FS_CardinalityType
<1>4. Cardinality(B) < Cardinality(S)
  BY <1>1, <1>2, <1>3
<1> QED BY <1>3, <1>4 DEF Position

(* What the plan says of an item it would update.                          *)
LEMMA PlanFacts ==
  ASSUME NEW entities, NEW rows, NEW e \in DOMAIN planPromote(entities, rows).entries,
         planPromote(entities, rows).entries[e].target # None
  PROVE  LET entry == planPromote(entities, rows).entries[e]
         IN  entry.target \in DOMAIN rows /\ entry.version = rows[entry.target].version
<1> DEFINE linked == LinkedItems(entities, rows)
           entries == PromoteEntries(entities, rows, linked)
<1>1. planPromote(entities, rows).entries = entries
  BY DEF planPromote, PromotePlan
<1>2. \A f \in DOMAIN linked : linked[f] \in DOMAIN rows
  BY DEF LinkedItems
<1>3. e \in DOMAIN linked => entries[e] = PromoteEntry(rows, "update", linked[e])
  BY <1>1 DEF PromoteEntries
<1>4. e \notin DOMAIN linked =>
        \E status : entries[e] = PromoteEntry(rows, status, NameMatch(entities, rows, linked, e))
  BY <1>1 DEF PromoteEntries
<1>5. NameMatch(entities, rows, linked, e) \in DOMAIN rows \cup {None}
  <2> DEFINE free == Least(Namesakes(rows, entities[e]) \ Range(linked))
  <2>1. free \subseteq DOMAIN rows
    BY DEF Least, Namesakes
  <2> HIDE DEF free
  <2>2. free # {} => (CHOOSE i \in free : TRUE) \in free
    OBVIOUS
  <2> USE DEF free
  <2> QED BY <2>1, <2>2 DEF NameMatch
<1>6. PICK status, target : target \in DOMAIN rows \cup {None} /\ entries[e] = PromoteEntry(rows, status, target)
  BY <1>2, <1>3, <1>4, <1>5
<1> QED BY <1>1, <1>6 DEF PromoteEntry

(* What a step leaves to the handlers it does not serve.                   *)
Untouched(g) == at[g].does = "writing" =>
    \A i \in DOMAIN items' : i < nextItem =>
        i \in DOMAIN items /\ (i \in at[g].rows => items'[i] = items[i])
LEMMA OthersSee ==
  ASSUME SeenInv, nextItem' \in Nat, nextItem <= nextItem', written \subseteq written',
         NEW g \in Handlers, at'[g] = at[g], Untouched(g)
  PROVE  Looks(g)' /\ Writes(g)' /\ Uploads(g)'
<1>1. Looks(g)'
  BY DEF SeenInv, Looks, Shows
<1>2. Uploads(g)'
  BY DEF SeenInv, Uploads
<1>3. Writes(g)'
  <2> SUFFICES ASSUME at[g].does = "writing", NEW i \in DOMAIN at[g].writes
               PROVE  /\ i \in Nat /\ i < nextItem'
                      /\ i \in DOMAIN items' =>
                            i \in at[g].rows /\ (Raced(i, items[i].version)' \/ PayloadOf(items'[i]) \in Range(at[g].seen))
    BY DEF Writes, WasSeen
  <2>1. i \in Nat /\ i < nextItem /\ (i \in DOMAIN items => i \in at[g].rows /\ WasSeen(i, at[g].seen))
    BY DEF SeenInv, Writes
  <2>2. i < nextItem' /\ nextItem \in Nat
    BY <2>1 DEF SeenInv, ItemsInv
  <2>3. ASSUME i \in DOMAIN items'
        PROVE  i \in at[g].rows /\ (Raced(i, items[i].version)' \/ PayloadOf(items'[i]) \in Range(at[g].seen))
    <3>1. i \in at[g].rows /\ WasSeen(i, at[g].seen) /\ items'[i] = items[i]
      BY <2>1, <2>3 DEF Untouched
    <3>2. Raced(i, items[i].version) => Raced(i, items[i].version)'
      BY <3>1 DEF Raced
    <3> QED BY <3>1, <3>2 DEF WasSeen
  <2> QED BY <2>1, <2>2, <2>3
<1> QED BY <1>1, <1>2, <1>3

LEMMA ItemsStay ==
  ASSUME SeenInv, UNCHANGED <<items, nextItem, written>>
  PROVE  /\ file' = file => ItemsInv'
         /\ \A g \in Handlers : at'[g] = at[g] => Looks(g)' /\ Writes(g)' /\ Uploads(g)'
<1>1. file' = file => ItemsInv'
  BY DEF SeenInv, ItemsInv, Committed
<1>2. ASSUME NEW g \in Handlers, at'[g] = at[g] PROVE Looks(g)' /\ Writes(g)' /\ Uploads(g)'
  <2>1. nextItem' \in Nat /\ nextItem <= nextItem' /\ written \subseteq written' /\ Untouched(g)
    BY DEF SeenInv, ItemsInv, Untouched
  <2> QED BY <1>2, <2>1, OthersSee
<1> QED BY <1>1, <1>2

(* Handlers that take a turn.                                              *)
LEMMA FlowKeepsSeen ==
  ASSUME SeenInv, QueueInv', UNCHANGED <<items, nextItem, written, file>>,
         NEW h \in Handlers, NEW flow, at' = [at EXCEPT ![h] = flow], flow.does # "writing",
         flow.does \in {"promote", "planning"} => Shows(flow.expected, flow.seen),
         flow.does \in {"import", "importing"} => IsFiniteSet(DOMAIN flow.doc.entries)
  PROVE  SeenInv'
<1>1. at'[h] = flow /\ \A g \in Handlers \ {h} : at'[g] = at[g]
  BY Turn DEF SeenInv
<1>2. Looks(h)' /\ Writes(h)' /\ Uploads(h)'
  BY <1>1 DEF Looks, Writes, Uploads, Shows
<1>3. \A g \in Handlers : Looks(g)' /\ Writes(g)' /\ Uploads(g)'
  BY <1>1, <1>2, ItemsStay
<1> QED BY <1>3, ItemsStay DEF SeenInv

LEMMA EndKeepsSeen ==
  ASSUME SeenInv, QueueInv', UNCHANGED <<items, nextItem, written, file>>, NEW h \in Handlers, End(h)
  PROVE  SeenInv'
<1>1. Idle.does = "nothing" /\ at' = [at EXCEPT ![h] = Idle]
  BY DEF End, Idle
<1> QED BY <1>1, FlowKeepsSeen

LEMMA RestKeepsSeen ==
  ASSUME SeenInv, QueueInv', UNCHANGED <<items, nextItem, written, file, at>> PROVE SeenInv'
BY ItemsStay DEF SeenInv

LEMMA ViewKeepsSeen ==
  ASSUME SeenInv, QueueInv', NEW h \in Handlers, NEW request, NEW offered, ViewPlan(h, request, offered)
  PROVE  SeenInv'
<1> DEFINE plan == planPromote(model, items).entries
           expected(chosen) == Restrict(plan, chosen)
           seen(chosen) == [e \in chosen |-> IF plan[e].target = None THEN None
                                             ELSE PayloadOf(items[plan[e].target])]
           flow(chosen) == [does |-> "promote", request |-> request,
                            expected |-> expected(chosen), seen |-> seen(chosen)]
<1>1. UNCHANGED <<items, nextItem, written, file>>
  BY DEF ViewPlan
<1>2. PICK chosen \in SUBSET (offered \cap DOMAIN plan) \ {{}} :
        IsFiniteSet(chosen) /\ at' = [at EXCEPT ![h] = flow(chosen)]
  BY DEF ViewPlan, Start
<1>3. DOMAIN expected(chosen) = chosen /\ \A e \in chosen : expected(chosen)[e] = plan[e]
  BY <1>2, RestrictFacts
<1>4. ASSUME NEW e \in chosen, plan[e].target # None
      PROVE  Value(plan[e].target, plan[e].version, seen(chosen)[e]) \in written
  <2>1. plan[e].target \in DOMAIN items /\ plan[e].version = items[plan[e].target].version
    BY <1>2, <1>4, PlanFacts
  <2>2. seen(chosen)[e] = PayloadOf(items[plan[e].target])
    BY <1>4
  <2> QED BY <2>1, <2>2 DEF SeenInv, ItemsInv, Committed, Value
<1>5. Shows(expected(chosen), seen(chosen))
  BY <1>2, <1>3, <1>4 DEF Shows
<1>6. flow(chosen).does = "promote" /\ flow(chosen).expected = expected(chosen) /\ flow(chosen).seen = seen(chosen)
  OBVIOUS
<1> HIDE DEF flow, expected, seen
<1> QED BY <1>1, <1>2, <1>5, <1>6, FlowKeepsSeen

LEMMA BeginsKeepsSeen ==
  ASSUME SeenInv, QueueInv', NEW h \in Handlers, Begins(h) PROVE SeenInv'
<1>1. CASE LoadRequest(h)
  <2>1. PICK r : at' = [at EXCEPT ![h] = [does |-> "cancel", request |-> r]]
    BY <1>1 DEF LoadRequest, Start
  <2>2. UNCHANGED <<items, nextItem, written, file>>
    BY <1>1 DEF LoadRequest
  <2> DEFINE flow == [does |-> "cancel", request |-> r]
  <2>3. at' = [at EXCEPT ![h] = flow] /\ flow.does = "cancel"
    BY <2>1
  <2> HIDE DEF flow
  <2> QED BY <2>2, <2>3, FlowKeepsSeen
<1>2. CASE ViewOwnPlan(h) \/ ViewRequest(h)
  BY <1>2, ViewKeepsSeen DEF ViewOwnPlan, ViewRequest
<1>3. CASE ReadItem(h)
  <2>1. PICK i, row : at' = [at EXCEPT ![h] = [does |-> "update", item |-> i, row |-> row]]
    BY <1>3 DEF ReadItem, Start
  <2>2. UNCHANGED <<items, nextItem, written, file>>
    BY <1>3 DEF ReadItem
  <2> DEFINE flow == [does |-> "update", item |-> i, row |-> row]
  <2>3. at' = [at EXCEPT ![h] = flow] /\ flow.does = "update"
    BY <2>1
  <2> HIDE DEF flow
  <2> QED BY <2>2, <2>3, FlowKeepsSeen
<1>4. CASE ViewItems(h)
  <2>1. PICK plan, decisions :
          at' = [at EXCEPT ![h] = [does |-> "resync", plan |-> plan, decisions |-> decisions]]
    BY <1>4 DEF ViewItems, Start
  <2>2. UNCHANGED <<items, nextItem, written, file>>
    BY <1>4 DEF ViewItems
  <2> DEFINE flow == [does |-> "resync", plan |-> plan, decisions |-> decisions]
  <2>3. at' = [at EXCEPT ![h] = flow] /\ flow.does = "resync"
    BY <2>1
  <2> HIDE DEF flow
  <2> QED BY <2>2, <2>3, FlowKeepsSeen
<1>5. CASE PreviewImport(h)
  <2>1. PICK prune, includeStale, hash, shown :
          at' = [at EXCEPT ![h] = [does |-> "import", doc |-> file, prune |-> prune,
                                   includeStale |-> includeStale, hash |-> hash, shown |-> shown]]
    BY <1>5 DEF PreviewImport, Start
  <2>2. UNCHANGED <<items, nextItem, written, file>> /\ IsFiniteSet(DOMAIN file.entries)
    BY <1>5 DEF PreviewImport, SeenInv, ItemsInv
  <2> DEFINE flow == [does |-> "import", doc |-> file, prune |-> prune,
                     includeStale |-> includeStale, hash |-> hash, shown |-> shown]
  <2>3. at' = [at EXCEPT ![h] = flow] /\ flow.does = "import" /\ flow.doc = file
    BY <2>1
  <2> HIDE DEF flow
  <2> QED BY <2>2, <2>3, FlowKeepsSeen
<1> QED BY <1>1, <1>2, <1>3, <1>4, <1>5 DEF Begins

LEMMA LocksKeepSeen ==
  ASSUME SeenInv, QueueInv', NEW h \in Handlers, LockProject(h) \/ LockLibrary(h) PROVE SeenInv'
<1>1. UNCHANGED <<items, nextItem, written, file>>
  BY DEF LockProject, LockLibrary
<1>2. CASE LockProject(h)
  <2>1. CASE at[h].request # None /\ requests[at[h].request].status # "pending"
    BY <1>1, <1>2, <2>1, EndKeepsSeen DEF LockProject
  <2>2. CASE ~ (at[h].request # None /\ requests[at[h].request].status # "pending")
    <3>1. at' = [at EXCEPT ![h] = [does |-> "planning", request |-> at[h].request, expected |-> at[h].expected,
                                   seen |-> at[h].seen, visible |-> DOMAIN items]]
      BY <1>2, <2>2 DEF LockProject, SeenInv, QueueInv
    <3>2. Shows(at[h].expected, at[h].seen)
      BY <1>2 DEF LockProject, SeenInv, Looks
    <3> DEFINE flow == [does |-> "planning", request |-> at[h].request, expected |-> at[h].expected,
                       seen |-> at[h].seen, visible |-> DOMAIN items]
    <3>3. at' = [at EXCEPT ![h] = flow] /\ flow.does = "planning" /\ flow.expected = at[h].expected /\ flow.seen = at[h].seen
      BY <3>1
    <3> HIDE DEF flow
    <3> QED BY <1>1, <3>2, <3>3, FlowKeepsSeen
  <2> QED BY <2>1, <2>2
<1>3. CASE LockLibrary(h)
  <2>1. at' = [at EXCEPT ![h] = [does |-> "importing", doc |-> at[h].doc, prune |-> at[h].prune,
                                 includeStale |-> at[h].includeStale, hash |-> at[h].hash,
                                 shown |-> at[h].shown, visible |-> DOMAIN items]]
    BY <1>3 DEF LockLibrary, SeenInv, QueueInv
  <2>2. IsFiniteSet(DOMAIN at[h].doc.entries)
    BY <1>3 DEF LockLibrary, SeenInv, Uploads
  <2> DEFINE flow == [does |-> "importing", doc |-> at[h].doc, prune |-> at[h].prune,
                     includeStale |-> at[h].includeStale, hash |-> at[h].hash,
                     shown |-> at[h].shown, visible |-> DOMAIN items]
  <2>3. at' = [at EXCEPT ![h] = flow] /\ flow.does = "importing" /\ flow.doc = at[h].doc
    BY <2>1
  <2> HIDE DEF flow
  <2> QED BY <1>1, <2>2, <2>3, FlowKeepsSeen
<1> QED BY <1>2, <1>3

(* The ids a promotion writes: items of its plan, and new ones.            *)
LEMMA PromotionIds ==
  ASSUME NEW entities, NEW plan, NEW chosen, NEW next \in Nat, IsFiniteSet(chosen),
         NEW i \in DOMAIN applyPromotePlan(entities, plan, chosen, next).writes
  PROVE  \/ \E e \in chosen : i = plan.entries[e].target /\ i # None
         \/ i \in Nat /\ next <= i /\ i < next + Cardinality(New(plan, chosen))
<1> DEFINE itemOf == ItemsOfBatch(plan, chosen, next)
<1>1. PICK e \in chosen : i = itemOf[e]
  BY DEF applyPromotePlan, Promotion, Promoted
<1>2. itemOf[e] = IF e \in New(plan, chosen) THEN next + Position(e, New(plan, chosen)) ELSE plan.entries[e].target
  <2> DEFINE own == [x \in chosen |-> IF x \in New(plan, chosen) THEN next + Position(x, New(plan, chosen))
                                      ELSE plan.entries[x].target]
  <2>1. itemOf = Over(own, plan.linked)
    BY DEF ItemsOfBatch, Numbered
  <2>2. e \in DOMAIN own /\ own[e] = IF e \in New(plan, chosen) THEN next + Position(e, New(plan, chosen))
                                     ELSE plan.entries[e].target
    OBVIOUS
  <2> HIDE DEF own, itemOf
  <2>3. Over(own, plan.linked)[e] = own[e]
    BY <2>2 DEF Over
  <2> QED BY <2>1, <2>2, <2>3
<1>3. IsFiniteSet(New(plan, chosen))
  BY FS_Subset DEF New
<1>4. CASE e \in New(plan, chosen)
  <2>1. /\ Position(e, New(plan, chosen)) \in Nat /\ Cardinality(New(plan, chosen)) \in Nat
        /\ Position(e, New(plan, chosen)) < Cardinality(New(plan, chosen))
    BY <1>3, <1>4, PositionFacts
  <2> QED BY <1>1, <1>2, <1>4, <2>1
<1>5. CASE e \notin New(plan, chosen)
  BY <1>1, <1>2, <1>5 DEF New
<1> QED BY <1>4, <1>5

(* A promotion chooses what the plan of now still shows as it was seen, so *)
(* that every row it will replace was on the screen.                       *)
LEMMA LockItemsKeepsSeen ==
  ASSUME SeenInv, QueueInv', NEW h \in Handlers, LockItems(h) PROVE SeenInv'
<1> DEFINE rows == Restrict(items, at[h].visible \cap DOMAIN items)
           plan == planPromote(model, rows)
           chosen == AsExpected(plan.entries, at[h].expected)
           result == applyPromotePlan(model, plan, chosen, nextItem)
           count == Cardinality(New(plan, chosen))
           flow == [does |-> "writing", request |-> at[h].request, seen |-> Restrict(at[h].seen, chosen),
                    rows |-> DOMAIN rows, chosen |-> chosen, writes |-> result.writes, model |-> result.model]
<1>1. /\ at[h].does = "planning" /\ at' = [at EXCEPT ![h] = flow]
      /\ nextItem' = nextItem + count /\ UNCHANGED <<items, written, file>>
  BY DEF LockItems, SeenInv, QueueInv
<1>2. Shows(at[h].expected, at[h].seen)
  BY <1>1 DEF SeenInv, Looks
<1>3. IsFiniteSet(chosen) /\ chosen \subseteq DOMAIN at[h].expected
  BY <1>2, FS_Subset DEF AsExpected, Shows
<1>4. count \in Nat
  BY <1>3, FS_Subset, FS_CardinalityType DEF New
<1>5. DOMAIN rows \subseteq DOMAIN items /\ \A i \in DOMAIN rows : rows[i] = items[i]
  BY RestrictFacts
<1>6. ASSUME NEW e \in chosen, plan.entries[e].target # None
      PROVE  /\ plan.entries[e].target \in DOMAIN rows
             /\ WasSeen(plan.entries[e].target, Restrict(at[h].seen, chosen))
  <2> DEFINE i == plan.entries[e].target
  <2>1. e \in DOMAIN plan.entries /\ plan.entries[e] = at[h].expected[e]
    BY <1>6 DEF AsExpected
  <2>2. i \in DOMAIN rows /\ plan.entries[e].version = rows[i].version
    BY <1>6, <2>1, PlanFacts
  <2>3. Value(i, items[i].version, at[h].seen[e]) \in written
    BY <1>2, <1>3, <1>5, <1>6, <2>1, <2>2 DEF Shows
  <2>4. Value(i, items[i].version, PayloadOf(items[i])) \in written
    BY <1>5, <2>2 DEF SeenInv, ItemsInv, Committed, Value
  <2>5. at[h].seen[e] \in Range(Restrict(at[h].seen, chosen))
    BY <1>6 DEF Range, Restrict
  <2>6. CASE PayloadOf(items[i]) = at[h].seen[e]
    BY <2>2, <2>5, <2>6 DEF WasSeen
  <2>7. CASE PayloadOf(items[i]) # at[h].seen[e]
    <3>1. Raced(i, items[i].version)
      BY <2>3, <2>4, <2>7 DEF Raced, Value
    <3> QED BY <2>2, <3>1 DEF WasSeen
  <2> QED BY <2>6, <2>7
<1>7. at'[h] = flow /\ \A g \in Handlers \ {h} : at'[g] = at[g]
  BY <1>1, Turn DEF SeenInv
<1>8. /\ flow.does = "writing" /\ flow.writes = result.writes
      /\ flow.rows = DOMAIN rows /\ flow.seen = Restrict(at[h].seen, chosen)
  OBVIOUS
<1>9. nextItem \in Nat /\ nextItem' \in Nat /\ nextItem <= nextItem'
  BY <1>1, <1>4 DEF SeenInv, ItemsInv
<1>10. ASSUME NEW i \in DOMAIN result.writes
       PROVE  /\ i \in Nat /\ i < nextItem'
              /\ i \in DOMAIN items => i \in DOMAIN rows /\ WasSeen(i, Restrict(at[h].seen, chosen))
  <2>1. \/ \E e \in chosen : i = plan.entries[e].target /\ i # None
        \/ i \in Nat /\ nextItem <= i /\ i < nextItem + count
    BY <1>3, <1>9, <1>10, PromotionIds
  <2>2. \A j \in DOMAIN items : j \in Nat /\ j < nextItem
    BY DEF SeenInv, ItemsInv
  <2>3. CASE \E e \in chosen : i = plan.entries[e].target /\ i # None
    <3>1. i \in DOMAIN rows /\ WasSeen(i, Restrict(at[h].seen, chosen))
      BY <1>6, <2>3
    <3>2. i \in Nat /\ i < nextItem
      BY <1>5, <2>2, <3>1
    <3> QED BY <1>9, <3>1, <3>2
  <2>4. CASE i \in Nat /\ nextItem <= i /\ i < nextItem + count
    BY <1>1, <1>9, <2>2, <2>4
  <2> QED BY <2>1, <2>3, <2>4
<1> HIDE DEF rows, plan, chosen, result, count, flow
<1>11. Looks(h)' /\ Uploads(h)' /\ Writes(h)'
  <2>1. Looks(h)' /\ Uploads(h)'
    BY <1>7, <1>8 DEF Looks, Uploads
  <2>2. ASSUME NEW i \in DOMAIN result.writes
        PROVE  /\ i \in Nat /\ i < nextItem'
               /\ i \in DOMAIN items' => i \in at'[h].rows /\ WasSeen(i, at[h].seen)'
    <3>1. WasSeen(i, flow.seen) => WasSeen(i, at[h].seen)'
      BY <1>1, <1>7 DEF WasSeen, Raced
    <3> QED BY <1>1, <1>7, <1>8, <1>10, <3>1
  <2> QED BY <1>7, <1>8, <2>1, <2>2 DEF Writes
<1>12. \A g \in Handlers \ {h} : Looks(g)' /\ Writes(g)' /\ Uploads(g)'
  <2>1. \A g \in Handlers : Untouched(g)
    BY <1>1 DEF SeenInv, Untouched
  <2> QED BY <1>1, <1>7, <1>9, <2>1, OthersSee
<1>13. ItemsInv'
  <2>1. nextItem' \in Nat /\ \A i \in DOMAIN items' : i \in Nat /\ i < nextItem'
    BY <1>1, <1>9 DEF SeenInv, ItemsInv
  <2>2. Committed(items)' \subseteq written' /\ (file' # None => IsFiniteSet(DOMAIN file'.entries))
    BY <1>1 DEF SeenInv, ItemsInv, Committed
  <2> QED BY <2>1, <2>2 DEF ItemsInv
<1> QED BY <1>11, <1>12, <1>13 DEF SeenInv

(* Steps that write rows.  Kept are rows that were there before and are    *)
(* not held by a promotion; new rows have new ids.                         *)
LEMMA RowsKeepSeen ==
  ASSUME SeenInv, QueueInv', nextItem' \in Nat, nextItem <= nextItem', UNCHANGED file,
         \A i \in DOMAIN items' : i \in Nat /\ i < nextItem',
         written \subseteq written', Committed(items)' \subseteq written',
         \A g \in Handlers : (at'[g] = at[g] /\ Untouched(g)) \/ at'[g] = Idle
  PROVE  SeenInv'
<1>1. ItemsInv'
  BY DEF SeenInv, ItemsInv
<1>2. ASSUME NEW g \in Handlers PROVE Looks(g)' /\ Writes(g)' /\ Uploads(g)'
  <2>1. CASE at'[g] = at[g] /\ Untouched(g)
    BY <2>1, OthersSee
  <2>2. CASE at'[g] = Idle
    BY <2>2 DEF Looks, Writes, Uploads, Idle
  <2> QED BY <2>1, <2>2
<1> QED BY <1>1, <1>2 DEF SeenInv

LEMMA CommitKeepsSeen ==
  ASSUME SeenInv, QueueInv', NEW h \in Handlers, CommitPromote(h) PROVE SeenInv'
<1>1. /\ at[h].does = "writing" /\ End(h) /\ UNCHANGED <<nextItem, file>>
      /\ items' = Stored(at[h].writes, items) /\ written' = written \cup Committed(at[h].writes)
  BY DEF CommitPromote
<1>2. at'[h] = Idle /\ \A g \in Handlers \ {h} : at'[g] = at[g]
  BY <1>1, Turn DEF End, SeenInv
<1>3. \A g \in Handlers \ {h} : at[g].does # "writing"
  BY <1>1 DEF SeenInv, QueueInv, Promoting
<1>4. /\ DOMAIN items' = DOMAIN at[h].writes \cup DOMAIN items
      /\ Committed(items') \subseteq Committed(at[h].writes) \cup Committed(items)
  BY <1>1, StoredFacts
<1>5. Committed(items)' \subseteq written' /\ written \subseteq written'
  BY <1>1, <1>4 DEF SeenInv, ItemsInv, Committed
<1>6. \A i \in DOMAIN items' : i \in Nat /\ i < nextItem
  BY <1>1, <1>4 DEF SeenInv, ItemsInv, Writes
<1>7. nextItem' \in Nat /\ nextItem <= nextItem'
  BY <1>1 DEF SeenInv, ItemsInv
<1> QED BY <1>1, <1>2, <1>3, <1>5, <1>6, <1>7, RowsKeepSeen DEF Untouched

LEMMA WriteItemKeepsSeen ==
  ASSUME SeenInv, QueueInv', NEW h \in Handlers, WriteItem(h) PROVE SeenInv'
<1> DEFINE rows == IF at[h].item \in DOMAIN items THEN Row(at[h].item, at[h].row) ELSE << >>
<1>1. /\ at[h].does = "update" /\ ~ RowLocked(at[h].item) /\ End(h) /\ UNCHANGED <<nextItem, file>>
      /\ items' = Stored(rows, items) /\ written' = written \cup Committed(rows)
  BY DEF WriteItem
<1>2. DOMAIN rows \subseteq {at[h].item} \cap DOMAIN items
  BY DEF Row
<1>3. /\ DOMAIN items' = DOMAIN items /\ Committed(items') \subseteq Committed(rows) \cup Committed(items)
      /\ \A i \in DOMAIN items \ {at[h].item} : items'[i] = items[i]
  <2>1. PICK new : new = rows
    OBVIOUS
  <2>2. items' = Stored(new, items) /\ DOMAIN new \subseteq {at[h].item} \cap DOMAIN items
    BY <1>1, <1>2, <2>1
  <2>3. /\ DOMAIN items' = DOMAIN new \cup DOMAIN items
        /\ Committed(items') \subseteq Committed(new) \cup Committed(items)
        /\ \A i \in DOMAIN items \ DOMAIN new : items'[i] = items[i]
    <3>1. /\ DOMAIN Stored(new, items) = DOMAIN new \cup DOMAIN items
          /\ Committed(Stored(new, items)) \subseteq Committed(new) \cup Committed(items)
          /\ \A i \in DOMAIN items \ DOMAIN new : Stored(new, items)[i] = items[i]
      BY StoredFacts
    <3> QED BY <2>2, <3>1
  <2> HIDE DEF rows
  <2> QED BY <2>1, <2>2, <2>3
<1> HIDE DEF rows
<1>4. Committed(items)' \subseteq written' /\ written \subseteq written'
  BY <1>1, <1>3 DEF SeenInv, ItemsInv, Committed
<1>5. nextItem' = nextItem /\ nextItem \in Nat /\ \A i \in DOMAIN items' : i \in Nat /\ i < nextItem
  BY <1>1, <1>3 DEF SeenInv, ItemsInv
<1>6. at'[h] = Idle /\ \A g \in Handlers \ {h} : at'[g] = at[g]
  BY <1>1, Turn DEF End, SeenInv
<1>7. \A g \in Handlers : Untouched(g)
  BY <1>1, <1>3 DEF Untouched, RowLocked
<1> QED BY <1>1, <1>4, <1>5, <1>6, <1>7, RowsKeepSeen

LEMMA RemoveItemKeepsSeen == ASSUME SeenInv, QueueInv', RemoveItem PROVE SeenInv'
<1>1. PICK i \in DOMAIN items : /\ items' = Restrict(items, DOMAIN items \ {i})
                                /\ UNCHANGED <<nextItem, file, at, written>>
  BY DEF RemoveItem
<1>2. /\ DOMAIN items' = DOMAIN items \ {i} /\ \A j \in DOMAIN items' : items'[j] = items[j]
      /\ Committed(items') \subseteq Committed(items)
  BY <1>1, RestrictFacts
<1>3. Committed(items)' \subseteq written' /\ written \subseteq written'
  BY <1>1, <1>2 DEF SeenInv, ItemsInv, Committed
<1>4. nextItem' = nextItem /\ nextItem \in Nat /\ \A j \in DOMAIN items' : j \in Nat /\ j < nextItem
  BY <1>1, <1>2 DEF SeenInv, ItemsInv
<1>5. \A g \in Handlers : Untouched(g)
  BY <1>2 DEF Untouched
<1> QED BY <1>1, <1>3, <1>4, <1>5, RowsKeepSeen

LEMMA CreateItemKeepsSeen == ASSUME SeenInv, QueueInv', CreateItem PROVE SeenInv'
<1>1. PICK row : /\ items' = Stored(Row(nextItem, row), items)
                 /\ written' = written \cup Committed(Row(nextItem, row))
  BY DEF CreateItem
<1>2. nextItem' = nextItem + 1 /\ UNCHANGED <<file, at>>
  BY DEF CreateItem
<1>3. DOMAIN Row(nextItem, row) = {nextItem}
  BY DEF Row
<1>4. nextItem \in Nat /\ \A i \in DOMAIN items : i \in Nat /\ i < nextItem
  BY DEF SeenInv, ItemsInv
<1>5. /\ DOMAIN items' = DOMAIN items \cup {nextItem} /\ \A i \in DOMAIN items : items'[i] = items[i]
      /\ Committed(items') \subseteq Committed(Row(nextItem, row)) \cup Committed(items)
  <2>1. PICK new : new = Row(nextItem, row)
    OBVIOUS
  <2>2. nextItem \notin DOMAIN items
    BY <1>4
  <2>3. items' = Stored(new, items) /\ DOMAIN new = {nextItem}
    BY <1>1, <1>3, <2>1
  <2>4. /\ DOMAIN Stored(new, items) = DOMAIN new \cup DOMAIN items
        /\ Committed(Stored(new, items)) \subseteq Committed(new) \cup Committed(items)
        /\ \A i \in DOMAIN items \ DOMAIN new : Stored(new, items)[i] = items[i]
    BY StoredFacts
  <2> QED BY <2>1, <2>2, <2>3, <2>4
<1>6. Committed(items)' \subseteq written' /\ written \subseteq written'
  BY <1>1, <1>5 DEF SeenInv, ItemsInv, Committed
<1>7. \A i \in DOMAIN items' : i \in Nat /\ i < nextItem'
  BY <1>2, <1>4, <1>5
<1>8. \A g \in Handlers : Untouched(g)
  BY <1>4, <1>5 DEF Untouched
<1> QED BY <1>2, <1>4, <1>6, <1>7, <1>8, RowsKeepSeen

LEMMA MatchFacts ==
  ASSUME NEW rows, NEW lines, NEW l \in DOMAIN MatchOf(rows, lines)
  PROVE  MatchOf(rows, lines)[l] \in DOMAIN rows
<1> DEFINE byId == {k \in DOMAIN lines : lines[k].id \in DOMAIN rows /\ rows[lines[k].id].kind = lines[k].kind}
           free(k) == Unclaimed(rows, lines, byId, k)
           byName == {k \in DOMAIN lines \ byId : free(k) # {}}
           named == [k \in byName |-> CHOOSE i \in free(k) : TRUE]
           direct == [k \in byId |-> lines[k].id]
<1>1. MatchOf(rows, lines) = Over(direct, named)
  BY DEF MatchOf, MatchLines
<1>2. \A k \in byId : direct[k] \in DOMAIN rows
  OBVIOUS
<1>3. ASSUME NEW k \in byName PROVE named[k] \in DOMAIN rows
  <2>1. free(k) \subseteq DOMAIN rows /\ free(k) # {}
    BY <1>3 DEF Unclaimed, Least, Namesakes
  <2>2. named[k] = CHOOSE i \in free(k) : TRUE
    BY <1>3
  <2> HIDE DEF free
  <2> QED BY <2>1, <2>2
<1>4. DOMAIN direct = byId /\ DOMAIN named = byName
  OBVIOUS
<1> HIDE DEF direct, named, byId, byName
<1> QED BY <1>1, <1>2, <1>3, <1>4 DEF Over

(* An import writes items it read, none of them held, and new ones.        *)
LEMMA ImportIds ==
  ASSUME NEW rows, NEW doc, IsFiniteSet(DOMAIN doc.entries), nextItem \in Nat,
         NEW i \in DOMAIN PlanOf(rows, doc).entries
  PROVE  \/ i \in DOMAIN rows
         \/ i \in Nat /\ nextItem <= i /\ i < nextItem + Cardinality(Unmatched(rows, doc))
<1> DEFINE match == MatchOf(rows, doc.entries)
           new == [l \in Unmatched(rows, doc) |-> nextItem + Position(l, Unmatched(rows, doc))]
<1>1. i \in Range(Over(match, new))
  BY DEF PlanOf, planLibraryImport, ImportPlan, ImportEntries, AntiFunction, Inverse, TargetsOf, Unmatched
<1>2. PICK l : l \in DOMAIN Over(match, new) /\ i = Over(match, new)[l]
  BY <1>1 DEF Range
<1>3. CASE l \in DOMAIN match
  <2>1. i = match[l]
    BY <1>2, <1>3 DEF Over
  <2>2. match[l] \in DOMAIN rows
    BY <1>3, MatchFacts
  <2> QED BY <2>1, <2>2
<1>4. CASE l \in DOMAIN new \ DOMAIN match
  <2>1. i = nextItem + Position(l, Unmatched(rows, doc)) /\ l \in Unmatched(rows, doc)
    BY <1>2, <1>4 DEF Over
  <2>2. IsFiniteSet(Unmatched(rows, doc))
    BY FS_Subset DEF Unmatched
  <2>3. /\ Position(l, Unmatched(rows, doc)) \in Nat /\ Cardinality(Unmatched(rows, doc)) \in Nat
        /\ Position(l, Unmatched(rows, doc)) < Cardinality(Unmatched(rows, doc))
    BY <2>1, <2>2, PositionFacts
  <2> QED BY <2>1, <2>3
<1> QED BY <1>2, <1>3, <1>4 DEF Over

LEMMA ImportKeepsSeen ==
  ASSUME SeenInv, QueueInv', NEW h \in Handlers, Import(h) PROVE SeenInv'
<1> DEFINE rows == Restrict(items, at[h].visible \cap DOMAIN items)
           doc == at[h].doc
           plan == PlanOf(rows, doc)
           result == materializeLibraryImport(rows, plan, Referenced(rows, doc, plan),
                                              at[h].prune, at[h].includeStale)
           left == Restrict(items, DOMAIN items \ result.removes)
           count == Cardinality(Unmatched(rows, doc))
<1>1. at[h].does = "importing" /\ ~ RowsLocked(at[h].visible) /\ End(h) /\ UNCHANGED file
  BY DEF Import
<1>2. \/ UNCHANGED <<items, written, nextItem>>
      \/ /\ items' = Stored(result.writes, left) /\ written' = written \cup Committed(result.writes)
         /\ nextItem' = nextItem + count
  BY DEF Import
<1>3. CASE UNCHANGED <<items, written, nextItem>>
  BY <1>1, <1>3, EndKeepsSeen
<1>4. CASE /\ items' = Stored(result.writes, left) /\ written' = written \cup Committed(result.writes)
           /\ nextItem' = nextItem + count
  <2>1. DOMAIN rows = at[h].visible \cap DOMAIN items
    BY RestrictFacts
  <2>2. nextItem \in Nat /\ \A i \in DOMAIN items : i \in Nat /\ i < nextItem
    BY DEF SeenInv, ItemsInv
  <2>3. IsFiniteSet(DOMAIN doc.entries)
    BY <1>1 DEF SeenInv, Uploads
  <2>4. count \in Nat
    BY <2>3, FS_Subset, FS_CardinalityType DEF Unmatched
  <2>5. DOMAIN result.writes \subseteq DOMAIN plan.entries
    BY DEF materializeLibraryImport
  <2>6. ASSUME NEW i \in DOMAIN result.writes
        PROVE  \/ i \in at[h].visible \cap DOMAIN items
               \/ i \in Nat /\ nextItem <= i /\ i < nextItem + count
    <3>1. i \in DOMAIN PlanOf(rows, doc).entries
      BY <2>5, <2>6
    <3> HIDE DEF rows, doc
    <3> QED BY <2>1, <2>2, <2>3, <3>1, ImportIds
  <2>7. /\ DOMAIN left \subseteq DOMAIN items /\ \A i \in DOMAIN left : left[i] = items[i]
        /\ Committed(left) \subseteq Committed(items)
    BY RestrictFacts
  <2> HIDE DEF result, left, rows, doc, plan, count
  <2>8. /\ DOMAIN items' = DOMAIN result.writes \cup DOMAIN left
        /\ Committed(items') \subseteq Committed(result.writes) \cup Committed(left)
        /\ \A i \in DOMAIN left \ DOMAIN result.writes : items'[i] = left[i]
    <3>1. PICK new : new = result.writes
      OBVIOUS
    <3>2. PICK kept : kept = left
      OBVIOUS
    <3>3. items' = Stored(new, kept)
      BY <1>4, <3>1, <3>2
    <3>4. /\ DOMAIN items' = DOMAIN new \cup DOMAIN kept
          /\ Committed(items') \subseteq Committed(new) \cup Committed(kept)
          /\ \A i \in DOMAIN kept \ DOMAIN new : items'[i] = kept[i]
      <4>1. /\ DOMAIN Stored(new, kept) = DOMAIN new \cup DOMAIN kept
            /\ Committed(Stored(new, kept)) \subseteq Committed(new) \cup Committed(kept)
            /\ \A i \in DOMAIN kept \ DOMAIN new : Stored(new, kept)[i] = kept[i]
        BY StoredFacts
      <4> QED BY <3>3, <4>1
    <3> QED BY <3>1, <3>2, <3>4
  <2>9. Committed(items)' \subseteq written' /\ written \subseteq written'
    BY <1>4, <2>7, <2>8 DEF SeenInv, ItemsInv, Committed
  <2>10. nextItem' \in Nat /\ nextItem <= nextItem'
    BY <1>4, <2>2, <2>4
  <2>11. \A i \in DOMAIN items' : i \in Nat /\ i < nextItem'
    BY <1>4, <2>2, <2>4, <2>6, <2>7, <2>8
  <2>12. at'[h] = Idle /\ \A g \in Handlers \ {h} : at'[g] = at[g]
    BY <1>1, Turn DEF End, SeenInv
  <2>13. ASSUME NEW g \in Handlers PROVE Untouched(g)
    <3> SUFFICES ASSUME at[g].does = "writing", NEW i \in DOMAIN items', i < nextItem
                 PROVE  i \in DOMAIN items /\ (i \in at[g].rows => items'[i] = items[i])
      BY DEF Untouched
    <3>1. CASE i \in DOMAIN result.writes
      <4>1. i \in at[h].visible \cap DOMAIN items
        BY <2>2, <2>6, <3>1
      <4>2. i \notin at[g].rows
        BY <1>1, <4>1 DEF RowsLocked, RowLocked
      <4> QED BY <4>1, <4>2
    <3>2. CASE i \in DOMAIN left \ DOMAIN result.writes
      BY <2>7, <2>8, <3>2
    <3> QED BY <2>8, <3>1, <3>2
  <2> QED BY <1>1, <2>9, <2>10, <2>11, <2>12, <2>13, RowsKeepSeen
<1> QED BY <1>2, <1>3, <1>4

LEMMA SeenKept == ASSUME SeenInv, [Next]_vars PROVE SeenInv'
<1>1. QueueInv'
  BY QueueKept DEF SeenInv
<1>2. CASE EditProject \/ Ask \/ Reject \/ Rest \/ UNCHANGED vars
  BY <1>1, <1>2, RestKeepsSeen DEF EditProject, Ask, Reject, Rest, vars
<1>3. CASE RemoveItem \/ CreateItem
  BY <1>1, <1>3, RemoveItemKeepsSeen, CreateItemKeepsSeen
<1>4. CASE Export \/ EditFile
  <2>1. UNCHANGED <<items, nextItem, written, at>>
    BY <1>4 DEF Export, EditFile
  <2>2. IsFiniteSet(DOMAIN file'.entries)
    <3>1. CASE Export
      <4>1. DOMAIN file'.entries = DOMAIN items
        BY <3>1 DEF Export, exportLibraryFile
      <4>2. nextItem \in Nat /\ DOMAIN items \subseteq 0..nextItem
        BY DEF SeenInv, ItemsInv
      <4>3. IsFiniteSet(0..nextItem)
        BY <4>2, FS_Interval
      <4> QED BY <4>1, <4>2, <4>3, FS_Subset
    <3>2. CASE EditFile
      BY <3>2 DEF EditFile
    <3> QED BY <1>4, <3>1, <3>2
  <2>3. ItemsInv'
    BY <2>1, <2>2 DEF SeenInv, ItemsInv, Committed
  <2> QED BY <1>1, <2>1, <2>3, ItemsStay DEF SeenInv
<1>5. ASSUME NEW h \in Handlers, Begins(h) \/ Works(h) PROVE SeenInv'
  <2>1. CASE Begins(h)
    BY <1>1, <2>1, BeginsKeepsSeen
  <2>2. CASE Cancel(h) \/ Resync(h) \/ BreakDeadlock(h)
    BY <1>1, <2>2, EndKeepsSeen DEF Cancel, Resync, BreakDeadlock
  <2>3. CASE LockProject(h) \/ LockItems(h) \/ CommitPromote(h) \/ LockLibrary(h)
    BY <1>1, <2>3, LocksKeepSeen, LockItemsKeepsSeen, CommitKeepsSeen
  <2>4. CASE WriteItem(h) \/ Import(h)
    BY <1>1, <2>4, WriteItemKeepsSeen, ImportKeepsSeen
  <2> QED BY <1>5, <2>1, <2>2, <2>3, <2>4 DEF Works
<1> QED BY <1>2, <1>3, <1>4, <1>5 DEF Next

LEMMA SeenStarts == ASSUME Init PROVE SeenInv
<1>1. QueueInv
  BY QueueStarts
<1>2. items = StartItems /\ nextItem = Cardinality(DOMAIN StartItems) + 1 /\ file = None
      /\ written = Committed(StartItems)
  BY DEF Init
<1>3. Cardinality(DOMAIN StartItems) \in Nat
  BY StartIsFinite, FS_CardinalityType
<1>4. \A i \in DOMAIN items : i \in Nat /\ i < nextItem
  BY <1>2, <1>3, StartIsFinite
<1>5. ItemsInv
  BY <1>2, <1>3, <1>4 DEF ItemsInv
<1>6. \A h \in Handlers : at[h] = Idle
  BY DEF Init
<1> QED BY <1>1, <1>5, <1>6 DEF SeenInv, Looks, Writes, Uploads, Idle

(* A promotion replaces a row only if whoever chose it saw that value:     *)
(* for any number of people, requests, imports and edits of items, every   *)
(* row a promotion is about to write over was on the screen, or has a      *)
(* version two writers share.                                              *)
THEOREM PromotionReplacesWhatWasSeen == Spec => PromoteReplacesWhatWasSeen
<1>1. ASSUME SeenInv, [Next]_vars
      PROVE  [\A h \in Handlers : Promotes(h) =>
                 \A i \in DOMAIN at[h].writes \cap DOMAIN items :
                    Raced(i, items[i].version) \/ PayloadOf(items[i]) \in Range(at[h].seen)]_vars
  BY <1>1 DEF SeenInv, Writes, WasSeen, Promotes
<1>2. SeenInv /\ [Next]_vars => SeenInv'
  BY SeenKept
<1> QED BY <1>1, <1>2, SeenStarts, PTL DEF Spec, PromoteReplacesWhatWasSeen
-----------------------------------------------------------------------------
(* What a preview shows of a file depends on the rows and their versions,  *)
(* not on the ids that new rows would get.                                 *)
Ref(d, next) == d = None \/ (d \in Nat /\ d < next)
Library(rows, next) ==
    next \in Nat /\ \A i \in DOMAIN rows : i \in Nat /\ i < next /\ Ref(rows[i].domain, next)
Alike(rows, others) ==
    /\ DOMAIN rows = DOMAIN others
    /\ \A i \in DOMAIN rows : /\ rows[i].kind = others[i].kind /\ rows[i].version = others[i].version
                              /\ PayloadOf(rows[i]) = PayloadOf(others[i])
FilePlan(rows, doc, next) == planLibraryImport(rows, doc, MatchOf(rows, doc.entries), next)
Preview(rows, doc, next) == summarizeLibraryImport(rows, doc, FilePlan(rows, doc, next))

LEMMA AlikeFacts ==
  ASSUME NEW r, NEW s, Alike(r, s)
  PROVE  \A i \in DOMAIN r : r[i].name = s[i].name /\ r[i].domain = s[i].domain
<1> SUFFICES ASSUME NEW i \in DOMAIN r PROVE r[i].name = s[i].name /\ r[i].domain = s[i].domain
  OBVIOUS
<1>1. PayloadOf(r[i]) = PayloadOf(s[i])
  BY DEF Alike
<1>2. PayloadOf(r[i]).name = PayloadOf(s[i]).name /\ PayloadOf(r[i]).domain = PayloadOf(s[i]).domain
  BY <1>1
<1> QED BY <1>2 DEF PayloadOf

LEMMA AlikeMatch ==
  ASSUME NEW r, NEW s, NEW lines, Alike(r, s)
  PROVE  MatchOf(r, lines) = MatchOf(s, lines)
<1>1. ASSUME NEW like PROVE Namesakes(r, like) = Namesakes(s, like)
  BY AlikeFacts DEF Namesakes, Alike
<1>2. ASSUME NEW byId, NEW l PROVE Unclaimed(r, lines, byId, l) = Unclaimed(s, lines, byId, l)
  BY <1>1 DEF Unclaimed
<1>3. ASSUME NEW byId PROVE MatchLines(r, lines, byId) = MatchLines(s, lines, byId)
  <2>1. PICK free : free = [l \in DOMAIN lines |-> Unclaimed(r, lines, byId, l)]
    OBVIOUS
  <2>2. \A l \in DOMAIN lines : Unclaimed(r, lines, byId, l) = free[l] /\ Unclaimed(s, lines, byId, l) = free[l]
    BY <1>2, <2>1
  <2>3. /\ {k \in DOMAIN lines \ byId : Unclaimed(r, lines, byId, k) # {}} = {k \in DOMAIN lines \ byId : free[k] # {}}
        /\ {k \in DOMAIN lines \ byId : Unclaimed(s, lines, byId, k) # {}} = {k \in DOMAIN lines \ byId : free[k] # {}}
    BY <2>2
  <2>4. PICK byName : byName = {k \in DOMAIN lines \ byId : free[k] # {}}
    OBVIOUS
  <2>5. [l \in byName |-> CHOOSE i \in Unclaimed(r, lines, byId, l) : TRUE]
        = [l \in byName |-> CHOOSE i \in Unclaimed(s, lines, byId, l) : TRUE]
    <3>1. ASSUME NEW l \in byName
          PROVE  (CHOOSE i \in Unclaimed(r, lines, byId, l) : TRUE) = (CHOOSE i \in Unclaimed(s, lines, byId, l) : TRUE)
      BY <1>2
    <3> QED BY <3>1
  <2> QED BY <2>3, <2>4, <2>5 DEF MatchLines
<1>4. {l \in DOMAIN lines : lines[l].id \in DOMAIN r /\ r[lines[l].id].kind = lines[l].kind}
      = {l \in DOMAIN lines : lines[l].id \in DOMAIN s /\ s[lines[l].id].kind = lines[l].kind}
  BY DEF Alike
<1> QED BY <1>3, <1>4 DEF MatchOf

LEMMA AlikePreview ==
  ASSUME NEW r, NEW s, NEW doc, NEW next, Alike(r, s)
  PROVE  Preview(r, doc, next) = Preview(s, doc, next)
<1>1. PICK match : match = MatchOf(r, doc.entries) /\ match = MatchOf(s, doc.entries)
  BY AlikeMatch
<1>2. PICK target : target = TargetsOf(match, DOMAIN doc.entries \ DOMAIN match, next)
  OBVIOUS
<1>3. /\ FilePlan(r, doc, next) = ImportPlan(r, doc, match, target)
      /\ FilePlan(s, doc, next) = ImportPlan(s, doc, match, target)
  BY <1>1, <1>2 DEF FilePlan, planLibraryImport
<1>4. ASSUME NEW line, NEW i, NEW payload PROVE ImportEntry(r, line, i, payload) = ImportEntry(s, line, i, payload)
  BY DEF ImportEntry, ImportStatus, Alike
<1>5. ASSUME NEW lines, NEW lineOf PROVE ImportEntries(r, lines, target, lineOf) = ImportEntries(s, lines, target, lineOf)
  BY <1>4 DEF ImportEntries
<1>6. {i \in DOMAIN r \ Range(match) : r[i].kind \in doc.present}
      = {i \in DOMAIN s \ Range(match) : s[i].kind \in doc.present}
  BY DEF Alike
<1>7. PICK plan : plan = FilePlan(r, doc, next) /\ plan = FilePlan(s, doc, next)
  BY <1>3, <1>5, <1>6 DEF ImportPlan
<1>8. DOMAIN r = DOMAIN s /\ \A i \in DOMAIN r : r[i].domain = s[i].domain
  BY AlikeFacts DEF Alike
<1>9. \A i \in DOMAIN plan.entries : plan.entries[i].status = "stale" => i \in DOMAIN r
  BY <1>3, <1>7 DEF ImportPlan, ImportEntries, ImportEntry, ImportStatus
<1>10. {r[i].domain : i \in {j \in DOMAIN plan.entries : plan.entries[j].status = "stale"}}
       = {s[i].domain : i \in {j \in DOMAIN plan.entries : plan.entries[j].status = "stale"}}
  BY <1>8, <1>9
<1>11. {r[i].domain : i \in DOMAIN r} = {s[i].domain : i \in DOMAIN s}
  BY <1>8
<1>12. Referenced(r, doc, plan) = Referenced(s, doc, plan)
  BY <1>10, <1>11 DEF Referenced
<1> QED BY <1>7, <1>12 DEF Preview, summarizeLibraryImport

(* Where the lines of a file go: to rows there are, or to new ones.        *)
Inserted(rows, doc) == DOMAIN doc.entries \ DOMAIN MatchOf(rows, doc.entries)
Targets(rows, doc, next) == TargetsOf(MatchOf(rows, doc.entries), Inserted(rows, doc), next)
LEMMA TargetFacts ==
  ASSUME NEW r, NEW doc, NEW next, IsFiniteSet(DOMAIN doc.entries), Library(r, next)
  PROVE  /\ DOMAIN Targets(r, doc, next) = DOMAIN doc.entries
         /\ \A l \in DOMAIN doc.entries \ Inserted(r, doc) :
               Targets(r, doc, next)[l] = MatchOf(r, doc.entries)[l] /\ MatchOf(r, doc.entries)[l] \in DOMAIN r
         /\ \A l \in Inserted(r, doc) :
               /\ Targets(r, doc, next)[l] = next + Position(l, Inserted(r, doc)) /\ Position(l, Inserted(r, doc)) \in Nat
               /\ Position(l, Inserted(r, doc)) < Cardinality(Inserted(r, doc))
               /\ Targets(r, doc, next)[l] \notin DOMAIN r
<1>1. DOMAIN MatchOf(r, doc.entries) \subseteq DOMAIN doc.entries
  BY DEF MatchOf, MatchLines, Over
<1>2. PICK new : new = [l \in Inserted(r, doc) |-> next + Position(l, Inserted(r, doc))]
  OBVIOUS
<1>3. PICK match : match = MatchOf(r, doc.entries)
  OBVIOUS
<1>4. Targets(r, doc, next) = Over(match, new) /\ DOMAIN new = Inserted(r, doc)
  BY <1>2, <1>3 DEF Targets, TargetsOf
<1>5. /\ DOMAIN Over(match, new) = DOMAIN match \cup DOMAIN new
      /\ \A l \in DOMAIN match : Over(match, new)[l] = match[l]
      /\ \A l \in DOMAIN new \ DOMAIN match : Over(match, new)[l] = new[l]
  BY OverFacts
<1>6. DOMAIN match = DOMAIN doc.entries \ Inserted(r, doc) /\ Inserted(r, doc) \subseteq DOMAIN doc.entries
  BY <1>1, <1>3 DEF Inserted
<1>7. \A l \in DOMAIN match : match[l] \in DOMAIN r
  BY <1>3, MatchFacts
<1>8. ASSUME NEW l \in Inserted(r, doc)
      PROVE  /\ new[l] = next + Position(l, Inserted(r, doc)) /\ Position(l, Inserted(r, doc)) \in Nat
             /\ Position(l, Inserted(r, doc)) < Cardinality(Inserted(r, doc)) /\ new[l] \notin DOMAIN r
  <2>1. IsFiniteSet(Inserted(r, doc))
    BY FS_Subset DEF Inserted
  <2>2. Position(l, Inserted(r, doc)) \in Nat /\ Position(l, Inserted(r, doc)) < Cardinality(Inserted(r, doc))
    BY <2>1, PositionFacts
  <2>3. next + Position(l, Inserted(r, doc)) \notin DOMAIN r
    BY <2>2 DEF Library
  <2> QED BY <1>2, <2>2, <2>3
<1>9. DOMAIN Targets(r, doc, next) = DOMAIN doc.entries
  BY <1>4, <1>5, <1>6
<1> QED BY <1>3, <1>4, <1>5, <1>6, <1>7, <1>8, <1>9

LEMMA EntryFacts ==
  ASSUME NEW r, NEW doc, NEW next, NEW i \in DOMAIN FilePlan(r, doc, next).entries
  PROVE  LET l == AntiFunction(Targets(r, doc, next))[i]
         IN  /\ i \in Range(Targets(r, doc, next)) /\ l \in DOMAIN Targets(r, doc, next)
             /\ Targets(r, doc, next)[l] = i
             /\ FilePlan(r, doc, next).entries[i] =
                   ImportEntry(r, doc.entries[l], i, LinePayload(doc.entries, Targets(r, doc, next), doc.entries[l]))
<1>1. PICK target : target = Targets(r, doc, next)
  OBVIOUS
<1>2. FilePlan(r, doc, next).entries = ImportEntries(r, doc.entries, target, AntiFunction(target))
  BY <1>1 DEF FilePlan, planLibraryImport, ImportPlan, Targets, Inserted
<1>3. DOMAIN AntiFunction(target) = Range(target)
  BY DEF AntiFunction, Inverse
<1>4. i \in Range(target)
  BY <1>2, <1>3 DEF ImportEntries
<1>5. AntiFunction(target)[i] \in DOMAIN target /\ target[AntiFunction(target)[i]] = i
  <2>1. PICK k \in DOMAIN target : target[k] = i
    BY <1>4 DEF Range
  <2>2. AntiFunction(target)[i] = CHOOSE l \in DOMAIN target : i \in Range(target) => target[l] = i
    BY <1>4 DEF AntiFunction, Inverse
  <2> QED BY <1>4, <2>1, <2>2
<1> QED BY <1>1, <1>2, <1>3, <1>4, <1>5 DEF ImportEntries

(* The row a line goes to is, whatever the next id, the same one or new.   *)
LEMMA LineFacts ==
  ASSUME NEW r, NEW doc, NEW n, NEW m, IsFiniteSet(DOMAIN doc.entries), Library(r, n), Library(r, m),
         NEW i \in Range(Targets(r, doc, n)),
         NEW l \in DOMAIN doc.entries, l = AntiFunction(Targets(r, doc, n))[i], Targets(r, doc, n)[l] = i
  PROVE  /\ Targets(r, doc, m)[l] \in Range(Targets(r, doc, m))
         /\ AntiFunction(Targets(r, doc, m))[Targets(r, doc, m)[l]] = l
<1> DEFINE U == Inserted(r, doc)
           match == MatchOf(r, doc.entries)
<1>1. PICK s : s = Targets(r, doc, n)
  OBVIOUS
<1>2. PICK t : t = Targets(r, doc, m)
  OBVIOUS
<1>3. /\ DOMAIN s = DOMAIN doc.entries
      /\ \A k \in DOMAIN doc.entries \ U : s[k] = match[k] /\ match[k] \in DOMAIN r
      /\ \A k \in U : s[k] = n + Position(k, U) /\ Position(k, U) \in Nat
  BY <1>1, TargetFacts
<1>4. /\ DOMAIN t = DOMAIN doc.entries
      /\ \A k \in DOMAIN doc.entries \ U : t[k] = match[k] /\ match[k] \in DOMAIN r
      /\ \A k \in U : t[k] = m + Position(k, U) /\ Position(k, U) \in Nat
  BY <1>2, TargetFacts
<1>5. n \in Nat /\ m \in Nat /\ \A k \in DOMAIN r : k \in Nat /\ k < n /\ k < m
  BY DEF Library
<1>6. \A k \in DOMAIN doc.entries : s[k] = s[l] <=> t[k] = t[l]
  <2> TAKE k \in DOMAIN doc.entries
  <2> HIDE DEF U, match
  <2>1. CASE k \in U /\ l \in U
    BY <1>3, <1>4, <1>5, <2>1
  <2>2. CASE k \notin U /\ l \notin U
    BY <1>3, <1>4, <2>2
  <2>3. CASE k \in U /\ l \notin U
    <3>1. PICK p \in Nat : s[k] = n + p /\ t[k] = m + p
      BY <1>3, <1>4, <2>3
    <3>2. s[l] \in DOMAIN r /\ t[l] \in DOMAIN r
      BY <1>3, <1>4, <2>3
    <3>3. s[l] \in Nat /\ t[l] \in Nat /\ s[l] < n /\ t[l] < m
      BY <1>5, <3>2
    <3> QED BY <1>5, <3>1, <3>3
  <2>4. CASE k \notin U /\ l \in U
    <3>1. PICK p \in Nat : s[l] = n + p /\ t[l] = m + p
      BY <1>3, <1>4, <2>4
    <3>2. s[k] \in DOMAIN r /\ t[k] \in DOMAIN r
      BY <1>3, <1>4, <2>4
    <3>3. s[k] \in Nat /\ t[k] \in Nat /\ s[k] < n /\ t[k] < m
      BY <1>5, <3>2
    <3> QED BY <1>5, <3>1, <3>3
  <2> QED BY <2>1, <2>2, <2>3, <2>4
<1>7. i = s[l] /\ i \in Range(s) /\ t[l] \in Range(t)
  BY <1>1, <1>4 DEF Range
<1>8. AntiFunction(s)[i] = CHOOSE k \in DOMAIN doc.entries : i \in Range(s) => s[k] = i
  BY <1>3, <1>7 DEF AntiFunction, Inverse
<1>9. AntiFunction(t)[t[l]] = CHOOSE k \in DOMAIN doc.entries : t[l] \in Range(t) => t[k] = t[l]
  BY <1>4, <1>7 DEF AntiFunction, Inverse
<1>10. \A k \in DOMAIN doc.entries : (i \in Range(s) => s[k] = i) <=> (t[l] \in Range(t) => t[k] = t[l])
  BY <1>6, <1>7
<1>11. (CHOOSE k \in DOMAIN doc.entries : i \in Range(s) => s[k] = i)
       = (CHOOSE k \in DOMAIN doc.entries : t[l] \in Range(t) => t[k] = t[l])
  BY <1>10
<1>12. AntiFunction(t)[t[l]] = l
  BY <1>1, <1>8, <1>9, <1>11
<1> QED BY <1>2, <1>7, <1>12

Resolvable(lines) ==
    \A l \in DOMAIN lines : lines[l].domain # None => \E k \in DOMAIN lines : lines[k].id = lines[l].domain
(* What a line refers to: the same row, or new ones.                       *)
LEMMA PayloadFacts ==
  ASSUME NEW r, NEW doc, NEW n, NEW m, IsFiniteSet(DOMAIN doc.entries), Library(r, n), Library(r, m),
         Resolvable(doc.entries), NEW l \in DOMAIN doc.entries
  PROVE  LET a == LinePayload(doc.entries, Targets(r, doc, n), doc.entries[l])
             b == LinePayload(doc.entries, Targets(r, doc, m), doc.entries[l])
         IN  /\ a.name = doc.entries[l].name /\ b.name = doc.entries[l].name /\ a.data = b.data
             /\ \/ a = b /\ (a.domain = None \/ a.domain \in DOMAIN r)
                \/ /\ a.domain \in Nat /\ n <= a.domain /\ a.domain < n + Cardinality(Inserted(r, doc))
                   /\ b.domain \in Nat /\ m <= b.domain
<1>1. PICK s : s = Targets(r, doc, n)
  OBVIOUS
<1>2. PICK t : t = Targets(r, doc, m)
  OBVIOUS
<1>3. PICK k : k = CHOOSE x \in DOMAIN doc.entries : doc.entries[x].id = doc.entries[l].domain
  OBVIOUS
<1>4. PICK a : a = LinePayload(doc.entries, s, doc.entries[l])
  OBVIOUS
<1>5. PICK b : b = LinePayload(doc.entries, t, doc.entries[l])
  OBVIOUS
<1>6. /\ a = [name |-> doc.entries[l].name, data |-> doc.entries[l].data,
              domain |-> IF doc.entries[l].domain = None THEN None ELSE s[k]]
      /\ b = [name |-> doc.entries[l].name, data |-> doc.entries[l].data,
              domain |-> IF doc.entries[l].domain = None THEN None ELSE t[k]]
  BY <1>3, <1>4, <1>5 DEF LinePayload
<1>7. CASE doc.entries[l].domain = None
  BY <1>1, <1>2, <1>4, <1>5, <1>6, <1>7
<1>8. CASE doc.entries[l].domain # None
  <2>1. k \in DOMAIN doc.entries
    BY <1>3, <1>8 DEF Resolvable
  <2>2. /\ k \notin Inserted(r, doc) => s[k] = MatchOf(r, doc.entries)[k] /\ s[k] \in DOMAIN r
        /\ k \in Inserted(r, doc) => /\ s[k] = n + Position(k, Inserted(r, doc)) /\ Position(k, Inserted(r, doc)) \in Nat
                                     /\ Position(k, Inserted(r, doc)) < Cardinality(Inserted(r, doc))
    BY <1>1, <2>1, TargetFacts
  <2>3. /\ k \notin Inserted(r, doc) => t[k] = MatchOf(r, doc.entries)[k]
        /\ k \in Inserted(r, doc) => t[k] = m + Position(k, Inserted(r, doc))
    BY <1>2, <2>1, TargetFacts
  <2>4. n \in Nat /\ m \in Nat
    BY DEF Library
  <2>5. a.domain = s[k] /\ b.domain = t[k]
    BY <1>6, <1>8
  <2>6. CASE k \notin Inserted(r, doc)
    <3>1. s[k] = t[k] /\ s[k] \in DOMAIN r
      BY <2>2, <2>3, <2>6
    <3>2. a = b /\ a.domain \in DOMAIN r
      BY <1>6, <2>5, <3>1
    <3> QED BY <1>1, <1>2, <1>4, <1>5, <1>6, <3>2
  <2>7. CASE k \in Inserted(r, doc)
    <3>1. Cardinality(Inserted(r, doc)) \in Nat
      BY FS_Subset, FS_CardinalityType DEF Inserted
    <3>2. /\ s[k] \in Nat /\ n <= s[k] /\ s[k] < n + Cardinality(Inserted(r, doc))
          /\ t[k] \in Nat /\ m <= t[k]
      BY <2>2, <2>3, <2>4, <2>7, <3>1
    <3> QED BY <1>1, <1>2, <1>4, <1>5, <1>6, <2>5, <3>2
  <2> QED BY <2>6, <2>7
<1> QED BY <1>7, <1>8

(* An entry of a plan, and of the plan that counts from another id.        *)
Counterpart(rows, e, f) ==
    /\ e.kind = f.kind /\ e.payload.name = f.payload.name /\ e.status = f.status
    /\ e.payload.domain \in DOMAIN rows => f.payload.domain = e.payload.domain
LEMMA EntryElsewhere ==
  ASSUME NEW r, NEW doc, NEW n, NEW m, IsFiniteSet(DOMAIN doc.entries), Library(r, n), Library(r, m),
         Resolvable(doc.entries), NEW i \in DOMAIN FilePlan(r, doc, n).entries
  PROVE  \E j \in DOMAIN FilePlan(r, doc, m).entries :
            /\ Counterpart(r, FilePlan(r, doc, n).entries[i], FilePlan(r, doc, m).entries[j])
            /\ FilePlan(r, doc, n).entries[i].status = "stale" => i = j /\ i \in DOMAIN r
<1>1. PICK l : l = AntiFunction(Targets(r, doc, n))[i]
  OBVIOUS
<1>2. PICK j : j = Targets(r, doc, m)[l]
  OBVIOUS
<1>3. PICK line : line = doc.entries[l]
  OBVIOUS
<1>4. PICK a : a = LinePayload(doc.entries, Targets(r, doc, n), line)
  OBVIOUS
<1>5. PICK b : b = LinePayload(doc.entries, Targets(r, doc, m), line)
  OBVIOUS
<1>6. /\ i \in Range(Targets(r, doc, n)) /\ l \in DOMAIN doc.entries /\ Targets(r, doc, n)[l] = i
      /\ FilePlan(r, doc, n).entries[i] = ImportEntry(r, line, i, a)
  <2>1. /\ i \in Range(Targets(r, doc, n)) /\ l \in DOMAIN Targets(r, doc, n) /\ Targets(r, doc, n)[l] = i
        /\ FilePlan(r, doc, n).entries[i] = ImportEntry(r, line, i, a)
    BY <1>1, <1>3, <1>4, EntryFacts
  <2>2. DOMAIN Targets(r, doc, n) = DOMAIN doc.entries
    BY TargetFacts
  <2> QED BY <2>1, <2>2
<1>7. j \in Range(Targets(r, doc, m)) /\ AntiFunction(Targets(r, doc, m))[j] = l
  BY <1>1, <1>2, <1>6, LineFacts
<1>8. j \in DOMAIN FilePlan(r, doc, m).entries
  <2>1. DOMAIN AntiFunction(Targets(r, doc, m)) = Range(Targets(r, doc, m))
    BY DEF AntiFunction, Inverse
  <2> QED BY <1>7, <2>1 DEF FilePlan, planLibraryImport, ImportPlan, ImportEntries, Targets, Inserted
<1>9. FilePlan(r, doc, m).entries[j] = ImportEntry(r, line, j, b)
  BY <1>3, <1>5, <1>7, <1>8, EntryFacts
<1>10. /\ a.name = line.name /\ b.name = line.name /\ a.data = b.data
       /\ \/ a = b /\ (a.domain = None \/ a.domain \in DOMAIN r)
          \/ /\ a.domain \in Nat /\ n <= a.domain
             /\ b.domain \in Nat /\ m <= b.domain
  BY <1>3, <1>4, <1>5, <1>6, PayloadFacts
<1>11. \/ i \in DOMAIN r /\ i = j
       \/ i \notin DOMAIN r /\ j \notin DOMAIN r
  <2>1. /\ l \notin Inserted(r, doc) => i = MatchOf(r, doc.entries)[l] /\ i \in DOMAIN r
        /\ l \in Inserted(r, doc) => i \notin DOMAIN r
    BY <1>6, TargetFacts
  <2>2. /\ l \notin Inserted(r, doc) => j = MatchOf(r, doc.entries)[l]
        /\ l \in Inserted(r, doc) => j \notin DOMAIN r
    BY <1>2, <1>6, TargetFacts
  <2> QED BY <2>1, <2>2
<1>12. ASSUME NEW x \in DOMAIN r PROVE a = PayloadOf(r[x]) <=> b = PayloadOf(r[x])
  <2>1. CASE a = b
    BY <2>1
  <2>2. CASE a # b
    <3>1. a.domain \in Nat /\ n <= a.domain /\ b.domain \in Nat /\ m <= b.domain
      BY <1>10, <2>2
    <3>2. /\ r[x].domain = None \/ (r[x].domain \in Nat /\ r[x].domain < n /\ r[x].domain < m)
          /\ n \in Nat /\ m \in Nat
      BY DEF Library, Ref
    <3>3. a.domain # r[x].domain /\ b.domain # r[x].domain
      BY <3>1, <3>2, NoneIsNoId
    <3> QED BY <3>3 DEF PayloadOf
  <2> QED BY <2>1, <2>2
<1>13. ImportStatus(r, line, i, a) = ImportStatus(r, line, j, b)
  BY <1>11, <1>12 DEF ImportStatus
<1>14. ImportStatus(r, line, i, a) = "stale" => i \in DOMAIN r
  BY DEF ImportStatus
<1>15. a.domain \in DOMAIN r => b.domain = a.domain
  BY <1>10 DEF Library
<1> WITNESS j \in DOMAIN FilePlan(r, doc, m).entries
<1>16. /\ FilePlan(r, doc, n).entries[i] = [kind |-> line.kind, payload |-> a, status |-> ImportStatus(r, line, i, a)]
       /\ FilePlan(r, doc, m).entries[j] = [kind |-> line.kind, payload |-> b, status |-> ImportStatus(r, line, j, b)]
  BY <1>6, <1>9 DEF ImportEntry
<1> QED BY <1>10, <1>11, <1>13, <1>14, <1>15, <1>16 DEF Counterpart

LEMMA ShownElsewhere ==
  ASSUME NEW r, NEW doc, NEW n, NEW m, IsFiniteSet(DOMAIN doc.entries), Library(r, n), Library(r, m),
         Resolvable(doc.entries), NEW p, p = FilePlan(r, doc, n), NEW q, q = FilePlan(r, doc, m)
  PROVE  /\ {<<e.kind, e.payload.name, e.status>> : e \in Range(p.entries)}
            \subseteq {<<e.kind, e.payload.name, e.status>> : e \in Range(q.entries)}
         /\ p.absent = q.absent /\ p.absent \subseteq DOMAIN r
         /\ p.absent \cap Referenced(r, doc, p) \subseteq Referenced(r, doc, q)
<1>1. ASSUME NEW i \in DOMAIN p.entries
      PROVE  \E j \in DOMAIN q.entries :
                /\ Counterpart(r, p.entries[i], q.entries[j])
                /\ p.entries[i].status = "stale" => i = j /\ i \in DOMAIN r
  <2>1. i \in DOMAIN FilePlan(r, doc, n).entries
    BY <1>1
  <2>2. \E j \in DOMAIN FilePlan(r, doc, m).entries :
           /\ Counterpart(r, FilePlan(r, doc, n).entries[i], FilePlan(r, doc, m).entries[j])
           /\ FilePlan(r, doc, n).entries[i].status = "stale" => i = j /\ i \in DOMAIN r
    BY <2>1, EntryElsewhere
  <2> QED BY <2>2
<1>2. ASSUME NEW c \in {<<e.kind, e.payload.name, e.status>> : e \in Range(p.entries)}
      PROVE  c \in {<<e.kind, e.payload.name, e.status>> : e \in Range(q.entries)}
  <2>1. PICK i \in DOMAIN p.entries :
          c = <<p.entries[i].kind, p.entries[i].payload.name, p.entries[i].status>>
    BY <1>2 DEF Range
  <2>2. PICK j \in DOMAIN q.entries :
          c = <<q.entries[j].kind, q.entries[j].payload.name, q.entries[j].status>>
    BY <1>1, <2>1 DEF Counterpart
  <2> QED BY <2>2 DEF Range
<1>3. p.absent = q.absent /\ p.absent \subseteq DOMAIN r
  BY DEF FilePlan, planLibraryImport, ImportPlan
<1>4. ASSUME NEW d \in p.absent \cap Referenced(r, doc, p) PROVE d \in Referenced(r, doc, q)
  <2>1. CASE d \in {p.entries[i].payload.domain : i \in DOMAIN p.entries}
    <3>1. PICK i \in DOMAIN p.entries : d = p.entries[i].payload.domain
      BY <2>1
    <3>2. PICK j \in DOMAIN q.entries : q.entries[j].payload.domain = d
      BY <1>1, <1>3, <1>4, <3>1 DEF Counterpart
    <3> QED BY <3>2 DEF Referenced
  <2>2. CASE d \in {r[i].domain : i \in {j \in DOMAIN p.entries : p.entries[j].status = "stale"}}
    <3>1. PICK i \in DOMAIN p.entries : p.entries[i].status = "stale" /\ d = r[i].domain
      BY <2>2
    <3>2. i \in DOMAIN q.entries /\ q.entries[i].status = "stale"
      BY <1>1, <3>1 DEF Counterpart
    <3> QED BY <3>1, <3>2 DEF Referenced
  <2>3. CASE d \in IF "term" \in doc.present THEN {} ELSE {r[i].domain : i \in DOMAIN r}
    BY <2>3 DEF Referenced
  <2> QED BY <1>4, <2>1, <2>2, <2>3 DEF Referenced
<1> QED BY <1>2, <1>3, <1>4

LEMMA NumberedPreview ==
  ASSUME NEW r, NEW doc, NEW n, NEW m, IsFiniteSet(DOMAIN doc.entries), Library(r, n), Library(r, m),
         Resolvable(doc.entries)
  PROVE  Preview(r, doc, n) = Preview(r, doc, m)
<1>1. PICK p : p = FilePlan(r, doc, n)
  OBVIOUS
<1>2. PICK q : q = FilePlan(r, doc, m)
  OBVIOUS
<1>3. /\ {<<e.kind, e.payload.name, e.status>> : e \in Range(p.entries)}
         = {<<e.kind, e.payload.name, e.status>> : e \in Range(q.entries)}
      /\ p.absent = q.absent
      /\ p.absent \cap Referenced(r, doc, p) = q.absent \cap Referenced(r, doc, q)
  <2>1. /\ {<<e.kind, e.payload.name, e.status>> : e \in Range(p.entries)}
           \subseteq {<<e.kind, e.payload.name, e.status>> : e \in Range(q.entries)}
        /\ p.absent = q.absent /\ p.absent \cap Referenced(r, doc, p) \subseteq Referenced(r, doc, q)
    BY <1>1, <1>2, ShownElsewhere
  <2>2. /\ {<<e.kind, e.payload.name, e.status>> : e \in Range(q.entries)}
           \subseteq {<<e.kind, e.payload.name, e.status>> : e \in Range(p.entries)}
        /\ q.absent \cap Referenced(r, doc, q) \subseteq Referenced(r, doc, p)
    BY <1>1, <1>2, ShownElsewhere
  <2> QED BY <2>1, <2>2
<1>4. Summary(p, Referenced(r, doc, p)) = Summary(q, Referenced(r, doc, q))
  BY <1>3 DEF Summary
<1> QED BY <1>1, <1>2, <1>4 DEF Preview, summarizeLibraryImport
-----------------------------------------------------------------------------
(* Between preview and import.  An id, once committed, means a row of one  *)
(* kind for ever; rows that get a new version or are created show in the   *)
(* hash; the library is locked against new rows while it is imported into. *)
Fresh(i) == \A w \in written : w.item # i
PreviewedOn(flow, rows, next) ==
    /\ flow.hash = libraryStateHash(rows) /\ flow.shown = Preview(rows, flow.doc, next)
    /\ Library(rows, next) /\ next <= nextItem /\ Committed(rows) \subseteq written
    /\ \A i \in DOMAIN rows \cap DOMAIN items : rows[i].kind = items[i].kind
Previewed(h) == at[h].does \in {"import", "importing"} =>
    /\ IsFiniteSet(DOMAIN at[h].doc.entries) /\ Resolvable(at[h].doc.entries)
    /\ \E rows, next : PreviewedOn(at[h], rows, next)
Stores(h) ==
    /\ at[h].does = "writing" =>
          /\ at[h].chosen = {} => DOMAIN at[h].writes = {}
          /\ \A i \in DOMAIN at[h].writes :
                /\ Ref(at[h].writes[i].domain, nextItem)
                /\ Fresh(i) \/ i \in at[h].rows \cap DOMAIN items
    /\ at[h].does = "update" => Ref(at[h].row.domain, nextItem)
    /\ at[h].does = "importing" => DOMAIN items \subseteq at[h].visible
PreviewInv ==
    /\ SeenInv /\ Library(items, nextItem)
    /\ \A w \in written : w.item \in Nat /\ w.item < nextItem
    /\ \A h \in Handlers : Previewed(h) /\ Stores(h)
    /\ \A h, g \in Handlers : at[h].does = "importing" /\ at[g].does = "importing" => h = g

(* What a step may do to the library, and to whom it does not serve.       *)
Grows ==
    /\ nextItem' \in Nat /\ nextItem <= nextItem' /\ written \subseteq written'
    /\ Library(items, nextItem)' /\ \A w \in written' : w.item \in Nat /\ w.item < nextItem'
    /\ \A i \in DOMAIN items' : Fresh(i) \/ (i \in DOMAIN items /\ items'[i].kind = items[i].kind)
Undisturbed(g) ==
    /\ at[g].does = "writing" =>
          /\ at[g].rows \cap DOMAIN items \subseteq DOMAIN items'
          /\ \A w \in written' : w \in written \/ w.item \in DOMAIN items \/ ~ w.item < nextItem
    /\ at[g].does = "importing" => DOMAIN items' \subseteq DOMAIN items

LEMMA RefGrows ==
  ASSUME NEW d, NEW n \in Nat, NEW m \in Nat, n <= m, Ref(d, n) PROVE Ref(d, m)
  BY DEF Ref
LEMMA CommittedFacts ==
  ASSUME NEW rows, NEW S, Committed(rows) \subseteq S, NEW i \in DOMAIN rows
  PROVE  Value(i, rows[i].version, PayloadOf(rows[i])) \in S
  BY DEF Committed, Value
LEMMA ItemsAreOld ==
  ASSUME PreviewInv, NEW i \in DOMAIN items
  PROVE  ~ Fresh(i)
<1>1. Committed(items) \subseteq written
  BY DEF PreviewInv, SeenInv, ItemsInv
<1>2. Value(i, items[i].version, PayloadOf(items[i])) \in written
  BY <1>1, CommittedFacts
<1> QED BY <1>2 DEF Fresh, Value

LEMMA StillPreviewed ==
  ASSUME PreviewInv, Grows, NEW flow, NEW rows, NEW next, PreviewedOn(flow, rows, next)
  PROVE  PreviewedOn(flow, rows, next)'
<1>1. next <= nextItem'
  BY DEF PreviewInv, Library, Grows, PreviewedOn
<1>2. ASSUME NEW i \in DOMAIN rows \cap DOMAIN items' PROVE rows[i].kind = items'[i].kind
  <2>1. Value(i, rows[i].version, PayloadOf(rows[i])) \in written
    BY CommittedFacts DEF PreviewedOn
  <2>2. ~ Fresh(i)
    BY <2>1 DEF Fresh, Value
  <2> QED BY <2>2 DEF Grows, PreviewedOn
<1> QED BY <1>1, <1>2 DEF Grows, PreviewedOn

LEMMA StillStores ==
  ASSUME PreviewInv, Grows, NEW g \in Handlers, at'[g] = at[g], Undisturbed(g)
  PROVE  Previewed(g)' /\ Stores(g)'
<1>1. Previewed(g)'
  <2>1. SUFFICES ASSUME at[g].does \in {"import", "importing"}
                 PROVE  \E rows, next : PreviewedOn(at[g], rows, next)'
    BY DEF PreviewInv, Previewed
  <2>2. PICK flow : flow = at[g]
    OBVIOUS
  <2>3. PICK rows, next : PreviewedOn(flow, rows, next)
    BY <2>1, <2>2 DEF PreviewInv, Previewed
  <2>4. PreviewedOn(flow, rows, next)'
    BY <2>3, StillPreviewed
  <2> QED BY <2>2, <2>4 DEF PreviewedOn
<1>2. nextItem \in Nat /\ nextItem' \in Nat /\ nextItem <= nextItem'
  BY DEF PreviewInv, Library, Grows
<1>3. ASSUME at[g].does = "writing", NEW i \in DOMAIN at[g].writes
      PROVE  Ref(at[g].writes[i].domain, nextItem') /\ (Fresh(i)' \/ i \in at[g].rows \cap DOMAIN items')
  <2>1. Ref(at[g].writes[i].domain, nextItem) /\ (Fresh(i) \/ i \in at[g].rows \cap DOMAIN items)
    BY <1>3 DEF PreviewInv, Stores
  <2>2. i \in Nat /\ i < nextItem
    BY <1>3 DEF PreviewInv, SeenInv, Writes
  <2>3. CASE Fresh(i)
    <3>1. i \notin DOMAIN items
      BY <2>3, ItemsAreOld
    <3>2. Fresh(i)'
      BY <1>3, <2>2, <2>3, <3>1 DEF Fresh, Undisturbed
    <3> QED BY <1>2, <2>1, <3>2, RefGrows
  <2>4. CASE i \in at[g].rows \cap DOMAIN items
    BY <1>2, <1>3, <2>1, <2>4, RefGrows DEF Undisturbed
  <2> QED BY <2>1, <2>3, <2>4
<1>4. at[g].does = "update" => Ref(at[g].row.domain, nextItem')
  BY <1>2, RefGrows DEF PreviewInv, Stores
<1>5. at[g].does = "importing" => DOMAIN items' \subseteq at[g].visible
  BY DEF PreviewInv, Stores, Undisturbed
<1>6. at[g].does = "writing" /\ at[g].chosen = {} => DOMAIN at[g].writes = {}
  BY DEF PreviewInv, Stores
<1>7. Stores(g)'
  BY <1>3, <1>4, <1>5, <1>6 DEF Stores
<1> QED BY <1>1, <1>7

LEMMA TurnKeepsPreview ==
  ASSUME PreviewInv, SeenInv', Grows, NEW h \in Handlers, NEW flow, at' = [at EXCEPT ![h] = flow],
         Previewed(h)', Stores(h)', flow.does = "importing" => ~ LibraryLocked,
         \A g \in Handlers \ {h} : Undisturbed(g)
  PROVE  PreviewInv'
<1>1. at'[h] = flow /\ \A g \in Handlers \ {h} : at'[g] = at[g]
  BY Turn DEF PreviewInv, SeenInv
<1>2. \A g \in Handlers : Previewed(g)' /\ Stores(g)'
  BY <1>1, StillStores
<1>3. ASSUME NEW f \in Handlers, NEW g \in Handlers, at'[f].does = "importing", at'[g].does = "importing"
      PROVE  f = g
  BY <1>1, <1>3 DEF PreviewInv, LibraryLocked
<1> QED BY <1>2, <1>3 DEF PreviewInv, Grows

LEMMA AllKeepPreview ==
  ASSUME PreviewInv, SeenInv', Grows, UNCHANGED at, \A g \in Handlers : Undisturbed(g)
  PROVE  PreviewInv'
<1>1. \A g \in Handlers : Previewed(g)' /\ Stores(g)'
  BY StillStores
<1> QED BY <1>1 DEF PreviewInv, Grows

LEMMA NothingGrows ==
  ASSUME PreviewInv, UNCHANGED <<items, nextItem, written>>
  PROVE  Grows /\ \A g \in Handlers : Undisturbed(g)
<1>1. Library(items, nextItem)'
  BY DEF PreviewInv, Library
<1> QED BY <1>1 DEF PreviewInv, Library, Grows, Undisturbed

(* Handlers that take a turn and write nothing.                            *)
LEMMA FlowKeepsPreview ==
  ASSUME PreviewInv, SeenInv', UNCHANGED <<items, nextItem, written>>,
         NEW h \in Handlers, NEW flow, at' = [at EXCEPT ![h] = flow],
         flow.does \notin {"writing", "import", "importing"},
         flow.does = "update" => Ref(flow.row.domain, nextItem)
  PROVE  PreviewInv'
<1>1. at'[h] = flow
  BY Turn DEF PreviewInv, SeenInv
<1>2. Previewed(h)' /\ Stores(h)'
  BY <1>1 DEF Previewed, Stores, Ref
<1>3. Grows /\ \A g \in Handlers : Undisturbed(g)
  BY NothingGrows
<1> QED BY <1>2, <1>3, TurnKeepsPreview

LEMMA EndKeepsPreview ==
  ASSUME PreviewInv, SeenInv', Grows, NEW h \in Handlers, End(h), \A g \in Handlers \ {h} : Undisturbed(g)
  PROVE  PreviewInv'
<1>1. Idle.does = "nothing" /\ at' = [at EXCEPT ![h] = Idle]
  BY DEF End, Idle
<1>2. at'[h] = Idle
  BY <1>1, Turn DEF PreviewInv, SeenInv
<1>3. Previewed(h)' /\ Stores(h)'
  BY <1>1, <1>2 DEF Previewed, Stores
<1> QED BY <1>1, <1>3, TurnKeepsPreview

LEMMA QuietKeepsPreview ==
  ASSUME PreviewInv, SeenInv', UNCHANGED <<items, nextItem, written, at>> PROVE PreviewInv'
<1>1. Grows /\ \A g \in Handlers : Undisturbed(g)
  BY NothingGrows
<1> QED BY <1>1, AllKeepPreview

LEMMA QuietEndKeepsPreview ==
  ASSUME PreviewInv, SeenInv', UNCHANGED <<items, nextItem, written>>, NEW h \in Handlers, End(h)
  PROVE  PreviewInv'
<1>1. Grows /\ \A g \in Handlers : Undisturbed(g)
  BY NothingGrows
<1> QED BY <1>1, EndKeepsPreview

LEMMA PreviewImportKeepsPreview ==
  ASSUME PreviewInv, SeenInv', NEW h \in Handlers, PreviewImport(h) PROVE PreviewInv'
<1>1. PICK prune, includeStale :
        at' = [at EXCEPT ![h] = [does |-> "import", doc |-> file, prune |-> prune, includeStale |-> includeStale,
                                 hash |-> libraryStateHash(items),
                                 shown |-> summarizeLibraryImport(items, file, PlanOf(items, file))]]
  BY DEF PreviewImport, Start
<1>2. UNCHANGED <<items, nextItem, written>> /\ file # None /\ parseLibraryFile(file.entries)
  BY DEF PreviewImport
<1>3. PICK flow : /\ flow.does = "import" /\ flow.doc = file /\ flow.hash = libraryStateHash(items)
                  /\ flow.shown = summarizeLibraryImport(items, file, PlanOf(items, file))
                  /\ at' = [at EXCEPT ![h] = flow]
  BY <1>1
<1>4. flow.shown = Preview(items, file, nextItem)
  BY <1>3 DEF Preview, FilePlan, PlanOf
<1>5. IsFiniteSet(DOMAIN file.entries) /\ Resolvable(file.entries)
  BY <1>2 DEF PreviewInv, SeenInv, ItemsInv, parseLibraryFile, Resolvable
<1>6. at'[h] = flow
  BY <1>3, Turn DEF PreviewInv, SeenInv
<1>7. Grows /\ \A g \in Handlers : Undisturbed(g)
  BY <1>2, NothingGrows
<1>8. Previewed(h)'
  <2>1. PreviewedOn(flow, items, nextItem)
    BY <1>3, <1>4 DEF PreviewedOn, PreviewInv, SeenInv, ItemsInv, Library
  <2>2. PICK rows, next : PreviewedOn(flow, rows, next)
    BY <2>1
  <2>3. PreviewedOn(flow, rows, next)'
    BY <1>7, <2>2, StillPreviewed
  <2>4. \E r, n : PreviewedOn(at[h], r, n)'
    BY <1>6, <2>3 DEF PreviewedOn
  <2> QED BY <1>3, <1>5, <1>6, <2>4 DEF Previewed
<1>9. Stores(h)'
  BY <1>3, <1>6 DEF Stores
<1> QED BY <1>3, <1>7, <1>8, <1>9, TurnKeepsPreview

LEMMA LockLibraryKeepsPreview ==
  ASSUME PreviewInv, SeenInv', NEW h \in Handlers, LockLibrary(h) PROVE PreviewInv'
<1>1. /\ at[h].does = "import" /\ ~ LibraryLocked /\ UNCHANGED <<items, nextItem, written>>
      /\ at' = [at EXCEPT ![h] = [does |-> "importing", doc |-> at[h].doc, prune |-> at[h].prune,
                                  includeStale |-> at[h].includeStale, hash |-> at[h].hash,
                                  shown |-> at[h].shown, visible |-> DOMAIN items]]
  BY DEF LockLibrary, PreviewInv, SeenInv, QueueInv
<1>2. PICK flow : /\ flow.does = "importing" /\ flow.doc = at[h].doc /\ flow.hash = at[h].hash
                  /\ flow.shown = at[h].shown /\ flow.visible = DOMAIN items
                  /\ at' = [at EXCEPT ![h] = flow]
  BY <1>1
<1>3. at'[h] = flow
  BY <1>2, Turn DEF PreviewInv, SeenInv
<1>4. Grows /\ \A g \in Handlers : Undisturbed(g)
  BY <1>1, NothingGrows
<1>5. Previewed(h)'
  <2>1. /\ IsFiniteSet(DOMAIN at[h].doc.entries) /\ Resolvable(at[h].doc.entries)
        /\ \E rows, next : PreviewedOn(at[h], rows, next)
    BY <1>1 DEF PreviewInv, Previewed
  <2>2. PICK rows, next : PreviewedOn(at[h], rows, next)
    BY <2>1
  <2>3. PreviewedOn(flow, rows, next)
    BY <1>2, <2>2 DEF PreviewedOn
  <2>4. PreviewedOn(flow, rows, next)'
    BY <1>4, <2>3, StillPreviewed
  <2>5. \E r, n : PreviewedOn(at[h], r, n)'
    BY <1>3, <2>4 DEF PreviewedOn
  <2> QED BY <1>2, <1>3, <2>1, <2>5 DEF Previewed
<1>6. Stores(h)'
  BY <1>1, <1>2, <1>3 DEF Stores
<1> QED BY <1>1, <1>2, <1>4, <1>5, <1>6, TurnKeepsPreview

LEMMA BeginsKeepsPreview ==
  ASSUME PreviewInv, SeenInv', NEW h \in Handlers, Begins(h) PROVE PreviewInv'
<1>1. UNCHANGED <<items, nextItem, written>>
  BY DEF Begins, LoadRequest, ViewOwnPlan, ViewRequest, ViewPlan, ReadItem, ViewItems, PreviewImport
<1>2. CASE LoadRequest(h)
  <2>1. PICK r : at' = [at EXCEPT ![h] = [does |-> "cancel", request |-> r]]
    BY <1>2 DEF LoadRequest, Start
  <2> DEFINE flow == [does |-> "cancel", request |-> r]
  <2>2. at' = [at EXCEPT ![h] = flow] /\ flow.does = "cancel"
    BY <2>1
  <2> HIDE DEF flow
  <2> QED BY <1>1, <2>2, FlowKeepsPreview
<1>3. ASSUME NEW request, NEW offered, ViewPlan(h, request, offered) PROVE PreviewInv'
  <2>1. PICK expected, seen :
          at' = [at EXCEPT ![h] = [does |-> "promote", request |-> request, expected |-> expected, seen |-> seen]]
    BY <1>3 DEF ViewPlan, Start
  <2> DEFINE flow == [does |-> "promote", request |-> request, expected |-> expected, seen |-> seen]
  <2>2. at' = [at EXCEPT ![h] = flow] /\ flow.does = "promote"
    BY <2>1
  <2> HIDE DEF flow
  <2> QED BY <1>1, <2>2, FlowKeepsPreview
<1>4. CASE ViewOwnPlan(h) \/ ViewRequest(h)
  BY <1>3, <1>4 DEF ViewOwnPlan, ViewRequest
<1>5. CASE ReadItem(h)
  <2>1. PICK i, d :
       /\ i \in DOMAIN items
       /\ at' = [at EXCEPT ![h] = [does |-> "update", item |-> i,
                                   row |-> ItemRow(items[i].kind, [PayloadOf(items[i]) EXCEPT !.data = d],
                                                   items[i].version + 1)]]
    BY <1>5 DEF ReadItem, Start
  <2>2. PICK row : row = ItemRow(items[i].kind, [PayloadOf(items[i]) EXCEPT !.data = d], items[i].version + 1)
    OBVIOUS
  <2>3. row.domain = items[i].domain
    BY <2>2 DEF ItemRow, PayloadOf
  <2>4. Ref(row.domain, nextItem)
    BY <2>1, <2>3 DEF PreviewInv, Library
  <2> DEFINE flow == [does |-> "update", item |-> i, row |-> row]
  <2>5. at' = [at EXCEPT ![h] = flow] /\ flow.does = "update" /\ flow.row = row
    BY <2>1, <2>2
  <2> HIDE DEF flow
  <2> QED BY <1>1, <2>4, <2>5, FlowKeepsPreview
<1>6. CASE ViewItems(h)
  <2>1. PICK plan, decisions :
          at' = [at EXCEPT ![h] = [does |-> "resync", plan |-> plan, decisions |-> decisions]]
    BY <1>6 DEF ViewItems, Start
  <2> DEFINE flow == [does |-> "resync", plan |-> plan, decisions |-> decisions]
  <2>2. at' = [at EXCEPT ![h] = flow] /\ flow.does = "resync"
    BY <2>1
  <2> HIDE DEF flow
  <2> QED BY <1>1, <2>2, FlowKeepsPreview
<1>7. CASE PreviewImport(h)
  BY <1>7, PreviewImportKeepsPreview
<1> QED BY <1>2, <1>4, <1>5, <1>6, <1>7 DEF Begins

LEMMA LockProjectKeepsPreview ==
  ASSUME PreviewInv, SeenInv', NEW h \in Handlers, LockProject(h) PROVE PreviewInv'
<1>1. /\ UNCHANGED <<items, nextItem, written>>
      /\ \/ End(h)
         \/ at' = [at EXCEPT ![h] = [does |-> "planning", request |-> at[h].request,
                                     expected |-> at[h].expected, seen |-> at[h].seen,
                                     visible |-> DOMAIN items]]
  BY DEF LockProject, PreviewInv, SeenInv, QueueInv
<1>2. CASE End(h)
  BY <1>1, <1>2, QuietEndKeepsPreview
<1>3. CASE ~ End(h)
  <2> DEFINE flow == [does |-> "planning", request |-> at[h].request, expected |-> at[h].expected,
                      seen |-> at[h].seen, visible |-> DOMAIN items]
  <2>1. at' = [at EXCEPT ![h] = flow] /\ flow.does = "planning"
    BY <1>1, <1>3
  <2> HIDE DEF flow
  <2> QED BY <1>1, <2>1, FlowKeepsPreview
<1> QED BY <1>2, <1>3

(* Steps that write rows: new ones have new ids, what was there keeps its  *)
(* kind, and a row refers to ids that were given out.                      *)
LEMMA RowsGrow ==
  ASSUME PreviewInv, NEW new, NEW left, items' = Stored(new, left), written' = written \cup Committed(new),
         nextItem' \in Nat, nextItem <= nextItem',
         DOMAIN left \subseteq DOMAIN items, \A i \in DOMAIN left : left[i] = items[i],
         \A i \in DOMAIN new : /\ i \in Nat /\ i < nextItem' /\ Ref(new[i].domain, nextItem')
                               /\ Fresh(i) \/ i \in DOMAIN left
  PROVE  Grows
<1>1. PICK rows : rows = Stored(new, left)
  OBVIOUS
<1>2. /\ DOMAIN rows = DOMAIN new \cup DOMAIN left
      /\ \A x \in DOMAIN new : PayloadOf(rows[x]) = PayloadOf(new[x])
      /\ \A x \in DOMAIN left : rows[x].kind = left[x].kind
      /\ \A x \in DOMAIN left \ DOMAIN new : rows[x] = left[x]
  <2>1. /\ DOMAIN Stored(new, left) = DOMAIN new \cup DOMAIN left
        /\ \A x \in DOMAIN new : PayloadOf(Stored(new, left)[x]) = PayloadOf(new[x])
        /\ \A x \in DOMAIN left : Stored(new, left)[x].kind = left[x].kind
        /\ \A x \in DOMAIN left \ DOMAIN new : Stored(new, left)[x] = left[x]
    BY StoredFacts
  <2> QED BY <1>1, <2>1
<1>3. nextItem \in Nat
  BY DEF PreviewInv, Library
<1>4. Library(rows, nextItem')
  <2> SUFFICES ASSUME NEW i \in DOMAIN rows PROVE i \in Nat /\ i < nextItem' /\ Ref(rows[i].domain, nextItem')
    BY DEF Library
  <2>1. CASE i \in DOMAIN new
    <3>1. PayloadOf(rows[i]).domain = PayloadOf(new[i]).domain
      BY <1>2, <2>1
    <3>2. rows[i].domain = new[i].domain
      BY <3>1 DEF PayloadOf
    <3> QED BY <2>1, <3>2
  <2>2. CASE i \in DOMAIN left \ DOMAIN new
    <3>1. rows[i] = items[i] /\ i \in DOMAIN items
      BY <1>2, <2>2
    <3>2. i \in Nat /\ i < nextItem /\ Ref(items[i].domain, nextItem)
      BY <3>1 DEF PreviewInv, Library
    <3>3. Ref(items[i].domain, nextItem')
      BY <1>3, <3>2, RefGrows
    <3> QED BY <1>3, <3>1, <3>2, <3>3
  <2> QED BY <1>2, <2>1, <2>2
<1>5. Library(items, nextItem)'
  BY <1>1, <1>4 DEF Library
<1>6. \A i \in DOMAIN items' : Fresh(i) \/ (i \in DOMAIN items /\ items'[i].kind = items[i].kind)
  BY <1>1, <1>2
<1>7. ASSUME NEW w \in written' PROVE w.item \in Nat /\ w.item < nextItem'
  <2>1. CASE w \in written
    BY <1>3, <2>1 DEF PreviewInv
  <2>2. CASE w \in Committed(new)
    BY <2>2 DEF Committed
  <2> QED BY <2>1, <2>2
<1> QED BY <1>3, <1>5, <1>6, <1>7 DEF Grows

LEMMA RemoveItemKeepsPreview ==
  ASSUME PreviewInv, SeenInv', RemoveItem PROVE PreviewInv'
<1>1. PICK i \in DOMAIN items : /\ ~ RowLocked(i) /\ items' = Restrict(items, DOMAIN items \ {i})
                                /\ UNCHANGED <<nextItem, at, written>>
  BY DEF RemoveItem
<1>2. DOMAIN items' = DOMAIN items \ {i} /\ \A j \in DOMAIN items' : items'[j] = items[j]
  BY <1>1, RestrictFacts
<1>3. Library(items, nextItem)'
  BY <1>1, <1>2 DEF PreviewInv, Library
<1>4. Grows
  <2>1. nextItem \in Nat /\ \A w \in written : w.item \in Nat /\ w.item < nextItem
    BY DEF PreviewInv, Library
  <2>2. \A j \in DOMAIN items' : j \in DOMAIN items /\ items'[j].kind = items[j].kind
    BY <1>2
  <2>3. nextItem' = nextItem /\ written' = written
    BY <1>1
  <2> QED BY <1>3, <2>1, <2>2, <2>3 DEF Grows
<1>5. \A g \in Handlers : Undisturbed(g)
  BY <1>1, <1>2 DEF Undisturbed, RowLocked
<1> QED BY <1>1, <1>4, <1>5, AllKeepPreview

LEMMA CreateItemKeepsPreview ==
  ASSUME PreviewInv, SeenInv', CreateItem PROVE PreviewInv'
<1>1. nextItem \in Nat /\ \A i \in DOMAIN items : i \in Nat /\ i < nextItem
  BY DEF PreviewInv, Library
<1>2. PICK row : /\ items' = Stored(Row(nextItem, row), items)
                 /\ written' = written \cup Committed(Row(nextItem, row))
                 /\ row.domain \in DOMAIN items \cup {None}
  <2> DEFINE first(d) == Least(Namesakes(items, StartModel[d]))
             index == [d \in {f \in DOMAIN StartModel : first(f) # {}} |-> CHOOSE i \in first(d) : TRUE]
             row(e) == ItemRow(StartModel[e].kind, Through(PayloadOf(StartModel[e]), index), 1)
  <2>1. PICK e \in DOMAIN StartModel :
          /\ items' = Stored(Row(nextItem, row(e)), items)
          /\ written' = written \cup Committed(Row(nextItem, row(e)))
    BY DEF CreateItem
  <2>2. ASSUME NEW d \in DOMAIN index PROVE index[d] \in DOMAIN items
    <3>1. PICK S : S = first(d)
      OBVIOUS
    <3>2. S # {} /\ S \subseteq DOMAIN items /\ index[d] = CHOOSE i \in S : TRUE
      BY <2>2, <3>1 DEF Least, Namesakes
    <3> HIDE DEF index
    <3> QED BY <3>2
  <2> HIDE DEF index
  <2>3. row(e).domain = IF StartModel[e].domain \in DOMAIN index THEN index[StartModel[e].domain] ELSE None
    BY DEF ItemRow, Through, PayloadOf
  <2>4. row(e).domain \in DOMAIN items \cup {None}
    BY <2>2, <2>3
  <2> HIDE DEF row
  <2> QED BY <2>1, <2>4
<1>3. nextItem' = nextItem + 1 /\ at' = at /\ ~ LibraryLocked
  BY DEF CreateItem
<1>4. PICK new : new = Row(nextItem, row)
  OBVIOUS
<1>5. DOMAIN new = {nextItem} /\ new[nextItem] = row
  BY <1>4 DEF Row
<1>6. Fresh(nextItem)
  BY <1>1 DEF PreviewInv, Fresh
<1>7. Ref(row.domain, nextItem')
  BY <1>1, <1>2, <1>3 DEF Ref
<1>8. PICK left : left = items
  OBVIOUS
<1>9. Grows
  <2>1. /\ items' = Stored(new, left) /\ written' = written \cup Committed(new)
        /\ nextItem' \in Nat /\ nextItem <= nextItem'
        /\ DOMAIN left \subseteq DOMAIN items /\ \A i \in DOMAIN left : left[i] = items[i]
        /\ \A i \in DOMAIN new : /\ i \in Nat /\ i < nextItem' /\ Ref(new[i].domain, nextItem')
                                 /\ Fresh(i) \/ i \in DOMAIN left
    BY <1>1, <1>2, <1>3, <1>4, <1>5, <1>6, <1>7, <1>8
  <2> QED BY <2>1, RowsGrow
<1>10. DOMAIN items' = DOMAIN items \cup {nextItem}
  <2>1. DOMAIN Stored(new, items) = DOMAIN new \cup DOMAIN items
    BY StoredFacts
  <2> QED BY <1>2, <1>4, <1>5, <2>1
<1>11. \A w \in written' : w \in written \/ w.item = nextItem
  BY <1>2, <1>4, <1>5 DEF Committed
<1>12. \A g \in Handlers : Undisturbed(g)
  BY <1>1, <1>3, <1>10, <1>11 DEF Undisturbed, LibraryLocked
<1> QED BY <1>3, <1>9, <1>12, AllKeepPreview

LEMMA CommitKeepsPreview ==
  ASSUME PreviewInv, SeenInv', NEW h \in Handlers, CommitPromote(h) PROVE PreviewInv'
<1>1. /\ at[h].does = "writing" /\ End(h) /\ nextItem' = nextItem
      /\ items' = Stored(at[h].writes, items) /\ written' = written \cup Committed(at[h].writes)
      /\ at[h].chosen # {} => ~ LibraryLocked
  BY DEF CommitPromote
<1>2. PICK new : new = at[h].writes
  OBVIOUS
<1>3. PICK left : left = items
  OBVIOUS
<1>4. nextItem \in Nat
  BY DEF PreviewInv, Library
<1>5. \A i \in DOMAIN new : /\ i \in Nat /\ i < nextItem /\ Ref(new[i].domain, nextItem)
                            /\ Fresh(i) \/ i \in DOMAIN items
  BY <1>1, <1>2 DEF PreviewInv, SeenInv, Writes, Stores
<1>6. at[h].chosen = {} => DOMAIN new = {}
  BY <1>1, <1>2 DEF PreviewInv, Stores
<1>7. Grows
  <2>1. /\ items' = Stored(new, left) /\ written' = written \cup Committed(new)
        /\ nextItem' \in Nat /\ nextItem <= nextItem'
        /\ DOMAIN left \subseteq DOMAIN items /\ \A i \in DOMAIN left : left[i] = items[i]
        /\ \A i \in DOMAIN new : /\ i \in Nat /\ i < nextItem' /\ Ref(new[i].domain, nextItem')
                                 /\ Fresh(i) \/ i \in DOMAIN left
    BY <1>1, <1>2, <1>3, <1>4, <1>5
  <2> QED BY <2>1, RowsGrow
<1>8. DOMAIN items' = DOMAIN new \cup DOMAIN items
  <2>1. DOMAIN Stored(new, items) = DOMAIN new \cup DOMAIN items
    BY StoredFacts
  <2> QED BY <1>1, <1>2, <2>1
<1>9. \A g \in Handlers \ {h} : Undisturbed(g)
  <2> SUFFICES ASSUME NEW g \in Handlers \ {h} PROVE Undisturbed(g)
    OBVIOUS
  <2>1. at[g].does # "writing"
    BY <1>1 DEF PreviewInv, SeenInv, QueueInv, Promoting
  <2>2. at[g].does = "importing" => DOMAIN items' \subseteq DOMAIN items
    BY <1>1, <1>6, <1>8 DEF LibraryLocked
  <2> QED BY <2>1, <2>2 DEF Undisturbed
<1> QED BY <1>1, <1>7, <1>9, EndKeepsPreview

LEMMA WriteItemKeepsPreview ==
  ASSUME PreviewInv, SeenInv', NEW h \in Handlers, WriteItem(h) PROVE PreviewInv'
<1> DEFINE rows == IF at[h].item \in DOMAIN items THEN Row(at[h].item, at[h].row) ELSE << >>
<1>1. /\ at[h].does = "update" /\ End(h) /\ nextItem' = nextItem
      /\ items' = Stored(rows, items) /\ written' = written \cup Committed(rows)
  BY DEF WriteItem
<1>2. DOMAIN rows \subseteq {at[h].item} \cap DOMAIN items /\ \A i \in DOMAIN rows : rows[i] = at[h].row
  BY DEF Row
<1>3. PICK new : new = rows
  OBVIOUS
<1> HIDE DEF rows
<1>4. PICK left : left = items
  OBVIOUS
<1>5. nextItem \in Nat /\ \A i \in DOMAIN items : i \in Nat /\ i < nextItem
  BY DEF PreviewInv, Library
<1>6. Ref(at[h].row.domain, nextItem)
  BY <1>1 DEF PreviewInv, Stores
<1>7. Grows
  <2>1. /\ items' = Stored(new, left) /\ written' = written \cup Committed(new)
        /\ nextItem' \in Nat /\ nextItem <= nextItem'
        /\ DOMAIN left \subseteq DOMAIN items /\ \A i \in DOMAIN left : left[i] = items[i]
    BY <1>1, <1>3, <1>4, <1>5
  <2>2. \A i \in DOMAIN new : /\ i \in Nat /\ i < nextItem' /\ Ref(new[i].domain, nextItem')
                              /\ Fresh(i) \/ i \in DOMAIN left
    BY <1>1, <1>2, <1>3, <1>4, <1>5, <1>6
  <2> QED BY <2>1, <2>2, RowsGrow
<1>8. DOMAIN items' = DOMAIN items
  <2>1. DOMAIN Stored(new, items) = DOMAIN new \cup DOMAIN items
    BY StoredFacts
  <2> QED BY <1>1, <1>2, <1>3, <2>1
<1>9. \A w \in written' : w \in written \/ w.item \in DOMAIN items
  BY <1>1, <1>2, <1>3 DEF Committed
<1>10. \A g \in Handlers \ {h} : Undisturbed(g)
  BY <1>8, <1>9 DEF Undisturbed
<1> QED BY <1>1, <1>7, <1>10, EndKeepsPreview

(* What a promoted row refers to.                                          *)
LEMMA PromotionDomains ==
  ASSUME NEW entities, NEW rows, NEW plan, plan = planPromote(entities, rows),
         NEW chosen, chosen \subseteq DOMAIN plan.entries, IsFiniteSet(chosen), NEW next \in Nat,
         NEW i \in DOMAIN applyPromotePlan(entities, plan, chosen, next).writes
  PROVE  LET d == applyPromotePlan(entities, plan, chosen, next).writes[i].domain
         IN  d = None \/ d \in DOMAIN rows \/ (d \in Nat /\ d < next + Cardinality(New(plan, chosen)))
<1>1. PICK itemOf : itemOf = ItemsOfBatch(plan, chosen, next)
  OBVIOUS
<1>2. PICK own : own = [x \in chosen |-> IF x \in New(plan, chosen) THEN next + Position(x, New(plan, chosen))
                                         ELSE plan.entries[x].target]
  OBVIOUS
<1>3. PICK linked : linked = plan.linked
  OBVIOUS
<1>4. itemOf = Over(own, linked)
  BY <1>1, <1>2, <1>3 DEF ItemsOfBatch, Numbered
<1>5. /\ DOMAIN Over(own, linked) = DOMAIN own \cup DOMAIN linked
      /\ \A x \in DOMAIN own : Over(own, linked)[x] = own[x]
      /\ \A x \in DOMAIN linked \ DOMAIN own : Over(own, linked)[x] = linked[x]
  BY OverFacts
<1>6. \A x \in DOMAIN linked : linked[x] \in DOMAIN rows
  <2>1. linked = LinkedItems(entities, rows)
    BY <1>3 DEF planPromote, PromotePlan
  <2> QED BY <2>1 DEF LinkedItems
<1>7. ASSUME NEW x \in chosen
      PROVE  own[x] \in DOMAIN rows \/ (own[x] \in Nat /\ own[x] < next + Cardinality(New(plan, chosen)))
  <2>1. CASE x \in New(plan, chosen)
    <3>1. IsFiniteSet(New(plan, chosen))
      BY FS_Subset DEF New
    <3>2. /\ Position(x, New(plan, chosen)) \in Nat /\ Cardinality(New(plan, chosen)) \in Nat
          /\ Position(x, New(plan, chosen)) < Cardinality(New(plan, chosen))
      BY <2>1, <3>1, PositionFacts
    <3> QED BY <1>2, <2>1, <3>2
  <2>2. CASE x \notin New(plan, chosen)
    <3>1. x \in DOMAIN planPromote(entities, rows).entries /\ planPromote(entities, rows).entries[x].target # None
      BY <2>2 DEF New
    <3>2. planPromote(entities, rows).entries[x].target \in DOMAIN rows
      BY <3>1, PlanFacts
    <3> QED BY <1>2, <2>2, <3>2
  <2> QED BY <2>1, <2>2
<1>8. ASSUME NEW x \in DOMAIN itemOf
      PROVE  itemOf[x] \in DOMAIN rows \/ (itemOf[x] \in Nat /\ itemOf[x] < next + Cardinality(New(plan, chosen)))
  <2>1. DOMAIN own = chosen
    BY <1>2
  <2>2. CASE x \in chosen
    <3>1. itemOf[x] = own[x]
      BY <1>4, <1>5, <2>1, <2>2
    <3> QED BY <1>7, <2>2, <3>1
  <2>3. CASE x \notin chosen
    BY <1>4, <1>5, <1>6, <1>8, <2>1, <2>3
  <2> QED BY <2>2, <2>3
<1>9. PICK e : e = AntiFunction(itemOf)[i]
  OBVIOUS
<1>10. PICK payload : payload = PayloadOf(entities[e])
  OBVIOUS
<1>11. \E kind, version : applyPromotePlan(entities, plan, chosen, next).writes[i]
                          = ItemRow(kind, Through(payload, itemOf), version)
  BY <1>1, <1>9, <1>10 DEF applyPromotePlan, Promotion, Promoted
<1>12. applyPromotePlan(entities, plan, chosen, next).writes[i].domain = Through(payload, itemOf).domain
  BY <1>11 DEF ItemRow
<1>13. Through(payload, itemOf).domain = IF entities[e].domain \in DOMAIN itemOf THEN itemOf[entities[e].domain] ELSE None
  BY <1>10 DEF Through, PayloadOf
<1> QED BY <1>8, <1>12, <1>13

LEMMA LockItemsKeepsPreview ==
  ASSUME PreviewInv, SeenInv', NEW h \in Handlers, LockItems(h) PROVE PreviewInv'
<1> DEFINE rows == Restrict(items, at[h].visible \cap DOMAIN items)
           plan == planPromote(model, rows)
           chosen == AsExpected(plan.entries, at[h].expected)
           result == applyPromotePlan(model, plan, chosen, nextItem)
           count == Cardinality(New(plan, chosen))
<1>1. /\ at[h].does = "planning" /\ nextItem' = nextItem + count /\ UNCHANGED <<items, written>>
      /\ at' = [at EXCEPT ![h] = [does |-> "writing", request |-> at[h].request,
                                  seen |-> Restrict(at[h].seen, chosen), rows |-> DOMAIN rows,
                                  chosen |-> chosen, writes |-> result.writes, model |-> result.model]]
  BY DEF LockItems, PreviewInv, SeenInv, QueueInv
<1>2. PICK flow : /\ at' = [at EXCEPT ![h] = flow] /\ flow.does = "writing" /\ flow.rows = DOMAIN rows
                  /\ flow.chosen = chosen /\ flow.writes = result.writes
  <2>1. PICK flow : flow = [does |-> "writing", request |-> at[h].request, seen |-> Restrict(at[h].seen, chosen),
                            rows |-> DOMAIN rows, chosen |-> chosen, writes |-> result.writes, model |-> result.model]
    OBVIOUS
  <2> HIDE DEF rows, plan, chosen, result
  <2>2. /\ at' = [at EXCEPT ![h] = flow] /\ flow.does = "writing" /\ flow.rows = DOMAIN rows
        /\ flow.chosen = chosen /\ flow.writes = result.writes
    BY <1>1, <2>1
  <2> QED BY <2>2
<1>3. at'[h] = flow
  BY <1>2, Turn DEF PreviewInv, SeenInv
<1>4. Shows(at[h].expected, at[h].seen)
  BY <1>1 DEF PreviewInv, SeenInv, Looks
<1>5. IsFiniteSet(chosen) /\ chosen \subseteq DOMAIN plan.entries
  BY <1>4, FS_Subset DEF AsExpected, Shows
<1>6. count \in Nat /\ nextItem \in Nat
  BY <1>5, FS_Subset, FS_CardinalityType DEF New, PreviewInv, Library
<1>7. DOMAIN rows \subseteq DOMAIN items
  BY RestrictFacts
<1>8. \A i \in DOMAIN items : i \in Nat /\ i < nextItem
  BY DEF PreviewInv, Library
<1>9. chosen = {} => DOMAIN result.writes = {}
  BY DEF applyPromotePlan, Promotion, Promoted
<1>10. ASSUME NEW i \in DOMAIN result.writes
       PROVE  Ref(result.writes[i].domain, nextItem')
  <2> HIDE DEF chosen, rows
  <2>1. \/ result.writes[i].domain = None
        \/ result.writes[i].domain \in DOMAIN rows
        \/ result.writes[i].domain \in Nat /\ result.writes[i].domain < nextItem + count
    BY <1>5, <1>6, <1>10, PromotionDomains
  <2> HIDE DEF result, count
  <2> QED BY <1>1, <1>6, <1>7, <1>8, <2>1 DEF Ref
<1>11. ASSUME NEW i \in DOMAIN result.writes
       PROVE  Fresh(i) \/ i \in DOMAIN rows
  <2>1. \/ \E e \in chosen : i = plan.entries[e].target /\ i # None
        \/ i \in Nat /\ nextItem <= i /\ i < nextItem + count
    <3> HIDE DEF chosen, rows, plan
    <3> QED BY <1>5, <1>6, <1>11, PromotionIds
  <2>2. CASE \E e \in chosen : i = plan.entries[e].target /\ i # None
    <3>1. PICK e \in chosen : i = plan.entries[e].target /\ i # None
      BY <2>2
    <3>2. e \in DOMAIN plan.entries
      BY <1>5
    <3>3. plan.entries[e].target \in DOMAIN rows
      <4> HIDE DEF rows, chosen
      <4> QED BY <3>1, <3>2, PlanFacts
    <3> QED BY <3>1, <3>3
  <2>3. CASE i \in Nat /\ nextItem <= i /\ i < nextItem + count
    <3>1. \A w \in written : w.item \in Nat /\ w.item < nextItem
      BY DEF PreviewInv
    <3> QED BY <1>6, <2>3, <3>1 DEF Fresh
  <2> QED BY <2>1, <2>2, <2>3
<1> HIDE DEF rows, plan, chosen, result, count
<1>12. nextItem' \in Nat /\ nextItem <= nextItem'
  BY <1>1, <1>6
<1>13. Library(items, nextItem)'
  <2> SUFFICES ASSUME NEW i \in DOMAIN items PROVE i \in Nat /\ i < nextItem' /\ Ref(items[i].domain, nextItem')
    BY <1>1, <1>12 DEF Library
  <2>1. Ref(items[i].domain, nextItem)
    BY DEF PreviewInv, Library
  <2> QED BY <1>6, <1>8, <1>12, <2>1, RefGrows
<1>14. Grows
  <2>1. \A w \in written : w.item \in Nat /\ w.item < nextItem
    BY DEF PreviewInv
  <2> QED BY <1>1, <1>6, <1>12, <1>13, <2>1 DEF Grows
<1>15. \A g \in Handlers : Undisturbed(g)
  BY <1>1 DEF Undisturbed
<1>16. Stores(h)'
  <2>1. ASSUME NEW i \in DOMAIN flow.writes
        PROVE  Ref(flow.writes[i].domain, nextItem') /\ (Fresh(i)' \/ i \in flow.rows \cap DOMAIN items')
    <3>1. Fresh(i)' <=> Fresh(i)
      BY <1>1 DEF Fresh
    <3> QED BY <1>1, <1>2, <1>7, <1>10, <1>11, <3>1
  <2> QED BY <1>2, <1>3, <1>9, <2>1 DEF Stores
<1>17. Previewed(h)'
  BY <1>2, <1>3 DEF Previewed
<1> QED BY <1>2, <1>14, <1>15, <1>16, <1>17, TurnKeepsPreview

(* What an import writes: rows the file speaks of, none of them removed.   *)
LEMMA ImportedRows ==
  ASSUME NEW rows, NEW doc, NEW next, IsFiniteSet(DOMAIN doc.entries), Library(rows, next),
         Resolvable(doc.entries), NEW plan, plan = FilePlan(rows, doc, next), NEW i \in DOMAIN plan.entries
  PROVE  /\ i \in DOMAIN rows => i \notin plan.absent
         /\ \/ plan.entries[i].payload.domain = None
            \/ plan.entries[i].payload.domain \in DOMAIN rows
            \/ /\ plan.entries[i].payload.domain \in Nat
               /\ plan.entries[i].payload.domain < next + Cardinality(Inserted(rows, doc))
<1>1. PICK target : target = Targets(rows, doc, next)
  OBVIOUS
<1>2. PICK l : l = AntiFunction(target)[i]
  OBVIOUS
<1>3. PICK payload : payload = LinePayload(doc.entries, target, doc.entries[l])
  OBVIOUS
<1>4. l \in DOMAIN target /\ target[l] = i /\ plan.entries[i] = ImportEntry(rows, doc.entries[l], i, payload)
  BY <1>1, <1>2, <1>3, EntryFacts
<1>5. DOMAIN target = DOMAIN doc.entries
  BY <1>1, TargetFacts
<1>6. /\ l \notin Inserted(rows, doc) => i = MatchOf(rows, doc.entries)[l]
      /\ l \in Inserted(rows, doc) => i \notin DOMAIN rows
  BY <1>1, <1>4, <1>5, TargetFacts
<1>7. i \in DOMAIN rows => i \notin plan.absent
  <2> SUFFICES ASSUME i \in DOMAIN rows PROVE i \in Range(MatchOf(rows, doc.entries))
    BY DEF FilePlan, planLibraryImport, ImportPlan
  <2>1. l \in DOMAIN MatchOf(rows, doc.entries) /\ i = MatchOf(rows, doc.entries)[l]
    BY <1>4, <1>5, <1>6 DEF Inserted
  <2> QED BY <2>1 DEF Range
<1>8. \/ payload.domain = None \/ payload.domain \in DOMAIN rows
      \/ payload.domain \in Nat /\ payload.domain < next + Cardinality(Inserted(rows, doc))
  BY <1>1, <1>3, <1>4, <1>5, PayloadFacts
<1>9. plan.entries[i].payload = payload
  BY <1>4 DEF ImportEntry
<1> QED BY <1>7, <1>8, <1>9

LEMMA ImportKeepsPreview ==
  ASSUME PreviewInv, SeenInv', NEW h \in Handlers, Import(h) PROVE PreviewInv'
<1>1. PICK rows : rows = Restrict(items, at[h].visible \cap DOMAIN items)
  OBVIOUS
<1>2. PICK doc : doc = at[h].doc
  OBVIOUS
<1>3. PICK plan : plan = PlanOf(rows, doc)
  OBVIOUS
<1>4. PICK result : result = materializeLibraryImport(rows, plan, Referenced(rows, doc, plan),
                                                     at[h].prune, at[h].includeStale)
  OBVIOUS
<1>5. PICK left : left = Restrict(items, DOMAIN items \ result.removes)
  OBVIOUS
<1>6. PICK new : new = result.writes
  OBVIOUS
<1>7. PICK count : count = Cardinality(Unmatched(rows, doc))
  OBVIOUS
<1>8. at[h].does = "importing" /\ ~ RowsLocked(at[h].visible) /\ End(h)
  BY DEF Import
<1>9. \/ UNCHANGED <<items, written, nextItem>>
      \/ items' = Stored(new, left) /\ written' = written \cup Committed(new) /\ nextItem' = nextItem + count
  BY <1>1, <1>2, <1>3, <1>4, <1>5, <1>6, <1>7 DEF Import
<1>10. CASE UNCHANGED <<items, written, nextItem>>
  BY <1>8, <1>10, QuietEndKeepsPreview
<1>11. CASE items' = Stored(new, left) /\ written' = written \cup Committed(new) /\ nextItem' = nextItem + count
  <2>1. nextItem \in Nat /\ \A i \in DOMAIN items : i \in Nat /\ i < nextItem /\ Ref(items[i].domain, nextItem)
    BY DEF PreviewInv, Library
  <2>2. DOMAIN rows = DOMAIN items /\ \A i \in DOMAIN items : rows[i] = items[i]
    <3>1. DOMAIN items \subseteq at[h].visible
      BY <1>8 DEF PreviewInv, Stores
    <3>2. /\ DOMAIN rows = at[h].visible \cap DOMAIN items
          /\ \A i \in at[h].visible \cap DOMAIN items : rows[i] = items[i]
      BY <1>1, RestrictFacts
    <3> QED BY <3>1, <3>2
  <2>3. IsFiniteSet(DOMAIN doc.entries) /\ Resolvable(doc.entries)
    BY <1>2, <1>8 DEF PreviewInv, Previewed
  <2>4. count \in Nat
    BY <1>7, <2>3, FS_Subset, FS_CardinalityType DEF Unmatched
  <2>5. Library(rows, nextItem) /\ plan = FilePlan(rows, doc, nextItem) /\ count = Cardinality(Inserted(rows, doc))
    BY <1>3, <1>7, <2>1, <2>2 DEF Library, FilePlan, PlanOf, Inserted, Unmatched
  <2>6. DOMAIN left = DOMAIN items \ result.removes /\ \A i \in DOMAIN left : left[i] = items[i]
    BY <1>5, RestrictFacts
  <2>7. result.removes \subseteq plan.absent
    BY <1>4 DEF materializeLibraryImport
  <2>8. /\ DOMAIN new \subseteq DOMAIN plan.entries
        /\ \A i \in DOMAIN new : new[i].domain = plan.entries[i].payload.domain
    BY <1>4, <1>6 DEF materializeLibraryImport, ItemRow
  <2>9. nextItem' \in Nat /\ nextItem <= nextItem'
    BY <1>11, <2>1, <2>4
  <2>10. ASSUME NEW i \in DOMAIN new
         PROVE  \/ i \in DOMAIN items /\ i \in DOMAIN left
                \/ i \in Nat /\ nextItem <= i /\ i < nextItem + count
    <3>1. i \in DOMAIN PlanOf(rows, doc).entries
      BY <1>3, <2>8, <2>10
    <3>2. i \in DOMAIN rows \/ (i \in Nat /\ nextItem <= i /\ i < nextItem + count)
      BY <1>7, <2>1, <2>3, <3>1, ImportIds
    <3>3. i \in DOMAIN rows => i \notin plan.absent
      BY <2>3, <2>5, <2>8, <2>10, ImportedRows
    <3> QED BY <2>2, <2>6, <2>7, <3>2, <3>3
  <2>11. ASSUME NEW i \in DOMAIN new
         PROVE  Ref(new[i].domain, nextItem')
    <3>1. \/ plan.entries[i].payload.domain = None \/ plan.entries[i].payload.domain \in DOMAIN rows
          \/ /\ plan.entries[i].payload.domain \in Nat
             /\ plan.entries[i].payload.domain < nextItem + Cardinality(Inserted(rows, doc))
      BY <2>3, <2>5, <2>8, <2>11, ImportedRows
    <3>2. \/ new[i].domain = None \/ new[i].domain \in DOMAIN items
          \/ new[i].domain \in Nat /\ new[i].domain < nextItem'
      BY <1>11, <2>2, <2>5, <2>8, <2>11, <3>1
    <3> QED BY <2>1, <2>9, <3>2 DEF Ref
  <2>12. ASSUME NEW i \in DOMAIN new
         PROVE  i \in Nat /\ i < nextItem' /\ (Fresh(i) \/ i \in DOMAIN left)
    <3>1. \A w \in written : w.item \in Nat /\ w.item < nextItem
      BY DEF PreviewInv
    <3> QED BY <1>11, <2>1, <2>4, <2>10, <2>12, <3>1 DEF Fresh
  <2>13. Grows
    <3>1. DOMAIN left \subseteq DOMAIN items
      BY <2>6
    <3> QED BY <1>11, <2>6, <2>9, <2>11, <2>12, <3>1, RowsGrow
  <2>14. DOMAIN items' = DOMAIN new \cup DOMAIN left
    <3>1. DOMAIN Stored(new, left) = DOMAIN new \cup DOMAIN left
      BY StoredFacts
    <3> QED BY <1>11, <3>1
  <2>15. ASSUME NEW w \in written' PROVE w \in written \/ w.item \in DOMAIN items \/ ~ w.item < nextItem
    <3>1. CASE w \in Committed(new)
      <4>1. w.item \in DOMAIN new
        BY <3>1 DEF Committed
      <4> QED BY <2>1, <2>10, <4>1
    <3> QED BY <1>11, <3>1
  <2>16. ASSUME NEW g \in Handlers \ {h} PROVE Undisturbed(g)
    <3>1. at[g].does # "importing"
      BY <1>8 DEF PreviewInv
    <3>2. ASSUME at[g].does = "writing", NEW i \in at[g].rows \cap DOMAIN items PROVE i \in DOMAIN items'
      <4>1. i \notin at[h].visible
        BY <1>8, <3>2 DEF RowsLocked, RowLocked
      <4>2. i \in at[h].visible
        BY <1>8 DEF PreviewInv, Stores
      <4> QED BY <4>1, <4>2
    <3> QED BY <2>15, <3>1, <3>2 DEF Undisturbed
  <2> QED BY <1>8, <2>13, <2>16, EndKeepsPreview
<1> QED BY <1>9, <1>10, <1>11

LEMMA PreviewKept == ASSUME PreviewInv, [Next]_vars PROVE PreviewInv'
<1>1. SeenInv'
  BY SeenKept DEF PreviewInv
<1>2. CASE EditProject \/ Ask \/ Reject \/ Export \/ EditFile \/ Rest \/ UNCHANGED vars
  BY <1>1, <1>2, QuietKeepsPreview DEF EditProject, Ask, Reject, Export, EditFile, Rest, vars
<1>3. CASE RemoveItem \/ CreateItem
  BY <1>1, <1>3, RemoveItemKeepsPreview, CreateItemKeepsPreview
<1>4. ASSUME NEW h \in Handlers, Begins(h) \/ Works(h) PROVE PreviewInv'
  <2>1. CASE Begins(h)
    BY <1>1, <2>1, BeginsKeepsPreview
  <2>2. CASE Cancel(h) \/ Resync(h) \/ BreakDeadlock(h)
    BY <1>1, <2>2, QuietEndKeepsPreview DEF Cancel, Resync, BreakDeadlock
  <2>3. CASE LockProject(h) \/ LockItems(h) \/ CommitPromote(h)
    BY <1>1, <2>3, LockProjectKeepsPreview, LockItemsKeepsPreview, CommitKeepsPreview
  <2>4. CASE WriteItem(h) \/ LockLibrary(h) \/ Import(h)
    BY <1>1, <2>4, WriteItemKeepsPreview, LockLibraryKeepsPreview, ImportKeepsPreview
  <2> QED BY <1>4, <2>1, <2>2, <2>3, <2>4 DEF Works
<1> QED BY <1>2, <1>3, <1>4 DEF Next

LEMMA PreviewStarts == ASSUME Init PROVE PreviewInv
<1>1. SeenInv
  BY SeenStarts
<1>2. items = StartItems /\ nextItem = Cardinality(DOMAIN StartItems) + 1 /\ written = Committed(StartItems)
  BY DEF Init
<1>3. Cardinality(DOMAIN StartItems) \in Nat
  BY StartIsFinite, FS_CardinalityType
<1>4. \A i \in DOMAIN items : i \in Nat /\ i < nextItem
  BY <1>2, <1>3, StartIsFinite
<1>5. \A i \in DOMAIN items : Ref(items[i].domain, nextItem)
  BY <1>2, <1>4, StartIsFinite DEF Ref
<1>6. Library(items, nextItem)
  BY <1>2, <1>3, <1>4, <1>5 DEF Library
<1>7. \A w \in written : w.item \in Nat /\ w.item < nextItem
  BY <1>2, <1>4 DEF Committed
<1>8. \A h \in Handlers : at[h].does = "nothing"
  BY DEF Init, Idle
<1>9. \A h \in Handlers : Previewed(h) /\ Stores(h)
  BY <1>8 DEF Previewed, Stores
<1> QED BY <1>1, <1>6, <1>7, <1>8, <1>9 DEF PreviewInv

LEMMA OnlyImports ==
  ASSUME QueueInv, [Next]_vars, NEW h \in Handlers, at[h].does = "importing", at'[h] = Idle, items' # items
  PROVE  Import(h)
<1>1. at'[h] # at[h]
  BY DEF Idle
<1>2. CASE \/ EditProject \/ Ask \/ Reject \/ RemoveItem \/ CreateItem \/ Export \/ EditFile \/ Rest
           \/ UNCHANGED vars
  BY <1>1, <1>2 DEF EditProject, Ask, Reject, RemoveItem, CreateItem, Export, EditFile, Rest, vars
<1>3. ASSUME NEW g \in Handlers, Begins(g) \/ Works(g) PROVE Import(h)
  <2>1. WriteItem(g) \/ CommitPromote(g) \/ Import(g)
    BY <1>3 DEF Begins, LoadRequest, ViewOwnPlan, ViewRequest, ViewPlan, ReadItem, ViewItems, PreviewImport,
                Works, Cancel, LockProject, LockItems, Resync, LockLibrary, BreakDeadlock
  <2>2. End(g) /\ (at[g].does = "importing" => Import(g))
    BY <2>1 DEF WriteItem, CommitPromote, Import
  <2>3. \A f \in Handlers \ {g} : at'[f] = at[f]
    BY <2>2, Turn DEF End
  <2> QED BY <1>1, <2>2, <2>3
<1> QED BY <1>2, <1>3 DEF Next

(* The rows an import finds and the rows of its preview.                   *)
LEMMA SameAsPreviewed ==
  ASSUME PreviewInv, NEW flow, NEW rows, NEW next, PreviewedOn(flow, rows, next),
         libraryStateHash(items) = flow.hash, \A i \in DOMAIN items : ~ Raced(i, items[i].version)
  PROVE  Alike(items, rows)
<1>1. libraryStateHash(items) = libraryStateHash(rows)
  BY DEF PreviewedOn
<1>2. PICK hash : hash = [i \in DOMAIN items |-> items[i].version] /\ hash = [i \in DOMAIN rows |-> rows[i].version]
  BY <1>1 DEF libraryStateHash
<1>3. DOMAIN items = DOMAIN rows /\ \A i \in DOMAIN items : items[i].version = rows[i].version
  BY <1>2
<1>4. ASSUME NEW i \in DOMAIN items PROVE PayloadOf(items[i]) = PayloadOf(rows[i])
  <2>1. Committed(items) \subseteq written /\ Committed(rows) \subseteq written
    BY DEF PreviewInv, SeenInv, ItemsInv, PreviewedOn
  <2>2. /\ Value(i, items[i].version, PayloadOf(items[i])) \in written
        /\ Value(i, rows[i].version, PayloadOf(rows[i])) \in written
    BY <1>3, <2>1, CommittedFacts
  <2>3. Value(i, items[i].version, PayloadOf(rows[i])) \in written
    BY <1>3, <2>2
  <2> QED BY <2>2, <2>3 DEF Raced, Value
<1> QED BY <1>3, <1>4 DEF Alike, PreviewedOn

(* An import changes the library exactly as its preview showed: for any    *)
(* number of people, edits of the library between preview and import, and  *)
(* ids given out meanwhile, or a version two writers share.                *)
THEOREM ImportsApplyPreviews == Spec => ImportAppliesPreview
<1>1. ASSUME PreviewInv, [Next]_vars, NEW h \in Handlers, Imports(h),
             \A i \in DOMAIN items : ~ Raced(i, items[i].version)
      PROVE  summarizeLibraryImport(items, at[h].doc, PlanOf(items, at[h].doc)) = at[h].shown
  <2>1. PICK flow : flow = at[h]
    OBVIOUS
  <2>2. flow.does = "importing" /\ at'[h] = Idle /\ items' # items
    BY <1>1, <2>1 DEF Imports
  <2>3. libraryStateHash(items) = flow.hash
    <3>1. Import(h)
      BY <1>1, <2>1, <2>2, OnlyImports DEF PreviewInv, SeenInv
    <3>2. PICK found : found = Restrict(items, at[h].visible \cap DOMAIN items)
      OBVIOUS
    <3>3. libraryStateHash(found) = flow.hash
      BY <2>1, <2>2, <3>1, <3>2 DEF Import
    <3>4. DOMAIN items \subseteq at[h].visible
      BY <1>1, <2>1, <2>2 DEF PreviewInv, Stores
    <3>5. DOMAIN found = DOMAIN items /\ \A i \in DOMAIN items : found[i] = items[i]
      <4>1. /\ DOMAIN found = at[h].visible \cap DOMAIN items
            /\ \A i \in at[h].visible \cap DOMAIN items : found[i] = items[i]
        BY <3>2, RestrictFacts
      <4> QED BY <3>4, <4>1
    <3>6. libraryStateHash(found) = libraryStateHash(items)
      BY <3>5 DEF libraryStateHash
    <3> QED BY <3>3, <3>6
  <2>4. PICK rows, next : PreviewedOn(flow, rows, next)
    BY <1>1, <2>1, <2>2 DEF PreviewInv, Previewed
  <2>5. IsFiniteSet(DOMAIN flow.doc.entries) /\ Resolvable(flow.doc.entries)
    BY <1>1, <2>1, <2>2 DEF PreviewInv, Previewed
  <2>6. Alike(items, rows)
    BY <1>1, <2>3, <2>4, SameAsPreviewed
  <2>7. Library(rows, nextItem)
    <3>1. Library(items, nextItem)
      BY <1>1 DEF PreviewInv
    <3>2. \A i \in DOMAIN items : items[i].domain = rows[i].domain
      BY <2>6, AlikeFacts
    <3> QED BY <2>6, <3>1, <3>2 DEF Library, Alike
  <2>8. Preview(items, flow.doc, nextItem) = Preview(rows, flow.doc, nextItem)
    BY <2>6, AlikePreview
  <2>9. Preview(rows, flow.doc, nextItem) = Preview(rows, flow.doc, next)
    BY <2>4, <2>5, <2>7, NumberedPreview DEF PreviewedOn
  <2>10. summarizeLibraryImport(items, flow.doc, PlanOf(items, flow.doc)) = Preview(items, flow.doc, nextItem)
    BY DEF Preview, FilePlan, PlanOf
  <2>11. flow.shown = Preview(rows, flow.doc, next)
    BY <2>4 DEF PreviewedOn
  <2> QED BY <2>1, <2>8, <2>9, <2>10, <2>11
<1>2. ASSUME PreviewInv, [Next]_vars
      PROVE  [\A h \in Handlers : Imports(h) =>
                 \/ summarizeLibraryImport(items, at[h].doc, PlanOf(items, at[h].doc)) = at[h].shown
                 \/ \E i \in DOMAIN items : Raced(i, items[i].version)]_vars
  BY <1>1, <1>2
<1>3. PreviewInv /\ [Next]_vars => PreviewInv'
  BY PreviewKept
<1> QED BY <1>2, <1>3, PreviewStarts, PTL DEF Spec, ImportAppliesPreview
-----------------------------------------------------------------------------
(* Plans settle.  Facts about numbers first: the largest of a finite set,  *)
(* the least of any, and places in an order.                               *)
LEMMA LargestNumber ==
  ASSUME NEW S, IsFiniteSet(S), S \subseteq Nat, S # {}
  PROVE  Max(S) \in S /\ \A y \in S : y <= Max(S)
<1> DEFINE HasLargest(T) == \E m \in T : \A y \in T : y <= m
           Without(T) == T # {} /\ ~ HasLargest(T)
           Bad == {T \in FiniteSubsetsOf(S) : Without(T)}
<1>1. Bad = {}
  <2> SUFFICES ASSUME Bad # {} PROVE FALSE
    OBVIOUS
  <2>1. PICK R : R = StrictSubsetOrdering(S)
    OBVIOUS
  <2>2. IsWellFoundedOn(R, FiniteSubsetsOf(S))
    BY <2>1, FS_StrictSubsetOrderingWellFounded
  <2>3. Bad \subseteq FiniteSubsetsOf(S)
    OBVIOUS
  <2>4. PICK T \in Bad : \A U \in Bad : <<U, T>> \notin R
    <3> HIDE DEF Bad
    <3> QED BY <2>2, <2>3, WFMin
  <2>5. T \in SUBSET S /\ IsFiniteSet(T) /\ T # {} /\ ~ HasLargest(T)
    BY <2>4 DEF FiniteSubsetsOf
  <2>6. PICK x \in T : TRUE
    BY <2>5
  <2>7. PICK U : U = T \ {x}
    OBVIOUS
  <2>8. U \in FiniteSubsetsOf(S) /\ <<U, T>> \in R
    <3>1. IsFiniteSet(U) /\ U \in SUBSET S
      BY <2>5, <2>7, FS_RemoveElement
    <3> QED BY <2>1, <2>5, <2>6, <2>7, <3>1 DEF FiniteSubsetsOf, StrictSubsetOrdering
  <2>9. U = {} \/ HasLargest(U)
    BY <2>4, <2>8
  <2>10. HasLargest(T)
    <3>1. CASE U = {}
      <4>1. T = {x}
        BY <2>6, <2>7, <3>1
      <4> QED BY <2>5, <4>1
    <3>2. CASE HasLargest(U)
      <4>1. PICK m \in U : \A y \in U : y <= m
        BY <3>2
      <4>2. x \in Nat /\ m \in Nat /\ m \in T /\ \A y \in T : y \in Nat
        BY <2>5, <2>6, <2>7, <4>1
      <4>3. \A y \in T : y = x \/ y <= m
        BY <2>7, <4>1
      <4>4. CASE x <= m
        BY <4>2, <4>3, <4>4
      <4>5. CASE m <= x
        <5>1. \A y \in T : y <= x
          BY <4>2, <4>3, <4>5
        <5> QED BY <2>6, <5>1
      <4> QED BY <4>2, <4>4, <4>5
    <3> QED BY <2>9, <3>1, <3>2
  <2> QED BY <2>5, <2>10
<1>2. S \in FiniteSubsetsOf(S)
  BY DEF FiniteSubsetsOf
<1>3. HasLargest(S)
  BY <1>1, <1>2
<1>4. \E m \in S : \A y \in S : m >= y
  BY <1>3
<1> QED BY <1>4 DEF Max

LEMMA LeastNumber ==
  ASSUME NEW T \in SUBSET Nat, T # {}
  PROVE  \E n \in T : \A k \in T : n <= k
<1>1. PICK R : R = OpToRel(<, Nat)
  OBVIOUS
<1>2. IsWellFoundedOn(R, Nat)
  BY <1>1, NatLessThanWellFounded
<1>3. \E n \in T : \A k \in T : <<k, n>> \notin R
  BY <1>2, WFMin
<1>4. \A n, k \in Nat : <<k, n>> \notin R => n <= k
  BY <1>1 DEF OpToRel
<1> QED BY <1>3, <1>4

LEMMA PlacesDiffer ==
  ASSUME NEW S, IsFiniteSet(S), S \subseteq Nat, NEW x \in S, NEW y \in S, Position(x, S) = Position(y, S)
  PROVE  x = y
<1>1. ASSUME NEW a \in S, NEW b \in S, a < b PROVE Position(a, S) # Position(b, S)
  <2>1. PICK A, B : A = {z \in S \ {a} : z < a} /\ B = {z \in S \ {b} : z < b}
    OBVIOUS
  <2>2. A \in SUBSET B /\ a \in B /\ a \notin A
    <3>1. \A z \in S : z < a => z < b /\ z # b
      BY <1>1
    <3> QED BY <1>1, <2>1, <3>1
  <2>3. IsFiniteSet(B)
    BY <2>1, FS_Subset
  <2>4. Cardinality(A) # Cardinality(B)
    BY <2>2, <2>3, FS_Subset
  <2> QED BY <2>1, <2>4 DEF Position
<1>2. x \in Nat /\ y \in Nat
  OBVIOUS
<1>3. CASE x < y
  BY <1>1, <1>3
<1>4. CASE y < x
  BY <1>1, <1>4
<1> QED BY <1>2, <1>3, <1>4

Sourced(m, e) == e \in DOMAIN m /\ m[e].origin # None

(* The first of the entities that came from an item.                       *)
Rank(kind) == CHOOSE n \in DOMAIN RESOURCE_KINDS : RESOURCE_KINDS[n] = kind
Sooner(m, e, f) ==
    Rank(m[e].kind) < Rank(m[f].kind) \/ (Rank(m[e].kind) = Rank(m[f].kind) /\ e < f)

LEMMA RankFacts ==
  ASSUME NEW kind \in KINDS PROVE Rank(kind) \in Nat
<1>1. DOMAIN RESOURCE_KINDS = 1..4
  BY DEF RESOURCE_KINDS
<1>2. \E n \in DOMAIN RESOURCE_KINDS : RESOURCE_KINDS[n] = kind
  BY DEF KINDS, Range
<1>3. Rank(kind) \in DOMAIN RESOURCE_KINDS
  BY <1>2 DEF Rank
<1> QED BY <1>1, <1>3

LEMMA BeforeIsSooner == ASSUME NEW m, NEW e, NEW f PROVE Before(m, e, f) <=> Sooner(m, e, f)
  BY DEF Before, Sooner, Rank

LEMMA OneOrder ==
  ASSUME NEW m, NEW next, Dictionary(m, next), NEW e \in DOMAIN m, NEW f \in DOMAIN m
  PROVE  ~ (Before(m, e, f) /\ Before(m, f, e))
<1>1. Rank(m[e].kind) \in Nat /\ Rank(m[f].kind) \in Nat /\ e \in Nat /\ f \in Nat
  BY RankFacts DEF Dictionary, Entity
<1> QED BY <1>1, BeforeIsSooner DEF Sooner

LEMMA SomeFirst ==
  ASSUME NEW m, NEW next, Dictionary(m, next), NEW S, S \subseteq DOMAIN m, S # {}
  PROVE  \E e \in S : \A f \in S \ {e} : Before(m, e, f)
<1>1. \A e \in S : Rank(m[e].kind) \in Nat /\ e \in Nat
  BY RankFacts DEF Dictionary, Entity
<1>2. PICK R : R = {Rank(m[e].kind) : e \in S}
  OBVIOUS
<1>3. R \in SUBSET Nat /\ R # {}
  BY <1>1, <1>2
<1>4. PICK r \in R : \A k \in R : r <= k
  BY <1>3, LeastNumber
<1>5. PICK E : E = {e \in S : Rank(m[e].kind) = r}
  OBVIOUS
<1>6. E \in SUBSET Nat /\ E # {}
  BY <1>1, <1>2, <1>4, <1>5
<1>7. PICK e \in E : \A f \in E : e <= f
  BY <1>6, LeastNumber
<1>8. e \in S /\ Rank(m[e].kind) = r
  BY <1>5, <1>7
<1>9. ASSUME NEW f \in S \ {e} PROVE Before(m, e, f)
  <2>1. Rank(m[f].kind) \in R
    BY <1>2
  <2>2. r <= Rank(m[f].kind)
    BY <1>4, <2>1
  <2>3. r \in Nat /\ Rank(m[f].kind) \in Nat /\ e \in Nat /\ f \in Nat /\ e # f
    BY <1>1, <1>3, <1>4, <1>8
  <2>4. Rank(m[f].kind) = r => e <= f
    BY <1>5, <1>7
  <2>5. Sooner(m, e, f)
    BY <1>8, <2>2, <2>3, <2>4 DEF Sooner
  <2> QED BY <2>5, BeforeIsSooner
<1> QED BY <1>8, <1>9

LEMMA LinkedFacts ==
  ASSUME NEW m, NEW rows, NEW L, L = LinkedItems(m, rows)
  PROVE  /\ L = [e \in DOMAIN L |-> L[e]]
         /\ \A e : e \in DOMAIN L <=>
                 /\ Sourced(m, e) /\ m[e].origin.item \in DOMAIN rows
                 /\ \A f \in Linkers(m, m[e].origin.item) \ {e} : Before(m, e, f)
         /\ \A e \in DOMAIN L : L[e] = m[e].origin.item /\ L[e] \in DOMAIN rows /\ e \in Linkers(m, L[e])
<1>1. PICK D : D = {e \in DOMAIN m : /\ m[e].origin # None /\ m[e].origin.item \in DOMAIN rows
                                     /\ \A f \in Linkers(m, m[e].origin.item) \ {e} : Before(m, e, f)}
  OBVIOUS
<1>2. L = [e \in D |-> m[e].origin.item]
  BY <1>1 DEF LinkedItems
<1>3. \A e \in D : L[e] = m[e].origin.item /\ L[e] \in DOMAIN rows /\ e \in Linkers(m, L[e])
  BY <1>1, <1>2 DEF Linkers
<1> QED BY <1>1, <1>2, <1>3 DEF Sourced

LEMMA LinkedOnce ==
  ASSUME NEW m, NEW next, Dictionary(m, next), NEW rows, NEW L, L = LinkedItems(m, rows)
  PROVE  /\ \A e, f \in DOMAIN L : L[e] = L[f] => e = f
         /\ \A i \in DOMAIN rows : Linkers(m, i) # {} => \E e \in DOMAIN L : L[e] = i
<1>1. ASSUME NEW e \in DOMAIN L, NEW f \in DOMAIN L, L[e] = L[f], e # f PROVE FALSE
  <2>1. /\ L[e] = m[e].origin.item /\ L[f] = m[f].origin.item
        /\ e \in Linkers(m, L[e]) /\ f \in Linkers(m, L[f])
    BY LinkedFacts
  <2>2. Before(m, e, f) /\ Before(m, f, e)
    BY <1>1, <2>1, LinkedFacts
  <2>3. e \in DOMAIN m /\ f \in DOMAIN m
    BY <2>1 DEF Linkers
  <2> QED BY <2>2, <2>3, OneOrder
<1>2. ASSUME NEW i \in DOMAIN rows, Linkers(m, i) # {} PROVE \E e \in DOMAIN L : L[e] = i
  <2>1. Linkers(m, i) \subseteq DOMAIN m
    BY DEF Linkers
  <2>2. PICK e \in Linkers(m, i) : \A f \in Linkers(m, i) \ {e} : Before(m, e, f)
    BY <1>2, <2>1, SomeFirst
  <2>3. Sourced(m, e) /\ m[e].origin.item = i
    BY DEF Linkers, Sourced
  <2>4. e \in DOMAIN L
    BY <2>2, <2>3, LinkedFacts
  <2> QED BY <2>3, <2>4, LinkedFacts
<1> QED BY <1>1, <1>2

(* Every entity a promotion numbers gets an item of its own: the one it is *)
(* linked to, one of its name that nobody is linked to, or a new one.      *)
NumberedAs(m, rows, next, L, e, i) ==
    \/ e \in DOMAIN L /\ i = L[e]
    \/ /\ e \notin DOMAIN L
       /\ i \in DOMAIN rows \ Range(L) /\ rows[i].kind = m[e].kind /\ rows[i].name = m[e].name
       /\ e \in Least(Namesakes(m, m[e]) \ DOMAIN L)
    \/ e \notin DOMAIN L /\ i \in Nat /\ next <= i

Numbering(m, rows, next, L, chosen, itemOf) ==
    /\ chosen \subseteq DOMAIN m
    /\ itemOf = [e \in DOMAIN itemOf |-> itemOf[e]] /\ DOMAIN itemOf = chosen \cup DOMAIN L
    /\ \A e \in DOMAIN itemOf : NumberedAs(m, rows, next, L, e, itemOf[e])
    /\ \A e, f \in DOMAIN itemOf : itemOf[e] = itemOf[f] => e = f

LEMMA NumberFacts ==
  ASSUME NEW m, NEW next, Dictionary(m, next), NEW rows, Library(rows, next),
         NEW L, L = LinkedItems(m, rows), NEW plan, plan = planPromote(m, rows),
         NEW chosen, chosen \subseteq DOMAIN plan.entries,
         NEW itemOf, itemOf = ItemsOfBatch(plan, chosen, next)
  PROVE  Numbering(m, rows, next, L, chosen, itemOf)
<1>1. plan.linked = L /\ plan.entries = PromoteEntries(m, rows, L)
  BY DEF planPromote, PromotePlan
<1>2. PICK P : P = PromoteEntries(m, rows, L)
  OBVIOUS
<1>3. /\ DOMAIN P \subseteq DOMAIN m
      /\ \A e \in DOMAIN P \cap DOMAIN L : P[e].target = L[e]
      /\ \A e \in DOMAIN P \ DOMAIN L : P[e].target = NameMatch(m, rows, L, e)
  BY <1>2 DEF PromoteEntries, PromoteEntry
<1>4. PICK own : own = [e \in chosen |-> IF e \in New(plan, chosen) THEN next + Position(e, New(plan, chosen))
                                         ELSE plan.entries[e].target]
  OBVIOUS
<1>5. itemOf = Over(own, L)
  BY <1>1, <1>4 DEF ItemsOfBatch, Numbered
<1>6. /\ DOMAIN itemOf = chosen \cup DOMAIN L /\ itemOf = [e \in DOMAIN itemOf |-> itemOf[e]]
      /\ \A e \in chosen : itemOf[e] = own[e]
      /\ \A e \in DOMAIN L \ chosen : itemOf[e] = L[e]
  BY <1>4, <1>5 DEF Over
<1>7. next \in Nat /\ \A i \in DOMAIN rows : i \in Nat /\ i < next
  BY DEF Library
<1>8. \A e \in DOMAIN L : L[e] \in DOMAIN rows
  BY LinkedFacts
<1>8a. \A e, f \in DOMAIN L : L[e] = L[f] => e = f
  BY LinkedOnce
<1>9. chosen \subseteq DOMAIN m /\ IsFiniteSet(chosen) /\ chosen \subseteq Nat
  <2>1. chosen \in SUBSET DOMAIN m
    BY <1>1, <1>2, <1>3
  <2>2. IsFiniteSet(chosen)
    BY <2>1, FS_Subset DEF Dictionary
  <2> QED BY <2>1, <2>2 DEF Dictionary, Entity
<1>10. PICK N : N = New(plan, chosen)
  OBVIOUS
<1>11. N \subseteq chosen /\ IsFiniteSet(N) /\ N \subseteq Nat
  BY <1>9, <1>10, FS_Subset DEF New
<1>12. \A e \in N : itemOf[e] = next + Position(e, N) /\ Position(e, N) \in Nat
  BY <1>4, <1>6, <1>10, <1>11, PositionFacts
<1>13. None \notin DOMAIN rows
  BY <1>7, NoneIsNoId
<1>14. ASSUME NEW e \in DOMAIN itemOf PROVE NumberedAs(m, rows, next, L, e, itemOf[e])
  <2>1. CASE e \in N
    <3>1. itemOf[e] \in Nat /\ next <= itemOf[e]
      BY <1>7, <1>12, <2>1
    <3>2. e \notin DOMAIN L
      <4>1. P[e].target = None /\ e \in DOMAIN P
        BY <1>1, <1>2, <1>10, <1>11, <2>1 DEF New
      <4> QED BY <1>3, <1>8, <1>13, <4>1
    <3> QED BY <3>1, <3>2 DEF NumberedAs
  <2>2. CASE e \in chosen \ N
    <3>1. itemOf[e] = P[e].target /\ P[e].target # None /\ e \in DOMAIN P
      BY <1>1, <1>2, <1>4, <1>6, <1>10, <2>2 DEF New
    <3>2. CASE e \in DOMAIN L
      BY <1>3, <3>1, <3>2 DEF NumberedAs
    <3>3. CASE e \notin DOMAIN L
      <4>1. itemOf[e] = NameMatch(m, rows, L, e)
        BY <1>3, <3>1, <3>3
      <4>2. PICK free : free = Least(Namesakes(rows, m[e]) \ Range(L))
        OBVIOUS
      <4>3. free # {} /\ e \in Least(Namesakes(m, m[e]) \ DOMAIN L) /\ itemOf[e] = CHOOSE i \in free : TRUE
        BY <3>1, <4>1, <4>2 DEF NameMatch
      <4>4. itemOf[e] \in free
        BY <4>3
      <4>5. itemOf[e] \in Namesakes(rows, m[e]) \ Range(L)
        BY <4>2, <4>4 DEF Least
      <4> QED BY <3>3, <4>3, <4>5 DEF NumberedAs, Namesakes
    <3> QED BY <3>2, <3>3
  <2>3. CASE e \notin chosen
    BY <1>6, <2>3 DEF NumberedAs
  <2> QED BY <2>1, <2>2, <2>3
<1>15. \A e \in DOMAIN itemOf \ N : itemOf[e] \in DOMAIN rows
  <2> SUFFICES ASSUME NEW e \in DOMAIN itemOf \ N PROVE itemOf[e] \in DOMAIN rows
    OBVIOUS
  <2>1. CASE e \notin chosen
    BY <1>6, <1>8, <2>1
  <2>2. CASE e \in chosen
    <3>1. itemOf[e] = P[e].target /\ P[e].target # None /\ e \in DOMAIN P
      BY <1>1, <1>2, <1>4, <1>6, <1>10, <2>2 DEF New
    <3>2. P[e].target \in DOMAIN rows
      BY <1>1, <1>2, <3>1, PlanFacts
    <3> QED BY <3>1, <3>2
  <2> QED BY <2>1, <2>2
<1>16. ASSUME NEW e \in DOMAIN itemOf, NEW f \in DOMAIN itemOf, itemOf[e] = itemOf[f] PROVE e = f
  <2>1. CASE e \in N
    <3>1. f \in N
      BY <1>7, <1>12, <1>15, <1>16, <2>1
    <3>2. Position(e, N) = Position(f, N)
      BY <1>7, <1>12, <1>16, <2>1, <3>1
    <3> QED BY <1>11, <2>1, <3>1, <3>2, PlacesDiffer
  <2>2. CASE e \notin N
    <3>1. f \notin N
      BY <1>7, <1>12, <1>15, <1>16, <2>2
    <3>2. itemOf[e] \in DOMAIN rows /\ ~ next <= itemOf[e]
      BY <1>7, <1>15, <2>2
    <3>3. CASE e \in DOMAIN L
      <4>1. itemOf[e] = L[e] /\ itemOf[e] \in Range(L)
        BY <1>14, <3>3 DEF NumberedAs, Range
      <4>2. f \in DOMAIN L /\ itemOf[f] = L[f]
        BY <1>14, <1>16, <3>2, <4>1 DEF NumberedAs
      <4> QED BY <1>8a, <1>16, <3>3, <4>1, <4>2
    <3>4. CASE e \notin DOMAIN L
      <4>1. /\ itemOf[e] \notin Range(L) /\ rows[itemOf[e]].kind = m[e].kind /\ rows[itemOf[e]].name = m[e].name
            /\ e \in Least(Namesakes(m, m[e]) \ DOMAIN L)
        BY <1>14, <3>2, <3>4 DEF NumberedAs
      <4>2. f \notin DOMAIN L
        BY <1>14, <1>16, <4>1 DEF NumberedAs, Range
      <4>3. /\ rows[itemOf[f]].kind = m[f].kind /\ rows[itemOf[f]].name = m[f].name
            /\ f \in Least(Namesakes(m, m[f]) \ DOMAIN L)
        BY <1>14, <1>16, <3>2, <4>2 DEF NumberedAs
      <4>4. Namesakes(m, m[e]) = Namesakes(m, m[f])
        BY <1>16, <4>1, <4>3 DEF Namesakes
      <4>5. PICK S : S = Namesakes(m, m[e]) \ DOMAIN L
        OBVIOUS
      <4>6. e \in S /\ f \in S /\ e <= f /\ f <= e
        BY <4>1, <4>3, <4>4, <4>5 DEF Least
      <4>7. e \in Nat /\ f \in Nat
        BY <4>5, <4>6 DEF Namesakes, Dictionary, Entity
      <4> QED BY <4>6, <4>7
    <3> QED BY <3>3, <3>4
  <2> QED BY <2>1, <2>2
<1> QED BY <1>6, <1>9, <1>14, <1>16 DEF Numbering

LEMMA BackFrom ==
  ASSUME NEW f, \A x, y \in DOMAIN f : f[x] = f[y] => x = y
  PROVE  /\ DOMAIN AntiFunction(f) = {f[x] : x \in DOMAIN f}
         /\ \A x \in DOMAIN f : AntiFunction(f)[f[x]] = x
<1>1. PICK R : R = Range(f)
  OBVIOUS
<1>2. R = {f[x] : x \in DOMAIN f}
  BY <1>1 DEF Range
<1>3. AntiFunction(f) = [t \in R |-> CHOOSE s \in DOMAIN f : t \in R => f[s] = t]
  BY <1>1 DEF AntiFunction, Inverse
<1>4. ASSUME NEW x \in DOMAIN f PROVE AntiFunction(f)[f[x]] = x
  <2>1. f[x] \in R
    BY <1>2
  <2>2. PICK y : y = CHOOSE s \in DOMAIN f : f[x] \in R => f[s] = f[x]
    OBVIOUS
  <2>3. \E s \in DOMAIN f : f[x] \in R => f[s] = f[x]
    OBVIOUS
  <2>4. y \in DOMAIN f /\ (f[x] \in R => f[y] = f[x])
    BY <2>2, <2>3
  <2> QED BY <1>3, <2>1, <2>2, <2>4
<1> QED BY <1>2, <1>3, <1>4

(* After a promotion each numbered entity is the one that holds its item,  *)
(* and no other entity holds one.                                          *)
Moved(m, n, chosen, itemOf) ==
    /\ DOMAIN n = DOMAIN m /\ \A e \in DOMAIN m : n[e].kind = m[e].kind
    /\ \A e \in DOMAIN m \ chosen : n[e] = m[e]
    /\ \A e \in chosen : n[e].origin # None /\ n[e].origin.item = itemOf[e]
LEMMA PromotedLinks ==
  ASSUME NEW m, NEW next, Dictionary(m, next), NEW rows, Library(rows, next),
         NEW L, L = LinkedItems(m, rows),
         NEW chosen, NEW itemOf, Numbering(m, rows, next, L, chosen, itemOf),
         NEW n, Moved(m, n, chosen, itemOf),
         NEW stored, DOMAIN stored = DOMAIN rows \cup {itemOf[e] : e \in chosen}
  PROVE  LinkedItems(n, stored) = itemOf
<1>0. /\ chosen \subseteq DOMAIN m
      /\ itemOf = [e \in DOMAIN itemOf |-> itemOf[e]] /\ DOMAIN itemOf = chosen \cup DOMAIN L
      /\ \A e \in DOMAIN itemOf : NumberedAs(m, rows, next, L, e, itemOf[e])
      /\ \A e, f \in DOMAIN itemOf : itemOf[e] = itemOf[f] => e = f
      /\ DOMAIN n = DOMAIN m /\ \A e \in DOMAIN m : n[e].kind = m[e].kind
      /\ \A e \in DOMAIN m \ chosen : n[e] = m[e]
      /\ \A e \in chosen : n[e].origin # None /\ n[e].origin.item = itemOf[e]
  BY DEF Numbering, Moved
<1>1. PICK K : K = LinkedItems(n, stored)
  OBVIOUS
<1>2. next \in Nat /\ \A i \in DOMAIN rows : i \in Nat /\ i < next
  BY <1>0 DEF Library
<1>3. \A e \in DOMAIN m : m[e].origin # None => m[e].origin.item \in Nat /\ m[e].origin.item < next
  BY <1>0 DEF Dictionary, Entity
<1>4. \A e, f \in DOMAIN m : Before(n, e, f) <=> Before(m, e, f)
  BY <1>0, BeforeIsSooner DEF Sooner
<1>5. \A e \in DOMAIN L : itemOf[e] = L[e] /\ L[e] = m[e].origin.item /\ e \in Linkers(m, L[e]) /\ L[e] \in DOMAIN rows
  <2> SUFFICES ASSUME NEW e \in DOMAIN L
               PROVE  itemOf[e] = L[e] /\ L[e] = m[e].origin.item /\ e \in Linkers(m, L[e]) /\ L[e] \in DOMAIN rows
    OBVIOUS
  <2>1. NumberedAs(m, rows, next, L, e, itemOf[e])
    BY <1>0
  <2>2. itemOf[e] = L[e]
    BY <1>0, <2>1 DEF NumberedAs
  <2>3. L[e] = m[e].origin.item /\ e \in Linkers(m, L[e]) /\ L[e] \in DOMAIN rows
    BY <1>0, LinkedFacts
  <2> QED BY <1>0, <2>2, <2>3
<1>6. \A i, f : f \in Linkers(n, i) \ chosen => f \in Linkers(m, i)
  BY <1>0 DEF Linkers
<1>7. ASSUME NEW e \in DOMAIN itemOf
      PROVE  e \in DOMAIN K /\ K[e] = itemOf[e]
  <2>1. PICK i : i = itemOf[e]
    OBVIOUS
  <2>1a. NumberedAs(m, rows, next, L, e, i)
    BY <1>0, <2>1
  <2>2. Sourced(n, e) /\ n[e].origin.item = i
    <3>1. CASE e \in chosen
      BY <1>0, <2>1, <3>1 DEF Sourced
    <3>2. CASE e \notin chosen
      BY <1>0, <1>5, <2>1, <3>2 DEF Linkers, Sourced
    <3> QED BY <1>0, <3>1, <3>2
  <2>3. i \in DOMAIN stored
    BY <1>0, <1>5, <2>1
  <2>4. ASSUME NEW f \in Linkers(n, i) \ {e} PROVE Before(n, e, f)
    <3>1. f \in DOMAIN m /\ n[f].origin # None /\ n[f].origin.item = i /\ e \in DOMAIN m
      BY <1>0, <2>2 DEF Linkers, Sourced
    <3>2. f \notin chosen
      BY <1>0, <2>1, <2>4, <3>1
    <3>3. f \in Linkers(m, i) \ {e}
      BY <1>0, <1>6, <2>4, <3>2
    <3>4. e \in DOMAIN L
      <4>1. i < next
        BY <1>0, <1>3, <3>3 DEF Linkers
      <4>2. i \in Nat
        BY <1>0, <1>3, <3>3 DEF Linkers
      <4>3. CASE i \in DOMAIN rows
        <5>1. \E g \in DOMAIN L : L[g] = i
          BY <1>0, <3>3, <4>3, LinkedOnce
        <5> QED BY <1>0, <1>2, <2>1a, <4>1, <4>2, <5>1 DEF NumberedAs, Range
      <4>4. CASE i \notin DOMAIN rows
        BY <1>0, <1>2, <2>1a, <4>1, <4>2, <4>4 DEF NumberedAs
      <4> QED BY <1>0, <4>3, <4>4
    <3>5. L[e] = i /\ m[e].origin.item = i
      BY <1>0, <1>5, <2>1, <3>4
    <3>6. \A g \in Linkers(m, m[e].origin.item) \ {e} : Before(m, e, g)
      BY <1>0, <3>4, LinkedFacts
    <3>7. Before(m, e, f)
      BY <1>0, <3>3, <3>5, <3>6
    <3> QED BY <1>0, <1>4, <3>1, <3>7
  <2>5. e \in DOMAIN K
    BY <1>0, <1>1, <2>2, <2>3, <2>4, LinkedFacts
  <2>6. K[e] = n[e].origin.item
    BY <1>0, <1>1, <2>5, LinkedFacts
  <2> QED BY <1>0, <2>1, <2>2, <2>5, <2>6
<1>8. ASSUME NEW e \in DOMAIN K PROVE e \in DOMAIN itemOf
  <2> SUFFICES ASSUME e \notin DOMAIN itemOf PROVE FALSE
    OBVIOUS
  <2>1. /\ Sourced(n, e) /\ n[e].origin.item \in DOMAIN stored
        /\ \A f \in Linkers(n, n[e].origin.item) \ {e} : Before(n, e, f)
    BY <1>0, <1>1, <1>8, LinkedFacts
  <2>2. PICK i : i = n[e].origin.item
    OBVIOUS
  <2>3. e \notin chosen /\ e \in DOMAIN m /\ n[e] = m[e] /\ e \in Linkers(m, i) /\ e \in Linkers(n, i)
    BY <1>0, <2>1, <2>2 DEF Sourced, Linkers
  <2>4. i \in Nat /\ i < next
    BY <1>0, <1>3, <2>3 DEF Linkers
  <2>5. i \in DOMAIN rows
    <3> SUFFICES ASSUME i \notin DOMAIN rows PROVE FALSE
      OBVIOUS
    <3>1. PICK g \in chosen : i = itemOf[g]
      BY <1>0, <2>1, <2>2
    <3>2. g \in DOMAIN itemOf
      BY <1>0, <3>1
    <3>3. NumberedAs(m, rows, next, L, g, i)
      BY <1>0, <3>1, <3>2
    <3>4. g \in DOMAIN L => i \in DOMAIN rows
      BY <1>0, <1>5, <3>1
    <3> QED BY <1>0, <1>2, <2>4, <3>3, <3>4 DEF NumberedAs
  <2>6. PICK f \in DOMAIN L : L[f] = i
    BY <1>0, <2>3, <2>5, LinkedOnce
  <2>7. f \in DOMAIN itemOf /\ f # e /\ itemOf[f] = i /\ f \in Linkers(m, i)
    BY <1>0, <1>5, <2>6
  <2>8. f \in Linkers(n, i)
    <3>1. CASE f \in chosen
      BY <1>0, <2>7, <3>1 DEF Linkers
    <3>2. CASE f \notin chosen
      BY <1>0, <2>7, <3>2 DEF Linkers
    <3> QED BY <1>0, <3>1, <3>2
  <2>9. Before(n, e, f)
    BY <1>0, <2>1, <2>2, <2>7, <2>8
  <2>10. Before(m, e, f)
    BY <1>0, <1>4, <2>3, <2>7, <2>9 DEF Linkers
  <2>11. \A g \in Linkers(m, m[f].origin.item) \ {f} : Before(m, f, g)
    BY <1>0, <2>6, LinkedFacts
  <2>12. Before(m, f, e)
    BY <1>0, <1>5, <2>3, <2>6, <2>7, <2>11
  <2>13. f \in DOMAIN m
    BY <1>0, <2>7 DEF Linkers
  <2> QED BY <1>0, <2>3, <2>10, <2>12, <2>13, OneOrder
<1>9. K = [e \in DOMAIN K |-> K[e]]
  BY <1>0, <1>1, LinkedFacts
<1>10. DOMAIN K = DOMAIN itemOf
  BY <1>0, <1>7, <1>8
<1> QED BY <1>0, <1>1, <1>7, <1>9, <1>10

(* What a resync offers: the items that came from elsewhere, and those     *)
(* whose last entity has another version.                                  *)
Lags(m, rows, i) == m[Max(Linkers(m, i))].origin.version # rows[i].version
LEMMA OfferFacts ==
  ASSUME NEW m, NEW rows, NEW plan, plan = planResync(m, rows)
  PROVE  /\ plan = [i \in DOMAIN plan |-> plan[i]]
         /\ \A i : i \in DOMAIN plan <=> i \in DOMAIN rows /\ (Linkers(m, i) = {} \/ Lags(m, rows, i))
         /\ \A i \in DOMAIN plan : /\ plan[i].item = rows[i]
                                   /\ plan[i].status = "added" <=> Linkers(m, i) = {}
                                   /\ Linkers(m, i) # {} => plan[i].entity = Max(Linkers(m, i))
<1>1. \A i : i \in Linked(m) <=> Linkers(m, i) # {}
  BY DEF Linked, Linkers
<1>2. PICK index : index = existingSourceIndex(m)
  OBVIOUS
<1>3. \A i : i \in DOMAIN index <=> Linkers(m, i) # {}
  BY <1>1, <1>2 DEF existingSourceIndex
<1>4. \A i \in DOMAIN index : index[i] = Max(Linkers(m, i))
  BY <1>2 DEF existingSourceIndex
<1>5. PICK R : R = ResyncEntries(m, rows, index)
  OBVIOUS
<1>6. DOMAIN R = DOMAIN rows
  BY <1>5 DEF ResyncEntries
<1>7. ASSUME NEW i \in DOMAIN rows, Linkers(m, i) = {}
      PROVE  R[i].item = rows[i] /\ R[i].status = "added"
  BY <1>3, <1>5, <1>7 DEF ResyncEntries
<1>8. ASSUME NEW i \in DOMAIN rows, Linkers(m, i) # {}
      PROVE  /\ R[i].item = rows[i] /\ R[i].entity = Max(Linkers(m, i)) /\ R[i].status # "added"
             /\ R[i].status = "synced" <=> ~ Lags(m, rows, i)
  <2>1. PICK e : e = Max(Linkers(m, i))
    OBVIOUS
  <2>2. R[i] = [item |-> rows[i], entity |-> e, status |-> ResyncStatus(m[e], rows[i])]
    BY <1>3, <1>4, <1>5, <1>8, <2>1 DEF ResyncEntries
  <2>3. ResyncStatus(m[e], rows[i]) # "added" /\ (ResyncStatus(m[e], rows[i]) = "synced" <=> ~ Lags(m, rows, i))
    BY <2>1 DEF ResyncStatus, Lags
  <2> QED BY <2>1, <2>2, <2>3
<1>9. plan = Unsynced(R)
  BY <1>2, <1>5 DEF planResync
<1>10. PICK D : D = {i \in DOMAIN R : R[i].status # "synced"}
  OBVIOUS
<1>11. DOMAIN plan = D /\ plan = [i \in DOMAIN plan |-> plan[i]] /\ \A i \in D : plan[i] = R[i]
  BY <1>9, <1>10 DEF Unsynced, Restrict
<1>12. \A i : i \in D <=> i \in DOMAIN rows /\ (Linkers(m, i) = {} \/ Lags(m, rows, i))
  BY <1>6, <1>7, <1>8, <1>10
<1> QED BY <1>6, <1>7, <1>8, <1>10, <1>11, <1>12

LEMMA LastLinker ==
  ASSUME NEW m, NEW next, Dictionary(m, next), NEW i, NEW e \in Linkers(m, i)
  PROVE  /\ IsFiniteSet(Linkers(m, i)) /\ Linkers(m, i) \subseteq DOMAIN m
         /\ Max(Linkers(m, i)) \in Linkers(m, i) /\ \A f \in Linkers(m, i) : f <= Max(Linkers(m, i))
<1>1. Linkers(m, i) \in SUBSET DOMAIN m
  BY DEF Linkers
<1>2. Linkers(m, i) \subseteq Nat
  BY <1>1 DEF Dictionary, Entity
<1>3. IsFiniteSet(Linkers(m, i))
  BY <1>1, FS_Subset DEF Dictionary
<1> QED BY <1>1, <1>2, <1>3, LargestNumber

LEMMA MoreThanOne ==
  ASSUME NEW S, IsFiniteSet(S), NEW x \in S, NEW y \in S, x # y
  PROVE  Cardinality(S) > 1
<1>1. {x} \in SUBSET S /\ {x} # S
  OBVIOUS
<1>2. Cardinality({x}) = 1
  BY FS_Singleton
<1>3. Cardinality({x}) <= Cardinality(S) /\ Cardinality({x}) # Cardinality(S)
  BY <1>1, FS_Subset
<1>4. Cardinality(S) \in Nat
  BY FS_CardinalityType
<1> QED BY <1>2, <1>3, <1>4

LEMMA PayloadsKept ==
  ASSUME NEW kind, NEW x, NEW index, NEW version
  PROVE  /\ PayloadOf(ItemRow(kind, Through(PayloadOf(x), index), version)) = Through(PayloadOf(x), index)
         /\ ItemRow(kind, Through(PayloadOf(x), index), version).version = version
  BY DEF PayloadOf, ItemRow, Through

LEMMA Relinked ==
  ASSUME NEW x, x = [f \in FIELDS |-> x[f]], NEW o, NEW y, y = [x EXCEPT !.origin = o]
  PROVE  y.origin = o /\ y.kind = x.kind /\ PayloadOf(y) = PayloadOf(x) /\ y = [f \in FIELDS |-> y[f]]
<1>1. DOMAIN x = FIELDS
  OBVIOUS
<1> QED BY <1>1 DEF PayloadOf, FIELDS

(* Carried out, a promotion has nothing left to do for what it promoted.   *)
LEMMA PromotionSettles ==
  ASSUME \A i, v, b : Origin(i, v, b) # None,
         NEW m, NEW next, Dictionary(m, next), NEW rows, Library(rows, next),
         NEW plan, plan = planPromote(m, rows), NEW chosen, chosen \subseteq DOMAIN plan.entries,
         NEW result, result = applyPromotePlan(m, plan, chosen, next)
  PROVE  PromoteSettles(result, Over(result.writes, rows), chosen)
<1>1. PICK L, itemOf : L = LinkedItems(m, rows) /\ itemOf = ItemsOfBatch(plan, chosen, next)
  OBVIOUS
<1>2a. Numbering(m, rows, next, L, chosen, itemOf)
  BY <1>1, NumberFacts
<1>2. /\ chosen \subseteq DOMAIN m
      /\ itemOf = [e \in DOMAIN itemOf |-> itemOf[e]] /\ DOMAIN itemOf = chosen \cup DOMAIN L
      /\ \A e \in DOMAIN itemOf : NumberedAs(m, rows, next, L, e, itemOf[e])
      /\ \A e, f \in DOMAIN itemOf : itemOf[e] = itemOf[f] => e = f
  BY <1>2a DEF Numbering
<1>3. PICK back : back = AntiFunction(itemOf)
  OBVIOUS
<1>4. \A e \in DOMAIN itemOf : back[itemOf[e]] = e
  BY <1>2, <1>3, BackFrom
<1>5. PICK version : version = [e \in chosen |-> PromotedVersion(plan.entries[e])]
  OBVIOUS
<1>6. PICK payload : payload = [e \in chosen |-> Through(PayloadOf(m[e]), itemOf)]
  OBVIOUS
<1>7. PICK W : W = [i \in {itemOf[e] : e \in chosen} |->
                       ItemRow(m[back[i]].kind, Through(PayloadOf(m[back[i]]), itemOf), PromotedVersion(plan.entries[back[i]]))]
  OBVIOUS
<1>8. PICK own : own = [e \in chosen |->
                          [m[e] EXCEPT !.origin = Origin(itemOf[e], PromotedVersion(plan.entries[e]),
                               PromotedBase(m[e], Through(PayloadOf(m[e]), itemOf), back))]]
  OBVIOUS
<1>9. PICK n : n = Over(own, m)
  OBVIOUS
<1>10. result.writes = W /\ result.model = n
  BY <1>1, <1>3, <1>7, <1>8, <1>9 DEF applyPromotePlan, Promotion, Promoted
<1>11. /\ DOMAIN n = DOMAIN m /\ (\A e \in chosen : n[e] = own[e]) /\ (\A e \in DOMAIN m \ chosen : n[e] = m[e])
  BY <1>2, <1>8, <1>9 DEF Over
<1>12. ASSUME NEW e \in chosen
       PROVE  /\ n[e].origin # None /\ n[e].origin.item = itemOf[e]
              /\ n[e].origin.version = PromotedVersion(plan.entries[e])
              /\ n[e].kind = m[e].kind /\ PayloadOf(n[e]) = PayloadOf(m[e])
  <2>1. PICK o : o = Origin(itemOf[e], PromotedVersion(plan.entries[e]),
                            PromotedBase(m[e], Through(PayloadOf(m[e]), itemOf), back))
    OBVIOUS
  <2>2. n[e] = [m[e] EXCEPT !.origin = o]
    BY <1>8, <1>11, <2>1
  <2>3. m[e] = [f \in FIELDS |-> m[e][f]]
    BY <1>2 DEF Dictionary, Entity
  <2>4. n[e].origin = o /\ n[e].kind = m[e].kind /\ PayloadOf(n[e]) = PayloadOf(m[e])
    BY <2>2, <2>3, Relinked
  <2>5. o # None /\ o.item = itemOf[e] /\ o.version = PromotedVersion(plan.entries[e])
    BY <2>1 DEF Origin
  <2> QED BY <2>4, <2>5
<1>13. PICK stored : stored = Over(W, rows)
  OBVIOUS
<1>14. /\ DOMAIN stored = DOMAIN rows \cup {itemOf[e] : e \in chosen}
       /\ DOMAIN W = {itemOf[e] : e \in chosen} /\ \A i \in DOMAIN W : stored[i] = W[i]
  BY <1>7, <1>13 DEF Over
<1>15. \A e \in DOMAIN m : n[e].kind = m[e].kind
  BY <1>11, <1>12
<1>16. LinkedItems(n, stored) = itemOf
  <2>1. \A e \in chosen : n[e].origin # None /\ n[e].origin.item = itemOf[e]
    BY <1>12
  <2>2. Moved(m, n, chosen, itemOf)
    BY <1>11, <1>15, <2>1 DEF Moved
  <2> QED BY <1>1, <1>2a, <1>14, <2>2, PromotedLinks
<1>17. ASSUME NEW e \in chosen
       PROVE  PayloadOf(stored[itemOf[e]]) = Through(PayloadOf(m[e]), itemOf)
              /\ stored[itemOf[e]].version = PromotedVersion(plan.entries[e])
  <2>1. itemOf[e] \in DOMAIN W /\ back[itemOf[e]] = e
    BY <1>2, <1>4, <1>14
  <2>2. stored[itemOf[e]] = ItemRow(m[e].kind, Through(PayloadOf(m[e]), itemOf), PromotedVersion(plan.entries[e]))
    BY <1>7, <1>14, <2>1
  <2> QED BY <2>2, PayloadsKept
<1>18. DOMAIN planPromote(n, stored).entries \cap chosen = {}
  <2>1. planPromote(n, stored).entries = PromoteEntries(n, stored, itemOf)
    BY <1>16 DEF planPromote, PromotePlan
  <2>2. DOMAIN PromoteEntries(n, stored, itemOf) =
          DOMAIN n \ {e \in DOMAIN itemOf : Through(PayloadOf(n[e]), itemOf) = PayloadOf(stored[itemOf[e]])}
    BY DEF PromoteEntries
  <2>3. \A e \in chosen : e \in DOMAIN itemOf /\ Through(PayloadOf(n[e]), itemOf) = PayloadOf(stored[itemOf[e]])
    BY <1>2, <1>12, <1>17
  <2> QED BY <2>1, <2>2, <2>3
<1>19. ASSUME NEW i \in DOMAIN planResync(n, stored) \cap DOMAIN W
       PROVE  Cardinality(Linkers(n, i)) > 1
  <2>1. PICK e \in chosen : i = itemOf[e]
    BY <1>14
  <2>2. e \in Linkers(n, i)
    BY <1>2, <1>11, <1>12, <2>1 DEF Linkers
  <2>3. Linkers(n, i) # {} => Lags(n, stored, i)
    BY <1>19, OfferFacts
  <2>4. IsFiniteSet(Linkers(n, i)) /\ Linkers(n, i) \subseteq Nat
    <3>1. Linkers(n, i) \in SUBSET DOMAIN m
      BY <1>11 DEF Linkers
    <3>2. IsFiniteSet(Linkers(n, i))
      BY <3>1, FS_Subset DEF Dictionary
    <3> QED BY <3>1, <3>2 DEF Dictionary, Entity
  <2>5. Max(Linkers(n, i)) \in Linkers(n, i)
    BY <2>2, <2>4, LargestNumber
  <2>6. Max(Linkers(n, i)) # e
    BY <1>12, <1>17, <2>1, <2>2, <2>3 DEF Lags
  <2> QED BY <2>2, <2>4, <2>5, <2>6, MoreThanOne
<1>20. /\ DOMAIN planPromote(result.model, Over(result.writes, rows)).entries \cap chosen = {}
       /\ \A i \in DOMAIN planResync(result.model, Over(result.writes, rows)) \cap DOMAIN result.writes :
             Cardinality(Linkers(result.model, i)) > 1
  BY <1>10, <1>13, <1>18, <1>19
<1> QED BY <1>20 DEF PromoteSettles

(* A resync hands entities to items: each item gets one of its own, the    *)
(* one it had or one that had no origin.  What it was handed for is then   *)
(* synced, and what it was not handed for stays as it was.                 *)
Handed(m, rows, T, n) ==
    /\ DOMAIN T \subseteq DOMAIN planResync(m, rows)
    /\ \A i, j \in DOMAIN T : T[i] = T[j] => i = j
    /\ \A i \in DOMAIN T : IF Linkers(m, i) # {} THEN T[i] = Max(Linkers(m, i)) ELSE ~ Sourced(m, T[i])
    /\ IsFiniteSet(DOMAIN n) /\ DOMAIN n \subseteq Nat /\ DOMAIN n = DOMAIN m \cup {T[i] : i \in DOMAIN T}
    /\ \A e \in DOMAIN m \ {T[i] : i \in DOMAIN T} : n[e] = m[e]
    /\ \A i \in DOMAIN T : Sourced(n, T[i]) /\ n[T[i]].origin.item = i /\ n[T[i]].origin.version = rows[i].version

LEMMA HandedSettles ==
  ASSUME NEW m, NEW next, Dictionary(m, next), NEW rows, NEW T, NEW n, Handed(m, rows, T, n)
  PROVE  /\ \A i : i \in DOMAIN planResync(n, rows) <=> i \in DOMAIN planResync(m, rows) \ DOMAIN T
         /\ \A i : i \notin DOMAIN T => Linkers(n, i) = Linkers(m, i)
<1>1. \A i : i \in DOMAIN planResync(m, rows) <=> i \in DOMAIN rows /\ (Linkers(m, i) = {} \/ Lags(m, rows, i))
  BY OfferFacts
<1>2. \A i : i \in DOMAIN planResync(n, rows) <=> i \in DOMAIN rows /\ (Linkers(n, i) = {} \/ Lags(n, rows, i))
  BY OfferFacts
<1>3. \A i, e : e \in Linkers(n, i) <=> Sourced(n, e) /\ n[e].origin.item = i
  BY DEF Linkers, Sourced
<1>4. \A i, e : e \in Linkers(m, i) <=> Sourced(m, e) /\ m[e].origin.item = i
  BY DEF Linkers, Sourced
<1>5. \A i : Linkers(m, i) # {} => Max(Linkers(m, i)) \in Linkers(m, i) /\ \A f \in Linkers(m, i) : f <= Max(Linkers(m, i))
  BY LastLinker
<1>6. \A i : Linkers(n, i) # {} => Max(Linkers(n, i)) \in Linkers(n, i) /\ \A f \in Linkers(n, i) : f <= Max(Linkers(n, i))
  <2> SUFFICES ASSUME NEW i, Linkers(n, i) # {}
               PROVE  Max(Linkers(n, i)) \in Linkers(n, i) /\ \A f \in Linkers(n, i) : f <= Max(Linkers(n, i))
    OBVIOUS
  <2>1. Linkers(n, i) \in SUBSET DOMAIN n
    BY DEF Linkers
  <2>2. IsFiniteSet(Linkers(n, i)) /\ Linkers(n, i) \subseteq Nat
    BY <2>1, FS_Subset DEF Handed
  <2> QED BY <2>2, LargestNumber
<1>7. PICK E : E = {T[i] : i \in DOMAIN T}
  OBVIOUS
<1>8. \A e \in E : \E i \in DOMAIN T : e = T[i]
  BY <1>7
<1>9. /\ DOMAIN n = DOMAIN m \cup E /\ \A e \in DOMAIN m \ E : n[e] = m[e]
      /\ \A i \in DOMAIN T : T[i] \in E /\ Sourced(n, T[i]) /\ n[T[i]].origin.item = i
                             /\ n[T[i]].origin.version = rows[i].version
  BY <1>7 DEF Handed
<1>10. \A i : \A e \in Linkers(n, i) : e \in Linkers(m, i) \/ (i \in DOMAIN T /\ e = T[i])
  BY <1>3, <1>4, <1>8, <1>9 DEF Sourced
<1>11. \A i : i \notin DOMAIN T => \A e \in Linkers(m, i) : e \in Linkers(n, i) /\ n[e] = m[e]
  <2> SUFFICES ASSUME NEW i, i \notin DOMAIN T, NEW e \in Linkers(m, i) PROVE e \in Linkers(n, i) /\ n[e] = m[e]
    OBVIOUS
  <2>1. e \notin E
    <3> SUFFICES ASSUME NEW j \in DOMAIN T, e = T[j] PROVE FALSE
      BY <1>8
    <3>1. Sourced(m, e) /\ m[e].origin.item = i
      BY <1>4
    <3>2. Linkers(m, j) # {} /\ e = Max(Linkers(m, j))
      BY <3>1 DEF Handed
    <3>3. m[e].origin.item = j
      BY <1>4, <1>5, <3>2
    <3> QED BY <3>1, <3>3
  <2> QED BY <1>3, <1>4, <1>9, <2>1 DEF Sourced
<1>12. ASSUME NEW i, i \in DOMAIN T PROVE i \notin DOMAIN planResync(n, rows)
  <2>1. T[i] \in Linkers(n, i)
    BY <1>3, <1>9, <1>12
  <2>2. Max(Linkers(n, i)) = T[i]
    <3>1. CASE Linkers(m, i) = {}
      BY <1>6, <1>10, <2>1, <3>1
    <3>2. CASE Linkers(m, i) # {}
      <4>1. T[i] = Max(Linkers(m, i)) /\ \A f \in Linkers(m, i) : f <= T[i]
        BY <1>5, <1>12, <3>2 DEF Handed
      <4>2. PICK x : x = Max(Linkers(n, i))
        OBVIOUS
      <4>3. x \in Linkers(n, i) /\ T[i] <= x
        BY <1>6, <2>1, <4>2
      <4>4. x <= T[i]
        <5>1. CASE x = T[i]
          <6>1. T[i] \in Nat
            BY <2>1 DEF Linkers, Handed
          <6> QED BY <5>1, <6>1
        <5>2. CASE x # T[i]
          BY <1>10, <4>1, <4>3, <5>2
        <5> QED BY <5>1, <5>2
      <4>5. x \in Nat /\ T[i] \in Nat
        BY <2>1, <4>3 DEF Linkers, Handed
      <4> QED BY <4>2, <4>3, <4>4, <4>5
    <3> QED BY <3>1, <3>2
  <2>3. ~ Lags(n, rows, i)
    BY <1>9, <1>12, <2>2 DEF Lags
  <2> QED BY <1>2, <2>1, <2>3
<1>13. ASSUME NEW i, i \notin DOMAIN T
       PROVE  /\ i \in DOMAIN planResync(n, rows) <=> i \in DOMAIN planResync(m, rows)
              /\ Linkers(n, i) = Linkers(m, i)
  <2>1. Linkers(n, i) = Linkers(m, i)
    BY <1>10, <1>11, <1>13
  <2>2. Linkers(m, i) # {} => (Lags(n, rows, i) <=> Lags(m, rows, i))
    BY <1>5, <1>11, <1>13, <2>1 DEF Lags
  <2> QED BY <1>1, <1>2, <2>1, <2>2
<1>14. DOMAIN T \subseteq DOMAIN planResync(m, rows)
  BY DEF Handed
<1> QED BY <1>12, <1>13, <1>14

(* What applyResyncPlan does, whatever model the plan was made for: an     *)
(* added item gets a new entity or one without origin, another item the    *)
(* entity the plan names, if it is still there.                            *)
HandedAs(m, plan, decisions, first, i, e) ==
    \/ plan[i].status = "added" /\ decisions[i] = "apply" /\ e \in Nat /\ first <= e
    \/ plan[i].status = "added" /\ decisions[i] = "adopt" /\ e \in DOMAIN m /\ ~ Sourced(m, e)
    \/ plan[i].status # "added" /\ decisions[i] # "adopt" /\ e = plan[i].entity /\ e \in DOMAIN m
TakenOver(m, plan, decisions, i, e, new) ==
    /\ \E payload : new.origin = Origin(i, plan[i].item.version, payload)
    /\ new = [f \in FIELDS |-> new[f]]
    /\ new.kind = IF decisions[i] = "apply" THEN plan[i].item.kind ELSE m[e].kind
Reshaped(m, plan, decisions, first, T, n) ==
    /\ DOMAIN T \subseteq DOMAIN decisions
    /\ \A i \in DOMAIN T : HandedAs(m, plan, decisions, first, i, T[i])
    /\ \A i, j \in DOMAIN T : plan[i].status = "added" /\ plan[j].status = "added" /\ T[i] = T[j] => i = j
    /\ \A i \in DOMAIN decisions \ DOMAIN T :
          IF plan[i].status = "added" THEN decisions[i] # "apply"
          ELSE decisions[i] = "adopt" \/ plan[i].entity \notin DOMAIN m
    /\ IsFiniteSet(DOMAIN n) /\ DOMAIN n = DOMAIN m \cup {T[i] : i \in DOMAIN T}
    /\ \A e \in DOMAIN m \ {T[i] : i \in DOMAIN T} : n[e] = m[e]
    /\ \A e \in {T[i] : i \in DOMAIN T} : \E i \in DOMAIN T : T[i] = e /\ TakenOver(m, plan, decisions, i, e, n[e])

LEMMA SomeBack ==
  ASSUME NEW f, NEW x \in Range(f)
  PROVE  AntiFunction(f)[x] \in DOMAIN f /\ f[AntiFunction(f)[x]] = x
<1>1. PICK R : R = Range(f)
  OBVIOUS
<1>2. AntiFunction(f) = [t \in R |-> CHOOSE s \in DOMAIN f : t \in R => f[s] = t]
  BY <1>1 DEF AntiFunction, Inverse
<1>3. PICK y : y = CHOOSE s \in DOMAIN f : x \in R => f[s] = x
  OBVIOUS
<1>4. \E s \in DOMAIN f : f[s] = x
  BY DEF Range
<1>5. y \in DOMAIN f /\ (x \in R => f[y] = x)
  BY <1>3, <1>4
<1> QED BY <1>1, <1>2, <1>3, <1>5

LEMMA AdoptedFacts ==
  ASSUME NEW m, NEW next, Dictionary(m, next), NEW plan, NEW decisions, DOMAIN decisions \subseteq Nat,
         NEW A, A = adoptAssignments(m, plan, decisions)
  PROVE  /\ DOMAIN A \subseteq DOMAIN decisions
         /\ \A i \in DOMAIN A : /\ decisions[i] = "adopt" /\ plan[i].status = "added"
                                /\ A[i] \in DOMAIN m /\ ~ Sourced(m, A[i])
         /\ \A i, j \in DOMAIN A : A[i] = A[j] => i = j
<1>1. PICK asked : asked = {i \in DOMAIN decisions : decisions[i] = "adopt" /\ adoptTargetOf(m, plan[i]) # None}
  OBVIOUS
<1>2. PICK targets : targets = [i \in asked |-> adoptTargetOf(m, plan[i])]
  OBVIOUS
<1>3. A = Restrict(targets, FirstComers(targets))
  BY <1>1, <1>2 DEF adoptAssignments
<1>4. DOMAIN A = FirstComers(targets) /\ \A i \in DOMAIN A : A[i] = targets[i]
  BY <1>3 DEF Restrict
<1>5. FirstComers(targets) \subseteq asked /\ asked \subseteq DOMAIN decisions
  BY <1>1, <1>2 DEF FirstComers
<1>6. ASSUME NEW i \in DOMAIN A
      PROVE  decisions[i] = "adopt" /\ plan[i].status = "added" /\ A[i] \in DOMAIN m /\ ~ Sourced(m, A[i])
  <2>1. i \in asked /\ A[i] = adoptTargetOf(m, plan[i]) /\ A[i] # None /\ decisions[i] = "adopt"
    BY <1>1, <1>2, <1>4, <1>5
  <2>2. PICK hits : hits = {e \in Namesakes(m, plan[i].item) : m[e].origin = None}
    OBVIOUS
  <2>3. plan[i].status = "added" /\ hits # {} /\ A[i] = Min(hits)
    BY <2>1, <2>2 DEF adoptTargetOf
  <2>4. hits \in SUBSET Nat /\ hits \subseteq DOMAIN m
    BY <2>2 DEF Namesakes, Dictionary, Entity
  <2>5. \E n \in hits : \A k \in hits : n =< k
    BY <2>3, <2>4, LeastNumber
  <2>6. Min(hits) \in hits
    BY <2>5 DEF Min
  <2> QED BY <2>1, <2>2, <2>3, <2>4, <2>6 DEF Sourced
<1>7. ASSUME NEW i \in DOMAIN A, NEW j \in DOMAIN A, A[i] = A[j] PROVE i = j
  <2>1. i <= j /\ j <= i
    BY <1>2, <1>4, <1>5, <1>7 DEF FirstComers
  <2>2. i \in Nat /\ j \in Nat
    BY <1>4, <1>5
  <2> QED BY <2>1, <2>2
<1> QED BY <1>4, <1>5, <1>6, <1>7

LEMMA ReviewedFacts ==
  ASSUME NEW x, x = [f \in FIELDS |-> x[f]], NEW o
  PROVE  Reviewed(x, o).origin = o /\ Reviewed(x, o).kind = x.kind
         /\ Reviewed(x, o) = [f \in FIELDS |-> Reviewed(x, o)[f]]
<1>1. PICK y : y = [x EXCEPT !.origin = o]
  OBVIOUS
<1>2. y.origin = o /\ y.kind = x.kind /\ y = [f \in FIELDS |-> y[f]]
  BY <1>1, Relinked
<1>3. Reviewed(x, o) = y
  BY <1>1 DEF Reviewed
<1> QED BY <1>2, <1>3

LEMMA ImportedForm ==
  ASSUME NEW item, NEW payload, NEW x, x = Imported(item, payload)
  PROVE  x = [f \in FIELDS |-> x[f]] /\ x.kind = item.kind
  BY DEF Imported, FIELDS

LEMMA ResyncShape ==
  ASSUME NEW m, NEW next, Dictionary(m, next), NEW plan,
         NEW decisions, IsFiniteSet(DOMAIN decisions), DOMAIN decisions \subseteq Nat,
         NEW first \in Nat, \A e \in DOMAIN m : e < first,
         NEW n, n = applyResyncPlan(m, plan, decisions, first)
  PROVE  \E T : Reshaped(m, plan, decisions, first, T, n)
<1>1. PICK added : added = {i \in DOMAIN decisions : plan[i].status = "added" /\ decisions[i] = "apply"}
  OBVIOUS
<1>2. PICK created : created = [i \in added |-> first + Position(i, added)]
  OBVIOUS
<1>3. PICK A : A = adoptAssignments(m, plan, decisions)
  OBVIOUS
<1>4. PICK changed : changed = {i \in DOMAIN decisions : /\ plan[i].status # "added" /\ decisions[i] # "adopt"
                                                        /\ plan[i].entity \in DOMAIN m}
  OBVIOUS
<1>5. PICK C : C = [i \in changed |-> plan[i].entity]
  OBVIOUS
<1>6. PICK T : T = Over(created, Over(A, C))
  OBVIOUS
<1>7. PICK index : index = Over(created, Over(A, existingSourceIndex(m)))
  OBVIOUS
<1>8. PICK back : back = AntiFunction(T)
  OBVIOUS
<1>9. n = Resynced(m, plan, decisions, index, back)
  BY <1>1, <1>2, <1>3, <1>4, <1>5, <1>6, <1>7, <1>8 DEF applyResyncPlan, Resyncing
<1>10. /\ DOMAIN A \subseteq DOMAIN decisions
       /\ \A i \in DOMAIN A : /\ decisions[i] = "adopt" /\ plan[i].status = "added"
                              /\ A[i] \in DOMAIN m /\ ~ Sourced(m, A[i])
       /\ \A i, j \in DOMAIN A : A[i] = A[j] => i = j
  BY <1>3, AdoptedFacts
<1>11. PICK F : F = Over(A, C)
  OBVIOUS
<1>12. DOMAIN F = DOMAIN A \cup changed /\ (\A i \in DOMAIN A : F[i] = A[i]) /\ (\A i \in changed \ DOMAIN A : F[i] = C[i])
  BY <1>5, <1>11 DEF Over
<1>13. DOMAIN T = added \cup DOMAIN F /\ (\A i \in added : T[i] = created[i]) /\ (\A i \in DOMAIN F \ added : T[i] = F[i])
  BY <1>2, <1>6, <1>11 DEF Over
<1>14. added \subseteq Nat /\ IsFiniteSet(added) /\ added \subseteq DOMAIN decisions /\ changed \subseteq DOMAIN decisions
  <2>1. added \in SUBSET DOMAIN decisions
    BY <1>1
  <2>2. IsFiniteSet(added)
    BY <2>1, FS_Subset
  <2> QED BY <1>4, <2>1, <2>2
<1>15. \A i \in added : /\ created[i] = first + Position(i, added) /\ Position(i, added) \in Nat
                        /\ Position(i, added) < Cardinality(added) /\ Cardinality(added) \in Nat
  BY <1>2, <1>14, PositionFacts
<1>16. ASSUME NEW i \in DOMAIN T PROVE HandedAs(m, plan, decisions, first, i, T[i])
  <2>1. CASE i \in added
    <3>1. T[i] \in Nat /\ first <= T[i]
      BY <1>13, <1>15, <2>1
    <3> QED BY <1>1, <2>1, <3>1 DEF HandedAs
  <2>2. CASE i \in DOMAIN A
    <3>1. i \notin added
      BY <1>1, <1>10, <2>2
    <3>2. T[i] = A[i]
      BY <1>12, <1>13, <2>2, <3>1
    <3> QED BY <1>10, <2>2, <3>2 DEF HandedAs
  <2>3. CASE i \in changed
    <3>1. i \notin added /\ i \notin DOMAIN A
      BY <1>1, <1>4, <1>10, <2>3
    <3>2. T[i] = plan[i].entity
      BY <1>5, <1>12, <1>13, <2>3, <3>1
    <3> QED BY <1>4, <2>3, <3>2 DEF HandedAs
  <2> QED BY <1>12, <1>13, <2>1, <2>2, <2>3
<1>17. ASSUME NEW i \in DOMAIN T, NEW j \in DOMAIN T,
              plan[i].status = "added", plan[j].status = "added", T[i] = T[j]
       PROVE  i = j
  <2>1. (i \in added \/ i \in DOMAIN A) /\ (j \in added \/ j \in DOMAIN A)
    BY <1>4, <1>12, <1>13, <1>17
  <2>2. \A k \in added : T[k] \notin DOMAIN m /\ T[k] \in Nat
    <3> SUFFICES ASSUME NEW k \in added PROVE T[k] \notin DOMAIN m /\ T[k] \in Nat
      OBVIOUS
    <3>1. T[k] \in Nat /\ first <= T[k]
      BY <1>13, <1>15
    <3>2. \A e \in DOMAIN m : e \in Nat
      BY DEF Dictionary, Entity
    <3> QED BY <3>1, <3>2
  <2>3. \A k \in DOMAIN A : k \notin added /\ T[k] = A[k] /\ T[k] \in DOMAIN m
    BY <1>1, <1>10, <1>12, <1>13
  <2>4. CASE i \in added /\ j \in added
    <3>1. Position(i, added) = Position(j, added)
      BY <1>13, <1>15, <1>17, <2>4
    <3> QED BY <1>14, <2>4, <3>1, PlacesDiffer
  <2>5. CASE i \in DOMAIN A /\ j \in DOMAIN A
    BY <1>10, <1>17, <2>3, <2>5
  <2> QED BY <1>17, <2>1, <2>2, <2>3, <2>4, <2>5
<1>18. \A i \in DOMAIN decisions \ DOMAIN T :
          IF plan[i].status = "added" THEN decisions[i] # "apply"
          ELSE decisions[i] = "adopt" \/ plan[i].entity \notin DOMAIN m
  BY <1>1, <1>4, <1>12, <1>13
<1>19. PICK E : E = {T[i] : i \in DOMAIN T}
  OBVIOUS
<1>20. DOMAIN back = E /\ Range(T) = E
  BY <1>8, <1>19 DEF AntiFunction, Inverse, Range
<1>21. \A e \in E : back[e] \in DOMAIN T /\ T[back[e]] = e
  BY <1>8, <1>20, SomeBack
<1>22. /\ DOMAIN n = DOMAIN m \cup E /\ \A e \in DOMAIN m \ E : n[e] = m[e]
       /\ \A e \in E : n[e] = Resolved(m, plan, decisions, index, e, back[e])
  BY <1>9, <1>20 DEF Resynced, Over
<1>23. ASSUME NEW e \in E PROVE TakenOver(m, plan, decisions, back[e], e, n[e])
  <2>1. PICK i : i = back[e] /\ i \in DOMAIN T /\ T[i] = e
    BY <1>21
  <2>2. PICK payload : payload = Through(PayloadOf(plan[i].item), index)
    OBVIOUS
  <2>3. PICK x : x = IF decisions[i] = "apply" THEN Imported(plan[i].item, payload) ELSE m[e]
    OBVIOUS
  <2>4. n[e] = Reviewed(x, Origin(i, plan[i].item.version, payload))
    BY <1>22, <2>1, <2>2, <2>3 DEF Resolved
  <2>5. decisions[i] # "apply" => e \in DOMAIN m
    BY <1>16, <2>1 DEF HandedAs
  <2>6. x = [f \in FIELDS |-> x[f]] /\ x.kind = IF decisions[i] = "apply" THEN plan[i].item.kind ELSE m[e].kind
    <3>1. CASE decisions[i] = "apply"
      BY <2>3, <3>1, ImportedForm
    <3>2. CASE decisions[i] # "apply"
      BY <2>3, <2>5, <3>2 DEF Dictionary, Entity
    <3> QED BY <3>1, <3>2
  <2>7. /\ n[e].origin = Origin(i, plan[i].item.version, payload) /\ n[e].kind = x.kind
        /\ n[e] = [f \in FIELDS |-> n[e][f]]
    BY <2>4, <2>6, ReviewedFacts
  <2> QED BY <2>1, <2>6, <2>7 DEF TakenOver
<1>24. IsFiniteSet(DOMAIN n)
  <2>1. PICK c \in Nat : c = Cardinality(added)
    BY <1>14, FS_CardinalityType
  <2>2. \A e \in E : e \in Nat /\ e <= first + c
    <3> SUFFICES ASSUME NEW i \in DOMAIN T PROVE T[i] \in Nat /\ T[i] <= first + c
      BY <1>19
    <3>1. CASE i \in added
      BY <1>13, <1>15, <2>1, <3>1
    <3>2. CASE i \notin added
      <4>1. T[i] \in DOMAIN m
        BY <1>1, <1>14, <1>16, <3>2, <1>10, <1>12, <1>13 DEF HandedAs
      <4>2. T[i] \in Nat /\ T[i] < first
        BY <4>1 DEF Dictionary, Entity
      <4> QED BY <2>1, <4>2
    <3> QED BY <3>1, <3>2
  <2>3. E \in SUBSET Nat /\ first + c \in Nat
    BY <2>1, <2>2
  <2>4. IsFiniteSet(E)
    BY <2>2, <2>3, FS_BoundedSetOfNaturals
  <2> QED BY <1>22, <2>4, FS_Union DEF Dictionary
<1>25. DOMAIN T \subseteq DOMAIN decisions
  BY <1>10, <1>12, <1>13, <1>14
<1>26. Reshaped(m, plan, decisions, first, T, n)
  <2>1. DOMAIN n = DOMAIN m \cup {T[i] : i \in DOMAIN T} /\ \A e \in DOMAIN m \ {T[i] : i \in DOMAIN T} : n[e] = m[e]
    BY <1>19, <1>22
  <2>2. \A e \in {T[i] : i \in DOMAIN T} : \E i \in DOMAIN T : T[i] = e /\ TakenOver(m, plan, decisions, i, e, n[e])
    BY <1>19, <1>21, <1>23
  <2> QED BY <1>16, <1>17, <1>18, <1>24, <1>25, <2>1, <2>2 DEF Reshaped
<1> QED BY <1>26

(* Every entry answered as a reviewer may: the entities are handed over,   *)
(* and only items that found no entity to adopt are left.                  *)
Answers(plan, decisions) ==
    /\ DOMAIN decisions = DOMAIN plan
    /\ \A i \in DOMAIN plan :
          decisions[i] \in {"apply", IF plan[i].status = "added" THEN "adopt" ELSE "keep"}

LEMMA AnsweredOnce ==
  ASSUME \A i, v, b : Origin(i, v, b) # None,
         NEW m, NEW next, Dictionary(m, next), NEW rows,
         NEW plan, plan = planResync(m, rows), NEW decisions, Answers(plan, decisions),
         NEW first \in Nat, \A e \in DOMAIN m : e < first,
         NEW T, NEW n, Reshaped(m, plan, decisions, first, T, n)
  PROVE  /\ Handed(m, rows, T, n)
         /\ \A i \in DOMAIN plan \ DOMAIN T : plan[i].status = "added" /\ decisions[i] = "adopt"
<1>1. /\ \A i \in DOMAIN plan : /\ plan[i].item = rows[i]
                                /\ plan[i].status = "added" <=> Linkers(m, i) = {}
                                /\ Linkers(m, i) # {} => plan[i].entity = Max(Linkers(m, i))
  BY OfferFacts
<1>2. \A i : Linkers(m, i) # {} => Max(Linkers(m, i)) \in Linkers(m, i)
  BY LastLinker
<1>3. \A i, e : e \in Linkers(m, i) <=> Sourced(m, e) /\ m[e].origin.item = i
  BY DEF Linkers, Sourced
<1>4. /\ DOMAIN decisions = DOMAIN plan
      /\ \A i \in DOMAIN plan : IF plan[i].status = "added" THEN decisions[i] \in {"apply", "adopt"}
                                ELSE decisions[i] \in {"apply", "keep"}
  BY DEF Answers
<1>5. DOMAIN T \subseteq DOMAIN plan
  BY <1>4 DEF Reshaped
<1>6. \A e \in DOMAIN m : e \in Nat /\ e < first
  BY DEF Dictionary, Entity
<1>7. ASSUME NEW i \in DOMAIN T
      PROVE  /\ T[i] \in Nat
             /\ Linkers(m, i) = {} => ~ Sourced(m, T[i])
             /\ Linkers(m, i) # {} => T[i] = Max(Linkers(m, i)) /\ Sourced(m, T[i]) /\ m[T[i]].origin.item = i
  <2>1. HandedAs(m, plan, decisions, first, i, T[i])
    BY DEF Reshaped
  <2>2. CASE Linkers(m, i) = {}
    <3>1. \/ T[i] \in Nat /\ first <= T[i]
          \/ T[i] \in DOMAIN m /\ ~ Sourced(m, T[i])
      BY <1>1, <1>5, <2>1, <2>2 DEF HandedAs
    <3>2. T[i] \in Nat /\ (first <= T[i] => T[i] \notin DOMAIN m)
      BY <1>6, <3>1
    <3> QED BY <2>2, <3>1, <3>2 DEF Sourced
  <2>3. CASE Linkers(m, i) # {}
    <3>1. T[i] = Max(Linkers(m, i)) /\ T[i] \in DOMAIN m
      BY <1>1, <1>5, <2>1, <2>3 DEF HandedAs
    <3> QED BY <1>2, <1>3, <1>6, <2>3, <3>1
  <2> QED BY <2>2, <2>3
<1>8. ASSUME NEW i \in DOMAIN T, NEW j \in DOMAIN T, T[i] = T[j] PROVE i = j
  <2>1. CASE Linkers(m, i) = {} /\ Linkers(m, j) = {}
    <3>1. plan[i].status = "added" /\ plan[j].status = "added"
      BY <1>1, <1>5, <2>1
    <3> QED BY <1>8, <3>1 DEF Reshaped
  <2>2. CASE Linkers(m, i) # {} /\ Linkers(m, j) # {}
    BY <1>7, <1>8, <2>2
  <2> QED BY <1>7, <1>8, <2>1, <2>2
<1>9. PICK E : E = {T[i] : i \in DOMAIN T}
  OBVIOUS
<1>10. IsFiniteSet(DOMAIN n) /\ DOMAIN n = DOMAIN m \cup E /\ \A e \in DOMAIN m \ E : n[e] = m[e]
  BY <1>9 DEF Reshaped
<1>11. E \subseteq Nat
  BY <1>7, <1>9
<1>12. DOMAIN n \subseteq Nat
  BY <1>6, <1>10, <1>11
<1>13. ASSUME NEW i \in DOMAIN T
       PROVE  Sourced(n, T[i]) /\ n[T[i]].origin.item = i /\ n[T[i]].origin.version = rows[i].version
  <2>1. T[i] \in E
    BY <1>9
  <2>2. PICK j \in DOMAIN T : T[j] = T[i] /\ TakenOver(m, plan, decisions, j, T[i], n[T[i]])
    BY <1>9, <2>1 DEF Reshaped
  <2>3. j = i
    BY <1>8, <2>2
  <2>4. PICK payload : n[T[i]].origin = Origin(i, plan[i].item.version, payload)
    BY <2>2, <2>3 DEF TakenOver
  <2>5. n[T[i]].origin.item = i /\ n[T[i]].origin.version = plan[i].item.version
    BY <2>4 DEF Origin
  <2>6. T[i] \in DOMAIN n /\ n[T[i]].origin # None
    BY <1>10, <2>1, <2>4
  <2> QED BY <1>1, <1>5, <2>5, <2>6 DEF Sourced
<1>14. Handed(m, rows, T, n)
  <2>1. DOMAIN T \subseteq DOMAIN planResync(m, rows)
    BY <1>5
  <2>2. \A i \in DOMAIN T : IF Linkers(m, i) # {} THEN T[i] = Max(Linkers(m, i)) ELSE ~ Sourced(m, T[i])
    BY <1>7
  <2> QED BY <1>8, <1>9, <1>10, <1>12, <1>13, <2>1, <2>2 DEF Handed
<1>15. ASSUME NEW i \in DOMAIN plan \ DOMAIN T PROVE plan[i].status = "added" /\ decisions[i] = "adopt"
  <2>1. IF plan[i].status = "added" THEN decisions[i] # "apply"
        ELSE decisions[i] = "adopt" \/ plan[i].entity \notin DOMAIN m
    BY <1>4 DEF Reshaped
  <2>2. CASE plan[i].status = "added"
    BY <1>4, <2>1, <2>2
  <2>3. CASE plan[i].status # "added"
    <3>1. Linkers(m, i) # {} /\ plan[i].entity = Max(Linkers(m, i))
      BY <1>1, <2>3
    <3>2. plan[i].entity \in DOMAIN m
      BY <1>2, <1>3, <3>1 DEF Sourced
    <3> QED BY <1>4, <2>1, <2>3, <3>2
  <2> QED BY <2>2, <2>3
<1> QED BY <1>14, <1>15

LEMMA NextEntityFacts ==
  ASSUME NEW next, Dictionary(model, next)
  PROVE  NextEntity \in Nat /\ \A e \in DOMAIN model : e < NextEntity
<1>1. PICK S : S = DOMAIN model \cup {0}
  OBVIOUS
<1>2. IsFiniteSet(S)
  BY <1>1, FS_AddElement DEF Dictionary
<1>3. S \subseteq Nat /\ S # {}
  BY <1>1 DEF Dictionary, Entity
<1>4. Max(S) \in S /\ \A y \in S : y <= Max(S)
  BY <1>2, <1>3, LargestNumber
<1>5. Max(S) \in Nat /\ \A e \in DOMAIN model : e <= Max(S) /\ e \in Nat
  BY <1>1, <1>3, <1>4
<1>6. NextEntity = Max(S) + 1
  BY <1>1 DEF NextEntity
<1> QED BY <1>5, <1>6

LEMMA LibraryIsFinite ==
  ASSUME NEW rows, NEW next, Library(rows, next), NEW S, S \subseteq DOMAIN rows
  PROVE  IsFiniteSet(S) /\ S \subseteq Nat
<1>1. next \in Nat /\ S \in SUBSET Nat /\ \A i \in S : i <= next
  BY DEF Library
<1> QED BY <1>1, FS_BoundedSetOfNaturals

LEMMA AnswerLeaves ==
  ASSUME \A i, v, b : Origin(i, v, b) # None,
         Dictionary(model, nextItem), Library(items, nextItem),
         NEW plan, plan = planResync(model, items), NEW answer, Answers(plan, answer)
  PROVE  /\ Leaves(Answered(plan, answer), answer)
         /\ DOMAIN Answered(plan, answer) \subseteq DOMAIN plan
<1>1. DOMAIN answer = DOMAIN plan
  BY DEF Answers
<1>2. DOMAIN plan \subseteq DOMAIN items
  BY OfferFacts
<1>3. IsFiniteSet(DOMAIN answer) /\ DOMAIN answer \subseteq Nat
  BY <1>1, <1>2, LibraryIsFinite
<1>4. PICK first \in Nat : first = NextEntity /\ \A e \in DOMAIN model : e < first
  BY NextEntityFacts
<1>5. PICK n : n = applyResyncPlan(model, plan, answer, first)
  OBVIOUS
<1>6. PICK T : Reshaped(model, plan, answer, first, T, n)
  BY <1>3, <1>4, <1>5, ResyncShape
<1>7. /\ Handed(model, items, T, n)
      /\ \A i \in DOMAIN plan \ DOMAIN T : plan[i].status = "added" /\ answer[i] = "adopt"
  BY <1>4, <1>6, AnsweredOnce
<1>8. PICK left : left = planResync(n, items)
  OBVIOUS
<1>9. /\ \A i : i \in DOMAIN left <=> i \in DOMAIN plan \ DOMAIN T
      /\ \A i : i \notin DOMAIN T => Linkers(n, i) = Linkers(model, i)
  BY <1>7, <1>8, HandedSettles
<1>10. \A i \in DOMAIN left : left[i].status = "added" <=> Linkers(n, i) = {}
  BY <1>8, OfferFacts
<1>11. \A i \in DOMAIN plan : plan[i].status = "added" <=> Linkers(model, i) = {}
  BY OfferFacts
<1>12. left = Answered(plan, answer)
  BY <1>4, <1>5, <1>8 DEF Answered
<1>13. \A i \in DOMAIN left : left[i].status = "added" /\ answer[i] = "adopt"
  BY <1>7, <1>9, <1>10, <1>11
<1> QED BY <1>9, <1>12, <1>13 DEF Leaves

LEMMA ResyncsSettle ==
  ASSUME \A i, v, b : Origin(i, v, b) # None,
         Dictionary(model, nextItem), Library(items, nextItem), NEW plan, plan = planResync(model, items)
  PROVE  ResyncSettles(plan, [i \in DOMAIN plan |-> IF plan[i].status = "added" THEN "adopt" ELSE "keep"])
<1>1. PICK review : review = [i \in DOMAIN plan |-> IF plan[i].status = "added" THEN "adopt" ELSE "keep"]
  OBVIOUS
<1>2. PICK all : all = [i \in DOMAIN plan |-> "apply"]
  OBVIOUS
<1>3. Answers(plan, review) /\ Answers(plan, all)
  BY <1>1, <1>2 DEF Answers
<1>4. Leaves(Answered(plan, review), review)
  BY <1>3, AnswerLeaves
<1>5. Leaves(Answered(plan, all), all) /\ DOMAIN Answered(plan, all) \subseteq DOMAIN plan
  BY <1>3, AnswerLeaves
<1>6. DOMAIN Answered(plan, all) = {}
  <2>1. \A i \in DOMAIN Answered(plan, all) : all[i] = "adopt"
    BY <1>5 DEF Leaves
  <2>2. \A i \in DOMAIN plan : all[i] = "apply"
    BY <1>2
  <2> QED BY <1>5, <2>1, <2>2
<1>7. PICK left : left = Answered(plan, all)
  OBVIOUS
<1>8. left = [i \in DOMAIN left |-> left[i]]
  BY <1>7, OfferFacts DEF Answered
<1>9. left = << >>
  BY <1>6, <1>7, <1>8
<1> QED BY <1>1, <1>2, <1>4, <1>7, <1>9 DEF ResyncSettles

(* What a promotion and a resync leave is a dictionary again.              *)
KindsOf(rows) == \A i \in DOMAIN rows : rows[i].kind \in KINDS

LEMMA DictionaryGrows ==
  ASSUME NEW m, NEW next \in Nat, NEW later \in Nat, next <= later, Dictionary(m, next)
  PROVE  Dictionary(m, later)
<1>1. ASSUME NEW e \in DOMAIN m PROVE Entity(m, e, later)
  <2>1. Entity(m, e, next)
    BY DEF Dictionary
  <2> QED BY <2>1 DEF Entity
<1> QED BY <1>1 DEF Dictionary

Planned(plan, decisions, next) ==
    /\ DOMAIN decisions \subseteq DOMAIN plan
    /\ \A i \in DOMAIN plan : i \in Nat /\ i < next /\ plan[i].item.kind \in KINDS

LEMMA ReshapedIsDictionary ==
  ASSUME NEW m, NEW next, Dictionary(m, next), NEW plan, NEW decisions, Planned(plan, decisions, next),
         NEW first, NEW T, NEW n, Reshaped(m, plan, decisions, first, T, n)
  PROVE  Dictionary(n, next)
<1>1. PICK E : E = {T[i] : i \in DOMAIN T}
  OBVIOUS
<1>2. /\ IsFiniteSet(DOMAIN n) /\ DOMAIN n = DOMAIN m \cup E
      /\ \A e \in DOMAIN m \ E : n[e] = m[e]
      /\ \A e \in E : \E i \in DOMAIN T : T[i] = e /\ TakenOver(m, plan, decisions, i, e, n[e])
  BY <1>1 DEF Reshaped
<1>3. \A e \in DOMAIN m : e \in Nat /\ m[e].kind \in KINDS
  BY DEF Dictionary, Entity
<1>4. ASSUME NEW e \in DOMAIN m \ E PROVE Entity(n, e, next)
  <2>1. n[e] = m[e] /\ Entity(m, e, next)
    BY <1>2 DEF Dictionary
  <2> QED BY <2>1 DEF Entity
<1>5. ASSUME NEW e \in E PROVE Entity(n, e, next)
  <2>1. PICK i \in DOMAIN T : T[i] = e /\ TakenOver(m, plan, decisions, i, e, n[e])
    BY <1>2
  <2>2. HandedAs(m, plan, decisions, first, i, e)
    BY <2>1 DEF Reshaped
  <2>3. i \in Nat /\ i < next /\ plan[i].item.kind \in KINDS
    BY <2>1 DEF Reshaped, Planned
  <2>4. e \in Nat /\ (decisions[i] # "apply" => m[e].kind \in KINDS)
    BY <1>3, <2>2 DEF HandedAs
  <2>5. n[e].kind \in KINDS /\ n[e] = [x \in FIELDS |-> n[e][x]]
    BY <2>1, <2>3, <2>4 DEF TakenOver
  <2>6. n[e].origin.item = i
    BY <2>1 DEF TakenOver, Origin
  <2> QED BY <2>3, <2>4, <2>5, <2>6 DEF Entity
<1> QED BY <1>2, <1>4, <1>5 DEF Dictionary

LEMMA ResyncIsDictionary ==
  ASSUME NEW next \in Nat, Dictionary(model, next), NEW plan, NEW decisions, Planned(plan, decisions, next)
  PROVE  Dictionary(applyResyncPlan(model, plan, decisions, NextEntity), next)
<1>1. PICK first \in Nat : first = NextEntity /\ \A e \in DOMAIN model : e < first
  BY NextEntityFacts
<1>2. DOMAIN decisions \in SUBSET Nat /\ \A i \in DOMAIN decisions : i <= next
  BY DEF Planned
<1>3. IsFiniteSet(DOMAIN decisions)
  BY <1>2, FS_BoundedSetOfNaturals
<1>4. PICK n : n = applyResyncPlan(model, plan, decisions, first)
  OBVIOUS
<1>5. PICK T : Reshaped(model, plan, decisions, first, T, n)
  BY <1>1, <1>2, <1>3, <1>4, ResyncShape
<1>6. Dictionary(n, next)
  BY <1>5, ReshapedIsDictionary
<1> QED BY <1>1, <1>4, <1>6

LEMMA PromotionIsDictionary ==
  ASSUME NEW m, NEW next \in Nat, Dictionary(m, next), NEW rows, Library(rows, next),
         NEW plan, plan = planPromote(m, rows), NEW chosen, chosen \subseteq DOMAIN plan.entries,
         NEW result, result = applyPromotePlan(m, plan, chosen, next)
  PROVE  Dictionary(result.model, next + Cardinality(New(plan, chosen))) /\ KindsOf(result.writes)
<1>1. PICK L, itemOf : L = LinkedItems(m, rows) /\ itemOf = ItemsOfBatch(plan, chosen, next)
  OBVIOUS
<1>2. Numbering(m, rows, next, L, chosen, itemOf)
  BY <1>1, NumberFacts
<1>3. chosen \subseteq DOMAIN m /\ DOMAIN itemOf = chosen \cup DOMAIN L
  BY <1>2 DEF Numbering
<1>4. DOMAIN itemOf \subseteq DOMAIN m
  <2>1. \A e \in DOMAIN L : Sourced(m, e)
    BY <1>1, LinkedFacts
  <2> QED BY <1>3, <2>1 DEF Sourced
<1>5. PICK back : back = AntiFunction(itemOf)
  OBVIOUS
<1>6. PICK W : W = [i \in {itemOf[e] : e \in chosen} |->
                       ItemRow(m[back[i]].kind, Through(PayloadOf(m[back[i]]), itemOf), PromotedVersion(plan.entries[back[i]]))]
  OBVIOUS
<1>7. PICK own : own = [e \in chosen |->
                          [m[e] EXCEPT !.origin = Origin(itemOf[e], PromotedVersion(plan.entries[e]),
                               PromotedBase(m[e], Through(PayloadOf(m[e]), itemOf), back))]]
  OBVIOUS
<1>8. PICK n : n = Over(own, m)
  OBVIOUS
<1>9. result.writes = W /\ result.model = n
  BY <1>1, <1>5, <1>6, <1>7, <1>8 DEF applyPromotePlan, Promotion, Promoted
<1>10. \A e \in DOMAIN m : e \in Nat /\ m[e].kind \in KINDS
  BY DEF Dictionary, Entity
<1>11. KindsOf(W)
  <2> SUFFICES ASSUME NEW i \in DOMAIN W PROVE W[i].kind \in KINDS
    BY DEF KindsOf
  <2>1. i \in Range(itemOf)
    BY <1>3, <1>6 DEF Range
  <2>2. back[i] \in DOMAIN itemOf
    BY <1>5, <2>1, SomeBack
  <2>3. W[i].kind = m[back[i]].kind
    BY <1>6 DEF ItemRow
  <2> QED BY <1>4, <1>10, <2>2, <2>3
<1>12. IsFiniteSet(DOMAIN m) /\ IsFiniteSet(chosen)
  BY <1>3, FS_Subset DEF Dictionary
<1>13. PICK count \in Nat : count = Cardinality(New(plan, chosen))
  BY <1>12, FS_Subset, FS_CardinalityType DEF New
<1>14. ASSUME NEW e \in chosen PROVE itemOf[e] \in Nat /\ itemOf[e] < next + count
  <2>1. PICK i : i = itemOf[e]
    OBVIOUS
  <2>2. i \in DOMAIN applyPromotePlan(m, plan, chosen, next).writes
    BY <1>6, <1>9, <2>1
  <2>3. \/ \E f \in chosen : i = plan.entries[f].target /\ i # None
        \/ i \in Nat /\ next <= i /\ i < next + count
    BY <1>12, <1>13, <2>2, PromotionIds
  <2>4. CASE \E f \in chosen : i = plan.entries[f].target /\ i # None
    <3>1. PICK f \in chosen : i = plan.entries[f].target /\ i # None
      BY <2>4
    <3>2. i \in DOMAIN rows
      BY <3>1, PlanFacts
    <3> QED BY <2>1, <3>2 DEF Library
  <2> QED BY <2>1, <2>3, <2>4
<1>15. /\ DOMAIN n = DOMAIN m /\ (\A e \in chosen : n[e] = own[e]) /\ (\A e \in DOMAIN m \ chosen : n[e] = m[e])
  BY <1>3, <1>7, <1>8 DEF Over
<1>16. ASSUME NEW e \in chosen PROVE Entity(n, e, next + count)
  <2>1. PICK o : o = Origin(itemOf[e], PromotedVersion(plan.entries[e]),
                            PromotedBase(m[e], Through(PayloadOf(m[e]), itemOf), back))
    OBVIOUS
  <2>2. n[e] = [m[e] EXCEPT !.origin = o]
    BY <1>7, <1>15, <2>1
  <2>3. m[e] = [f \in FIELDS |-> m[e][f]]
    BY <1>3 DEF Dictionary, Entity
  <2>4. n[e].origin = o /\ n[e].kind = m[e].kind /\ n[e] = [f \in FIELDS |-> n[e][f]]
    BY <2>2, <2>3, Relinked
  <2>5. o.item = itemOf[e]
    BY <2>1 DEF Origin
  <2> QED BY <1>3, <1>10, <1>14, <2>4, <2>5 DEF Entity
<1>17. ASSUME NEW e \in DOMAIN m \ chosen PROVE Entity(n, e, next + count)
  <2>1. n[e] = m[e] /\ Entity(m, e, next)
    BY <1>15 DEF Dictionary
  <2> QED BY <1>13, <2>1 DEF Entity
<1>18. Dictionary(n, next + count)
  BY <1>12, <1>15, <1>16, <1>17 DEF Dictionary
<1> QED BY <1>9, <1>11, <1>13, <1>18

LEMMA StoredKinds ==
  ASSUME NEW f, NEW g, KindsOf(g), \A x \in DOMAIN f \ DOMAIN g : f[x].kind \in KINDS
  PROVE  KindsOf(Stored(f, g))
<1>1. PICK rows : rows = Stored(f, g)
  OBVIOUS
<1>2. DOMAIN rows = DOMAIN f \cup DOMAIN g /\ \A x \in DOMAIN g : rows[x].kind = g[x].kind
  <2>1. /\ DOMAIN Stored(f, g) = DOMAIN f \cup DOMAIN g
        /\ \A x \in DOMAIN f : PayloadOf(Stored(f, g)[x]) = PayloadOf(f[x])
        /\ \A x \in DOMAIN g : Stored(f, g)[x].kind = g[x].kind
        /\ \A x \in DOMAIN g \ DOMAIN f : Stored(f, g)[x] = g[x]
        /\ Committed(Stored(f, g)) \subseteq Committed(f) \cup Committed(g)
    BY StoredFacts
  <2> QED BY <1>1, <2>1
<1>3. ASSUME NEW x \in DOMAIN f \ DOMAIN g PROVE rows[x].kind = f[x].kind
  BY <1>1 DEF Stored, Over
<1> QED BY <1>1, <1>2, <1>3 DEF KindsOf

LEMMA SomeKinds ==
  ASSUME NEW rows, KindsOf(rows), NEW S PROVE KindsOf(Restrict(rows, DOMAIN rows \ S))
<1>1. PICK D : D = DOMAIN rows \ S
  OBVIOUS
<1>2. DOMAIN Restrict(rows, D) = D /\ \A x \in D : Restrict(rows, D)[x] = rows[x]
  BY <1>1, RestrictFacts
<1> QED BY <1>1, <1>2 DEF KindsOf

LEMMA ImportedKinds ==
  ASSUME NEW rows, NEW doc, NEW next, Library(rows, next), IsFiniteSet(DOMAIN doc.entries), KindsOf(doc.entries),
         NEW plan, plan = FilePlan(rows, doc, next), NEW referenced, NEW prune, NEW includeStale,
         NEW result, result = materializeLibraryImport(rows, plan, referenced, prune, includeStale)
  PROVE  KindsOf(result.writes)
<1>1. PICK W : W = result.writes
  OBVIOUS
<1>2. DOMAIN W \subseteq DOMAIN plan.entries /\ \A i \in DOMAIN W : W[i].kind = plan.entries[i].kind
  BY <1>1 DEF materializeLibraryImport, ItemRow
<1>3. ASSUME NEW i \in DOMAIN W PROVE W[i].kind \in KINDS
  <2>1. PICK target : target = Targets(rows, doc, next)
    OBVIOUS
  <2>2. PICK l : l = AntiFunction(target)[i]
    OBVIOUS
  <2>3. PICK payload : payload = LinePayload(doc.entries, target, doc.entries[l])
    OBVIOUS
  <2>4. i \in DOMAIN FilePlan(rows, doc, next).entries
    BY <1>2
  <2>5. l \in DOMAIN target /\ plan.entries[i] = ImportEntry(rows, doc.entries[l], i, payload)
    BY <2>1, <2>2, <2>3, <2>4, EntryFacts
  <2>6. l \in DOMAIN doc.entries
    BY <2>1, <2>5, TargetFacts
  <2>7. plan.entries[i].kind = doc.entries[l].kind
    BY <2>5 DEF ImportEntry
  <2> QED BY <1>2, <2>6, <2>7 DEF KindsOf
<1> QED BY <1>1, <1>3 DEF KindsOf
-----------------------------------------------------------------------------
(* A dictionary at all times: what the handlers carry keeps it one, too.   *)
Known(flow, next) ==
    /\ flow.does = "resync" => Planned(flow.plan, flow.decisions, next)
    /\ flow.does = "writing" => Dictionary(flow.model, next) /\ KindsOf(flow.writes)
    /\ flow.does \in {"import", "importing"} => KindsOf(flow.doc.entries)
Typed(dictionary, rows, upload, next) ==
    /\ Dictionary(dictionary, next) /\ KindsOf(rows)
    /\ upload # None => KindsOf(upload.entries)
DictionaryInv ==
    /\ PreviewInv /\ Typed(model, items, file, nextItem)
    /\ \A h \in Handlers : Known(at[h], nextItem)

LEMMA KnownLater ==
  ASSUME NEW flow, NEW next \in Nat, NEW later \in Nat, next <= later, Known(flow, next)
  PROVE  Known(flow, later)
<1>1. flow.does = "resync" => Planned(flow.plan, flow.decisions, later)
  BY DEF Known, Planned
<1>2. flow.does = "writing" => Dictionary(flow.model, later)
  BY DictionaryGrows DEF Known
<1> QED BY <1>1, <1>2 DEF Known

LEMMA TurnKeepsDictionary ==
  ASSUME DictionaryInv, PreviewInv', nextItem <= nextItem', Typed(model', items', file', nextItem'),
         NEW h \in Handlers, NEW flow, at' = [at EXCEPT ![h] = flow], Known(flow, nextItem')
  PROVE  DictionaryInv'
<1>1. nextItem \in Nat /\ nextItem' \in Nat
  BY DEF DictionaryInv, PreviewInv, Library
<1>2. at'[h] = flow /\ \A g \in Handlers \ {h} : at'[g] = at[g]
  BY Turn DEF DictionaryInv, PreviewInv, SeenInv
<1>3. \A g \in Handlers : Known(at[g], nextItem')
  BY <1>1, KnownLater DEF DictionaryInv
<1>4. \A g \in Handlers : Known(at'[g], nextItem')
  BY <1>2, <1>3
<1> QED BY <1>4 DEF DictionaryInv

LEMMA RestKeepsDictionary ==
  ASSUME DictionaryInv, PreviewInv', nextItem <= nextItem', Typed(model', items', file', nextItem'), at' = at
  PROVE  DictionaryInv'
<1>1. nextItem \in Nat /\ nextItem' \in Nat
  BY DEF DictionaryInv, PreviewInv, Library
<1>2. \A g \in Handlers : Known(at[g], nextItem')
  BY <1>1, KnownLater DEF DictionaryInv
<1> QED BY <1>2 DEF DictionaryInv

LEMMA FlowKeepsDictionary ==
  ASSUME DictionaryInv, PreviewInv', UNCHANGED <<items, nextItem, model, file>>,
         NEW h \in Handlers, NEW flow, at' = [at EXCEPT ![h] = flow], Known(flow, nextItem)
  PROVE  DictionaryInv'
<1>1. nextItem <= nextItem' /\ Typed(model', items', file', nextItem') /\ Known(flow, nextItem')
  BY DEF DictionaryInv, PreviewInv, Library
<1> QED BY <1>1, TurnKeepsDictionary

LEMMA IdleIsKnown == ASSUME NEW next PROVE Known(Idle, next)
  BY DEF Idle, Known

LEMMA EndKeepsDictionary ==
  ASSUME DictionaryInv, PreviewInv', nextItem <= nextItem', Typed(model', items', file', nextItem'),
         NEW h \in Handlers, End(h)
  PROVE  DictionaryInv'
<1>1. PICK flow : flow = Idle
  OBVIOUS
<1>2. at' = [at EXCEPT ![h] = flow] /\ Known(flow, nextItem')
  BY <1>1, IdleIsKnown DEF End
<1> QED BY <1>2, TurnKeepsDictionary

LEMMA BeginsKeepsDictionary ==
  ASSUME DictionaryInv, PreviewInv', NEW h \in Handlers, Begins(h) PROVE DictionaryInv'
<1> DEFINE FlowBegins == \E flow : at' = [at EXCEPT ![h] = flow] /\ Known(flow, nextItem)
<1>1. UNCHANGED <<items, nextItem, model, file>>
  BY DEF Begins, LoadRequest, ViewOwnPlan, ViewRequest, ViewPlan, ReadItem, ViewItems, PreviewImport
<1>2. FlowBegins
  <2>1. CASE LoadRequest(h)
    <3>1. PICK r : at' = [at EXCEPT ![h] = [does |-> "cancel", request |-> r]]
      BY <2>1 DEF LoadRequest, Start
    <3> WITNESS [does |-> "cancel", request |-> r]
    <3> QED BY <3>1 DEF Known
  <2>2. ASSUME NEW request, NEW offered, ViewPlan(h, request, offered)
        PROVE  FlowBegins
    <3>1. PICK expected, seen :
             at' = [at EXCEPT ![h] = [does |-> "promote", request |-> request,
                                      expected |-> expected, seen |-> seen]]
      BY <2>2 DEF ViewPlan, Start
    <3> WITNESS [does |-> "promote", request |-> request, expected |-> expected, seen |-> seen]
    <3> QED BY <3>1 DEF Known
  <2> HIDE DEF FlowBegins
  <2>3. CASE ViewOwnPlan(h) \/ ViewRequest(h)
    BY <2>2, <2>3 DEF ViewOwnPlan, ViewRequest
  <2> USE DEF FlowBegins
  <2>4. CASE ReadItem(h)
    <3>1. PICK i, row : at' = [at EXCEPT ![h] = [does |-> "update", item |-> i, row |-> row]]
      BY <2>4 DEF ReadItem, Start
    <3> WITNESS [does |-> "update", item |-> i, row |-> row]
    <3> QED BY <3>1 DEF Known
  <2>5. CASE ViewItems(h)
    <3>1. PICK plan : plan = planResync(model, items)
      OBVIOUS
    <3>2. PICK chosen, decisions :
             /\ chosen \subseteq DOMAIN plan /\ decisions \in [chosen -> {"apply", "keep", "adopt"}]
             /\ at' = [at EXCEPT ![h] = [does |-> "resync", plan |-> plan, decisions |-> decisions]]
      BY <2>5, <3>1 DEF ViewItems, Start
    <3>3. Planned(plan, decisions, nextItem)
      <4>1. \A i \in DOMAIN plan : i \in DOMAIN items /\ plan[i].item = items[i]
        BY <3>1, OfferFacts
      <4>2. \A i \in DOMAIN items : i \in Nat /\ i < nextItem /\ items[i].kind \in KINDS
        BY DEF DictionaryInv, PreviewInv, Library, Typed, KindsOf
      <4> QED BY <3>2, <4>1, <4>2 DEF Planned
    <3> WITNESS [does |-> "resync", plan |-> plan, decisions |-> decisions]
    <3> QED BY <3>2, <3>3 DEF Known
  <2>6. CASE PreviewImport(h)
    <3>1. file # None
      BY <2>6 DEF PreviewImport
    <3>2. PICK prune, includeStale, hash, shown :
             at' = [at EXCEPT ![h] = [does |-> "import", doc |-> file, prune |-> prune,
                                      includeStale |-> includeStale, hash |-> hash, shown |-> shown]]
      BY <2>6 DEF PreviewImport, Start
    <3>3. KindsOf(file.entries)
      BY <3>1 DEF DictionaryInv, Typed
    <3> WITNESS [does |-> "import", doc |-> file, prune |-> prune,
                 includeStale |-> includeStale, hash |-> hash, shown |-> shown]
    <3> QED BY <3>2, <3>3 DEF Known
  <2> QED BY <2>1, <2>3, <2>4, <2>5, <2>6 DEF Begins
<1> HIDE DEF FlowBegins
<1>3. PICK flow : at' = [at EXCEPT ![h] = flow] /\ Known(flow, nextItem)
  BY <1>2 DEF FlowBegins
<1> QED BY <1>1, <1>3, FlowKeepsDictionary

LEMMA QuietEndKeepsDictionary ==
  ASSUME DictionaryInv, PreviewInv', UNCHANGED <<items, nextItem, model, file>>, NEW h \in Handlers, End(h)
  PROVE  DictionaryInv'
<1>1. nextItem <= nextItem' /\ Typed(model', items', file', nextItem')
  BY DEF DictionaryInv, PreviewInv, Library
<1> QED BY <1>1, EndKeepsDictionary

LEMMA LockProjectKeepsDictionary ==
  ASSUME DictionaryInv, PreviewInv', NEW h \in Handlers, LockProject(h) PROVE DictionaryInv'
<1>1. /\ UNCHANGED <<items, nextItem, model, file>>
      /\ \/ End(h)
         \/ at' = [at EXCEPT ![h] = [does |-> "planning", request |-> at[h].request,
                                     expected |-> at[h].expected, seen |-> at[h].seen,
                                     visible |-> DOMAIN items]]
  BY DEF LockProject, DictionaryInv, PreviewInv, SeenInv, QueueInv
<1>2. CASE End(h)
  BY <1>1, <1>2, QuietEndKeepsDictionary
<1>3. CASE ~ End(h)
  <2>1. PICK flow : at' = [at EXCEPT ![h] = flow] /\ flow.does = "planning"
    <3> WITNESS [does |-> "planning", request |-> at[h].request, expected |-> at[h].expected,
                 seen |-> at[h].seen, visible |-> DOMAIN items]
    <3> QED BY <1>1, <1>3
  <2>2. Known(flow, nextItem)
    BY <2>1 DEF Known
  <2> QED BY <1>1, <2>1, <2>2, FlowKeepsDictionary
<1> QED BY <1>2, <1>3

LEMMA LockItemsKeepsDictionary ==
  ASSUME DictionaryInv, PreviewInv', NEW h \in Handlers, LockItems(h) PROVE DictionaryInv'
<1>1. PICK rows : rows = Restrict(items, at[h].visible \cap DOMAIN items)
  OBVIOUS
<1>2. PICK plan : plan = planPromote(model, rows)
  OBVIOUS
<1>3. PICK chosen : chosen = AsExpected(plan.entries, at[h].expected)
  OBVIOUS
<1>4. PICK result : result = applyPromotePlan(model, plan, chosen, nextItem)
  OBVIOUS
<1>5. PICK count : count = Cardinality(New(plan, chosen))
  OBVIOUS
<1>6. PICK flow :
        flow = [does |-> "writing", request |-> at[h].request, seen |-> Restrict(at[h].seen, chosen),
                rows |-> DOMAIN rows, chosen |-> chosen, writes |-> result.writes, model |-> result.model]
  OBVIOUS
<1>7. /\ at[h].does = "planning" /\ at' = [at EXCEPT ![h] = flow]
      /\ nextItem' = nextItem + count /\ UNCHANGED <<items, model, file>>
  BY <1>1, <1>2, <1>3, <1>4, <1>5, <1>6 DEF LockItems, DictionaryInv, PreviewInv, SeenInv, QueueInv
<1>8. nextItem \in Nat /\ Library(items, nextItem) /\ Dictionary(model, nextItem)
  BY DEF DictionaryInv, PreviewInv, Library, Typed
<1>9. Library(rows, nextItem)
  <2>1. /\ DOMAIN rows = at[h].visible \cap DOMAIN items
        /\ \A i \in at[h].visible \cap DOMAIN items : rows[i] = items[i]
    BY <1>1, RestrictFacts
  <2> QED BY <1>8, <2>1 DEF Library
<1>10. chosen \subseteq DOMAIN plan.entries
  BY <1>3 DEF AsExpected
<1>11. Dictionary(result.model, nextItem + count) /\ KindsOf(result.writes)
  BY <1>2, <1>4, <1>5, <1>8, <1>9, <1>10, PromotionIsDictionary
<1>12. Known(flow, nextItem')
  BY <1>6, <1>7, <1>11 DEF Known
<1>13. nextItem' \in Nat /\ nextItem <= nextItem'
  <2>1. Shows(at[h].expected, at[h].seen)
    BY <1>7 DEF DictionaryInv, PreviewInv, SeenInv, Looks
  <2>2. IsFiniteSet(chosen)
    BY <1>3, <2>1, FS_Subset DEF AsExpected, Shows
  <2>3. count \in Nat
    BY <1>5, <2>2, FS_Subset, FS_CardinalityType DEF New
  <2> QED BY <1>7, <1>8, <2>3
<1>14. Typed(model', items', file', nextItem')
  <2>1. Dictionary(model, nextItem')
    BY <1>8, <1>13, DictionaryGrows
  <2> QED BY <1>7, <2>1 DEF DictionaryInv, Typed
<1> QED BY <1>7, <1>12, <1>13, <1>14, TurnKeepsDictionary

LEMMA CommitKeepsDictionary ==
  ASSUME DictionaryInv, PreviewInv', NEW h \in Handlers, CommitPromote(h) PROVE DictionaryInv'
<1>1. /\ at[h].does = "writing" /\ End(h) /\ UNCHANGED <<nextItem, file>>
      /\ items' = Stored(at[h].writes, items) /\ model' = at[h].model
  BY DEF CommitPromote
<1>2. Dictionary(model', nextItem) /\ KindsOf(at[h].writes) /\ KindsOf(items)
  BY <1>1 DEF DictionaryInv, Known, Typed
<1>3. PICK new : new = at[h].writes
  OBVIOUS
<1>4. \A i \in DOMAIN new : new[i].kind \in KINDS
  BY <1>2, <1>3 DEF KindsOf
<1>5. KindsOf(items')
  <2>1. KindsOf(Stored(new, items))
    BY <1>2, <1>4, StoredKinds
  <2> QED BY <1>1, <1>3, <2>1
<1>6. nextItem <= nextItem' /\ Typed(model', items', file', nextItem')
  BY <1>1, <1>2, <1>5 DEF DictionaryInv, PreviewInv, Library, Typed
<1> QED BY <1>1, <1>6, EndKeepsDictionary

LEMMA WriteItemKeepsDictionary ==
  ASSUME DictionaryInv, PreviewInv', NEW h \in Handlers, WriteItem(h) PROVE DictionaryInv'
<1>1. PICK rows : rows = IF at[h].item \in DOMAIN items THEN Row(at[h].item, at[h].row) ELSE << >>
  OBVIOUS
<1>2. items' = Stored(rows, items) /\ End(h) /\ UNCHANGED <<nextItem, model, file>>
  BY <1>1 DEF WriteItem
<1>3. DOMAIN rows \subseteq DOMAIN items
  BY <1>1 DEF Row
<1>4. KindsOf(items)
  BY DEF DictionaryInv, Typed
<1>5. KindsOf(items')
  <2>1. KindsOf(Stored(rows, items))
    BY <1>3, <1>4, StoredKinds
  <2> QED BY <1>2, <2>1
<1>6. nextItem <= nextItem' /\ Typed(model', items', file', nextItem')
  BY <1>2, <1>5 DEF DictionaryInv, PreviewInv, Library, Typed
<1> QED BY <1>2, <1>6, EndKeepsDictionary

LEMMA ResyncKeepsDictionary ==
  ASSUME DictionaryInv, PreviewInv', NEW h \in Handlers, Resync(h) PROVE DictionaryInv'
<1>1. /\ at[h].does = "resync" /\ End(h) /\ UNCHANGED <<items, nextItem, file>>
      /\ model' = applyResyncPlan(model, at[h].plan, at[h].decisions, NextEntity)
  BY DEF Resync
<1>2. nextItem \in Nat /\ Dictionary(model, nextItem) /\ Planned(at[h].plan, at[h].decisions, nextItem)
  BY <1>1 DEF DictionaryInv, PreviewInv, Library, Typed, Known
<1>3. Dictionary(model', nextItem)
  <2>1. Dictionary(applyResyncPlan(model, at[h].plan, at[h].decisions, NextEntity), nextItem)
    BY <1>2, ResyncIsDictionary
  <2> QED BY <1>1, <2>1
<1>4. nextItem <= nextItem' /\ Typed(model', items', file', nextItem')
  BY <1>1, <1>2, <1>3 DEF DictionaryInv, Typed
<1> QED BY <1>1, <1>4, EndKeepsDictionary

LEMMA LockLibraryKeepsDictionary ==
  ASSUME DictionaryInv, PreviewInv', NEW h \in Handlers, LockLibrary(h) PROVE DictionaryInv'
<1>1. at[h].does = "import" /\ UNCHANGED <<items, nextItem, model, file>>
  BY DEF LockLibrary
<1>2. PICK flow : at' = [at EXCEPT ![h] = flow] /\ flow.does = "importing" /\ flow.doc = at[h].doc
  <2> DEFINE locks == [does |-> "importing", doc |-> at[h].doc, prune |-> at[h].prune,
                       includeStale |-> at[h].includeStale, hash |-> at[h].hash,
                       shown |-> at[h].shown, visible |-> DOMAIN items]
  <2>1. at' = [at EXCEPT ![h] = locks]
    BY DEF LockLibrary
  <2>2. locks.does = "importing" /\ locks.doc = at[h].doc
    OBVIOUS
  <2> QED BY <2>1, <2>2
<1>3. Known(flow, nextItem)
  BY <1>1, <1>2 DEF DictionaryInv, Known
<1> QED BY <1>1, <1>2, <1>3, FlowKeepsDictionary

LEMMA ImportKeepsDictionary ==
  ASSUME DictionaryInv, PreviewInv', NEW h \in Handlers, Import(h) PROVE DictionaryInv'
<1>1. PICK rows : rows = Restrict(items, at[h].visible \cap DOMAIN items)
  OBVIOUS
<1>2. PICK doc : doc = at[h].doc
  OBVIOUS
<1>3. PICK plan : plan = PlanOf(rows, doc)
  OBVIOUS
<1>4. PICK result : result = materializeLibraryImport(rows, plan, Referenced(rows, doc, plan),
                                                     at[h].prune, at[h].includeStale)
  OBVIOUS
<1>5. PICK left : left = Restrict(items, DOMAIN items \ result.removes)
  OBVIOUS
<1>6. PICK count : count = Cardinality(Unmatched(rows, doc))
  OBVIOUS
<1>7. at[h].does = "importing" /\ End(h) /\ UNCHANGED <<model, file>>
  BY DEF Import
<1>8. \/ UNCHANGED <<items, nextItem>>
      \/ items' = Stored(result.writes, left) /\ nextItem' = nextItem + count
  BY <1>1, <1>2, <1>3, <1>4, <1>5, <1>6 DEF Import
<1>9. CASE UNCHANGED <<items, nextItem>>
  BY <1>7, <1>9, QuietEndKeepsDictionary
<1>10. CASE items' = Stored(result.writes, left) /\ nextItem' = nextItem + count
  <2>1. nextItem \in Nat /\ Library(items, nextItem) /\ Dictionary(model, nextItem) /\ KindsOf(items)
    BY DEF DictionaryInv, PreviewInv, Library, Typed
  <2>2. KindsOf(doc.entries) /\ IsFiniteSet(DOMAIN doc.entries)
    BY <1>2, <1>7 DEF DictionaryInv, Known, PreviewInv, Previewed
  <2>3. Library(rows, nextItem)
    <3>1. /\ DOMAIN rows = at[h].visible \cap DOMAIN items
          /\ \A i \in at[h].visible \cap DOMAIN items : rows[i] = items[i]
      BY <1>1, RestrictFacts
    <3> QED BY <2>1, <3>1 DEF Library
  <2>4. plan = FilePlan(rows, doc, nextItem)
    BY <1>3 DEF FilePlan, PlanOf
  <2>5. KindsOf(result.writes)
    BY <1>4, <2>2, <2>3, <2>4, ImportedKinds
  <2>6. KindsOf(left)
    BY <1>5, <2>1, SomeKinds
  <2>7. PICK new : new = result.writes
    OBVIOUS
  <2>8. \A i \in DOMAIN new : new[i].kind \in KINDS
    BY <2>5, <2>7 DEF KindsOf
  <2>9. KindsOf(items')
    <3>1. KindsOf(Stored(new, left))
      BY <2>6, <2>8, StoredKinds
    <3> QED BY <1>10, <2>7, <3>1
  <2>10. nextItem' \in Nat /\ nextItem <= nextItem'
    <3>1. count \in Nat
      BY <1>6, <2>2, FS_Subset, FS_CardinalityType DEF Unmatched
    <3> QED BY <1>10, <2>1, <3>1
  <2>11. Dictionary(model, nextItem')
    BY <2>1, <2>10, DictionaryGrows
  <2>12. Typed(model', items', file', nextItem')
    BY <1>7, <2>9, <2>11 DEF DictionaryInv, Typed
  <2> QED BY <1>7, <2>10, <2>12, EndKeepsDictionary
<1> QED BY <1>8, <1>9, <1>10

LEMMA RowsKeepDictionary ==
  ASSUME DictionaryInv, PreviewInv', RemoveItem \/ CreateItem PROVE DictionaryInv'
<1>1. nextItem \in Nat /\ Dictionary(model, nextItem) /\ KindsOf(items)
  BY DEF DictionaryInv, PreviewInv, Library, Typed
<1>2. UNCHANGED <<model, file, at>> /\ nextItem' \in Nat /\ nextItem <= nextItem'
  BY <1>1 DEF RemoveItem, CreateItem
<1>3. KindsOf(items')
  <2>1. CASE RemoveItem
    <3>1. PICK i \in DOMAIN items : items' = Restrict(items, DOMAIN items \ {i})
      BY <2>1 DEF RemoveItem
    <3>2. KindsOf(Restrict(items, DOMAIN items \ {i}))
      BY <1>1, SomeKinds
    <3> QED BY <3>1, <3>2
  <2>2. CASE CreateItem
    <3>1. PICK row : items' = Stored(Row(nextItem, row), items) /\ row.kind \in KINDS
      <4> DEFINE first(d) == Least(Namesakes(items, StartModel[d]))
                 index == [d \in {f \in DOMAIN StartModel : first(f) # {}} |-> CHOOSE i \in first(d) : TRUE]
                 row(e) == ItemRow(StartModel[e].kind, Through(PayloadOf(StartModel[e]), index), 1)
      <4>1. PICK e \in DOMAIN StartModel : items' = Stored(Row(nextItem, row(e)), items)
        BY <2>2 DEF CreateItem
      <4>2. StartModel[e].kind \in KINDS
        BY StartIsTyped DEF Dictionary, Entity
      <4> HIDE DEF index
      <4>3. row(e).kind \in KINDS
        BY <4>2 DEF ItemRow
      <4> HIDE DEF row
      <4> QED BY <4>1, <4>3
    <3>2. PICK new : new = Row(nextItem, row)
      OBVIOUS
    <3>3. \A i \in DOMAIN new : new[i].kind \in KINDS
      BY <3>1, <3>2 DEF Row
    <3>4. KindsOf(Stored(new, items))
      BY <1>1, <3>3, StoredKinds
    <3> QED BY <3>1, <3>2, <3>4
  <2> QED BY <2>1, <2>2
<1>4. Dictionary(model, nextItem')
  BY <1>1, <1>2, DictionaryGrows
<1>5. Typed(model', items', file', nextItem')
  BY <1>2, <1>3, <1>4 DEF DictionaryInv, Typed
<1> QED BY <1>2, <1>5, RestKeepsDictionary

(* What the editors are trusted with: an edit of the project keeps it a    *)
(* dictionary and invents no origin, and an edit of a file no kind.        *)
EditsAreTyped == \A m, next : Dictionary(m, next) => \A n \in EntityEdits(m) : Dictionary(n, next)
FileEditsAreTyped == \A doc : KindsOf(doc.entries) => \A edited \in FileEdits(doc) : KindsOf(edited.entries)

LEMMA EditsKeepDictionary ==
  ASSUME EditsAreTyped, FileEditsAreTyped, DictionaryInv, PreviewInv', EditProject \/ Export \/ EditFile
  PROVE  DictionaryInv'
<1>1. nextItem \in Nat /\ Typed(model, items, file, nextItem)
  BY DEF DictionaryInv, PreviewInv, Library
<1>2. UNCHANGED <<items, nextItem, at>>
  BY DEF EditProject, Export, EditFile
<1>3. CASE EditProject
  <2>1. model' \in EntityEdits(model) /\ file' = file
    BY <1>3 DEF EditProject
  <2>2. Dictionary(model', nextItem)
    BY <1>1, <2>1 DEF EditsAreTyped, Typed
  <2> QED BY <1>1, <1>2, <2>1, <2>2, RestKeepsDictionary DEF Typed
<1>4. CASE Export
  <2>1. model' = model /\ file' = exportLibraryFile(items)
    BY <1>4 DEF Export
  <2>2. KindsOf(file'.entries)
    BY <1>1, <2>1 DEF exportLibraryFile, KindsOf, Typed
  <2> QED BY <1>1, <1>2, <2>1, <2>2, RestKeepsDictionary DEF Typed
<1>5. CASE EditFile
  <2>1. model' = model /\ file # None /\ file' \in FileEdits(file)
    BY <1>5 DEF EditFile
  <2>2. KindsOf(file'.entries)
    BY <1>1, <2>1 DEF FileEditsAreTyped, Typed
  <2> QED BY <1>1, <1>2, <2>1, <2>2, RestKeepsDictionary DEF Typed
<1> QED BY <1>3, <1>4, <1>5

LEMMA DictionaryKept ==
  ASSUME EditsAreTyped, FileEditsAreTyped, DictionaryInv, [Next]_vars PROVE DictionaryInv'
<1>1. PreviewInv'
  BY PreviewKept DEF DictionaryInv
<1>2. CASE Ask \/ Reject \/ Rest \/ UNCHANGED vars
  <2>1. UNCHANGED <<items, nextItem, model, file, at>>
    BY <1>2 DEF Ask, Reject, Rest, vars
  <2>2. nextItem <= nextItem' /\ Typed(model', items', file', nextItem')
    BY <2>1 DEF DictionaryInv, PreviewInv, Library
  <2> QED BY <1>1, <2>1, <2>2, RestKeepsDictionary
<1>3. CASE EditProject \/ Export \/ EditFile
  BY <1>1, <1>3, EditsKeepDictionary
<1>4. CASE RemoveItem \/ CreateItem
  BY <1>1, <1>4, RowsKeepDictionary
<1>5. ASSUME NEW h \in Handlers, Begins(h) \/ Works(h) PROVE DictionaryInv'
  <2>1. CASE Begins(h)
    BY <1>1, <2>1, BeginsKeepsDictionary
  <2>2. CASE Cancel(h) \/ BreakDeadlock(h)
    BY <1>1, <2>2, QuietEndKeepsDictionary DEF Cancel, BreakDeadlock
  <2>3. CASE LockProject(h) \/ LockItems(h) \/ CommitPromote(h)
    BY <1>1, <2>3, LockProjectKeepsDictionary, LockItemsKeepsDictionary, CommitKeepsDictionary
  <2>4. CASE WriteItem(h) \/ Resync(h) \/ LockLibrary(h) \/ Import(h)
    BY <1>1, <2>4, WriteItemKeepsDictionary, ResyncKeepsDictionary, LockLibraryKeepsDictionary,
       ImportKeepsDictionary
  <2> QED BY <1>5, <2>1, <2>2, <2>3, <2>4 DEF Works
<1> QED BY <1>2, <1>3, <1>4, <1>5 DEF Next

LEMMA DictionaryStarts == ASSUME Init PROVE DictionaryInv
<1>1. PreviewInv
  BY PreviewStarts
<1>2. items = StartItems /\ model = StartModel /\ nextItem = Cardinality(DOMAIN StartItems) + 1 /\ file = None
  BY DEF Init
<1>3. Typed(model, items, file, nextItem)
  BY <1>2, StartIsTyped DEF Typed, KindsOf
<1>4. \A h \in Handlers : at[h] = Idle
  BY DEF Init
<1>5. \A h \in Handlers : Known(at[h], nextItem)
  BY <1>4, IdleIsKnown
<1> QED BY <1>1, <1>3, <1>5 DEF DictionaryInv

(* A plan that was carried out is finished, for any library and project,   *)
(* any edits, and whatever handlers promoted, resynced and imported        *)
(* before: nothing a promotion wrote is offered again, nor by a resync     *)
(* unless two entities came from its item, and a resync leaves only items  *)
(* it could not adopt.                                                     *)
THEOREM PlansAreSettled ==
  ASSUME \A i, v, b : Origin(i, v, b) # None, EditsAreTyped, FileEditsAreTyped
  PROVE  Spec => []PlansSettle
<1>1. ASSUME DictionaryInv PROVE PlansSettle
  <2>1. Dictionary(model, nextItem) /\ Library(items, nextItem)
    BY <1>1 DEF DictionaryInv, Typed, PreviewInv
  <2>2. \A plan \in {planResync(model, items)} :
           ResyncSettles(plan, [i \in DOMAIN plan |-> IF plan[i].status = "added" THEN "adopt" ELSE "keep"])
    BY <2>1, ResyncsSettle
  <2>3. ASSUME NEW plan \in {planPromote(model, items)}, NEW chosen \in SUBSET DOMAIN plan.entries,
               NEW result \in {applyPromotePlan(model, plan, chosen, nextItem)}
        PROVE  PromoteSettles(result, Over(result.writes, items), chosen)
    BY <2>1, PromotionSettles
  <2> QED BY <2>2, <2>3 DEF PlansSettle
<1>2. DictionaryInv /\ [Next]_vars => DictionaryInv'
  BY DictionaryKept
<1> QED BY <1>1, <1>2, DictionaryStarts, PTL DEF Spec
=============================================================================
