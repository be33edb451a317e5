---------------------------- MODULE LibraryPlans ----------------------------
(***************************************************************************)
(* The plans between a project's dictionary and a shared library, as pure  *)
(* functions: promote (project to library), resync (library to project)    *)
(* and the import of a library file.                                       *)
(*                                                                         *)
(* A model maps entity ids to [kind, name, data, domain, origin]; items    *)
(* maps item ids to [kind, name, data, domain, version].  Ids are numbers  *)
(* in order of creation (uuidv7).  "domain" is the domain a term refers    *)
(* to, an entity of the model or an item of the library, and None for the  *)
(* other kinds; "data" is every other field.  One library is planned with. *)
(***************************************************************************)
EXTENDS Integers, FiniteSets, FiniteSetsExt, Functions
CONSTANT None

RESOURCE_KINDS == <<"domain", "word", "term", "customField">>
PayloadOf(row) == [name |-> row.name, data |-> row.data, domain |-> row.domain]
ItemRow(kind, payload, version) ==
    [kind |-> kind, name |-> payload.name, data |-> payload.data, domain |-> payload.domain,
     version |-> version]
Origin(item, version, base) == [item |-> item, version |-> version, base |-> base]

(* A payload carried to the other space: the domain it refers to is looked *)
(* up in an index, and is empty when the index does not have it.           *)
Through(payload, index) ==
    [payload EXCEPT !.domain = IF @ \in DOMAIN index THEN index[@] ELSE None]

Before(model, e, f) ==
    LET rank(x) == CHOOSE n \in DOMAIN RESOURCE_KINDS : RESOURCE_KINDS[n] = model[x].kind
    IN  rank(e) < rank(f) \/ (rank(e) = rank(f) /\ e < f)
Linkers(model, item) == {e \in DOMAIN model : model[e].origin # None /\ model[e].origin.item = item}
Linked(model) == {model[e].origin.item : e \in {f \in DOMAIN model : model[f].origin # None}}
Namesakes(rows, like) == {x \in DOMAIN rows : rows[x].kind = like.kind /\ rows[x].name = like.name}
Position(x, S) == Cardinality({y \in S \ {x} : y < x})
(* The smallest member, alone; nothing of an empty set.                    *)
Least(S) == {x \in S : \A y \in S : x <= y}
(* f, and what g has elsewhere: rows written over rows.                    *)
Over(f, g) == [x \in DOMAIN f \cup DOMAIN g |-> IF x \in DOMAIN f THEN f[x] ELSE g[x]]
-----------------------------------------------------------------------------
(* Live links: of the entities that came from one item the first holds it. *)
LinkedItems(model, items) ==
    LET holds(e, i) == i \in DOMAIN items /\ \A f \in Linkers(model, i) \ {e} : Before(model, e, f)
        first == {e \in DOMAIN model : model[e].origin # None /\ holds(e, model[e].origin.item)}
    IN  [e \in first |-> model[e].origin.item]

(* The item an unlinked entity would update: the first one of its name     *)
(* that nobody links to, claimed by the first entity of that name.         *)
NameMatch(model, items, linked, e) ==
    LET free  == Least(Namesakes(items, model[e]) \ Range(linked))
        rival == Least(Namesakes(model, model[e]) \ DOMAIN linked)
    IN  IF free # {} /\ e \in rival THEN CHOOSE i \in free : TRUE ELSE None

PromoteEntry(items, status, target) ==
    [status |-> status, target |-> target, version |-> IF target = None THEN None ELSE items[target].version]
PromoteEntries(model, items, linked) ==
    LET synced == {e \in DOMAIN linked : Through(PayloadOf(model[e]), linked) = PayloadOf(items[linked[e]])}
        match(e, target) == PromoteEntry(items, IF target = None THEN "new" ELSE "name-match", target)
    IN  [e \in DOMAIN model \ synced |->
            IF e \in DOMAIN linked THEN PromoteEntry(items, "update", linked[e])
            ELSE match(e, NameMatch(model, items, linked, e))]
PromotePlan(model, items, linked) == [linked |-> linked, entries |-> PromoteEntries(model, items, linked)]
planPromote(model, items) == PromotePlan(model, items, LinkedItems(model, items))

(* The items of the chosen entities, new ones numbered from "next".        *)
New(plan, S) == {e \in S : plan.entries[e].target = None}
Numbered(plan, S, next) ==
    Over([e \in S |-> IF e \in New(plan, S) THEN next + Position(e, New(plan, S))
                      ELSE plan.entries[e].target], plan.linked)
ItemsOfBatch(plan, chosen, next) == Numbered(plan, chosen, next)

(* What a promotion of the chosen entities writes: library rows, and the   *)
(* entities with their new origin, whose base is the payload as an import  *)
(* of it would have arrived here.                                          *)
PromotedVersion(entry) == IF entry.target = None THEN 1 ELSE entry.version + 1
PromotedBase(entity, payload, entityOf) == Through(payload, entityOf)

Promoted(model, plan, chosen, itemOf, entityOf) ==
    LET payload(e) == Through(PayloadOf(model[e]), itemOf)
        version(e) == PromotedVersion(plan.entries[e])
    IN  [writes |-> [i \in {itemOf[e] : e \in chosen} |->
                        ItemRow(model[entityOf[i]].kind, payload(entityOf[i]), version(entityOf[i]))],
         model  |-> Over([e \in chosen |->
                             [model[e] EXCEPT !.origin = Origin(itemOf[e], version(e),
                                  PromotedBase(model[e], payload(e), entityOf))]], model)]
Promotion(model, plan, chosen, itemOf) == Promoted(model, plan, chosen, itemOf, AntiFunction(itemOf))
applyPromotePlan(model, plan, chosen, next) ==
    Promotion(model, plan, chosen, ItemsOfBatch(plan, chosen, next))
-----------------------------------------------------------------------------
(* The entity that stands for an item here: the last one that came from it.*)
existingSourceIndex(model) == [i \in Linked(model) |-> Max(Linkers(model, i))]

ResyncStatus(entity, item) ==
    IF entity.origin.version = item.version THEN "synced"
    ELSE IF PayloadOf(entity) # entity.origin.base THEN "conflict" ELSE "auto-update"
ResyncEntries(model, items, index) ==
    [i \in DOMAIN items |->
        IF i \in DOMAIN index
        THEN [item |-> items[i], entity |-> index[i], status |-> ResyncStatus(model[index[i]], items[i])]
        ELSE [item |-> items[i], entity |-> None, status |-> "added"]]
Unsynced(entries) == Restrict(entries, {i \in DOMAIN entries : entries[i].status # "synced"})
planResync(model, items) == Unsynced(ResyncEntries(model, items, existingSourceIndex(model)))

(* Adoption links an entity without origin to the item of its name: the    *)
(* first such entity, and for one entity the first such item.              *)
adoptTargetOf(model, entry) ==
    LET hits == {e \in Namesakes(model, entry.item) : model[e].origin = None}
    IN  IF entry.status = "added" /\ hits # {} THEN Min(hits) ELSE None
FirstComers(targets) ==
    {i \in DOMAIN targets : \A j \in DOMAIN targets : targets[j] = targets[i] => i <= j}
adoptAssignments(model, plan, decisions) ==
    LET asked == {i \in DOMAIN decisions : decisions[i] = "adopt" /\ adoptTargetOf(model, plan[i]) # None}
        targets == [i \in asked |-> adoptTargetOf(model, plan[i])]
    IN  Restrict(targets, FirstComers(targets))

(* decisions: "apply", "keep" or "adopt" for the items that are not        *)
(* deferred.  An applied entry is written; a kept or adopted entity keeps  *)
(* its content and takes the origin.                                       *)
Reviewed_VersionLeft(entity, origin) ==
    IF entity.origin = None THEN [entity EXCEPT !.origin = origin] ELSE [entity EXCEPT !.origin.base = origin.base]
Reviewed(entity, origin) == [entity EXCEPT !.origin = origin]
Imported(item, payload) ==
    [kind |-> item.kind, name |-> payload.name, data |-> payload.data, domain |-> payload.domain,
     origin |-> None]

Resolved(model, plan, decisions, index, e, i) ==
    LET payload == Through(PayloadOf(plan[i].item), index)
    IN  Reviewed(IF decisions[i] = "apply" THEN Imported(plan[i].item, payload) ELSE model[e],
                 Origin(i, plan[i].item.version, payload))
Resynced(model, plan, decisions, index, itemOf) ==
    Over([e \in DOMAIN itemOf |-> Resolved(model, plan, decisions, index, e, itemOf[e])], model)
Resyncing(model, plan, decisions, created, adopted, index) ==
    LET changed == {i \in DOMAIN decisions : /\ plan[i].status # "added" /\ decisions[i] # "adopt"
                                             /\ plan[i].entity \in DOMAIN model}
    IN  Resynced(model, plan, decisions, Over(created, Over(adopted, index)),
                 AntiFunction(Over(created, Over(adopted, [i \in changed |-> plan[i].entity]))))
applyResyncPlan(model, plan, decisions, next) ==
    LET added == {i \in DOMAIN decisions : plan[i].status = "added" /\ decisions[i] = "apply"}
    IN  Resyncing(model, plan, decisions, [i \in added |-> next + Position(i, added)],
                  adoptAssignments(model, plan, decisions), existingSourceIndex(model))
-----------------------------------------------------------------------------
(* The entries of a library file, [kind, id, version, name, data, domain]  *)
(* line by line; a hand-written entry has no id.  "present" are the kinds  *)
(* the file speaks of.                                                     *)
exportLibraryFile(items) ==
    [present |-> Range(RESOURCE_KINDS),
     entries |-> [i \in DOMAIN items |->
                    [kind |-> items[i].kind, id |-> i, version |-> items[i].version,
                     name |-> items[i].name, data |-> items[i].data,
                     domain |-> IF items[i].domain \in DOMAIN items THEN items[i].domain ELSE None]]]
parseLibraryFile(lines) ==
    /\ \A l, k \in DOMAIN lines : lines[l].kind = lines[k].kind /\ lines[l].name = lines[k].name => l = k
    /\ \A l \in DOMAIN lines : lines[l].domain # None => \E k \in DOMAIN lines : lines[k].id = lines[l].domain

(* The item a line speaks of: the one of its id, or the first of its name  *)
(* that no line claims by id.                                              *)
Unclaimed(items, lines, byId, l) == Least(Namesakes(items, lines[l]) \ {lines[k].id : k \in byId})
MatchLines(items, lines, byId) ==
    Over([l \in byId |-> lines[l].id],
         [l \in {k \in DOMAIN lines \ byId : Unclaimed(items, lines, byId, k) # {}} |->
             CHOOSE i \in Unclaimed(items, lines, byId, l) : TRUE])
MatchOf(items, lines) ==
    MatchLines(items, lines, {l \in DOMAIN lines : /\ lines[l].id \in DOMAIN items
                                                    /\ items[lines[l].id].kind = lines[l].kind})

TargetsOf(match, unmatched, next) == Over(match, [l \in unmatched |-> next + Position(l, unmatched)])
LinePayload(lines, target, line) ==
    [name |-> line.name, data |-> line.data,
     domain |-> IF line.domain = None THEN None
                ELSE target[CHOOSE k \in DOMAIN lines : lines[k].id = line.domain]]
ImportStatus(items, line, target, payload) ==
    IF target \notin DOMAIN items THEN "add"
    ELSE IF payload = PayloadOf(items[target]) THEN "unchanged"
    ELSE IF target = line.id /\ line.version < items[target].version THEN "stale" ELSE "update"
ImportEntry(items, line, target, payload) ==
    [kind |-> line.kind, payload |-> payload, status |-> ImportStatus(items, line, target, payload)]
ImportEntries(items, lines, target, lineOf) ==
    [i \in DOMAIN lineOf |->
        ImportEntry(items, lines[lineOf[i]], i, LinePayload(lines, target, lines[lineOf[i]]))]
ImportPlan(items, doc, match, target) ==
    [entries |-> ImportEntries(items, doc.entries, target, AntiFunction(target)),
     absent  |-> {i \in DOMAIN items \ Range(match) : items[i].kind \in doc.present}]
planLibraryImport(items, doc, match, next) ==
    ImportPlan(items, doc, match, TargetsOf(match, DOMAIN doc.entries \ DOMAIN match, next))

(* Domains that terms which stay refer to: they are not removed.           *)
Referenced(items, doc, plan) ==
    {plan.entries[i].payload.domain : i \in DOMAIN plan.entries}
    \cup {items[i].domain : i \in {j \in DOMAIN plan.entries : plan.entries[j].status = "stale"}}
    \cup IF "term" \in doc.present THEN {} ELSE {items[i].domain : i \in DOMAIN items}

materializeLibraryImport(items, plan, referenced, prune, includeStale) ==
    LET written == {"add", "update"} \cup IF includeStale THEN {"stale"} ELSE {}
    IN  [writes  |-> [i \in {j \in DOMAIN plan.entries : plan.entries[j].status \in written} |->
                        ItemRow(plan.entries[i].kind, plan.entries[i].payload,
                                IF i \in DOMAIN items THEN items[i].version + 1 ELSE 1)],
         removes |-> IF prune THEN plan.absent \ referenced ELSE {}]

(* What the preview shows of a plan.                                       *)
Summary(plan, referenced) ==
    [entries |-> {<<e.kind, e.payload.name, e.status>> : e \in Range(plan.entries)},
     absent  |-> plan.absent, kept |-> plan.absent \cap referenced]
summarizeLibraryImport(items, doc, plan) == Summary(plan, Referenced(items, doc, plan))
=============================================================================
