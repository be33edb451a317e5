--------------------------- MODULE CliSync_proofs ---------------------------
(***************************************************************************)
(* Proofs about FileMerge and CliSync, for any start, edits and bounds:    *)
(* what the three-way merge keeps of each side, that it is integral once   *)
(* pruned, and that a push the server takes does nothing else.             *)
(***************************************************************************)
EXTENDS CliSync, ModelOps_proofs

LEMMA FieldFacts ==
  /\ "tableId" \in EntityFields["column"] /\ "domainId" \in EntityFields["column"]
  /\ "domainId" \in EntityFields["term"] /\ "groupId" \in EntityFields["table"]
  /\ {"tableId", "columns"} \subseteq EntityFields["index"]
  /\ {"parentTableId", "childTableId", "columnMappings"} \subseteq EntityFields["relationship"]
  /\ {"tableId", "columns", "parentTableId", "childTableId", "columnMappings"} \cap {"groupId", "domainId"} = {}
  BY DEF EntityFields

(* Pruning: what is dropped could not stand, what is cleared refers to     *)
(* nothing, everything else is as it was, and the outcome is integral.     *)
LEMMA PruneFacts ==
  ASSUME NEW c, Shaped(c)
  PROVE  /\ Shaped(pruneDangling(c)) /\ DOMAIN pruneDangling(c) \subseteq DOMAIN c
         /\ \A k \in DOMAIN c \ DOMAIN pruneDangling(c) : ~ Stands(k, c[k], pruneDangling(c))
         /\ \A k \in DOMAIN pruneDangling(c) : \A f \in DOMAIN c[k] :
               pruneDangling(c)[k][f] = c[k][f] \/ Cleared(f, c[k], pruneDangling(c))
         /\ validateModelIntegrity(pruneDangling(c))
<1> DEFINE t == ColumnsWithTable(c)
           p == PartsWithColumns(t)
           r == WithoutLooseReferences(p)
<1>1. /\ DOMAIN t = {k \in DOMAIN c : k[1] = "column" => Has(c, "table", c[k].tableId)}
      /\ \A k \in DOMAIN t : t[k] = c[k]
  BY DEF ColumnsWithTable, Restrict
<1>2. /\ DOMAIN p = {k \in DOMAIN t : /\ k[1] = "index" => IndexHolds(t, t[k])
                                      /\ k[1] = "relationship" => RelationshipHolds(t, t[k])}
      /\ \A k \in DOMAIN p : p[k] = c[k]
  BY <1>1 DEF PartsWithColumns, Restrict
<1>3. /\ DOMAIN r = DOMAIN p
      /\ \A k \in DOMAIN r : r[k] = [f \in DOMAIN c[k] |->
            IF f \in DOMAIN LooseReferences /\ ~ HasOrNone(p, LooseReferences[f], c[k][f]) THEN None ELSE c[k][f]]
  BY <1>2 DEF WithoutLooseReferences
<1>4. DOMAIN LooseReferences = {"groupId", "domainId"}
      /\ LooseReferences["groupId"] = "tableGroup" /\ LooseReferences["domainId"] = "domain"
  BY DEF LooseReferences
<1>5. pruneDangling(c) = r
  BY DEF pruneDangling
<1> HIDE DEF t, p, r
<1>6. \A kind, id : HasOrNone(p, kind, id) <=> HasOrNone(r, kind, id)
  BY <1>3 DEF HasOrNone, Has
<1>7. \A id : (Has(c, "table", id) <=> Has(r, "table", id)) /\ (Has(t, "table", id) <=> Has(r, "table", id))
  BY <1>1, <1>2, <1>3 DEF Has
<1>8. ASSUME NEW id PROVE /\ <<"column", id>> \in DOMAIN t <=> <<"column", id>> \in DOMAIN r
                          /\ <<"column", id>> \in DOMAIN r => r[<<"column", id>>].tableId = t[<<"column", id>>].tableId
  <2>1. <<"column", id>> \in DOMAIN t <=> <<"column", id>> \in DOMAIN r
    BY <1>1, <1>2, <1>3
  <2>2. ASSUME <<"column", id>> \in DOMAIN r PROVE r[<<"column", id>>].tableId = t[<<"column", id>>].tableId
    <3>1. "tableId" \in DOMAIN c[<<"column", id>>] /\ t[<<"column", id>>] = c[<<"column", id>>]
      BY <1>1, <2>1, <2>2, FieldFacts DEF Shaped
    <3> QED BY <1>3, <1>4, <2>2, <3>1
  <2> QED BY <2>1, <2>2
<1>9. \A x, y : ColumnIn(t, x, y) <=> ColumnIn(r, x, y)
  BY <1>8 DEF ColumnIn, Has
<1>10. \A e : (IndexHolds(t, e) <=> IndexHolds(r, e)) /\ (RelationshipHolds(t, e) <=> RelationshipHolds(r, e))
  BY <1>7, <1>9 DEF IndexHolds, RelationshipHolds
<1>11. Shaped(r) /\ DOMAIN r \subseteq DOMAIN c
  BY <1>1, <1>2, <1>3 DEF Shaped
<1>12. \A k \in DOMAIN c \ DOMAIN r : ~ Stands(k, c[k], r)
  BY <1>1, <1>2, <1>3, <1>7, <1>10 DEF Stands
<1>13. ASSUME NEW k \in DOMAIN r, NEW f \in DOMAIN c[k] PROVE r[k][f] = c[k][f] \/ Cleared(f, c[k], r)
  BY <1>3, <1>6 DEF Cleared
<1>14. \A k \in DOMAIN r : Stands(k, c[k], r)
  BY <1>1, <1>2, <1>3, <1>7, <1>10 DEF Stands
<1>15. \A k \in DOMAIN r : \A f \in DOMAIN c[k] \ {"groupId", "domainId"} : r[k][f] = c[k][f]
  BY <1>3, <1>4
<1>16. \A k \in DOMAIN r : \A f \in DOMAIN c[k] : f \in DOMAIN LooseReferences => HasOrNone(r, LooseReferences[f], r[k][f])
  BY <1>3, <1>6 DEF HasOrNone
<1>17. GroupRefsHold(r) /\ DomainRefsHold(r)
  BY <1>4, <1>11, <1>16, FieldFacts DEF GroupRefsHold, DomainRefsHold, Shaped, KeysOf
<1>18. TableRefsHold(r) /\ ColumnRefsHold(r)
  BY <1>11, <1>14, <1>15, FieldFacts
     DEF TableRefsHold, ColumnRefsHold, Shaped, KeysOf, Stands, IndexHolds, RelationshipHolds
<1> QED BY <1>5, <1>11, <1>12, <1>13, <1>17, <1>18 DEF validateModelIntegrity
-----------------------------------------------------------------------------
(* What the files can hold: no notes.                                      *)
InFiles(model) == Shaped(model) /\ \A k \in DOMAIN model : k[1] # "note"

LEMMA KindsMerged == \A kind \in DOMAIN EntityFields : kind # "note" => kind \in MERGE_KINDS
<1>1. \A kind \in DOMAIN EntityFields : kind \in Range(ENTITY_KINDS)
  BY DEF EntityFields, ENTITY_KINDS, Range
<1> QED BY <1>1 DEF MERGE_KINDS

LEMMA VisibleFacts ==
  ASSUME NEW m, Shaped(m), NEW v, v = fileVisibleModel(m)
  PROVE  /\ InFiles(v) /\ \A k : k \in DOMAIN v <=> k \in DOMAIN m /\ k[1] # "note"
         /\ \A k \in DOMAIN v : \A f \in FILE_FIELDS(m[k]) : v[k][f] = m[k][f]
<1>1. MergeKeys(m) = {k \in DOMAIN m : k[1] # "note"}
  BY KindsMerged DEF MergeKeys, MERGE_KINDS, Shaped
<1>2. v = [k \in MergeKeys(m) |->
         [f \in DOMAIN m[k] |-> IF f \in FILE_INVISIBLE_FIELDS THEN NoPlace ELSE m[k][f]]]
  BY DEF fileVisibleModel
<1> QED BY <1>1, <1>2 DEF InFiles, Shaped, FILE_FIELDS

(* The merge, when nothing conflicts: what it takes from the server, what  *)
(* it leaves out, and where it has what the files have.                    *)
LEMMA MergeFacts ==
  ASSUME NEW old, NEW local, NEW v, InFiles(old), InFiles(local), InFiles(v),
         mergeModels(old, local, v).conflicts = {},
         NEW m, m = mergeModels(old, local, v).merged
  PROVE  /\ DOMAIN m \subseteq DOMAIN v \cup DOMAIN local
         /\ \A k \in DOMAIN m \cap DOMAIN v : DOMAIN m[k] = DOMAIN v[k]
         /\ \A k \in DOMAIN m \cap DOMAIN v : \A f \in FILE_FIELDS(v[k]) :
               m[k][f] = v[k][f] \/ (k \in DOMAIN old /\ v[k][f] = old[k][f])
         /\ \A k \in DOMAIN v \ DOMAIN m : k \in DOMAIN old /\ Same(v[k], old[k], deleteJudgeFields(v[k]))
         /\ \A k \in DOMAIN m \ DOMAIN v : k \in DOMAIN local /\ m[k] = local[k]
         /\ \A k \in DOMAIN local : \A f \in FILE_FIELDS(local[k]) \ {"origin"} :
               \/ k \in DOMAIN old /\ old[k][f] = local[k][f]
               \/ k \in DOMAIN m /\ m[k][f] = local[k][f]
         /\ (DOMAIN old \ DOMAIN local) \cap DOMAIN m = {}
<1> DEFINE deletedHere == {k \in Deleted(old, local) \cap DOMAIN v : Untouched(old, v, k)}
           addedHere == DOMAIN local \ (DOMAIN old \cup DOMAIN v)
           all == InAll(old, local, v)
<1>1. m = [k \in (DOMAIN v \ deletedHere) \cup addedHere |->
             IF k \in all THEN MergedEntity(old[k], local[k], v[k])
             ELSE IF k \in addedHere THEN local[k] ELSE v[k]]
  BY DEF mergeModels, Merged
<1>2. /\ DeleteConflicts(old, local, v, "local-delete") = {}
      /\ DeleteConflicts(old, v, local, "server-delete") = {}
      /\ BothAdded(old, local, v) = {} /\ FieldConflicts(old, local, v) = {}
  BY DEF mergeModels
<1>3. \A k \in (DOMAIN old \ DOMAIN local) \cap DOMAIN v : Untouched(old, v, k)
  BY <1>2 DEF DeleteConflicts, Deleted
<1>4. \A k \in (DOMAIN old \ DOMAIN v) \cap DOMAIN local : Untouched(old, local, k)
  BY <1>2 DEF DeleteConflicts, Deleted
<1>5. \A k \in (DOMAIN local \cap DOMAIN v) \ DOMAIN old : Same(local[k], v[k], FILE_FIELDS(local[k]))
  BY <1>2 DEF BothAdded
<1>6. \A k \in all : \A f \in FILE_FIELDS(old[k]) : ~ BothChanged(old[k], local[k], v[k], f)
  BY <1>2 DEF FieldConflicts
<1>7. DOMAIN m = (DOMAIN v \ deletedHere) \cup addedHere
  BY <1>1
<1>8. \A k \in DOMAIN m \cap all : m[k] = MergedEntity(old[k], local[k], v[k])
  BY <1>1
<1>9. \A k \in DOMAIN m \ all : m[k] = IF k \in addedHere THEN local[k] ELSE v[k]
  BY <1>1
<1>10. /\ all = DOMAIN old \cap DOMAIN local \cap DOMAIN v
       /\ deletedHere = (DOMAIN old \ DOMAIN local) \cap DOMAIN v
  BY <1>3 DEF InAll, Deleted
<1>11. \A k \in DOMAIN old : \A x \in {old, local, v} : k \in DOMAIN x => DOMAIN x[k] = DOMAIN old[k]
  BY DEF InFiles, Shaped
<1>12. \A k \in DOMAIN local \cap DOMAIN v : DOMAIN local[k] = DOMAIN v[k]
  BY DEF InFiles, Shaped
<1> HIDE DEF deletedHere, addedHere, all
<1>13. ASSUME NEW k \in all
       PROVE  /\ DOMAIN m[k] = DOMAIN v[k] /\ FILE_FIELDS(v[k]) = FILE_FIELDS(old[k])
              /\ \A f \in FILE_FIELDS(v[k]) : m[k][f] = MergedField(old[k][f], local[k][f], v[k][f])
  <2>1. k \in DOMAIN m /\ k \in DOMAIN old /\ k \in DOMAIN v /\ DOMAIN v[k] = DOMAIN old[k]
    BY <1>7, <1>10, <1>11
  <2>2. PICK b, l, e : b = old[k] /\ l = local[k] /\ e = v[k] /\ m[k] = MergedEntity(b, l, e)
    BY <1>8, <2>1
  <2>3. /\ DOMAIN MergedEntity(b, l, e) = DOMAIN e
        /\ \A f \in FILE_FIELDS(e) : MergedEntity(b, l, e)[f] = MergedField(b[f], l[f], e[f])
    BY DEF MergedEntity, FILE_FIELDS
  <2> QED BY <2>1, <2>2, <2>3 DEF FILE_FIELDS
<1>14. \A k \in DOMAIN m \cap DOMAIN v : DOMAIN m[k] = DOMAIN v[k]
  BY <1>9, <1>13 DEF addedHere
<1>15. ASSUME NEW k \in DOMAIN m \cap DOMAIN v, NEW f \in FILE_FIELDS(v[k])
       PROVE  m[k][f] = v[k][f] \/ (k \in DOMAIN old /\ v[k][f] = old[k][f])
  <2>1. CASE k \in all
    BY <1>10, <1>13, <2>1 DEF MergedField
  <2>2. CASE k \notin all
    BY <1>9, <2>2 DEF addedHere
  <2> QED BY <2>1, <2>2
<1>16. \A k \in DOMAIN v \ DOMAIN m : k \in DOMAIN old /\ Same(v[k], old[k], deleteJudgeFields(v[k]))
  <2> SUFFICES ASSUME NEW k \in DOMAIN v \ DOMAIN m
               PROVE  k \in DOMAIN old /\ Same(v[k], old[k], deleteJudgeFields(v[k]))
    OBVIOUS
  <2>1. k \in (DOMAIN old \ DOMAIN local) \cap DOMAIN v
    BY <1>7, <1>10
  <2>2. deleteJudgeFields(v[k]) = deleteJudgeFields(old[k])
    BY <1>11, <2>1 DEF deleteJudgeFields, FILE_FIELDS
  <2> QED BY <1>3, <2>1, <2>2 DEF Untouched, Same
<1>17. \A k \in DOMAIN m \ DOMAIN v : k \in DOMAIN local /\ m[k] = local[k]
  BY <1>7, <1>9, <1>10 DEF addedHere
<1>18. ASSUME NEW k \in DOMAIN local, NEW f \in FILE_FIELDS(local[k]) \ {"origin"}
       PROVE  \/ k \in DOMAIN old /\ old[k][f] = local[k][f]
              \/ k \in DOMAIN m /\ m[k][f] = local[k][f]
  <2>1. CASE k \in all
    <3>1. f \in FILE_FIELDS(v[k]) /\ k \in DOMAIN m
      BY <1>7, <1>10, <1>12, <2>1 DEF FILE_FIELDS
    <3>2. /\ m[k][f] = MergedField(old[k][f], local[k][f], v[k][f])
          /\ f \in FILE_FIELDS(old[k]) /\ k \in DOMAIN old
      BY <1>10, <1>13, <2>1, <3>1
    <3>3. ~ BothChanged(old[k], local[k], v[k], f)
      BY <1>6, <2>1, <3>2
    <3> QED BY <3>1, <3>2, <3>3 DEF MergedField, BothChanged
  <2>2. CASE k \in DOMAIN old /\ k \notin DOMAIN v
    <3>1. f \in deleteJudgeFields(old[k])
      BY <1>11, <2>2 DEF deleteJudgeFields, FILE_FIELDS
    <3> QED BY <1>4, <2>2, <3>1 DEF Untouched, Same
  <2>3. CASE k \notin DOMAIN old /\ k \in DOMAIN v
    <3>1. k \in DOMAIN m /\ m[k] = v[k]
      BY <1>7, <1>9, <1>10, <2>3 DEF addedHere
    <3> QED BY <1>5, <2>3, <3>1 DEF Same
  <2>4. CASE k \notin DOMAIN old /\ k \notin DOMAIN v
    BY <1>7, <1>9, <1>10, <2>4 DEF addedHere
  <2> QED BY <1>10, <2>1, <2>2, <2>3, <2>4
<1>19. (DOMAIN old \ DOMAIN local) \cap DOMAIN m = {}
  BY <1>7, <1>10 DEF addedHere
<1>20. DOMAIN m \subseteq DOMAIN v \cup DOMAIN local
  BY <1>7 DEF addedHere
<1> QED BY <1>14, <1>15, <1>16, <1>17, <1>18, <1>19, <1>20

(* The merge written over the server's model, before it is pruned.         *)
LEMMA WrittenFacts ==
  ASSUME NEW server0, NEW m, NEW w, w = WrittenOver(server0, m)
  PROVE  /\ \A k : k \in DOMAIN w <=> k \in DOMAIN m \/ (k \in DOMAIN server0 /\ k[1] = "note")
         /\ \A k \in DOMAIN server0 : k[1] = "note" => w[k] = server0[k]
         /\ \A k \in DOMAIN m \cap DOMAIN server0 : k[1] # "note" =>
               /\ DOMAIN w[k] = DOMAIN server0[k]
               /\ \A f \in FILE_FIELDS(server0[k]) : w[k][f] = m[k][f]
         /\ \A k \in DOMAIN m \ DOMAIN server0 : w[k] = m[k]
<1> DEFINE notes == KeysOf(server0, "note")
           Over(s, e) == [f \in DOMAIN s |-> IF f \in FILE_FIELDS(s) THEN e[f] ELSE s[f]]
<1>1. w = [k \in notes \cup DOMAIN m |->
              IF k \in notes THEN server0[k]
              ELSE IF k \in DOMAIN server0 THEN Over(server0[k], m[k]) ELSE m[k]]
  BY DEF WrittenOver
<1>2. \A s, e : DOMAIN Over(s, e) = DOMAIN s /\ \A f \in FILE_FIELDS(s) : Over(s, e)[f] = e[f]
  BY DEF FILE_FIELDS
<1> HIDE DEF Over, notes
<1>3. /\ DOMAIN w = notes \cup DOMAIN m
      /\ \A k \in notes : w[k] = server0[k]
      /\ \A k \in DOMAIN m \ notes : w[k] = IF k \in DOMAIN server0 THEN Over(server0[k], m[k]) ELSE m[k]
  BY <1>1
<1>4. ASSUME NEW k \in DOMAIN m \ notes, k \in DOMAIN server0
      PROVE  DOMAIN w[k] = DOMAIN server0[k] /\ \A f \in FILE_FIELDS(server0[k]) : w[k][f] = m[k][f]
  BY <1>2, <1>3, <1>4
<1> QED BY <1>3, <1>4 DEF notes, KeysOf

(* What a request is made from, when it is made.                           *)
Clean(request, old) ==
    /\ InFiles(request.base) /\ InFiles(request.local) /\ Shaped(old)
    /\ mergeModels(request.base, request.local, fileVisibleModel(old)).conflicts = {}

(* The merge of a request, and the merge written over the server's model,  *)
(* have the fields of their kinds.                                         *)
LEMMA WrittenShape ==
  ASSUME NEW request, NEW old, Clean(request, old), NEW m, m = MergedOf(request, old),
         NEW w, w = WrittenOver(old, m)
  PROVE  Shaped(m) /\ Shaped(w) /\ \A k \in DOMAIN m : k[1] # "note"
<1>1. PICK b, l, v : b = request.base /\ l = request.local /\ v = fileVisibleModel(old)
  OBVIOUS
<1>2. /\ InFiles(b) /\ InFiles(l) /\ InFiles(v) /\ Shaped(old)
      /\ mergeModels(b, l, v).conflicts = {} /\ m = mergeModels(b, l, v).merged
  BY <1>1, VisibleFacts DEF Clean, MergedOf
<1>3. /\ DOMAIN m \subseteq DOMAIN v \cup DOMAIN l
      /\ \A k \in DOMAIN m \cap DOMAIN v : DOMAIN m[k] = DOMAIN v[k]
      /\ \A k \in DOMAIN m \ DOMAIN v : k \in DOMAIN l /\ m[k] = l[k]
  BY <1>2, MergeFacts
<1>4. Shaped(m) /\ \A k \in DOMAIN m : k[1] # "note"
  BY <1>2, <1>3 DEF InFiles, Shaped
<1>5. Shaped(w)
  <2>1. /\ \A k : k \in DOMAIN w <=> k \in DOMAIN m \/ (k \in DOMAIN old /\ k[1] = "note")
        /\ \A k \in DOMAIN old : k[1] = "note" => w[k] = old[k]
        /\ \A k \in DOMAIN m \cap DOMAIN old : DOMAIN w[k] = DOMAIN old[k]
        /\ \A k \in DOMAIN m \ DOMAIN old : w[k] = m[k]
    BY <1>4, WrittenFacts
  <2> QED BY <1>2, <1>4, <2>1 DEF Shaped
<1> QED BY <1>4, <1>5

LEMMA TargetFacts ==
  ASSUME NEW request, NEW old, Clean(request, old), NEW new, new = Target(request, old)
  PROVE  /\ Shaped(new) /\ validateModelIntegrity(new)
         /\ KeepsTheirs(request, old, new)
         /\ BringsMine(request, old, new)
<1>1. PICK base0, local, v, m :
         /\ base0 = request.base /\ local = request.local /\ v = fileVisibleModel(old)
         /\ m = MergedOf(request, old)
  OBVIOUS
<1>2. /\ InFiles(base0) /\ InFiles(local) /\ InFiles(v)
      /\ mergeModels(base0, local, v).conflicts = {} /\ m = mergeModels(base0, local, v).merged
  BY <1>1, VisibleFacts DEF Clean, MergedOf
<1>3. /\ DOMAIN m \subseteq DOMAIN v \cup DOMAIN local
      /\ \A k \in DOMAIN m \cap DOMAIN v : DOMAIN m[k] = DOMAIN v[k]
      /\ \A k \in DOMAIN m \cap DOMAIN v : \A f \in FILE_FIELDS(v[k]) :
            m[k][f] = v[k][f] \/ (k \in DOMAIN base0 /\ v[k][f] = base0[k][f])
      /\ \A k \in DOMAIN v \ DOMAIN m : k \in DOMAIN base0 /\ Same(v[k], base0[k], deleteJudgeFields(v[k]))
      /\ \A k \in DOMAIN m \ DOMAIN v : k \in DOMAIN local /\ m[k] = local[k]
      /\ \A k \in DOMAIN local : \A f \in FILE_FIELDS(local[k]) \ {"origin"} :
            \/ k \in DOMAIN base0 /\ base0[k][f] = local[k][f]
            \/ k \in DOMAIN m /\ m[k][f] = local[k][f]
      /\ (DOMAIN base0 \ DOMAIN local) \cap DOMAIN m = {}
  BY <1>2, MergeFacts
<1>4. /\ \A k : k \in DOMAIN v <=> k \in DOMAIN old /\ k[1] # "note"
      /\ Shaped(v) /\ Shaped(old)
      /\ \A k \in DOMAIN v : DOMAIN v[k] = DOMAIN old[k] /\ FILE_FIELDS(v[k]) = FILE_FIELDS(old[k])
      /\ \A k \in DOMAIN v : \A f \in FILE_FIELDS(old[k]) : v[k][f] = old[k][f]
  <2>1. /\ InFiles(v) /\ Shaped(old) /\ \A k : k \in DOMAIN v <=> k \in DOMAIN old /\ k[1] # "note"
        /\ \A k \in DOMAIN v : \A f \in FILE_FIELDS(old[k]) : v[k][f] = old[k][f]
    <3>1. Shaped(old) /\ v = fileVisibleModel(old)
      BY <1>1 DEF Clean
    <3>2. InFiles(v)
      BY <3>1, VisibleFacts
    <3>4. \A k : k \in DOMAIN v <=> k \in DOMAIN old /\ k[1] # "note"
      BY <3>1, VisibleFacts
    <3>3. \A k \in DOMAIN v : \A f \in FILE_FIELDS(old[k]) : v[k][f] = old[k][f]
      BY <3>1, VisibleFacts
    <3> QED BY <3>1, <3>2, <3>3, <3>4
  <2>2. \A k \in DOMAIN v : DOMAIN v[k] = DOMAIN old[k]
    BY <2>1 DEF InFiles, Shaped
  <2> QED BY <2>1, <2>2 DEF InFiles, FILE_FIELDS
<1>5. \A k \in DOMAIN m : k[1] # "note"
  BY <1>2, <1>3 DEF InFiles
<1>6. PICK c : c = WrittenOver(old, m)
  OBVIOUS
<1>7. /\ \A k : k \in DOMAIN c <=> k \in DOMAIN m \/ (k \in DOMAIN old /\ k[1] = "note")
      /\ \A k \in DOMAIN old : k[1] = "note" => c[k] = old[k]
      /\ \A k \in DOMAIN m \cap DOMAIN old :
            DOMAIN c[k] = DOMAIN old[k] /\ \A f \in FILE_FIELDS(old[k]) : c[k][f] = m[k][f]
      /\ \A k \in DOMAIN m \ DOMAIN old : c[k] = m[k]
  BY <1>5, <1>6, WrittenFacts
<1>8. DOMAIN m \cap DOMAIN old \subseteq DOMAIN v
  BY <1>4, <1>5
<1>9. Shaped(c)
  BY <1>1, <1>6, WrittenShape
<1>10. new = pruneDangling(c)
  BY <1>1, <1>6 DEF Target, applyMerge
<1>11. /\ Shaped(new) /\ DOMAIN new \subseteq DOMAIN c
       /\ \A k \in DOMAIN c \ DOMAIN new : ~ Stands(k, c[k], new)
       /\ \A k \in DOMAIN new : \A f \in DOMAIN c[k] : new[k][f] = c[k][f] \/ Cleared(f, c[k], new)
       /\ validateModelIntegrity(new)
  BY <1>9, <1>10, PruneFacts
<1>12. ASSUME NEW k \in DOMAIN c \ DOMAIN new PROVE Pruned(k, m, new)
  <2>1. k \in DOMAIN m
    BY <1>7, <1>11 DEF KeysOf, Stands
  <2>2. ~ Stands(k, c[k], new)
    BY <1>11
  <2>3. CASE k \notin DOMAIN old
    BY <1>7, <2>1, <2>2, <2>3 DEF Pruned
  <2>4. CASE k \in DOMAIN old
    <3>1. \A f \in EntityFields[k[1]] \ {"position"} : c[k][f] = m[k][f]
      BY <1>4, <1>7, <2>1, <2>4 DEF Shaped, FILE_FIELDS, FILE_INVISIBLE_FIELDS
    <3>2. /\ k[1] = "column" => c[k].tableId = m[k].tableId
          /\ k[1] = "index" => c[k].tableId = m[k].tableId /\ c[k].columns = m[k].columns
          /\ k[1] = "relationship" => /\ c[k].parentTableId = m[k].parentTableId
                                      /\ c[k].childTableId = m[k].childTableId
                                      /\ c[k].columnMappings = m[k].columnMappings
      BY <3>1, FieldFacts
    <3>3. Stands(k, c[k], new) <=> Stands(k, m[k], new)
      BY <3>2 DEF Stands, IndexHolds, RelationshipHolds
    <3> QED BY <2>1, <2>2, <3>3 DEF Pruned
  <2> QED BY <2>3, <2>4
<1>13. KeepsTheirs(request, old, new)
  <2> SUFFICES ASSUME NEW k \in DOMAIN old, ~ Pruned(k, m, new)
               PROVE  \/ /\ k \in DOMAIN new
                         /\ \A f \in FILE_FIELDS(old[k]) : old[k][f] # new[k][f] =>
                               \/ k \in DOMAIN base0 /\ old[k][f] = base0[k][f]
                               \/ Cleared(f, old[k], new)
                      \/ /\ k \in DOMAIN base0 \ DOMAIN new
                         /\ Same(old[k], base0[k], deleteJudgeFields(old[k]))
    BY <1>1 DEF KeepsTheirs
  <2>1. CASE k[1] = "note"
    <3>1. k \in DOMAIN new /\ c[k] = old[k]
      BY <1>7, <1>12, <2>1 DEF KeysOf
    <3> QED BY <1>11, <3>1 DEF FILE_FIELDS
  <2>2. CASE k \in DOMAIN m
    <3>1. k \in DOMAIN new /\ k \in DOMAIN v
      BY <1>7, <1>8, <1>12, <2>2
    <3>2. ASSUME NEW f \in FILE_FIELDS(old[k]), old[k][f] # new[k][f], ~ (k \in DOMAIN base0 /\ old[k][f] = base0[k][f])
          PROVE  Cleared(f, old[k], new)
      <4>1. m[k][f] = old[k][f]
        BY <1>3, <1>4, <2>2, <3>1, <3>2
      <4>2. c[k][f] = old[k][f] /\ f \in DOMAIN c[k]
        BY <1>7, <2>2, <4>1 DEF FILE_FIELDS
      <4> QED BY <1>11, <3>1, <3>2, <4>2 DEF Cleared
    <3> QED BY <3>1, <3>2
  <2>3. CASE k[1] # "note" /\ k \notin DOMAIN m
    <3>1. k \in DOMAIN v \ DOMAIN m /\ k \notin DOMAIN new
      BY <1>4, <1>7, <1>11, <2>3 DEF KeysOf
    <3>2. k \in DOMAIN base0 /\ Same(v[k], base0[k], deleteJudgeFields(v[k]))
      BY <1>3, <3>1
    <3>3. Same(old[k], base0[k], deleteJudgeFields(old[k]))
      BY <1>4, <3>1, <3>2 DEF Same, deleteJudgeFields
    <3> QED BY <3>1, <3>2, <3>3
  <2> QED BY <2>1, <2>2, <2>3
<1>14. BringsMine(request, old, new)
  <2>1. (DOMAIN base0 \ DOMAIN local) \cap DOMAIN new = {}
    BY <1>2, <1>3, <1>7, <1>11 DEF KeysOf, InFiles
  <2>2. ASSUME NEW k \in DOMAIN local, NEW f \in FILE_FIELDS(local[k]) \ {"origin"},
               ~ (k \in DOMAIN base0 /\ base0[k][f] = local[k][f]), ~ Pruned(k, m, new)
        PROVE  (k \in DOMAIN new /\ new[k][f] = local[k][f]) \/ Cleared(f, local[k], new)
    <3>1. k \in DOMAIN m /\ m[k][f] = local[k][f]
      BY <1>3, <2>2
    <3>2. k \in DOMAIN new
      BY <1>7, <1>12, <2>2, <3>1
    <3>3. c[k][f] = local[k][f] /\ f \in DOMAIN c[k]
      <4>1. CASE k \in DOMAIN old
        <5>1. f \in FILE_FIELDS(old[k])
          BY <1>2, <1>4, <4>1 DEF InFiles, Shaped, FILE_FIELDS
        <5> QED BY <1>7, <3>1, <4>1, <5>1 DEF FILE_FIELDS
      <4>2. CASE k \notin DOMAIN old
        BY <1>3, <1>4, <1>7, <3>1, <4>2 DEF FILE_FIELDS
      <4> QED BY <4>1, <4>2
    <3> QED BY <1>11, <3>2, <3>3 DEF Cleared
  <2> QED BY <1>1, <2>1, <2>2 DEF BringsMine
<1> QED BY <1>11, <1>13, <1>14

(* What push plans is integral, whatever the three sides hold, as long as  *)
(* they do not conflict: every reference of what is kept finds its target  *)
(* (file-merge.ts pruneDangling after mergeModels).                        *)
THEOREM PlansAreIntegral ==
  ASSUME NEW request, NEW old, Clean(request, old)
  PROVE  validateModelIntegrity(Target(request, old))
  BY TargetFacts
-----------------------------------------------------------------------------
(* Everything on the way from the three sides to the plan is a model: a    *)
(* finite function to entities that are functions of their fields.         *)
LEMMA VisibleForm ==
  ASSUME NEW m, WellFormed(m)
  PROVE  WellFormed(fileVisibleModel(m))
<1>1. PICK v, K : v = fileVisibleModel(m) /\ K = MergeKeys(m)
  OBVIOUS
<1>2. /\ v = [k \in K |-> v[k]] /\ DOMAIN v = K
      /\ \A k \in K : v[k] = [f \in DOMAIN m[k] |-> IF f \in FILE_INVISIBLE_FIELDS THEN NoPlace ELSE m[k][f]]
  BY <1>1 DEF fileVisibleModel
<1>3. K \subseteq DOMAIN m
  BY <1>1 DEF MergeKeys
<1>4. IsFiniteSet(K)
  BY <1>3, FS_Subset DEF WellFormed
<1>5. \A k \in K : IsFunction(v[k])
  BY <1>2 DEF IsFunction
<1> QED BY <1>1, <1>2, <1>3, <1>4, <1>5 DEF WellFormed, IsFunction

LEMMA MergedForm ==
  ASSUME NEW old, NEW local, NEW v, WellFormed(old), WellFormed(local), WellFormed(v),
         NEW m, m = mergeModels(old, local, v).merged
  PROVE  WellFormed(m)
<1>1. m = Merged(old, local, v)
  BY DEF mergeModels
<1>2. PICK K, added, all :
         /\ added = DOMAIN local \ (DOMAIN old \cup DOMAIN v) /\ all = InAll(old, local, v)
         /\ K = (DOMAIN v \ {k \in Deleted(old, local) \cap DOMAIN v : Untouched(old, v, k)}) \cup added
  OBVIOUS
<1>3. m = [k \in K |-> IF k \in all THEN MergedEntity(old[k], local[k], v[k])
                       ELSE IF k \in added THEN local[k] ELSE v[k]]
  BY <1>1, <1>2 DEF Merged
<1>4. /\ DOMAIN m = K /\ IsFunction(m)
      /\ \A k \in K : m[k] = IF k \in all THEN MergedEntity(old[k], local[k], v[k])
                             ELSE IF k \in added THEN local[k] ELSE v[k]
  BY <1>3 DEF IsFunction
<1>5. K \subseteq DOMAIN v \cup DOMAIN local /\ \A k \in K \ added : k \in DOMAIN v
  BY <1>2
<1>6. IsFiniteSet(K)
  <2>1. IsFiniteSet(DOMAIN v \cup DOMAIN local)
    BY FS_Union DEF WellFormed
  <2> QED BY <1>5, <2>1, FS_Subset
<1>7. \A b, l, e : IsFunction(MergedEntity(b, l, e))
  BY DEF MergedEntity, IsFunction
<1>8. \A k \in K : IsFunction(m[k]) /\ k[1] \in Range(ENTITY_KINDS)
  <2>1. \A k \in added : k \in DOMAIN local
    BY <1>2
  <2> QED BY <1>4, <1>5, <1>7, <2>1 DEF WellFormed
<1> QED BY <1>4, <1>6, <1>8 DEF WellFormed

LEMMA WrittenForm ==
  ASSUME NEW server0, NEW m, WellFormed(server0), WellFormed(m)
  PROVE  WellFormed(WrittenOver(server0, m))
<1> DEFINE Over0(s, e) == [f \in DOMAIN s |-> IF f \in FILE_FIELDS(s) THEN e[f] ELSE s[f]]
<1>1. PICK w, notes : w = WrittenOver(server0, m) /\ notes = KeysOf(server0, "note")
  OBVIOUS
<1>2. w = [k \in notes \cup DOMAIN m |->
              IF k \in notes THEN server0[k]
              ELSE IF k \in DOMAIN server0 THEN Over0(server0[k], m[k]) ELSE m[k]]
  BY <1>1 DEF WrittenOver
<1>3. \A s, e : IsFunction(Over0(s, e))
  BY DEF IsFunction
<1> HIDE DEF Over0
<1>4. /\ DOMAIN w = notes \cup DOMAIN m /\ IsFunction(w)
      /\ \A k \in DOMAIN w : w[k] = IF k \in notes THEN server0[k]
                                    ELSE IF k \in DOMAIN server0 THEN Over0(server0[k], m[k]) ELSE m[k]
  BY <1>2 DEF IsFunction
<1>5. notes \subseteq DOMAIN server0
  BY <1>1 DEF KeysOf
<1>6. IsFiniteSet(DOMAIN w)
  <2>1. IsFiniteSet(DOMAIN server0 \cup DOMAIN m)
    BY FS_Union DEF WellFormed
  <2>2. DOMAIN w \subseteq DOMAIN server0 \cup DOMAIN m
    BY <1>4, <1>5
  <2> QED BY <2>1, <2>2, FS_Subset
<1>7. \A k \in DOMAIN w : IsFunction(w[k]) /\ k[1] \in Range(ENTITY_KINDS)
  BY <1>3, <1>4, <1>5 DEF WellFormed
<1> QED BY <1>1, <1>4, <1>6, <1>7 DEF WellFormed

LEMMA PrunedForm ==
  ASSUME NEW c, WellFormed(c)
  PROVE  WellFormed(pruneDangling(c))
<1>1. PICK t, p, r : t = ColumnsWithTable(c) /\ p = PartsWithColumns(t) /\ r = WithoutLooseReferences(p)
  OBVIOUS
<1>2. DOMAIN t \subseteq DOMAIN c
  BY <1>1 DEF ColumnsWithTable, Restrict
<1>3. DOMAIN p \subseteq DOMAIN t
  BY <1>1 DEF PartsWithColumns, Restrict
<1>4. DOMAIN r = DOMAIN p /\ IsFunction(r) /\ \A k \in DOMAIN r : IsFunction(r[k])
  BY <1>1 DEF WithoutLooseReferences, IsFunction
<1>5. DOMAIN r \subseteq DOMAIN c
  BY <1>2, <1>3, <1>4
<1>6. IsFiniteSet(DOMAIN r)
  BY <1>5, FS_Subset DEF WellFormed
<1>7. r = pruneDangling(c)
  BY <1>1 DEF pruneDangling
<1> QED BY <1>4, <1>5, <1>6, <1>7 DEF WellFormed

(* What a push is computed from.                                           *)
Formed(request) == WellFormed(request.base) /\ WellFormed(request.local)

LEMMA TargetForm ==
  ASSUME NEW request, Formed(request), NEW old, WellFormed(old)
  PROVE  WellFormed(Target(request, old))
<1>1. PICK b, l, v, m : /\ b = request.base /\ l = request.local /\ v = fileVisibleModel(old)
                        /\ m = mergeModels(b, l, v).merged
  OBVIOUS
<1>2. WellFormed(b) /\ WellFormed(l) /\ WellFormed(v)
  BY <1>1, VisibleForm DEF Formed
<1>3. WellFormed(m)
  BY <1>1, <1>2, MergedForm
<1>4. PICK w : w = WrittenOver(old, m)
  OBVIOUS
<1>5. WellFormed(w)
  BY <1>3, <1>4, WrittenForm
<1>6. Target(request, old) = pruneDangling(w)
  BY <1>1, <1>4 DEF Target, MergedOf, applyMerge
<1> QED BY <1>5, <1>6, PrunedForm

(* So the ops of a plan, as one batch and as row statements, lead from the *)
(* model it was made on to what was merged.                                *)
LEMMA PlanLands ==
  ASSUME ~ WellFormed(OpApplyError), NEW request, NEW old, Clean(request, old), Formed(request),
         WellFormed(old), validateModelIntegrity(old), NEW new, new = Target(request, old)
  PROVE  /\ applyOps(old, diffModels(old, new)) = new /\ persistOps(old, diffModels(old, new)) = new
         /\ new # OpApplyError
<1>1. WellFormed(new)
  BY TargetForm
<1>2. Shaped(new) /\ validateModelIntegrity(new) /\ Shaped(old)
  BY TargetFacts DEF Clean
<1>3. Comparable(old, new)
  BY <1>1, <1>2 DEF Comparable, SameFields, Shaped
<1>4. NeverError(old, new)
  BY <1>3, MovedForm DEF NeverError
<1>5. Diffing(old, new)
  BY <1>2, <1>3, <1>4 DEF Diffing
<1> QED BY <1>1, <1>5, DiffApplies, DiffPersists
-----------------------------------------------------------------------------
(* A request was made from the model it names, without a conflict.         *)
Made(request) == request.seq \in DOMAIN log /\ Clean(request, log[request.seq])
(* The entity that has just got its id is in what was read.                *)
IdGiven(local) == cli.assigned => NewKey(issued) \in DOMAIN local

TreeInv ==
    /\ (\E S : log \in Seq(S)) /\ log # << >> /\ \A i \in DOMAIN log : Shaped(log[i])
    /\ InFiles(files) /\ InFiles(base)
    /\ \A request \in wire : Made(request)
    /\ cli.at = "read" => InFiles(cli.base) /\ InFiles(cli.local) /\ IdGiven(cli.local)
    /\ cli.at = "planned" => Made(cli.request) /\ IdGiven(cli.request.local)
    /\ cli.at \in {"reserved", "sent"} => Made(cli.request)
    /\ cli.at = "writing" => InFiles(cli.tree)

LEMMA SyncStarts == ASSUME Init PROVE TreeInv
<1>1. log = <<Start>> /\ files = fileVisibleModel(Start) /\ base = files /\ cli.at = "idle" /\ wire = {}
  BY DEF Init, Idle
<1>2. log \in Seq({Start}) /\ DOMAIN log = {1} /\ log[1] = Start
  BY <1>1
<1>3. InFiles(files)
  BY <1>1, VisibleFacts, EntitiesHaveFields DEF FromSchemas
<1> QED BY <1>1, <1>2, <1>3, EntitiesHaveFields DEF TreeInv, FromSchemas

(* The log only grows.                                                     *)
LEMMA LogGrows ==
  ASSUME TreeInv, NEW m, log' = Append(log, m)
  PROVE  /\ \E S : log' \in Seq(S)
         /\ log' # << >> /\ server' = m /\ (Shaped(m) => \A i \in DOMAIN log' : Shaped(log'[i]))
         /\ \A request : Made(request) => Made(request)'
<1>1. PICK S : log \in Seq(S)
  BY DEF TreeInv
<1>2. log \in Seq(S \cup {m}) /\ m \in S \cup {m}
  BY <1>1
<1>3. log' \in Seq(S \cup {m}) /\ DOMAIN log' = DOMAIN log \cup {Len(log) + 1} /\ Len(log') = Len(log) + 1
      /\ log'[Len(log) + 1] = m /\ \A i \in DOMAIN log : log'[i] = log[i]
  BY <1>2
<1>4. \A request : Made(request) => Made(request)'
  BY <1>3 DEF Made, Clean, InFiles, Shaped
<1> QED BY <1>3, <1>4 DEF TreeInv, server, seq

LEMMA EditsKeepSync == ASSUME TreeInv, TheirEdit \/ MyEdit PROVE TreeInv'
<1>1. CASE TheirEdit
  <2>1. PICK m : Shaped(m) /\ log' = Append(log, m)
    BY <1>1 DEF TheirEdit, FromSchemas
  <2>2. UNCHANGED <<files, base, cli, wire, issued>>
    BY <1>1 DEF TheirEdit
  <2> QED BY <2>1, <2>2, LogGrows DEF TreeInv, IdGiven, NewKey
<1>2. CASE MyEdit
  <2>1. PICK m : files' = m /\ InFiles(m)
    <3>1. ASSUME NEW m, Shaped(m), FilesBecome(fileVisibleModel(m)) PROVE InFiles(files')
      BY <3>1, VisibleFacts DEF FilesBecome
    <3>2. ASSUME FilesBecome(With(files, NoId, NewTable)) PROVE InFiles(files')
      <4>1. /\ DOMAIN files' = DOMAIN files \cup {NoId} /\ files'[NoId] = NewTable
            /\ \A k \in DOMAIN files \ {NoId} : files'[k] = files[k]
        BY <3>2 DEF FilesBecome, With
      <4>2. NoId[1] = "table" /\ "table" \in DOMAIN EntityFields
        BY DEF NoId, EntityFields
      <4>3. \A k \in DOMAIN files : k[1] # "note" /\ k[1] \in DOMAIN EntityFields /\ DOMAIN files[k] = EntityFields[k[1]]
        BY DEF TreeInv, InFiles, Shaped
      <4>4. \A k \in DOMAIN files' : k[1] # "note" /\ k[1] \in DOMAIN EntityFields /\ DOMAIN files'[k] = EntityFields[k[1]]
        BY <4>1, <4>2, <4>3, EntitiesHaveFields
      <4> QED BY <4>4 DEF InFiles, Shaped
    <3> QED BY <1>2, <3>1, <3>2 DEF MyEdit, FromSchemas
  <2>2. UNCHANGED <<log, base, cli, wire, issued>>
    BY <1>2 DEF MyEdit, FilesBecome
  <2> QED BY <2>1, <2>2 DEF TreeInv, IdGiven, NewKey, Made
<1> QED BY <1>1, <1>2

LEMMA ReadKeepsSync ==
  ASSUME TreeInv, NEW retried, ReadTree(retried), UNCHANGED <<log, files, base, wire>>
  PROVE  TreeInv'
<1>1. /\ cli'.at = "read" /\ cli'.base = base /\ cli'.assigned = (NoId \in DOMAIN files)
      /\ cli'.local = Named(files) /\ (NoId \in DOMAIN files => issued' = issued + 1)
  BY DEF ReadTree
<1>2. InFiles(Named(files)) /\ (NoId \in DOMAIN files => NewKey(issued + 1) \in DOMAIN Named(files))
  <2>1. CASE NoId \in DOMAIN files
    BY <2>1 DEF Named, With, Without, NewKey, NoId, TreeInv, InFiles, Shaped
  <2>2. CASE NoId \notin DOMAIN files
    BY <2>2 DEF Named, TreeInv
  <2> QED BY <2>1, <2>2
<1> QED BY <1>1, <1>2 DEF TreeInv, IdGiven, NewKey, Made

LEMMA PlanKeepsSync == ASSUME TreeInv, Plan PROVE TreeInv'
<1>1. cli.at = "read" /\ UNCHANGED <<log, files, base, wire, issued>>
  BY DEF Plan
<1>2. CASE cli' = Idle
  BY <1>1, <1>2 DEF TreeInv, Idle, Made
<1>3. CASE cli' # Idle
  <2>1. Planned(cli.base, cli.local) # << >>
    BY <1>3 DEF Plan
  <2>2. /\ cli'.at = "planned" /\ cli'.assigned = cli.assigned
        /\ cli'.request.seq = seq /\ cli'.request.base = cli.base /\ cli'.request.local = cli.local
    BY <2>1 DEF Plan
  <2>3. mergeModels(cli.base, cli.local, fileVisibleModel(server)).conflicts = {}
    BY <2>1 DEF Planned
  <2>4. seq \in DOMAIN log /\ Shaped(log[seq])
    BY DEF TreeInv, seq
  <2>5. Made(cli'.request)
    BY <1>1, <2>2, <2>3, <2>4 DEF Made, Clean, TreeInv, server
  <2> QED BY <1>1, <2>2, <2>5 DEF TreeInv, IdGiven, NewKey, Made
<1> QED BY <1>2, <1>3

LEMMA ReserveKeepsSync == ASSUME TreeInv, reserveIds PROVE TreeInv'
<1>1. /\ cli.at = "planned" /\ cli'.at = "reserved" /\ cli'.request = cli.request
      /\ UNCHANGED <<log, base, wire, issued>>
  BY DEF reserveIds
<1>2. InFiles(files')
  <2>1. CASE cli.assigned
    <3>1. PICK local : local = cli.request.local
      OBVIOUS
    <3>2. InFiles(local) /\ NewKey(issued) \in DOMAIN local
      BY <1>1, <2>1, <3>1 DEF TreeInv, Made, Clean, IdGiven
    <3>3. files' = With(Without(files, NoId), NewKey(issued), local[NewKey(issued)])
      BY <2>1, <3>1 DEF reserveIds, ReservedFiles
    <3> QED BY <3>2, <3>3 DEF With, Without, TreeInv, InFiles, Shaped
  <2>2. CASE ~ cli.assigned
    BY <2>2 DEF reserveIds, TreeInv
  <2> QED BY <2>1, <2>2
<1> QED BY <1>1, <1>2 DEF TreeInv, Made

(* A request the server takes leads from the model it was made from to the *)
(* merge: that its ops reach it is PlansAreAccepted.                       *)
LEMMA TakenFacts ==
  ASSUME TreeInv, PlansAreAccepted, NEW request \in wire, Take(request), log' # log
  PROVE  /\ Clean(request, server) /\ server' = Target(request, server)
         /\ log' = Append(log, Target(request, server))
<1>1. Accepts(request) /\ log' = Append(log, applyOps(server, request.ops))
  BY DEF Take
<1>2. request.seq = seq
  BY <1>1 DEF Accepts
<1>3. applyOps(server, request.ops) = Target(request, server)
  BY <1>2 DEF PlansAreAccepted
<1>4. Clean(request, server)
  BY <1>2 DEF TreeInv, Made, server
<1> QED BY <1>1, <1>3, <1>4, LogGrows

LEMMA PushKeepsSync == ASSUME TreeInv, PlansAreAccepted, modelPush PROVE TreeInv'
<1>1. PICK request \in wire : Take(request)
  BY DEF modelPush
<1>2. /\ wire' \subseteq wire /\ UNCHANGED <<files, base, issued>>
      /\ cli' = cli \/ cli'.at \in {"committed", "conflict"}
  BY <1>1 DEF Take, Answered
<1>3. CASE log' = log
  BY <1>2, <1>3 DEF TreeInv, Made, IdGiven, NewKey
<1>4. CASE log' # log
  <2>1. Clean(request, server) /\ log' = Append(log, Target(request, server))
    BY <1>1, <1>4, TakenFacts
  <2>2. Shaped(Target(request, server))
    BY <2>1, TargetFacts
  <2> QED BY <1>2, <2>1, <2>2, LogGrows DEF TreeInv, IdGiven, NewKey
<1> QED BY <1>3, <1>4

LEMMA WritesKeepSync ==
  ASSUME TreeInv, GetModel \/ WriteFile \/ writeBase \/ SyncEnds PROVE TreeInv'
<1>1. CASE GetModel
  <2>1. seq \in DOMAIN log /\ Shaped(server)
    BY DEF TreeInv, server, seq
  <2>2. cli'.at = "writing" /\ cli'.tree = fileVisibleModel(server) /\ UNCHANGED <<log, files, base, wire, issued>>
    BY <1>1 DEF GetModel
  <2>3. InFiles(cli'.tree)
    BY <2>1, <2>2, VisibleFacts
  <2> QED BY <2>2, <2>3 DEF TreeInv, Made
<1>2. CASE WriteFile
  <2>1. PICK file : files' = FileWritten(cli.tree, file)
    BY <1>2 DEF WriteFile
  <2>2. /\ cli.at = "writing" /\ cli'.at = cli.at /\ cli'.tree = cli.tree
        /\ UNCHANGED <<log, base, wire, issued>>
    BY <1>2 DEF WriteFile
  <2>3. InFiles(files) /\ InFiles(cli.tree)
    BY <2>2 DEF TreeInv
  <2>4. InFiles(files')
    BY <2>1, <2>3 DEF FileWritten, KeysIn, InFiles, Shaped
  <2> QED BY <2>2, <2>3, <2>4 DEF TreeInv, Made
<1>3. CASE writeBase
  BY <1>3 DEF writeBase, TreeInv, Made
<1>4. CASE SyncEnds
  BY <1>4 DEF SyncEnds, Idle, TreeInv, Made
<1> QED BY <1>1, <1>2, <1>3, <1>4

LEMMA SyncKept == ASSUME TreeInv, PlansAreAccepted, [Next]_vars PROVE TreeInv'
<1>1. CASE UNCHANGED vars
  BY <1>1 DEF vars, TreeInv, Made, IdGiven, NewKey
<1>2. CASE Push
  BY <1>2, ReadKeepsSync DEF Push
<1>3. CASE Retry
  <2>1. CASE cli.retried
    BY <1>3, <2>1 DEF Retry, Idle, TreeInv, Made
  <2>2. CASE ~ cli.retried
    BY <1>3, <2>2, ReadKeepsSync DEF Retry
  <2> QED BY <2>1, <2>2
<1>4. CASE Send
  BY <1>4 DEF Send, TreeInv, Made
<1>5. CASE CutShort \/ Pull
  BY <1>5 DEF CutShort, Pull, Idle, TreeInv, Made
<1> QED BY <1>1, <1>2, <1>3, <1>4, <1>5, EditsKeepSync, PlanKeepsSync, ReserveKeepsSync,
           PushKeepsSync, WritesKeepSync DEF Next

(* Only the server takes requests off the wire.                            *)
LEMMA TakenRequests ==
  ASSUME TreeInv, PlansAreAccepted, [Next]_vars,
         NEW request \in wire, request \notin wire', log' # log
  PROVE  KeepsTheirs(request, server, server') /\ BringsMine(request, server, server')
<1>1. Take(request)
  BY DEF Next, vars, TheirEdit, MyEdit, FilesBecome, Push, Plan, reserveIds, Send, modelPush, Take, Retry,
         CutShort, Pull, GetModel, WriteFile, writeBase, SyncEnds
<1>2. Clean(request, server) /\ server' = Target(request, server)
  BY <1>1, TakenFacts
<1> QED BY <1>2, TargetFacts
-----------------------------------------------------------------------------
(* The forms: every model of the project is one and is integral, the files *)
(* and what was read from them are, and a request carries the diff to its  *)
(* target.                                                                 *)
Prepared(request) ==
    /\ Formed(request)
    /\ request.ops = diffModels(log[request.seq], Target(request, log[request.seq]))

FormInv ==
    /\ \A i \in DOMAIN log : WellFormed(log[i]) /\ validateModelIntegrity(log[i])
    /\ WellFormed(files) /\ WellFormed(base)
    /\ \A request \in wire : Prepared(request)
    /\ cli.at = "read" => WellFormed(cli.base) /\ WellFormed(cli.local)
    /\ cli.at \in {"planned", "reserved", "sent"} => Prepared(cli.request)
    /\ cli.at = "writing" => WellFormed(cli.tree)

LEMMA PlansHold == ASSUME ~ WellFormed(OpApplyError), TreeInv, FormInv PROVE PlansAreAccepted
<1> SUFFICES ASSUME NEW request \in wire, request.seq = seq
             PROVE  LET result == applyOps(server, request.ops)
                    IN  /\ result # OpApplyError /\ result = Target(request, server)
                        /\ persistOps(server, request.ops) = result
  BY DEF PlansAreAccepted
<1>1. PICK old, new : old = server /\ new = Target(request, old)
  OBVIOUS
<1>2. seq \in DOMAIN log /\ log[seq] = old
  BY <1>1 DEF TreeInv, Made, server
<1>3. Clean(request, old) /\ Formed(request) /\ request.ops = diffModels(old, new)
  BY <1>1, <1>2 DEF TreeInv, Made, FormInv, Prepared
<1>4. WellFormed(old) /\ validateModelIntegrity(old)
  BY <1>2 DEF FormInv
<1>5. /\ applyOps(old, diffModels(old, new)) = new /\ persistOps(old, diffModels(old, new)) = new
      /\ new # OpApplyError
  BY <1>1, <1>3, <1>4, PlanLands
<1> QED BY <1>1, <1>3, <1>5

LEMMA FormStarts == ASSUME Init PROVE FormInv
<1>1. log = <<Start>> /\ files = fileVisibleModel(Start) /\ base = files /\ cli.at = "idle" /\ wire = {}
  BY DEF Init, Idle
<1>2. DOMAIN log = {1} /\ log[1] = Start
  BY <1>1
<1>3. WellFormed(Start) /\ validateModelIntegrity(Start)
  BY EntitiesHaveFields DEF FromSchemas
<1>4. WellFormed(files)
  BY <1>1, <1>3, VisibleForm
<1> QED BY <1>1, <1>2, <1>3, <1>4 DEF FormInv

LEMMA FormGrows ==
  ASSUME TreeInv, FormInv, NEW m, WellFormed(m), validateModelIntegrity(m), log' = Append(log, m)
  PROVE  /\ \A i \in DOMAIN log' : WellFormed(log'[i]) /\ validateModelIntegrity(log'[i])
         /\ \A request : Made(request) /\ Prepared(request) => Prepared(request)'
<1>1. PICK S : log \in Seq(S)
  BY DEF TreeInv
<1>2. log \in Seq(S \cup {m}) /\ m \in S \cup {m}
  BY <1>1
<1>3. DOMAIN log' = DOMAIN log \cup {Len(log) + 1} /\ log'[Len(log) + 1] = m
      /\ \A i \in DOMAIN log : log'[i] = log[i]
  BY <1>2
<1>4. \A request : Made(request) /\ Prepared(request) => Prepared(request)'
  BY <1>3 DEF Made, Prepared, Formed
<1>5. \A i \in DOMAIN log' : WellFormed(log'[i]) /\ validateModelIntegrity(log'[i])
  BY <1>3 DEF FormInv
<1> QED BY <1>4, <1>5

(* A step that leaves the log alone keeps what the requests carry.         *)
LEMMA FormsStay ==
  ASSUME FormInv, UNCHANGED log
  PROVE  /\ \A i \in DOMAIN log' : WellFormed(log'[i]) /\ validateModelIntegrity(log'[i])
         /\ \A request : Prepared(request) => Prepared(request)'
  BY DEF FormInv, Prepared, Formed

LEMMA EditsKeepForm == ASSUME TreeInv, FormInv, TheirEdit \/ MyEdit PROVE FormInv'
<1>1. CASE TheirEdit
  <2>1. PICK m : WellFormed(m) /\ validateModelIntegrity(m) /\ log' = Append(log, m)
    BY <1>1 DEF TheirEdit, FromSchemas
  <2>2. UNCHANGED <<files, base, cli, wire>>
    BY <1>1 DEF TheirEdit
  <2>3. /\ \A i \in DOMAIN log' : WellFormed(log'[i]) /\ validateModelIntegrity(log'[i])
        /\ \A request : Made(request) /\ Prepared(request) => Prepared(request)'
    BY <2>1, FormGrows
  <2> QED BY <2>2, <2>3 DEF FormInv, TreeInv
<1>2. CASE MyEdit
  <2>1. WellFormed(files')
    <3>1. ASSUME NEW m, WellFormed(m), FilesBecome(fileVisibleModel(m)) PROVE WellFormed(files')
      BY <3>1, VisibleForm DEF FilesBecome
    <3>2. ASSUME FilesBecome(With(files, NoId, NewTable)) PROVE WellFormed(files')
      <4>1. /\ DOMAIN files' = DOMAIN files \cup {NoId} /\ IsFunction(files')
            /\ \A k \in DOMAIN files' : files'[k] = IF k = NoId THEN NewTable ELSE files[k]
        BY <3>2 DEF FilesBecome, With, IsFunction
      <4>2. NoId[1] \in Range(ENTITY_KINDS)
        BY DEF NoId, ENTITY_KINDS, Range
      <4>3. IsFiniteSet(DOMAIN files')
        BY <4>1, FS_AddElement DEF FormInv, WellFormed
      <4> QED BY <4>1, <4>2, <4>3, EntitiesHaveFields DEF FormInv, WellFormed
    <3> QED BY <1>2, <3>1, <3>2 DEF MyEdit, FromSchemas
  <2>2. UNCHANGED <<log, base, cli, wire>>
    BY <1>2 DEF MyEdit, FilesBecome
  <2> QED BY <2>1, <2>2, FormsStay DEF FormInv
<1> QED BY <1>1, <1>2

LEMMA ReadKeepsForm ==
  ASSUME FormInv, NEW retried, ReadTree(retried), UNCHANGED <<log, files, base, wire>>
  PROVE  FormInv'
<1>1. cli'.at = "read" /\ cli'.base = base /\ cli'.local = Named(files)
  BY DEF ReadTree
<1>2. WellFormed(Named(files))
  <2>1. CASE NoId \in DOMAIN files
    <3>1. PICK k, n : k = NewKey(issued + 1) /\ n = Named(files)
      OBVIOUS
    <3>2. /\ DOMAIN n = (DOMAIN files \ {NoId}) \cup {k} /\ IsFunction(n)
          /\ \A x \in DOMAIN n : n[x] = IF x = k THEN files[NoId] ELSE files[x]
      BY <2>1, <3>1 DEF Named, With, Without, IsFunction
    <3>3. k[1] \in Range(ENTITY_KINDS)
      BY <3>1 DEF NewKey, ENTITY_KINDS, Range
    <3>4. IsFiniteSet(DOMAIN n)
      <4>1. IsFiniteSet(DOMAIN files \ {NoId})
        BY FS_Subset DEF FormInv, WellFormed
      <4> QED BY <3>2, <4>1, FS_AddElement
    <3> QED BY <2>1, <3>1, <3>2, <3>3, <3>4 DEF FormInv, WellFormed
  <2>2. CASE NoId \notin DOMAIN files
    BY <2>2 DEF Named, FormInv
  <2> QED BY <2>1, <2>2
<1> QED BY <1>1, <1>2, FormsStay DEF FormInv

LEMMA PlanKeepsForm == ASSUME TreeInv, FormInv, Plan PROVE FormInv'
<1>1. cli.at = "read" /\ UNCHANGED <<log, files, base, wire>>
  BY DEF Plan
<1>2. CASE cli' = Idle
  BY <1>1, <1>2, FormsStay DEF FormInv, Idle
<1>3. CASE cli' # Idle
  <2>1. PICK ops : ops = Planned(cli.base, cli.local) /\ ops # << >>
    BY <1>3 DEF Plan
  <2>2. /\ cli'.at = "planned" /\ cli'.request.ops = ops
        /\ cli'.request.seq = seq /\ cli'.request.base = cli.base /\ cli'.request.local = cli.local
    BY <2>1 DEF Plan
  <2>3. PICK request : request = cli'.request
    OBVIOUS
  <2>4. ops = diffModels(server, Target(request, server))
    BY <2>1, <2>2, <2>3 DEF Planned, Target, MergedOf
  <2>5. Prepared(request)
    BY <1>1, <2>2, <2>3, <2>4 DEF Prepared, Formed, FormInv, server
  <2>6. Prepared(request)'
    BY <1>1, <2>5, FormsStay
  <2> QED BY <1>1, <2>2, <2>3, <2>6, FormsStay DEF FormInv, Prepared, Formed
<1> QED BY <1>2, <1>3

LEMMA ReserveKeepsForm == ASSUME TreeInv, FormInv, reserveIds PROVE FormInv'
<1>1. /\ cli.at = "planned" /\ cli'.at = "reserved" /\ cli'.request = cli.request
      /\ UNCHANGED <<log, base, wire>>
  BY DEF reserveIds
<1>2. WellFormed(files')
  <2>1. CASE cli.assigned
    <3>1. PICK local, k : local = cli.request.local /\ k = NewKey(issued)
      OBVIOUS
    <3>2. WellFormed(local) /\ k \in DOMAIN local
      BY <1>1, <2>1, <3>1 DEF FormInv, Prepared, Formed, TreeInv, IdGiven
    <3>3. /\ DOMAIN files' = (DOMAIN files \ {NoId}) \cup {k} /\ IsFunction(files')
          /\ \A x \in DOMAIN files' : files'[x] = IF x = k THEN local[k] ELSE files[x]
      BY <2>1, <3>1 DEF reserveIds, ReservedFiles, With, Without, IsFunction
    <3>4. IsFiniteSet(DOMAIN files')
      <4>1. IsFiniteSet(DOMAIN files \ {NoId})
        BY FS_Subset DEF FormInv, WellFormed
      <4> QED BY <3>3, <4>1, FS_AddElement
    <3> QED BY <3>2, <3>3, <3>4 DEF FormInv, WellFormed
  <2>2. CASE ~ cli.assigned
    BY <2>2 DEF reserveIds, FormInv
  <2> QED BY <2>1, <2>2
<1> QED BY <1>1, <1>2, FormsStay DEF FormInv

LEMMA PushKeepsForm == ASSUME TreeInv, FormInv, PlansAreAccepted, modelPush PROVE FormInv'
<1>1. PICK request \in wire : Take(request)
  BY DEF modelPush
<1>2. /\ wire' \subseteq wire /\ UNCHANGED <<files, base>>
      /\ cli' = cli \/ cli'.at \in {"committed", "conflict"}
  BY <1>1 DEF Take, Answered
<1>3. CASE log' = log
  BY <1>2, <1>3, FormsStay DEF FormInv
<1>4. CASE log' # log
  <2>1. PICK m : m = Target(request, server) /\ Clean(request, server) /\ log' = Append(log, m)
    BY <1>1, <1>4, TakenFacts
  <2>2. WellFormed(server)
    BY DEF FormInv, TreeInv, server, seq
  <2>3. WellFormed(m) /\ validateModelIntegrity(m)
    BY <2>1, <2>2, TargetForm, TargetFacts DEF FormInv, Prepared
  <2>4. /\ \A i \in DOMAIN log' : WellFormed(log'[i]) /\ validateModelIntegrity(log'[i])
        /\ \A r : Made(r) /\ Prepared(r) => Prepared(r)'
    BY <2>1, <2>3, FormGrows
  <2> QED BY <1>2, <2>4 DEF FormInv, TreeInv
<1> QED BY <1>3, <1>4

LEMMA WritesKeepForm ==
  ASSUME TreeInv, FormInv, GetModel \/ WriteFile \/ writeBase \/ SyncEnds PROVE FormInv'
<1>1. CASE GetModel
  <2>1. WellFormed(server)
    BY DEF FormInv, TreeInv, server, seq
  <2>2. cli'.at = "writing" /\ cli'.tree = fileVisibleModel(server) /\ UNCHANGED <<log, files, base, wire>>
    BY <1>1 DEF GetModel
  <2>3. WellFormed(cli'.tree)
    BY <2>1, <2>2, VisibleForm
  <2> QED BY <2>2, <2>3, FormsStay DEF FormInv
<1>2. CASE WriteFile
  <2>1. PICK file : files' = FileWritten(cli.tree, file)
    BY <1>2 DEF WriteFile
  <2>2. /\ cli.at = "writing" /\ cli'.at = cli.at /\ cli'.tree = cli.tree
        /\ UNCHANGED <<log, base, wire>>
    BY <1>2 DEF WriteFile
  <2>3. PICK tree : tree = cli.tree /\ WellFormed(tree)
    BY <2>2 DEF FormInv
  <2>4. WellFormed(files')
    <3>1. PICK other, mineToo : /\ other = DOMAIN files \ KeysIn(files, file)
                                /\ mineToo = KeysIn(tree, file)
      OBVIOUS
    <3>2. /\ DOMAIN files' = other \cup mineToo /\ IsFunction(files')
          /\ \A x \in DOMAIN files' : files'[x] = IF x \in mineToo THEN tree[x] ELSE files[x]
      BY <2>1, <2>3, <3>1 DEF FileWritten, IsFunction
    <3>3. other \subseteq DOMAIN files /\ mineToo \subseteq DOMAIN tree
      BY <3>1 DEF KeysIn
    <3>4. IsFiniteSet(DOMAIN files')
      <4>1. IsFiniteSet(DOMAIN files \cup DOMAIN tree)
        BY <2>3, FS_Union DEF FormInv, WellFormed
      <4>2. DOMAIN files' \subseteq DOMAIN files \cup DOMAIN tree
        BY <3>2, <3>3
      <4> QED BY <4>1, <4>2, FS_Subset
    <3> QED BY <2>3, <3>2, <3>3, <3>4 DEF FormInv, WellFormed
  <2> QED BY <2>2, <2>4, FormsStay DEF FormInv
<1>3. CASE writeBase
  BY <1>3, FormsStay DEF writeBase, FormInv
<1>4. CASE SyncEnds
  BY <1>4, FormsStay DEF SyncEnds, Idle, FormInv
<1> QED BY <1>1, <1>2, <1>3, <1>4

LEMMA FormKept == ASSUME TreeInv, FormInv, PlansAreAccepted, [Next]_vars PROVE FormInv'
<1>1. CASE UNCHANGED vars
  BY <1>1, FormsStay DEF vars, FormInv
<1>2. CASE Push
  BY <1>2, ReadKeepsForm DEF Push
<1>3. CASE Retry
  <2>1. CASE cli.retried
    BY <1>3, <2>1, FormsStay DEF Retry, Idle, FormInv
  <2>2. CASE ~ cli.retried
    BY <1>3, <2>2, ReadKeepsForm DEF Retry
  <2> QED BY <2>1, <2>2
<1>4. CASE Send
  BY <1>4, FormsStay DEF Send, FormInv
<1>5. CASE CutShort \/ Pull
  BY <1>5, FormsStay DEF CutShort, Pull, Idle, FormInv
<1> QED BY <1>1, <1>2, <1>3, <1>4, <1>5, EditsKeepForm, PlanKeepsForm, ReserveKeepsForm,
           PushKeepsForm, WritesKeepForm DEF Next

LEMMA SyncHolds ==
  ASSUME ~ WellFormed(OpApplyError)
  PROVE  Spec => [](TreeInv /\ FormInv /\ PlansAreAccepted)
<1>1. Init => TreeInv /\ FormInv
  BY SyncStarts, FormStarts
<1>2. TreeInv /\ FormInv /\ [Next]_vars => (TreeInv /\ FormInv)'
  BY PlansHold, SyncKept, FormKept
<1>3. TreeInv /\ FormInv => PlansAreAccepted
  BY PlansHold
<1> QED BY <1>1, <1>2, <1>3, PTL DEF Spec
-----------------------------------------------------------------------------
(* A push that is still current is never refused for what it does: the ops *)
(* of its plan lead the server's model, and its rows, to the merge.        *)
THEOREM CurrentPushesAreAccepted ==
  ASSUME ~ WellFormed(OpApplyError)
  PROVE  Spec => []PlansAreAccepted
BY SyncHolds, PTL

(* A push the server takes writes over a field only if it held what the    *)
(* base has, and deletes only what nobody changed since, for any models    *)
(* and edits.                                                              *)
THEOREM PushesKeepTheirs ==
  ASSUME ~ WellFormed(OpApplyError)
  PROVE  Spec => NeverOverwrites
<1>1. ASSUME TreeInv, PlansAreAccepted, [Next]_vars
      PROVE  [\A request \in wire :
                 request \notin wire' /\ log' # log => KeepsTheirs(request, server, server')]_vars
  BY <1>1, TakenRequests
<1> QED BY <1>1, SyncHolds, PTL DEF Spec, NeverOverwrites

(* And everything its author changed is there afterwards: what conflicts   *)
(* is never resolved silently.                                             *)
THEOREM PushesBringMine ==
  ASSUME ~ WellFormed(OpApplyError)
  PROVE  Spec => OwnEditsArrive
<1>1. ASSUME TreeInv, PlansAreAccepted, [Next]_vars
      PROVE  [\A request \in wire :
                 request \notin wire' /\ log' # log => BringsMine(request, server, server')]_vars
  BY <1>1, TakenRequests
<1> QED BY <1>1, SyncHolds, PTL DEF Spec, OwnEditsArrive
-----------------------------------------------------------------------------
(* Where a table that was written without an id can be by now: the keys it *)
(* has got, each paid for by one such table, and one that is still to get  *)
(* its key, in the files or in the command that has just read them.        *)
NewData(model) == {k \in KeysOf(model, "table") : model[k].data = NewTable.data}

NoNewByEdit == \A m : \A n \in Edits(m) : NewData(n) \subseteq NewData(m)

Assigning == cli.at \in {"read", "planned"} /\ cli.assigned
Reading == IF cli.at = "planned" THEN cli.request.local ELSE cli.local
Owed == NoId \in NewData(files) \/ (Assigning /\ NewKey(issued) \in NewData(Reading))

Within(S) ==
    /\ \A i \in DOMAIN log : NewData(log[i]) \subseteq S
    /\ NewData(files) \ {NoId} \subseteq S
    /\ \A request \in wire : NewData(request.local) \subseteq S
    /\ cli.at \in {"read", "planned"} =>
          NewData(Reading) \ (IF cli.assigned THEN {NewKey(issued)} ELSE {}) \subseteq S
    /\ cli.at \in {"reserved", "sent"} => NewData(cli.request.local) \subseteq S
    /\ cli.at = "writing" => NewData(cli.tree) \subseteq S

PaidFor(S) ==
    /\ IsFiniteSet(S) /\ NoId \notin S
    /\ Cardinality(S) + (IF Owed THEN 1 ELSE 0) <= spent.new

CopyInv ==
    /\ spent \in [{"theirs", "mine", "new", "runs", "cuts"} -> Nat]
    /\ issued \in 0..Len(NewIds)
    /\ Assigning => issued \in 1..Len(NewIds)
    /\ \E S : PaidFor(S) /\ Within(S)

LEMMA CopiesCounted == ASSUME TreeInv, CopyInv PROVE NoCopies
<1>1. PICK S : PaidFor(S) /\ Within(S)
  BY DEF CopyInv
<1>2. seq \in DOMAIN log
  BY DEF TreeInv, seq
<1>3. NewData(server) \subseteq S
  BY <1>1, <1>2 DEF Within, server
<1>4. Cardinality(NewData(server)) <= Cardinality(S) /\ IsFiniteSet(NewData(server))
  BY <1>1, <1>3, FS_Subset DEF PaidFor
<1>5. Cardinality(S) \in Nat /\ Cardinality(NewData(server)) \in Nat /\ spent.new \in Nat
  BY <1>1, <1>4, FS_CardinalityType DEF PaidFor, CopyInv
<1>6. Cardinality(NewData(server)) <= spent.new
  BY <1>1, <1>4, <1>5 DEF PaidFor
<1> QED BY <1>6 DEF NoCopies, NewData

LEMMA KeyFacts == /\ \A i \in 1..Len(NewIds) : NewKey(i) # NoId
                  /\ \A i : NewKey(i)[1] = "table"
                  /\ NoId[1] = "table" /\ Len(NewIds) \in Nat
<1>1. NewIds \in Seq(Range(NewIds)) /\ Unnamed \notin Range(NewIds)
  BY IdsAreIds
<1>2. PICK R : R = Range(NewIds)
  OBVIOUS
<1>3. \A i \in 1..Len(NewIds) : NewIds[i] \in R
  BY <1>1, <1>2
<1> QED BY <1>1, <1>2, <1>3 DEF NewKey, NoId

(* Tables with the data of a new one come from a side that has it.         *)
LEMMA VisibleCopies ==
  ASSUME NEW m, Shaped(m)
  PROVE  NewData(fileVisibleModel(m)) = NewData(m)
<1>1. PICK v : v = fileVisibleModel(m)
  OBVIOUS
<1>2. /\ \A k : k \in DOMAIN v <=> k \in DOMAIN m /\ k[1] # "note"
      /\ \A k \in DOMAIN v : \A f \in FILE_FIELDS(m[k]) : v[k][f] = m[k][f]
  BY <1>1, VisibleFacts
<1>3. ASSUME NEW k \in DOMAIN v, k[1] = "table" PROVE v[k].data = m[k].data
  <2>1. "data" \in FILE_FIELDS(m[k])
    BY <1>2, <1>3 DEF Shaped, EntityFields, FILE_FIELDS, FILE_INVISIBLE_FIELDS
  <2> QED BY <1>2, <2>1
<1>4. \A k : k \in KeysOf(v, "table") <=> k \in KeysOf(m, "table")
  BY <1>2 DEF KeysOf
<1>5. \A k : k \in NewData(v) <=> k \in NewData(m)
  BY <1>3, <1>4 DEF NewData, KeysOf
<1> QED BY <1>1, <1>5

LEMMA MergedFrom ==
  ASSUME NEW old, NEW local, NEW v, NEW m, m = mergeModels(old, local, v).merged,
         NEW k \in DOMAIN m, NEW f \in FILE_FIELDS(m[k])
  PROVE  (k \in DOMAIN v /\ m[k][f] = v[k][f]) \/ (k \in DOMAIN local /\ m[k][f] = local[k][f])
<1>1. m = Merged(old, local, v)
  BY DEF mergeModels
<1>2. PICK K, added, all :
         /\ added = DOMAIN local \ (DOMAIN old \cup DOMAIN v) /\ all = InAll(old, local, v)
         /\ K = (DOMAIN v \ {x \in Deleted(old, local) \cap DOMAIN v : Untouched(old, v, x)}) \cup added
  OBVIOUS
<1>3. m = [x \in K |-> IF x \in all THEN MergedEntity(old[x], local[x], v[x])
                       ELSE IF x \in added THEN local[x] ELSE v[x]]
  BY <1>1, <1>2 DEF Merged
<1>4. k \in K /\ m[k] = IF k \in all THEN MergedEntity(old[k], local[k], v[k])
                        ELSE IF k \in added THEN local[k] ELSE v[k]
  BY <1>3
<1>5. CASE k \in all
  <2>1. PICK b, l, e : b = old[k] /\ l = local[k] /\ e = v[k] /\ m[k] = MergedEntity(b, l, e)
    BY <1>4, <1>5
  <2>2. DOMAIN m[k] = DOMAIN e
    BY <2>1 DEF MergedEntity
  <2>3. f \in DOMAIN e /\ f \notin FILE_INVISIBLE_FIELDS
    BY <2>2 DEF FILE_FIELDS
  <2>4. m[k][f] = MergedField(b[f], l[f], e[f])
    BY <2>1, <2>3 DEF MergedEntity
  <2>5. k \in DOMAIN v /\ k \in DOMAIN local
    BY <1>2, <1>5 DEF InAll
  <2> QED BY <2>1, <2>4, <2>5 DEF MergedField
<1>6. CASE k \notin all /\ k \in added
  BY <1>2, <1>4, <1>6
<1>7. CASE k \notin all /\ k \notin added
  BY <1>2, <1>4, <1>7
<1> QED BY <1>5, <1>6, <1>7

LEMMA TargetCopies ==
  ASSUME NEW request, NEW old, Clean(request, old)
  PROVE  NewData(Target(request, old)) \subseteq NewData(old) \cup NewData(request.local)
<1>1. PICK l, v, m, w, new : /\ l = request.local /\ v = fileVisibleModel(old)
                             /\ m = MergedOf(request, old) /\ w = WrittenOver(old, m)
                             /\ new = Target(request, old)
  OBVIOUS
<1>2. NewData(v) = NewData(old) /\ Shaped(old) /\ Shaped(v) /\ InFiles(l)
  BY <1>1, VisibleCopies, VisibleFacts DEF Clean, InFiles
<1> SUFFICES ASSUME NEW k \in NewData(new) PROVE k \in NewData(old) \/ k \in NewData(l)
  BY <1>1
<1>3. k \in DOMAIN new /\ k[1] = "table" /\ new[k].data = NewTable.data
  BY DEF NewData, KeysOf
<1>4. PICK b : b = request.base /\ m = mergeModels(b, l, v).merged
  BY <1>1 DEF MergedOf
<1>5. Shaped(m) /\ Shaped(w)
  BY <1>1, WrittenShape
<1>6. new = pruneDangling(w)
  BY <1>1 DEF Target, applyMerge
<1>7. k \in DOMAIN w /\ new[k].data = w[k].data
  <2>1. /\ DOMAIN new \subseteq DOMAIN w
        /\ \A f \in DOMAIN w[k] : new[k][f] = w[k][f] \/ Cleared(f, w[k], new)
    BY <1>3, <1>5, <1>6, PruneFacts
  <2>2. "data" \in DOMAIN w[k] /\ k \in DOMAIN w
    BY <1>3, <1>5, <2>1 DEF Shaped, EntityFields
  <2>3. ~ Cleared("data", w[k], new)
    BY DEF Cleared, LooseReferences
  <2> QED BY <2>1, <2>2, <2>3
<1>8. k \in DOMAIN m /\ "data" \in FILE_FIELDS(m[k]) /\ m[k].data = NewTable.data
  <2>1. /\ k \in DOMAIN m
        /\ k \in DOMAIN old => \A f \in FILE_FIELDS(old[k]) : w[k][f] = m[k][f]
        /\ k \notin DOMAIN old => w[k] = m[k]
    BY <1>1, <1>3, <1>7, WrittenFacts
  <2>2. "data" \in FILE_FIELDS(m[k]) /\ (k \in DOMAIN old => "data" \in FILE_FIELDS(old[k]))
    BY <1>2, <1>3, <1>5, <2>1 DEF Shaped, EntityFields, FILE_FIELDS, FILE_INVISIBLE_FIELDS
  <2> QED BY <1>3, <1>7, <2>1, <2>2
<1>9. (k \in DOMAIN v /\ m[k].data = v[k].data) \/ (k \in DOMAIN l /\ m[k].data = l[k].data)
  BY <1>4, <1>8, MergedFrom
<1> QED BY <1>2, <1>3, <1>8, <1>9 DEF NewData, KeysOf

-----------------------------------------------------------------------------
LEMMA SpentFacts ==
  ASSUME spent \in [{"theirs", "mine", "new", "runs", "cuts"} -> Nat],
         NEW what \in {"theirs", "mine", "new", "runs", "cuts"}, NEW max, Spend(what, max)
  PROVE  /\ spent' \in [{"theirs", "mine", "new", "runs", "cuts"} -> Nat]
         /\ spent'.new = IF what = "new" THEN spent.new + 1 ELSE spent.new
  BY DEF Spend

LEMMA StillPaid ==
  ASSUME NEW S, PaidFor(S), spent \in [{"theirs", "mine", "new", "runs", "cuts"} -> Nat],
         Owed' => Owed, spent'.new = spent.new
  PROVE  PaidFor(S)'
<1>1. Cardinality(S) \in Nat /\ spent.new \in Nat
  BY FS_CardinalityType DEF PaidFor
<1> QED BY <1>1 DEF PaidFor, NoId

LEMMA CopiesStart == ASSUME Init, NewData(Start) = {} PROVE CopyInv
<1>1. /\ log = <<Start>> /\ files = fileVisibleModel(Start) /\ cli.at = "idle" /\ wire = {} /\ issued = 0
      /\ spent = [theirs |-> 0, mine |-> 0, new |-> 0, runs |-> 0, cuts |-> 0]
  BY DEF Init, Idle
<1>2. NewData(files) = {}
  BY <1>1, VisibleCopies, EntitiesHaveFields DEF FromSchemas
<1>3. ~ Owed /\ ~ Assigning
  BY <1>1, <1>2 DEF Owed, Assigning
<1>4. PICK S : S = {}
  OBVIOUS
<1>5. IsFiniteSet(S) /\ Cardinality(S) = 0
  BY <1>4, FS_EmptySet
<1>6. PaidFor(S)
  BY <1>1, <1>3, <1>4, <1>5 DEF PaidFor
<1>7. DOMAIN log = {1} /\ log[1] = Start
  BY <1>1
<1>8. Within(S)
  BY <1>1, <1>2, <1>7 DEF Within
<1>9. spent \in [{"theirs", "mine", "new", "runs", "cuts"} -> Nat]
  BY <1>1
<1>10. issued \in 0..Len(NewIds)
  BY <1>1, KeyFacts
<1> QED BY <1>3, <1>6, <1>8, <1>9, <1>10 DEF CopyInv

(* The log with one more model, whose copies are counted.                  *)
LEMMA LogWithin ==
  ASSUME TreeInv, NEW S, Within(S), NEW m, log' = Append(log, m), NewData(m) \subseteq S
  PROVE  \A i \in DOMAIN log' : NewData(log'[i]) \subseteq S
<1>1. PICK T : log \in Seq(T)
  BY DEF TreeInv
<1>2. log \in Seq(T \cup {m}) /\ m \in T \cup {m}
  BY <1>1
<1>3. DOMAIN log' = DOMAIN log \cup {Len(log) + 1} /\ log'[Len(log) + 1] = m
      /\ \A i \in DOMAIN log : log'[i] = log[i]
  BY <1>2
<1> QED BY <1>3 DEF Within

LEMMA ServerWithin == ASSUME TreeInv, NEW S, Within(S) PROVE NewData(server) \subseteq S /\ Shaped(server)
<1>1. seq \in DOMAIN log
  BY DEF TreeInv, seq
<1> QED BY <1>1 DEF Within, server, TreeInv

LEMMA EditsKeepCopies == ASSUME NoNewByEdit, TreeInv, CopyInv, TheirEdit \/ MyEdit PROVE CopyInv'
<1>1. PICK S : PaidFor(S) /\ Within(S)
  BY DEF CopyInv
<1>2. CASE TheirEdit
  <2>1. PICK m \in Edits(server) : log' = Append(log, m)
    BY <1>2 DEF TheirEdit
  <2>2. NewData(m) \subseteq S
    BY <1>1, <2>1, ServerWithin DEF NoNewByEdit
  <2>3. UNCHANGED <<files, base, cli, wire, issued>> /\ Spend("theirs", MaxTheirs)
    BY <1>2 DEF TheirEdit, SpendEdit
  <2>4. /\ spent' \in [{"theirs", "mine", "new", "runs", "cuts"} -> Nat]
        /\ spent'.new = spent.new
    BY <2>3, SpentFacts DEF CopyInv
  <2>5. /\ Owed' <=> Owed
        /\ Assigning' <=> Assigning
    BY <2>3 DEF Owed, Assigning, Reading, NewData, KeysOf, NewKey, NoId
  <2>6. PaidFor(S)'
    BY <1>1, <2>4, <2>5, StillPaid DEF CopyInv
  <2>7. \A i \in DOMAIN log' : NewData(log'[i]) \subseteq S
    BY <1>1, <2>1, <2>2, LogWithin
  <2>8. Within(S)'
    BY <1>1, <2>3, <2>7 DEF Within, Reading, NewData, KeysOf, NewKey, NoId
  <2> QED BY <2>3, <2>4, <2>5, <2>6, <2>8 DEF CopyInv
<1>3. CASE MyEdit
  <2>1. UNCHANGED <<log, base, cli, wire, issued>>
    BY <1>3 DEF MyEdit, FilesBecome
  <2>2. Assigning' <=> Assigning
    BY <2>1 DEF Assigning
  <2>3. CASE SpendEdit("mine", MaxMine) /\ \E m \in Edits(files) : FromSchemas(m) /\ FilesBecome(fileVisibleModel(m))
    <3>1. PICK m \in Edits(files) : Shaped(m) /\ files' = fileVisibleModel(m)
      BY <2>3 DEF FromSchemas, FilesBecome
    <3>2. NewData(fileVisibleModel(m)) \subseteq NewData(files)
      BY <3>1, VisibleCopies DEF NoNewByEdit
    <3>3. NewData(files)' \subseteq NewData(files)
      BY <3>1, <3>2 DEF NewData, KeysOf
    <3>4. /\ spent' \in [{"theirs", "mine", "new", "runs", "cuts"} -> Nat]
          /\ spent'.new = spent.new
      BY <2>3, SpentFacts DEF CopyInv, SpendEdit
    <3>5. Owed' => Owed
      BY <2>1, <3>3 DEF Owed, Assigning, Reading, NewData, KeysOf, NewKey, NoId
    <3>6. PaidFor(S)'
      BY <1>1, <3>4, <3>5, StillPaid DEF CopyInv
    <3>7. Within(S)'
      BY <1>1, <2>1, <3>3 DEF Within, Reading, NewData, KeysOf, NewKey, NoId
    <3> QED BY <2>1, <2>2, <3>4, <3>6, <3>7 DEF CopyInv
  <2>4. CASE SpendEdit("new", MaxNew) /\ FilesBecome(With(files, NoId, NewTable))
    <3>1. files' = With(files, NoId, NewTable)
      BY <2>4 DEF FilesBecome
    <3>2. NewData(files)' \subseteq NewData(files) \cup {NoId}
      BY <3>1 DEF NewData, KeysOf, With
    <3>3. /\ spent' \in [{"theirs", "mine", "new", "runs", "cuts"} -> Nat]
          /\ spent'.new = spent.new + 1
      BY <2>4, SpentFacts DEF CopyInv, SpendEdit
    <3>4. Cardinality(S) \in Nat /\ spent.new \in Nat
      BY <1>1, FS_CardinalityType DEF PaidFor, CopyInv
    <3>5. Cardinality(S) <= spent.new
      BY <1>1, <3>4 DEF PaidFor
    <3>6. PaidFor(S)'
      BY <1>1, <3>3, <3>4, <3>5 DEF PaidFor, NoId
    <3>7. Within(S)'
      BY <1>1, <2>1, <3>2 DEF Within, Reading, NewData, KeysOf, NewKey, NoId
    <3> QED BY <2>1, <2>2, <3>3, <3>6, <3>7 DEF CopyInv
  <2> QED BY <1>3, <2>3, <2>4 DEF MyEdit
<1> QED BY <1>2, <1>3

LEMMA NamedCopies ==
  ASSUME NEW k, k = NewKey(issued + 1), k # NoId
  PROVE  /\ NoId \notin DOMAIN files => Named(files) = files
         /\ NoId \in DOMAIN files => /\ NewData(Named(files)) \ {k} \subseteq NewData(files) \ {NoId}
                                     /\ k \in NewData(Named(files)) => NoId \in NewData(files)
<1>1. CASE NoId \notin DOMAIN files
  BY <1>1 DEF Named
<1>2. CASE NoId \in DOMAIN files
  <2>1. PICK n : n = Named(files)
    OBVIOUS
  <2>2. /\ DOMAIN n = (DOMAIN files \ {NoId}) \cup {k}
        /\ \A x \in DOMAIN n : n[x] = IF x = k THEN files[NoId] ELSE files[x]
    BY <1>2, <2>1 DEF Named, With, Without
  <2>3. NoId[1] = "table"
    BY KeyFacts
  <2> QED BY <1>2, <2>1, <2>2, <2>3 DEF NewData, KeysOf
<1> QED BY <1>1, <1>2

LEMMA ReadKeepsCopies ==
  ASSUME CopyInv, NEW retried, ReadTree(retried), UNCHANGED <<log, files, wire>>,
         spent' \in [{"theirs", "mine", "new", "runs", "cuts"} -> Nat], spent'.new = spent.new
  PROVE  CopyInv'
<1>1. PICK S : PaidFor(S) /\ Within(S)
  BY DEF CopyInv
<1>2. /\ cli'.at = "read" /\ cli'.assigned = (NoId \in DOMAIN files) /\ cli'.local = Named(files)
      /\ issued' = (IF NoId \in DOMAIN files THEN issued + 1 ELSE issued) /\ issued < Len(NewIds)
  BY DEF ReadTree
<1>3. issued \in Nat /\ issued + 1 \in 1..Len(NewIds) /\ issued' \in 0..Len(NewIds)
  BY <1>2, KeyFacts DEF CopyInv
<1>4. PICK k : k = NewKey(issued + 1) /\ k # NoId
  BY <1>3, KeyFacts
<1>5. Assigning' => NoId \in DOMAIN files /\ issued' \in 1..Len(NewIds) /\ NewKey(issued') = k
  BY <1>2, <1>3, <1>4 DEF Assigning
<1>6. Reading' = Named(files)
  BY <1>2 DEF Reading
<1>7. Owed' => Owed
  <2>1. NewData(files)' = NewData(files)
    BY DEF NewData, KeysOf
  <2>2. ASSUME Assigning', NewKey(issued') \in NewData(Named(files)) PROVE NoId \in NewData(files)
    BY <1>4, <1>5, <2>2, NamedCopies
  <2>3. Owed' <=> NoId \in NewData(files) \/ (Assigning' /\ NewKey(issued') \in NewData(Named(files)))
    BY <1>6, <2>1 DEF Owed, NewData, KeysOf, NewKey, NoId
  <2> QED BY <2>2, <2>3 DEF Owed
<1>8. PaidFor(S)'
  BY <1>1, <1>7, StillPaid DEF CopyInv
<1>9. Within(S)'
  <2>1. NewData(Named(files)) \ (IF NoId \in DOMAIN files THEN {NewKey(issued')} ELSE {}) \subseteq S
    <3>1. CASE NoId \in DOMAIN files
      BY <1>1, <1>2, <1>4, <3>1, NamedCopies DEF Within
    <3>2. CASE NoId \notin DOMAIN files
      BY <1>1, <1>4, <3>2, NamedCopies DEF Within, NewData, KeysOf
    <3> QED BY <3>1, <3>2
  <2> QED BY <1>1, <1>2, <1>6, <2>1 DEF Within, NewData, KeysOf, NewKey, NoId
<1> QED BY <1>3, <1>5, <1>8, <1>9 DEF CopyInv

LEMMA PlanKeepsCopies == ASSUME CopyInv, Plan PROVE CopyInv'
<1>1. PICK S : PaidFor(S) /\ Within(S)
  BY DEF CopyInv
<1>2. cli.at = "read" /\ UNCHANGED <<log, files, wire, issued, spent>>
  BY DEF Plan
<1>3. CASE cli' = Idle
  <2>1. ~ Assigning' /\ (Owed' => Owed)
    BY <1>2, <1>3 DEF Assigning, Owed, Idle, NewData, KeysOf, NoId
  <2>2. PaidFor(S)'
    BY <1>1, <1>2, <2>1, StillPaid DEF CopyInv
  <2>3. Within(S)'
    BY <1>1, <1>2, <1>3 DEF Within, Idle, NewData, KeysOf, NoId
  <2> QED BY <1>2, <2>1, <2>2, <2>3 DEF CopyInv
<1>4. CASE cli' # Idle
  <2>1. cli'.at = "planned" /\ cli'.assigned = cli.assigned /\ cli'.request.local = cli.local
    BY <1>2, <1>4 DEF Plan
  <2>2. Reading' = Reading /\ Assigning' = Assigning
    BY <1>2, <2>1 DEF Reading, Assigning
  <2>3. Owed' => Owed
    BY <1>2, <2>2 DEF Owed, NewData, KeysOf, NewKey, NoId
  <2>4. PaidFor(S)'
    BY <1>1, <1>2, <2>3, StillPaid DEF CopyInv
  <2>5. Within(S)'
    BY <1>1, <1>2, <2>1, <2>2 DEF Within, NewData, KeysOf, NewKey, NoId
  <2> QED BY <1>2, <2>2, <2>4, <2>5 DEF CopyInv
<1> QED BY <1>3, <1>4

(* The one step that gives a new table its key for good.                   *)
LEMMA ReserveKeepsCopies == ASSUME TreeInv, CopyInv, reserveIds PROVE CopyInv'
<1>1. PICK S : PaidFor(S) /\ Within(S)
  BY DEF CopyInv
<1>2. /\ cli.at = "planned" /\ cli'.at = "reserved" /\ cli'.request = cli.request
      /\ UNCHANGED <<log, wire, issued, spent>>
  BY DEF reserveIds
<1>3. ~ Assigning' /\ Reading = cli.request.local
  BY <1>2 DEF Assigning, Reading
<1>4. CASE ~ cli.assigned
  <2>1. UNCHANGED files
    BY <1>4 DEF reserveIds
  <2>2. Owed' => Owed
    BY <1>3, <2>1 DEF Owed, NewData, KeysOf, NoId
  <2>3. PaidFor(S)'
    BY <1>1, <1>2, <2>2, StillPaid DEF CopyInv
  <2>4. Within(S)'
    BY <1>1, <1>2, <1>3, <1>4, <2>1 DEF Within, NewData, KeysOf, NoId
  <2> QED BY <1>2, <1>3, <2>3, <2>4 DEF CopyInv
<1>5. CASE cli.assigned
  <2>1. PICK local, key : local = cli.request.local /\ key = NewKey(issued)
    OBVIOUS
  <2>2. Assigning /\ issued \in 1..Len(NewIds) /\ key # NoId /\ key[1] = "table"
    BY <1>2, <1>5, <2>1, KeyFacts DEF Assigning, CopyInv
  <2>3. /\ DOMAIN files' = (DOMAIN files \ {NoId}) \cup {key}
        /\ \A k \in DOMAIN files' : files'[k] = IF k = key THEN local[key] ELSE files[k]
    BY <1>5, <2>1 DEF reserveIds, ReservedFiles, With, Without
  <2>4. /\ ~ Owed'
        /\ \A k \in NewData(files)' : k # key => k \in NewData(files) \ {NoId}
        /\ key \in NewData(files)' => local[key].data = NewTable.data
    BY <1>3, <2>2, <2>3 DEF Owed, NewData, KeysOf, NoId
  <2>5. NewData(local) \ {key} \subseteq S
    BY <1>1, <1>2, <1>3, <1>5, <2>1 DEF Within
  <2>6. CASE local[key].data # NewTable.data
    <3>1. NewData(files)' \subseteq NewData(files) \ {NoId}
      BY <2>4, <2>6
    <3>2. key \notin NewData(local)
      BY <2>6 DEF NewData
    <3>3. PaidFor(S)'
      BY <1>1, <1>2, <2>4, StillPaid DEF CopyInv
    <3>4. Within(S)'
      BY <1>1, <1>2, <2>1, <2>5, <3>1, <3>2 DEF Within, NewData, KeysOf, NoId
    <3> QED BY <1>2, <1>3, <3>3, <3>4 DEF CopyInv
  <2>7. CASE local[key].data = NewTable.data
    <3>1. PICK T : T = S \cup {key}
      OBVIOUS
    <3>2. IsFiniteSet(T) /\ Cardinality(T) <= Cardinality(S) + 1
          /\ Cardinality(T) \in Nat /\ Cardinality(S) \in Nat /\ NoId \notin T
      <4>1. IsFiniteSet(S) /\ NoId \notin S
        BY <1>1 DEF PaidFor
      <4>2. IsFiniteSet(T)
        BY <3>1, <4>1, FS_AddElement
      <4>3. Cardinality(T) = Cardinality(S) \/ Cardinality(T) = Cardinality(S) + 1
        BY <3>1, <4>1, FS_AddElement
      <4>4. Cardinality(T) \in Nat /\ Cardinality(S) \in Nat
        BY <4>1, <4>2, FS_CardinalityType
      <4> QED BY <2>2, <3>1, <4>1, <4>2, <4>3, <4>4
    <3>3. key \in DOMAIN local
      BY <1>2, <1>5, <2>1 DEF TreeInv, IdGiven
    <3>4. Owed
      BY <1>3, <2>1, <2>2, <2>7, <3>3 DEF Owed, NewData, KeysOf
    <3>5. PaidFor(T)'
      BY <1>1, <1>2, <2>4, <3>2, <3>4 DEF PaidFor, CopyInv, NoId
    <3>6. Within(T)'
      BY <1>1, <1>2, <2>1, <2>4, <2>5, <3>1 DEF Within, NewData, KeysOf, NoId
    <3> QED BY <1>2, <1>3, <3>5, <3>6 DEF CopyInv
  <2> QED BY <2>6, <2>7
<1> QED BY <1>4, <1>5

LEMMA SendKeepsCopies == ASSUME CopyInv, Send PROVE CopyInv'
<1>1. PICK S : PaidFor(S) /\ Within(S)
  BY DEF CopyInv
<1>2. /\ cli.at = "reserved" /\ cli'.at = "sent" /\ cli'.request = cli.request
      /\ wire' = wire \cup {cli.request} /\ UNCHANGED <<log, files, issued, spent>>
  BY DEF Send
<1>3. ~ Assigning' /\ (Owed' => Owed)
  BY <1>2 DEF Assigning, Owed, NewData, KeysOf, NoId
<1>4. PaidFor(S)'
  BY <1>1, <1>2, <1>3, StillPaid DEF CopyInv
<1>5. Within(S)'
  BY <1>1, <1>2 DEF Within, NewData, KeysOf, NoId
<1> QED BY <1>2, <1>3, <1>4, <1>5 DEF CopyInv

LEMMA PushKeepsCopies == ASSUME TreeInv, PlansAreAccepted, CopyInv, modelPush PROVE CopyInv'
<1>1. PICK S : PaidFor(S) /\ Within(S)
  BY DEF CopyInv
<1>2. PICK request \in wire : Take(request)
  BY DEF modelPush
<1>3. /\ wire' \subseteq wire /\ UNCHANGED <<files, issued, spent>>
      /\ cli' = cli \/ cli'.at \in {"committed", "conflict"}
  BY <1>2 DEF Take, Answered
<1>4. (Assigning' => Assigning) /\ (Owed' => Owed)
  <2>1. CASE cli' = cli
    BY <1>3, <2>1 DEF Assigning, Owed, Reading, NewData, KeysOf, NewKey, NoId
  <2>2. CASE cli'.at \in {"committed", "conflict"}
    BY <1>3, <2>2 DEF Assigning, Owed, NewData, KeysOf, NoId
  <2> QED BY <1>3, <2>1, <2>2
<1>5. PaidFor(S)'
  BY <1>1, <1>3, <1>4, StillPaid DEF CopyInv
<1>6. \A i \in DOMAIN log' : NewData(log'[i]) \subseteq S
  <2>1. CASE log' = log
    BY <1>1, <2>1 DEF Within
  <2>2. CASE log' # log
    <3>1. PICK m : m = Target(request, server) /\ Clean(request, server) /\ log' = Append(log, m)
      BY <1>2, <2>2, TakenFacts
    <3>2. NewData(m) \subseteq NewData(server) \cup NewData(request.local)
      BY <3>1, TargetCopies
    <3>3. NewData(server) \subseteq S /\ NewData(request.local) \subseteq S
      BY <1>1, ServerWithin DEF Within
    <3> QED BY <1>1, <3>1, <3>2, <3>3, LogWithin
  <2> QED BY <2>1, <2>2
<1>7. Within(S)'
  <2>1. CASE cli' = cli
    BY <1>1, <1>3, <1>6, <2>1 DEF Within, Reading, NewData, KeysOf, NewKey, NoId
  <2>2. CASE cli'.at \in {"committed", "conflict"}
    BY <1>1, <1>3, <1>6, <2>2 DEF Within, NewData, KeysOf, NoId
  <2> QED BY <1>3, <2>1, <2>2
<1> QED BY <1>3, <1>4, <1>5, <1>7 DEF CopyInv

(* Whatever ends a command, or begins a pull.                              *)
LEMMA ElsewhereKeepsCopies ==
  ASSUME CopyInv, UNCHANGED <<log, files, wire, issued>>, cli'.at \in {"idle", "committed"},
         spent' \in [{"theirs", "mine", "new", "runs", "cuts"} -> Nat], spent'.new = spent.new
  PROVE  CopyInv'
<1>1. PICK S : PaidFor(S) /\ Within(S)
  BY DEF CopyInv
<1>2. ~ Assigning' /\ (Owed' => Owed)
  BY DEF Assigning, Owed, NewData, KeysOf, NoId
<1>3. PaidFor(S)'
  BY <1>1, <1>2, StillPaid DEF CopyInv
<1>4. Within(S)'
  BY <1>1 DEF Within, NewData, KeysOf, NoId
<1> QED BY <1>2, <1>3, <1>4 DEF CopyInv

LEMMA WritesKeepCopies == ASSUME TreeInv, CopyInv, GetModel \/ WriteFile \/ writeBase PROVE CopyInv'
<1>1. PICK S : PaidFor(S) /\ Within(S)
  BY DEF CopyInv
<1>2. /\ cli'.at = "writing" /\ UNCHANGED <<log, wire, issued, spent>>
      /\ NewData(cli.tree)' \subseteq S
      /\ NewData(files)' \subseteq NewData(files) \cup S
  <2>1. CASE GetModel
    <3>1. cli'.at = "writing" /\ cli'.tree = fileVisibleModel(server) /\ UNCHANGED <<log, files, wire, issued, spent>>
      BY <2>1 DEF GetModel
    <3>2. NewData(fileVisibleModel(server)) \subseteq S
      BY <1>1, ServerWithin, VisibleCopies
    <3> QED BY <3>1, <3>2 DEF NewData, KeysOf
  <2>2. CASE WriteFile
    <3>1. PICK file : files' = FileWritten(cli.tree, file)
      BY <2>2 DEF WriteFile
    <3>2. /\ cli.at = "writing" /\ cli'.at = cli.at /\ cli'.tree = cli.tree
          /\ UNCHANGED <<log, wire, issued, spent>>
      BY <2>2 DEF WriteFile
    <3>3. NewData(cli.tree) \subseteq S
      BY <1>1, <3>2 DEF Within
    <3>4. NewData(files)' \subseteq NewData(files) \cup NewData(cli.tree)
      BY <3>1 DEF FileWritten, KeysIn, NewData, KeysOf
    <3> QED BY <3>2, <3>3, <3>4 DEF NewData, KeysOf
  <2>3. CASE writeBase
    <3>1. /\ cli.at = "writing" /\ cli'.at = cli.at /\ cli'.tree = cli.tree
          /\ UNCHANGED <<log, files, wire, issued, spent>>
      BY <2>3 DEF writeBase
    <3> QED BY <1>1, <3>1 DEF Within, NewData, KeysOf
  <2> QED BY <2>1, <2>2, <2>3
<1>3. ~ Assigning' /\ (Owed' => Owed)
  BY <1>1, <1>2 DEF Assigning, Owed, PaidFor, NoId
<1>4. PaidFor(S)'
  BY <1>1, <1>2, <1>3, StillPaid DEF CopyInv
<1>5. Within(S)'
  BY <1>1, <1>2 DEF Within, NewData, KeysOf, NoId
<1> QED BY <1>2, <1>3, <1>4, <1>5 DEF CopyInv

LEMMA CopiesKept ==
  ASSUME NoNewByEdit, TreeInv, PlansAreAccepted, CopyInv, [Next]_vars PROVE CopyInv'
<1>1. CASE UNCHANGED vars
  BY <1>1 DEF vars, CopyInv, PaidFor, Within, Owed, Assigning, Reading, NewData, KeysOf, NewKey, NoId
<1>2. CASE Push
  BY <1>2, SpentFacts, ReadKeepsCopies DEF Push, CopyInv
<1>3. CASE Retry
  <2>1. UNCHANGED <<log, files, wire, spent>> /\ spent \in [{"theirs", "mine", "new", "runs", "cuts"} -> Nat]
    BY <1>3 DEF Retry, CopyInv
  <2>2. CASE cli.retried
    BY <1>3, <2>1, <2>2, ElsewhereKeepsCopies DEF Retry, Idle
  <2>3. CASE ~ cli.retried
    BY <1>3, <2>1, <2>3, ReadKeepsCopies DEF Retry
  <2> QED BY <2>2, <2>3
<1>4. CASE CutShort
  <2>1. spent' \in [{"theirs", "mine", "new", "runs", "cuts"} -> Nat] /\ spent'.new = spent.new
    BY <1>4, SpentFacts DEF CutShort, CopyInv
  <2> QED BY <1>4, <2>1, ElsewhereKeepsCopies DEF CutShort, Idle
<1>5. CASE Pull
  <2>1. spent' \in [{"theirs", "mine", "new", "runs", "cuts"} -> Nat] /\ spent'.new = spent.new
    BY <1>5, SpentFacts DEF Pull, CopyInv
  <2> QED BY <1>5, <2>1, ElsewhereKeepsCopies DEF Pull
<1>6. CASE SyncEnds
  <2>1. spent' \in [{"theirs", "mine", "new", "runs", "cuts"} -> Nat] /\ spent'.new = spent.new
    BY <1>6 DEF SyncEnds, CopyInv
  <2> QED BY <1>6, <2>1, ElsewhereKeepsCopies DEF SyncEnds, Idle
<1> QED BY <1>1, <1>2, <1>3, <1>4, <1>5, <1>6, EditsKeepCopies, PlanKeepsCopies, ReserveKeepsCopies,
           SendKeepsCopies, PushKeepsCopies, WritesKeepCopies DEF Next

(* A table that was written without an id is on the server at most once,   *)
(* whatever answers were lost, requests came late and pushes were run      *)
(* again - as long as nobody else writes the same table.                   *)
THEOREM NewTablesArriveOnce ==
  ASSUME ~ WellFormed(OpApplyError), NewData(Start) = {}, NoNewByEdit
  PROVE  Spec => []NoCopies
<1>1. Init => CopyInv
  BY CopiesStart
<1>2. TreeInv /\ PlansAreAccepted /\ CopyInv /\ [Next]_vars => CopyInv'
  BY CopiesKept
<1>3. TreeInv /\ CopyInv => NoCopies
  BY CopiesCounted
<1> QED BY <1>1, <1>2, <1>3, SyncHolds, PTL DEF Spec
=============================================================================
