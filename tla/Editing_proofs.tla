---------------------------- MODULE Editing_proofs ---------------------------
(***************************************************************************)
(* Proofs about what the editor does to a model.                           *)
(*                                                                         *)
(* ModelEdits, for any models a session may start from: an edit the editor *)
(* offers is never refused, the model stays whole, and what was shown is   *)
(* what a confirmation carries out.  The inductive invariant is EditInv:   *)
(* the model is typed and integral, with ids that were given out, those a  *)
(* junction on show keeps excepted, and what was shown names such ids and  *)
(* known fields only.                                                      *)
(*                                                                         *)
(* NamePairs, for any names, dictionary, rules and bounds: what the user   *)
(* typed is stored or was changed after it, and a name set by hand stays.  *)
(* Nothing is assumed of what the dictionary makes.                        *)
(***************************************************************************)
EXTENDS ModelEdits, NamePairs, ModelOps_proofs

-----------------------------------------------------------------------------
(* Finite sets of things that have a place, in the order of their places.  *)
LEMMA HighestExists ==
  ASSUME NEW S, IsFiniteSet(S), S # {}, NEW ord, \A x \in S : ord[x] \in Int
  PROVE  \E x \in S : \A y \in S : ord[y] <= ord[x]
<1>1. PICK n \in Nat : n + 1 = Cardinality(S)
  <2>1. Cardinality(S) \in Nat /\ Cardinality(S) # 0
    BY FS_CardinalityType, FS_EmptySet
  <2>2. Cardinality(S) - 1 \in Nat /\ Cardinality(S) - 1 + 1 = Cardinality(S)
    BY <2>1
  <2> QED BY <2>2
<1> DEFINE T == {i \in 0..n : \A A \in SUBSET S : Cardinality(A) = i + 1 => \E x \in A : \A y \in A : ord[y] <= ord[x]}
<1>2. 0 \in T
  <2> SUFFICES ASSUME NEW A \in SUBSET S, Cardinality(A) = 0 + 1
               PROVE  \E x \in A : \A y \in A : ord[y] <= ord[x]
    OBVIOUS
  <2>1. IsFiniteSet(A) /\ Cardinality(A) = 1
    BY FS_Subset
  <2>2. PICK x : A = {x}
    BY <2>1, FS_Singleton
  <2>3. x \in A /\ ord[x] \in Int
    BY <2>2
  <2> QED BY <2>2, <2>3
<1>3. ASSUME NEW i \in 0..n-1, i \in T PROVE i + 1 \in T
  <2> SUFFICES ASSUME NEW A \in SUBSET S, Cardinality(A) = i + 1 + 1
               PROVE  \E x \in A : \A y \in A : ord[y] <= ord[x]
    OBVIOUS
  <2>1. IsFiniteSet(A)
    BY FS_Subset
  <2>2. PICK z : z \in A
    BY <2>1, FS_EmptySet
  <2>3. Cardinality(A \ {z}) = i + 1 /\ A \ {z} \in SUBSET S
    <3>1. Cardinality(A \ {z}) = Cardinality(A) - 1
      BY <2>1, <2>2, FS_RemoveElement
    <3> QED BY <3>1
  <2>4. PICK x \in A \ {z} : \A y \in A \ {z} : ord[y] <= ord[x]
    BY <1>3, <2>3
  <2>5. ord[x] \in Int /\ ord[z] \in Int /\ \A y \in A : ord[y] \in Int
    BY <2>2, <2>4
  <2>6. CASE ord[z] <= ord[x]
    BY <2>4, <2>5, <2>6
  <2>7. CASE ~ (ord[z] <= ord[x])
    <3>1. \A y \in A : ord[y] <= ord[z]
      BY <2>4, <2>5, <2>7
    <3> QED BY <2>2, <3>1
  <2> QED BY <2>6, <2>7
<1> HIDE DEF T
<1>4. n \in T
  BY <1>2, <1>3, UpTo
<1> QED BY <1>1, <1>4 DEF T

InPlaces(s, n, S, ord) ==
    s \in [1..n -> S] /\ \A i, j \in 1..n : i < j => s[i] # s[j] /\ ord[s[i]] <= ord[s[j]]

LEMMA SortedExists ==
  ASSUME NEW S, IsFiniteSet(S), NEW ord, \A x \in S : ord[x] \in Int
  PROVE  \E s : InPlaces(s, Cardinality(S), S, ord)
<1>1. PICK n \in Nat : n = Cardinality(S)
  BY FS_CardinalityType
<1> DEFINE T == {i \in 0..n : \A A \in SUBSET S : Cardinality(A) = i => \E s : InPlaces(s, i, A, ord)}
<1>2. 0 \in T
  <2> SUFFICES ASSUME NEW A \in SUBSET S PROVE \E s : InPlaces(s, 0, A, ord)
    OBVIOUS
  <2>1. InPlaces([i \in 1..0 |-> {}], 0, A, ord)
    BY DEF InPlaces
  <2> QED BY <2>1
<1>3. ASSUME NEW i \in 0..n-1, i \in T PROVE i + 1 \in T
  <2> SUFFICES ASSUME NEW A \in SUBSET S, Cardinality(A) = i + 1
               PROVE  \E s : InPlaces(s, i + 1, A, ord)
    OBVIOUS
  <2>1. IsFiniteSet(A)
    BY FS_Subset
  <2>2. A # {} /\ \A x \in A : ord[x] \in Int
    BY FS_EmptySet
  <2>3. PICK z \in A : \A y \in A : ord[y] <= ord[z]
    BY <2>1, <2>2, HighestExists
  <2>4. Cardinality(A \ {z}) = i /\ A \ {z} \in SUBSET S
    <3>1. Cardinality(A \ {z}) = Cardinality(A) - 1
      BY <2>1, <2>3, FS_RemoveElement
    <3> QED BY <3>1
  <2>5. PICK s : InPlaces(s, i, A \ {z}, ord)
    BY <1>3, <2>4
  <2>6. PICK t : t = [j \in 1..i+1 |-> IF j = i + 1 THEN z ELSE s[j]]
    OBVIOUS
  <2>7. t \in [1..i+1 -> A]
    BY <2>3, <2>5, <2>6 DEF InPlaces
  <2>8. ASSUME NEW j \in 1..i+1, NEW k \in 1..i+1, j < k PROVE t[j] # t[k] /\ ord[t[j]] <= ord[t[k]]
    <3>1. j \in 1..i /\ t[j] = s[j] /\ s[j] \in A \ {z}
      BY <2>5, <2>6, <2>8 DEF InPlaces
    <3>2. CASE k = i + 1
      BY <2>3, <2>6, <3>1, <3>2
    <3>3. CASE k # i + 1
      <4>1. k \in 1..i /\ t[k] = s[k]
        BY <2>6, <3>3
      <4> QED BY <2>5, <2>8, <3>1, <4>1 DEF InPlaces
    <3> QED BY <3>2, <3>3
  <2> QED BY <2>7, <2>8 DEF InPlaces
<1> HIDE DEF T
<1>4. n \in T
  BY <1>2, <1>3, UpTo
<1> QED BY <1>1, <1>4 DEF T
-----------------------------------------------------------------------------
(* Models and what is put into them.                                       *)
Below(n) == 0..n-1
Fits(e, ids) == \A k \in DOMAIN e : k = <<k[1], k[2]>> /\ k[2] \in ids /\ IsEntity(k[1], e[k])

LEMMA ModelForm ==
  ASSUME NEW m, NEW ids, WellTyped(m, ids)
  PROVE  WellFormed(m)
  BY DEF WellTyped, WellFormed, IsEntity

LEMMA ModelPair ==
  ASSUME NEW m, NEW ids, NEW p, NEW more, WellTyped(m, ids), WellTyped(p, more)
  PROVE  Comparable(m, p)
<1>1. SameFields(m, p)
  BY DEF WellTyped, SameFields, IsEntity
<1> QED BY <1>1, ModelForm DEF Comparable

LEMMA Widened ==
  ASSUME NEW m, NEW ids, NEW more, ids \subseteq more, WellTyped(m, ids)
  PROVE  WellTyped(m, more)
  BY DEF WellTyped

LEMMA Puts ==
  ASSUME NEW m, NEW ids, WellTyped(m, ids), NEW e, IsFiniteSet(DOMAIN e), Fits(e, ids), NEW p, p = Put(m, e)
  PROVE  /\ WellTyped(p, ids) /\ DOMAIN p = DOMAIN m \cup DOMAIN e
         /\ \A k \in DOMAIN p : p[k] = IF k \in DOMAIN e THEN e[k] ELSE m[k]
<1>1. /\ IsFunction(p) /\ DOMAIN p = DOMAIN m \cup DOMAIN e
      /\ \A k \in DOMAIN p : p[k] = IF k \in DOMAIN e THEN e[k] ELSE m[k]
  BY DEF Put, IsFunction
<1>2. IsFiniteSet(DOMAIN p)
  <2>1. IsFiniteSet(DOMAIN m)
    BY DEF WellTyped
  <2>2. IsFiniteSet(DOMAIN m \cup DOMAIN e)
    BY <2>1, FS_Union
  <2> QED BY <1>1, <2>2
<1> QED BY <1>1, <1>2 DEF WellTyped, Fits

LEMMA Withs ==
  ASSUME NEW m, NEW ids, WellTyped(m, ids), NEW kind, NEW i \in ids, NEW e, IsEntity(kind, e),
         NEW k, k = <<kind, i>>, NEW p, p = With(m, k, e)
  PROVE  /\ WellTyped(p, ids) /\ DOMAIN p = DOMAIN m \cup {k}
         /\ p[k] = e /\ \A l \in DOMAIN m : l # k => p[l] = m[l]
<1>1. /\ IsFunction(p) /\ DOMAIN p = DOMAIN m \cup {k}
      /\ p[k] = e /\ \A l \in DOMAIN m : l # k => p[l] = m[l]
  BY DEF With, IsFunction
<1>2. IsFiniteSet(DOMAIN p)
  BY <1>1, FS_AddElement DEF WellTyped
<1>3. k = <<k[1], k[2]>> /\ k[1] = kind /\ k[2] = i
  OBVIOUS
<1> QED BY <1>1, <1>2, <1>3 DEF WellTyped

LEMMA Drops ==
  ASSUME NEW m, NEW ids, WellTyped(m, ids), NEW K, NEW p, p = Drop(m, K)
  PROVE  WellTyped(p, ids) /\ DOMAIN p = DOMAIN m \ K /\ \A k \in DOMAIN p : p[k] = m[k]
<1>1. IsFunction(p) /\ DOMAIN p = DOMAIN m \ K /\ \A k \in DOMAIN p : p[k] = m[k]
  BY DEF Drop, IsFunction
<1>2. IsFiniteSet(DOMAIN p)
  BY <1>1, FS_Subset DEF WellTyped
<1> QED BY <1>1, <1>2 DEF WellTyped

(* useSubmit: what is put together is sent as a diff, and lands whole.     *)
LEMMA Lands ==
  ASSUME ~ WellFormed(OpApplyError), NEW ids, WellTyped(model, ids), NEW p, NEW more, WellTyped(p, more)
  PROVE  p # OpApplyError /\ Landed(p) = IF validateModelIntegrity(p) THEN p ELSE OpApplyError
<1>1. Comparable(model, p) /\ p # OpApplyError
  BY ModelPair, ModelForm
<1>2. NeverError(model, p)
  BY <1>1, MovedForm DEF NeverError
<1> QED BY <1>1, <1>2, DiffEnds DEF Landed
-----------------------------------------------------------------------------
(* Integrity, entity by entity; what an entity refers to.                  *)
Sound(m, k) ==
    /\ k[1] = "table" => HasOrNone(m, "tableGroup", m[k].groupId)
    /\ k[1] \in {"column", "index"} => Has(m, "table", m[k].tableId)
    /\ k[1] \in {"column", "term"} => HasOrNone(m, "domain", m[k].domainId)
    /\ k[1] = "relationship" =>
          /\ Has(m, "table", m[k].parentTableId) /\ Has(m, "table", m[k].childTableId)
          /\ \A x \in m[k].columnMappings :
                ColumnIn(m, x.child, m[k].childTableId) /\ ColumnIn(m, x.parent, m[k].parentTableId)
    /\ k[1] = "index" => \A c \in m[k].columns : ColumnIn(m, c, m[k].tableId)
RefersTo(m, k, r) ==
    \/ k[1] = "table" /\ m[k].groupId # None /\ r = <<"tableGroup", m[k].groupId>>
    \/ k[1] \in {"column", "index"} /\ r = <<"table", m[k].tableId>>
    \/ k[1] \in {"column", "term"} /\ m[k].domainId # None /\ r = <<"domain", m[k].domainId>>
    \/ k[1] = "relationship" /\ r \in {<<"table", m[k].parentTableId>>, <<"table", m[k].childTableId>>}
    \/ k[1] = "relationship" /\ \E x \in m[k].columnMappings : r \in {<<"column", x.child>>, <<"column", x.parent>>}
    \/ k[1] = "index" /\ \E c \in m[k].columns : r = <<"column", c>>

LEMMA Integral ==
  ASSUME NEW m
  PROVE  validateModelIntegrity(m) <=> \A k \in DOMAIN m : Sound(m, k)
<1>1. ASSUME validateModelIntegrity(m), NEW k \in DOMAIN m PROVE Sound(m, k)
  BY <1>1 DEF validateModelIntegrity, GroupRefsHold, TableRefsHold, DomainRefsHold, ColumnRefsHold, KeysOf, Sound
<1>2. ASSUME \A k \in DOMAIN m : Sound(m, k) PROVE validateModelIntegrity(m)
  <2>1. GroupRefsHold(m)
    BY <1>2 DEF GroupRefsHold, KeysOf, Sound
  <2>2. TableRefsHold(m)
    BY <1>2 DEF TableRefsHold, KeysOf, Sound
  <2>3. DomainRefsHold(m)
    BY <1>2 DEF DomainRefsHold, KeysOf, Sound
  <2>4. ColumnRefsHold(m)
    BY <1>2 DEF ColumnRefsHold, KeysOf, Sound
  <2> QED BY <2>1, <2>2, <2>3, <2>4 DEF validateModelIntegrity
<1> QED BY <1>1, <1>2

(* An entity that is as it was stays sound if what it refers to is there.  *)
Stands(m, p, r) == r \in DOMAIN p /\ (r[1] = "column" => p[r].tableId = m[r].tableId)

LEMMA ColumnStays ==
  ASSUME NEW m, NEW p, NEW c, NEW t, ColumnIn(m, c, t), Stands(m, p, <<"column", c>>)
  PROVE  ColumnIn(p, c, t)
  BY DEF ColumnIn, Has, Stands

LEMMA Stays ==
  ASSUME NEW m, NEW p, NEW k \in DOMAIN m, Sound(m, k), p[k] = m[k],
         \A r \in DOMAIN m : RefersTo(m, k, r) => Stands(m, p, r)
  PROVE  Sound(p, k)
<1>1. k[1] = "table" => HasOrNone(p, "tableGroup", p[k].groupId)
  BY DEF Sound, RefersTo, HasOrNone, Has, Stands
<1>2. k[1] \in {"column", "index"} => Has(p, "table", p[k].tableId)
  BY DEF Sound, RefersTo, Has, Stands
<1>3. k[1] \in {"column", "term"} => HasOrNone(p, "domain", p[k].domainId)
  BY DEF Sound, RefersTo, HasOrNone, Has, Stands
<1>4. k[1] = "relationship" => Has(p, "table", p[k].parentTableId) /\ Has(p, "table", p[k].childTableId)
  BY DEF Sound, RefersTo, Has, Stands
<1>5. ASSUME k[1] = "relationship", NEW x \in p[k].columnMappings
      PROVE  ColumnIn(p, x.child, p[k].childTableId) /\ ColumnIn(p, x.parent, p[k].parentTableId)
  <2>1. ColumnIn(m, x.child, m[k].childTableId) /\ ColumnIn(m, x.parent, m[k].parentTableId)
    BY <1>5 DEF Sound
  <2>2. <<"column", x.child>> \in DOMAIN m /\ <<"column", x.parent>> \in DOMAIN m
    BY <2>1 DEF ColumnIn, Has
  <2>3. RefersTo(m, k, <<"column", x.child>>) /\ RefersTo(m, k, <<"column", x.parent>>)
    BY <1>5 DEF RefersTo
  <2> QED BY <2>1, <2>2, <2>3, ColumnStays
<1>6. ASSUME k[1] = "index", NEW c \in p[k].columns PROVE ColumnIn(p, c, p[k].tableId)
  <2>1. ColumnIn(m, c, m[k].tableId)
    BY <1>6 DEF Sound
  <2>2. <<"column", c>> \in DOMAIN m /\ RefersTo(m, k, <<"column", c>>)
    BY <1>6, <2>1 DEF ColumnIn, Has, RefersTo
  <2> QED BY <2>1, <2>2, ColumnStays
<1> QED BY <1>1, <1>2, <1>3, <1>4, <1>5, <1>6 DEF Sound
-----------------------------------------------------------------------------
(* What is offered leaves a whole model: typed, its ids among the ones     *)
(* given out, integral, and with no relationship that maps nothing.        *)
Sane(m, given) == WellTyped(m, given) /\ validateModelIntegrity(m)
Whole(m, given) == WellTyped(m, given) /\ validateModelIntegrity(m) /\ Mapped(m)

LEMMA NewIsNew ==
  ASSUME NEW m, NEW given, WellTyped(m, given), NEW n, n \notin given, NEW kind
  PROVE  <<kind, n>> \notin DOMAIN m /\ n \in given \cup {n} /\ WellTyped(m, given \cup {n})
<1>1. WellTyped(m, given \cup {n})
  BY Widened
<1>2. <<kind, n>>[2] = n
  OBVIOUS
<1> QED BY <1>1, <1>2 DEF WellTyped

(* A new entity whose references are there.                                *)
LEMMA OneMore ==
  ASSUME NEW m, NEW given, Whole(m, given), NEW n, n \notin given, NEW kind, kind # "relationship", NEW e, IsEntity(kind, e),
         NEW k, k = <<kind, n>>, NEW p, p = With(m, k, e), Sound(p, k)
  PROVE  Whole(p, given \cup {n})
<1>1. k \notin DOMAIN m /\ n \in given \cup {n} /\ WellTyped(m, given \cup {n}) /\ k[1] = kind
  BY NewIsNew DEF Whole
<1>2. /\ WellTyped(p, given \cup {n}) /\ DOMAIN p = DOMAIN m \cup {k}
      /\ \A l \in DOMAIN m : p[l] = m[l]
  BY <1>1, Withs
<1>3. ASSUME NEW l \in DOMAIN m PROVE Sound(p, l)
  <2>1. \A r \in DOMAIN m : Stands(m, p, r)
    BY <1>2 DEF Stands
  <2>2. Sound(m, l) /\ p[l] = m[l]
    BY <1>2, Integral DEF Whole
  <2> QED BY <2>1, <2>2, Stays
<1>4. validateModelIntegrity(p)
  BY <1>2, <1>3, Integral
<1>5. Mapped(p)
  BY <1>1, <1>2 DEF Whole, Mapped, KeysOf
<1> QED BY <1>2, <1>4, <1>5 DEF Whole

(* Entities go that nothing else refers to.                                *)
LEMMA SaneLess ==
  ASSUME NEW m, NEW given, Sane(m, given), NEW K, NEW p, p = Drop(m, K),
         \A k \in DOMAIN m \ K : \A r \in DOMAIN m : RefersTo(m, k, r) => r \notin K
  PROVE  Sane(p, given)
<1>1. WellTyped(p, given) /\ DOMAIN p = DOMAIN m \ K /\ \A k \in DOMAIN p : p[k] = m[k]
  <2>1. WellTyped(m, given)
    BY DEF Sane
  <2> QED BY <2>1, Drops
<1>2. ASSUME NEW k \in DOMAIN p PROVE Sound(p, k)
  <2>1. k \in DOMAIN m \ K /\ p[k] = m[k] /\ Sound(m, k)
    BY <1>1, Integral DEF Sane
  <2>2. \A r \in DOMAIN m : RefersTo(m, k, r) => Stands(m, p, r)
    BY <1>1, <2>1 DEF Stands
  <2> QED BY <2>1, <2>2, Stays
<1>3. validateModelIntegrity(p)
  BY <1>2, Integral
<1> QED BY <1>1, <1>3 DEF Sane

LEMMA SomeLess ==
  ASSUME NEW m, NEW given, Whole(m, given), NEW K, NEW p, p = Drop(m, K),
         \A k \in DOMAIN m \ K : \A r \in DOMAIN m : RefersTo(m, k, r) => r \notin K
  PROVE  Whole(p, given)
<1>1. Sane(p, given)
  BY SaneLess DEF Whole, Sane
<1>2. Mapped(p)
  BY DEF Drop, Whole, Mapped, KeysOf
<1> QED BY <1>1, <1>2 DEF Whole, Sane

(* Entities change and keep the references others have to them.            *)
LEMMA SaneChanged ==
  ASSUME NEW m, NEW given, Sane(m, given), NEW p, IsFunction(p), DOMAIN p = DOMAIN m,
         \A k \in DOMAIN m : p[k] = m[k] \/ (IsEntity(k[1], p[k]) /\ Sound(p, k)),
         \A k \in KeysOf(m, "column") : p[k].tableId = m[k].tableId
  PROVE  Sane(p, given)
<1>1. WellTyped(p, given)
  <2>1. \A k \in DOMAIN p : k = <<k[1], k[2]>> /\ k[2] \in given /\ IsEntity(k[1], p[k])
    BY DEF Sane, WellTyped
  <2> QED BY <2>1 DEF Sane, WellTyped
<1>2. \A r \in DOMAIN m : Stands(m, p, r)
  BY DEF Stands, KeysOf
<1>3. ASSUME NEW k \in DOMAIN p PROVE Sound(p, k)
  <2>1. Sound(m, k)
    BY Integral DEF Sane
  <2> QED BY <1>2, <2>1, Stays
<1>4. validateModelIntegrity(p)
  BY <1>3, Integral
<1> QED BY <1>1, <1>4 DEF Sane

LEMMA SomeChanged ==
  ASSUME NEW m, NEW given, Whole(m, given), NEW p, IsFunction(p), DOMAIN p = DOMAIN m,
         \A k \in DOMAIN m : p[k] = m[k] \/ (IsEntity(k[1], p[k]) /\ Sound(p, k)),
         \A k \in KeysOf(m, "column") : p[k].tableId = m[k].tableId,
         \A k \in KeysOf(m, "relationship") : p[k].columnMappings = m[k].columnMappings \/ p[k].columnMappings # {}
  PROVE  Whole(p, given)
<1>1. Sane(p, given)
  BY SaneChanged DEF Whole, Sane
<1>2. Mapped(p)
  BY DEF Whole, Mapped, KeysOf
<1> QED BY <1>1, <1>2 DEF Whole, Sane

LEMMA FieldSet ==
  ASSUME NEW kind, NEW e, IsEntity(kind, e), NEW f, NEW v, f = "order" => v \in Int, NEW d, d = [e EXCEPT ![f] = v]
  PROVE  IsEntity(kind, d) /\ DOMAIN d = DOMAIN e /\ \A g \in DOMAIN e : d[g] = IF g = f THEN v ELSE e[g]
<1>1. DOMAIN d = DOMAIN e /\ (\A g \in DOMAIN e : d[g] = IF g = f THEN v ELSE e[g]) /\ d = [x \in DOMAIN d |-> d[x]]
  OBVIOUS
<1>2. kind = "column" => d["order"] \in Int
  <2> SUFFICES ASSUME kind = "column" PROVE d["order"] \in Int
    OBVIOUS
  <2>1. "order" \in DOMAIN e /\ e.order \in Int
    BY DEF IsEntity, FieldsOf
  <2> QED BY <1>1, <2>1
<1> QED BY <1>1, <1>2 DEF IsEntity, IsFunction

(* What is there has the fields of its kind, and what it refers to is.     *)
LEMMA Entity ==
  ASSUME NEW m, NEW given, Whole(m, given), NEW kind, NEW i \in Ids(m, kind), NEW k, k = <<kind, i>>
  PROVE  k \in DOMAIN m /\ k[1] = kind /\ IsEntity(kind, m[k]) /\ Sound(m, k)
<1>1. PICK l \in DOMAIN m : l[1] = kind /\ l[2] = i
  BY DEF Ids, KeysOf
<1>2. l = k
  BY <1>1 DEF Whole, WellTyped
<1> QED BY <1>1, <1>2, Integral DEF Whole, WellTyped

LEMMA Keyed ==
  ASSUME NEW m, NEW given, Whole(m, given), NEW k \in DOMAIN m
  PROVE  k = <<k[1], k[2]>> /\ k[2] \in Ids(m, k[1]) /\ IsEntity(k[1], m[k]) /\ Sound(m, k)
  BY Integral DEF Whole, WellTyped, Ids, KeysOf

LEMMA ColumnsFinite ==
  ASSUME NEW m, NEW given, WellTyped(m, given), NEW C, C \subseteq Ids(m, "column")
  PROVE  IsFiniteSet(C) /\ \A c \in C : <<"column", c>> \in DOMAIN m /\ Col(m, c).order \in Int
<1>1. PICK K : K = KeysOf(m, "column")
  OBVIOUS
<1>2. IsFiniteSet(K)
  BY <1>1, FS_Subset DEF KeysOf, WellTyped
<1>3. PICK f : f = [k \in K |-> k[2]]
  OBVIOUS
<1>4. f \in Surjection(K, Ids(m, "column"))
  <2>1. f \in [K -> Ids(m, "column")]
    BY <1>1, <1>3 DEF Ids
  <2>2. \A c \in Ids(m, "column") : \E k \in K : f[k] = c
    BY <1>1, <1>3 DEF Ids
  <2> QED BY <2>1, <2>2 DEF Surjection
<1>5. IsFiniteSet(Ids(m, "column"))
  BY <1>2, <1>4, FS_Surjection
<1>6. IsFiniteSet(C)
  BY <1>5, FS_Subset
<1>7. ASSUME NEW c \in C PROVE <<"column", c>> \in DOMAIN m /\ Col(m, c).order \in Int
  <2>1. PICK k \in DOMAIN m : k[1] = "column" /\ k[2] = c
    BY DEF Ids, KeysOf
  <2>2. k = <<"column", c>>
    BY <2>1 DEF WellTyped
  <2> QED BY <2>1, <2>2 DEF WellTyped, IsEntity, Col
<1> QED BY <1>6, <1>7

LEMMA NextIsPlace ==
  ASSUME NEW m, NEW given, WellTyped(m, given), NEW t
  PROVE  NextOrder(m, t) \in Int
<1>1. PICK C : C = ColumnsOf(m, t)
  OBVIOUS
<1>2. IsFiniteSet(C) /\ \A c \in C : Col(m, c).order \in Int
  BY <1>1, ColumnsFinite DEF ColumnsOf
<1>3. CASE C = {}
  BY <1>1, <1>3 DEF NextOrder
<1>4. CASE C # {}
  <2>1. PICK ord : ord = [c \in C |-> Col(m, c).order]
    OBVIOUS
  <2>2. PICK x \in C : \A y \in C : ord[y] <= ord[x]
    BY <1>2, <1>4, <2>1, HighestExists
  <2>3. PICK V : V = {Col(m, c).order : c \in C}
    OBVIOUS
  <2>4. ord[x] \in V /\ \A v \in V : v \in Int /\ ord[x] >= v
    BY <1>2, <2>1, <2>2, <2>3
  <2>5. Max(V) \in V
    BY <2>4 DEF Max
  <2> QED BY <1>1, <1>4, <2>3, <2>4, <2>5 DEF NextOrder
<1> QED BY <1>3, <1>4

LEMMA InOrderFacts ==
  ASSUME NEW m, NEW given, WellTyped(m, given), NEW C, C \subseteq Ids(m, "column"), NEW s, s = InOrder(m, C)
  PROVE  /\ Cardinality(C) \in Nat /\ s \in [1..Cardinality(C) -> C]
         /\ \A i, j \in 1..Cardinality(C) : i < j => s[i] # s[j] /\ Col(m, s[i]).order <= Col(m, s[j]).order
<1>1. IsFiniteSet(C) /\ \A c \in C : Col(m, c).order \in Int
  BY ColumnsFinite
<1>2. PICK ord : ord = [c \in C |-> Col(m, c).order]
  OBVIOUS
<1>3. PICK t : InPlaces(t, Cardinality(C), C, ord)
  BY <1>1, <1>2, SortedExists
<1>4. /\ t \in [1..Cardinality(C) -> C]
      /\ \A i, j \in DOMAIN t : i < j => t[i] # t[j] /\ Col(m, t[i]).order <= Col(m, t[j]).order
  BY <1>2, <1>3 DEF InPlaces
<1>5. /\ s \in [1..Cardinality(C) -> C]
      /\ \A i, j \in DOMAIN s : i < j => s[i] # s[j] /\ Col(m, s[i]).order <= Col(m, s[j]).order
  <2> DEFINE Q(u) == \A i, j \in DOMAIN u : i < j => u[i] # u[j] /\ Col(m, u[i]).order <= Col(m, u[j]).order
  <2>1. PICK F : F = [1..Cardinality(C) -> C]
    OBVIOUS
  <2>2. t \in F /\ Q(t)
    BY <1>4, <2>1
  <2>3. s = CHOOSE u \in F : Q(u)
    BY <2>1 DEF InOrder
  <2> HIDE DEF Q
  <2>4. s \in F /\ Q(s)
    BY <2>2, <2>3
  <2> QED BY <2>1, <2>4 DEF Q
<1>6. Cardinality(C) \in Nat /\ DOMAIN s = 1..Cardinality(C)
  BY <1>1, <1>5, FS_CardinalityType
<1> QED BY <1>5, <1>6
-----------------------------------------------------------------------------
(* The edits of tables.                                                    *)
LEMMA AddTable ==
  ASSUME NEW m, NEW given, Whole(m, given), NEW n, n \notin given
  PROVE  Whole(addTable(m, n), given \cup {n})
<1>1. PICK k, e, p : /\ k = <<"table", n>> /\ e = [groupId |-> None, name |-> SuffixOf(n)]
                     /\ p = With(m, k, e) /\ p = addTable(m, n)
  BY DEF addTable
<1>2. IsEntity("table", e)
  BY <1>1 DEF IsEntity, IsFunction, FieldsOf, ENTITY_KINDS, Range
<1>3. p[k] = e /\ k[1] = "table" /\ e.groupId = None
  BY <1>1 DEF With
<1>4. Sound(p, k)
  BY <1>3 DEF Sound, HasOrNone
<1> QED BY <1>1, <1>2, <1>4, OneMore

LEMMA AddColumn ==
  ASSUME NEW m, NEW given, Whole(m, given), NEW n, n \notin given, NEW t \in Ids(m, "table")
  PROVE  Whole(addColumn(m, t, n), given \cup {n})
<1>1. PICK k, e, p : /\ k = <<"column", n>>
                     /\ e = [tableId |-> t, domainId |-> None, isPk |-> FALSE,
                             order |-> NextOrder(m, t), name |-> SuffixOf(n)]
                     /\ p = With(m, k, e) /\ p = addColumn(m, t, n)
  BY DEF addColumn
<1>2. NextOrder(m, t) \in Int
  BY NextIsPlace DEF Whole
<1>3. IsEntity("column", e)
  BY <1>1, <1>2 DEF IsEntity, IsFunction, FieldsOf, ENTITY_KINDS, Range
<1>4. p[k] = e /\ k[1] = "column" /\ e.domainId = None /\ e.tableId = t
  BY <1>1 DEF With
<1>5. Has(p, "table", t)
  <2>1. <<"table", t>> \in DOMAIN m
    BY Entity
  <2> QED BY <1>1, <2>1 DEF With, Has
<1>6. Sound(p, k)
  BY <1>4, <1>5 DEF Sound, HasOrNone
<1> QED BY <1>1, <1>3, <1>6, OneMore

LEMMA CreateIndex ==
  ASSUME NEW m, NEW given, Whole(m, given), NEW n, n \notin given, NEW t \in Ids(m, "table"), NEW c \in ColumnsOf(m, t)
  PROVE  Whole(createIndex(m, t, n, {c}), given \cup {n})
<1>1. <<"table", t>> \in DOMAIN m /\ <<"column", c>> \in DOMAIN m /\ m[<<"column", c>>].tableId = t
  BY Entity DEF ColumnsOf, Col
<1>2. PICK k, e, p : /\ k = <<"index", n>> /\ e = [tableId |-> t, columns |-> {c}]
                     /\ p = With(m, k, e) /\ p = createIndex(m, t, n, {c})
  BY <1>1 DEF createIndex, Has
<1>3. IsEntity("index", e)
  BY <1>2 DEF IsEntity, IsFunction, FieldsOf, ENTITY_KINDS, Range
<1>4. p[k] = e /\ k[1] = "index" /\ e.columns = {c} /\ e.tableId = t
  BY <1>2 DEF With
<1>5. Has(p, "table", t) /\ ColumnIn(p, c, t)
  <2>1. <<"column", c>> # k
    BY <1>2
  <2> QED BY <1>1, <1>2, <2>1 DEF With, Has, ColumnIn
<1>6. Sound(p, k)
  BY <1>4, <1>5 DEF Sound, HasOrNone
<1> QED BY <1>2, <1>3, <1>6, OneMore

(* Nothing refers to an index or a relationship.                           *)
LEMMA EndOfReferences ==
  ASSUME NEW m, NEW k, NEW r, RefersTo(m, k, r)
  PROVE  r[1] \in {"tableGroup", "table", "domain", "column"}
  BY DEF RefersTo

LEMMA DropIndex ==
  ASSUME NEW m, NEW given, Whole(m, given), NEW i \in KeysOf(m, "index")
  PROVE  Whole(Drop(m, {i}), given)
  BY EndOfReferences, SomeLess DEF KeysOf

LEMMA DeleteRelationship ==
  ASSUME NEW m, NEW given, Whole(m, given), NEW r
  PROVE  Whole(deleteRelationship(m, r), given)
<1>1. <<"relationship", r>>[1] = "relationship"
  OBVIOUS
<1> QED BY <1>1, EndOfReferences, SomeLess DEF deleteRelationship

LEMMA DeleteTable ==
  ASSUME NEW m, NEW given, Whole(m, given), NEW t
  PROVE  Whole(deleteTableCascade(m, t), given)
<1>1. PICK K : /\ K = {<<"table", t>>} \cup Keys("column", ColumnsOf(m, t))
                      \cup {k \in KeysOf(m, "index") : m[k].tableId = t}
                      \cup {k \in KeysOf(m, "relationship") : t \in Ends(m[k])}
               /\ deleteTableCascade(m, t) = Drop(m, K)
  BY DEF deleteTableCascade
<1>2. ASSUME NEW k \in DOMAIN m \ K, NEW r \in K, RefersTo(m, k, r) PROVE FALSE
  <2>1. Sound(m, k) /\ k = <<k[1], k[2]>> /\ k[2] \in Ids(m, k[1])
    BY Keyed
  <2>2. r = <<"table", t>> \/ \E c \in ColumnsOf(m, t) : r = <<"column", c>>
    <3>1. CASE r \in KeysOf(m, "index") \cup KeysOf(m, "relationship")
      BY <1>2, <3>1, EndOfReferences DEF KeysOf
    <3>2. CASE r \in Keys("column", ColumnsOf(m, t))
      BY <3>2 DEF Keys
    <3> QED BY <1>1, <3>1, <3>2
  <2>3. k[1] = "column" => m[k].tableId # t
    <3> SUFFICES ASSUME k[1] = "column", m[k].tableId = t PROVE FALSE
      OBVIOUS
    <3>1. k[2] \in ColumnsOf(m, t) /\ k = <<"column", k[2]>>
      BY <2>1 DEF ColumnsOf, Col
    <3>2. k \in Keys("column", ColumnsOf(m, t))
      BY <3>1 DEF Keys
    <3> QED BY <1>1, <3>2
  <2>4. k[1] = "index" => m[k].tableId # t
    BY <1>1 DEF KeysOf
  <2>5. k[1] = "relationship" => m[k].parentTableId # t /\ m[k].childTableId # t
    BY <1>1 DEF KeysOf, Ends
  <2>6. r # <<"table", t>>
    BY <1>2, <2>3, <2>4, <2>5 DEF RefersTo
  <2>7. PICK c \in ColumnsOf(m, t) : r = <<"column", c>>
    BY <2>2, <2>6
  <2>8. m[<<"column", c>>].tableId = t
    BY <2>7 DEF ColumnsOf, Col
  <2>9. CASE k[1] = "relationship"
    <3>1. PICK x \in m[k].columnMappings : c = x.child \/ c = x.parent
      BY <1>2, <2>7, <2>9 DEF RefersTo
    <3> QED BY <2>1, <2>5, <2>8, <2>9, <3>1 DEF Sound, ColumnIn
  <2>10. CASE k[1] = "index"
    <3>1. c \in m[k].columns
      BY <1>2, <2>7, <2>10 DEF RefersTo
    <3> QED BY <2>1, <2>4, <2>8, <2>10, <3>1 DEF Sound, ColumnIn
  <2> QED BY <1>2, <2>7, <2>9, <2>10 DEF RefersTo
<1> QED BY <1>1, <1>2, SomeLess

LEMMA SetTableGroup ==
  ASSUME NEW m, NEW given, Whole(m, given), NEW t \in Ids(m, "table"), NEW g
  PROVE  Whole(setTableGroup(m, t, g), given)
<1>1. CASE ~ HasOrNone(m, "tableGroup", g)
  BY <1>1 DEF setTableGroup
<1>2. CASE HasOrNone(m, "tableGroup", g)
  <2>1. PICK k, e, p : k = <<"table", t>> /\ e = [m[k] EXCEPT !.groupId = g] /\ p = [m EXCEPT ![k] = e]
                       /\ p = setTableGroup(m, t, g)
    BY <1>2 DEF setTableGroup
  <2>2. k \in DOMAIN m /\ k[1] = "table" /\ IsEntity("table", m[k])
    BY <2>1, Entity
  <2>3. IsEntity("table", e) /\ e.groupId = g
    <3>1. DOMAIN m[k] = {"groupId", "name"}
      BY <2>2 DEF IsEntity, FieldsOf
    <3> QED BY <2>1, <2>2, <3>1, FieldSet
  <2>4. IsFunction(p) /\ DOMAIN p = DOMAIN m /\ p[k] = e /\ \A l \in DOMAIN m : l # k => p[l] = m[l]
    BY <2>1, <2>2 DEF IsFunction
  <2>5. Sound(p, k)
    BY <1>2, <2>2, <2>3, <2>4 DEF Sound, HasOrNone, Has
  <2>6. \A l \in DOMAIN m : p[l] = m[l] \/ (IsEntity(l[1], p[l]) /\ Sound(p, l))
    BY <2>2, <2>3, <2>4, <2>5
  <2>7. \A l \in KeysOf(m, "column") : p[l].tableId = m[l].tableId
    BY <2>2, <2>4 DEF KeysOf
  <2>8. \A l \in KeysOf(m, "relationship") : p[l] = m[l]
    BY <2>2, <2>4 DEF KeysOf
  <2> QED BY <2>1, <2>4, <2>6, <2>7, <2>8, SomeChanged
<1> QED BY <1>1, <1>2

LEMMA DeleteGroup ==
  ASSUME NEW m, NEW given, Whole(m, given), NEW g \in Ids(m, "tableGroup")
  PROVE  Whole(deleteGroup(m, g), given)
<1>1. PICK M, e, p, q : /\ M = {k \in KeysOf(m, "table") : m[k].groupId = g}
                        /\ e = [k \in M |-> [m[k] EXCEPT !.groupId = None]]
                        /\ p = Put(m, e) /\ q = Drop(p, {<<"tableGroup", g>>}) /\ q = deleteGroup(m, g)
  BY DEF deleteGroup
<1>2. /\ IsFunction(p) /\ DOMAIN p = DOMAIN m
      /\ \A k \in DOMAIN m : p[k] = IF k \in M THEN [m[k] EXCEPT !.groupId = None] ELSE m[k]
  BY <1>1 DEF Put, KeysOf, IsFunction
<1>3. ASSUME NEW k \in M PROVE IsEntity(k[1], p[k]) /\ Sound(p, k) /\ p[k].groupId = None /\ k[1] = "table"
  <2>1. k \in DOMAIN m /\ k[1] = "table" /\ IsEntity("table", m[k]) /\ "groupId" \in DOMAIN m[k]
    BY <1>1, Keyed DEF KeysOf, IsEntity, FieldsOf
  <2>2. IsEntity("table", p[k]) /\ p[k].groupId = None
    BY <1>2, <2>1, FieldSet
  <2> QED BY <2>1, <2>2 DEF Sound, HasOrNone
<1>4. Whole(p, given)
  <2>1. \A k \in KeysOf(m, "column") : p[k].tableId = m[k].tableId
    BY <1>2, <1>3 DEF KeysOf
  <2>2. \A k \in KeysOf(m, "relationship") : p[k] = m[k]
    BY <1>2, <1>3 DEF KeysOf
  <2> QED BY <1>2, <1>3, <2>1, <2>2, SomeChanged
<1>5. ASSUME NEW k \in DOMAIN p, RefersTo(p, k, <<"tableGroup", g>>) PROVE FALSE
  <2>1. k[1] = "table" /\ p[k].groupId # None /\ p[k].groupId = g
    BY <1>5 DEF RefersTo
  <2>2. k \notin M
    BY <1>3, <2>1
  <2> QED BY <1>1, <1>2, <2>1, <2>2 DEF KeysOf
<1>6. \A k \in DOMAIN p \ {<<"tableGroup", g>>} : \A r \in DOMAIN p : RefersTo(p, k, r) => r \notin {<<"tableGroup", g>>}
  BY <1>5
<1> QED BY <1>1, <1>4, <1>6, SomeLess
-----------------------------------------------------------------------------
(* The edits of columns and domains.                                       *)
LEMMA ColumnFields ==
  ASSUME NEW m, NEW given, Whole(m, given), NEW c \in Ids(m, "column"), NEW k, k = <<"column", c>>
  PROVE  /\ k \in DOMAIN m /\ k[1] = "column" /\ IsEntity("column", m[k]) /\ Sound(m, k)
         /\ DOMAIN m[k] = {"tableId", "domainId", "isPk", "order", "name"} /\ m[k].order \in Int
  BY Entity DEF IsEntity, FieldsOf

LEMMA UpdateColumn ==
  ASSUME NEW m, NEW given, Whole(m, given), NEW c \in Ids(m, "column"), NEW f \in {"isPk", "name", "domainId"}, NEW v,
         f = "domainId" => HasOrNone(m, "domain", v)
  PROVE  Whole(updateColumn(m, c, f, v), given)
<1>1. PICK k, e, p : k = <<"column", c>> /\ e = [m[k] EXCEPT ![f] = v] /\ p = [m EXCEPT ![k] = e] /\ p = updateColumn(m, c, f, v)
  BY DEF updateColumn
<1>2. /\ k \in DOMAIN m /\ k[1] = "column" /\ IsEntity("column", m[k]) /\ Sound(m, k)
      /\ DOMAIN m[k] = {"tableId", "domainId", "isPk", "order", "name"}
  BY <1>1, ColumnFields
<1>3. IsEntity("column", e) /\ e.tableId = m[k].tableId /\ e.domainId = IF f = "domainId" THEN v ELSE m[k].domainId
  <2>1. IsEntity("column", e) /\ DOMAIN e = DOMAIN m[k] /\ \A g \in DOMAIN m[k] : e[g] = IF g = f THEN v ELSE m[k][g]
    <3>1. f = "order" => v \in Int
      OBVIOUS
    <3>2. PICK old : old = m[k]
      OBVIOUS
    <3>3. IsEntity("column", old) /\ e = [old EXCEPT ![f] = v]
      BY <1>1, <1>2, <3>2
    <3> QED BY <3>1, <3>2, <3>3, FieldSet
  <2> QED BY <1>2, <2>1
<1>4. IsFunction(p) /\ DOMAIN p = DOMAIN m /\ p[k] = e /\ \A l \in DOMAIN m : l # k => p[l] = m[l]
  BY <1>1, <1>2 DEF IsFunction
<1>5. Sound(p, k)
  BY <1>2, <1>3, <1>4 DEF Sound, HasOrNone, Has
<1>6. \A l \in DOMAIN m : p[l] = m[l] \/ (IsEntity(l[1], p[l]) /\ Sound(p, l))
  BY <1>2, <1>3, <1>4, <1>5
<1>7. \A l \in KeysOf(m, "column") : p[l].tableId = m[l].tableId
  BY <1>3, <1>4 DEF KeysOf
<1>8. \A l \in KeysOf(m, "relationship") : p[l] = m[l]
  BY <1>2, <1>4 DEF KeysOf
<1> QED BY <1>1, <1>4, <1>6, <1>7, <1>8, SomeChanged

(* A column's place changes.                                               *)
LEMMA PlaceSet ==
  ASSUME NEW m, NEW given, Whole(m, given), NEW c \in Ids(m, "column"), NEW v \in Int,
         NEW p, p = [m EXCEPT ![<<"column", c>>].order = v]
  PROVE  Whole(p, given)
<1>1. PICK k, e : k = <<"column", c>> /\ e = [m[k] EXCEPT !.order = v] /\ p = [m EXCEPT ![k] = e]
  OBVIOUS
<1>2. /\ k \in DOMAIN m /\ k[1] = "column" /\ IsEntity("column", m[k]) /\ Sound(m, k)
      /\ DOMAIN m[k] = {"tableId", "domainId", "isPk", "order", "name"}
  BY <1>1, ColumnFields
<1>3. IsEntity("column", e) /\ e.tableId = m[k].tableId /\ e.domainId = m[k].domainId
  <2>1. IsEntity("column", e) /\ DOMAIN e = DOMAIN m[k] /\ \A g \in DOMAIN m[k] : e[g] = IF g = "order" THEN v ELSE m[k][g]
    BY <1>1, <1>2, FieldSet
  <2> QED BY <1>2, <2>1
<1>4. IsFunction(p) /\ DOMAIN p = DOMAIN m /\ p[k] = e /\ \A l \in DOMAIN m : l # k => p[l] = m[l]
  BY <1>1, <1>2 DEF IsFunction
<1>5. Sound(p, k)
  BY <1>2, <1>3, <1>4 DEF Sound, HasOrNone, Has
<1>6. \A l \in DOMAIN m : p[l] = m[l] \/ (IsEntity(l[1], p[l]) /\ Sound(p, l))
  BY <1>2, <1>3, <1>4, <1>5
<1>7. \A l \in KeysOf(m, "column") : p[l].tableId = m[l].tableId
  BY <1>3, <1>4 DEF KeysOf
<1>8. \A l \in KeysOf(m, "relationship") : p[l] = m[l]
  BY <1>2, <1>4 DEF KeysOf
<1> QED BY <1>4, <1>6, <1>7, <1>8, SomeChanged

LEMMA Reorder ==
  ASSUME NEW m, NEW given, Whole(m, given), NEW c \in Ids(m, "column"), NEW dir \in {-1, 1}
  PROVE  Whole(reorderColumn(m, c, dir), given)
<1>1. PICK C, s, at : /\ C = ColumnsOf(m, Col(m, c).tableId) /\ s = InOrder(m, C)
                      /\ at = CHOOSE i \in DOMAIN s : s[i] = c
  OBVIOUS
<1>2. C \subseteq Ids(m, "column") /\ s \in [1..Cardinality(C) -> C]
  <2>1. C \subseteq Ids(m, "column")
    BY <1>1 DEF ColumnsOf
  <2> QED BY <1>1, <2>1, InOrderFacts DEF Whole
<1>3. CASE at + dir \notin DOMAIN s
  BY <1>1, <1>3 DEF reorderColumn
<1>4. CASE at + dir \in DOMAIN s
  <2>1. PICK d : d = s[at + dir]
    OBVIOUS
  <2>2. d \in Ids(m, "column") /\ Col(m, c).order \in Int /\ Col(m, d).order \in Int
    BY <1>2, <1>4, <2>1, ColumnFields DEF Col
  <2>3. PICK p, q : /\ p = [m EXCEPT ![<<"column", c>>].order = Col(m, d).order]
                    /\ q = [p EXCEPT ![<<"column", d>>].order = Col(m, c).order]
    OBVIOUS
  <2>4. reorderColumn(m, c, dir) = q
    BY <1>1, <1>4, <2>1, <2>3 DEF reorderColumn
  <2>5. Whole(p, given)
    BY <2>2, <2>3, PlaceSet
  <2>6. d \in Ids(p, "column")
    BY <2>2, <2>3 DEF Ids, KeysOf
  <2>7. PICK v \in Int : v = Col(m, c).order
    BY <2>2
  <2>8. q = [p EXCEPT ![<<"column", d>>].order = v]
    BY <2>3, <2>7
  <2>9. Whole(q, given)
    BY <2>5, <2>6, <2>8, PlaceSet
  <2> QED BY <2>4, <2>9
<1> QED BY <1>3, <1>4

LEMMA RemoveDomainWhole ==
  ASSUME NEW m, NEW given, Whole(m, given), NEW d, usageOf(m, d) = {}, TermsOf(m, d) = {}
  PROVE  Whole(removeDomain(m, d), given)
<1>1. ASSUME NEW k \in DOMAIN m, RefersTo(m, k, <<"domain", d>>) PROVE FALSE
  <2>1. k[1] \in {"column", "term"} /\ m[k].domainId = d
    BY <1>1 DEF RefersTo
  <2>2. k[2] \in Ids(m, k[1]) /\ k = <<k[1], k[2]>>
    BY Keyed
  <2> QED BY <2>1, <2>2 DEF usageOf, TermsOf, KeysOf, Col
<1>2. \A k \in DOMAIN m \ {<<"domain", d>>} : \A r \in DOMAIN m : RefersTo(m, k, r) => r \notin {<<"domain", d>>}
  BY <1>1
<1>3. removeDomain(m, d) = Drop(m, {<<"domain", d>>})
  BY DEF removeDomain
<1> QED BY <1>2, <1>3, SomeLess

(* What a column's removal does to an entity that names it.                *)
LEMMA DeleteColumn ==
  ASSUME NEW m, NEW given, Whole(m, given), NEW c
  PROVE  Whole(deleteColumnCascade(m, c), given)
<1> DEFINE mapped(k) == {x \in m[k].columnMappings : c \notin {x.child, x.parent}}
           new(k) == IF k[1] = "index" THEN [m[k] EXCEPT !.columns = @ \ {c}]
                     ELSE [m[k] EXCEPT !.columnMappings = mapped(k)]
<1>1. PICK T, E, e, p : /\ T = {k \in KeysOf(m, "index") : c \in m[k].columns}
                               \cup {k \in KeysOf(m, "relationship") : mapped(k) # m[k].columnMappings}
                        /\ E = {k \in KeysOf(m, "relationship") : mapped(k) = {}}
                               \cup {k \in T : k[1] = "index" /\ m[k].columns = {c}}
                        /\ e = [k \in T |-> new(k)]
                        /\ p = Put(m, e)
  OBVIOUS
<1>2. deleteColumnCascade(m, c) = Drop(p, E \cup {<<"column", c>>})
  BY <1>1 DEF deleteColumnCascade
<1>3. /\ IsFunction(p) /\ DOMAIN p = DOMAIN m
      /\ \A k \in DOMAIN m : p[k] = IF k \in T THEN new(k) ELSE m[k]
  <2> HIDE DEF new
  <2>1. T \subseteq DOMAIN m
    BY <1>1 DEF KeysOf
  <2> QED BY <1>1, <2>1 DEF Put, IsFunction
<1>4. ASSUME NEW k \in T, k[1] = "index"
      PROVE  k \in DOMAIN m /\ IsEntity("index", p[k]) /\ p[k].columns = m[k].columns \ {c} /\ p[k].tableId = m[k].tableId
  <2>1. k \in DOMAIN m /\ IsEntity("index", m[k]) /\ DOMAIN m[k] = {"tableId", "columns"}
    BY <1>1, <1>4, Keyed DEF KeysOf, IsEntity, FieldsOf
  <2>2. p[k] = [m[k] EXCEPT !.columns = m[k].columns \ {c}]
    BY <1>3, <1>4, <2>1
  <2>3. IsEntity("index", p[k]) /\ \A g \in DOMAIN m[k] : p[k][g] = IF g = "columns" THEN m[k].columns \ {c} ELSE m[k][g]
    <3>1. "columns" = "order" => m[k].columns \ {c} \in Int
      OBVIOUS
    <3> QED BY <2>1, <2>2, <3>1, FieldSet
  <2> QED BY <2>1, <2>3
<1>5. ASSUME NEW k \in T, k[1] # "index"
      PROVE  /\ k \in DOMAIN m /\ k[1] = "relationship" /\ IsEntity("relationship", p[k]) /\ p[k].columnMappings = mapped(k)
             /\ p[k].parentTableId = m[k].parentTableId /\ p[k].childTableId = m[k].childTableId
  <2>1. /\ k \in DOMAIN m /\ k[1] = "relationship" /\ IsEntity("relationship", m[k])
        /\ DOMAIN m[k] = {"parentTableId", "childTableId", "identifying", "columnMappings"}
    BY <1>1, <1>5, Keyed DEF KeysOf, IsEntity, FieldsOf
  <2>2. p[k] = [m[k] EXCEPT !.columnMappings = mapped(k)]
    BY <1>3, <1>5, <2>1
  <2> HIDE DEF mapped
  <2>3. IsEntity("relationship", p[k]) /\ \A g \in DOMAIN m[k] : p[k][g] = IF g = "columnMappings" THEN mapped(k) ELSE m[k][g]
    <3>1. "columnMappings" = "order" => mapped(k) \in Int
      OBVIOUS
    <3> QED BY <2>1, <2>2, <3>1, FieldSet
  <2> QED BY <2>1, <2>3
<1>6. \A l \in KeysOf(m, "column") : p[l] = m[l]
  BY <1>1, <1>3 DEF KeysOf
<1>7. ASSUME NEW k \in T PROVE IsEntity(k[1], p[k]) /\ Sound(p, k)
  <2>1. \A i, t : ColumnIn(m, i, t) => ColumnIn(p, i, t)
    BY <1>3, <1>6 DEF ColumnIn, Has, KeysOf
  <2>2. \A i : Has(m, "table", i) => Has(p, "table", i)
    BY <1>3 DEF Has
  <2>3. CASE k[1] = "index"
    <3>1. Sound(m, k)
      BY <1>4, <2>3, Keyed
    <3> QED BY <1>4, <2>1, <2>2, <2>3, <3>1 DEF Sound
  <2>4. CASE k[1] # "index"
    <3>1. Sound(m, k) /\ mapped(k) \subseteq m[k].columnMappings
      BY <1>5, <2>4, Keyed
    <3> HIDE DEF mapped
    <3> QED BY <1>5, <2>1, <2>2, <2>4, <3>1 DEF Sound
  <2> QED BY <2>3, <2>4
<1>8. Sane(p, given)
  BY <1>3, <1>6, <1>7, SaneChanged DEF Whole, Sane
<1>9. ASSUME NEW k \in DOMAIN p PROVE ~ RefersTo(p, k, <<"column", c>>)
  <2>1. CASE k[1] = "index"
    <3>1. c \notin p[k].columns
      BY <1>1, <1>3, <1>4, <2>1 DEF KeysOf
    <3> QED BY <2>1, <3>1 DEF RefersTo
  <2>2. CASE k[1] = "relationship"
    <3>1. p[k].columnMappings = mapped(k)
      BY <1>1, <1>3, <1>5, <2>2 DEF KeysOf
    <3> QED BY <2>2, <3>1 DEF RefersTo
  <2>3. CASE k[1] \notin {"index", "relationship"}
    BY <2>3 DEF RefersTo
  <2> QED BY <2>1, <2>2, <2>3
<1>10. ASSUME NEW k \in DOMAIN p, NEW r \in E \cup {<<"column", c>>} PROVE ~ RefersTo(p, k, r)
  <2>1. CASE r \in E
    BY <1>1, <2>1, EndOfReferences DEF KeysOf
  <2> QED BY <1>9, <2>1
<1>11. \A k \in DOMAIN p \ (E \cup {<<"column", c>>}) : \A r \in DOMAIN p : RefersTo(p, k, r) => r \notin E \cup {<<"column", c>>}
  BY <1>10
<1>12. Sane(deleteColumnCascade(m, c), given)
  BY <1>2, <1>8, <1>11, SaneLess
<1>13. Mapped(deleteColumnCascade(m, c))
  <2>1. ASSUME NEW k \in DOMAIN m \ E, k[1] = "relationship" PROVE p[k].columnMappings # {}
    <3>1. p[k].columnMappings = mapped(k) \/ (k \notin T /\ p[k] = m[k])
      BY <1>3, <1>5, <2>1
    <3>2. mapped(k) # {} /\ (k \notin T => mapped(k) = m[k].columnMappings)
      BY <1>1, <2>1 DEF KeysOf
    <3> QED BY <3>1, <3>2
  <2> QED BY <1>2, <1>3, <2>1 DEF Drop, Mapped, KeysOf
<1> QED BY <1>12, <1>13 DEF Sane, Whole
-----------------------------------------------------------------------------
(* The edits of relationships.                                             *)
LEMMA RelationshipFields ==
  ASSUME NEW m, NEW given, Whole(m, given), NEW r, NEW k, k = <<"relationship", r>>, k \in DOMAIN m
  PROVE  /\ k[1] = "relationship" /\ IsEntity("relationship", m[k]) /\ Sound(m, k)
         /\ DOMAIN m[k] = {"parentTableId", "childTableId", "identifying", "columnMappings"}
  BY Keyed DEF IsEntity, FieldsOf

(* Columns become part of their tables' keys, or no part of them.          *)
KeysSetTo(m, C, v) == [k \in Keys("column", C) |-> [m[k] EXCEPT !.isPk = v]]

LEMMA KeysSet ==
  ASSUME NEW m, NEW given, Whole(m, given), NEW C, C \subseteq Ids(m, "column"), NEW v,
         NEW p, p = Put(m, KeysSetTo(m, C, v))
  PROVE  /\ Whole(p, given) /\ DOMAIN p = DOMAIN m
         /\ \A k \in DOMAIN m : k[1] # "column" => p[k] = m[k]
<1>1. PICK e : e = [k \in Keys("column", C) |-> [m[k] EXCEPT !.isPk = v]] /\ p = Put(m, e)
  BY DEF KeysSetTo
<1>2. ASSUME NEW k \in Keys("column", C)
      PROVE  /\ k \in DOMAIN m /\ k[1] = "column" /\ IsEntity("column", e[k]) /\ Sound(m, k)
             /\ e[k].tableId = m[k].tableId /\ e[k].domainId = m[k].domainId
  <2>1. PICK c \in C : k = <<"column", c>>
    BY DEF Keys
  <2>2. /\ k \in DOMAIN m /\ k[1] = "column" /\ IsEntity("column", m[k]) /\ Sound(m, k)
        /\ DOMAIN m[k] = {"tableId", "domainId", "isPk", "order", "name"}
    BY <2>1, ColumnFields
  <2>3. PICK old, new : old = m[k] /\ new = e[k]
    OBVIOUS
  <2>4. IsEntity("column", old) /\ new = [old EXCEPT !["isPk"] = v] /\ ("isPk" = "order" => v \in Int)
    BY <1>1, <2>2, <2>3
  <2>5. IsEntity("column", new) /\ \A g \in DOMAIN old : new[g] = IF g = "isPk" THEN v ELSE old[g]
    BY <2>4, FieldSet
  <2> QED BY <2>2, <2>3, <2>5
<1>3. DOMAIN e = Keys("column", C) /\ DOMAIN e \subseteq DOMAIN m
  BY <1>1, <1>2
<1>4. IsFunction(p) /\ DOMAIN p = DOMAIN m /\ \A k \in DOMAIN m : p[k] = IF k \in DOMAIN e THEN e[k] ELSE m[k]
  BY <1>1, <1>3 DEF Put, IsFunction
<1>5. ASSUME NEW k \in DOMAIN e PROVE IsEntity(k[1], p[k]) /\ Sound(p, k)
  <2>1. p[k] = e[k] /\ k \in DOMAIN m
    BY <1>3, <1>4
  <2> QED BY <1>2, <1>3, <1>4, <2>1 DEF Sound, HasOrNone, Has
<1>6. \A k \in DOMAIN m : p[k] = m[k] \/ (IsEntity(k[1], p[k]) /\ Sound(p, k))
  BY <1>4, <1>5
<1>7. \A k \in KeysOf(m, "column") : p[k].tableId = m[k].tableId
  BY <1>2, <1>3, <1>4 DEF KeysOf
<1>8. \A k \in DOMAIN m : k[1] # "column" => p[k] = m[k]
  BY <1>2, <1>3, <1>4
<1>9. \A k \in KeysOf(m, "relationship") : p[k] = m[k]
  BY <1>8 DEF KeysOf
<1> QED BY <1>4, <1>6, <1>7, <1>8, <1>9, SomeChanged

LEMMA ChildrenThere ==
  ASSUME NEW m, NEW given, Whole(m, given), NEW r, NEW k, k = <<"relationship", r>>, k \in DOMAIN m
  PROVE  ChildColumns(Rel(m, r)) \subseteq Ids(m, "column")
<1>1. ASSUME NEW x \in m[k].columnMappings PROVE x.child \in Ids(m, "column")
  <2>1. ColumnIn(m, x.child, m[k].childTableId)
    BY RelationshipFields DEF Sound
  <2>2. PICK l : l = <<"column", x.child>>
    OBVIOUS
  <2>3. l \in DOMAIN m /\ l[1] = "column" /\ l[2] = x.child
    BY <2>1, <2>2 DEF ColumnIn, Has
  <2> QED BY <2>3 DEF Ids, KeysOf
<1> QED BY <1>1 DEF ChildColumns, Rel

LEMMA SetIdentifying ==
  ASSUME NEW m, NEW given, Whole(m, given), NEW r \in Ids(m, "relationship"), NEW v
  PROVE  Whole(setRelationshipIdentifying(m, r, v), given)
<1>1. PICK k : k = <<"relationship", r>>
  OBVIOUS
<1>2. k \in DOMAIN m
  BY <1>1, Entity
<1>3. PICK p, q : /\ p = Put(m, KeysSetTo(m, ChildColumns(Rel(m, r)), v))
                  /\ q = [p EXCEPT ![k].identifying = v] /\ q = setRelationshipIdentifying(m, r, v)
  BY <1>1, <1>2 DEF setRelationshipIdentifying, KeysSetTo
<1>4. Whole(p, given) /\ DOMAIN p = DOMAIN m
  <2>1. ChildColumns(Rel(m, r)) \subseteq Ids(m, "column")
    BY <1>1, <1>2, ChildrenThere
  <2> QED BY <1>3, <2>1, KeysSet
<1>5. /\ k[1] = "relationship" /\ IsEntity("relationship", p[k]) /\ Sound(p, k)
      /\ DOMAIN p[k] = {"parentTableId", "childTableId", "identifying", "columnMappings"}
  BY <1>1, <1>2, <1>4, RelationshipFields
<1>6. PICK old, e : old = p[k] /\ e = [old EXCEPT !["identifying"] = v]
  OBVIOUS
<1>7. IsEntity("relationship", e) /\ \A g \in DOMAIN old : e[g] = IF g = "identifying" THEN v ELSE old[g]
  <2>1. IsEntity("relationship", old) /\ ("identifying" = "order" => v \in Int)
    BY <1>5, <1>6
  <2> QED BY <1>6, <2>1, FieldSet
<1>8. IsFunction(q) /\ DOMAIN q = DOMAIN p /\ q[k] = e /\ \A l \in DOMAIN p : l # k => q[l] = p[l]
  BY <1>2, <1>3, <1>4, <1>6 DEF IsFunction
<1>9. Sound(q, k)
  <2>1. \A i, t : ColumnIn(p, i, t) => ColumnIn(q, i, t)
    <3> SUFFICES ASSUME NEW i, NEW t, ColumnIn(p, i, t) PROVE ColumnIn(q, i, t)
      OBVIOUS
    <3>1. <<"column", i>> # k
      BY <1>1
    <3> QED BY <1>8, <3>1 DEF ColumnIn, Has
  <2>2. /\ q[k].columnMappings = p[k].columnMappings
        /\ q[k].parentTableId = p[k].parentTableId /\ q[k].childTableId = p[k].childTableId
    BY <1>5, <1>6, <1>7, <1>8
  <2> QED BY <1>5, <1>8, <2>1, <2>2 DEF Sound, Has
<1>10. \A l \in DOMAIN p : q[l] = p[l] \/ (IsEntity(l[1], q[l]) /\ Sound(q, l))
  BY <1>5, <1>7, <1>8, <1>9
<1>11. \A l \in KeysOf(p, "column") : q[l].tableId = p[l].tableId
  BY <1>5, <1>8 DEF KeysOf
<1>12. \A l \in KeysOf(p, "relationship") : q[l].columnMappings = p[l].columnMappings
  BY <1>5, <1>6, <1>7, <1>8 DEF KeysOf
<1> QED BY <1>3, <1>4, <1>8, <1>10, <1>11, <1>12, SomeChanged

(* The column that was mapped before goes only if nothing refers to it.    *)
LEMMA UnneededGoes ==
  ASSUME NEW m, NEW given, Whole(m, given), NEW c
  PROVE  Whole(Drop(m, Unneeded(m, c)), given)
<1>1. CASE MappedOrIndexed(m, c)
  BY <1>1, SomeLess DEF Unneeded
<1>2. CASE ~ MappedOrIndexed(m, c)
  <2>1. ASSUME NEW k \in DOMAIN m, RefersTo(m, k, <<"column", c>>) PROVE FALSE
    <3>1. k = <<k[1], k[2]>> /\ k[2] \in Ids(m, k[1])
      BY Keyed
    <3>2. \/ k[1] = "relationship" /\ \E x \in m[k].columnMappings : c \in {x.child, x.parent}
          \/ k[1] = "index" /\ c \in m[k].columns
      BY <2>1 DEF RefersTo
    <3> QED BY <1>2, <3>1, <3>2 DEF MappedOrIndexed, Rel, KeysOf
  <2>2. \A k \in DOMAIN m \ {<<"column", c>>} : \A r \in DOMAIN m : RefersTo(m, k, r) => r \notin {<<"column", c>>}
    BY <2>1
  <2> QED BY <1>2, <2>2, SomeLess DEF Unneeded
<1> QED BY <1>1, <1>2

LEMMA Remap ==
  ASSUME NEW m, NEW given, Whole(m, given), NEW r \in Ids(m, "relationship"), NEW x \in Rel(m, r).columnMappings,
         NEW c \in ColumnsOf(m, Rel(m, r).childTableId)
  PROVE  Whole(remapRelationshipChildColumn(m, r, x.parent, c), given)
<1>1. PICK k, l, rel, old, was : /\ k = <<"relationship", r>> /\ l = <<"column", c>> /\ rel = m[k]
                                 /\ old = {y \in rel.columnMappings : y.parent = x.parent}
                                 /\ was = (CHOOSE y \in old : TRUE).child
  OBVIOUS
<1>2. k \in DOMAIN m /\ k # l /\ Rel(m, r) = rel /\ c \in Ids(m, "column")
  BY <1>1, Entity DEF Rel, ColumnsOf
<1>3. /\ k[1] = "relationship" /\ IsEntity("relationship", rel) /\ Sound(m, k)
      /\ DOMAIN rel = {"parentTableId", "childTableId", "identifying", "columnMappings"}
  BY <1>1, <1>2, RelationshipFields
<1>4. PICK M, pair, d, e, p :
          /\ pair = [child |-> c, parent |-> x.parent] /\ M = (rel.columnMappings \ old) \cup {pair}
          /\ d = [m[l] EXCEPT !.isPk = rel.identifying] /\ e = [rel EXCEPT !.columnMappings = M]
          /\ p = [m EXCEPT ![l] = d, ![k] = e]
  OBVIOUS
<1>5. old # {} /\ c \in ColumnsOf(m, rel.childTableId)
  BY <1>1, <1>2
<1>6. remapRelationshipChildColumn(m, r, x.parent, c) = IF was = c THEN m ELSE Drop(p, Unneeded(p, was))
  BY <1>1, <1>2, <1>4, <1>5 DEF remapRelationshipChildColumn
<1>7. l \in DOMAIN m /\ l[1] = "column" /\ IsEntity("column", m[l]) /\ Sound(m, l)
      /\ DOMAIN m[l] = {"tableId", "domainId", "isPk", "order", "name"} /\ m[l].tableId = rel.childTableId
  <2>1. l \in DOMAIN m /\ l[1] = "column" /\ IsEntity("column", m[l]) /\ Sound(m, l)
        /\ DOMAIN m[l] = {"tableId", "domainId", "isPk", "order", "name"}
    BY <1>1, <1>2, ColumnFields
  <2> QED BY <1>1, <1>5, <2>1 DEF ColumnsOf, Col
<1>8. IsEntity("column", d) /\ d.tableId = m[l].tableId /\ d.domainId = m[l].domainId
  <2>1. PICK o, v : o = m[l] /\ v = rel.identifying
    OBVIOUS
  <2>2. IsEntity("column", o) /\ d = [o EXCEPT !["isPk"] = v] /\ ("isPk" = "order" => v \in Int)
    BY <1>4, <1>7, <2>1
  <2>3. IsEntity("column", d) /\ \A g \in DOMAIN o : d[g] = IF g = "isPk" THEN v ELSE o[g]
    BY <2>2, FieldSet
  <2> QED BY <1>7, <2>1, <2>3
<1>9. /\ IsEntity("relationship", e) /\ e.columnMappings = M
      /\ e.parentTableId = rel.parentTableId /\ e.childTableId = rel.childTableId
  <2>1. e = [rel EXCEPT !["columnMappings"] = M] /\ ("columnMappings" = "order" => M \in Int)
    BY <1>4
  <2>2. IsEntity("relationship", e) /\ \A g \in DOMAIN rel : e[g] = IF g = "columnMappings" THEN M ELSE rel[g]
    BY <1>3, <2>1, FieldSet
  <2> QED BY <1>3, <2>2
<1>10. /\ IsFunction(p) /\ DOMAIN p = DOMAIN m /\ p[l] = d /\ p[k] = e
       /\ \A i \in DOMAIN m : i \notin {k, l} => p[i] = m[i]
  BY <1>2, <1>4, <1>7 DEF IsFunction
<1>11. \A i, t : ColumnIn(m, i, t) => ColumnIn(p, i, t)
  <2> SUFFICES ASSUME NEW i, NEW t, ColumnIn(m, i, t) PROVE ColumnIn(p, i, t)
    OBVIOUS
  <2>1. <<"column", i>> # k
    BY <1>1
  <2> QED BY <1>8, <1>10, <2>1 DEF ColumnIn, Has
<1>12. Sound(p, l)
  BY <1>7, <1>8, <1>10 DEF Sound, HasOrNone, Has
<1>13. Sound(p, k)
  <2>1. \A y \in rel.columnMappings : ColumnIn(m, y.child, rel.childTableId) /\ ColumnIn(m, y.parent, rel.parentTableId)
    BY <1>1, <1>3 DEF Sound
  <2>2. pair.child = c /\ pair.parent = x.parent /\ ColumnIn(m, c, rel.childTableId)
    BY <1>1, <1>4, <1>7 DEF ColumnIn, Has
  <2>3. \A y \in M : ColumnIn(p, y.child, rel.childTableId) /\ ColumnIn(p, y.parent, rel.parentTableId)
    BY <1>2, <1>4, <1>11, <2>1, <2>2
  <2>4. Has(p, "table", rel.parentTableId) /\ Has(p, "table", rel.childTableId)
    BY <1>1, <1>3, <1>10 DEF Sound, Has
  <2> QED BY <1>3, <1>9, <1>10, <2>3, <2>4 DEF Sound
<1>14. Whole(p, given)
  <2>1. \A i \in DOMAIN m : p[i] = m[i] \/ (IsEntity(i[1], p[i]) /\ Sound(p, i))
    BY <1>3, <1>7, <1>8, <1>9, <1>10, <1>12, <1>13
  <2>2. \A i \in KeysOf(m, "column") : p[i].tableId = m[i].tableId
    BY <1>3, <1>8, <1>10 DEF KeysOf
  <2>3. \A i \in KeysOf(m, "relationship") : p[i] = m[i] \/ p[i].columnMappings # {}
    BY <1>4, <1>7, <1>9, <1>10 DEF KeysOf
  <2> QED BY <1>10, <2>1, <2>2, <2>3, SomeChanged
<1> QED BY <1>6, <1>14, UnneededGoes
-----------------------------------------------------------------------------
(* What a plan makes of a model that may have changed since it was shown:  *)
(* an error, or a model whose entities are typed.  Whether it is integral  *)
(* is for applyOps to say.                                                 *)
IdList(ids, given) ==
    /\ Len(ids) \in Nat /\ DOMAIN ids = 1..Len(ids)
    /\ \A i \in 1..Len(ids) : ids[i] \in given
    /\ \A i, j \in 1..Len(ids) : ids[i] = ids[j] => i = j
Planned(p, given) == p = OpApplyError \/ (WellTyped(p, given) /\ Mapped(p))

Listed(kind, ids, D) == {<<kind, ids[i]>> : i \in D}

LEMMA ListedFinite ==
  ASSUME NEW n \in Nat, NEW kind, NEW ids
  PROVE  IsFiniteSet(Listed(kind, ids, 1..n))
<1>1. PICK D, S, f : D = 1..n /\ S = {<<kind, ids[i]>> : i \in D} /\ f = [i \in D |-> <<kind, ids[i]>>]
  OBVIOUS
<1>2. f \in Surjection(D, S)
  <2>1. f \in [D -> S] /\ \A s \in S : \E i \in D : f[i] = s
    BY <1>1
  <2> QED BY <2>1 DEF Surjection
<1>3. IsFiniteSet(D)
  BY <1>1, FS_Interval
<1>4. IsFiniteSet(S)
  BY <1>2, <1>3, FS_Surjection
<1> QED BY <1>1, <1>4 DEF Listed

(* A foreign key: n new columns of child for the parent's columns.         *)
Mappings(ids, pks, n) == {[child |-> ids[i], parent |-> pks[i]] : i \in 1..n}
NewRelationship(parent, child, identifying, mappings) ==
    [parentTableId |-> parent, childTableId |-> child, identifying |-> identifying, columnMappings |-> mappings]
Relates(p, m, n, pks, parent, child, id, ids, identifying) ==
    /\ DOMAIN p = DOMAIN m \cup Listed("column", ids, 1..n) \cup {<<"relationship", id>>}
    /\ p[<<"relationship", id>>] = NewRelationship(parent, child, identifying, Mappings(ids, pks, n))
    /\ \A k \in Listed("column", ids, 1..n) : p[k].tableId = child /\ p[k].isPk = identifying
    /\ \A k \in DOMAIN m : k \in Listed("column", ids, 1..n) \cup {<<"relationship", id>>} \/ p[k] = m[k]

LEMMA RelatedFacts ==
  ASSUME NEW m, NEW given, WellTyped(m, given), NEW id \in given, NEW ids, IdList(ids, given),
         NEW parent, NEW child, NEW identifying, NEW n \in Nat, n <= Len(ids), NEW pks, DOMAIN pks = 1..n,
         NEW p, p = Related(m, pks, parent, child, id, ids, identifying)
  PROVE  WellTyped(p, given) /\ Relates(p, m, n, pks, parent, child, id, ids, identifying)
<1>1. PICK col : col = [k \in {<<"column", ids[i]>> : i \in DOMAIN pks} |->
            LET i == CHOOSE i \in DOMAIN pks : ids[i] = k[2]
                used == NamesIn(m, ColumnsOf(m, child) \cup {pks[j] : j \in 1..(i-1)})
            IN  [tableId |-> child, domainId |-> None, isPk |-> identifying,
                 order |-> NextOrder(m, child) + i - 1, name |-> UniqueName(Col(m, pks[i]).name, used, ids[i])]]
  OBVIOUS
<1>2. PICK rel, k0, q : /\ rel = NewRelationship(parent, child, identifying, Mappings(ids, pks, n))
                        /\ k0 = <<"relationship", id>> /\ q = Put(m, col)
  OBVIOUS
<1>3. p = With(q, k0, rel)
  BY <1>1, <1>2 DEF Related, NewRelationship, Mappings
<1>4. DOMAIN col = Listed("column", ids, 1..n)
  BY <1>1 DEF Listed
<1>5. IsFiniteSet(DOMAIN col)
  BY <1>4, ListedFinite
<1>6. ASSUME NEW k \in DOMAIN col
      PROVE  /\ k = <<k[1], k[2]>> /\ k[1] = "column" /\ k[2] \in given /\ IsEntity(k[1], col[k])
             /\ col[k].tableId = child /\ col[k].isPk = identifying
  <2>1. PICK j \in 1..n : k = <<"column", ids[j]>>
    BY <1>4, <1>6 DEF Listed
  <2>2. k = <<k[1], k[2]>> /\ k[1] = "column" /\ k[2] = ids[j] /\ ids[j] \in given
    BY <2>1 DEF IdList
  <2>3. PICK i : i = CHOOSE y \in DOMAIN pks : ids[y] = k[2]
    OBVIOUS
  <2>4. i \in Int
    BY <2>2, <2>3
  <2>5. PICK used, place : /\ used = NamesIn(m, ColumnsOf(m, child) \cup {pks[x] : x \in 1..(i-1)})
                           /\ place = NextOrder(m, child) + i - 1
    OBVIOUS
  <2>6. PICK name : name = UniqueName(Col(m, pks[i]).name, used, ids[i])
    OBVIOUS
  <2>7. col[k] = [tableId |-> child, domainId |-> None, isPk |-> identifying, order |-> place, name |-> name]
    BY <1>1, <2>3, <2>5, <2>6
  <2>8. place \in Int
    BY <2>4, <2>5, NextIsPlace
  <2>9. IsEntity("column", col[k])
    BY <2>7, <2>8 DEF IsEntity, IsFunction, FieldsOf, ENTITY_KINDS, Range
  <2> QED BY <2>2, <2>7, <2>9
<1>7. /\ WellTyped(q, given) /\ DOMAIN q = DOMAIN m \cup DOMAIN col
      /\ \A k \in DOMAIN q : q[k] = IF k \in DOMAIN col THEN col[k] ELSE m[k]
  <2>1. Fits(col, given)
    BY <1>6 DEF Fits
  <2>2. q = Put(m, col)
    BY <1>2
  <2>3. WellTyped(q, given)
    BY <1>5, <2>1, <2>2, Puts
  <2> QED BY <2>2, <2>3 DEF Put
<1>8. IsEntity("relationship", rel)
  BY <1>2 DEF NewRelationship, IsEntity, IsFunction, FieldsOf, ENTITY_KINDS, Range
<1>9. /\ WellTyped(p, given) /\ DOMAIN p = DOMAIN q \cup {k0}
      /\ p[k0] = rel /\ \A l \in DOMAIN q : l # k0 => p[l] = q[l]
  <2>1. /\ IsFunction(p) /\ DOMAIN p = DOMAIN q \cup {k0}
        /\ p[k0] = rel /\ \A l \in DOMAIN q : l # k0 => p[l] = q[l]
    BY <1>3 DEF With, IsFunction
  <2>2. WellTyped(p, given)
    <3>1. IsFiniteSet(DOMAIN p)
      <4>1. PICK D : D = DOMAIN q
        OBVIOUS
      <4>2. IsFiniteSet(D)
        BY <1>7, <4>1 DEF WellTyped
      <4>3. IsFiniteSet(D \cup {k0})
        BY <4>2, FS_AddElement
      <4> QED BY <2>1, <4>1, <4>3
    <3>2. k0 = <<k0[1], k0[2]>> /\ k0[1] = "relationship" /\ k0[2] = id
      BY <1>2
    <3>3. \A l \in DOMAIN p : l = <<l[1], l[2]>> /\ l[2] \in given /\ IsEntity(l[1], p[l])
      BY <1>7, <1>8, <2>1, <3>2 DEF WellTyped
    <3> QED BY <2>1, <3>1, <3>3 DEF WellTyped
  <2> QED BY <2>1, <2>2
<1>10. \A k \in DOMAIN col : k # k0 /\ p[k] = col[k]
  BY <1>2, <1>6, <1>7, <1>9
<1>11. Relates(p, m, n, pks, parent, child, id, ids, identifying)
  <2>1. DOMAIN p = DOMAIN m \cup Listed("column", ids, 1..n) \cup {k0}
    BY <1>4, <1>7, <1>9
  <2>2. \A k \in DOMAIN col : p[k].tableId = child /\ p[k].isPk = identifying
    BY <1>6, <1>10
  <2>3. \A k \in DOMAIN m : k \in DOMAIN col \cup {k0} \/ p[k] = m[k]
    BY <1>7, <1>9
  <2> QED BY <1>2, <1>4, <1>9, <2>1, <2>2, <2>3 DEF Relates
<1> QED BY <1>9, <1>11

(* createRelationshipFromParentPk: nothing, an error, or a foreign key to  *)
(* the whole key of the parent.                                            *)
LEMMA Creating ==
  ASSUME NEW m, NEW given, WellTyped(m, given), NEW id \in given, NEW ids, IdList(ids, given),
         NEW parent, NEW child, NEW identifying,
         NEW C, C = PkColumns(m, parent), NEW pks, pks = InOrder(m, C),
         NEW p, p = createRelationshipFromParentPk(m, parent, child, id, ids, identifying)
  PROVE  /\ Cardinality(C) \in Nat /\ pks \in [1..Cardinality(C) -> C]
         /\ \/ p = m /\ (~ {parent, child} \subseteq Ids(m, "table") \/ C = {})
            \/ p = OpApplyError
            \/ /\ C # {} /\ WellTyped(p, given) /\ Cardinality(C) <= Len(ids)
               /\ Relates(p, m, Cardinality(C), pks, parent, child, id, ids, identifying)
<1>1. PICK n : n = Cardinality(C)
  OBVIOUS
<1>2. C \subseteq Ids(m, "column") /\ IsFiniteSet(C)
  <2>1. C \subseteq Ids(m, "column")
    BY DEF PkColumns, ColumnsOf
  <2> QED BY <2>1, ColumnsFinite
<1>3. n \in Nat /\ pks \in [1..n -> C]
  BY <1>1, <1>2, InOrderFacts
<1>4. DOMAIN pks = 1..n /\ Len(pks) = n
  BY <1>3
<1>5. pks = << >> <=> C = {}
  <2>1. C = {} <=> n = 0
    BY <1>1, <1>2, FS_EmptySet
  <2>2. pks = << >> <=> n = 0
    BY <1>3, <1>4
  <2> QED BY <2>1, <2>2
<1>6. CASE ~ {parent, child} \subseteq Ids(m, "table") \/ C = {}
  BY <1>1, <1>3, <1>5, <1>6 DEF createRelationshipFromParentPk
<1>7. CASE {parent, child} \subseteq Ids(m, "table") /\ C # {}
  <2>1. p = IF Len(ids) < Len(pks) THEN OpApplyError ELSE Related(m, pks, parent, child, id, ids, identifying)
    BY <1>5, <1>7 DEF createRelationshipFromParentPk
  <2>2. CASE Len(ids) < Len(pks)
    BY <1>1, <1>3, <2>1, <2>2
  <2>3. CASE ~ (Len(ids) < Len(pks))
    <3>1. n <= Len(ids)
      BY <1>3, <1>4, <2>3 DEF IdList
    <3>2. WellTyped(p, given) /\ Relates(p, m, n, pks, parent, child, id, ids, identifying)
      BY <1>3, <1>4, <2>1, <2>3, <3>1, RelatedFacts
    <3> QED BY <1>1, <1>3, <1>7, <3>1, <3>2
  <2> QED BY <2>2, <2>3
<1> QED BY <1>6, <1>7

LEMMA CreatingPlanned ==
  ASSUME NEW m, NEW given, WellTyped(m, given), Mapped(m), NEW id \in given, NEW ids, IdList(ids, given),
         NEW parent, NEW child, NEW identifying,
         NEW p, p = createRelationshipFromParentPk(m, parent, child, id, ids, identifying)
  PROVE  Planned(p, given)
<1>1. PICK C, pks : C = PkColumns(m, parent) /\ pks = InOrder(m, C)
  OBVIOUS
<1>2. PICK n \in Nat : n = Cardinality(C) /\ pks \in [1..n -> C]
  BY <1>1, Creating
<1>3. CASE p = m \/ p = OpApplyError
  BY <1>3 DEF Planned
<1>4. CASE C # {} /\ WellTyped(p, given) /\ Relates(p, m, n, pks, parent, child, id, ids, identifying)
  <2>1. IsFiniteSet(C)
    <3>1. C \subseteq Ids(m, "column")
      BY <1>1 DEF PkColumns, ColumnsOf
    <3> QED BY <3>1, ColumnsFinite
  <2>2. n # 0 /\ 1 \in 1..n
    BY <1>2, <1>4, <2>1, FS_EmptySet
  <2>3. PICK M : M = Mappings(ids, pks, n)
    OBVIOUS
  <2>4. M # {}
    BY <2>2, <2>3 DEF Mappings
  <2>5. p[<<"relationship", id>>].columnMappings = M
    BY <1>4, <2>3 DEF Relates, NewRelationship
  <2>6. ASSUME NEW k \in DOMAIN p, k[1] = "relationship" PROVE p[k].columnMappings # {}
    <3>1. CASE k = <<"relationship", id>>
      BY <2>4, <2>5, <3>1
    <3>2. CASE k # <<"relationship", id>>
      <4>1. k \notin Listed("column", ids, 1..n)
        BY <2>6 DEF Listed
      <4>2. k \in DOMAIN m /\ p[k] = m[k]
        BY <1>4, <3>2, <4>1 DEF Relates
      <4> QED BY <2>6, <4>2 DEF Mapped, KeysOf
    <3> QED BY <3>1, <3>2
  <2> QED BY <1>4, <2>6 DEF Planned, Mapped, KeysOf
<1> QED BY <1>1, <1>2, <1>3, <1>4, Creating

ConnectEnds(p, m, given, C, pks, parent, child, id, ids, identifying) ==
    \/ p = m /\ (~ {parent, child} \subseteq Ids(m, "table") \/ C = {})
    \/ p = OpApplyError
    \/ /\ C # {} /\ WellTyped(p, given) /\ Cardinality(C) <= Len(ids)
       /\ Relates(p, m, Cardinality(C), pks, parent, child, id, ids, identifying)

LEMMA CreatingOne ==
  ASSUME NEW m, NEW given, NEW id, NEW ids, WellTyped(m, given), id \in given, IdList(ids, given),
         NEW parent, NEW child, NEW identifying, NEW C, NEW pks, C = PkColumns(m, parent), pks = InOrder(m, C)
  PROVE  ConnectEnds(createRelationshipFromParentPk(m, parent, child, id, ids, identifying),
                 m, given, C, pks, parent, child, id, ids, identifying)
  BY Creating DEF ConnectEnds
(* One column after the other is deleted: FoldSet, a function on the       *)
(* subsets of a finite set.                                                *)
Folds(g, m, C) == g = [s \in SUBSET C |->
    IF s = {} THEN m ELSE deleteColumnCascade(g[s \ {CHOOSE x \in s : TRUE}], CHOOSE x \in s : TRUE)]
FoldsUpTo(g, m, C, n) == \A s \in SUBSET C : Cardinality(s) <= n => g[s] =
    IF s = {} THEN m ELSE deleteColumnCascade(g[s \ {CHOOSE x \in s : TRUE}], CHOOSE x \in s : TRUE)

LEMMA OneFewer ==
  ASSUME NEW C, IsFiniteSet(C), NEW s \in SUBSET C, s # {}, NEW x, x = CHOOSE y \in s : TRUE
  PROVE  /\ x \in s /\ s \ {x} \in SUBSET C
         /\ Cardinality(s) \in Nat /\ Cardinality(s) # 0 /\ Cardinality(s \ {x}) = Cardinality(s) - 1
<1>1. x \in s /\ s \ {x} \in SUBSET C
  OBVIOUS
<1>2. IsFiniteSet(s)
  BY FS_Subset
<1>3. Cardinality(s \ {x}) = Cardinality(s) - 1
  BY <1>1, <1>2, FS_RemoveElement
<1>4. Cardinality(s) \in Nat /\ Cardinality(s) # 0
  BY <1>2, FS_CardinalityType, FS_EmptySet
<1> QED BY <1>1, <1>3, <1>4

LEMMA FoldExists ==
  ASSUME NEW m, NEW C, IsFiniteSet(C)
  PROVE  \E g : Folds(g, m, C)
<1>1. PICK N \in Nat : N = Cardinality(C)
  BY FS_CardinalityType
<1> DEFINE chosen(s) == CHOOSE x \in s : TRUE
           F(h, s) == IF s = {} THEN m ELSE deleteColumnCascade(h[s \ {chosen(s)}], chosen(s))
           T == {i \in 0..N : \E g : FoldsUpTo(g, m, C, i)}
<1>2. 0 \in T
  <2>1. PICK g : g = [s \in SUBSET C |-> m]
    OBVIOUS
  <2>2. \A s \in SUBSET C : Cardinality(s) <= 0 => s = {}
    <3> SUFFICES ASSUME NEW s \in SUBSET C, Cardinality(s) <= 0 PROVE s = {}
      OBVIOUS
    <3>1. IsFiniteSet(s) /\ Cardinality(s) \in Nat
      BY FS_Subset, FS_CardinalityType
    <3> QED BY <3>1, FS_EmptySet
  <2>3. FoldsUpTo(g, m, C, 0)
    BY <2>1, <2>2 DEF FoldsUpTo
  <2> QED BY <2>3
<1>3. ASSUME NEW i \in 0..N-1, i \in T PROVE i + 1 \in T
  <2>1. PICK g : FoldsUpTo(g, m, C, i)
    BY <1>3
  <2>2. PICK h : h = [s \in SUBSET C |-> IF Cardinality(s) <= i THEN g[s] ELSE F(g, s)]
    OBVIOUS
  <2>3. ASSUME NEW s \in SUBSET C, Cardinality(s) <= i + 1 PROVE h[s] = F(h, s)
    <3>1. CASE s = {}
      <4>1. Cardinality(s) <= i
        BY <3>1, FS_EmptySet
      <4> QED BY <2>1, <2>2, <3>1, <4>1 DEF FoldsUpTo
    <3>2. CASE s # {}
      <4>1. PICK x, r : x = chosen(s) /\ r = s \ {x}
        OBVIOUS
      <4>2. /\ x \in s /\ r \in SUBSET C
            /\ Cardinality(s) \in Nat /\ Cardinality(s) # 0 /\ Cardinality(r) = Cardinality(s) - 1
        BY <3>2, <4>1, OneFewer
      <4>3. h[r] = g[r]
        BY <2>2, <2>3, <4>2
      <4>4. g[s] = F(g, s) \/ ~ (Cardinality(s) <= i)
        BY <2>1 DEF FoldsUpTo
      <4>5. h[s] = F(g, s)
        BY <2>2, <4>4
      <4>6. F(g, s) = deleteColumnCascade(g[r], x) /\ F(h, s) = deleteColumnCascade(h[r], x)
        BY <3>2, <4>1
      <4> QED BY <4>3, <4>5, <4>6
    <3> QED BY <3>1, <3>2
  <2>4. FoldsUpTo(h, m, C, i + 1)
    BY <2>3 DEF FoldsUpTo
  <2>5. i + 1 \in 0..N
    OBVIOUS
  <2> QED BY <2>4, <2>5
<1> HIDE DEF T
<1>4. N \in T
  BY <1>2, <1>3, UpTo
<1>5. PICK g : FoldsUpTo(g, m, C, N)
  BY <1>4 DEF T
<1>6. \A s \in SUBSET C : Cardinality(s) <= N
  BY <1>1, FS_Subset
<1>7. PICK h : h = [s \in SUBSET C |-> g[s]]
  OBVIOUS
<1>8. ASSUME NEW s \in SUBSET C PROVE h[s] = F(h, s)
  <2>1. h[s] = g[s] /\ g[s] = F(g, s)
    BY <1>5, <1>6, <1>7 DEF FoldsUpTo
  <2>2. CASE s # {}
    <3>1. s \ {chosen(s)} \in SUBSET C
      OBVIOUS
    <3> QED BY <1>7, <2>1, <2>2, <3>1
  <2> QED BY <2>1, <2>2
<1>9. h = [s \in SUBSET C |-> h[s]]
  BY <1>7
<1>10. Folds(h, m, C)
  BY <1>8, <1>9 DEF Folds
<1> QED BY <1>10

LEMMA FoldFacts ==
  ASSUME NEW m, NEW C, IsFiniteSet(C)
  PROVE  \E g : Folds(g, m, C) /\ FoldSet(LAMBDA c, acc : deleteColumnCascade(acc, c), m, C) = g[C]
<1>1. PICK g : Folds(g, m, C)
  BY FoldExists
<1>2. PICK a : a = CHOOSE f : f = [s \in SUBSET C |->
          IF s = {} THEN m ELSE deleteColumnCascade(f[s \ {CHOOSE x \in s : TRUE}], CHOOSE x \in s : TRUE)]
  OBVIOUS
<1>3. Folds(a, m, C)
  BY <1>1, <1>2 DEF Folds
<1>4. FoldSet(LAMBDA c, acc : deleteColumnCascade(acc, c), m, C) = a[C]
  BY <1>2 DEF FoldSet, MapThenFoldSet
<1> QED BY <1>3, <1>4

Freed(m, C) == FoldSet(LAMBDA c, acc : deleteColumnCascade(acc, c), m, C)

(* What is left of a model when the columns C are gone.                    *)
Spare(M, C) == {x \in M : x.child \notin C /\ x.parent \notin C}
ColumnsGone(p, m, C) ==
    /\ DOMAIN p \subseteq DOMAIN m
    /\ \A k \in DOMAIN m : k[1] \notin {"relationship", "index"} =>
          (k \in DOMAIN p <=> k \notin Keys("column", C)) /\ (k \in DOMAIN p => p[k] = m[k])
    /\ \A k \in DOMAIN m : k[1] = "relationship" =>
          /\ k \in DOMAIN p <=> Spare(m[k].columnMappings, C) # {}
          /\ k \in DOMAIN p => p[k].columnMappings = Spare(m[k].columnMappings, C)

LEMMA Cascade ==
  ASSUME NEW m, NEW given, WellTyped(m, given), NEW c, NEW p, p = deleteColumnCascade(m, c)
  PROVE  WellTyped(p, given) /\ ColumnsGone(p, m, {c})
<1> DEFINE mapped(k) == {x \in m[k].columnMappings : c \notin {x.child, x.parent}}
           new(k) == IF k[1] = "index" THEN [m[k] EXCEPT !.columns = @ \ {c}]
                     ELSE [m[k] EXCEPT !.columnMappings = mapped(k)]
<1>1. PICK T, E, e, q : /\ T = {k \in KeysOf(m, "index") : c \in m[k].columns}
                               \cup {k \in KeysOf(m, "relationship") : mapped(k) # m[k].columnMappings}
                        /\ E = {k \in KeysOf(m, "relationship") : mapped(k) = {}}
                               \cup {k \in T : k[1] = "index" /\ m[k].columns = {c}}
                        /\ e = [k \in T |-> new(k)]
                        /\ q = Put(m, e)
  OBVIOUS
<1>2. p = Drop(q, E \cup {<<"column", c>>})
  BY <1>1 DEF deleteColumnCascade
<1>3. T \subseteq DOMAIN m /\ DOMAIN e = T
  BY <1>1 DEF KeysOf
<1>4. ASSUME NEW k \in T, k[1] = "index" PROVE IsEntity("index", e[k])
  <2>1. k \in DOMAIN m /\ IsEntity("index", m[k])
    BY <1>3, <1>4 DEF WellTyped
  <2>2. e[k] = [m[k] EXCEPT !.columns = m[k].columns \ {c}]
    BY <1>1, <1>4
  <2>3. "columns" = "order" => m[k].columns \ {c} \in Int
    OBVIOUS
  <2> QED BY <2>1, <2>2, <2>3, FieldSet
<1>5. ASSUME NEW k \in T, k[1] # "index"
      PROVE k[1] = "relationship" /\ IsEntity("relationship", e[k]) /\ e[k].columnMappings = mapped(k)
  <2>1. k \in DOMAIN m /\ k[1] = "relationship" /\ IsEntity("relationship", m[k])
    BY <1>1, <1>3, <1>5 DEF KeysOf, WellTyped
  <2>2. "columnMappings" \in DOMAIN m[k]
    BY <2>1 DEF IsEntity, FieldsOf
  <2>3. e[k] = [m[k] EXCEPT !.columnMappings = mapped(k)]
    BY <1>1, <1>5
  <2> HIDE DEF mapped
  <2>4. "columnMappings" = "order" => mapped(k) \in Int
    OBVIOUS
  <2>5. IsEntity("relationship", e[k])
    BY <2>1, <2>3, <2>4, FieldSet
  <2>6. e[k].columnMappings = mapped(k)
    BY <2>2, <2>3
  <2> QED BY <2>1, <2>5, <2>6
<1>6. IsFiniteSet(DOMAIN e)
  BY <1>3, FS_Subset DEF WellTyped
<1>7. Fits(e, given)
  <2>1. ASSUME NEW k \in DOMAIN e PROVE IsEntity(k[1], e[k])
    <3>1. CASE k[1] = "index"
      BY <1>3, <1>4, <3>1
    <3>2. CASE k[1] # "index"
      BY <1>3, <1>5, <3>2
    <3> QED BY <3>1, <3>2
  <2>2. \A k \in DOMAIN e : k = <<k[1], k[2]>> /\ k[2] \in given
    BY <1>3 DEF WellTyped
  <2> QED BY <2>1, <2>2 DEF Fits
<1>8. /\ WellTyped(q, given) /\ DOMAIN q = DOMAIN m
      /\ \A k \in DOMAIN m : q[k] = IF k \in T THEN e[k] ELSE m[k]
  <2>1. WellTyped(q, given)
    BY <1>1, <1>6, <1>7, Puts
  <2>2. /\ DOMAIN q = DOMAIN m \cup DOMAIN e
        /\ \A k \in DOMAIN q : q[k] = IF k \in DOMAIN e THEN e[k] ELSE m[k]
    BY <1>1 DEF Put
  <2> QED BY <1>3, <2>1, <2>2
<1>9. WellTyped(p, given) /\ DOMAIN p = DOMAIN m \ (E \cup {<<"column", c>>}) /\ \A k \in DOMAIN p : p[k] = q[k]
  <2>1. WellTyped(p, given)
    BY <1>2, <1>8, Drops
  <2>2. DOMAIN p = DOMAIN q \ (E \cup {<<"column", c>>}) /\ \A k \in DOMAIN p : p[k] = q[k]
    BY <1>2 DEF Drop
  <2> QED BY <1>8, <2>1, <2>2
<1>10. \A k \in T \cup E : k[1] \in {"relationship", "index"}
  BY <1>1 DEF KeysOf
<1>11. \A k \in DOMAIN m : k[1] = "relationship" => mapped(k) = Spare(m[k].columnMappings, {c})
  BY DEF Spare
<1>12. \A k \in DOMAIN m : k[1] = "relationship" => (k \in E <=> mapped(k) = {})
  BY <1>1 DEF KeysOf
<1>13. \A k \in DOMAIN m : k[1] = "relationship" => q[k].columnMappings = mapped(k)
  <2> SUFFICES ASSUME NEW k \in DOMAIN m, k[1] = "relationship" PROVE q[k].columnMappings = mapped(k)
    OBVIOUS
  <2>1. CASE k \in T
    BY <1>5, <1>8, <2>1
  <2>2. CASE k \notin T
    BY <1>1, <1>8, <2>2 DEF KeysOf
  <2> QED BY <2>1, <2>2
<1> HIDE DEF mapped, new
<1>14. ASSUME NEW k \in DOMAIN m, k[1] \notin {"relationship", "index"}
       PROVE  (k \in DOMAIN p <=> k \notin Keys("column", {c})) /\ (k \in DOMAIN p => p[k] = m[k])
  <2>1. k \notin T \cup E
    BY <1>10, <1>14
  <2> QED BY <1>8, <1>9, <2>1 DEF Keys
<1>15. ASSUME NEW k \in DOMAIN m, k[1] = "relationship"
       PROVE  /\ k \in DOMAIN p <=> Spare(m[k].columnMappings, {c}) # {}
              /\ k \in DOMAIN p => p[k].columnMappings = Spare(m[k].columnMappings, {c})
  <2>1. k # <<"column", c>>
    BY <1>15
  <2> QED BY <1>9, <1>11, <1>12, <1>13, <1>15, <2>1
<1> QED BY <1>9, <1>14, <1>15 DEF ColumnsGone

LEMMA WithoutMore ==
  ASSUME NEW m, NEW q, NEW p, NEW S, NEW c, ColumnsGone(q, m, S), ColumnsGone(p, q, {c}), NEW R, R = S \cup {c}
  PROVE  ColumnsGone(p, m, R)
<1>1. DOMAIN p \subseteq DOMAIN q /\ DOMAIN q \subseteq DOMAIN m
  BY DEF ColumnsGone
<1>2. ASSUME NEW k \in DOMAIN m, k[1] \notin {"relationship", "index"}
      PROVE  (k \in DOMAIN p <=> k \notin Keys("column", R)) /\ (k \in DOMAIN p => p[k] = m[k])
  <2>1. k \notin Keys("column", R) <=> k \notin Keys("column", S) /\ k \notin Keys("column", {c})
    BY DEF Keys
  <2>2. (k \in DOMAIN q <=> k \notin Keys("column", S)) /\ (k \in DOMAIN q => q[k] = m[k])
    BY <1>2 DEF ColumnsGone
  <2>3. k \in DOMAIN q => (k \in DOMAIN p <=> k \notin Keys("column", {c})) /\ (k \in DOMAIN p => p[k] = q[k])
    BY <1>2 DEF ColumnsGone
  <2> QED BY <1>1, <2>1, <2>2, <2>3
<1>3. ASSUME NEW k \in DOMAIN m, k[1] = "relationship"
      PROVE  /\ k \in DOMAIN p <=> Spare(m[k].columnMappings, R) # {}
             /\ k \in DOMAIN p => p[k].columnMappings = Spare(m[k].columnMappings, R)
  <2>1. PICK M, N : M = Spare(m[k].columnMappings, S) /\ N = Spare(m[k].columnMappings, R)
    OBVIOUS
  <2>2. N = Spare(M, {c})
    BY <2>1 DEF Spare
  <2>3. (k \in DOMAIN q <=> M # {}) /\ (k \in DOMAIN q => q[k].columnMappings = M)
    BY <1>3, <2>1 DEF ColumnsGone
  <2>4. k \in DOMAIN q => /\ k \in DOMAIN p <=> Spare(q[k].columnMappings, {c}) # {}
                          /\ k \in DOMAIN p => p[k].columnMappings = Spare(q[k].columnMappings, {c})
    BY <1>3 DEF ColumnsGone
  <2>5. N # {} => M # {}
    BY <2>2 DEF Spare
  <2> QED BY <1>1, <2>1, <2>2, <2>3, <2>4, <2>5
<1> QED BY <1>1, <1>2, <1>3 DEF ColumnsGone

LEMMA FoldWithout ==
  ASSUME NEW m, NEW given, WellTyped(m, given), Mapped(m), NEW C, IsFiniteSet(C),
         NEW p, p = Freed(m, C)
  PROVE  WellTyped(p, given) /\ ColumnsGone(p, m, C)
<1>1. PICK g : Folds(g, m, C) /\ p = g[C]
  BY FoldFacts DEF Freed
<1>2. \A s \in SUBSET C : g[s] =
        IF s = {} THEN m ELSE deleteColumnCascade(g[s \ {CHOOSE x \in s : TRUE}], CHOOSE x \in s : TRUE)
  BY <1>1 DEF Folds
<1>3. PICK N \in Nat : N = Cardinality(C)
  BY FS_CardinalityType
<1> DEFINE Left(s) == WellTyped(g[s], given) /\ ColumnsGone(g[s], m, s)
           T == {i \in 0..N : \A s \in SUBSET C : Cardinality(s) = i => Left(s)}
<1> HIDE DEF Left
<1>4. 0 \in T
  <2>1. ASSUME NEW s \in SUBSET C, Cardinality(s) = 0 PROVE Left(s)
    <3>1. s = {}
      BY <2>1, FS_Subset, FS_EmptySet
    <3>2. g[s] = m
      BY <1>2, <3>1
    <3>3. \A k \in DOMAIN m : k[1] = "relationship" => Spare(m[k].columnMappings, s) = m[k].columnMappings
      BY <3>1 DEF Spare
    <3>4. \A k \in DOMAIN m : k[1] = "relationship" => m[k].columnMappings # {}
      BY DEF Mapped, KeysOf
    <3>5. Keys("column", s) = {}
      BY <3>1 DEF Keys
    <3>6. ColumnsGone(m, m, s)
      BY <3>3, <3>4, <3>5 DEF ColumnsGone
    <3> QED BY <3>2, <3>6 DEF Left
  <2> QED BY <2>1
<1>5. ASSUME NEW i \in 0..N-1, i \in T PROVE i + 1 \in T
  <2>1. ASSUME NEW s \in SUBSET C, Cardinality(s) = i + 1 PROVE Left(s)
    <3>1. s # {}
      BY <2>1, FS_EmptySet
    <3>2. PICK x, q : x = (CHOOSE y \in s : TRUE) /\ q = g[s \ {x}]
      OBVIOUS
    <3>3. x \in s /\ s \ {x} \in SUBSET C /\ Cardinality(s \ {x}) = Cardinality(s) - 1
      BY <3>1, <3>2, OneFewer
    <3>4. WellTyped(q, given) /\ ColumnsGone(q, m, s \ {x})
      BY <1>5, <2>1, <3>2, <3>3 DEF Left
    <3>5. g[s] = deleteColumnCascade(q, x)
      BY <1>2, <3>1, <3>2
    <3>6. WellTyped(g[s], given) /\ ColumnsGone(g[s], q, {x})
      BY <3>4, <3>5, Cascade
    <3>7. s = (s \ {x}) \cup {x}
      BY <3>3
    <3> QED BY <3>4, <3>6, <3>7, WithoutMore DEF Left
  <2> QED BY <2>1
<1> HIDE DEF T
<1>6. N \in T
  BY <1>4, <1>5, UpTo
<1> QED BY <1>1, <1>3, <1>6 DEF T, Left

(* The steps of a resolution up to the junction table.                     *)
ResolvesBy(m, given, r, junction, group, a, b, freed, table, first) ==
    /\ WellTyped(freed, given) /\ ColumnsGone(freed, m, ChildColumns(Rel(m, r)))
    /\ table = With(freed, <<"table", junction>>, [groupId |-> group, name |-> SuffixOf(junction)])
    /\ WellTyped(table, given) /\ Mapped(table)
    /\ first = createRelationshipFromParentPk(table, Rel(m, r).parentTableId, junction, a.id, a.ids, TRUE)
    /\ resolveManyToMany(m, r, junction, group, a, b) =
          IF first = OpApplyError THEN OpApplyError
          ELSE createRelationshipFromParentPk(first, Rel(m, r).childTableId, junction, b.id, b.ids, TRUE)

LEMMA Resolved ==
  ASSUME NEW m, NEW given, Whole(m, given), NEW r, Resolvable(m, r), NEW junction \in given, NEW group, NEW a, NEW b
  PROVE  \E freed, table, first : ResolvesBy(m, given, r, junction, group, a, b, freed, table, first)
<1>1. PICK k : k = <<"relationship", r>> /\ k \in DOMAIN m
  BY Entity DEF Resolvable
<1>2. PICK C : C = ChildColumns(Rel(m, r)) /\ IsFiniteSet(C)
  BY <1>1, ChildrenThere, ColumnsFinite DEF Whole
<1>3. PICK freed : freed = Freed(m, C)
  OBVIOUS
<1>4. WellTyped(freed, given) /\ ColumnsGone(freed, m, C)
  BY <1>2, <1>3, FoldWithout DEF Whole
<1>5. PICK l, e, table : /\ l = <<"table", junction>> /\ e = [groupId |-> group, name |-> SuffixOf(junction)]
                         /\ table = With(freed, l, e)
  OBVIOUS
<1>6. IsEntity("table", e)
  BY <1>5 DEF IsEntity, IsFunction, FieldsOf, ENTITY_KINDS, Range
<1>7. WellTyped(table, given)
  BY <1>4, <1>5, <1>6, Withs
<1>8. Mapped(table)
  <2>1. l[1] = "table"
    BY <1>5
  <2>2. \A x \in DOMAIN freed : x[1] = "relationship" => freed[x].columnMappings # {}
    BY <1>4 DEF ColumnsGone
  <2>3. DOMAIN table = DOMAIN freed \cup {l} /\ \A x \in DOMAIN freed : x # l => table[x] = freed[x]
    BY <1>5 DEF With
  <2> QED BY <2>1, <2>2, <2>3 DEF Mapped, KeysOf
<1>9. PICK first : first = createRelationshipFromParentPk(table, Rel(m, r).parentTableId, junction, a.id, a.ids, TRUE)
  OBVIOUS
<1>10. resolveManyToMany(m, r, junction, group, a, b) =
         IF first = OpApplyError THEN OpApplyError
         ELSE createRelationshipFromParentPk(first, Rel(m, r).childTableId, junction, b.id, b.ids, TRUE)
  BY <1>2, <1>3, <1>5, <1>9 DEF resolveManyToMany, Freed
<1>11. ResolvesBy(m, given, r, junction, group, a, b, freed, table, first)
  BY <1>2, <1>4, <1>5, <1>7, <1>8, <1>9, <1>10 DEF ResolvesBy
<1> QED BY <1>11

LEMMA Resolving ==
  ASSUME NEW m, NEW given, Whole(m, given), NEW r, NEW junction \in given, NEW group, NEW a, NEW b,
         a.id \in given, IdList(a.ids, given), b.id \in given, IdList(b.ids, given)
  PROVE  Planned(resolveManyToMany(m, r, junction, group, a, b), given)
<1>1. CASE ~ Resolvable(m, r)
  BY <1>1 DEF resolveManyToMany, Planned, Whole
<1>2. CASE Resolvable(m, r)
  <2>1. PICK freed, table, first : ResolvesBy(m, given, r, junction, group, a, b, freed, table, first)
    BY <1>2, Resolved
  <2>2. PICK i, u, j, v : i = a.id /\ u = a.ids /\ j = b.id /\ v = b.ids
    OBVIOUS
  <2>3. Planned(first, given)
    <3>1. i \in given /\ IdList(u, given)
      BY <2>2
    <3>2. first = createRelationshipFromParentPk(table, Rel(m, r).parentTableId, junction, i, u, TRUE)
      BY <2>1, <2>2 DEF ResolvesBy
    <3> QED BY <2>1, <3>1, <3>2, CreatingPlanned DEF ResolvesBy
  <2>4. CASE first = OpApplyError
    BY <2>1, <2>4 DEF ResolvesBy, Planned
  <2>5. CASE first # OpApplyError
    <3>1. WellTyped(first, given) /\ Mapped(first)
      BY <2>3, <2>5 DEF Planned
    <3>2. j \in given /\ IdList(v, given)
      BY <2>2
    <3>3. PICK p : p = createRelationshipFromParentPk(first, Rel(m, r).childTableId, junction, j, v, TRUE)
      OBVIOUS
    <3>4. Planned(p, given)
      BY <3>1, <3>2, <3>3, CreatingPlanned
    <3> QED BY <2>1, <2>2, <2>5, <3>3, <3>4 DEF ResolvesBy
  <2> QED BY <2>4, <2>5
<1> QED BY <1>1, <1>2

(* What a new foreign key refers to.                                       *)
LEMMA IdIn ==
  ASSUME NEW m, NEW given, WellTyped(m, given), NEW kind, NEW i, NEW k, k = <<kind, i>>
  PROVE  /\ i \in Ids(m, kind) <=> k \in DOMAIN m
         /\ k \in DOMAIN m => i \in given
<1>1. ASSUME k \in DOMAIN m PROVE i \in Ids(m, kind) /\ i \in given
  <2>1. k[1] = kind /\ k[2] = i
    OBVIOUS
  <2> QED BY <1>1, <2>1 DEF Ids, KeysOf, WellTyped
<1>2. ASSUME i \in Ids(m, kind) PROVE k \in DOMAIN m
  <2>1. PICK l \in DOMAIN m : l[1] = kind /\ l[2] = i
    BY <1>2 DEF Ids, KeysOf
  <2> QED BY <2>1 DEF WellTyped
<1> QED BY <1>1, <1>2

LEMMA ColumnAt ==
  ASSUME NEW m, NEW given, WellTyped(m, given), NEW t, NEW c, NEW k, k = <<"column", c>>
  PROVE  /\ c \in ColumnsOf(m, t) <=> k \in DOMAIN m /\ m[k].tableId = t
         /\ c \in PkColumns(m, t) <=> k \in DOMAIN m /\ m[k].tableId = t /\ m[k].isPk
<1>1. c \in Ids(m, "column") <=> k \in DOMAIN m
  BY IdIn
<1>2. c \in ColumnsOf(m, t) <=> k \in DOMAIN m /\ m[k].tableId = t
  BY <1>1 DEF ColumnsOf, Col
<1>3. c \in PkColumns(m, t) <=> c \in ColumnsOf(m, t) /\ m[k].isPk
  BY DEF PkColumns, Col
<1> QED BY <1>2, <1>3

Parents(M)    == {x.parent : x \in M}
Children(M)   == {x.child : x \in M}
Taken(ids, n) == {ids[i] : i \in 1..n}

LEMMA MappingFacts ==
  ASSUME NEW n \in Nat, NEW key, IsFiniteSet(key), n = Cardinality(key), NEW pks \in [1..n -> key],
         \A i, j \in 1..n : i < j => pks[i] # pks[j],
         NEW given, NEW ids, IdList(ids, given), n <= Len(ids), NEW M, M = Mappings(ids, pks, n)
  PROVE  /\ Parents(M) = key /\ Cardinality(M) = n
         /\ Children(M) = Taken(ids, n) /\ Cardinality(Children(M)) = n
<1>1. IsFiniteSet(1..n) /\ Cardinality(1..n) = n
  BY FS_Interval
<1>2. \A i, j \in 1..n : pks[i] = pks[j] => i = j
  OBVIOUS
<1>3. key = {pks[i] : i \in 1..n}
  <2>1. pks \in Injection(1..n, key)
    BY <1>2 DEF Injection, IsInjective
  <2>2. pks \in Surjection(1..n, key)
    BY <1>1, <2>1, FS_Injection
  <2> QED BY <2>2 DEF Surjection
<1>4. M = {[child |-> ids[i], parent |-> pks[i]] : i \in 1..n}
  BY DEF Mappings
<1>5. Parents(M) = {pks[i] : i \in 1..n} /\ Children(M) = Taken(ids, n)
  <2>1. \A x \in M : \E i \in 1..n : x.child = ids[i] /\ x.parent = pks[i]
    BY <1>4
  <2>2. ASSUME NEW i \in 1..n PROVE \E x \in M : x.child = ids[i] /\ x.parent = pks[i]
    <3>1. PICK x : x = [child |-> ids[i], parent |-> pks[i]]
      OBVIOUS
    <3>2. x \in M /\ x.child = ids[i] /\ x.parent = pks[i]
      BY <1>4, <3>1
    <3> QED BY <3>2
  <2>3. Parents(M) = {pks[i] : i \in 1..n}
    <3>1. ASSUME NEW y \in Parents(M) PROVE y \in {pks[i] : i \in 1..n}
      <4>1. PICK x \in M : y = x.parent
        BY DEF Parents
      <4> QED BY <2>1, <4>1
    <3>2. ASSUME NEW i \in 1..n PROVE pks[i] \in Parents(M)
      <4>1. PICK x \in M : x.parent = pks[i]
        BY <2>2
      <4> QED BY <4>1 DEF Parents
    <3> QED BY <3>1, <3>2
  <2>4. Children(M) = Taken(ids, n)
    <3>1. ASSUME NEW y \in Children(M) PROVE y \in Taken(ids, n)
      <4>1. PICK x \in M : y = x.child
        BY DEF Children
      <4> QED BY <2>1, <4>1 DEF Taken
    <3>2. ASSUME NEW i \in 1..n PROVE ids[i] \in Children(M)
      <4>1. PICK x \in M : x.child = ids[i]
        BY <2>2
      <4> QED BY <4>1 DEF Children
    <3> QED BY <3>1, <3>2 DEF Taken
  <2> QED BY <2>3, <2>4
<1>6. \A i, j \in 1..n : ids[i] = ids[j] => i = j
  BY DEF IdList
<1>7. Cardinality(M) = n
  <2>1. PICK f : f = [i \in 1..n |-> [child |-> ids[i], parent |-> pks[i]]]
    OBVIOUS
  <2>2. f \in Surjection(1..n, M)
    BY <1>4, <2>1 DEF Surjection
  <2>3. \A i, j \in 1..n : f[i] = f[j] => i = j
    BY <1>6, <2>1
  <2>4. f \in Injection(1..n, M)
    BY <2>2, <2>3 DEF Injection, IsInjective, Surjection
  <2> QED BY <1>1, <2>2, <2>4, FS_Surjection
<1>8. Cardinality(Taken(ids, n)) = n
  <2>1. PICK f, T : f = [i \in 1..n |-> ids[i]] /\ T = Taken(ids, n)
    OBVIOUS
  <2>2. f \in Surjection(1..n, T)
    BY <2>1 DEF Surjection, Taken
  <2>3. f \in Injection(1..n, T)
    BY <1>6, <2>1 DEF Taken, Injection, IsInjective
  <2> QED BY <1>1, <2>1, <2>2, <2>3, FS_Surjection
<1> QED BY <1>3, <1>5, <1>7, <1>8

(* Refers, of a model p made from a model m.                               *)
RefersIn(p, m, r, parent, child, key) ==
    /\ r \in Ids(p, "relationship")
    /\ Rel(p, r).parentTableId = parent /\ Rel(p, r).childTableId = child
    /\ Parents(Rel(p, r).columnMappings) = key
    /\ Cardinality(Rel(p, r).columnMappings) = Cardinality(key)
    /\ ChildColumns(Rel(p, r)) \subseteq ColumnsOf(p, child) \ Ids(m, "column")
    /\ Cardinality(ChildColumns(Rel(p, r))) = Cardinality(key)

(* n columns make a key; new columns of p that m does not have.            *)
KeyOrder(pks, n, key) ==
    /\ n \in Nat /\ IsFiniteSet(key) /\ n = Cardinality(key) /\ pks \in [1..n -> key]
    /\ \A i, j \in 1..n : i < j => pks[i] # pks[j]
NewColumns(p, m, ids, n, child) == \A i \in 1..n :
    /\ <<"column", ids[i]>> \in DOMAIN p /\ p[<<"column", ids[i]>>].tableId = child
    /\ ids[i] \notin Ids(m, "column")

LEMMA RefersMade ==
  ASSUME NEW m, NEW p, NEW given, WellTyped(p, given), NEW pks, NEW n, NEW key, KeyOrder(pks, n, key),
         NEW ids, IdList(ids, given), n <= Len(ids), NEW id, NEW k, k = <<"relationship", id>>, k \in DOMAIN p,
         NEW parent, NEW child, NEW identifying,
         p[k] = NewRelationship(parent, child, identifying, Mappings(ids, pks, n)), NewColumns(p, m, ids, n, child)
  PROVE  RefersIn(p, m, id, parent, child, key)
<1>1. PICK M : M = Mappings(ids, pks, n)
  OBVIOUS
<1>2. Parents(M) = key /\ Cardinality(M) = n /\ Children(M) = Taken(ids, n) /\ Cardinality(Children(M)) = n
  BY <1>1, MappingFacts DEF KeyOrder
<1>3. /\ Rel(p, id).parentTableId = parent /\ Rel(p, id).childTableId = child
      /\ Rel(p, id).columnMappings = M /\ ChildColumns(Rel(p, id)) = Children(M)
  BY <1>1 DEF Rel, NewRelationship, ChildColumns, Children
<1>4. id \in Ids(p, "relationship")
  BY IdIn
<1>5. ASSUME NEW i \in 1..n PROVE ids[i] \in ColumnsOf(p, child) \ Ids(m, "column")
  <2>1. PICK c, l : c = ids[i] /\ l = <<"column", c>>
    OBVIOUS
  <2>2. l \in DOMAIN p /\ p[l].tableId = child /\ c \notin Ids(m, "column")
    BY <2>1 DEF NewColumns
  <2> QED BY <2>1, <2>2, ColumnAt
<1> QED BY <1>2, <1>3, <1>4, <1>5 DEF RefersIn, Taken, KeyOrder

(* resolveManyToMany, carried out with ids nobody has: the junction table  *)
(* refers to both whole keys, and others keep what those columns leave.    *)
JunctionMade(p, m, r, rel, n, i, j) ==
    /\ RefersIn(p, m, i, rel.parentTableId, n, PkColumns(m, rel.parentTableId) \ ChildColumns(rel))
    /\ RefersIn(p, m, j, rel.childTableId, n, KeyLeft(m, rel))
    /\ ColumnsOf(p, n) = PkColumns(p, n)
    /\ r \notin Ids(p, "relationship") /\ ChildColumns(rel) \cap Ids(p, "column") = {}
    /\ \A other \in Ids(m, "relationship") : \A x \in Rel(m, other).columnMappings :
          x.child \in ChildColumns(rel)
          \/ (other \in Ids(p, "relationship") /\ x \in Rel(p, other).columnMappings)

LEMMA Resolution ==
  ASSUME NEW m, NEW old, NEW given, Whole(m, old), old \subseteq given, NEW r, Resolvable(m, r),
         NEW rel, rel = Rel(m, r), NEW n \in given \ old, NEW group, NEW a, NEW b,
         NEW i, i = a.id, NEW u, u = a.ids, NEW j, j = b.id, NEW v, v = b.ids,
         i \in given \ old, j \in given \ old, i # j, IdList(u, given \ old), IdList(v, given \ old),
         \A x \in 1..Len(u), y \in 1..Len(v) : u[x] # v[y],
         NEW p, p = resolveManyToMany(m, r, n, group, a, b), p # OpApplyError
  PROVE  JunctionMade(p, m, r, rel, n, i, j)
<1>1. PICK C, P, Q, k, l : /\ C = ChildColumns(rel) /\ P = rel.parentTableId /\ Q = rel.childTableId
                           /\ k = <<"relationship", r>> /\ l = <<"table", n>>
  OBVIOUS
<1>2. WellTyped(m, old) /\ WellTyped(m, given) /\ Whole(m, given)
  BY Widened DEF Whole
<1>3. IdList(u, given) /\ IdList(v, given)
  BY DEF IdList
<1>4. k \in DOMAIN m /\ m[k] = rel /\ r \in old /\ IsEntity("relationship", rel) /\ Sound(m, k)
  <2>1. r \in Ids(m, "relationship")
    BY DEF Resolvable
  <2>2. k \in DOMAIN m /\ IsEntity("relationship", m[k]) /\ Sound(m, k)
    BY <1>1, <1>2, <2>1, Entity
  <2>3. r \in old
    BY <1>1, <1>2, <2>2, IdIn
  <2> QED BY <1>1, <2>2, <2>3 DEF Rel
<1>5. P \in Ids(m, "table") /\ Q \in Ids(m, "table") /\ P \in old /\ Q \in old /\ P # n /\ Q # n
  <2>1. {P, Q} \subseteq Ids(m, "table")
    BY <1>1 DEF Resolvable, Ends
  <2>2. \A t \in Ids(m, "table") : t \in old
    BY <1>2, IdIn
  <2> QED BY <2>1, <2>2
<1>6. \A x \in rel.columnMappings : ColumnIn(m, x.child, Q) /\ x.child \in C
  BY <1>1, <1>4 DEF Sound, ChildColumns
<1>7. \A c \in C : <<"column", c>> \in DOMAIN m /\ m[<<"column", c>>].tableId = Q /\ c \in old
  <2>1. \A c \in C : ColumnIn(m, c, Q)
    BY <1>1, <1>6 DEF ChildColumns
  <2>2. \A c \in C : <<"column", c>> \in DOMAIN m /\ m[<<"column", c>>].tableId = Q
    BY <2>1 DEF ColumnIn, Has
  <2> QED BY <1>2, <2>2, IdIn
<1>8. PICK freed, table, first : ResolvesBy(m, given, r, n, group, a, b, freed, table, first)
  BY <1>2, Resolved
<1>9. /\ WellTyped(freed, given) /\ ColumnsGone(freed, m, C) /\ WellTyped(table, given)
      /\ DOMAIN table = DOMAIN freed \cup {l} /\ \A x \in DOMAIN freed : x # l => table[x] = freed[x]
  <2>1. WellTyped(freed, given) /\ ColumnsGone(freed, m, C) /\ WellTyped(table, given)
    BY <1>1, <1>8 DEF ResolvesBy
  <2>2. table = With(freed, l, [groupId |-> group, name |-> SuffixOf(n)])
    BY <1>1, <1>8 DEF ResolvesBy
  <2> QED BY <2>1, <2>2 DEF With
<1>10. /\ first # OpApplyError /\ first = createRelationshipFromParentPk(table, P, n, i, u, TRUE)
       /\ p = createRelationshipFromParentPk(first, Q, n, j, v, TRUE)
  BY <1>1, <1>8 DEF ResolvesBy
(* The columns that are left have their places and keys as before. *)
<1>11. ASSUME NEW c, NEW y, y = <<"column", c>>
       PROVE  /\ y \in DOMAIN table <=> y \in DOMAIN m /\ c \notin C
              /\ y \in DOMAIN table => table[y] = m[y] /\ c \in old
  <2>1. y # l /\ y[1] = "column"
    BY <1>1, <1>11
  <2>2. y \in DOMAIN table <=> y \in DOMAIN freed
    BY <1>9, <2>1
  <2>3. y \in DOMAIN freed => table[y] = freed[y]
    BY <1>9, <2>1
  <2>4. y \in Keys("column", C) <=> c \in C
    BY <1>11 DEF Keys
  <2>5. (y \in DOMAIN freed <=> y \in DOMAIN m /\ c \notin C) /\ (y \in DOMAIN freed => freed[y] = m[y])
    BY <1>9, <2>1, <2>4 DEF ColumnsGone
  <2>6. y \in DOMAIN m => c \in old
    BY <1>2, <1>11, IdIn
  <2> QED BY <2>2, <2>3, <2>5, <2>6
<1>12. \A t : PkColumns(table, t) = PkColumns(m, t) \ C
  <2> SUFFICES ASSUME NEW t, NEW c PROVE c \in PkColumns(table, t) <=> c \in PkColumns(m, t) /\ c \notin C
    OBVIOUS
  <2>1. PICK y : y = <<"column", c>>
    OBVIOUS
  <2>2. c \in PkColumns(table, t) <=> y \in DOMAIN table /\ table[y].tableId = t /\ table[y].isPk
    BY <1>9, <2>1, ColumnAt
  <2>3. c \in PkColumns(m, t) <=> y \in DOMAIN m /\ m[y].tableId = t /\ m[y].isPk
    BY <1>2, <2>1, ColumnAt
  <2> QED BY <1>11, <2>1, <2>2, <2>3
<1>13. PICK A, pa, na : A = PkColumns(table, P) /\ pa = InOrder(table, A) /\ na = Cardinality(A)
  OBVIOUS
<1>14. A = PkColumns(m, P) \ C /\ A # {}
  <2>1. A = PkColumns(m, P) \ C
    BY <1>12, <1>13
  <2>2. CASE P = Q
    BY <1>1, <2>1, <2>2 DEF Resolvable, KeyLeft
  <2>3. CASE P # Q
    <3>1. PICK c : c \in PkColumns(m, P)
      BY <1>1 DEF Resolvable
    <3>2. <<"column", c>> \in DOMAIN m /\ m[<<"column", c>>].tableId = P
      BY <1>2, <3>1, ColumnAt
    <3>3. c \notin C
      BY <1>7, <2>3, <3>2
    <3> QED BY <2>1, <3>1, <3>3
  <2> QED BY <2>2, <2>3
<1>15. /\ IsFiniteSet(A) /\ na \in Nat /\ pa \in [1..na -> A] /\ \A x, y \in 1..na : x < y => pa[x] # pa[y]
  <2>1. A \subseteq Ids(table, "column")
    BY <1>13 DEF PkColumns, ColumnsOf
  <2>2. IsFiniteSet(A)
    BY <1>9, <2>1, ColumnsFinite
  <2> QED BY <1>9, <1>13, <2>1, <2>2, InOrderFacts
<1>16. P \in Ids(table, "table") /\ Q \in Ids(table, "table") /\ n \in Ids(table, "table")
  <2>1. \A t \in Ids(m, "table") : t \in Ids(table, "table")
    <3> SUFFICES ASSUME NEW t \in Ids(m, "table") PROVE t \in Ids(table, "table")
      OBVIOUS
    <3>1. PICK y : y = <<"table", t>>
      OBVIOUS
    <3>2. y \in DOMAIN m /\ y[1] = "table" /\ y \notin Keys("column", C)
      BY <1>2, <3>1, IdIn DEF Keys
    <3>3. y \in DOMAIN table
      BY <1>9, <3>2 DEF ColumnsGone
    <3> QED BY <1>9, <3>1, <3>3, IdIn
  <2>2. n \in Ids(table, "table")
    BY <1>1, <1>9, IdIn
  <2> QED BY <1>5, <2>1, <2>2
<1>17. WellTyped(first, given) /\ na <= Len(u) /\ Relates(first, table, na, pa, P, n, i, u, TRUE)
  <2>1. ~ (~ {P, n} \subseteq Ids(table, "table") \/ A = {})
    BY <1>14, <1>16
  <2>2. \/ first = table /\ (~ {P, n} \subseteq Ids(table, "table") \/ A = {})
        \/ first = OpApplyError
        \/ /\ A # {} /\ WellTyped(first, given) /\ Cardinality(A) <= Len(u)
           /\ Relates(first, table, Cardinality(A), pa, P, n, i, u, TRUE)
    <3>1. i \in given /\ WellTyped(table, given) /\ IdList(u, given) /\ A = PkColumns(table, P) /\ pa = InOrder(table, A)
      BY <1>3, <1>9, <1>13
    <3>2. ConnectEnds(createRelationshipFromParentPk(table, P, n, i, u, TRUE), table, given, A, pa, P, n, i, u, TRUE)
      BY <3>1, CreatingOne
    <3> QED BY <1>10, <3>2 DEF ConnectEnds
  <2> QED BY <1>10, <1>13, <2>1, <2>2
<1>18. PICK U, ka : U = Listed("column", u, 1..na) /\ ka = <<"relationship", i>>
  OBVIOUS
<1>19. /\ DOMAIN first = DOMAIN table \cup U \cup {ka}
       /\ first[ka] = NewRelationship(P, n, TRUE, Mappings(u, pa, na))
       /\ \A x \in U : first[x].tableId = n /\ first[x].isPk = TRUE
       /\ \A x \in DOMAIN table : x \in U \cup {ka} \/ first[x] = table[x]
  BY <1>17, <1>18 DEF Relates
<1>20. \A x \in 1..na : u[x] \in given \ old
  BY <1>15, <1>17 DEF IdList
<1>21. \A x \in U : x[1] = "column" /\ x[2] \in given \ old /\ x # ka
  BY <1>18, <1>20 DEF Listed
<1>22. \A t : t # n => PkColumns(first, t) = PkColumns(table, t)
  <2> SUFFICES ASSUME NEW t, t # n PROVE PkColumns(first, t) = PkColumns(table, t)
    OBVIOUS
  <2> SUFFICES ASSUME NEW c PROVE c \in PkColumns(first, t) <=> c \in PkColumns(table, t)
    OBVIOUS
  <2>0. \E y : y = <<"column", c>>
    OBVIOUS
  <2>1. PICK y : y = <<"column", c>>
    BY <2>0
  <2>2. y[2] = c /\ y # ka
    BY <1>18, <2>1
  <2>3. c \in PkColumns(first, t) <=> y \in DOMAIN first /\ first[y].tableId = t /\ first[y].isPk
    BY <1>17, <2>1, ColumnAt
  <2>4. c \in PkColumns(table, t) <=> y \in DOMAIN table /\ table[y].tableId = t /\ table[y].isPk
    BY <1>9, <2>1, ColumnAt
  <2>5. CASE y \in U
    <3>1. first[y].tableId = n
      BY <1>19, <2>5
    <3>2. y \notin DOMAIN table
      BY <1>11, <1>21, <2>1, <2>2, <2>5
    <3> QED BY <2>3, <2>4, <3>1, <3>2
  <2>6. CASE y \notin U
    BY <1>19, <2>2, <2>3, <2>4, <2>6
  <2> QED BY <2>5, <2>6
<1>23. PICK B, pb, nb : B = PkColumns(first, Q) /\ pb = InOrder(first, B) /\ nb = Cardinality(B)
  OBVIOUS
<1>24. B = KeyLeft(m, rel) /\ B # {}
  <2>1. B = PkColumns(m, Q) \ C
    BY <1>5, <1>12, <1>22, <1>23
  <2> QED BY <1>1, <2>1 DEF KeyLeft, Resolvable
<1>25. /\ IsFiniteSet(B) /\ nb \in Nat /\ pb \in [1..nb -> B] /\ \A x, y \in 1..nb : x < y => pb[x] # pb[y]
  <2>1. B \subseteq Ids(first, "column")
    BY <1>23 DEF PkColumns, ColumnsOf
  <2>2. IsFiniteSet(B)
    BY <1>17, <2>1, ColumnsFinite
  <2> QED BY <1>17, <1>23, <2>1, <2>2, InOrderFacts
<1>26. {Q, n} \subseteq Ids(first, "table")
  <2>1. <<"table", Q>> \in DOMAIN first /\ <<"table", n>> \in DOMAIN first
    BY <1>9, <1>16, <1>19, IdIn
  <2> QED BY <1>17, <2>1, IdIn
<1>27. WellTyped(p, given) /\ nb <= Len(v) /\ Relates(p, first, nb, pb, Q, n, j, v, TRUE)
  <2>1. ~ (~ {Q, n} \subseteq Ids(first, "table") \/ B = {})
    BY <1>24, <1>26
  <2>2. \/ p = first /\ (~ {Q, n} \subseteq Ids(first, "table") \/ B = {})
        \/ p = OpApplyError
        \/ /\ B # {} /\ WellTyped(p, given) /\ Cardinality(B) <= Len(v)
           /\ Relates(p, first, Cardinality(B), pb, Q, n, j, v, TRUE)
    <3>1. j \in given /\ WellTyped(first, given) /\ IdList(v, given) /\ B = PkColumns(first, Q) /\ pb = InOrder(first, B)
      BY <1>3, <1>17, <1>23
    <3>2. ConnectEnds(createRelationshipFromParentPk(first, Q, n, j, v, TRUE), first, given, B, pb, Q, n, j, v, TRUE)
      BY <3>1, CreatingOne
    <3> QED BY <1>10, <3>2 DEF ConnectEnds
  <2> QED BY <1>23, <2>1, <2>2
<1>28. PICK V, kb : V = Listed("column", v, 1..nb) /\ kb = <<"relationship", j>>
  OBVIOUS
<1>29. /\ DOMAIN p = DOMAIN first \cup V \cup {kb}
       /\ p[kb] = NewRelationship(Q, n, TRUE, Mappings(v, pb, nb))
       /\ \A x \in V : p[x].tableId = n /\ p[x].isPk = TRUE
       /\ \A x \in DOMAIN first : x \in V \cup {kb} \/ p[x] = first[x]
  BY <1>27, <1>28 DEF Relates
<1>30. \A x \in 1..nb : v[x] \in given \ old
  BY <1>25, <1>27 DEF IdList
<1>31. \A x \in V : x[1] = "column" /\ x[2] \in given \ old /\ x # kb /\ x # ka
  BY <1>18, <1>28, <1>30 DEF Listed
<1>32. \A x \in U : x \notin V /\ x # kb /\ p[x] = first[x]
  <2>1. \A x \in 1..na, y \in 1..nb : u[x] # v[y]
    <3>1. Len(u) \in Nat /\ Len(v) \in Nat
      BY DEF IdList
    <3>2. 1..na \subseteq 1..Len(u) /\ 1..nb \subseteq 1..Len(v)
      BY <1>15, <1>17, <1>25, <1>27, <3>1
    <3> QED BY <3>2
  <2>2. \A x \in U : x \notin V
    BY <1>18, <1>28, <2>1 DEF Listed
  <2>3. \A x \in U : x # kb
    BY <1>21, <1>28
  <2> QED BY <1>19, <1>29, <2>2, <2>3
<1>33. ka # kb /\ ka \notin V /\ p[ka] = first[ka] /\ ka \in DOMAIN p
  BY <1>18, <1>19, <1>28, <1>29, <1>31
<1>34. \A c : c \in old => c \notin {u[x] : x \in 1..na} \cup {v[x] : x \in 1..nb}
  BY <1>20, <1>30
<1>35. \A c \in Ids(m, "column") : c \in old
  BY <1>2, IdIn
<1>36. RefersIn(p, m, i, P, n, A)
  <2>1. ASSUME NEW x \in 1..na
        PROVE  <<"column", u[x]>> \in DOMAIN p /\ p[<<"column", u[x]>>].tableId = n /\ u[x] \notin Ids(m, "column")
    <3>1. <<"column", u[x]>> \in U
      BY <1>18 DEF Listed
    <3> QED BY <1>19, <1>20, <1>29, <1>32, <1>35, <3>1
  <2>2. p[ka] = NewRelationship(P, n, TRUE, Mappings(u, pa, na))
    BY <1>19, <1>33
  <2>3. NewColumns(p, m, u, na, n)
    BY <2>1 DEF NewColumns
  <2>4. KeyOrder(pa, na, A)
    BY <1>13, <1>15 DEF KeyOrder
  <2> QED BY <1>3, <1>17, <1>18, <1>27, <1>33, <2>2, <2>3, <2>4, RefersMade
<1>37. RefersIn(p, m, j, Q, n, B)
  <2>1. ASSUME NEW x \in 1..nb
        PROVE  <<"column", v[x]>> \in DOMAIN p /\ p[<<"column", v[x]>>].tableId = n /\ v[x] \notin Ids(m, "column")
    <3>1. <<"column", v[x]>> \in V
      BY <1>28 DEF Listed
    <3> QED BY <1>29, <1>30, <1>35, <3>1
  <2>2. kb \in DOMAIN p /\ p[kb] = NewRelationship(Q, n, TRUE, Mappings(v, pb, nb))
    BY <1>29
  <2>3. NewColumns(p, m, v, nb, n)
    BY <2>1 DEF NewColumns
  <2>4. KeyOrder(pb, nb, B)
    BY <1>23, <1>25 DEF KeyOrder
  <2> QED BY <1>3, <1>27, <1>28, <2>2, <2>3, <2>4, RefersMade
<1>38. ColumnsOf(p, n) = PkColumns(p, n)
  <2>1. ASSUME NEW c \in ColumnsOf(p, n) PROVE c \in PkColumns(p, n)
    <3>0. PICK y : y = <<"column", c>>
      OBVIOUS
    <3>1. y = <<"column", c>> /\ y[1] = "column" /\ y # ka /\ y # kb
      BY <1>18, <1>28, <3>0
    <3>2. y \in DOMAIN p /\ p[y].tableId = n
      BY <1>27, <2>1, <3>1, ColumnAt
    <3>3. CASE y \in U \cup V
      <4>1. p[y].isPk = TRUE
        BY <1>19, <1>29, <1>32, <3>3
      <4> QED BY <1>27, <3>1, <3>2, <4>1, ColumnAt
    <3>4. CASE y \notin U \cup V
      <4>1. y \in DOMAIN table /\ p[y] = table[y]
        BY <1>19, <1>29, <3>1, <3>2, <3>4
      <4>2. y \in DOMAIN m /\ m[y].tableId = n
        BY <1>11, <3>1, <3>2, <4>1
      <4>3. Sound(m, y)
        BY <1>2, <4>2, Integral DEF Whole
      <4>4. <<"table", n>> \in DOMAIN m
        BY <3>1, <4>2, <4>3 DEF Sound, Has
      <4> QED BY <1>2, <4>4, IdIn
    <3> QED BY <3>3, <3>4
  <2> QED BY <2>1 DEF PkColumns
<1>39. r \notin Ids(p, "relationship")
  <2>1. Spare(m[k].columnMappings, C) = {}
    BY <1>4, <1>6 DEF Spare
  <2>2. k[1] = "relationship" /\ k # l /\ k # ka /\ k # kb
    BY <1>1, <1>4, <1>18, <1>28
  <2>3. k \notin DOMAIN freed
    BY <1>4, <1>9, <2>1, <2>2 DEF ColumnsGone
  <2>4. k \notin DOMAIN p
    BY <1>9, <1>19, <1>21, <1>29, <1>31, <2>2, <2>3
  <2> QED BY <1>1, <1>27, <2>4, IdIn
<1>40. C \cap Ids(p, "column") = {}
  <2>1. ASSUME NEW c \in C PROVE c \notin Ids(p, "column")
    <3>0. PICK y : y = <<"column", c>>
      OBVIOUS
    <3>1. y = <<"column", c>> /\ y[2] = c /\ y # ka /\ y # kb
      BY <1>18, <1>28, <3>0
    <3>2. y \notin DOMAIN table /\ c \in old
      BY <1>7, <1>11, <3>1
    <3>3. y \notin DOMAIN p
      BY <1>19, <1>21, <1>29, <1>31, <3>1, <3>2
    <3> QED BY <1>27, <3>1, <3>3, IdIn
  <2> QED BY <2>1
<1>41. ASSUME NEW other \in Ids(m, "relationship"), NEW x \in Rel(m, other).columnMappings, x.child \notin C
       PROVE  other \in Ids(p, "relationship") /\ x \in Rel(p, other).columnMappings
  <2>0. PICK y : y = <<"relationship", other>>
    OBVIOUS
  <2>1. y = <<"relationship", other>> /\ y[1] = "relationship" /\ y[2] = other
    BY <2>0
  <2>2. y \in DOMAIN m /\ other \in old /\ m[y] = Rel(m, other)
    BY <1>2, <2>1, IdIn DEF Rel
  <2>3. other # r
    BY <1>6, <1>41
  <2>4. x.parent \notin C
    BY <1>1, <1>41, <2>3 DEF Resolvable, Downstream
  <2>5. x \in Spare(m[y].columnMappings, C)
    BY <1>41, <2>2, <2>4 DEF Spare
  <2>6. y \in DOMAIN freed /\ x \in freed[y].columnMappings
    BY <1>9, <2>1, <2>2, <2>5 DEF ColumnsGone
  <2>7. y # l /\ y # ka /\ y # kb
    BY <1>1, <1>18, <1>28, <2>1, <2>2
  <2>8. y \notin U /\ y \notin V
    BY <1>21, <1>31, <2>1
  <2>9. y \in DOMAIN p /\ p[y] = freed[y]
    BY <1>9, <1>19, <1>29, <2>6, <2>7, <2>8
  <2> QED BY <1>27, <2>1, <2>6, <2>9, IdIn DEF Rel
<1> QED BY <1>1, <1>14, <1>24, <1>36, <1>37, <1>38, <1>39, <1>40, <1>41 DEF JunctionMade
-----------------------------------------------------------------------------
(* A clipboard, and a propagation.                                         *)
LEMMA PastedFits ==
  ASSUME NEW m, NEW t, NEW c, IsEntity("column", c), NEW order \in Int, NEW id
  PROVE  IsEntity("column", Pasted(m, t, c, order, id))
<1>1. PICK d : d = IF HasOrNone(m, "domain", c.domainId) THEN c.domainId ELSE None
  OBVIOUS
<1>2. PICK e : e = [c EXCEPT !.tableId = t, !.order = order, !.domainId = d]
  OBVIOUS
<1>3. DOMAIN c = {"tableId", "domainId", "isPk", "order", "name"}
  BY DEF IsEntity, FieldsOf
<1>4. DOMAIN e = DOMAIN c /\ e.order = order /\ e = [x \in DOMAIN e |-> e[x]]
  BY <1>2, <1>3
<1>5. IsEntity("column", e)
  BY <1>4 DEF IsEntity, IsFunction
<1> QED BY <1>1, <1>2, <1>5 DEF Pasted

NewIdsFrom(ids, n, given) ==
    n \in Nat /\ DOMAIN ids = 1..n /\ Len(ids) = n /\ \A i \in 1..n : ids[i] \in given

LEMMA NewIdsAreNew ==
  ASSUME NEW from \in Int, from >= -1, NEW n \in Nat, NEW more \in Nat, from + n < more, NEW ids, ids = NewIds(from, n)
  PROVE  NewIdsFrom(ids, n, Below(more)) /\ IdList(ids, Below(more)) /\ \A i \in 1..n : ids[i] = from + i
<1>1. DOMAIN ids = 1..n /\ \A i \in 1..n : ids[i] = from + i
  BY DEF NewIds
<1>2. Len(ids) = n
  BY <1>1 DEF NewIds
<1>3. \A i \in 1..n : ids[i] \in Below(more)
  BY <1>1 DEF Below
<1>4. \A i, j \in 1..n : ids[i] = ids[j] => i = j
  BY <1>1
<1> QED BY <1>1, <1>2, <1>3, <1>4 DEF NewIdsFrom, IdList

LEMMA KeysFinite ==
  ASSUME NEW kind, NEW ids, NEW n \in Nat, DOMAIN ids = 1..n
  PROVE  /\ IsFiniteSet(Keys(kind, Range(ids)))
         /\ \A k \in Keys(kind, Range(ids)) :
               k = <<k[1], k[2]>> /\ k[1] = kind /\ \E i \in 1..n : k[2] = ids[i]
<1>1. Keys(kind, Range(ids)) = Listed(kind, ids, 1..n)
  <2>1. \A i : i \in Range(ids) <=> \E j \in 1..n : i = ids[j]
    BY DEF Range
  <2> QED BY <2>1 DEF Keys, Listed
<1>2. IsFiniteSet(Keys(kind, Range(ids)))
  BY <1>1, ListedFinite
<1>3. \A k \in Keys(kind, Range(ids)) :
         k = <<k[1], k[2]>> /\ k[1] = kind /\ \E i \in 1..n : k[2] = ids[i]
  BY <1>1 DEF Listed
<1> QED BY <1>2, <1>3

(* The columns of a clipboard.                                             *)
Columns(cs) == Len(cs) \in Nat /\ DOMAIN cs = 1..Len(cs) /\ \A i \in 1..Len(cs) : IsEntity("column", cs[i])

LEMMA PasteTable ==
  ASSUME NEW m, NEW given, WellTyped(m, given), Mapped(m), NEW n \in given,
         NEW copy, Columns(copy.columns), NEW c, c = Len(copy.columns),
         NEW ids, NewIdsFrom(ids, c, given), NEW x, NEW indexIds, NewIdsFrom(indexIds, x, given)
  PROVE  Planned(pasteTable(m, copy, n, ids, indexIds), given)
<1>2. PICK cols : cols = [k \in Keys("column", Range(ids)) |->
            LET i == CHOOSE i \in DOMAIN ids : ids[i] = k[2] IN Pasted(m, n, copy.columns[i], i - 1, k[2])]
  OBVIOUS
<1>3. PICK inds : inds = [k \in Keys("index", Range(indexIds)) |->
            [tableId |-> n, columns |-> {ids[i] : i \in copy.indexes[CHOOSE j \in DOMAIN indexIds : indexIds[j] = k[2]]}]]
  OBVIOUS
<1>4. PICK p, q, k, e : /\ p = Put(m, cols) /\ q = Put(p, inds) /\ k = <<"table", n>>
                        /\ e = [groupId |-> None, name |-> SuffixOf(n)]
  OBVIOUS
<1>5. pasteTable(m, copy, n, ids, indexIds) = With(q, k, e)
  BY <1>2, <1>3, <1>4 DEF pasteTable
<1>6. IsFiniteSet(DOMAIN cols) /\ Fits(cols, given)
  <2>1. DOMAIN cols = Keys("column", Range(ids)) /\ c \in Nat /\ DOMAIN ids = 1..c
    BY <1>2 DEF NewIdsFrom
  <2>2. IsFiniteSet(DOMAIN cols)
    BY <2>1, KeysFinite
  <2>3. ASSUME NEW l \in DOMAIN cols PROVE l = <<l[1], l[2]>> /\ l[2] \in given /\ IsEntity(l[1], cols[l])
    <3>1. l = <<l[1], l[2]>> /\ l[1] = "column" /\ \E i \in 1..c : l[2] = ids[i]
      BY <2>1, KeysFinite
    <3>2. PICK i : i = CHOOSE y \in DOMAIN ids : ids[y] = l[2]
      OBVIOUS
    <3>3. i \in 1..c /\ l[2] = ids[i] /\ l[2] \in given
      BY <2>1, <3>1, <3>2 DEF NewIdsFrom
    <3>4. cols[l] = Pasted(m, n, copy.columns[i], i - 1, l[2])
      BY <1>2, <3>2
    <3>5. IsEntity("column", copy.columns[i]) /\ i - 1 \in Int
      BY <3>3 DEF Columns
    <3>6. IsEntity("column", cols[l])
      BY <3>4, <3>5, PastedFits
    <3> QED BY <3>1, <3>3, <3>6
  <2> QED BY <2>2, <2>3 DEF Fits
<1>7. WellTyped(p, given)
  BY <1>4, <1>6, Puts
<1>8. IsFiniteSet(DOMAIN inds) /\ Fits(inds, given)
  <2>1. DOMAIN inds = Keys("index", Range(indexIds)) /\ x \in Nat /\ DOMAIN indexIds = 1..x
    BY <1>3 DEF NewIdsFrom
  <2>2. IsFiniteSet(DOMAIN inds)
    BY <2>1, KeysFinite
  <2>3. ASSUME NEW l \in DOMAIN inds PROVE l = <<l[1], l[2]>> /\ l[2] \in given /\ IsEntity(l[1], inds[l])
    <3>1. l = <<l[1], l[2]>> /\ l[1] = "index" /\ \E i \in 1..x : l[2] = indexIds[i]
      BY <2>1, KeysFinite
    <3>2. PICK S : inds[l] = [tableId |-> n, columns |-> S]
      BY <1>3
    <3>3. IsEntity("index", inds[l])
      BY <3>2 DEF IsEntity, IsFunction, FieldsOf, ENTITY_KINDS, Range
    <3> QED BY <3>1, <3>3 DEF NewIdsFrom
  <2> QED BY <2>2, <2>3 DEF Fits
<1>9. WellTyped(q, given)
  BY <1>4, <1>7, <1>8, Puts
<1>10. IsEntity("table", e)
  BY <1>4 DEF IsEntity, IsFunction, FieldsOf, ENTITY_KINDS, Range
<1>11. WellTyped(With(q, k, e), given)
  <2>1. PICK w : w = With(q, k, e)
    OBVIOUS
  <2>2. WellTyped(w, given)
    BY <1>4, <1>9, <1>10, <2>1, Withs
  <2> QED BY <2>1, <2>2
<1>12. Mapped(With(q, k, e))
  <2>1. PICK w : w = With(q, k, e)
    OBVIOUS
  <2>2. \A l \in DOMAIN cols : l[1] = "column"
    BY <1>2 DEF Keys
  <2>3. \A l \in DOMAIN inds : l[1] = "index"
    BY <1>3 DEF Keys
  <2>4. k[1] = "table" /\ k \notin DOMAIN cols /\ k \notin DOMAIN inds
    BY <1>4, <2>2, <2>3
  <2>5. \A l \in DOMAIN w : l[1] = "relationship" => l \in DOMAIN m /\ w[l] = m[l]
    BY <1>4, <2>1, <2>2, <2>3, <2>4 DEF With, Put
  <2> QED BY <2>1, <2>5 DEF Mapped, KeysOf
<1> QED BY <1>5, <1>11, <1>12 DEF Planned

LEMMA PasteColumns ==
  ASSUME NEW m, NEW given, WellTyped(m, given), Mapped(m), NEW t,
         NEW cs, Columns(cs), NEW c, c = Len(cs), NEW ids, NewIdsFrom(ids, c, given)
  PROVE  Planned(pasteColumns(m, cs, t, ids), given)
<1>2. CASE ~ Has(m, "table", t)
  BY <1>2 DEF pasteColumns, Planned
<1>3. CASE Has(m, "table", t)
  <2> DEFINE usedBy(i) == NamesIn(m, ColumnsOf(m, t)) \cup {cs[j].name : j \in 1..(i-1)}
             new(i, id) == [Pasted(m, t, cs[i], NextOrder(m, t) + i - 1, id)
                              EXCEPT !.isPk = FALSE, !.name = UniqueName(@, usedBy(i), id)]
  <2>1. PICK cols : cols = [k \in Keys("column", Range(ids)) |->
             LET i == CHOOSE i \in DOMAIN ids : ids[i] = k[2] IN new(i, k[2])]
    OBVIOUS
  <2>2. pasteColumns(m, cs, t, ids) = Put(m, cols)
    BY <1>3, <2>1 DEF pasteColumns
  <2>3. DOMAIN cols = Keys("column", Range(ids)) /\ c \in Nat /\ DOMAIN ids = 1..c
    BY <2>1 DEF NewIdsFrom
  <2>4. IsFiniteSet(DOMAIN cols)
    BY <2>3, KeysFinite
  <2>5. ASSUME NEW l \in DOMAIN cols PROVE l = <<l[1], l[2]>> /\ l[2] \in given /\ IsEntity(l[1], cols[l])
    <3>1. l = <<l[1], l[2]>> /\ l[1] = "column" /\ \E i \in 1..c : l[2] = ids[i]
      BY <2>3, KeysFinite
    <3>2. PICK i : i = CHOOSE y \in DOMAIN ids : ids[y] = l[2]
      OBVIOUS
    <3>3. i \in 1..c /\ l[2] = ids[i] /\ l[2] \in given
      BY <2>3, <3>1, <3>2 DEF NewIdsFrom
    <3>4. cols[l] = new(i, l[2])
      BY <2>1, <3>2
    <3>5. PICK v, place : v = usedBy(i) /\ place = NextOrder(m, t) + i - 1
      OBVIOUS
    <3>6. PICK col, name : col = Pasted(m, t, cs[i], place, l[2]) /\ name = UniqueName(col.name, v, l[2])
      OBVIOUS
    <3>7. IsEntity("column", cs[i]) /\ place \in Int
      BY <3>3, <3>5, NextIsPlace DEF Columns
    <3>8. IsEntity("column", col)
      BY <3>6, <3>7, PastedFits
    <3>9. PICK d, e : d = [col EXCEPT !["isPk"] = FALSE] /\ e = [d EXCEPT !["name"] = name]
      OBVIOUS
    <3>10. IsEntity("column", e)
      <4>1. ("isPk" = "order" => FALSE \in Int) /\ ("name" = "order" => name \in Int)
        OBVIOUS
      <4>2. IsEntity("column", d)
        BY <3>8, <3>9, <4>1, FieldSet
      <4> QED BY <3>9, <4>1, <4>2, FieldSet
    <3>11. DOMAIN col = {"tableId", "domainId", "isPk", "order", "name"}
      BY <3>8 DEF IsEntity, FieldsOf
    <3>12. [col EXCEPT !.isPk = FALSE, !.name = UniqueName(@, v, l[2])] = e
      BY <3>6, <3>9, <3>11
    <3> HIDE DEF usedBy
    <3>13. cols[l] = e
      BY <3>4, <3>5, <3>6, <3>12
    <3> QED BY <3>1, <3>3, <3>10, <3>13
  <2>6. Fits(cols, given)
    BY <2>5 DEF Fits
  <2>7. WellTyped(Put(m, cols), given)
    BY <2>4, <2>6, Puts
  <2>8. Mapped(Put(m, cols))
    <3>1. \A l \in DOMAIN cols : l[1] = "column"
      BY <2>3 DEF Keys
    <3> QED BY <3>1 DEF Put, Mapped, KeysOf
  <2> QED BY <2>2, <2>7, <2>8 DEF Planned
<1> QED BY <1>2, <1>3

LEMMA UpdateTerm ==
  ASSUME NEW m, NEW given, WellTyped(m, given), Mapped(m), NEW t, NEW new, IsEntity("term", new),
         NEW p, p = updateTerm(m, t, new)
  PROVE  WellTyped(p, given) /\ Mapped(p) /\ DOMAIN p = DOMAIN m /\ \A k \in DOMAIN m : k[1] # "term" => p[k] = m[k]
<1>1. PICK k, q : k = <<"term", t>> /\ q = With(m, k, new)
  OBVIOUS
<1>2. CASE k \notin DOMAIN m
  BY <1>1, <1>2 DEF updateTerm
<1>3. CASE k \in DOMAIN m
  <2>1. t \in given
    BY <1>1, <1>3 DEF WellTyped
  <2>2. WellTyped(q, given)
    BY <1>1, <2>1, Withs
  <2>3. k[1] = "term" /\ DOMAIN q = DOMAIN m /\ \A l \in DOMAIN m : l # k => q[l] = m[l]
    BY <1>1, <1>3 DEF With
  <2>4. Mapped(q)
    BY <2>3 DEF Mapped, KeysOf
  <2> QED BY <1>1, <1>3, <2>2, <2>3, <2>4 DEF updateTerm
<1> QED BY <1>2, <1>3

(* A propagation names a column once and a field once, and changes no      *)
(* column's place.                                                         *)
Entries(entries) ==
    /\ \A e, f \in entries : e.column = f.column => e = f
    /\ \A e \in entries : \A x \in e.changes :
          /\ x = [field |-> x.field, before |-> x.before, after |-> x.after]
          /\ x.field \in {"name", "domainId"} /\ x.after # x.before
          /\ \A y \in e.changes : y.field = x.field => y = x

Due(col, entries, c) == {x \in (CHOOSE e \in entries : e.column = c).changes : Still(col, x)}
AsForetold(col, due) ==
    [f \in DOMAIN col |-> IF \E x \in due : x.field = f THEN (CHOOSE x \in due : x.field = f).after ELSE col[f]]

NamedBy(entries, m) == Keys("column", {e.column : e \in entries}) \cap DOMAIN m

LEMMA Propagating ==
  ASSUME NEW m, NEW given, WellTyped(m, given), Mapped(m), NEW entries, Entries(entries),
         NEW p, p = applyTermPropagation(m, entries), NEW K, K = NamedBy(entries, m)
  PROVE  /\ WellTyped(p, given) /\ Mapped(p) /\ DOMAIN p = DOMAIN m
         /\ \A k \in DOMAIN m : p[k] = IF k \in K THEN AsForetold(m[k], Due(m[k], entries, k[2])) ELSE m[k]
<1>1. PICK cols : cols = [k \in K |-> AsForetold(m[k], Due(m[k], entries, k[2]))]
  OBVIOUS
<1>2. p = Put(m, cols)
  BY <1>1 DEF applyTermPropagation, AsForetold, Due, NamedBy
<1>3. DOMAIN cols = K /\ IsFiniteSet(K)
  BY <1>1, FS_Subset DEF WellTyped, NamedBy
<1>4. ASSUME NEW k \in K PROVE k = <<k[1], k[2]>> /\ k[1] = "column" /\ k[2] \in given /\ IsEntity(k[1], cols[k])
  <2>1. k[1] = "column" /\ \E e \in entries : e.column = k[2]
    BY <1>4 DEF Keys, NamedBy
  <2>2. k \in DOMAIN m /\ k = <<k[1], k[2]>> /\ k[2] \in given /\ IsEntity("column", m[k])
    BY <2>1 DEF WellTyped, NamedBy
  <2>3. PICK e, D : e \in entries /\ (e = CHOOSE y \in entries : y.column = k[2]) /\ D = Due(m[k], entries, k[2])
    BY <2>1
  <2>4. \A x \in D : x.field # "order"
    BY <2>3 DEF Entries, Due
  <2>5. cols[k] = AsForetold(m[k], D)
    BY <1>1, <2>3
  <2>6. DOMAIN cols[k] = DOMAIN m[k] /\ cols[k] = [f \in DOMAIN cols[k] |-> cols[k][f]]
    BY <2>5 DEF AsForetold
  <2>7. cols[k]["order"] = m[k]["order"]
    <3>1. "order" \in DOMAIN m[k]
      BY <2>2 DEF IsEntity, FieldsOf
    <3> QED BY <2>4, <2>5, <3>1 DEF AsForetold
  <2>8. IsEntity("column", cols[k])
    BY <2>2, <2>6, <2>7 DEF IsEntity, IsFunction
  <2> QED BY <2>1, <2>2, <2>8
<1>5. Fits(cols, given)
  BY <1>3, <1>4 DEF Fits
<1>6. WellTyped(p, given)
  BY <1>2, <1>3, <1>5, Puts
<1>7. K \subseteq DOMAIN m
  BY DEF NamedBy
<1>8. DOMAIN p = DOMAIN m /\ \A k \in DOMAIN m : p[k] = IF k \in K THEN cols[k] ELSE m[k]
  BY <1>2, <1>3, <1>7 DEF Put
<1>9. Mapped(p)
  BY <1>4, <1>8 DEF Mapped, KeysOf
<1> QED BY <1>1, <1>6, <1>8, <1>9

Foretold(entries, c) == UNION {e.changes : e \in {e \in entries : e.column = c}}

(* A field of a column changes as the dialog said, if it had not changed   *)
(* since.                                                                  *)
LEMMA Propagated ==
  ASSUME NEW m, NEW given, WellTyped(m, given), Mapped(m), NEW t, NEW new, IsEntity("term", new),
         NEW entries, Entries(entries), NEW q, q = updateTerm(m, t, new), NEW p, p = applyTermPropagation(q, entries),
         NEW c \in Ids(m, "column"), NEW f \in {"name", "domainId"},
         NEW due, due = Foretold(entries, c),
         NEW x, x = [field |-> f, before |-> Col(m, c)[f], after |-> Col(p, c)[f]]
  PROVE  IF Col(p, c)[f] # Col(m, c)[f] THEN x \in due ELSE ~ \E y \in due : y.field = f /\ y.before = x.before
<1>1. PICK k, K : k = <<"column", c>> /\ K = NamedBy(entries, q)
  OBVIOUS
<1>2. k \in DOMAIN m /\ k[1] = "column" /\ k[2] = c
  BY <1>1, IdIn
<1>3. WellTyped(q, given) /\ Mapped(q) /\ DOMAIN q = DOMAIN m /\ q[k] = m[k]
  BY <1>2, UpdateTerm
<1>4. p[k] = IF k \in K THEN AsForetold(m[k], Due(m[k], entries, c)) ELSE m[k]
  <2>1. \A l \in DOMAIN q : p[l] = IF l \in K THEN AsForetold(q[l], Due(q[l], entries, l[2])) ELSE q[l]
    BY <1>1, <1>3, Propagating
  <2> QED BY <1>2, <1>3, <2>1
<1>5. Col(p, c) = p[k] /\ Col(m, c) = m[k]
  BY <1>1 DEF Col
<1>6. f \in DOMAIN m[k]
  BY <1>2 DEF WellTyped, IsEntity, FieldsOf
<1>7. CASE ~ \E e \in entries : e.column = c
  <2>1. due = {}
    BY <1>7 DEF Foretold
  <2>2. k \notin K
    BY <1>1, <1>7 DEF Keys, NamedBy
  <2> QED BY <1>4, <1>5, <2>1, <2>2
<1>8. CASE \E e \in entries : e.column = c
  <2>1. PICK e \in entries : e.column = c
    BY <1>8
  <2>2. due = e.changes
    <3>1. {y \in entries : y.column = c} = {e}
      BY <2>1 DEF Entries
    <3>2. {y.changes : y \in {e}} = {e.changes}
      OBVIOUS
    <3> QED BY <3>1, <3>2 DEF Foretold
  <2>3. k \in K
    BY <1>1, <1>2, <1>3, <2>1 DEF Keys, NamedBy
  <2>4. (CHOOSE y \in entries : y.column = c) = e
    BY <2>1 DEF Entries
  <2>5. PICK D : D = {y \in due : Still(m[k], y)} /\ p[k] = AsForetold(m[k], D)
    BY <1>4, <2>2, <2>3, <2>4 DEF Due
  <2>6. p[k][f] = IF \E y \in D : y.field = f THEN (CHOOSE y \in D : y.field = f).after ELSE m[k][f]
    BY <1>6, <2>5 DEF AsForetold
  <2>7. ASSUME NEW y \in D, y.field = f
        PROVE  /\ y \in due /\ y.before = m[k][f] /\ p[k][f] = y.after /\ y.after # y.before
               /\ y = [field |-> f, before |-> y.before, after |-> y.after]
    <3>1. PICK z : z \in D /\ z.field = f /\ z = CHOOSE w \in D : w.field = f
      BY <2>7
    <3>2. y \in due /\ z \in due /\ y.before = m[k][f]
      BY <2>5, <2>7, <3>1 DEF Still
    <3>3. z = y /\ y.after # y.before /\ y = [field |-> y.field, before |-> y.before, after |-> y.after]
      BY <2>1, <2>2, <2>7, <3>1, <3>2 DEF Entries
    <3> QED BY <2>6, <2>7, <3>1, <3>2, <3>3
  <2>8. CASE p[k][f] # m[k][f]
    <3>1. PICK y \in D : y.field = f
      BY <2>6, <2>8
    <3>2. y = x /\ y \in due
      BY <1>5, <2>7, <3>1
    <3> QED BY <1>5, <2>8, <3>2
  <2>9. CASE p[k][f] = m[k][f]
    <3>1. ASSUME NEW y \in due, y.field = f, y.before = x.before PROVE FALSE
      <4>1. y \in D
        BY <1>5, <2>5, <3>1 DEF Still
      <4> QED BY <2>7, <2>9, <3>1, <4>1
    <3> QED BY <1>5, <2>9, <3>1
  <2> QED BY <2>8, <2>9
<1> QED BY <1>7, <1>8
-----------------------------------------------------------------------------
(* The ids given out.  Those of a junction on show are kept for it: no     *)
(* model has them until it is carried out.                                 *)
Reserved(shown) ==
    IF shown.kind = "junction"
    THEN {shown.id, shown.a.id, shown.b.id} \cup Range(shown.a.ids) \cup Range(shown.b.ids) ELSE {}
Given(shown, n) == Below(n) \ Reserved(shown)

(* What was shown names new ids, whole columns and known fields only.      *)
PlanFits(shown, n) ==
    /\ shown.kind = "connection" => shown.id \in Below(n) /\ IdList(shown.ids, Below(n))
    /\ shown.kind = "junction" =>
          /\ shown.id \in Below(n) /\ shown.a.id \in Below(n) /\ shown.b.id \in Below(n)
          /\ shown.a.id # shown.b.id
          /\ IdList(shown.a.ids, Below(n)) /\ IdList(shown.b.ids, Below(n))
          /\ \A x \in 1..Len(shown.a.ids), y \in 1..Len(shown.b.ids) : shown.a.ids[x] # shown.b.ids[y]
    /\ shown.kind = "term" => IsEntity("term", shown.new) /\ Entries(shown.entries)
    /\ shown.kind = "copy" => Columns(shown.columns) /\ Len(shown.indexes) \in Nat

EditInv == nextId \in Nat /\ Whole(model, Given(plan, nextId)) /\ ~ refused /\ PlanFits(plan, nextId)

LEMMA BelowMore ==
  ASSUME NEW n \in Nat, NEW more \in Nat, n <= more
  PROVE  Below(n) \subseteq Below(more)
  BY DEF Below

LEMMA FitsMore ==
  ASSUME NEW n \in Nat, NEW more \in Nat, n <= more, NEW shown, PlanFits(shown, n)
  PROVE  PlanFits(shown, more)
<1>1. Below(n) \subseteq Below(more)
  BY BelowMore
<1>2. \A ids : IdList(ids, Below(n)) => IdList(ids, Below(more))
  BY <1>1 DEF IdList
<1> QED BY <1>1, <1>2 DEF PlanFits

LEMMA WholeMore ==
  ASSUME NEW m, NEW given, NEW more, given \subseteq more, Whole(m, given)
  PROVE  Whole(m, more)
  BY Widened DEF Whole

LEMMA ReservedGiven ==
  ASSUME NEW shown, NEW n, PlanFits(shown, n)
  PROVE  Reserved(shown) \subseteq Below(n)
<1>1. CASE shown.kind = "junction"
  <2>1. Range(shown.a.ids) \subseteq Below(n) /\ Range(shown.b.ids) \subseteq Below(n)
    BY <1>1 DEF PlanFits, IdList, Range
  <2> QED BY <1>1, <2>1 DEF PlanFits, Reserved
<1> QED BY <1>1 DEF Reserved

(* newId() gives an id no model has and no plan keeps.                     *)
LEMMA NextIsFree ==
  ASSUME EditInv
  PROVE  nextId \notin Given(plan, nextId) /\ Given(plan, nextId) \cup {nextId} \subseteq Given(plan, nextId + 1)
<1>1. nextId \notin Below(nextId) /\ Below(nextId) \cup {nextId} \subseteq Below(nextId + 1)
  BY DEF EditInv, Below
<1>2. nextId \notin Reserved(plan)
  BY <1>1, ReservedGiven DEF EditInv
<1> QED BY <1>1, <1>2 DEF Given

LEMMA OfferedLands ==
  ASSUME ~ WellFormed(OpApplyError), EditInv, NEW p, NEW given, Whole(p, given), Mutate(p, TRUE)
  PROVE  model' = p /\ ~ refused'
<1>1. Landed(p) = p /\ p # OpApplyError
  <2>1. WellTyped(model, Given(plan, nextId)) /\ WellTyped(p, given) /\ validateModelIntegrity(p)
    BY DEF EditInv, Whole
  <2> QED BY <2>1, Lands
<1> QED BY <1>1 DEF Mutate, EditInv

LEMMA NowStays ==
  ASSUME ~ WellFormed(OpApplyError), EditInv, NEW p, Whole(p, Given(plan, nextId)), Now(p, 0)
  PROVE  EditInv'
<1>1. Mutate(p, TRUE) /\ nextId' = nextId /\ plan' = plan
  <2>1. nextId + 0 = nextId
    BY DEF EditInv
  <2> QED BY <2>1 DEF Now
<1>2. model' = p /\ ~ refused'
  BY <1>1, OfferedLands
<1> QED BY <1>1, <1>2 DEF EditInv

LEMMA NowNew ==
  ASSUME ~ WellFormed(OpApplyError), EditInv, NEW p, Whole(p, Given(plan, nextId) \cup {nextId}), Now(p, 1)
  PROVE  EditInv'
<1>1. Mutate(p, TRUE) /\ nextId' = nextId + 1 /\ plan' = plan /\ nextId \in Nat
  BY DEF Now, EditInv
<1>2. model' = p /\ ~ refused'
  BY <1>1, OfferedLands
<1>3. Whole(model', Given(plan, nextId + 1))
  BY <1>2, NextIsFree, WholeMore
<1>4. PlanFits(plan, nextId + 1)
  <2>1. nextId + 1 \in Nat /\ nextId <= nextId + 1
    BY <1>1
  <2> QED BY <1>1, <2>1, FitsMore DEF EditInv
<1> QED BY <1>1, <1>2, <1>3, <1>4 DEF EditInv

LEMMA ConfirmedLands ==
  ASSUME ~ WellFormed(OpApplyError), EditInv, NEW kind, NEW p, NEW ids \in Nat, NEW n, n = nextId + ids,
         Planned(p, Below(n)), Confirm(kind, p, ids)
  PROVE  EditInv' /\ (model' # model => model' = p /\ p # OpApplyError)
<1>1. Mutate(p, FALSE) /\ nextId' = n /\ plan' = NoPlan
  BY DEF Confirm
<1>2. nextId \in Nat /\ n \in Nat /\ nextId <= n
  BY DEF EditInv
<1>3. ~ refused'
  BY <1>1 DEF Mutate, EditInv
<1>4. Whole(model, Below(n))
  <2>1. Given(plan, nextId) \subseteq Below(n)
    BY <1>2, BelowMore DEF Given
  <2> QED BY <2>1, WholeMore DEF EditInv
<1>5. model' = IF Landed(p) = OpApplyError THEN model ELSE Landed(p)
  BY <1>1 DEF Mutate
<1>6. Whole(model', Below(n)) /\ (model' # model => model' = p /\ p # OpApplyError)
  <2>1. CASE p = OpApplyError
    BY <1>4, <1>5, <2>1 DEF Landed
  <2>2. CASE p # OpApplyError
    <3>1. WellTyped(p, Below(n)) /\ Mapped(p) /\ WellTyped(model, Below(n))
      BY <1>4, <2>2 DEF Planned, Whole
    <3>2. Landed(p) = IF validateModelIntegrity(p) THEN p ELSE OpApplyError
      BY <3>1, Lands
    <3> QED BY <1>4, <1>5, <2>2, <3>1, <3>2 DEF Whole
  <2> QED BY <2>1, <2>2
<1>7. PlanFits(plan', nextId') /\ Given(plan', nextId') = Below(n)
  BY <1>1 DEF PlanFits, NoPlan, Given, Reserved
<1> QED BY <1>1, <1>2, <1>3, <1>6, <1>7 DEF EditInv

LEMMA ShownFits ==
  ASSUME EditInv, NEW what, NEW ids \in Nat, NEW n, n = nextId + ids, PlanFits(what, n), Shown(what, ids),
         Reserved(what) \cap Below(nextId) = {}
  PROVE  EditInv'
<1>1. plan' = what /\ nextId' = n /\ model' = model /\ refused' = refused /\ plan = NoPlan
  BY DEF Shown
<1>2. nextId \in Nat /\ n \in Nat /\ nextId <= n
  BY DEF EditInv
<1>3. Given(plan, nextId) \subseteq Given(what, n)
  BY <1>2, BelowMore DEF Given
<1>4. Whole(model, Given(what, n))
  BY <1>3, WholeMore DEF EditInv
<1> QED BY <1>1, <1>2, <1>4 DEF EditInv
-----------------------------------------------------------------------------
(* One step of a session after the other.                                  *)
LEMMA EditTablesStep ==
  ASSUME ~ WellFormed(OpApplyError), EditInv, EditTables
  PROVE  EditInv'
<1>1. PICK given : given = Given(plan, nextId) /\ Whole(model, given) /\ nextId \notin given
  BY NextIsFree DEF EditInv
<1>2. CASE Now(addTable(model, nextId), 1)
  BY <1>1, <1>2, AddTable, NowNew
<1>3. ASSUME NEW t \in Ids(model, "table"), Now(deleteTableCascade(model, t), 0) PROVE EditInv'
  BY <1>1, <1>3, DeleteTable, NowStays
<1>4. ASSUME NEW t \in Ids(model, "table"), Now(addColumn(model, t, nextId), 1) PROVE EditInv'
  BY <1>1, <1>4, AddColumn, NowNew
<1>5. ASSUME NEW t \in Ids(model, "table"), NEW c \in ColumnsOf(model, t), Now(createIndex(model, t, nextId, {c}), 1)
      PROVE  EditInv'
  BY <1>1, <1>5, CreateIndex, NowNew
<1>6. ASSUME NEW t \in Ids(model, "table"), NEW g, Now(setTableGroup(model, t, g), 0) PROVE EditInv'
  BY <1>1, <1>6, SetTableGroup, NowStays
<1>7. ASSUME NEW i \in KeysOf(model, "index"), Now(Drop(model, {i}), 0) PROVE EditInv'
  BY <1>1, <1>7, DropIndex, NowStays
<1>8. ASSUME NEW g \in Ids(model, "tableGroup"), Now(deleteGroup(model, g), 0) PROVE EditInv'
  BY <1>1, <1>8, DeleteGroup, NowStays
<1> QED BY <1>2, <1>3, <1>4, <1>5, <1>6, <1>7, <1>8 DEF EditTables

LEMMA EditColumnsStep ==
  ASSUME ~ WellFormed(OpApplyError), EditInv, EditColumns
  PROVE  EditInv'
<1>1. PICK given : given = Given(plan, nextId) /\ Whole(model, given)
  BY DEF EditInv
<1>2. PICK c \in Ids(model, "column") :
          \/ Now(deleteColumnCascade(model, c), 0)
          \/ Now(updateColumn(model, c, "isPk", ~ Col(model, c).isPk), 0)
          \/ \E n \in Names : Now(updateColumn(model, c, "name", n), 0)
          \/ \E d \in Ids(model, "domain") \cup {None} : Now(updateColumn(model, c, "domainId", d), 0)
          \/ \E dir \in {-1, 1} : Now(reorderColumn(model, c, dir), 0)
  BY DEF EditColumns
<1>3. CASE Now(deleteColumnCascade(model, c), 0)
  BY <1>1, <1>3, DeleteColumn, NowStays
<1>4. CASE Now(updateColumn(model, c, "isPk", ~ Col(model, c).isPk), 0)
  <2>1. PICK v : v = ~ Col(model, c).isPk
    OBVIOUS
  <2>2. Whole(updateColumn(model, c, "isPk", v), given)
    BY <1>1, UpdateColumn
  <2> QED BY <1>1, <1>4, <2>1, <2>2, NowStays
<1>5. ASSUME NEW n \in Names, Now(updateColumn(model, c, "name", n), 0) PROVE EditInv'
  <2>1. Whole(updateColumn(model, c, "name", n), given)
    BY <1>1, UpdateColumn
  <2> QED BY <1>1, <1>5, <2>1, NowStays
<1>6. ASSUME NEW d \in Ids(model, "domain") \cup {None}, Now(updateColumn(model, c, "domainId", d), 0) PROVE EditInv'
  <2>1. HasOrNone(model, "domain", d)
    BY <1>1, Entity DEF HasOrNone, Has
  <2>2. Whole(updateColumn(model, c, "domainId", d), given)
    BY <1>1, <2>1, UpdateColumn
  <2> QED BY <1>1, <1>6, <2>2, NowStays
<1>7. ASSUME NEW dir \in {-1, 1}, Now(reorderColumn(model, c, dir), 0) PROVE EditInv'
  BY <1>1, <1>7, Reorder, NowStays
<1> QED BY <1>2, <1>3, <1>4, <1>5, <1>6, <1>7

LEMMA RemoveDomainStep ==
  ASSUME ~ WellFormed(OpApplyError), EditInv, RemoveDomain
  PROVE  EditInv'
<1>1. PICK d \in Ids(model, "domain") : /\ usageOf(model, d) = {} /\ plan' = plan /\ nextId' = nextId
                                        /\ Mutate(removeDomain(model, d), TermsOf(model, d) = {})
  BY DEF RemoveDomain
<1>2. PICK p, given : p = removeDomain(model, d) /\ given = Given(plan, nextId)
  OBVIOUS
<1>3. Whole(model, given)
  BY <1>2 DEF EditInv
<1>4. CASE TermsOf(model, d) = {}
  <2>1. Whole(p, given)
    BY <1>1, <1>2, <1>3, <1>4, RemoveDomainWhole
  <2>2. Mutate(p, TRUE)
    BY <1>1, <1>2, <1>4 DEF Mutate
  <2>3. model' = p /\ ~ refused'
    BY <2>1, <2>2, OfferedLands
  <2> QED BY <1>1, <1>2, <2>1, <2>3 DEF EditInv
<1>5. CASE TermsOf(model, d) # {}
  <2>1. p = Drop(model, {<<"domain", d>>})
    BY <1>1, <1>2 DEF removeDomain
  <2>2. WellTyped(p, given) /\ WellTyped(model, given) /\ Mapped(p)
    <3>1. WellTyped(model, given) /\ Mapped(model)
      BY <1>3 DEF Whole
    <3>2. PICK K : K = {<<"domain", d>>} /\ p = Drop(model, K)
      BY <2>1
    <3>3. WellTyped(p, given)
      BY <3>1, <3>2, Drops
    <3>4. DOMAIN p \subseteq DOMAIN model /\ \A k \in DOMAIN p : p[k] = model[k]
      BY <3>2 DEF Drop
    <3> QED BY <3>1, <3>3, <3>4 DEF Mapped, KeysOf
  <2>3. Landed(p) = IF validateModelIntegrity(p) THEN p ELSE OpApplyError
    BY <2>2, Lands
  <2>4. ~ refused' /\ model' = IF Landed(p) = OpApplyError THEN model ELSE Landed(p)
    BY <1>1, <1>2, <1>5 DEF Mutate, EditInv
  <2>5. Whole(model', given)
    BY <1>3, <2>2, <2>3, <2>4 DEF Whole
  <2> QED BY <1>1, <1>2, <2>4, <2>5 DEF EditInv
<1> QED BY <1>4, <1>5

LEMMA EditRelationshipsStep ==
  ASSUME ~ WellFormed(OpApplyError), EditInv, EditRelationships
  PROVE  EditInv'
<1>1. PICK given : given = Given(plan, nextId) /\ Whole(model, given)
  BY DEF EditInv
<1>2. PICK r \in Ids(model, "relationship") :
        \/ Now(deleteRelationship(model, r), 0)
        \/ Now(setRelationshipIdentifying(model, r, ~ Rel(model, r).identifying), 0)
        \/ \E x \in Rel(model, r).columnMappings, c \in ColumnsOf(model, Rel(model, r).childTableId) :
              Now(remapRelationshipChildColumn(model, r, x.parent, c), 0)
  BY DEF EditRelationships
<1>3. CASE Now(deleteRelationship(model, r), 0)
  BY <1>1, <1>3, DeleteRelationship, NowStays
<1>4. CASE Now(setRelationshipIdentifying(model, r, ~ Rel(model, r).identifying), 0)
  <2>1. PICK v : v = ~ Rel(model, r).identifying
    OBVIOUS
  <2>2. Whole(setRelationshipIdentifying(model, r, v), given)
    BY <1>1, SetIdentifying
  <2> QED BY <1>1, <1>4, <2>1, <2>2, NowStays
<1>5. ASSUME NEW x \in Rel(model, r).columnMappings, NEW c \in ColumnsOf(model, Rel(model, r).childTableId),
             Now(remapRelationshipChildColumn(model, r, x.parent, c), 0)
      PROVE  EditInv'
  BY <1>1, <1>5, Remap, NowStays
<1> QED BY <1>2, <1>3, <1>4, <1>5

LEMMA CountOfColumns ==
  ASSUME EditInv, NEW C, C \subseteq Ids(model, "column")
  PROVE  Cardinality(C) \in Nat
  BY InOrderFacts DEF EditInv, Whole

LEMMA PlanConnectionStep ==
  ASSUME EditInv, planConnection
  PROVE  EditInv'
<1>1. PICK parent, child, n, what :
          /\ n = Cardinality(PkColumns(model, parent))
          /\ what = [kind |-> "connection", parent |-> parent, child |-> child, id |-> nextId, ids |-> NewIds(nextId, n)]
          /\ Shown(what, n + 1)
  BY DEF planConnection
<1>2. n \in Nat /\ nextId \in Nat
  <2>1. PkColumns(model, parent) \subseteq Ids(model, "column")
    BY DEF PkColumns, ColumnsOf
  <2> QED BY <1>1, <2>1, CountOfColumns DEF EditInv
<1>3. PICK more, ids : more = nextId + (n + 1) /\ ids = NewIds(nextId, n)
  OBVIOUS
<1>4. IdList(ids, Below(more))
  <2>1. more \in Nat /\ nextId + n < more /\ nextId \in Int /\ nextId >= -1
    BY <1>2, <1>3
  <2> QED BY <1>2, <1>3, <2>1, NewIdsAreNew
<1>5. nextId \in Below(more) /\ n + 1 \in Nat
  BY <1>2, <1>3 DEF Below
<1>6. PlanFits(what, more) /\ Reserved(what) = {}
  BY <1>1, <1>3, <1>4, <1>5 DEF PlanFits, Reserved
<1> QED BY <1>1, <1>3, <1>5, <1>6, ShownFits

LEMMA PlanJunctionStep ==
  ASSUME EditInv, planJunction
  PROVE  EditInv'
<1>1. PICK r, g, n, k, what :
          /\ n = Cardinality(PkColumns(model, Rel(model, r).parentTableId))
          /\ k = Cardinality(KeyLeft(model, Rel(model, r)))
          /\ what = [kind |-> "junction", of |-> r, id |-> nextId, group |-> g,
                     a |-> [id |-> nextId + 1, ids |-> NewIds(nextId + 1, n)],
                     b |-> [id |-> nextId + n + 2, ids |-> NewIds(nextId + n + 2, k)]]
          /\ Shown(what, n + k + 3)
  BY DEF planJunction
<1>2. n \in Nat /\ k \in Nat /\ nextId \in Nat
  <2>1. /\ PkColumns(model, Rel(model, r).parentTableId) \subseteq Ids(model, "column")
        /\ KeyLeft(model, Rel(model, r)) \subseteq Ids(model, "column")
    BY DEF KeyLeft, PkColumns, ColumnsOf
  <2> QED BY <1>1, <2>1, CountOfColumns DEF EditInv
<1>3. PICK more, i, j, a, b : /\ more = nextId + (n + k + 3) /\ i = nextId + 1 /\ j = nextId + n + 2
                              /\ a = NewIds(i, n) /\ b = NewIds(j, k)
  OBVIOUS
<1>4. /\ more \in Nat /\ i \in Int /\ j \in Int /\ i >= -1 /\ j >= -1 /\ i # j
      /\ i + n < more /\ j + k < more /\ n + k + 3 \in Nat
  BY <1>2, <1>3
<1>5. IdList(a, Below(more)) /\ IdList(b, Below(more)) /\ Len(a) = n /\ Len(b) = k
  <2>1. NewIdsFrom(a, n, Below(more)) /\ IdList(a, Below(more))
    BY <1>2, <1>3, <1>4, NewIdsAreNew
  <2>2. NewIdsFrom(b, k, Below(more)) /\ IdList(b, Below(more))
    BY <1>2, <1>3, <1>4, NewIdsAreNew
  <2>3. Len(a) = n /\ Len(b) = k
    BY <1>2, <1>3 DEF NewIds
  <2> QED BY <2>1, <2>2, <2>3
<1>6. nextId \in Below(more) /\ i \in Below(more) /\ j \in Below(more)
  BY <1>2, <1>3 DEF Below
<1>7. DOMAIN a = 1..n /\ DOMAIN b = 1..k /\ (\A x \in 1..n : a[x] = i + x) /\ (\A y \in 1..k : b[y] = j + y)
  BY <1>3 DEF NewIds
<1>8. ASSUME NEW x \in 1..n, NEW y \in 1..k PROVE a[x] # b[y]
  <2>1. a[x] = i + x /\ b[y] = j + y
    BY <1>7
  <2>2. i + x # j + y
    BY <1>2, <1>3
  <2> QED BY <2>1, <2>2
<1>9. PlanFits(what, more)
  <2>1. what.kind = "junction" /\ what.id = nextId
    BY <1>1
  <2>2. what.a.id = i /\ what.a.ids = a
    BY <1>1, <1>3
  <2>3. what.b.id = j /\ what.b.ids = b
    BY <1>1, <1>3
  <2> QED BY <1>4, <1>5, <1>6, <1>8, <2>1, <2>2, <2>3 DEF PlanFits
<1>10. Reserved(what) \cap Below(nextId) = {}
  <2>1. \A x \in Range(a) \cup Range(b) : x \in Int /\ x >= nextId
    <3>1. i \in Int /\ i >= nextId /\ j \in Int /\ j >= nextId
      BY <1>2, <1>3
    <3>2. ASSUME NEW x \in 1..n PROVE a[x] \in Int /\ a[x] >= nextId
      BY <1>2, <1>7, <3>1
    <3>3. ASSUME NEW y \in 1..k PROVE b[y] \in Int /\ b[y] >= nextId
      BY <1>2, <1>7, <3>1
    <3>4. Range(a) = {a[x] : x \in 1..n} /\ Range(b) = {b[y] : y \in 1..k}
      BY <1>7 DEF Range
    <3> QED BY <3>2, <3>3, <3>4
  <2>2. \A x \in Reserved(what) : x \in Int /\ x >= nextId
    BY <1>1, <1>2, <1>3, <2>1 DEF Reserved
  <2> QED BY <1>2, <2>2 DEF Below
<1> QED BY <1>1, <1>3, <1>4, <1>9, <1>10, ShownFits

LEMMA Foretelling ==
  ASSUME NEW m, NEW c, NEW old, NEW new, NEW x \in PropagationOf(m, c, old, new)
  PROVE  /\ x = [field |-> x.field, before |-> x.before, after |-> x.after]
         /\ x.field \in {"name", "domainId"} /\ x.after # x.before
         /\ \A y \in PropagationOf(m, c, old, new) : y.field = x.field => y = x
  BY DEF PropagationOf

LEMMA PlanTermStep ==
  ASSUME EditInv, PlanTerm
  PROVE  EditInv'
<1>1. PICK t, n, d, new, entries, what :
          /\ new = [name |-> n, domainId |-> d] /\ entries = planTermPropagation(model, t, new)
          /\ what = [kind |-> "term", of |-> t, new |-> new, entries |-> entries] /\ Shown(what, 0)
  BY DEF PlanTerm
<1>2. IsEntity("term", new)
  BY <1>1 DEF IsEntity, IsFunction, FieldsOf, ENTITY_KINDS, Range
<1>3. Entries(entries)
  <2>1. PICK old : old = model[<<"term", t>>]
    OBVIOUS
  <2>2. \A e \in entries : e = [column |-> e.column, changes |-> PropagationOf(model, e.column, old, new)]
    BY <1>1, <2>1 DEF planTermPropagation
  <2>3. \A e, f \in entries : e.column = f.column => e = f
    BY <2>2
  <2>4. ASSUME NEW e \in entries, NEW x \in e.changes
        PROVE  /\ x = [field |-> x.field, before |-> x.before, after |-> x.after]
               /\ x.field \in {"name", "domainId"} /\ x.after # x.before
               /\ \A y \in e.changes : y.field = x.field => y = x
    <3>1. PICK P : P = PropagationOf(model, e.column, old, new) /\ e.changes = P
      BY <2>2
    <3> QED BY <3>1, <2>4, Foretelling
  <2> QED BY <2>3, <2>4 DEF Entries
<1>4. PlanFits(what, nextId) /\ Reserved(what) = {}
  BY <1>1, <1>2, <1>3 DEF PlanFits, Reserved
<1>5. nextId = nextId + 0
  BY DEF EditInv
<1> QED BY <1>1, <1>4, <1>5, ShownFits

LEMMA CopyStep ==
  ASSUME EditInv, Copy
  PROVE  EditInv'
<1> DEFINE positions(columns, cs) == {i \in DOMAIN columns : columns[i] \in cs}
<1>1. PICK t, s, I, cs, what :
          /\ s = InOrder(model, ColumnsOf(model, t)) /\ I = {k \in KeysOf(model, "index") : model[k].tableId = t}
          /\ cs = [i \in DOMAIN s |-> Col(model, s[i])]
          /\ what = [kind |-> "copy", columns |-> cs, indexes |-> SetToSeq({positions(s, model[k].columns) : k \in I})]
          /\ Shown(what, 0)
  BY DEF Copy
<1>2. PICK c \in Nat : s \in [1..c -> ColumnsOf(model, t)]
  <2>1. ColumnsOf(model, t) \subseteq Ids(model, "column")
    BY DEF ColumnsOf
  <2> QED BY <1>1, <2>1, InOrderFacts DEF EditInv, Whole
<1>3. Columns(cs)
  <2>1. DOMAIN cs = 1..c /\ Len(cs) = c
    BY <1>1, <1>2
  <2>2. \A i \in 1..c : s[i] \in Ids(model, "column")
    BY <1>2 DEF ColumnsOf
  <2>3. \A i \in 1..c : IsEntity("column", Col(model, s[i]))
    BY <2>2, ColumnFields DEF EditInv, Col
  <2> QED BY <1>1, <1>2, <2>1, <2>3 DEF Columns
<1>4. PICK f, V : f = [k \in I |-> positions(s, model[k].columns)] /\ V = {positions(s, model[k].columns) : k \in I}
  OBVIOUS
<1> HIDE DEF positions
<1>5. f \in Surjection(I, V)
  <2>1. f \in [I -> V] /\ \A v \in V : \E k \in I : f[k] = v
    BY <1>4
  <2> QED BY <2>1 DEF Surjection
<1>6. IsFiniteSet(V)
  <2>1. IsFiniteSet(I)
    BY <1>1, FS_Subset DEF KeysOf, EditInv, Whole, WellTyped
  <2> QED BY <1>5, <2>1, FS_Surjection
<1>7. PICK q : q = SetToSeq(V)
  OBVIOUS
<1>8. PICK n \in Nat : Once(q, n, V)
  BY <1>6, <1>7, ListedOnce
<1>9. Len(q) \in Nat
  BY <1>8 DEF Once
<1>10. PlanFits(what, nextId) /\ Reserved(what) = {}
  BY <1>1, <1>3, <1>4, <1>7, <1>9 DEF PlanFits, Reserved
<1>11. nextId = nextId + 0
  BY DEF EditInv, Whole
<1> QED BY <1>1, <1>10, <1>11, ShownFits

(* What is confirmed ends on the model it makes, or changes nothing.       *)
EndsOn(p) == model' # model => model' = p /\ p # OpApplyError

LEMMA Settled ==
  ASSUME ~ WellFormed(OpApplyError), EditInv, NEW kind, NEW p, Planned(p, Below(nextId)), Confirm(kind, p, 0)
  PROVE  EditInv' /\ EndsOn(p)
<1>1. nextId = nextId + 0
  BY DEF EditInv
<1> QED BY <1>1, ConfirmedLands DEF EndsOn

LEMMA TypedNow ==
  ASSUME EditInv
  PROVE  /\ nextId \in Nat /\ Given(plan, nextId) \subseteq Below(nextId)
         /\ Whole(model, Below(nextId)) /\ WellTyped(model, Below(nextId)) /\ Mapped(model)
<1>1. Given(plan, nextId) \subseteq Below(nextId)
  BY DEF Given
<1>2. Whole(model, Below(nextId))
  BY <1>1, WholeMore DEF EditInv
<1> QED BY <1>1, <1>2 DEF Whole, EditInv

LEMMA ConnectStep ==
  ASSUME ~ WellFormed(OpApplyError), EditInv, Connect
  PROVE  EditInv'
<1>1. PICK p : /\ p = createRelationshipFromParentPk(model, plan.parent, plan.child, plan.id, plan.ids, FALSE)
               /\ Confirm("connection", p, 0)
  BY DEF Connect
<1>2. PICK given : given = Below(nextId)
  OBVIOUS
<1>3. WellTyped(model, given) /\ Mapped(model) /\ plan.id \in given /\ IdList(plan.ids, given)
  BY <1>1, <1>2, TypedNow DEF EditInv, PlanFits, Confirm
<1>4. Planned(p, given)
  BY <1>1, <1>3, CreatingPlanned
<1> QED BY <1>1, <1>2, <1>4, Settled

LEMMA ResolveStep ==
  ASSUME ~ WellFormed(OpApplyError), EditInv, Resolve
  PROVE  EditInv' /\ EndsOn(resolveManyToMany(model, plan.of, plan.id, plan.group, plan.a, plan.b))
<1>1. PICK p : /\ p = resolveManyToMany(model, plan.of, plan.id, plan.group, plan.a, plan.b)
               /\ Confirm("junction", p, 0)
  BY DEF Resolve
<1>2. PICK given : given = Below(nextId)
  OBVIOUS
<1>3. /\ Whole(model, given) /\ plan.id \in given /\ plan.a.id \in given /\ plan.b.id \in given
      /\ IdList(plan.a.ids, given) /\ IdList(plan.b.ids, given)
  BY <1>1, <1>2, TypedNow DEF EditInv, PlanFits, Confirm
<1>4. Planned(p, given)
  BY <1>1, <1>3, Resolving
<1> QED BY <1>1, <1>2, <1>4, Settled

LEMMA ChangeTermStep ==
  ASSUME ~ WellFormed(OpApplyError), EditInv, ChangeTerm
  PROVE  EditInv' /\ EndsOn(applyTermPropagation(updateTerm(model, plan.of, plan.new), plan.entries))
<1>1. PICK q, p : /\ q = updateTerm(model, plan.of, plan.new) /\ p = applyTermPropagation(q, plan.entries)
                  /\ Confirm("term", p, 0)
  BY DEF ChangeTerm
<1>2. PICK given : given = Below(nextId)
  OBVIOUS
<1>3. WellTyped(model, given) /\ Mapped(model) /\ IsEntity("term", plan.new) /\ Entries(plan.entries)
  BY <1>1, <1>2, TypedNow DEF EditInv, PlanFits, Confirm
<1>4. WellTyped(q, given) /\ Mapped(q)
  BY <1>1, <1>3, UpdateTerm
<1>5. WellTyped(p, given) /\ Mapped(p)
  BY <1>1, <1>3, <1>4, Propagating
<1>6. Planned(p, given)
  BY <1>5 DEF Planned
<1> QED BY <1>1, <1>2, <1>6, Settled

LEMMA PasteStep ==
  ASSUME ~ WellFormed(OpApplyError), EditInv, Paste
  PROVE  EditInv'
<1>1. PICK n, k, ids, indexIds, some :
          /\ n = Len(plan.columns) /\ k = Len(plan.indexes)
          /\ ids = NewIds(nextId, n) /\ indexIds = NewIds(nextId + n, k) /\ some = NewIds(nextId - 1, n)
  OBVIOUS
<1>2. \/ Confirm("copy", pasteTable(model, plan, nextId, ids, indexIds), n + k + 1)
      \/ \E t \in Ids(model, "table") : Confirm("copy", pasteColumns(model, plan.columns, t, some), n)
  BY <1>1 DEF Paste
<1>3. /\ n \in Nat /\ k \in Nat /\ nextId \in Nat /\ Columns(plan.columns)
      /\ WellTyped(model, Below(nextId)) /\ Mapped(model)
  BY <1>1, <1>2, TypedNow DEF EditInv, PlanFits, Confirm, Columns
<1>4. CASE Confirm("copy", pasteTable(model, plan, nextId, ids, indexIds), n + k + 1)
  <2>1. PICK p, more, j : /\ p = pasteTable(model, plan, nextId, ids, indexIds) /\ more = nextId + (n + k + 1)
                          /\ j = nextId + n
    OBVIOUS
  <2>2. /\ more \in Nat /\ n + k + 1 \in Nat /\ nextId < more /\ nextId + n < more /\ j + k < more
        /\ j \in Int /\ j >= -1 /\ nextId >= -1
    BY <1>3, <2>1
  <2>3. PICK given : given = Below(more)
    OBVIOUS
  <2>4. NewIdsFrom(ids, n, given) /\ NewIdsFrom(indexIds, k, given)
    <3>1. indexIds = NewIds(j, k)
      BY <1>1, <2>1
    <3>2. NewIdsFrom(indexIds, k, given)
      BY <1>3, <2>2, <2>3, <3>1, NewIdsAreNew
    <3>3. NewIdsFrom(ids, n, given)
      BY <1>1, <1>3, <2>2, <2>3, NewIdsAreNew
    <3> QED BY <3>2, <3>3
  <2>5. WellTyped(model, given) /\ nextId \in given
    <3>1. Below(nextId) \subseteq given /\ nextId \in given
      BY <1>3, <2>2, <2>3 DEF Below
    <3> QED BY <1>3, <3>1, Widened
  <2>6. Planned(p, given)
    BY <1>1, <1>3, <2>1, <2>4, <2>5, PasteTable
  <2> QED BY <1>4, <2>1, <2>2, <2>3, <2>6, ConfirmedLands
<1>5. ASSUME NEW t \in Ids(model, "table"), Confirm("copy", pasteColumns(model, plan.columns, t, some), n) PROVE EditInv'
  <2>1. PICK p, more, j : /\ p = pasteColumns(model, plan.columns, t, some) /\ more = nextId + n /\ j = nextId - 1
    OBVIOUS
  <2>2. more \in Nat /\ nextId <= more /\ j + n < more /\ j \in Int /\ j >= -1
    BY <1>3, <2>1
  <2>3. PICK given : given = Below(more)
    OBVIOUS
  <2>4. NewIdsFrom(some, n, given)
    <3>1. some = NewIds(j, n)
      BY <1>1, <2>1
    <3> QED BY <1>3, <2>2, <2>3, <3>1, NewIdsAreNew
  <2>5. WellTyped(model, given)
    <3>1. Below(nextId) \subseteq given
      BY <1>3, <2>2, <2>3 DEF Below
    <3> QED BY <1>3, <3>1, Widened
  <2>6. Planned(p, given)
    BY <1>1, <1>3, <2>1, <2>4, <2>5, PasteColumns
  <2> QED BY <1>3, <1>5, <2>1, <2>3, <2>6, ConfirmedLands
<1> QED BY <1>2, <1>4, <1>5

LEMMA EditStep == ASSUME ~ WellFormed(OpApplyError), EditInv, [Next]_vars PROVE EditInv'
<1>1. CASE UNCHANGED vars
  BY <1>1 DEF vars, EditInv
<1>2. CASE EditTables
  BY <1>2, EditTablesStep
<1>3. CASE EditColumns
  BY <1>3, EditColumnsStep
<1>4. CASE RemoveDomain
  BY <1>4, RemoveDomainStep
<1>5. CASE EditRelationships
  BY <1>5, EditRelationshipsStep
<1>6. CASE planConnection
  BY <1>6, PlanConnectionStep
<1>7. CASE Connect
  BY <1>7, ConnectStep
<1>8. CASE planJunction
  BY <1>8, PlanJunctionStep
<1>9. CASE Resolve
  BY <1>9, ResolveStep
<1>10. CASE PlanTerm
  BY <1>10, PlanTermStep
<1>11. CASE ChangeTerm
  BY <1>11, ChangeTermStep
<1>12. CASE Copy
  BY <1>12, CopyStep
<1>13. CASE Paste
  BY <1>13, PasteStep
<1> QED BY <1>1, <1>2, <1>3, <1>4, <1>5, <1>6, <1>7, <1>8, <1>9, <1>10, <1>11, <1>12, <1>13 DEF Next

LEMMA EditBegins == ASSUME Init PROVE EditInv
<1>1. nextId \in Nat /\ Whole(model, Below(nextId)) /\ plan = NoPlan /\ ~ refused
  BY SessionsStartWhole DEF Init, Whole, Below
<1>2. PlanFits(plan, nextId) /\ Given(plan, nextId) = Below(nextId)
  BY <1>1 DEF NoPlan, PlanFits, Given, Reserved
<1> QED BY <1>1, <1>2 DEF EditInv

(* OfferedEditsLand, of any length of session, on any whole models: every  *)
(* edit the editor offers of what is there leaves a whole model behind, so *)
(* applyOps takes its ops (use-mutate.ts, op.ts:66) - whichever plans were *)
(* shown and confirmed, refused or overtaken in between.                   *)
THEOREM OfferedEditsLandAlways ==
  ASSUME ~ WellFormed(OpApplyError)
  PROVE  Spec => []OfferedEditsLand
<1>1. Init => EditInv
  BY EditBegins
<1>2. EditInv /\ [Next]_vars => EditInv'
  BY EditStep
<1>3. EditInv => OfferedEditsLand
  BY DEF EditInv, OfferedEditsLand
<1> QED BY <1>1, <1>2, <1>3, PTL DEF Spec

(* The project model stays whole through a session: typed, and without a   *)
(* dangling reference (integrity.ts).                                      *)
THEOREM ModelsStayWhole ==
  ASSUME ~ WellFormed(OpApplyError)
  PROVE  Spec => []validateModelIntegrity(model)
<1>1. Init => EditInv
  BY EditBegins
<1>2. EditInv /\ [Next]_vars => EditInv'
  BY EditStep
<1>3. EditInv => validateModelIntegrity(model)
  BY DEF EditInv, Whole
<1> QED BY <1>1, <1>2, <1>3, PTL DEF Spec

(* What the button or the dialog showed is what a confirmation carries     *)
(* out, on the model of now.                                               *)
LEMMA ResolvedAsShown ==
  ASSUME ~ WellFormed(OpApplyError), EditInv, Resolve, model' # model
  PROVE  Junction(Rel(model, plan.of))
<1>1. PICK m, p, r, rel, n, i, j :
          /\ m = model /\ p = resolveManyToMany(m, plan.of, plan.id, plan.group, plan.a, plan.b)
          /\ r = plan.of /\ rel = Rel(m, r) /\ n = plan.id /\ i = plan.a.id /\ j = plan.b.id
  OBVIOUS
<1>2. PICK u, v, old, given : /\ u = plan.a.ids /\ v = plan.b.ids
                              /\ old = Given(plan, nextId) /\ given = Below(nextId)
  OBVIOUS
<1>3. model' = p /\ p # OpApplyError /\ p # m
  BY <1>1, ResolveStep DEF EndsOn
<1>4. Resolvable(m, r)
  BY <1>1, <1>3 DEF resolveManyToMany
<1>5. Whole(m, old) /\ old \subseteq given
  BY <1>1, <1>2, TypedNow DEF EditInv
<1>6. plan.kind = "junction" /\ PlanFits(plan, nextId)
  BY DEF Resolve, Confirm, EditInv
<1>7. /\ n \in given /\ i \in given /\ j \in given /\ i # j /\ IdList(u, given) /\ IdList(v, given)
      /\ \A x \in 1..Len(u), y \in 1..Len(v) : u[x] # v[y]
  BY <1>1, <1>2, <1>6 DEF PlanFits
<1>8. n \notin old /\ i \notin old /\ j \notin old /\ \A x \in Range(u) \cup Range(v) : x \notin old
  BY <1>1, <1>2, <1>6 DEF Given, Reserved
<1>9. IdList(u, given \ old) /\ IdList(v, given \ old)
  BY <1>7, <1>8 DEF IdList, Range
<1>10. JunctionMade(p, m, r, rel, n, i, j)
  BY <1>1, <1>2, <1>3, <1>4, <1>5, <1>7, <1>8, <1>9, Resolution
<1>11. \A id, parent, child, key : RefersIn(p, m, id, parent, child, key) => Refers(model', id, parent, child, key)
  BY <1>1, <1>3 DEF RefersIn, Refers, Parents
<1> QED BY <1>1, <1>3, <1>10, <1>11 DEF JunctionMade, Junction

(* Propagation, of one field of one column.                                *)
FieldFollows(c, f) ==
    LET due == UNION {e.changes : e \in {e \in plan.entries : e.column = c}}
        x == [field |-> f, before |-> Col(model, c)[f], after |-> Col(model', c)[f]]
    IN  IF Col(model', c)[f] # Col(model, c)[f] THEN x \in due
        ELSE ~ \E y \in due : y.field = f /\ y.before = x.before

LEMMA PropagatedAsShown ==
  ASSUME ~ WellFormed(OpApplyError), EditInv, ChangeTerm, model' # model
  PROVE  Propagation
<1>1. PICK q, p : q = updateTerm(model, plan.of, plan.new) /\ p = applyTermPropagation(q, plan.entries)
  OBVIOUS
<1>2. model' = p
  BY <1>1, ChangeTermStep DEF EndsOn
<1>3. PICK given : given = Below(nextId) /\ WellTyped(model, given) /\ Mapped(model)
  BY TypedNow
<1>4. IsEntity("term", plan.new) /\ Entries(plan.entries)
  BY DEF ChangeTerm, Confirm, EditInv, PlanFits
<1>5. ASSUME NEW c \in Ids(model, "column"), NEW f \in {"name", "domainId"} PROVE FieldFollows(c, f)
  <2>1. PICK due, x : /\ due = Foretold(plan.entries, c)
                      /\ x = [field |-> f, before |-> Col(model, c)[f], after |-> Col(p, c)[f]]
    OBVIOUS
  <2>2. IF Col(p, c)[f] # Col(model, c)[f] THEN x \in due ELSE ~ \E y \in due : y.field = f /\ y.before = x.before
    BY <1>1, <1>3, <1>4, <2>1, Propagated
  <2> QED BY <1>2, <2>1, <2>2 DEF FieldFollows, Foretold
<1> QED BY <1>5 DEF Propagation, FieldFollows

(* Only a confirmation takes a plan off the screen with a change.          *)
LEMMA ShownStep ==
  ASSUME ~ WellFormed(OpApplyError), EditInv, [Next]_vars,
         plan.kind \in {"junction", "term"}, plan' = NoPlan, model' # model
  PROVE  IF plan.kind = "junction" THEN Junction(Rel(model, plan.of)) ELSE Propagation
<1>1. plan' # plan
  BY DEF NoPlan
<1>2. ~ (EditTables \/ EditColumns \/ RemoveDomain \/ EditRelationships)
  BY <1>1 DEF EditTables, EditColumns, RemoveDomain, EditRelationships, Now
<1>3. ~ (planConnection \/ planJunction \/ PlanTerm \/ Copy)
  BY DEF planConnection, planJunction, PlanTerm, Copy, Shown
<1>4. ~ (Connect \/ Paste)
  BY DEF Connect, Paste, Confirm
<1>5. Resolve \/ ChangeTerm
  BY <1>1, <1>2, <1>3, <1>4 DEF Next, vars
<1>6. CASE Resolve
  BY <1>6, ResolvedAsShown DEF Resolve, Confirm
<1>7. CASE ChangeTerm
  BY <1>7, PropagatedAsShown DEF ChangeTerm, Confirm
<1> QED BY <1>5, <1>6, <1>7

(* ShownIsWhatHappens, of any length of session, on any whole models: a    *)
(* plan that waited for its confirmation while others edited is carried    *)
(* out as the screen showed it, on the model of now, or changes nothing    *)
(* (relationship.ts:231, dict-edits.ts:299).                               *)
THEOREM ShownIsWhatHappensAlways ==
  ASSUME ~ WellFormed(OpApplyError)
  PROVE  Spec => ShownIsWhatHappens
<1>1. Init => EditInv
  BY EditBegins
<1>2. EditInv /\ [Next]_vars => EditInv'
  BY EditStep
<1>3. EditInv /\ [Next]_vars =>
        [(plan.kind \in {"junction", "term"} /\ plan' = NoPlan /\ model' # model) =>
           IF plan.kind = "junction" THEN Junction(Rel(model, plan.of)) ELSE Propagation]_vars
  BY ShownStep
<1> QED BY <1>1, <1>2, <1>3, PTL DEF Spec, ShownIsWhatHappens
-----------------------------------------------------------------------------
(* The two names of a column or a table, and their fields.                *)
IsPair(pair) == pair = [s \in Sides |-> pair[s]]

(* A field differs from the model only while something will reconcile      *)
(* them: an edit in the chain changes the name, and the draft follows.     *)
Pending(s) == \E i \in DOMAIN chain :
    ~ Register(chain[i]) /\ s \in DOMAIN chain[i].patch /\ chain[i].patch[s] # names[s]
Reconciled(s) == draft[s] = names[s] \/ Pending(s)

(* What was typed is on the screen.                                        *)
Typed(s) == typed[s] \notin {NoName, Nothing}

(* The blur that waits saw what was typed; a field that agreed with the    *)
(* model then still does.                                                  *)
TimerTrue ==
    /\ timer.side \in Sides /\ timer.value = timer.seen.draft[timer.side]
    /\ IsPair(timer.seen.names) /\ IsPair(timer.seen.draft)
    /\ \A s \in Sides : timer.seen.draft[s] = timer.seen.names[s] => draft[s] = names[s]
    /\ \A s \in Sides : Typed(s) => timer.seen.draft[s] = typed[s]

PairInv ==
    /\ IsPair(names) /\ IsPair(draft) /\ IsPair(typed)
    /\ focus \in Sides \cup {"none"}
    /\ \E S : chain \in Seq(S)
    /\ sending = Idle \/ IsPair(sending.names)
    /\ timer = NoTimer \/ TimerTrue
    /\ focus = "none" /\ timer = NoTimer => \A s \in Sides : Reconciled(s)
    /\ \A s \in Sides : Typed(s) => draft[s] = typed[s]
-----------------------------------------------------------------------------
LEMMA PairStarts == ASSUME PairInit PROVE PairInv
<1>1. IsPair(names) /\ draft = names /\ typed = Untyped /\ chain = << >> /\ focus = "none"
      /\ timer = NoTimer /\ sending = Idle
  BY PairsHaveSides DEF PairInit, IsPair, Sides
<1>2. chain \in Seq({})
  BY <1>1
<1>3. IsPair(typed) /\ \A s \in Sides : ~ Typed(s)
  BY <1>1 DEF Untyped, IsPair, Typed
<1> QED BY <1>1, <1>2, <1>3 DEF PairInv, Reconciled

LEMMA OverFacts ==
  ASSUME NEW pair, NEW patch, IsPair(pair)
  PROVE  /\ IsPair(Over(pair, patch))
         /\ \A s \in Sides : Over(pair, patch)[s] = IF s \in DOMAIN patch THEN patch[s] ELSE pair[s]
  BY DEF IsPair, Over

LEMMA ChainGrows ==
  ASSUME NEW S, chain \in Seq(S), NEW edit, Queue(edit)
  PROVE  /\ \E T : chain' \in Seq(T)
         /\ DOMAIN chain' = DOMAIN chain \cup {Len(chain) + 1}
         /\ chain'[Len(chain) + 1] = edit /\ \A i \in DOMAIN chain : chain'[i] = chain[i]
<1>1. chain \in Seq(S \cup {edit}) /\ edit \in S \cup {edit}
  OBVIOUS
<1>2. chain' = Append(chain, edit)
  BY DEF Queue
<1>3. chain' \in Seq(S \cup {edit})
  BY <1>1, <1>2
<1> QED BY <1>1, <1>2, <1>3

(* The model changes, and the fields with it.                              *)
LEMMA BecomesFacts ==
  ASSUME PairInv, NEW new, IsPair(new), Becomes(new)
  PROVE  /\ names' = new /\ IsPair(names') /\ IsPair(draft') /\ IsPair(typed')
         /\ \A s \in Sides : IF new[s] # names[s] THEN draft'[s] = new[s] ELSE draft'[s] = draft[s]
         /\ \A s \in Sides : typed'[s] = typed[s] \/ typed'[s] = NoName
         /\ \A s \in Sides : Typed(s)' => draft'[s] = typed'[s]
         /\ timer' = timer /\ TimerTrue => TimerTrue'
<1>1. /\ names' = new /\ draft' = [s \in Sides |-> IF new[s] # names[s] THEN new[s] ELSE draft[s]]
      /\ typed' = [s \in Sides |-> IF new[s] \in {names[s], typed[s]} THEN typed[s] ELSE NoName]
  BY DEF Becomes, Matched
<1>2. IsPair(names') /\ IsPair(draft') /\ IsPair(typed')
  BY <1>1 DEF IsPair
<1>3. \A s \in Sides : IF new[s] # names[s] THEN draft'[s] = new[s] ELSE draft'[s] = draft[s]
  BY <1>1
<1>4. \A s \in Sides : typed'[s] = typed[s] \/ typed'[s] = NoName
  BY <1>1
<1>5. ASSUME NEW s \in Sides, Typed(s)' PROVE Typed(s) /\ typed'[s] = typed[s] /\ draft'[s] = typed'[s]
  <2>1. typed'[s] = typed[s] /\ Typed(s) /\ new[s] \in {names[s], typed[s]}
    BY <1>1, <1>5 DEF Typed
  <2> QED BY <1>3, <2>1 DEF PairInv
<1>6. ASSUME timer' = timer, TimerTrue PROVE TimerTrue'
  BY <1>1, <1>3, <1>5, <1>6 DEF TimerTrue
<1> QED BY <1>1, <1>2, <1>3, <1>4, <1>5, <1>6

LEMMA BecomesKeeps ==
  ASSUME PairInv, NEW new, IsPair(new), Becomes(new), UNCHANGED <<focus, timer>>,
         sending' = Idle \/ IsPair(sending.names)', \E S : chain' \in Seq(S),
         \A s \in Sides : new[s] = names[s] /\ Pending(s) => Pending(s)'
  PROVE  PairInv'
<1>1. /\ names' = new /\ IsPair(names') /\ IsPair(draft') /\ IsPair(typed')
      /\ \A s \in Sides : IF new[s] # names[s] THEN draft'[s] = new[s] ELSE draft'[s] = draft[s]
      /\ \A s \in Sides : Typed(s)' => draft'[s] = typed'[s]
      /\ timer' = timer /\ TimerTrue => TimerTrue'
  BY BecomesFacts
<1>2. ASSUME focus = "none", timer = NoTimer, NEW s \in Sides PROVE Reconciled(s)'
  <2>1. CASE new[s] # names[s]
    BY <1>1, <2>1 DEF Reconciled
  <2>2. CASE new[s] = names[s]
    BY <1>1, <1>2, <2>2 DEF PairInv, Reconciled
  <2> QED BY <2>1, <2>2
<1> QED BY <1>1, <1>2 DEF PairInv, IsPair

LEMMA TurnKeepsPairs == ASSUME PairInv, EditsTurn PROVE PairInv'
<1>1. PICK S : chain \in Seq(S)
  BY DEF PairInv
<1>2. PICK edit, dictionary : /\ edit = Head(chain) /\ Becomes(Over(names, Produced(edit, dictionary)))
                              /\ chain' = Tail(chain) /\ chain # << >>
                              /\ UNCHANGED <<focus, timer>>
                              /\ sending' \in {Idle, [names |-> names, words |-> words]}
  BY DEF EditsTurn
<1> DEFINE new == Over(names, Produced(edit, dictionary))
<1>3. /\ IsPair(new)
      /\ \A s \in Sides : new[s] = IF s \in DOMAIN Produced(edit, dictionary)
                                   THEN Produced(edit, dictionary)[s] ELSE names[s]
  BY OverFacts DEF PairInv
<1>4. Len(chain) \in Nat /\ Len(chain) > 0 /\ DOMAIN chain = 1..Len(chain) /\ chain[1] = edit
  BY <1>1, <1>2
<1>5. /\ chain' \in Seq(S) /\ DOMAIN chain' = 1..(Len(chain) - 1)
      /\ \A i \in DOMAIN chain' : chain'[i] = chain[i + 1]
  BY <1>1, <1>2, <1>4
<1>6. sending' = Idle \/ IsPair(sending.names)'
  BY <1>2 DEF PairInv, IsPair
<1>7. names' = new
  BY <1>2 DEF Becomes
<1>8. ASSUME NEW s \in Sides, new[s] = names[s], Pending(s) PROVE Pending(s)'
  <2>1. PICK i \in DOMAIN chain :
          ~ Register(chain[i]) /\ s \in DOMAIN chain[i].patch /\ chain[i].patch[s] # names[s]
    BY <1>8 DEF Pending
  <2>2. i # 1
    BY <1>3, <1>4, <1>8, <2>1 DEF Produced
  <2>3. i - 1 \in DOMAIN chain' /\ chain'[i - 1] = chain[i]
    BY <1>4, <1>5, <2>1, <2>2
  <2>4. /\ ~ Register(chain'[i - 1]) /\ s \in DOMAIN chain'[i - 1].patch
        /\ chain'[i - 1].patch[s] # names'[s]
    BY <1>7, <1>8, <2>1, <2>3 DEF Register
  <2> QED BY <2>3, <2>4 DEF Pending, Register
<1> HIDE DEF new
<1> QED BY <1>2, <1>3, <1>5, <1>6, <1>8, BecomesKeeps DEF new

LEMMA OthersKeepPairs == ASSUME PairInv, Refused \/ PeerChanges PROVE PairInv'
<1>1. PICK new : /\ IsPair(new) /\ Becomes(new) /\ UNCHANGED <<focus, timer, chain>>
                 /\ sending' = Idle
  <2>1. CASE Refused
    <3>1. IsPair(sending.names)
      BY <2>1 DEF Refused, PairInv
    <3> QED BY <2>1, <3>1 DEF Refused
  <2>2. CASE PeerChanges
    <3>1. PICK s, n : s \in Sides /\ Becomes([names EXCEPT ![s] = n])
      BY <2>2 DEF PeerChanges
    <3>2. IsPair([names EXCEPT ![s] = n])
      BY DEF PairInv, IsPair
    <3> QED BY <2>2, <3>1, <3>2 DEF PeerChanges
  <2> QED BY <2>1, <2>2
<1>2. names' = new
  BY <1>1 DEF Becomes
<1>3. \A s \in Sides : new[s] = names[s] /\ Pending(s) => Pending(s)'
  BY <1>1, <1>2 DEF Pending, Register
<1>4. \E S : chain' \in Seq(S)
  BY <1>1 DEF PairInv
<1> QED BY <1>1, <1>3, <1>4, BecomesKeeps

(* A commit shows its patch and puts it into the chain.                    *)
LEMMA CommitFacts ==
  ASSUME PairInv, NEW patch, Commit(patch), names' = names
  PROVE  /\ IsPair(draft') /\ \E S : chain' \in Seq(S)
         /\ \A s \in Sides : IF s \in DOMAIN patch THEN draft'[s] = patch[s] ELSE draft'[s] = draft[s]
         /\ \A s \in Sides : s \in DOMAIN patch \/ Reconciled(s) => Reconciled(s)'
<1>1. PICK S : chain \in Seq(S)
  BY DEF PairInv
<1>2. draft' = Over(draft, patch)
  BY DEF Commit
<1>3. /\ IsPair(draft')
      /\ \A s \in Sides : draft'[s] = IF s \in DOMAIN patch THEN patch[s] ELSE draft[s]
  BY <1>2, OverFacts DEF PairInv
<1>4. CASE patch = NoPatch
  <2>1. DOMAIN patch = {} /\ chain' = chain
    BY <1>4 DEF NoPatch, Commit
  <2>2. \A s \in Sides : Reconciled(s) => Reconciled(s)'
    BY <1>3, <2>1 DEF Reconciled, Pending, Register
  <2> QED BY <1>1, <1>3, <2>1, <2>2
<1>5. CASE patch # NoPatch
  <2> DEFINE edit == [patch |-> patch, word |-> NoWord]
  <2>1. Queue(edit)
    BY <1>5 DEF Commit
  <2>2. ~ Register(edit) /\ edit.patch = patch
    BY NewWordIsAWord DEF Register
  <2> HIDE DEF edit
  <2>3. /\ \E T : chain' \in Seq(T)
        /\ DOMAIN chain' = DOMAIN chain \cup {Len(chain) + 1}
        /\ chain'[Len(chain) + 1] = edit /\ \A i \in DOMAIN chain : chain'[i] = chain[i]
    BY <1>1, <2>1, ChainGrows
  <2>4. \A s \in Sides : Pending(s) => Pending(s)'
    BY <2>3 DEF Pending, Register
  <2>5. ASSUME NEW s \in Sides, s \in DOMAIN patch PROVE Reconciled(s)'
    <3>1. patch[s] # names'[s] => Pending(s)'
      BY <2>2, <2>3, <2>5 DEF Pending, Register
    <3> QED BY <1>3, <2>5, <3>1 DEF Reconciled
  <2>6. ASSUME NEW s \in Sides, s \notin DOMAIN patch, Reconciled(s) PROVE Reconciled(s)'
    BY <1>3, <2>4, <2>6 DEF Reconciled
  <2> QED BY <1>3, <2>3, <2>5, <2>6
<1> QED BY <1>4, <1>5

(* What a handler commits: its own side as it saw it, and the other side   *)
(* as it saw it, or filled because it saw it empty or was told to.         *)
Commits(patch, side, value, overwrite, seen) ==
    /\ side \in DOMAIN patch /\ DOMAIN patch \subseteq Sides /\ patch[side] = value
    /\ IF Other(side) \in DOMAIN patch
       THEN patch[Other(side)] = seen.draft[Other(side)] \/ Fills(side, value, overwrite, seen)
       ELSE seen.draft[Other(side)] = seen.names[Other(side)]

LEMMA CommitSideFacts ==
  ASSUME NEW side \in Sides, NEW value, NEW overwrite, NEW seen, commitSide(side, value, overwrite, seen)
  PROVE  \/ Untouched(side, value, seen) /\ UNCHANGED <<draft, chain>>
         \/ \E patch : Commit(patch) /\ Commits(patch, side, value, overwrite, seen)
<1>1. CASE Untouched(side, value, seen)
  BY <1>1 DEF commitSide
<1>2. CASE ~ Untouched(side, value, seen)
  <2>1. PICK made, patch :
          /\ patch = IF Fills(side, value, overwrite, seen) /\ made # NoName
                     THEN And(Only(side, value), Other(side), made) ELSE Only(side, value)
          /\ Commit(foldOtherDraft(side, patch, seen))
    BY <1>2 DEF commitSide
  <2>2. Other(side) \in Sides /\ Other(side) # side
    BY DEF Other, Sides
  <2>3. /\ side \in DOMAIN patch /\ DOMAIN patch \subseteq {side, Other(side)} /\ patch[side] = value
        /\ Other(side) \in DOMAIN patch => Fills(side, value, overwrite, seen)
    BY <2>1, <2>2 DEF And, Only
  <2> DEFINE folded == foldOtherDraft(side, patch, seen)
             o == Other(side)
  <2>4. CASE o \notin DOMAIN patch /\ seen.draft[o] # seen.names[o]
    <3>1. folded = And(patch, o, seen.draft[o])
      BY <2>4 DEF foldOtherDraft
    <3>2. /\ DOMAIN folded = DOMAIN patch \cup {o} /\ folded[o] = seen.draft[o] /\ folded[side] = value
      BY <2>2, <2>3, <3>1 DEF And
    <3> HIDE DEF folded
    <3>3. Commit(folded)
      BY <2>1 DEF folded
    <3> QED BY <2>2, <2>3, <3>2, <3>3 DEF Commits
  <2>5. CASE ~ (o \notin DOMAIN patch /\ seen.draft[o] # seen.names[o])
    <3>1. folded = patch
      BY <2>5 DEF foldOtherDraft
    <3> QED BY <2>1, <2>2, <2>3, <2>5, <3>1 DEF Commits
  <2> QED BY <2>4, <2>5
<1> QED BY <1>1, <1>2

LEMMA BlurKeepsPairs == ASSUME PairInv, BlurFires PROVE PairInv'
<1>1. /\ timer # NoTimer /\ timer' = NoTimer /\ UNCHANGED <<names, focus, sending, typed>>
      /\ commitSide(timer.side, timer.value, FALSE, timer.seen)
  BY DEF BlurFires
<1>2. TimerTrue
  BY <1>1 DEF PairInv
<1>3. PICK side \in Sides : side = timer.side
  BY <1>2 DEF TimerTrue
<1>4. PICK seen, value, overwrite :
         seen = timer.seen /\ value = timer.value /\ overwrite = FALSE
  OBVIOUS
<1>7. /\ value = seen.draft[side] /\ IsPair(seen.names) /\ IsPair(seen.draft)
      /\ \A s \in Sides : seen.draft[s] = seen.names[s] => draft[s] = names[s]
      /\ \A s \in Sides : Typed(s) => seen.draft[s] = typed[s]
  BY <1>2, <1>3, <1>4 DEF TimerTrue
<1>8. commitSide(side, value, overwrite, seen)
  BY <1>1, <1>3, <1>4
<1>5. \A s \in Sides : s = side \/ s = Other(side)
  BY DEF Sides, Other
<1>6. IsPair(draft') /\ (\E S : chain' \in Seq(S)) /\ \A s \in Sides : Reconciled(s)' /\ (Typed(s) => draft'[s] = typed[s])
  <2>1. CASE Untouched(side, value, seen) /\ UNCHANGED <<draft, chain>>
    <3>1. \A s \in Sides : draft[s] = names[s]
      BY <1>5, <1>7, <2>1 DEF Untouched
    <3> QED BY <1>1, <2>1, <3>1 DEF PairInv, Reconciled
  <2>2. ASSUME NEW patch, Commit(patch), Commits(patch, side, value, overwrite, seen)
        PROVE  IsPair(draft') /\ (\E S : chain' \in Seq(S))
               /\ \A s \in Sides : Reconciled(s)' /\ (Typed(s) => draft'[s] = typed[s])
    <3>1. /\ IsPair(draft') /\ \E S : chain' \in Seq(S)
          /\ \A s \in Sides : IF s \in DOMAIN patch THEN draft'[s] = patch[s] ELSE draft'[s] = draft[s]
          /\ \A s \in Sides : s \in DOMAIN patch \/ Reconciled(s) => Reconciled(s)'
      BY <1>1, <2>2, CommitFacts
    <3>2. \A s \in Sides : Reconciled(s)'
      BY <1>5, <1>7, <2>2, <3>1 DEF Reconciled, Commits
    <3>3. Other(side) \in Sides /\ (Fills(side, value, overwrite, seen) => ~ Typed(Other(side)))
      BY <1>4, <1>7 DEF Fills, Typed, Other, Sides
    <3>4. ASSUME NEW s \in Sides, Typed(s) PROVE draft'[s] = typed[s]
      <4>1. seen.draft[s] = typed[s] /\ draft[s] = typed[s]
        BY <1>7, <3>4 DEF PairInv
      <4>2. s \in DOMAIN patch => patch[s] = seen.draft[s]
        BY <1>5, <1>7, <2>2, <3>3, <3>4 DEF Commits
      <4>3. CASE s \in DOMAIN patch
        BY <3>1, <4>1, <4>2, <4>3
      <4>4. CASE s \notin DOMAIN patch
        BY <3>1, <4>1, <4>4
      <4> QED BY <4>3, <4>4
    <3>5. \A s \in Sides : Reconciled(s)' /\ (Typed(s) => draft'[s] = typed[s])
      BY <3>2, <3>4
    <3> QED BY <3>1, <3>5
  <2>3. \/ Untouched(side, value, seen) /\ UNCHANGED <<draft, chain>>
        \/ \E patch : Commit(patch) /\ Commits(patch, side, value, overwrite, seen)
    BY <1>8, CommitSideFacts
  <2> QED BY <2>1, <2>2, <2>3
<1> QED BY <1>1, <1>6 DEF PairInv, Typed

(* The user's acts.                                                        *)
LEMMA TypeKeepsPairs ==
  ASSUME PairInv, NEW side \in Sides, Type(side) \/ ApplyCompletion(side) PROVE PairInv'
<1>1. /\ focus = side /\ timer = NoTimer
      /\ UNCHANGED <<names, focus, timer, chain, sending>>
  BY DEF Type, ApplyCompletion, Act
<1>2. focus # "none"
  BY <1>1 DEF Sides
<1>3. IsPair(draft') /\ IsPair(typed') /\ \A s \in Sides : Typed(s)' => draft'[s] = typed'[s]
  <2>1. CASE Type(side)
    <3>1. PICK value : draft' = [draft EXCEPT ![side] = value] /\ typed' = [typed EXCEPT ![side] = value]
      BY <2>1 DEF Type
    <3> QED BY <3>1 DEF PairInv, IsPair, Typed
  <2>2. CASE ApplyCompletion(side)
    <3>1. PICK shown : draft' = Over(draft, shown) /\ typed' = Over(typed, shown)
      BY <2>2 DEF ApplyCompletion
    <3>2. /\ IsPair(draft') /\ IsPair(typed')
          /\ \A s \in Sides : draft'[s] = IF s \in DOMAIN shown THEN shown[s] ELSE draft[s]
          /\ \A s \in Sides : typed'[s] = IF s \in DOMAIN shown THEN shown[s] ELSE typed[s]
      BY <3>1, OverFacts DEF PairInv
    <3> QED BY <3>2 DEF PairInv, Typed
  <2> QED BY <2>1, <2>2
<1> QED BY <1>1, <1>2, <1>3 DEF PairInv, IsPair

LEMMA FocusKeepsPairs ==
  ASSUME PairInv, NEW to \in Sides \cup {"none"}, MoveFocus(to) PROVE PairInv'
<1>1. /\ focus # to /\ focus' = to /\ timer = NoTimer
      /\ timer' = IF focus = "none" THEN NoTimer ELSE [side |-> focus, value |-> draft[focus], seen |-> Seen]
      /\ UNCHANGED <<names, draft, chain, sending, typed>>
  BY DEF MoveFocus
<1>2. CASE focus = "none"
  BY <1>1, <1>2 DEF PairInv, IsPair, Typed
<1>3. CASE focus # "none"
  <2>1. focus \in Sides
    BY <1>3 DEF PairInv
  <2>2. /\ timer'.side = focus /\ timer'.value = draft[focus]
        /\ timer'.seen.names = names /\ timer'.seen.draft = draft
    BY <1>1, <1>3 DEF Seen
  <2>3. TimerTrue'
    BY <1>1, <2>1, <2>2 DEF PairInv, TimerTrue, Typed, IsPair
  <2>4. timer' # NoTimer
    BY <2>1, <2>2 DEF NoTimer, Sides
  <2> QED BY <1>1, <2>3, <2>4 DEF PairInv, IsPair, Typed
<1> QED BY <1>2, <1>3

LEMMA EnterKeepsPairs == ASSUME PairInv, NEW side \in Sides, Enter(side) PROVE PairInv'
<1>1. /\ focus = side /\ timer = NoTimer /\ commitSide(side, draft[side], TRUE, Seen)
      /\ typed' = [typed EXCEPT ![Other(side)] = NoName]
      /\ UNCHANGED <<names, focus, timer, sending>>
  BY DEF Enter, Act, Overwrites
<1>2. focus # "none"
  BY <1>1 DEF Sides
<1>3. Other(side) \in Sides /\ Other(side) # side /\ \A s \in Sides : s = side \/ s = Other(side)
  BY DEF Other, Sides
<1>4. IsPair(typed') /\ ~ Typed(Other(side))' /\ typed'[side] = typed[side]
  BY <1>1, <1>3 DEF PairInv, IsPair, Typed
<1>5. IsPair(draft') /\ (\E S : chain' \in Seq(S)) /\ draft'[side] = draft[side]
  <2>1. CASE UNCHANGED <<draft, chain>>
    BY <2>1 DEF PairInv, IsPair
  <2>2. ASSUME NEW patch, Commit(patch), side \in DOMAIN patch, patch[side] = draft[side]
        PROVE  IsPair(draft') /\ (\E S : chain' \in Seq(S)) /\ draft'[side] = draft[side]
    BY <1>1, <2>2, CommitFacts
  <2>3. \/ UNCHANGED <<draft, chain>>
        \/ \E patch : Commit(patch) /\ side \in DOMAIN patch /\ patch[side] = draft[side]
    BY <1>1, CommitSideFacts DEF Commits
  <2> QED BY <2>1, <2>2, <2>3
<1>6. \A s \in Sides : Typed(s)' => draft'[s] = typed'[s]
  BY <1>3, <1>4, <1>5 DEF PairInv, Typed
<1> QED BY <1>1, <1>2, <1>4, <1>5, <1>6 DEF PairInv, IsPair

LEMMA ArrowKeepsPairs == ASSUME PairInv, NEW side \in Sides, fillOther(side) PROVE PairInv'
<1>1. /\ timer = NoTimer /\ typed' = [typed EXCEPT ![Other(side)] = NoName]
      /\ UNCHANGED <<names, focus, timer, sending>>
  BY DEF fillOther, Act, Overwrites
<1>2. Other(side) \in Sides /\ Other(side) # side /\ \A s \in Sides : s = side \/ s = Other(side)
  BY DEF Other, Sides
<1>3. IsPair(typed') /\ ~ Typed(Other(side))' /\ typed'[side] = typed[side]
  BY <1>1, <1>2 DEF PairInv, IsPair, Typed
<1>4. CASE UNCHANGED <<draft, chain>>
  <2>1. \A s \in Sides : Typed(s)' => draft'[s] = typed'[s]
    BY <1>2, <1>3, <1>4 DEF PairInv, Typed
  <2> QED BY <1>1, <1>3, <1>4, <2>1 DEF PairInv, IsPair, Reconciled, Pending, Register
<1>5. CASE ~ UNCHANGED <<draft, chain>>
  <2>1. PICK after : /\ after[side] = draft[side]
                     /\ Commit([s \in {t \in Sides : after[t] # names[t]} |-> after[s]])
    <3>1. PICK made : Commit([s \in {t \in Sides : And(Only(side, draft[side]), Other(side), made)[t] # names[t]}
                                |-> And(Only(side, draft[side]), Other(side), made)[s]])
      BY <1>5 DEF fillOther
    <3>2. And(Only(side, draft[side]), Other(side), made)[side] = draft[side]
      BY <1>2 DEF And, Only
    <3> QED BY <3>1, <3>2
  <2> DEFINE patch == [s \in {t \in Sides : after[t] # names[t]} |-> after[s]]
  <2>2. /\ side \in DOMAIN patch => patch[side] = draft[side]
        /\ side \notin DOMAIN patch => draft[side] = names[side]
    BY <2>1
  <2>3. Commit(patch)
    BY <2>1
  <2> HIDE DEF patch
  <2>4. /\ IsPair(draft') /\ \E S : chain' \in Seq(S)
        /\ \A s \in Sides : IF s \in DOMAIN patch THEN draft'[s] = patch[s] ELSE draft'[s] = draft[s]
        /\ \A s \in Sides : s \in DOMAIN patch \/ Reconciled(s) => Reconciled(s)'
    BY <1>1, <2>3, CommitFacts
  <2>5. \A s \in Sides : Typed(s)' => draft'[s] = typed'[s]
    BY <1>2, <1>3, <2>2, <2>4 DEF PairInv, Typed
  <2>6. focus = "none" => \A s \in Sides : Reconciled(s)'
    BY <1>1, <2>4 DEF PairInv
  <2> QED BY <1>1, <1>3, <2>4, <2>5, <2>6 DEF PairInv, IsPair
<1> QED BY <1>4, <1>5

LEMMA RegisterKeepsPairs == ASSUME PairInv, registerWord PROVE PairInv'
<1>1. PICK S : chain \in Seq(S)
  BY DEF PairInv
<1>2. PICK edit : Queue(edit)
  BY DEF registerWord
<1>3. UNCHANGED <<names, draft, focus, timer, sending, typed>>
  BY DEF registerWord
<1>4. /\ \E T : chain' \in Seq(T)
      /\ DOMAIN chain' = DOMAIN chain \cup {Len(chain) + 1}
      /\ \A i \in DOMAIN chain : chain'[i] = chain[i]
  BY <1>1, <1>2, ChainGrows
<1>5. \A s \in Sides : Reconciled(s) => Reconciled(s)'
  BY <1>3, <1>4 DEF Reconciled, Pending, Register
<1>6. timer = NoTimer
  BY DEF registerWord, Act
<1> QED BY <1>3, <1>4, <1>5, <1>6 DEF PairInv, IsPair, Typed

LEMMA PairsKept == ASSUME PairInv, [PairNext]_pairVars PROVE PairInv'
<1>1. CASE UNCHANGED pairVars \/ Accepted
  <2>1. UNCHANGED <<names, words, draft, focus, timer, chain, typed>> /\ sending' \in {sending, Idle}
    BY <1>1 DEF pairVars, Accepted
  <2>2. \A s \in Sides : (Reconciled(s) => Reconciled(s)') /\ (Typed(s)' <=> Typed(s))
    BY <2>1 DEF Reconciled, Pending, Register, Typed
  <2>3. TimerTrue => TimerTrue'
    BY <2>1, <2>2 DEF TimerTrue, Typed
  <2> QED BY <2>1, <2>2, <2>3 DEF PairInv, IsPair
<1>2. ASSUME NEW side \in Sides, Type(side) \/ ApplyCompletion(side) \/ Enter(side) \/ fillOther(side)
      PROVE  PairInv'
  BY <1>2, TypeKeepsPairs, EnterKeepsPairs, ArrowKeepsPairs
<1>3. ASSUME NEW to \in Sides \cup {"none"}, MoveFocus(to) PROVE PairInv'
  BY <1>3, FocusKeepsPairs
<1>4. CASE BlurFires \/ registerWord \/ EditsTurn \/ Refused \/ PeerChanges
  BY <1>4, BlurKeepsPairs, RegisterKeepsPairs, TurnKeepsPairs, OthersKeepPairs
<1> QED BY <1>1, <1>2, <1>3, <1>4 DEF PairNext

LEMMA SettledPairs == ASSUME PairInv PROVE NothingTypedIsLost
<1> SUFFICES ASSUME AtRest
             PROVE  draft = names /\ \A s \in Sides : typed[s] \in {NoName, Nothing, names[s]}
  BY DEF NothingTypedIsLost
<1>1. DOMAIN chain = {} /\ \A s \in Sides : Reconciled(s)
  <2>1. focus = "none" /\ timer = NoTimer /\ chain = << >>
    BY DEF AtRest
  <2>2. \A s \in Sides : Reconciled(s)
    BY <2>1 DEF PairInv
  <2> QED BY <2>1, <2>2
<1>2. \A s \in Sides : draft[s] = names[s]
  BY <1>1 DEF Reconciled, Pending
<1>3. draft = names
  BY <1>2 DEF PairInv, IsPair
<1> QED BY <1>2, <1>3 DEF PairInv, Typed

(* Once the fields are left and every edit has had its turn, they show     *)
(* what is stored, and what the user typed is stored unless that name was  *)
(* changed after it: whatever is made, refused or changed by peers.        *)
THEOREM TypedNamesAreStored == PairSpec => []NothingTypedIsLost
  BY PairStarts, PairsKept, SettledPairs, PTL DEF PairSpec
-----------------------------------------------------------------------------
(* A side that had a name and was left alone shows it, the blur that waits *)
(* saw it, and every edit that waits for its turn carries it or leaves it. *)
Kept(s) ==
    /\ names[s] = start[s] /\ draft[s] = start[s]
    /\ timer # NoTimer => timer.seen.draft[s] = start[s]
    /\ \A i \in DOMAIN chain :
          s \in DOMAIN chain[i].patch \/ Register(chain[i]) => chain[i].patch[s] = start[s]

HandInv ==
    /\ peerSteps \in Nat
    /\ peerSteps = 0 => \A s \in Sides \ touched : start[s] # Nothing => Kept(s)

LEMMA QueueKeepsHand ==
  ASSUME PairInv, NEW s \in Sides, Kept(s), UNCHANGED <<names, start>>, timer' \in {timer, NoTimer},
         draft'[s] = start[s], NEW edit, Queue(edit),
         s \in DOMAIN edit.patch \/ Register(edit) => edit.patch[s] = start[s]
  PROVE  Kept(s)'
<1>1. PICK S : chain \in Seq(S)
  BY DEF PairInv
<1>2. /\ DOMAIN chain' = DOMAIN chain \cup {Len(chain) + 1}
      /\ chain'[Len(chain) + 1] = edit /\ \A i \in DOMAIN chain : chain'[i] = chain[i]
  BY <1>1, ChainGrows
<1>3. ASSUME NEW i \in DOMAIN chain', s \in DOMAIN chain'[i].patch \/ Register(chain'[i])
      PROVE  chain'[i].patch[s] = start[s]
  <2>1. CASE i \in DOMAIN chain
    BY <1>2, <1>3, <2>1 DEF Kept, Register
  <2>2. CASE i = Len(chain) + 1
    BY <1>2, <1>3, <2>2 DEF Register
  <2> QED BY <1>2, <2>1, <2>2
<1> QED BY <1>3 DEF Kept, Register

LEMMA CommitKeepsHand ==
  ASSUME PairInv, NEW s \in Sides, Kept(s), UNCHANGED <<names, start>>, timer' \in {timer, NoTimer},
         NEW patch, Commit(patch), s \in DOMAIN patch => patch[s] = start[s]
  PROVE  Kept(s)'
<1>1. draft'[s] = start[s]
  BY OverFacts DEF Commit, PairInv, Kept
<1>2. CASE patch = NoPatch
  <2>1. chain' = chain
    BY <1>2 DEF Commit
  <2> QED BY <1>1, <2>1 DEF Kept, Register
<1>3. CASE patch # NoPatch
  <2> DEFINE edit == [patch |-> patch, word |-> NoWord]
  <2>1. Queue(edit)
    BY <1>3 DEF Commit
  <2>2. s \in DOMAIN edit.patch \/ Register(edit) => edit.patch[s] = start[s]
    BY NewWordIsAWord DEF Register
  <2> HIDE DEF edit
  <2> QED BY <1>1, <2>1, <2>2, QueueKeepsHand
<1> QED BY <1>2, <1>3

LEMMA TypeKeepsHand ==
  ASSUME PairInv, NEW side \in Sides, Type(side) \/ ApplyCompletion(side),
         NEW s \in Sides, Kept(s), s \notin touched'
  PROVE  Kept(s)'
<1>1. UNCHANGED <<names, timer, chain, start>>
  BY DEF Type, ApplyCompletion
<1>2. draft'[s] = draft[s]
  <2>1. CASE Type(side)
    BY <2>1 DEF Type, PairInv, IsPair
  <2>2. CASE ApplyCompletion(side)
    <3>1. PICK shown : draft' = Over(draft, shown) /\ touched' = touched \cup DOMAIN shown
      BY <2>2 DEF ApplyCompletion
    <3> QED BY <3>1, OverFacts DEF PairInv
  <2> QED BY <2>1, <2>2
<1> QED BY <1>1, <1>2 DEF Kept, Register

LEMMA FocusKeepsHand ==
  ASSUME PairInv, NEW to, MoveFocus(to), NEW s \in Sides, Kept(s)
  PROVE  Kept(s)'
<1>1. UNCHANGED <<names, draft, chain, start>>
  BY DEF MoveFocus
<1>2. timer' = NoTimer \/ timer'.seen.draft = draft
  BY DEF MoveFocus, Seen
<1> QED BY <1>1, <1>2 DEF Kept, Register

(* The blur commits what it saw; it does not fill a side it saw a name in. *)
LEMMA BlurKeepsHand ==
  ASSUME PairInv, BlurFires, NEW s \in Sides, Kept(s), start[s] # Nothing
  PROVE  Kept(s)'
<1>1. /\ timer # NoTimer /\ timer' = NoTimer /\ UNCHANGED <<names, start>>
      /\ commitSide(timer.side, timer.value, FALSE, timer.seen)
  BY DEF BlurFires
<1>2. TimerTrue
  BY <1>1 DEF PairInv
<1>3. PICK side \in Sides : side = timer.side
  BY <1>2 DEF TimerTrue
<1>4. PICK seen, value, overwrite :
         seen = timer.seen /\ value = timer.value /\ overwrite = FALSE
  OBVIOUS
<1>5. value = seen.draft[side] /\ seen.draft[s] = start[s]
  BY <1>1, <1>2, <1>3, <1>4 DEF TimerTrue, Kept
<1>6. commitSide(side, value, overwrite, seen)
  BY <1>1, <1>3, <1>4
<1>7. s = side \/ s = Other(side)
  BY DEF Sides, Other
<1>8. CASE UNCHANGED <<draft, chain>>
  BY <1>1, <1>8 DEF Kept, Register
<1>9. ASSUME NEW patch, Commit(patch), Commits(patch, side, value, overwrite, seen) PROVE Kept(s)'
  <2>1. s = Other(side) => ~ Fills(side, value, overwrite, seen)
    BY <1>4, <1>5 DEF Fills
  <2>2. s \in DOMAIN patch => patch[s] = start[s]
    BY <1>5, <1>7, <1>9, <2>1 DEF Commits
  <2> QED BY <1>1, <1>9, <2>2, CommitKeepsHand
<1>10. UNCHANGED <<draft, chain>> \/ \E patch : Commit(patch) /\ Commits(patch, side, value, overwrite, seen)
  BY <1>6, CommitSideFacts
<1> QED BY <1>8, <1>9, <1>10

(* Enter and the arrow write over the other side alone.                    *)
LEMMA EnterKeepsHand ==
  ASSUME PairInv, NEW side \in Sides, Enter(side) \/ fillOther(side), NEW s \in Sides, Kept(s), s \notin touched'
  PROVE  Kept(s)'
<1>1. s = side /\ Other(side) # side
  BY DEF Enter, fillOther, Overwrites, Sides, Other
<1>2. UNCHANGED <<names, start, timer>>
  BY DEF Enter, fillOther, Overwrites
<1>3. CASE UNCHANGED <<draft, chain>>
  BY <1>2, <1>3 DEF Kept, Register
<1>4. ASSUME NEW patch, Commit(patch), side \in DOMAIN patch => patch[side] = draft[side] PROVE Kept(s)'
  <2>1. s \in DOMAIN patch => patch[s] = start[s]
    BY <1>1, <1>4 DEF Kept
  <2> QED BY <1>2, <1>4, <2>1, CommitKeepsHand
<1>5. UNCHANGED <<draft, chain>> \/ \E patch : Commit(patch) /\ (side \in DOMAIN patch => patch[side] = draft[side])
  <2>1. CASE Enter(side)
    <3>1. commitSide(side, draft[side], TRUE, Seen)
      BY <2>1 DEF Enter
    <3> QED BY <3>1, CommitSideFacts DEF Commits
  <2>2. CASE fillOther(side) /\ ~ UNCHANGED <<draft, chain>>
    <3>1. PICK made : Commit([t \in {t \in Sides : And(Only(side, draft[side]), Other(side), made)[t] # names[t]}
                                |-> And(Only(side, draft[side]), Other(side), made)[t]])
      BY <2>2 DEF fillOther
    <3> DEFINE patch == [t \in {t \in Sides : And(Only(side, draft[side]), Other(side), made)[t] # names[t]}
                            |-> And(Only(side, draft[side]), Other(side), made)[t]]
    <3>2. side \in DOMAIN patch => patch[side] = draft[side]
      BY <1>1 DEF And, Only
    <3>3. Commit(patch)
      BY <3>1
    <3> HIDE DEF patch
    <3> QED BY <3>2, <3>3
  <2> QED BY <2>1, <2>2
<1> QED BY <1>3, <1>4, <1>5

LEMMA RegisterKeepsHand == ASSUME PairInv, registerWord, NEW s \in Sides, Kept(s) PROVE Kept(s)'
<1> DEFINE edit == [patch |-> draft, word |-> NewWord]
<1>1. Queue(edit) /\ UNCHANGED <<names, draft, timer, start>>
  BY DEF registerWord
<1>2. edit.patch[s] = start[s] /\ draft'[s] = start[s]
  BY <1>1 DEF Kept
<1> HIDE DEF edit
<1> QED BY <1>1, <1>2, QueueKeepsHand

(* An edit changes a name it carries; a registration only fills a side     *)
(* that was empty when it was made.                                        *)
LEMMA TurnKeepsHand ==
  ASSUME PairInv, EditsTurn, NEW s \in Sides, Kept(s), start[s] # Nothing
  PROVE  Kept(s)'
<1>1. PICK S : chain \in Seq(S)
  BY DEF PairInv
<1>2. PICK edit, dictionary : /\ edit = Head(chain) /\ Becomes(Over(names, Produced(edit, dictionary)))
                              /\ chain' = Tail(chain) /\ chain # << >>
                              /\ UNCHANGED <<timer, start>>
  BY DEF EditsTurn
<1>3. PICK patch : patch = Produced(edit, dictionary)
  OBVIOUS
<1>4. PICK new : new = Over(names, patch)
  OBVIOUS
<1>5. IsPair(new) /\ new[s] = (IF s \in DOMAIN patch THEN patch[s] ELSE names[s])
  BY <1>4, OverFacts DEF PairInv
<1>6. Len(chain) \in Nat /\ Len(chain) > 0 /\ DOMAIN chain = 1..Len(chain) /\ chain[1] = edit
  BY <1>1, <1>2
<1>7. /\ DOMAIN chain' = 1..(Len(chain) - 1)
      /\ \A i \in DOMAIN chain' : i + 1 \in DOMAIN chain /\ chain'[i] = chain[i + 1]
  BY <1>1, <1>2, <1>6
<1>8. s \in DOMAIN edit.patch \/ Register(edit) => edit.patch[s] = start[s]
  BY <1>6 DEF Kept
<1>9. s \in DOMAIN patch => patch[s] = start[s]
  BY <1>3, <1>8 DEF Produced, NoPatch, Only
<1>10. new[s] = names[s]
  BY <1>5, <1>9 DEF Kept
<1>11. names'[s] = names[s] /\ draft'[s] = draft[s]
  BY <1>2, <1>3, <1>4, <1>10 DEF Becomes, Matched
<1>12. ASSUME NEW i \in DOMAIN chain', s \in DOMAIN chain'[i].patch \/ Register(chain'[i])
       PROVE  chain'[i].patch[s] = start[s]
  BY <1>7, <1>12 DEF Kept, Register
<1> QED BY <1>2, <1>11, <1>12 DEF Kept, Register

LEMMA HandStarts == ASSUME PairInit PROVE HandInv
  BY DEF PairInit, HandInv, Kept

LEMMA HandKept == ASSUME PairInv, HandInv, [PairNext]_pairVars PROVE HandInv'
<1>1. /\ peerSteps' \in {peerSteps, peerSteps + 1} /\ touched \subseteq touched' /\ start' = start
      /\ Refused \/ PeerChanges => peerSteps' = peerSteps + 1
  BY DEF PairNext, pairVars, Type, ApplyCompletion, Enter, fillOther, Overwrites, MoveFocus, BlurFires,
         registerWord, EditsTurn, Accepted, Refused, PeerChanges, PeerStep
<1>2. peerSteps' \in Nat /\ (peerSteps' = 0 => peerSteps = 0 /\ ~ Refused /\ ~ PeerChanges)
  BY <1>1 DEF HandInv
<1> SUFFICES ASSUME peerSteps' = 0, NEW s \in Sides, s \notin touched', start[s] # Nothing PROVE Kept(s)'
  BY <1>1, <1>2 DEF HandInv
<1>3. Kept(s)
  BY <1>1, <1>2 DEF HandInv
<1>4. CASE UNCHANGED pairVars \/ Accepted
  BY <1>3, <1>4 DEF pairVars, Accepted, Kept, Register
<1>5. ASSUME NEW side \in Sides, Type(side) \/ ApplyCompletion(side) \/ Enter(side) \/ fillOther(side)
      PROVE  Kept(s)'
  BY <1>3, <1>5, TypeKeepsHand, EnterKeepsHand
<1>6. ASSUME NEW to \in Sides \cup {"none"}, MoveFocus(to) PROVE Kept(s)'
  BY <1>3, <1>6, FocusKeepsHand
<1>7. CASE BlurFires \/ registerWord \/ EditsTurn
  BY <1>3, <1>7, BlurKeepsHand, RegisterKeepsHand, TurnKeepsHand
<1> QED BY <1>2, <1>4, <1>5, <1>6, <1>7 DEF PairNext

LEMMA HandIsKept == ASSUME HandInv PROVE HandSetKept
  BY DEF HandInv, HandSetKept, Kept

(* A name that was there and that the user left alone stays while no peer  *)
(* and no refusal changes it, whatever the other field, the blur that      *)
(* waits and the edits in the chain do.                                    *)
THEOREM HandSetNamesStay == PairSpec => []HandSetKept
  BY PairStarts, PairsKept, HandStarts, HandKept, HandIsKept, PTL DEF PairSpec
=============================================================================
