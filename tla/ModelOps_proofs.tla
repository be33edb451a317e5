-------------------------- MODULE ModelOps_proofs ---------------------------
(***************************************************************************)
(* Proofs about the op algebra of ModelOps: what a diff does to a model,   *)
(* to the rows and in chunks, and what a logged batch can be rolled back   *)
(* to, for models of any size.                                             *)
(*                                                                         *)
(* Everything here is an induction over a batch.  Where a batch is read as *)
(* a set of keys that have been moved from one model to another (Moved),   *)
(* what holds after i ops is a fact about that set, and the order of a     *)
(* diff matters only for the sets it passes through (Ordered).             *)
(***************************************************************************)
EXTENDS ModelPairs, WellFoundedInduction, FiniteSetTheorems, SequenceTheorems, TLAPS

(* Induction, as the least element of a set: what fails for some number    *)
(* fails for a first one.                                                  *)
LEMMA LeastNumber ==
  ASSUME NEW T \in SUBSET Nat, T # {}
  PROVE  \E n \in T : \A k \in T : n <= k
<1>1. PICK R : R = OpToRel(<, Nat)
  OBVIOUS
<1>2. IsWellFoundedOn(R, Nat)
  BY <1>1, NatLessThanWellFounded
<1>3. \E n \in T : \A k \in T : <<k, n>> \notin R
  BY <1>2, WFMin
<1>4. \A n, k \in Nat : <<k, n>> \notin R => n <= k
  BY <1>1 DEF OpToRel
<1> QED BY <1>3, <1>4

LEMMA UpTo ==
  ASSUME NEW n \in Nat, NEW S, 0 \in S, \A i \in 0..n-1 : i \in S => i + 1 \in S
  PROVE  0..n \subseteq S
<1> DEFINE T == 0..n \ S
<1>1. T = {}
  <2> SUFFICES ASSUME T # {} PROVE FALSE
    OBVIOUS
  <2>0. T \in SUBSET Nat /\ T # {}
    OBVIOUS
  <2>1. PICK j \in T : \A k \in T : j <= k
    <3> HIDE DEF T
    <3> QED BY <2>0, LeastNumber
  <2>2. j # 0 /\ j - 1 \in 0..n-1 /\ j - 1 \notin T
    BY <2>1
  <2>3. j - 1 \in S
    BY <2>2
  <2>4. j - 1 + 1 = j
    BY <2>2
  <2> QED BY <2>2, <2>3, <2>4
<1> QED BY <1>1
-----------------------------------------------------------------------------
(* A function that is defined from one number to the next exists, and is   *)
(* the one its definition speaks of.                                       *)
Applied(model, op) ==
    IF model = OpApplyError \/ ~ Applicable(model, op) THEN OpApplyError ELSE ApplyOp(model, op)

Applying(g, model, ops, n) == g = [i \in 0..n |-> IF i = 0 THEN model ELSE Applied(g[i-1], ops[i])]

LEMMA AppliedExists ==
  ASSUME NEW model, NEW ops, NEW n \in Nat
  PROVE  \E g : Applying(g, model, ops, n)
<1> DEFINE S == {j \in 0..n : \E g : Applying(g, model, ops, j)}
<1>1. 0 \in S
  <2>1. PICK g : g = [i \in 0..0 |-> model]
    OBVIOUS
  <2>2. Applying(g, model, ops, 0)
    BY <2>1 DEF Applying
  <2> QED BY <2>2
<1>2. ASSUME NEW j \in 0..n-1, j \in S PROVE j + 1 \in S
  <2>1. PICK g : Applying(g, model, ops, j)
    BY <1>2
  <2>2. PICK h : h = [i \in 0..j+1 |-> IF i = j + 1 THEN Applied(g[j], ops[j+1]) ELSE g[i]]
    OBVIOUS
  <2>3. h = [i \in 0..j+1 |-> h[i]]
    BY <2>2
  <2>4. ASSUME NEW i \in 0..j+1 PROVE h[i] = IF i = 0 THEN model ELSE Applied(h[i-1], ops[i])
    BY <2>1, <2>2 DEF Applying
  <2>5. Applying(h, model, ops, j + 1)
    BY <2>3, <2>4 DEF Applying
  <2> QED BY <2>5
<1> HIDE DEF S
<1>3. n \in S
  BY <1>1, <1>2, UpTo
<1> QED BY <1>3 DEF S

LEMMA AppliedSteps ==
  ASSUME NEW model, NEW ops, Len(ops) \in Nat
  PROVE  Applying(AppliedUpTo(model, ops), model, ops, Len(ops))
<1>1. PICK g : g = [i \in 0..Len(ops) |-> IF i = 0 THEN model ELSE Applied(g[i-1], ops[i])]
  <2>1. PICK n \in Nat : n = Len(ops)
    OBVIOUS
  <2>2. PICK g : Applying(g, model, ops, n)
    BY AppliedExists
  <2> QED BY <2>1, <2>2 DEF Applying
<1>2. g = [i \in 0..Len(ops) |-> IF i = 0 THEN model
          ELSE IF g[i-1] = OpApplyError \/ ~ Applicable(g[i-1], ops[i]) THEN OpApplyError
          ELSE ApplyOp(g[i-1], ops[i])]
  BY <1>1 DEF Applied
<1>3. PICK a : a = AppliedUpTo(model, ops)
  OBVIOUS
<1>4. a = [i \in 0..Len(ops) |-> IF i = 0 THEN model ELSE Applied(a[i-1], ops[i])]
  BY <1>2, <1>3 DEF AppliedUpTo, Applied
<1> QED BY <1>3, <1>4 DEF Applying

(* The same of the statements, each followed by the check of its rows.     *)
Persisted(rows, op) ==
    IF rows = OpApplyError THEN OpApplyError
    ELSE IF Statement(rows, op) # OpApplyError /\ ForeignKeysHold(Statement(rows, op))
         THEN Statement(rows, op) ELSE OpApplyError

Persisting(g, rows, ops, n) == g = [i \in 0..n |-> IF i = 0 THEN rows ELSE Persisted(g[i-1], ops[i])]

LEMMA PersistedExists ==
  ASSUME NEW rows, NEW ops, NEW n \in Nat
  PROVE  \E g : Persisting(g, rows, ops, n)
<1> DEFINE S == {j \in 0..n : \E g : Persisting(g, rows, ops, j)}
<1>1. 0 \in S
  <2>1. PICK g : g = [i \in 0..0 |-> rows]
    OBVIOUS
  <2>2. Persisting(g, rows, ops, 0)
    BY <2>1 DEF Persisting
  <2> QED BY <2>2
<1>2. ASSUME NEW j \in 0..n-1, j \in S PROVE j + 1 \in S
  <2>1. PICK g : Persisting(g, rows, ops, j)
    BY <1>2
  <2>2. PICK h : h = [i \in 0..j+1 |-> IF i = j + 1 THEN Persisted(g[j], ops[j+1]) ELSE g[i]]
    OBVIOUS
  <2>3. h = [i \in 0..j+1 |-> h[i]]
    BY <2>2
  <2>4. ASSUME NEW i \in 0..j+1 PROVE h[i] = IF i = 0 THEN rows ELSE Persisted(h[i-1], ops[i])
    BY <2>1, <2>2 DEF Persisting
  <2>5. Persisting(h, rows, ops, j + 1)
    BY <2>3, <2>4 DEF Persisting
  <2> QED BY <2>5
<1> HIDE DEF S
<1>3. n \in S
  BY <1>1, <1>2, UpTo
<1> QED BY <1>3 DEF S

LEMMA PersistedSteps ==
  ASSUME NEW rows, NEW ops, Len(ops) \in Nat
  PROVE  \E a : Persisting(a, rows, ops, Len(ops)) /\ persistOps(rows, ops) = a[Len(ops)]
<1> DEFINE Def(g) == [i \in 0..Len(ops) |-> IF i = 0 THEN rows
                        ELSE IF g[i-1] = OpApplyError THEN OpApplyError
                        ELSE LET next == Statement(g[i-1], ops[i])
                             IN  IF next # OpApplyError /\ ForeignKeysHold(next) THEN next ELSE OpApplyError]
<1>1. PICK g : g = [i \in 0..Len(ops) |-> IF i = 0 THEN rows ELSE Persisted(g[i-1], ops[i])]
  <2>1. PICK n \in Nat : n = Len(ops)
    OBVIOUS
  <2>2. PICK g : Persisting(g, rows, ops, n)
    BY PersistedExists
  <2> QED BY <2>1, <2>2 DEF Persisting
<1>2. g = Def(g)
  BY <1>1 DEF Persisted
<1>3. PICK a : a = CHOOSE f : f = Def(f)
  OBVIOUS
<1>4. a = Def(a)
  BY <1>2, <1>3
<1>5. persistOps(rows, ops) = a[Len(ops)]
  BY <1>3 DEF persistOps
<1> QED BY <1>4, <1>5 DEF Persisted, Persisting
-----------------------------------------------------------------------------
(* The keys of S moved over from base to target.                           *)
Moved(base, target, S) ==
    [k \in (DOMAIN base \ S) \cup (DOMAIN target \cap S) |-> IF k \in S THEN target[k] ELSE base[k]]

Changed(base, target) ==
    {k \in DOMAIN target \cap DOMAIN base : ChangedFields(base[k], target[k]) # {}}
Differing(base, target) ==
    (DOMAIN base \ DOMAIN target) \cup (DOMAIN target \ DOMAIN base) \cup Changed(base, target)

(* An op that moves its key, and a batch that moves each of its keys once. *)
Moves(op, base, target) ==
    \/ op.action = "create" /\ op.key \in DOMAIN target \ DOMAIN base /\ op.data = target[op.key]
    \/ /\ op.action = "update" /\ op.key \in DOMAIN base \cap DOMAIN target
       /\ op.changes = Changes(base[op.key], target[op.key])
       /\ op = UpdateOp(op.key, op.changes)
    \/ /\ op.action = "delete" /\ op.key \in DOMAIN base \ DOMAIN target
       /\ op = DeleteOp(op.key, base[op.key])
KeysDone(ops, n) == {ops[i].key : i \in 1..n}
EachOnce(ops, n) == \A i, j \in 1..n : ops[i].key = ops[j].key => i = j
MovesAll(ops, n, base, target) == (\A i \in 1..n : Moves(ops[i], base, target)) /\ EachOnce(ops, n)
Comparable(base, target) == WellFormed(base) /\ WellFormed(target) /\ SameFields(base, target)

LEMMA MovedFacts ==
  ASSUME NEW base, NEW target, Comparable(base, target), NEW S, NEW m, m = Moved(base, target, S)
  PROVE  /\ DOMAIN m = (DOMAIN base \ S) \cup (DOMAIN target \cap S)
         /\ \A k \in DOMAIN m : m[k] = IF k \in S THEN target[k] ELSE base[k]
  BY DEF Moved

LEMMA MovedForm ==
  ASSUME NEW base, NEW target, Comparable(base, target), NEW S
  PROVE  WellFormed(Moved(base, target, S))
<1>0. PICK m : m = Moved(base, target, S)
  OBVIOUS
<1>1. /\ m = [k \in (DOMAIN base \ S) \cup (DOMAIN target \cap S) |-> IF k \in S THEN target[k] ELSE base[k]]
      /\ DOMAIN m = (DOMAIN base \ S) \cup (DOMAIN target \cap S)
      /\ \A k \in DOMAIN m : m[k] = IF k \in S THEN target[k] ELSE base[k]
  BY <1>0 DEF Moved
<1>2. IsFunction(m)
  BY <1>1 DEF IsFunction
<1>3. IsFiniteSet(DOMAIN m)
  <2>1. IsFiniteSet(DOMAIN base \cup DOMAIN target)
    BY FS_Union DEF Comparable, WellFormed
  <2> QED BY <1>1, <2>1, FS_Subset
<1>4. \A k \in DOMAIN m : k[1] \in Range(ENTITY_KINDS) /\ IsFunction(m[k])
  BY <1>1 DEF Comparable, WellFormed
<1> QED BY <1>0, <1>2, <1>3, <1>4 DEF WellFormed

LEMMA NothingMoved ==
  ASSUME NEW base, NEW target, WellFormed(base)
  PROVE  Moved(base, target, {}) = base
<1>1. Moved(base, target, {}) = [k \in DOMAIN base |-> base[k]]
  BY DEF Moved
<1> QED BY <1>1 DEF WellFormed, IsFunction

(* An update writes the fields that differ, and so the entity.             *)
LEMMA PatchedFacts ==
  ASSUME NEW old, NEW new, IsFunction(old), IsFunction(new), DOMAIN old = DOMAIN new
  PROVE  Patched(old, Changes(old, new)) = new
<1>1. DOMAIN Changes(old, new) = ChangedFields(old, new)
      /\ \A p \in ChangedFields(old, new) : Changes(old, new)[p].to = new[p]
  BY DEF Changes
<1>2. \A p \in DOMAIN new : p \notin ChangedFields(old, new) => old[p] = new[p]
  BY DEF ChangedFields
<1>3. Patched(old, Changes(old, new)) = [p \in DOMAIN new |-> new[p]]
  BY <1>1, <1>2 DEF Patched
<1> QED BY <1>3 DEF IsFunction

LEMMA SameOtherwise ==
  ASSUME NEW base, NEW target, Comparable(base, target),
         NEW k \in DOMAIN base \cap DOMAIN target, k \notin Differing(base, target)
  PROVE  base[k] = target[k]
<1>1. PICK old, new : old = base[k] /\ new = target[k]
  OBVIOUS
<1>2. ChangedFields(old, new) = {}
  BY <1>1 DEF Differing, Changed
<1>3. IsFunction(old) /\ IsFunction(new) /\ DOMAIN old = DOMAIN new
  BY <1>1 DEF Comparable, WellFormed, SameFields
<1>4. \A p \in DOMAIN new : old[p] = new[p]
  BY <1>2 DEF ChangedFields
<1>5. old = new
  BY <1>3, <1>4 DEF IsFunction
<1> QED BY <1>1, <1>5

LEMMA AllMoved ==
  ASSUME NEW base, NEW target, Comparable(base, target), NEW S, Differing(base, target) \subseteq S
  PROVE  Moved(base, target, S) = target
<1>1. PICK m : m = Moved(base, target, S)
  OBVIOUS
<1>2. /\ DOMAIN m = (DOMAIN base \ S) \cup (DOMAIN target \cap S)
      /\ \A k \in DOMAIN m : m[k] = IF k \in S THEN target[k] ELSE base[k]
  BY <1>1, MovedFacts
<1>3. DOMAIN m = DOMAIN target
  BY <1>2 DEF Differing, Changed
<1>4. ASSUME NEW k \in DOMAIN target, k \notin S PROVE base[k] = target[k]
  <2>1. k \in DOMAIN base /\ k \notin Differing(base, target)
    BY <1>4 DEF Differing
  <2> QED BY <2>1, SameOtherwise
<1>5. \A k \in DOMAIN target : m[k] = target[k]
  BY <1>2, <1>3, <1>4
<1>6. m = target
  <2>1. IsFunction(m) /\ IsFunction(target)
    BY <1>1, MovedForm DEF WellFormed, Comparable
  <2> QED BY <1>3, <1>5, <2>1 DEF IsFunction
<1> QED BY <1>1, <1>6

LEMMA OneMoves ==
  ASSUME NEW base, NEW target, Comparable(base, target), NEW S, NEW op, Moves(op, base, target), op.key \notin S,
         NEW m, m = Moved(base, target, S), NEW n, n = Moved(base, target, S \cup {op.key})
  PROVE  Applicable(m, op) /\ ApplyOp(m, op) = n
<1>0. PICK k, T : k = op.key /\ T = S \cup {k}
  OBVIOUS
<1>1. m = Moved(base, target, S) /\ n = Moved(base, target, T)
  BY <1>0
<1>2. /\ DOMAIN m = (DOMAIN base \ S) \cup (DOMAIN target \cap S)
      /\ \A x \in DOMAIN m : m[x] = IF x \in S THEN target[x] ELSE base[x]
  BY <1>1 DEF Moved
<1>3. /\ DOMAIN n = (DOMAIN base \ T) \cup (DOMAIN target \cap T)
      /\ \A x \in DOMAIN n : n[x] = IF x \in T THEN target[x] ELSE base[x]
  BY <1>1 DEF Moved
<1>4. n = [x \in DOMAIN n |-> n[x]]
  <2>1. WellFormed(n)
    BY <1>1, MovedForm
  <2> QED BY <2>1 DEF WellFormed, IsFunction
<1>5. CASE op.action = "create"
  <2>1. k \in DOMAIN target \ DOMAIN base /\ op.data = target[k]
    BY <1>0, <1>5 DEF Moves
  <2>2. k \notin DOMAIN m /\ DOMAIN n = DOMAIN m \cup {k}
    BY <1>0, <1>2, <1>3, <2>1
  <2>3. With(m, k, op.data) = [x \in DOMAIN n |-> n[x]]
    BY <1>0, <1>2, <1>3, <2>1, <2>2 DEF With
  <2> QED BY <1>0, <1>1, <1>4, <1>5, <2>2, <2>3 DEF Applicable, ApplyOp
<1>6. CASE op.action = "update"
  <2>1. k \in DOMAIN target \cap DOMAIN base /\ op.changes = Changes(base[k], target[k])
    BY <1>0, <1>6 DEF Moves
  <2>2. k \in DOMAIN m /\ DOMAIN n = DOMAIN m /\ m[k] = base[k]
    BY <1>0, <1>2, <1>3, <2>1
  <2>3. Patched(m[k], op.changes) = target[k]
    BY <2>1, <2>2, PatchedFacts DEF Comparable, WellFormed, SameFields
  <2>4. With(m, k, Patched(m[k], op.changes)) = [x \in DOMAIN n |-> n[x]]
    BY <1>0, <1>2, <1>3, <2>1, <2>2, <2>3 DEF With
  <2> QED BY <1>0, <1>1, <1>4, <1>6, <2>2, <2>4 DEF Applicable, ApplyOp
<1>7. CASE op.action = "delete"
  <2>1. k \in DOMAIN base \ DOMAIN target
    BY <1>0, <1>7 DEF Moves
  <2>2. k \in DOMAIN m /\ DOMAIN n = DOMAIN m \ {k}
    BY <1>0, <1>2, <1>3, <2>1
  <2>3. Without(m, k) = [x \in DOMAIN n |-> n[x]]
    BY <1>0, <1>2, <1>3, <2>1, <2>2 DEF Without
  <2> QED BY <1>0, <1>1, <1>4, <1>7, <2>2, <2>3 DEF Applicable, ApplyOp
<1> QED BY <1>5, <1>6, <1>7 DEF Moves

(* Part of such a batch, applied to what the ops before it have left.      *)
(* A part of the list; a run that moves one key after the other.           *)
PartOf(part, ops, a, z) == Len(part) = z - a /\ \A i \in 1..z - a : part[i] = ops[a + i]
Walks(g, base, target, ops, a, z) == \A i \in 0..z - a : g[i] = Moved(base, target, KeysDone(ops, a + i))
NeverError(base, target) == \A S : Moved(base, target, S) # OpApplyError

LEMMA PartMoves ==
  ASSUME NEW base, NEW target, Comparable(base, target), NeverError(base, target),
         NEW n \in Nat, NEW ops, MovesAll(ops, n, base, target),
         NEW a \in Nat, NEW z \in Nat, a <= z, z <= n,
         NEW part, PartOf(part, ops, a, z),
         NEW g, Applying(g, Moved(base, target, KeysDone(ops, a)), part, z - a)
  PROVE  Walks(g, base, target, ops, a, z)
<1>1. g[0] = Moved(base, target, KeysDone(ops, a)) /\ \A i \in 1..z - a : g[i] = Applied(g[i-1], part[i])
  BY DEF Applying
<1> DEFINE S == {i \in 0..z-a : g[i] = Moved(base, target, KeysDone(ops, a + i))}
<1>4. 0 \in S
  BY <1>1
<1>5. ASSUME NEW i \in 0..(z-a)-1, i \in S PROVE i + 1 \in S
  <2>1. PICK done, op, old : done = KeysDone(ops, a + i) /\ op = ops[a + i + 1] /\ old = Moved(base, target, done)
    OBVIOUS
  <2>2. i \in 0..z-a /\ g[i] = old
    BY <1>5, <2>1
  <2>3. i + 1 \in 1..z-a /\ a + (i + 1) = a + i + 1 /\ (i + 1) - 1 = i /\ a + i + 1 \in 1..n
    BY <1>5
  <2>4. part[i + 1] = op
    BY <2>1, <2>3 DEF PartOf
  <2>5. g[i + 1] = Applied(old, op)
    BY <1>1, <2>2, <2>3, <2>4
  <2>6. Moves(op, base, target)
    BY <2>1, <2>3 DEF MovesAll
  <2>7. op.key \notin done
    <3>1. ASSUME NEW j \in 1..a + i, ops[j].key = ops[a + i + 1].key PROVE FALSE
      BY <2>3, <3>1 DEF MovesAll, EachOnce
    <3> QED BY <2>1, <3>1 DEF KeysDone
  <2>8. KeysDone(ops, a + (i + 1)) = done \cup {op.key}
    <3>1. 1..a + (i + 1) = (1..a + i) \cup {a + i + 1}
      BY <1>5
    <3>2. \A x : x \in KeysDone(ops, a + (i + 1)) <=> x \in KeysDone(ops, a + i) \/ x = op.key
      BY <2>1, <3>1 DEF KeysDone
    <3> QED BY <2>1, <3>2
  <2>11. PICK new : new = Moved(base, target, done \cup {op.key})
    OBVIOUS
  <2>9. Applicable(old, op) /\ ApplyOp(old, op) = new
    BY <2>1, <2>6, <2>7, <2>11, OneMoves
  <2>10. g[i + 1] = Moved(base, target, KeysDone(ops, a + (i + 1)))
    <3>1. old # OpApplyError
      BY <2>1 DEF NeverError
    <3> QED BY <2>5, <2>8, <2>9, <2>11, <3>1 DEF Applied
  <2> QED BY <2>3, <2>10
<1> HIDE DEF S
<1>6. 0..z-a \subseteq S
  <2>1. PICK k \in Nat : k = z - a
    OBVIOUS
  <2> QED BY <1>4, <1>5, <2>1, UpTo
<1> QED BY <1>6 DEF S, Walks
-----------------------------------------------------------------------------
(* The order of a diff: the keys of a finite set, each once, kind by kind. *)
Once(s, n, K) ==
    /\ s \in [1..n -> K]
    /\ \A k \in K : \E i \in 1..n : s[i] = k
    /\ \A i, j \in 1..n : s[i] = s[j] => i = j

LEMMA ListedOnce ==
  ASSUME NEW K, IsFiniteSet(K), NEW s, s = SetToSeq(K)
  PROVE  \E n \in Nat : Once(s, n, K)
<1>1. PICK n \in Nat : n = Cardinality(K)
  BY FS_CardinalityType
<1>2. PICK f : f \in Bijection(1..n, K)
  BY <1>1, FS_CardinalityType DEF ExistsBijection
<1>3. f \in [1..n -> K] /\ IsInjective(f)
  BY <1>2 DEF Bijection, Injection
<1>4. s \in [1..n -> K] /\ IsInjective(s)
  BY <1>1, <1>3 DEF SetToSeq
<1>5. \A i, j \in 1..n : s[i] = s[j] => i = j
  BY <1>4 DEF IsInjective
<1>6. s \in Injection(1..n, K)
  BY <1>4 DEF Injection
<1>7. IsFiniteSet(1..n) /\ Cardinality(1..n) = Cardinality(K)
  <2>1. Cardinality(1..n) = IF 1 > n THEN 0 ELSE n - 1 + 1
    BY FS_Interval
  <2>2. IsFiniteSet(1..n)
    BY FS_Interval
  <2> QED BY <1>1, <2>1, <2>2
<1>8. s \in Surjection(1..n, K)
  <2>1. PICK D : D = 1..n
    OBVIOUS
  <2>2. IsFiniteSet(D) /\ Cardinality(D) = Cardinality(K) /\ s \in Injection(D, K)
    BY <1>6, <1>7, <2>1
  <2>3. s \in Surjection(D, K)
    BY <2>2, FS_Injection
  <2> QED BY <2>1, <2>3
<1>9. \A k \in K : \E i \in 1..n : s[i] = k
  BY <1>8 DEF Surjection
<1> QED BY <1>4, <1>5, <1>9 DEF Once

Joined(u, s, a, t, b, K) ==
    /\ u \in [1..a + b -> K]
    /\ \A x \in 1..a : u[x] = s[x]
    /\ \A x \in 1..b : u[a + x] = t[x]

LEMMA Concatenated ==
  ASSUME NEW K, NEW a \in Nat, NEW b \in Nat, NEW s \in [1..a -> K], NEW t \in [1..b -> K],
         NEW u, u = s \o t
  PROVE  Joined(u, s, a, t, b, K)
<1>1. s \in Seq(K) /\ t \in Seq(K) /\ Len(s) = a /\ Len(t) = b
  OBVIOUS
<1>2. u \in Seq(K) /\ Len(u) = a + b
  BY <1>1, ConcatProperties
<1>3. u \in [1..a + b -> K]
  <2>1. u \in [1..Len(u) -> K]
    BY <1>2, LenProperties
  <2> QED BY <1>2, <2>1
<1>4. \A x \in 1..a + b : u[x] = IF x <= a THEN s[x] ELSE t[x - a]
  BY <1>1, ConcatProperties
<1>5. ASSUME NEW x \in 1..b PROVE u[a + x] = t[x]
  <2>1. a + x \in 1..a + b /\ ~ (a + x <= a) /\ (a + x) - a = x
    OBVIOUS
  <2> QED BY <1>4, <2>1
<1>6. ASSUME NEW x \in 1..a PROVE u[x] = s[x]
  <2>1. x \in 1..a + b /\ x <= a
    OBVIOUS
  <2> QED BY <1>4, <2>1
<1> QED BY <1>3, <1>5, <1>6 DEF Joined

(* The lists of a list of lists, one after the other.                      *)
Flattening(g, seqs, n) == g = [i \in 1..n |-> IF i = 1 THEN seqs[i] ELSE g[i-1] \o seqs[i]]

LEMMA FlatteningExists ==
  ASSUME NEW seqs, NEW n \in Nat
  PROVE  \E g : Flattening(g, seqs, n)
<1> DEFINE S == {j \in 0..n : \E g : Flattening(g, seqs, j)}
<1>1. 0 \in S
  <2>1. PICK g : g = [i \in 1..0 |-> {}]
    OBVIOUS
  <2>2. g = [i \in 1..0 |-> IF i = 1 THEN seqs[i] ELSE g[i-1] \o seqs[i]]
    BY <2>1
  <2>3. Flattening(g, seqs, 0)
    BY <2>2 DEF Flattening
  <2> QED BY <2>3
<1>2. ASSUME NEW j \in 0..n-1, j \in S PROVE j + 1 \in S
  <2>1. PICK g : Flattening(g, seqs, j)
    BY <1>2
  <2>2. PICK h : h = [i \in 1..j+1 |-> IF i = j + 1
                                      THEN IF j = 0 THEN seqs[j+1] ELSE g[j] \o seqs[j+1] ELSE g[i]]
    OBVIOUS
  <2>3. h = [i \in 1..j+1 |-> h[i]]
    BY <2>2
  <2>4. ASSUME NEW i \in 1..j+1 PROVE h[i] = IF i = 1 THEN seqs[i] ELSE h[i-1] \o seqs[i]
    <3>1. g = [x \in 1..j |-> IF x = 1 THEN seqs[x] ELSE g[x-1] \o seqs[x]]
      BY <2>1 DEF Flattening
    <3>2. CASE i = j + 1
      BY <2>2, <3>2
    <3>3. CASE i # j + 1
      <4>1. i \in 1..j /\ h[i] = g[i] /\ (i # 1 => i - 1 \in 1..j /\ h[i-1] = g[i-1])
        BY <2>2, <3>3
      <4> QED BY <3>1, <4>1
    <3> QED BY <3>2, <3>3
  <2>5. Flattening(h, seqs, j + 1)
    BY <2>3, <2>4 DEF Flattening
  <2> QED BY <2>5
<1> HIDE DEF S
<1>3. n \in S
  BY <1>1, <1>2, UpTo
<1> QED BY <1>3 DEF S

LEMMA FlattenedFacts ==
  ASSUME NEW seqs, NEW n \in Nat, Len(seqs) = n, n # 0
  PROVE  \E g : Flattening(g, seqs, n) /\ FlattenSeq(seqs) = g[n]
<1>1. PICK g : Flattening(g, seqs, n)
  BY FlatteningExists
<1>2. PICK a : a = CHOOSE f : f = [i \in 1..n |-> IF i = 1 THEN seqs[i] ELSE f[i-1] \o seqs[i]]
  OBVIOUS
<1>3. a = [i \in 1..n |-> IF i = 1 THEN seqs[i] ELSE a[i-1] \o seqs[i]]
  BY <1>1, <1>2 DEF Flattening
<1>4. FlattenSeq(seqs) = a[n]
  BY <1>2 DEF FlattenSeq
<1> QED BY <1>3, <1>4 DEF Flattening

KindNo(kind, j) == j \in 1..10 /\ ENTITY_KINDS[j] = kind
KindBefore(k, l) == \E i, j \in 1..10 : i <= j /\ KindNo(k[1], i) /\ KindNo(l[1], j)

(* What a list of the keys of K of the first n kinds is.                   *)
Lists(s, m, K, n) ==
    /\ \A i \in 1..m : s[i] \in K /\ \E j \in 1..n : ENTITY_KINDS[j] = s[i][1]
    /\ \A k \in K : (\E j \in 1..n : ENTITY_KINDS[j] = k[1]) => \E i \in 1..m : s[i] = k
    /\ \A i, j \in 1..m : s[i] = s[j] => i = j
    /\ \A i, j \in 1..m : i < j => KindBefore(s[i], s[j])

LEMMA KindsDiffer ==
  \A i, j \in 1..10 : ENTITY_KINDS[i] = ENTITY_KINDS[j] => i = j
  BY DEF ENTITY_KINDS

(* The list of one kind.                                                   *)
OfKind(t, b, K, kind) ==
    /\ t \in [1..b -> K]
    /\ \A i \in 1..b : t[i] \in K /\ t[i][1] = kind
    /\ \A k \in K : k[1] = kind => \E i \in 1..b : t[i] = k
    /\ \A i, j \in 1..b : t[i] = t[j] => i = j

LEMMA OneKindMore ==
  ASSUME NEW K, NEW n \in 1..9, NEW a \in Nat, NEW b \in Nat, NEW s, NEW t, NEW u,
         Lists(s, a, K, n), OfKind(t, b, K, ENTITY_KINDS[n + 1]),
         \A i \in 1..a : u[i] = s[i],
         \A i \in 1..b : u[a + i] = t[i]
  PROVE  Lists(u, a + b, K, n + 1)
<1>1. \A i \in 1..a : u[i] \in K /\ \E x \in 1..n : ENTITY_KINDS[x] = u[i][1]
  BY DEF Lists
<1>2. ASSUME NEW i \in 1..a + b, i \notin 1..a
      PROVE  /\ i - a \in 1..b /\ u[i] = t[i - a]
             /\ u[i] \in K /\ u[i][1] = ENTITY_KINDS[n + 1]
  <2>1. PICK x \in 1..b : a + x = i /\ x = i - a
    BY <1>2
  <2>2. u[a + x] = t[x]
    OBVIOUS
  <2> QED BY <2>1, <2>2 DEF OfKind
<1>3. n + 1 \in 1..10 /\ \A x \in 1..n : x \in 1..10 /\ x # n + 1 /\ x <= n + 1
  OBVIOUS
<1>4. ASSUME NEW i \in 1..a + b PROVE u[i] \in K /\ \E j \in 1..n+1 : ENTITY_KINDS[j] = u[i][1]
  <2>1. CASE i \in 1..a
    BY <1>1, <2>1
  <2>2. CASE i \notin 1..a
    BY <1>2, <2>2
  <2> QED BY <2>1, <2>2
<1>5. ASSUME NEW k \in K, NEW j \in 1..n+1, ENTITY_KINDS[j] = k[1] PROVE \E i \in 1..a + b : u[i] = k
  <2>1. CASE j \in 1..n
    <3>1. PICK i \in 1..a : s[i] = k
      BY <1>5, <2>1 DEF Lists
    <3>2. i \in 1..a + b /\ u[i] = k
      BY <3>1
    <3> QED BY <3>2
  <2>2. CASE j = n + 1
    <3>1. PICK i \in 1..b : t[i] = k
      BY <1>5, <2>2 DEF OfKind
    <3>2. a + i \in 1..a + b /\ u[a + i] = k
      BY <3>1
    <3> QED BY <3>2
  <2> QED BY <2>1, <2>2
<1>6. ASSUME NEW i \in 1..a, NEW j \in 1..a + b, j \notin 1..a
      PROVE  u[i] # u[j] /\ KindBefore(u[i], u[j]) /\ i < j
  <2>1. PICK x \in 1..n : ENTITY_KINDS[x] = u[i][1]
    BY <1>1
  <2>2. u[j][1] = ENTITY_KINDS[n + 1]
    BY <1>2, <1>6
  <2>3. ENTITY_KINDS[x] # ENTITY_KINDS[n + 1]
    BY <1>3, KindsDiffer
  <2>4. KindNo(u[i][1], x) /\ KindNo(u[j][1], n + 1)
    BY <1>3, <2>1, <2>2 DEF KindNo
  <2>5. KindBefore(u[i], u[j])
    BY <1>3, <2>4 DEF KindBefore
  <2>6. i < j
    BY <1>6
  <2> QED BY <2>1, <2>2, <2>3, <2>5, <2>6
<1>7. ASSUME NEW i \in 1..a + b, NEW j \in 1..a + b
      PROVE  (u[i] = u[j] => i = j) /\ (i < j => KindBefore(u[i], u[j]))
  <2>1. CASE i \in 1..a /\ j \in 1..a
    <3>1. u[i] = s[i] /\ u[j] = s[j]
      BY <2>1
    <3> QED BY <2>1, <3>1 DEF Lists
  <2>2. CASE i \in 1..a /\ j \notin 1..a
    BY <1>6, <2>2
  <2>3. CASE j \in 1..a /\ i \notin 1..a
    <3>1. u[j] # u[i] /\ j < i
      BY <1>6, <2>3
    <3>2. ~ (i < j)
      BY <3>1
    <3> QED BY <3>1, <3>2
  <2>4. CASE i \notin 1..a /\ j \notin 1..a
    <3>1. PICK x, y : x = i - a /\ y = j - a
      OBVIOUS
    <3>2. u[i] = t[x] /\ u[j] = t[y] /\ x \in 1..b /\ y \in 1..b
      BY <1>2, <2>4, <3>1
    <3>9. t[x] = t[y] => x = y
      BY <3>2 DEF OfKind
    <3>3. u[i] = u[j] => x = y
      BY <3>2, <3>9
    <3>4. u[i] = u[j] => i = j
      BY <3>1, <3>3
    <3>5. u[i][1] = ENTITY_KINDS[n + 1] /\ u[j][1] = ENTITY_KINDS[n + 1]
      BY <1>2, <2>4
    <3>6. KindNo(u[i][1], n + 1) /\ KindNo(u[j][1], n + 1)
      BY <1>3, <3>5 DEF KindNo
    <3>7. n + 1 <= n + 1
      OBVIOUS
    <3>8. KindBefore(u[i], u[j])
      BY <1>3, <3>6, <3>7 DEF KindBefore
    <3> QED BY <3>4, <3>8
  <2> QED BY <2>1, <2>2, <2>3, <2>4
<1> QED BY <1>4, <1>5, <1>7 DEF Lists

LEMMA KindsListed ==
  ASSUME NEW K, IsFiniteSet(K)
  PROVE  \E m \in Nat : InKindOrder(K) \in [1..m -> K] /\ Lists(InKindOrder(K), m, K, 10)
<1> DEFINE Of(i) == {k \in K : k[1] = ENTITY_KINDS[i]}
           List(s, n) == \E m \in Nat : s \in [1..m -> K] /\ Lists(s, m, K, n)
<1>1. PICK seqs : seqs = [i \in 1..10 |-> SetToSeq(Of(i))]
  OBVIOUS
<1>2. Len(ENTITY_KINDS) = 10
  BY DEF ENTITY_KINDS
<1>3. InKindOrder(K) = FlattenSeq(seqs)
  BY <1>1, <1>2 DEF InKindOrder
<1>4. Len(seqs) = 10
  BY <1>1
<1>5. PICK g : Flattening(g, seqs, 10) /\ FlattenSeq(seqs) = g[10]
  <2>1. PICK n \in Nat : n = 10
    OBVIOUS
  <2>2. Len(seqs) = n /\ n # 0
    BY <1>4, <2>1
  <2>3. \E g : Flattening(g, seqs, n) /\ FlattenSeq(seqs) = g[n]
    BY <2>2, FlattenedFacts
  <2> QED BY <2>1, <2>3
<1>6. g[1] = seqs[1] /\ \A i \in 1..9 : g[i + 1] = g[i] \o seqs[i + 1]
  <2>1. g = [i \in 1..10 |-> IF i = 1 THEN seqs[i] ELSE g[i-1] \o seqs[i]]
    BY <1>5 DEF Flattening
  <2>2. ASSUME NEW i \in 1..9 PROVE g[i + 1] = g[i] \o seqs[i + 1]
    <3>1. PICK j \in 1..10 : j = i + 1 /\ j # 1 /\ j - 1 = i
      OBVIOUS
    <3>2. g[j] = g[j-1] \o seqs[j]
      BY <2>1, <3>1
    <3> QED BY <3>1, <3>2
  <2>3. g[1] = seqs[1]
    BY <2>1
  <2> QED BY <2>2, <2>3
<1>7. ASSUME NEW i \in 1..10 PROVE \E b \in Nat : OfKind(seqs[i], b, K, ENTITY_KINDS[i])
  <2>1. PICK t, L : t = seqs[i] /\ L = Of(i)
    OBVIOUS
  <2>2. t = SetToSeq(L)
    BY <1>1, <2>1
  <2>3. L \subseteq K /\ IsFiniteSet(L)
    BY <2>1, FS_Subset
  <2>4. PICK b \in Nat : Once(t, b, L)
    BY <2>2, <2>3, ListedOnce
  <2>5. \A k \in K : k \in L <=> k[1] = ENTITY_KINDS[i]
    BY <2>1
  <2>6. t \in [1..b -> K] /\ \A x \in 1..b : t[x] \in L /\ t[x] \in K
    BY <2>3, <2>4 DEF Once
  <2>7. OfKind(t, b, K, ENTITY_KINDS[i])
    BY <2>4, <2>5, <2>6 DEF Once, OfKind
  <2> QED BY <2>1, <2>7
<1> DEFINE S == {i \in 0..9 : List(g[i + 1], i + 1)}
<1>8. 0 \in S
  <2>1. PICK t : t = g[1]
    OBVIOUS
  <2>2. PICK b \in Nat : OfKind(t, b, K, ENTITY_KINDS[1])
    <3>1. 1 \in 1..10
      OBVIOUS
    <3> QED BY <1>6, <1>7, <2>1, <3>1
  <2>3. \A i \in 1..b : KindNo(t[i][1], 1)
    BY <2>2 DEF KindNo, OfKind
  <2>4. \A i, j \in 1..b : KindBefore(t[i], t[j])
    BY <2>3 DEF KindBefore
  <2>5. Lists(t, b, K, 1) /\ t \in [1..b -> K]
    BY <2>2, <2>4 DEF Lists, OfKind
  <2> QED BY <2>1, <2>5
<1>9. ASSUME NEW i \in 0..9-1, i \in S PROVE i + 1 \in S
  <2>1. PICK n \in 1..9 : n = i + 1
    OBVIOUS
  <2>2. PICK s, t : s = g[n] /\ t = seqs[n + 1]
    OBVIOUS
  <2>3. PICK a \in Nat : s \in [1..a -> K] /\ Lists(s, a, K, n)
    BY <1>9, <2>1, <2>2
  <2>4. PICK b \in Nat : OfKind(t, b, K, ENTITY_KINDS[n + 1])
    <3>1. n + 1 \in 1..10
      OBVIOUS
    <3> QED BY <1>7, <2>2, <3>1
  <2>5. t \in [1..b -> K]
    BY <2>4 DEF OfKind
  <2>6. PICK u : u = s \o t
    OBVIOUS
  <2>7. u \in [1..a + b -> K] /\ (\A x \in 1..a : u[x] = s[x]) /\ \A x \in 1..b : u[a + x] = t[x]
    <3>1. Joined(u, s, a, t, b, K)
      BY <2>3, <2>5, <2>6, Concatenated
    <3> QED BY <3>1 DEF Joined
  <2>8. Lists(u, a + b, K, n + 1) /\ u \in [1..a + b -> K]
    BY <2>3, <2>4, <2>7, OneKindMore
  <2>9. u = g[n + 1] /\ a + b \in Nat
    <3>1. n \in 1..9 /\ g[n + 1] = g[n] \o seqs[n + 1]
      BY <1>6
    <3>2. u = g[n + 1]
      BY <2>2, <2>6, <3>1
    <3> QED BY <3>2
  <2>10. List(g[n + 1], n + 1)
    BY <2>8, <2>9
  <2>11. i + 1 \in 0..9 /\ i + 1 = n
    BY <2>1
  <2> QED BY <2>10, <2>11
<1> HIDE DEF S
<1>10. 9 \in S
  <2>1. PICK n \in Nat : n = 9
    OBVIOUS
  <2>2. 0..n \subseteq S
    BY <1>8, <1>9, <2>1, UpTo
  <2> QED BY <2>1, <2>2
<1>11. List(g[10], 10)
  BY <1>10 DEF S
<1> QED BY <1>3, <1>5, <1>11
-----------------------------------------------------------------------------
(* The three parts of a diff, each with its keys once.                     *)
KeysOnce(s, a, K) ==
    /\ s = [i \in 1..a |-> s[i]]
    /\ \A i \in 1..a : s[i].key \in K
    /\ \A k \in K : \E i \in 1..a : s[i].key = k
    /\ \A i, j \in 1..a : s[i].key = s[j].key => i = j
Rising(s, from, to)  == \A i, j \in from..to : i < j => KindBefore(s[i].key, s[j].key)
Falling(s, from, to) == \A i, j \in from..to : i < j => KindBefore(s[j].key, s[i].key)

LEMMA KindsOfAll ==
  ASSUME NEW K, IsFiniteSet(K), \A k \in K : k[1] \in Range(ENTITY_KINDS)
  PROVE  \E m \in Nat : /\ InKindOrder(K) \in [1..m -> K]
                        /\ \A k \in K : \E i \in 1..m : InKindOrder(K)[i] = k
                        /\ \A i, j \in 1..m : InKindOrder(K)[i] = InKindOrder(K)[j] => i = j
                        /\ \A i, j \in 1..m : i < j => KindBefore(InKindOrder(K)[i], InKindOrder(K)[j])
<1>1. PICK m \in Nat : InKindOrder(K) \in [1..m -> K] /\ Lists(InKindOrder(K), m, K, 10)
  BY KindsListed
<1>2. \A k \in K : \E j \in 1..10 : ENTITY_KINDS[j] = k[1]
  BY DEF Range, ENTITY_KINDS
<1> QED BY <1>1, <1>2 DEF Lists

LEMMA CreatesFacts ==
  ASSUME NEW base, NEW target, WellFormed(base), WellFormed(target)
  PROVE  \E a \in Nat :
            /\ KeysOnce(Creates(base, target), a, DOMAIN target \ DOMAIN base)
            /\ Rising(Creates(base, target), 1, a)
            /\ \A i \in 1..a : Creates(base, target)[i].action = "create"
                               /\ Moves(Creates(base, target)[i], base, target)
<1>1. PICK K : K = DOMAIN target \ DOMAIN base
  OBVIOUS
<1>2. IsFiniteSet(K) /\ \A k \in K : k[1] \in Range(ENTITY_KINDS)
  BY <1>1, FS_Subset DEF WellFormed
<1>3. PICK keys : keys = InKindOrder(K)
  OBVIOUS
<1>4. PICK a \in Nat : /\ keys \in [1..a -> K]
                       /\ \A k \in K : \E i \in 1..a : keys[i] = k
                       /\ \A i, j \in 1..a : keys[i] = keys[j] => i = j
                       /\ \A i, j \in 1..a : i < j => KindBefore(keys[i], keys[j])
  BY <1>2, <1>3, KindsOfAll
<1>5. PICK s : s = [i \in 1..a |-> CreateOp(keys[i], target[keys[i]])]
  OBVIOUS
<1>6. Creates(base, target) = s
  BY <1>1, <1>3, <1>4, <1>5 DEF Creates
<1>7. \A i \in 1..a : /\ s[i].key = keys[i] /\ s[i].action = "create"
                      /\ s[i].data = target[keys[i]] /\ keys[i] \in K
  BY <1>4, <1>5 DEF CreateOp
<1>8. s = [i \in 1..a |-> s[i]]
  BY <1>5
<1>9. KeysOnce(s, a, K)
  BY <1>4, <1>7, <1>8 DEF KeysOnce
<1>10. Rising(s, 1, a)
  BY <1>4, <1>7 DEF Rising
<1>11. \A i \in 1..a : s[i].action = "create" /\ Moves(s[i], base, target)
  BY <1>1, <1>7 DEF Moves
<1> QED BY <1>1, <1>6, <1>9, <1>10, <1>11

LEMMA UpdatesFacts ==
  ASSUME NEW base, NEW target, WellFormed(base), WellFormed(target)
  PROVE  \E a \in Nat :
            /\ KeysOnce(Updates(base, target), a, Changed(base, target))
            /\ \A i \in 1..a : Updates(base, target)[i].action = "update"
                               /\ Moves(Updates(base, target)[i], base, target)
<1>1. PICK K : K = Changed(base, target)
  OBVIOUS
<1>2. IsFiniteSet(K) /\ \A k \in K : k[1] \in Range(ENTITY_KINDS)
  <2>1. K \subseteq DOMAIN target
    BY <1>1 DEF Changed
  <2> QED BY <2>1, FS_Subset DEF WellFormed
<1>3. PICK keys : keys = InKindOrder(K)
  OBVIOUS
<1>4. PICK a \in Nat : /\ keys \in [1..a -> K]
                       /\ \A k \in K : \E i \in 1..a : keys[i] = k
                       /\ \A i, j \in 1..a : keys[i] = keys[j] => i = j
                       /\ \A i, j \in 1..a : i < j => KindBefore(keys[i], keys[j])
  BY <1>2, <1>3, KindsOfAll
<1>5. PICK s : s = [i \in 1..a |-> UpdateOp(keys[i], Changes(base[keys[i]], target[keys[i]]))]
  OBVIOUS
<1>6. Updates(base, target) = s
  <2>1. keys = InKindOrder({k \in DOMAIN target \cap DOMAIN base : ChangedFields(base[k], target[k]) # {}})
    BY <1>1, <1>3 DEF Changed
  <2> QED BY <1>4, <1>5, <2>1 DEF Updates
<1>7. \A i \in 1..a : /\ s[i].key = keys[i] /\ s[i].action = "update"
                      /\ s[i].changes = Changes(base[keys[i]], target[keys[i]]) /\ keys[i] \in K
                      /\ s[i] = UpdateOp(keys[i], s[i].changes)
  BY <1>4, <1>5 DEF UpdateOp
<1>8. s = [i \in 1..a |-> s[i]]
  BY <1>5
<1>9. KeysOnce(s, a, K)
  BY <1>4, <1>7, <1>8 DEF KeysOnce
<1>10. \A i \in 1..a : s[i].key \in DOMAIN base \cap DOMAIN target
  BY <1>1, <1>7 DEF Changed
<1>11. \A i \in 1..a : s[i].action = "update" /\ Moves(s[i], base, target)
  BY <1>7, <1>10 DEF Moves
<1> QED BY <1>1, <1>6, <1>9, <1>11

LEMMA DeletesFacts ==
  ASSUME NEW base, NEW target, WellFormed(base), WellFormed(target)
  PROVE  \E a \in Nat :
            /\ KeysOnce(Deletes(base, target), a, DOMAIN base \ DOMAIN target)
            /\ Falling(Deletes(base, target), 1, a)
            /\ \A i \in 1..a : Deletes(base, target)[i].action = "delete"
                               /\ Moves(Deletes(base, target)[i], base, target)
<1>1. PICK K : K = DOMAIN base \ DOMAIN target
  OBVIOUS
<1>2. IsFiniteSet(K) /\ \A k \in K : k[1] \in Range(ENTITY_KINDS)
  BY <1>1, FS_Subset DEF WellFormed
<1>3. PICK list : list = InKindOrder(K)
  OBVIOUS
<1>4. PICK a \in Nat : /\ list \in [1..a -> K]
                       /\ \A k \in K : \E i \in 1..a : list[i] = k
                       /\ \A i, j \in 1..a : list[i] = list[j] => i = j
                       /\ \A i, j \in 1..a : i < j => KindBefore(list[i], list[j])
  BY <1>2, <1>3, KindsOfAll
<1>12. PICK keys : keys = [i \in 1..a |-> list[a - i + 1]]
  OBVIOUS
<1>13. Reverse(list) = keys
  <2>1. Len(list) = a
    BY <1>4
  <2> QED BY <1>12, <2>1 DEF Reverse
<1>14. \A i \in 1..a : a - i + 1 \in 1..a /\ a - (a - i + 1) + 1 = i
  OBVIOUS
<1>15. keys \in [1..a -> K] /\ \A i \in 1..a : keys[i] = list[a - i + 1]
  BY <1>4, <1>12, <1>14
<1>16. ASSUME NEW k \in K PROVE \E i \in 1..a : keys[i] = k
  <2>1. PICK j \in 1..a : list[j] = k
    BY <1>4
  <2>2. a - j + 1 \in 1..a /\ keys[a - j + 1] = list[j]
    BY <1>14, <1>15
  <2> QED BY <2>1, <2>2
<1>17. ASSUME NEW i \in 1..a, NEW j \in 1..a
       PROVE  (keys[i] = keys[j] => i = j) /\ (i < j => KindBefore(keys[j], keys[i]))
  <2>1. PICK x \in 1..a, y \in 1..a : x = a - i + 1 /\ y = a - j + 1
    BY <1>14
  <2>2. (x = y => i = j) /\ (i < j => y < x)
    BY <2>1
  <2>3. keys[i] = list[x] /\ keys[j] = list[y]
    BY <1>15, <2>1
  <2> QED BY <1>4, <2>2, <2>3
<1>5. PICK s : s = [i \in 1..a |-> DeleteOp(keys[i], base[keys[i]])]
  OBVIOUS
<1>6. Deletes(base, target) = s
  BY <1>1, <1>3, <1>13, <1>15, <1>5 DEF Deletes
<1>7. \A i \in 1..a : /\ s[i].key = keys[i] /\ s[i].action = "delete"
                      /\ s[i] = DeleteOp(keys[i], base[keys[i]]) /\ keys[i] \in K
  BY <1>15, <1>5 DEF DeleteOp
<1>8. s = [i \in 1..a |-> s[i]]
  BY <1>5
<1>9. KeysOnce(s, a, K)
  BY <1>7, <1>8, <1>16, <1>17 DEF KeysOnce
<1>10. Falling(s, 1, a)
  BY <1>7, <1>17 DEF Falling
<1>11. \A i \in 1..a : s[i].action = "delete" /\ Moves(s[i], base, target)
  BY <1>1, <1>7 DEF Moves
<1> QED BY <1>1, <1>6, <1>9, <1>10, <1>11

(* The diff: creates, then updates, then deletes, each differing key once. *)
DiffOrder(ops, c, v, n, base, target) ==
    /\ \A i \in 1..n : Moves(ops[i], base, target)
    /\ \A i \in 1..n : ops[i].key \in IF i <= c THEN DOMAIN target \ DOMAIN base
                                      ELSE IF i <= v THEN Changed(base, target)
                                      ELSE DOMAIN base \ DOMAIN target
    /\ \A k \in Differing(base, target) : \E i \in 1..n : ops[i].key = k
    /\ \A i, j \in 1..n : ops[i].key = ops[j].key => i = j
    /\ Rising(ops, 1, c)
    /\ Falling(ops, v + 1, n)

(* Where an op of a list of three parts comes from.                        *)
Parts(ops, C, c, U, u, D, d, v, n) ==
    /\ v = c + u /\ n = v + d
    /\ \A i \in 1..c : ops[i] = C[i]
    /\ \A i \in 1..u : ops[c + i] = U[i]
    /\ \A i \in 1..d : ops[v + i] = D[i]
ThreeKinds(C, c, U, u, D, d, base, target) ==
    /\ KeysOnce(C, c, DOMAIN target \ DOMAIN base) /\ Rising(C, 1, c)
    /\ \A i \in 1..c : Moves(C[i], base, target)
    /\ KeysOnce(U, u, Changed(base, target))
    /\ \A i \in 1..u : Moves(U[i], base, target)
    /\ KeysOnce(D, d, DOMAIN base \ DOMAIN target) /\ Falling(D, 1, d)
    /\ \A i \in 1..d : Moves(D[i], base, target)

LEMMA ThreeParts ==
  ASSUME NEW c \in Nat, NEW u \in Nat, NEW d \in Nat, NEW v \in Nat, NEW n \in Nat, v = c + u, n = v + d,
         NEW C, NEW U, NEW D, NEW t, NEW ops, NEW R,
         Joined(t, C, c, U, u, R), Joined(ops, t, v, D, d, R)
  PROVE  Parts(ops, C, c, U, u, D, d, v, n)
<1>1. ASSUME NEW i \in 1..c PROVE ops[i] = C[i]
  <2>1. i \in 1..v
    OBVIOUS
  <2> QED BY <2>1 DEF Joined
<1>2. ASSUME NEW i \in 1..u PROVE ops[c + i] = U[i]
  <2>1. c + i \in 1..v
    OBVIOUS
  <2> QED BY <2>1 DEF Joined
<1> QED BY <1>1, <1>2 DEF Joined, Parts

LEMMA PartsInOrder ==
  ASSUME NEW base, NEW target, NEW c \in Nat, NEW u \in Nat, NEW d \in Nat, NEW v \in Nat, NEW n \in Nat,
         NEW C, NEW U, NEW D, NEW ops,
         ThreeKinds(C, c, U, u, D, d, base, target), Parts(ops, C, c, U, u, D, d, v, n)
  PROVE  DiffOrder(ops, c, v, n, base, target)
<1> SUFFICES ASSUME KeysOnce(C, c, DOMAIN target \ DOMAIN base), Rising(C, 1, c),
                    \A i \in 1..c : Moves(C[i], base, target),
                    KeysOnce(U, u, Changed(base, target)),
                    \A i \in 1..u : Moves(U[i], base, target),
                    KeysOnce(D, d, DOMAIN base \ DOMAIN target), Falling(D, 1, d),
                    \A i \in 1..d : Moves(D[i], base, target),
                    v = c + u, n = v + d,
                    \A i \in 1..c : ops[i] = C[i],
                    \A i \in 1..u : ops[c + i] = U[i],
                    \A i \in 1..d : ops[v + i] = D[i]
             PROVE  DiffOrder(ops, c, v, n, base, target)
  BY DEF ThreeKinds, Parts
<1>0. /\ \A i \in 1..c : i \in 1..n
      /\ \A i \in 1..u : c + i \in 1..n
      /\ \A i \in 1..d : v + i \in 1..n
  OBVIOUS
<1>1. ASSUME NEW i \in 1..n
      PROVE  \/ i <= c /\ i \in 1..c
             \/ ~ (i <= c) /\ i <= v /\ i - c \in 1..u /\ c + (i - c) = i
             \/ ~ (i <= c) /\ ~ (i <= v) /\ i - v \in 1..d /\ v + (i - v) = i
  OBVIOUS
<1>2. ASSUME NEW i \in 1..c PROVE Moves(ops[i], base, target) /\ ops[i].key \in DOMAIN target \ DOMAIN base
  BY DEF KeysOnce
<1>3. ASSUME NEW i \in 1..n, ~ (i <= c), i <= v
      PROVE  /\ ops[i] = U[i - c] /\ i - c \in 1..u
             /\ Moves(ops[i], base, target) /\ ops[i].key \in Changed(base, target)
  <2>1. PICK x \in 1..u : x = i - c /\ c + x = i
    BY <1>3
  <2>2. ops[c + x] = U[x]
    OBVIOUS
  <2> QED BY <2>1, <2>2 DEF KeysOnce
<1>4. ASSUME NEW i \in 1..n, ~ (i <= v)
      PROVE  /\ ops[i] = D[i - v] /\ i - v \in 1..d
             /\ Moves(ops[i], base, target) /\ ops[i].key \in DOMAIN base \ DOMAIN target
  <2>1. PICK x \in 1..d : x = i - v /\ v + x = i
    BY <1>4
  <2>2. ops[v + x] = D[x]
    OBVIOUS
  <2>3. Moves(D[x], base, target) /\ D[x].key \in DOMAIN base \ DOMAIN target
    BY DEF KeysOnce
  <2> QED BY <2>1, <2>2, <2>3
<1>5. ASSUME NEW i \in 1..n
      PROVE  /\ Moves(ops[i], base, target)
             /\ ops[i].key \in IF i <= c THEN DOMAIN target \ DOMAIN base
                               ELSE IF i <= v THEN Changed(base, target)
                               ELSE DOMAIN base \ DOMAIN target
  <2>1. CASE i <= c
    <3>1. i \in 1..c
      BY <2>1
    <3> QED BY <1>2, <2>1, <3>1
  <2>2. CASE ~ (i <= c) /\ i <= v
    BY <1>3, <2>2
  <2>3. CASE ~ (i <= c) /\ ~ (i <= v)
    BY <1>4, <2>3
  <2> QED BY <2>1, <2>2, <2>3
<1>6. ASSUME NEW k \in Differing(base, target) PROVE \E i \in 1..n : ops[i].key = k
  <2>1. CASE k \in DOMAIN target \ DOMAIN base
    <3>1. PICK i \in 1..c : C[i].key = k
      BY <2>1 DEF KeysOnce
    <3> QED BY <1>0, <3>1
  <2>2. CASE k \in Changed(base, target)
    <3>1. PICK i \in 1..u : U[i].key = k
      BY <2>2 DEF KeysOnce
    <3>2. c + i \in 1..n
      BY <1>0
    <3> QED BY <3>1, <3>2
  <2>3. CASE k \in DOMAIN base \ DOMAIN target
    <3>1. PICK i \in 1..d : D[i].key = k
      BY <2>3 DEF KeysOnce
    <3>2. v + i \in 1..n
      BY <1>0
    <3> QED BY <3>1, <3>2
  <2> QED BY <2>1, <2>2, <2>3 DEF Differing
<1>7. ASSUME NEW i \in 1..n, NEW j \in 1..n, ops[i].key = ops[j].key PROVE i = j
  <2>9. c <= v /\ Changed(base, target) \subseteq DOMAIN base \cap DOMAIN target
    BY DEF Changed
  <2>8. PICK k, l : k = ops[i].key /\ l = ops[j].key /\ k = l
    BY <1>7
  <2>7. /\ k \in IF i <= c THEN DOMAIN target \ DOMAIN base
                ELSE IF i <= v THEN Changed(base, target) ELSE DOMAIN base \ DOMAIN target
        /\ l \in IF j <= c THEN DOMAIN target \ DOMAIN base
                ELSE IF j <= v THEN Changed(base, target) ELSE DOMAIN base \ DOMAIN target
    BY <1>5, <2>8
  <2>1. (i <= c <=> j <= c) /\ (i <= v <=> j <= v)
    BY <2>7, <2>8, <2>9
  <2>2. CASE i <= c
    <3>1. i \in 1..c /\ j \in 1..c
      BY <2>1, <2>2
    <3> QED BY <1>7, <3>1 DEF KeysOnce
  <2>3. CASE ~ (i <= c) /\ i <= v
    <3>1. PICK x, y : x = i - c /\ y = j - c
      OBVIOUS
    <3>2. ops[i] = U[x] /\ ops[j] = U[y] /\ x \in 1..u /\ y \in 1..u
      BY <1>3, <2>1, <2>3, <3>1
    <3>3. x = y
      BY <1>7, <3>2 DEF KeysOnce
    <3> QED BY <3>1, <3>3
  <2>4. CASE ~ (i <= c) /\ ~ (i <= v)
    <3>1. PICK x, y : x = i - v /\ y = j - v
      OBVIOUS
    <3>2. ops[i] = D[x] /\ ops[j] = D[y] /\ x \in 1..d /\ y \in 1..d
      BY <1>4, <2>1, <2>4, <3>1
    <3>3. x = y
      BY <1>7, <3>2 DEF KeysOnce
    <3> QED BY <3>1, <3>3
  <2> QED BY <2>2, <2>3, <2>4
<1>8. Rising(ops, 1, c)
  <2>1. \A i \in 1..c : ops[i] = C[i]
    OBVIOUS
  <2> QED BY <2>1 DEF Rising
<1>9. Falling(ops, v + 1, n)
  <2>1. ASSUME NEW i \in v + 1..n, NEW j \in v + 1..n, i < j PROVE KindBefore(ops[j].key, ops[i].key)
    <3>1. PICK x, y : x = i - v /\ y = j - v
      OBVIOUS
    <3>2. x \in 1..d /\ y \in 1..d /\ v + x = i /\ v + y = j /\ x < y
      BY <2>1, <3>1
    <3>3. KindBefore(D[y].key, D[x].key)
      BY <3>2 DEF Falling
    <3>4. ops[v + x] = D[x] /\ ops[v + y] = D[y]
      BY <3>2
    <3> QED BY <3>2, <3>3, <3>4
  <2> QED BY <2>1 DEF Falling
<1> QED BY <1>5, <1>6, <1>7, <1>8, <1>9 DEF DiffOrder

LEMMA DiffInOrder ==
  ASSUME NEW base, NEW target, WellFormed(base), WellFormed(target), NEW ops, ops = diffModels(base, target)
  PROVE  \E c, v, n \in Nat : c <= v /\ v <= n /\ DiffOrder(ops, c, v, n, base, target) /\ ops = [i \in 1..n |-> ops[i]]
<1>1. PICK C, U, D : C = Creates(base, target) /\ U = Updates(base, target) /\ D = Deletes(base, target)
  OBVIOUS
<1>2. PICK c \in Nat : /\ KeysOnce(C, c, DOMAIN target \ DOMAIN base) /\ Rising(C, 1, c)
                       /\ \A i \in 1..c : Moves(C[i], base, target)
  BY <1>1, CreatesFacts
<1>3. PICK u \in Nat : /\ KeysOnce(U, u, Changed(base, target))
                       /\ \A i \in 1..u : Moves(U[i], base, target)
  BY <1>1, UpdatesFacts
<1>4. PICK d \in Nat : /\ KeysOnce(D, d, DOMAIN base \ DOMAIN target) /\ Falling(D, 1, d)
                       /\ \A i \in 1..d : Moves(D[i], base, target)
  BY <1>1, DeletesFacts
<1>5. PICK R : R = {C[i] : i \in 1..c} \cup {U[i] : i \in 1..u} \cup {D[i] : i \in 1..d}
  OBVIOUS
<1>6. C \in [1..c -> R] /\ U \in [1..u -> R] /\ D \in [1..d -> R]
  <2>1. C = [i \in 1..c |-> C[i]] /\ U = [i \in 1..u |-> U[i]] /\ D = [i \in 1..d |-> D[i]]
    BY <1>2, <1>3, <1>4 DEF KeysOnce
  <2>2. (\A i \in 1..c : C[i] \in R) /\ (\A i \in 1..u : U[i] \in R) /\ \A i \in 1..d : D[i] \in R
    BY <1>5
  <2> QED BY <2>1, <2>2
<1>7. PICK t : t = C \o U
  OBVIOUS
<1>8. Joined(t, C, c, U, u, R)
  BY <1>6, <1>7, Concatenated
<1>9. PICK v \in Nat, n \in Nat : v = c + u /\ n = v + d
  OBVIOUS
<1>10. Joined(ops, t, v, D, d, R)
  <2>1. ops = t \o D
    BY <1>1, <1>7 DEF diffModels
  <2>2. t \in [1..v -> R]
    BY <1>8, <1>9 DEF Joined
  <2> QED BY <1>6, <2>1, <2>2, Concatenated
<1>11. Parts(ops, C, c, U, u, D, d, v, n)
  BY <1>8, <1>9, <1>10, ThreeParts
<1>12. ThreeKinds(C, c, U, u, D, d, base, target)
  BY <1>2, <1>3, <1>4 DEF ThreeKinds
<1>13. DiffOrder(ops, c, v, n, base, target)
  BY <1>11, <1>12, PartsInOrder
<1>14. ops = [i \in 1..n |-> ops[i]]
  BY <1>9, <1>10 DEF Joined
<1>15. c <= v /\ v <= n
  BY <1>9
<1> QED BY <1>13, <1>14, <1>15
-----------------------------------------------------------------------------
(* What a diff has done when it is cut short: a new entity is there only   *)
(* after all it may refer to, an old one is gone only after all that may   *)
(* refer to it have been written or are gone.                              *)
Sooner(k, l) == \E i, j \in 1..10 : i < j /\ KindNo(k[1], i) /\ KindNo(l[1], j)
WellCut(S, base, target) ==
    /\ \A k \in S \cap DOMAIN target : \A l \in DOMAIN target \ DOMAIN base : Sooner(l, k) => l \in S
    /\ \A k \in S \ DOMAIN target : \A l \in Differing(base, target) \cap DOMAIN target : l \in S
    /\ \A k \in S \ DOMAIN target : \A l \in DOMAIN base \ DOMAIN target : Sooner(k, l) => l \in S

LEMMA NotBoth ==
  ASSUME NEW k, NEW l, Sooner(l, k)
  PROVE  ~ KindBefore(k, l)
<1>1. PICK i, j \in 1..10 : i < j /\ KindNo(l[1], i) /\ KindNo(k[1], j)
  BY DEF Sooner
<1>2. ASSUME NEW x \in 1..10, NEW y \in 1..10, x <= y, KindNo(k[1], x), KindNo(l[1], y) PROVE FALSE
  <2>1. x = j /\ y = i
    BY <1>1, <1>2, KindsDiffer DEF KindNo
  <2> QED BY <1>1, <1>2, <2>1
<1> QED BY <1>2 DEF KindBefore

LEMMA DiffCuts ==
  ASSUME NEW base, NEW target, NEW c \in Nat, NEW v \in Nat, NEW n \in Nat, c <= v, v <= n,
         NEW ops, DiffOrder(ops, c, v, n, base, target), NEW d \in 0..n
  PROVE  WellCut(KeysDone(ops, d), base, target)
<1>1. PICK S : S = KeysDone(ops, d)
  OBVIOUS
<1>2. \A k : k \in S <=> \E p \in 1..d : ops[p].key = k
  BY <1>1 DEF KeysDone
<1>3. ASSUME NEW p \in 1..n
      PROVE  /\ ops[p].key \in DOMAIN target => p <= v
             /\ ops[p].key \in DOMAIN target \ DOMAIN base => p <= c
             /\ ops[p].key \notin DOMAIN target => ~ (p <= v)
  <2>1. ops[p].key \in IF p <= c THEN DOMAIN target \ DOMAIN base
                       ELSE IF p <= v THEN Changed(base, target)
                       ELSE DOMAIN base \ DOMAIN target
    BY DEF DiffOrder
  <2> QED BY <2>1 DEF Changed
<1>4. ASSUME NEW k \in S PROVE \E p \in 1..n : p <= d /\ ops[p].key = k
  <2>1. PICK p \in 1..d : ops[p].key = k
    BY <1>2
  <2>2. p \in 1..n /\ p <= d
    OBVIOUS
  <2> QED BY <2>1, <2>2
<1>5. ASSUME NEW k \in Differing(base, target), k \notin S PROVE \E q \in 1..n : q > d /\ ops[q].key = k
  <2>1. PICK q \in 1..n : ops[q].key = k
    BY DEF DiffOrder
  <2>2. ~ (q \in 1..d)
    BY <1>2, <1>5, <2>1
  <2>3. q > d
    BY <2>2
  <2> QED BY <2>1, <2>3
<1>6. ASSUME NEW k \in S \cap DOMAIN target, NEW l \in DOMAIN target \ DOMAIN base, Sooner(l, k), l \notin S
      PROVE  FALSE
  <2>1. PICK p \in 1..n : p <= d /\ ops[p].key = k
    BY <1>4
  <2>2. PICK q \in 1..n : q > d /\ ops[q].key = l
    BY <1>5, <1>6 DEF Differing
  <2>3. q <= c
    BY <1>3, <2>2
  <2>4. p \in 1..c /\ q \in 1..c /\ p < q
    BY <2>1, <2>2, <2>3
  <2>5. KindBefore(k, l)
    BY <2>1, <2>2, <2>4 DEF DiffOrder, Rising
  <2> QED BY <1>6, <2>5, NotBoth
<1>7. ASSUME NEW k \in S \ DOMAIN target, NEW l \in Differing(base, target) \cap DOMAIN target, l \notin S
      PROVE  FALSE
  <2>1. PICK p \in 1..n : p <= d /\ ops[p].key = k
    BY <1>4
  <2>2. PICK q \in 1..n : q > d /\ ops[q].key = l
    BY <1>5, <1>7
  <2>3. ~ (p <= v) /\ q <= v
    BY <1>3, <2>1, <2>2
  <2> QED BY <2>1, <2>2, <2>3
<1>8. ASSUME NEW k \in S \ DOMAIN target, NEW l \in DOMAIN base \ DOMAIN target, Sooner(k, l), l \notin S
      PROVE  FALSE
  <2>1. PICK p \in 1..n : p <= d /\ ops[p].key = k
    BY <1>4
  <2>2. PICK q \in 1..n : q > d /\ ops[q].key = l
    BY <1>5, <1>8 DEF Differing
  <2>3. ~ (p <= v) /\ ~ (q <= v)
    BY <1>3, <2>1, <2>2
  <2>4. p \in v + 1..n /\ q \in v + 1..n /\ p < q
    BY <2>1, <2>2, <2>3
  <2>5. KindBefore(l, k)
    BY <2>1, <2>2, <2>4 DEF DiffOrder, Falling
  <2> QED BY <1>8, <2>5, NotBoth
<1> QED BY <1>1, <1>6, <1>7, <1>8 DEF WellCut

(* A reference to an entity of an earlier kind that holds in both models   *)
(* holds in between.                                                       *)
LEMMA ReferenceStands ==
  ASSUME NEW base, NEW target, Comparable(base, target), NEW S, WellCut(S, base, target),
         NEW m, m = Moved(base, target, S), NEW k \in DOMAIN m, NEW r, Sooner(r, k),
         k \in DOMAIN target /\ m[k] = target[k] => r \in DOMAIN target,
         k \in DOMAIN base /\ m[k] = base[k] => r \in DOMAIN base
  PROVE  r \in DOMAIN m
<1>1. /\ DOMAIN m = (DOMAIN base \ S) \cup (DOMAIN target \cap S)
      /\ m[k] = IF k \in S THEN target[k] ELSE base[k]
  BY DEF Moved
<1>2. CASE k \in S
  <2>1. k \in DOMAIN target /\ r \in DOMAIN target
    BY <1>1, <1>2
  <2>2. r \in DOMAIN base \/ r \in S
    BY <1>2, <2>1 DEF WellCut
  <2> QED BY <1>1, <2>1, <2>2
<1>3. CASE k \notin S
  <2>1. k \in DOMAIN base /\ r \in DOMAIN base
    BY <1>1, <1>3
  <2>2. ASSUME r \notin DOMAIN target, r \in S PROVE FALSE
    <3>1. CASE k \notin DOMAIN target
      BY <1>3, <2>1, <2>2, <3>1 DEF WellCut
    <3>2. CASE k \in DOMAIN target
      <4>1. k \notin Differing(base, target)
        BY <1>3, <2>2, <3>2 DEF WellCut
      <4>2. base[k] = target[k]
        BY <2>1, <3>2, <4>1, SameOtherwise
      <4> QED BY <1>1, <1>3, <2>2, <3>2, <4>2
    <3> QED BY <3>1, <3>2
  <2> QED BY <1>1, <2>1, <2>2
<1> QED BY <1>2, <1>3

LEMMA KindsInOrder ==
  ASSUME NEW k, NEW r,
         \/ r[1] = "tableGroup" /\ k[1] = "table"
         \/ r[1] = "domain" /\ k[1] \in {"term", "column"}
         \/ r[1] = "table" /\ k[1] \in {"column", "relationship", "index"}
         \/ r[1] = "column" /\ k[1] \in {"relationship", "index"}
  PROVE  Sooner(r, k)
<1>1. /\ KindNo("tableGroup", 1) /\ KindNo("domain", 2) /\ KindNo("term", 4) /\ KindNo("table", 6)
      /\ KindNo("column", 7) /\ KindNo("relationship", 8) /\ KindNo("index", 9)
  BY DEF KindNo, ENTITY_KINDS
<1>2. CASE r[1] = "tableGroup" /\ k[1] = "table"
  BY <1>1, <1>2 DEF Sooner
<1>3. CASE r[1] = "domain" /\ k[1] \in {"term", "column"}
  BY <1>1, <1>3 DEF Sooner
<1>4. CASE r[1] = "table" /\ k[1] \in {"column", "relationship", "index"}
  BY <1>1, <1>4 DEF Sooner
<1>5. CASE r[1] = "column" /\ k[1] \in {"relationship", "index"}
  BY <1>1, <1>5 DEF Sooner
<1> QED BY <1>2, <1>3, <1>4, <1>5

LEMMA HasStands ==
  ASSUME NEW base, NEW target, Comparable(base, target), NEW S, WellCut(S, base, target),
         NEW m, m = Moved(base, target, S), NEW k \in DOMAIN m, NEW kind, NEW id,
         \/ kind = "tableGroup" /\ k[1] = "table"
         \/ kind = "domain" /\ k[1] \in {"term", "column"}
         \/ kind = "table" /\ k[1] \in {"column", "relationship", "index"}
         \/ kind = "column" /\ k[1] \in {"relationship", "index"},
         k \in DOMAIN target /\ m[k] = target[k] => Has(target, kind, id),
         k \in DOMAIN base /\ m[k] = base[k] => Has(base, kind, id)
  PROVE  Has(m, kind, id)
<1>1. PICK r : r = <<kind, id>>
  OBVIOUS
<1>5. r[1] = kind
  BY <1>1
<1>2. Sooner(r, k)
  BY <1>5, KindsInOrder
<1>3. /\ k \in DOMAIN target /\ m[k] = target[k] => r \in DOMAIN target
      /\ k \in DOMAIN base /\ m[k] = base[k] => r \in DOMAIN base
  BY <1>1 DEF Has
<1>4. r \in DOMAIN m
  BY <1>2, <1>3, ReferenceStands
<1> QED BY <1>1, <1>4 DEF Has

LEMMA ForeignKeysAtCut ==
  ASSUME NEW base, NEW target, Comparable(base, target), ForeignKeysHold(base), ForeignKeysHold(target),
         NEW S, WellCut(S, base, target), NEW m, m = Moved(base, target, S)
  PROVE  ForeignKeysHold(m)
<1>2. ASSUME NEW k \in KeysOf(m, "table") PROVE HasOrNone(m, "tableGroup", m[k].groupId)
  <2>1. k \in DOMAIN m /\ k[1] = "table"
    BY DEF KeysOf
  <2>2. PICK id : id = m[k].groupId
    OBVIOUS
  <2>3. CASE id = None
    BY <2>2, <2>3 DEF HasOrNone
  <2>4. CASE id # None
    <3>1. k \in DOMAIN target /\ m[k] = target[k] => Has(target, "tableGroup", id)
      BY <2>1, <2>2, <2>4 DEF ForeignKeysHold, GroupRefsHold, HasOrNone, KeysOf
    <3>2. k \in DOMAIN base /\ m[k] = base[k] => Has(base, "tableGroup", id)
      BY <2>1, <2>2, <2>4 DEF ForeignKeysHold, GroupRefsHold, HasOrNone, KeysOf
    <3>3. Has(m, "tableGroup", id)
      BY <2>1, <3>1, <3>2, HasStands
    <3> QED BY <2>2, <3>3 DEF HasOrNone
  <2> QED BY <2>3, <2>4
<1>3. ASSUME NEW k \in KeysOf(m, "column") \cup KeysOf(m, "term") PROVE HasOrNone(m, "domain", m[k].domainId)
  <2>1. k \in DOMAIN m /\ k[1] \in {"term", "column"}
    BY DEF KeysOf
  <2>2. PICK id : id = m[k].domainId
    OBVIOUS
  <2>3. CASE id = None
    BY <2>2, <2>3 DEF HasOrNone
  <2>4. CASE id # None
    <3>1. k \in DOMAIN target /\ m[k] = target[k] => Has(target, "domain", id)
      BY <2>1, <2>2, <2>4 DEF ForeignKeysHold, DomainRefsHold, HasOrNone, KeysOf
    <3>2. k \in DOMAIN base /\ m[k] = base[k] => Has(base, "domain", id)
      BY <2>1, <2>2, <2>4 DEF ForeignKeysHold, DomainRefsHold, HasOrNone, KeysOf
    <3>3. Has(m, "domain", id)
      BY <2>1, <3>1, <3>2, HasStands
    <3> QED BY <2>2, <3>3 DEF HasOrNone
  <2> QED BY <2>3, <2>4
<1>4. ASSUME NEW k \in KeysOf(m, "column") \cup KeysOf(m, "index") PROVE Has(m, "table", m[k].tableId)
  <2>1. k \in DOMAIN m /\ k[1] \in {"column", "index"}
    BY DEF KeysOf
  <2>2. PICK id : id = m[k].tableId
    OBVIOUS
  <2>3. k \in DOMAIN target /\ m[k] = target[k] => Has(target, "table", id)
    BY <2>1, <2>2 DEF ForeignKeysHold, TableRefsHold, KeysOf
  <2>4. k \in DOMAIN base /\ m[k] = base[k] => Has(base, "table", id)
    BY <2>1, <2>2 DEF ForeignKeysHold, TableRefsHold, KeysOf
  <2>5. Has(m, "table", id)
    BY <2>1, <2>3, <2>4, HasStands
  <2> QED BY <2>2, <2>5
<1>5. ASSUME NEW k \in KeysOf(m, "relationship")
      PROVE  Has(m, "table", m[k].parentTableId) /\ Has(m, "table", m[k].childTableId)
  <2>1. k \in DOMAIN m /\ k[1] = "relationship"
    BY DEF KeysOf
  <2>2. PICK p, q : p = m[k].parentTableId /\ q = m[k].childTableId
    OBVIOUS
  <2>3. k \in DOMAIN target /\ m[k] = target[k] => Has(target, "table", p) /\ Has(target, "table", q)
    BY <2>1, <2>2 DEF ForeignKeysHold, TableRefsHold, KeysOf
  <2>4. k \in DOMAIN base /\ m[k] = base[k] => Has(base, "table", p) /\ Has(base, "table", q)
    BY <2>1, <2>2 DEF ForeignKeysHold, TableRefsHold, KeysOf
  <2>5. Has(m, "table", p)
    BY <2>1, <2>3, <2>4, HasStands
  <2>6. Has(m, "table", q)
    BY <2>1, <2>3, <2>4, HasStands
  <2> QED BY <2>2, <2>5, <2>6
<1> QED BY <1>2, <1>3, <1>4, <1>5 DEF ForeignKeysHold, GroupRefsHold, TableRefsHold, DomainRefsHold

LEMMA ColumnStands ==
  ASSUME NEW base, NEW target, Comparable(base, target), NEW S, WellCut(S, base, target),
         KeepsColumnsInPlace(base, target),
         NEW m, m = Moved(base, target, S), NEW k \in DOMAIN m, k[1] \in {"relationship", "index"},
         NEW c, NEW t,
         k \in DOMAIN target /\ m[k] = target[k] => ColumnIn(target, c, t),
         k \in DOMAIN base /\ m[k] = base[k] => ColumnIn(base, c, t)
  PROVE  ColumnIn(m, c, t)
<1>1. Has(m, "column", c)
  <2>1. /\ k \in DOMAIN target /\ m[k] = target[k] => Has(target, "column", c)
        /\ k \in DOMAIN base /\ m[k] = base[k] => Has(base, "column", c)
    BY DEF ColumnIn
  <2>2. PICK kind : kind = "column"
    OBVIOUS
  <2>3. Has(m, kind, c)
    BY <2>1, <2>2, HasStands
  <2> QED BY <2>2, <2>3
<1>2. PICK r : r = <<"column", c>>
  OBVIOUS
<1>3. r \in DOMAIN m /\ r[1] = "column"
  BY <1>1, <1>2 DEF Has
<1>4. r \in DOMAIN base /\ r \in DOMAIN target => base[r].tableId = target[r].tableId
  BY <1>3 DEF KeepsColumnsInPlace, KeysOf
<1>5. /\ r \in S => r \in DOMAIN target /\ m[r] = target[r]
      /\ r \notin S => r \in DOMAIN base /\ m[r] = base[r]
  BY <1>3 DEF Moved
<1>6. \/ k \in DOMAIN target /\ m[k] = target[k]
      \/ k \in DOMAIN base /\ m[k] = base[k]
  BY DEF Moved
<1>7. \/ r \in DOMAIN target /\ target[r].tableId = t
      \/ r \in DOMAIN base /\ base[r].tableId = t
  BY <1>2, <1>6 DEF ColumnIn, Has
<1>8. m[r].tableId = t
  BY <1>4, <1>5, <1>7
<1> QED BY <1>1, <1>2, <1>8 DEF ColumnIn

LEMMA IntegrityAtCut ==
  ASSUME NEW base, NEW target, Comparable(base, target),
         validateModelIntegrity(base), validateModelIntegrity(target), KeepsColumnsInPlace(base, target),
         NEW S, WellCut(S, base, target), NEW m, m = Moved(base, target, S)
  PROVE  validateModelIntegrity(m)
<1>1. ForeignKeysHold(m)
  <2>1. ForeignKeysHold(base) /\ ForeignKeysHold(target)
    BY DEF validateModelIntegrity, ForeignKeysHold
  <2> QED BY <2>1, ForeignKeysAtCut
<1>2. ColumnRefsHold(base) /\ ColumnRefsHold(target)
  BY DEF validateModelIntegrity
<1>3. ASSUME NEW k \in KeysOf(m, "relationship"), NEW p \in m[k].columnMappings
      PROVE  ColumnIn(m, p.child, m[k].childTableId) /\ ColumnIn(m, p.parent, m[k].parentTableId)
  <2>1. k \in DOMAIN m /\ k[1] = "relationship"
    BY DEF KeysOf
  <2>2. PICK e, c, d, t, u : /\ e = m[k] /\ c = p.child /\ d = p.parent
                             /\ t = m[k].childTableId /\ u = m[k].parentTableId
    OBVIOUS
  <2>3. k \in DOMAIN target /\ m[k] = target[k] => ColumnIn(target, c, t) /\ ColumnIn(target, d, u)
    BY <1>2, <2>1, <2>2 DEF ColumnRefsHold, KeysOf
  <2>4. k \in DOMAIN base /\ m[k] = base[k] => ColumnIn(base, c, t) /\ ColumnIn(base, d, u)
    BY <1>2, <2>1, <2>2 DEF ColumnRefsHold, KeysOf
  <2>5. ColumnIn(m, c, t)
    BY <2>1, <2>3, <2>4, ColumnStands
  <2>6. ColumnIn(m, d, u)
    BY <2>1, <2>3, <2>4, ColumnStands
  <2> QED BY <2>2, <2>5, <2>6
<1>4. ASSUME NEW k \in KeysOf(m, "index"), NEW c \in m[k].columns PROVE ColumnIn(m, c, m[k].tableId)
  <2>1. k \in DOMAIN m /\ k[1] = "index"
    BY DEF KeysOf
  <2>2. PICK t : t = m[k].tableId
    OBVIOUS
  <2>3. k \in DOMAIN target /\ m[k] = target[k] => ColumnIn(target, c, t)
    BY <1>2, <2>1, <2>2 DEF ColumnRefsHold, KeysOf
  <2>4. k \in DOMAIN base /\ m[k] = base[k] => ColumnIn(base, c, t)
    BY <1>2, <2>1, <2>2 DEF ColumnRefsHold, KeysOf
  <2>5. ColumnIn(m, c, t)
    BY <2>1, <2>3, <2>4, ColumnStands
  <2> QED BY <2>2, <2>5
<1>5. ColumnRefsHold(m)
  BY <1>3, <1>4 DEF ColumnRefsHold
<1> QED BY <1>1, <1>5 DEF ForeignKeysHold, validateModelIntegrity
-----------------------------------------------------------------------------
(* What applies to a diff: the models, and what a batch makes of them.     *)
Diffing(base, target) ==
    /\ Comparable(base, target)
    /\ validateModelIntegrity(base) /\ validateModelIntegrity(target)
    /\ NeverError(base, target)
Ordered(ops, n, base, target) ==
    /\ ops = [i \in 1..n |-> ops[i]] /\ Len(ops) = n
    /\ MovesAll(ops, n, base, target)
    /\ \A d \in 0..n : WellCut(KeysDone(ops, d), base, target)
    /\ Moved(base, target, KeysDone(ops, 0)) = base
    /\ Moved(base, target, KeysDone(ops, n)) = target

LEMMA DiffIsOrdered ==
  ASSUME NEW base, NEW target, Comparable(base, target), NEW ops, ops = diffModels(base, target)
  PROVE  \E n \in Nat : Ordered(ops, n, base, target)
<1>1. WellFormed(base) /\ WellFormed(target)
  BY DEF Comparable
<1>2. PICK c, v, n \in Nat : /\ c <= v /\ v <= n /\ DiffOrder(ops, c, v, n, base, target)
                             /\ ops = [i \in 1..n |-> ops[i]]
  BY <1>1, DiffInOrder
<1>3. Len(ops) = n
  BY <1>2
<1>4. MovesAll(ops, n, base, target)
  BY <1>2 DEF DiffOrder, MovesAll, EachOnce
<1>5. \A d \in 0..n : WellCut(KeysDone(ops, d), base, target)
  BY <1>2, DiffCuts
<1>6. Moved(base, target, KeysDone(ops, 0)) = base
  <2>1. KeysDone(ops, 0) = {}
    BY DEF KeysDone
  <2> QED BY <1>1, <2>1, NothingMoved
<1>7. Moved(base, target, KeysDone(ops, n)) = target
  <2>1. Differing(base, target) \subseteq KeysDone(ops, n)
    BY <1>2 DEF DiffOrder, KeysDone
  <2> QED BY <2>1, AllMoved
<1> QED BY <1>2, <1>3, <1>4, <1>5, <1>6, <1>7 DEF Ordered

(* The ops of a diff lead to its target; whether applyOps takes them then  *)
(* depends on the target alone.                                            *)
LEMMA DiffEnds ==
  ASSUME NEW base, NEW target, Comparable(base, target), NeverError(base, target)
  PROVE  applyOps(base, diffModels(base, target)) = IF validateModelIntegrity(target) THEN target ELSE OpApplyError
<1>1. PICK ops : ops = diffModels(base, target)
  OBVIOUS
<1>2. PICK n \in Nat : Ordered(ops, n, base, target)
  BY <1>1, DiffIsOrdered
<1>3. PICK g : g = AppliedUpTo(base, ops)
  OBVIOUS
<1>4. Applying(g, base, ops, n)
  <2>1. Len(ops) = n
    BY <1>2 DEF Ordered
  <2> QED BY <1>3, <2>1, AppliedSteps
<1>5. g[n] = Moved(base, target, KeysDone(ops, n))
  <2>1. PICK a \in Nat : a = 0
    OBVIOUS
  <2>2. a <= n /\ n <= n /\ PartOf(ops, ops, a, n)
    BY <1>2, <2>1 DEF Ordered, PartOf
  <2>4. MovesAll(ops, n, base, target)
    BY <1>2 DEF Ordered
  <2>5. Applying(g, Moved(base, target, KeysDone(ops, a)), ops, n - a)
    BY <1>2, <1>4, <2>1 DEF Ordered
  <2>6. Walks(g, base, target, ops, a, n)
    BY <2>2, <2>4, <2>5, PartMoves
  <2>7. n \in 0..n - a /\ a + n = n
    BY <2>1
  <2> QED BY <2>6, <2>7 DEF Walks
<1>6. g[n] = target
  BY <1>2, <1>5 DEF Ordered
<1>7. target # OpApplyError
  BY <1>2 DEF Ordered, NeverError
<1>8. Len(ops) = n
  BY <1>2 DEF Ordered
<1> QED BY <1>1, <1>3, <1>6, <1>7, <1>8 DEF applyOps

(* applyOps takes the diff of two integral models, and makes the second    *)
(* one of the first (diff.ts:8-9).                                         *)
THEOREM DiffApplies ==
  ASSUME NEW base, NEW target, Diffing(base, target)
  PROVE  applyOps(base, diffModels(base, target)) = target
  BY DiffEnds DEF Diffing

(* So do the row statements, one after the other, although the foreign     *)
(* keys are checked after each of them: parents are created first and      *)
(* deleted last.                                                           *)
THEOREM DiffPersists ==
  ASSUME NEW base, NEW target, Diffing(base, target)
  PROVE  persistOps(base, diffModels(base, target)) = target
<1>1. PICK ops : ops = diffModels(base, target)
  OBVIOUS
<1>2. PICK n \in Nat : Ordered(ops, n, base, target)
  BY <1>1, DiffIsOrdered DEF Diffing
<1>3. PICK g : Persisting(g, base, ops, n) /\ persistOps(base, ops) = g[n]
  <2>1. Len(ops) = n
    BY <1>2 DEF Ordered
  <2> QED BY <2>1, PersistedSteps
<1>4. g[0] = base /\ \A i \in 1..n : g[i] = Persisted(g[i-1], ops[i])
  BY <1>3 DEF Persisting
<1> DEFINE S == {i \in 0..n : g[i] = Moved(base, target, KeysDone(ops, i))}
<1>5. 0 \in S
  BY <1>2, <1>4 DEF Ordered
<1>6. ASSUME NEW i \in 0..n-1, i \in S PROVE i + 1 \in S
  <2>1. PICK done, op, old : done = KeysDone(ops, i) /\ op = ops[i + 1] /\ old = Moved(base, target, done)
    OBVIOUS
  <2>2. i + 1 \in 1..n /\ (i + 1) - 1 = i /\ i + 1 \in 0..n
    BY <1>6
  <2>3. g[i + 1] = Persisted(old, op)
    BY <1>4, <1>6, <2>1, <2>2
  <2>4. MovesAll(ops, n, base, target)
    BY <1>2 DEF Ordered
  <2>5. op.key \notin done
    <3>1. ASSUME NEW j \in 1..i, ops[j].key = ops[i + 1].key PROVE FALSE
      <4>1. j \in 1..n /\ j # i + 1
        BY <2>2
      <4> QED BY <2>2, <2>4, <3>1, <4>1 DEF MovesAll, EachOnce
    <3> QED BY <2>1, <3>1 DEF KeysDone
  <2>6. KeysDone(ops, i + 1) = done \cup {op.key}
    <3>1. 1..i + 1 = (1..i) \cup {i + 1}
      BY <1>6
    <3>2. \A x : x \in KeysDone(ops, i + 1) <=> x \in KeysDone(ops, i) \/ x = op.key
      BY <2>1, <3>1 DEF KeysDone
    <3> QED BY <2>1, <3>2
  <2>7. PICK new : new = Moved(base, target, done \cup {op.key})
    OBVIOUS
  <2>8. Applicable(old, op) /\ ApplyOp(old, op) = new
    <3>1. Moves(op, base, target)
      BY <2>1, <2>2, <2>4 DEF MovesAll
    <3>2. Comparable(base, target)
      BY DEF Diffing
    <3> QED BY <2>1, <2>5, <2>7, <3>1, <3>2, OneMoves
  <2>9. ForeignKeysHold(new)
    <3>1. ForeignKeysHold(base) /\ ForeignKeysHold(target) /\ Comparable(base, target)
      BY DEF Diffing, validateModelIntegrity, ForeignKeysHold
    <3>2. PICK T : T = done \cup {op.key}
      OBVIOUS
    <3>3. WellCut(T, base, target)
      BY <1>2, <2>2, <2>6, <3>2 DEF Ordered
    <3> QED BY <2>7, <3>1, <3>2, <3>3, ForeignKeysAtCut
  <2>10. new # OpApplyError /\ old # OpApplyError
    BY <2>1, <2>7 DEF Diffing, NeverError
  <2>11. Statement(old, op) = new
    BY <2>8 DEF Statement
  <2>12. g[i + 1] = new
    BY <2>3, <2>9, <2>10, <2>11 DEF Persisted
  <2> QED BY <2>2, <2>6, <2>7, <2>12
<1> HIDE DEF S
<1>7. n \in S
  BY <1>5, <1>6, UpTo
<1>8. g[n] = target
  BY <1>2, <1>7 DEF S, Ordered
<1> QED BY <1>1, <1>3, <1>8
-----------------------------------------------------------------------------
(* Chunks: how many there are, and where each of them ends.                *)
LEMMA DivFacts ==
  ASSUME NEW a \in Nat, NEW s \in Nat, s # 0
  PROVE  a \div s \in Nat /\ (a \div s) * s <= a /\ a < (a \div s) * s + s
<1>1. a \div s \in Int /\ a % s \in 0..s-1
  OBVIOUS
<1>2. a = s * (a \div s) + (a % s)
  OBVIOUS
<1>3. PICK q \in Int, r \in 0..s-1 : q = a \div s /\ r = a % s
  BY <1>1
<1>4. a = s * q + r
  BY <1>2, <1>3
<1>5. q * s = s * q
  OBVIOUS
<1>6. s * q <= a /\ a < s * q + s
  BY <1>4
<1>7. q >= 0
  <2>1. CASE q < 0
    <3>1. q + 1 <= 0
      BY <2>1
    <3>2. s * (q + 1) <= 0
      BY <3>1
    <3>3. s * (q + 1) = s * q + s
      OBVIOUS
    <3> QED BY <1>6, <3>2, <3>3
  <2> QED BY <2>1
<1> QED BY <1>3, <1>5, <1>6, <1>7

LEMMA CeilFacts ==
  ASSUME NEW n \in Nat, NEW s \in Nat, s # 0, NEW c, c = CeilDiv(n, s)
  PROVE  c \in Nat /\ n <= c * s /\ (c = 0 \/ (c - 1) * s < n)
<1>1. PICK a \in Nat : a = n + s - 1
  OBVIOUS
<1>2. c = a \div s
  BY <1>1 DEF CeilDiv
<1>3. c \in Nat /\ c * s <= a /\ a < c * s + s
  BY <1>2, DivFacts
<1>4. (c - 1) * s = c * s - s
  BY <1>3
<1>5. PICK p \in Int : p = c * s
  BY <1>3
<1> QED BY <1>1, <1>3, <1>4, <1>5

Times(a, s) == a * s
UpToChunk(i, s, n) == IF Times(i, s) < n THEN Times(i, s) ELSE n

LEMMA ChunkEnds ==
  ASSUME NEW n \in Nat, NEW s \in Nat, s # 0, NEW c, c = CeilDiv(n, s)
  PROVE  /\ c \in Nat /\ UpToChunk(0, s, n) = 0 /\ UpToChunk(c, s, n) = n
         /\ \A i \in 0..c-1 : /\ UpToChunk(i, s, n) \in Nat /\ UpToChunk(i + 1, s, n) \in Nat
                              /\ UpToChunk(i, s, n) = Times(i, s)
                              /\ UpToChunk(i, s, n) <= UpToChunk(i + 1, s, n)
                              /\ UpToChunk(i + 1, s, n) <= n
<1>1. c \in Nat /\ n <= c * s /\ (c = 0 \/ (c - 1) * s < n)
  BY CeilFacts
<1>2. 0 * s = 0
  OBVIOUS
<1>3. ASSUME NEW i \in 0..c-1 PROVE Times(i, s) \in Nat /\ Times(i, s) < n /\ Times(i + 1, s) = Times(i, s) + s
  <2>1. i \in Nat /\ i <= c - 1 /\ c - 1 \in Nat /\ (c - 1) * s < n
    BY <1>1
  <2>2. i * s \in Nat /\ (i + 1) * s = i * s + s
    BY <2>1
  <2>3. i * s <= (c - 1) * s
    <3>4. (c - 1) - i \in Nat /\ c - 1 = i + ((c - 1) - i)
      <4>1. c \in Nat /\ i \in 0..c-1
        BY <1>1
      <4> QED BY <4>1
    <3>1. PICK d \in Nat : c - 1 = i + d
      BY <3>4
    <3>2. d * s >= 0
      OBVIOUS
    <3>3. (i + d) * s = i * s + d * s
      BY <2>1
    <3> QED BY <2>2, <3>1, <3>2, <3>3
  <2>4. (c - 1) * s \in Nat
    BY <2>1
  <2>5. i * s < n
    <3>1. PICK x \in Nat, y \in Nat : x = i * s /\ y = (c - 1) * s
      BY <2>2, <2>4
    <3> QED BY <2>1, <2>3, <3>1
  <2> QED BY <2>2, <2>5 DEF Times
<1>4. UpToChunk(0, s, n) = 0
  BY <1>2 DEF UpToChunk, Times
<1>5. UpToChunk(c, s, n) = n
  <2>1. PICK p \in Nat : p = c * s
    BY <1>1
  <2> QED BY <1>1, <2>1 DEF UpToChunk, Times
<1>6. ASSUME NEW i \in 0..c-1
      PROVE  /\ UpToChunk(i, s, n) \in Nat /\ UpToChunk(i + 1, s, n) \in Nat
             /\ UpToChunk(i, s, n) = Times(i, s)
             /\ UpToChunk(i, s, n) <= UpToChunk(i + 1, s, n)
             /\ UpToChunk(i + 1, s, n) <= n
  <2>1. PICK x \in Nat : x = Times(i, s) /\ x < n /\ Times(i + 1, s) = x + s
    BY <1>3
  <2> QED BY <2>1 DEF UpToChunk
<1> QED BY <1>1, <1>4, <1>5, <1>6

(* The requests of a cut batch: the model after each of them.              *)
Sending(g, model, chunks, n) == g = [i \in 0..n |-> IF i = 0 THEN model ELSE applyOps(g[i-1], chunks[i])]

LEMMA SendingExists ==
  ASSUME NEW model, NEW chunks, NEW n \in Nat
  PROVE  \E g : Sending(g, model, chunks, n)
<1> DEFINE S == {j \in 0..n : \E g : Sending(g, model, chunks, j)}
<1>1. 0 \in S
  <2>1. PICK g : g = [i \in 0..0 |-> model]
    OBVIOUS
  <2>2. Sending(g, model, chunks, 0)
    BY <2>1 DEF Sending
  <2> QED BY <2>2
<1>2. ASSUME NEW j \in 0..n-1, j \in S PROVE j + 1 \in S
  <2>1. PICK g : Sending(g, model, chunks, j)
    BY <1>2
  <2>2. PICK h : h = [i \in 0..j+1 |-> IF i = j + 1 THEN applyOps(g[j], chunks[j+1]) ELSE g[i]]
    OBVIOUS
  <2>3. h = [i \in 0..j+1 |-> h[i]]
    BY <2>2
  <2>4. ASSUME NEW i \in 0..j+1 PROVE h[i] = IF i = 0 THEN model ELSE applyOps(h[i-1], chunks[i])
    BY <2>1, <2>2 DEF Sending
  <2>5. Sending(h, model, chunks, j + 1)
    BY <2>3, <2>4 DEF Sending
  <2> QED BY <2>5
<1> HIDE DEF S
<1>3. n \in S
  BY <1>1, <1>2, UpTo
<1> QED BY <1>3 DEF S

LEMMA SentSteps ==
  ASSUME NEW model, NEW chunks, Len(chunks) \in Nat
  PROVE  Sending(SentUpTo(model, chunks), model, chunks, Len(chunks))
<1>1. PICK g : g = [i \in 0..Len(chunks) |-> IF i = 0 THEN model ELSE applyOps(g[i-1], chunks[i])]
  <2>1. PICK n \in Nat : n = Len(chunks)
    OBVIOUS
  <2>2. PICK g : Sending(g, model, chunks, n)
    BY SendingExists
  <2> QED BY <2>1, <2>2 DEF Sending
<1>3. PICK a : a = SentUpTo(model, chunks)
  OBVIOUS
<1>4. a = [i \in 0..Len(chunks) |-> IF i = 0 THEN model ELSE applyOps(a[i-1], chunks[i])]
  BY <1>1, <1>3 DEF SentUpTo
<1> QED BY <1>3, <1>4 DEF Sending

(* One part of a diff, sent to what the parts before it have left.         *)
LEMMA PartApplies ==
  ASSUME NEW base, NEW target, Diffing(base, target), KeepsColumnsInPlace(base, target),
         NEW n \in Nat, NEW ops, Ordered(ops, n, base, target),
         NEW a \in Nat, NEW z \in Nat, a <= z, z <= n, NEW part, PartOf(part, ops, a, z),
         NEW old, old = Moved(base, target, KeysDone(ops, a)),
         NEW new, new = Moved(base, target, KeysDone(ops, z))
  PROVE  applyOps(old, part) = new /\ new # OpApplyError /\ validateModelIntegrity(new)
<1>1. PICK g : g = AppliedUpTo(old, part)
  OBVIOUS
<1>2. Len(part) = z - a /\ Len(part) \in Nat
  BY DEF PartOf
<1>3. Applying(g, old, part, z - a)
  <2>1. Applying(g, old, part, Len(part))
    BY <1>1, <1>2, AppliedSteps
  <2> QED BY <1>2, <2>1
<1>4. Walks(g, base, target, ops, a, z)
  <2>1. Comparable(base, target) /\ NeverError(base, target)
    BY DEF Diffing
  <2>2. MovesAll(ops, n, base, target)
    BY DEF Ordered
  <2> QED BY <1>3, <2>1, <2>2, PartMoves
<1>5. g[Len(part)] = new
  <2>1. z - a \in 0..z - a /\ a + (z - a) = z
    OBVIOUS
  <2> QED BY <1>2, <1>4, <2>1 DEF Walks
<1>6. new # OpApplyError
  BY DEF Diffing, NeverError
<1>7. validateModelIntegrity(new)
  <2>1. PICK S : S = KeysDone(ops, z)
    OBVIOUS
  <2>2. WellCut(S, base, target)
    <3>1. z \in 0..n
      OBVIOUS
    <3> QED BY <2>1, <3>1 DEF Ordered
  <2>3. Comparable(base, target) /\ validateModelIntegrity(base) /\ validateModelIntegrity(target)
    BY DEF Diffing
  <2> QED BY <2>1, <2>2, <2>3, IntegrityAtCut
<1> QED BY <1>1, <1>5, <1>6, <1>7 DEF applyOps

(* Cut into chunks of any size and applied one by one, the diff leaves an  *)
(* integral model after each of them and ends in its target, unless a      *)
(* column changes its table (chunkOps).                                    *)
THEOREM ChunksReach ==
  ASSUME NEW base, NEW target, Diffing(base, target), KeepsColumnsInPlace(base, target),
         NEW size \in Nat, size # 0,
         NEW chunks, chunks = chunkOps(diffModels(base, target), size),
         NEW after, after = SentUpTo(base, chunks)
  PROVE  /\ Len(chunks) \in Nat
         /\ \A i \in 1..Len(chunks) : after[i] # OpApplyError /\ validateModelIntegrity(after[i])
         /\ after[Len(chunks)] = target
<1>1. PICK ops : ops = diffModels(base, target)
  OBVIOUS
<1>2. PICK n \in Nat : Ordered(ops, n, base, target)
  BY <1>1, DiffIsOrdered DEF Diffing
<1>3. PICK c : c = CeilDiv(n, size)
  OBVIOUS
<1>4. /\ c \in Nat /\ UpToChunk(0, size, n) = 0 /\ UpToChunk(c, size, n) = n
      /\ \A i \in 0..c-1 : /\ UpToChunk(i, size, n) \in Nat /\ UpToChunk(i + 1, size, n) \in Nat
                           /\ UpToChunk(i, size, n) = Times(i, size)
                           /\ UpToChunk(i, size, n) <= UpToChunk(i + 1, size, n)
                           /\ UpToChunk(i + 1, size, n) <= n
  BY <1>3, ChunkEnds
<1>5. Len(ops) = n
  BY <1>2 DEF Ordered
<1>6. /\ Len(chunks) = c
      /\ \A i \in 1..c : chunks[i] = SubSeq(ops, Times(i - 1, size) + 1, UpToChunk(i, size, n))
  BY <1>1, <1>3, <1>4, <1>5 DEF chunkOps, Times, UpToChunk
<1>7. Sending(after, base, chunks, c)
  BY <1>4, <1>6, SentSteps
<1>8. after[0] = base /\ \A i \in 1..c : after[i] = applyOps(after[i-1], chunks[i])
  BY <1>4, <1>7 DEF Sending
<1> DEFINE S == {i \in 0..c : /\ after[i] = Moved(base, target, KeysDone(ops, UpToChunk(i, size, n)))
                              /\ i # 0 => after[i] # OpApplyError /\ validateModelIntegrity(after[i])}
<1>9. 0 \in S
  BY <1>2, <1>4, <1>8 DEF Ordered
<1>10. ASSUME NEW i \in 0..c-1, i \in S PROVE i + 1 \in S
  <2>1. PICK a \in Nat, z \in Nat : a = UpToChunk(i, size, n) /\ z = UpToChunk(i + 1, size, n)
    BY <1>4
  <2>2. a <= z /\ z <= n /\ a = Times(i, size)
    BY <1>4, <2>1
  <2>3. i + 1 \in 1..c /\ (i + 1) - 1 = i
    BY <1>4
  <2>4. PICK part : part = chunks[i + 1]
    OBVIOUS
  <2>5. part = SubSeq(ops, a + 1, z)
    BY <1>6, <2>1, <2>2, <2>3, <2>4
  <2>6. PartOf(part, ops, a, z)
    <3>1. PICK R : R = {ops[x] : x \in a + 1..z}
      OBVIOUS
    <3>2. PICK b \in Int, d \in Int : b = a + 1 /\ d = z
      OBVIOUS
    <3>3. \A x \in b..d : ops[x] \in R
      BY <3>1, <3>2
    <3>4. /\ Len(SubSeq(ops, b, d)) = IF b <= d THEN d - b + 1 ELSE 0
          /\ \A x \in 1..d-b+1 : SubSeq(ops, b, d)[x] = ops[b+x-1]
      BY <3>3, SubSeqProperties
    <3>5. Len(part) = z - a
      BY <2>2, <2>5, <3>2, <3>4
    <3>6. ASSUME NEW x \in 1..z-a PROVE part[x] = ops[a + x]
      <4>1. x \in 1..d-b+1 /\ b+x-1 = a + x
        BY <3>2
      <4> QED BY <2>5, <3>2, <3>4, <4>1
    <3> QED BY <3>5, <3>6 DEF PartOf
  <2>7. PICK old, new : old = Moved(base, target, KeysDone(ops, a)) /\ new = Moved(base, target, KeysDone(ops, z))
    OBVIOUS
  <2>8. applyOps(old, part) = new /\ new # OpApplyError /\ validateModelIntegrity(new)
    BY <1>2, <2>2, <2>6, <2>7, PartApplies
  <2>9. after[i + 1] = new
    BY <1>8, <1>10, <2>1, <2>3, <2>4, <2>7, <2>8
  <2>10. i + 1 \in 0..c
    BY <2>3
  <2> QED BY <2>1, <2>7, <2>8, <2>9, <2>10
<1> HIDE DEF S
<1>11. 0..c \subseteq S
  BY <1>4, <1>9, <1>10, UpTo
<1>12. after[c] = target
  BY <1>2, <1>4, <1>11 DEF S, Ordered
<1>13. \A i \in 1..c : after[i] # OpApplyError /\ validateModelIntegrity(after[i])
  BY <1>11 DEF S
<1> QED BY <1>4, <1>6, <1>12, <1>13
-----------------------------------------------------------------------------
(* A batch that does not fail never failed on the way.                     *)
Runs(a, model, ops, n) ==
    /\ a[0] = model
    /\ \A i \in 0..n : a[i] # OpApplyError
    /\ \A i \in 1..n : Applicable(a[i-1], ops[i]) /\ a[i] = ApplyOp(a[i-1], ops[i])

LEMMA NeverFailed ==
  ASSUME NEW model, NEW ops, NEW n \in Nat, NEW a, Applying(a, model, ops, n), a[n] # OpApplyError
  PROVE  Runs(a, model, ops, n)
<1>1. a[0] = model /\ \A i \in 1..n : a[i] = Applied(a[i-1], ops[i])
  BY DEF Applying
<1> DEFINE S == {j \in 0..n : a[n - j] # OpApplyError}
<1>2. 0 \in S
  OBVIOUS
<1>3. ASSUME NEW j \in 0..n-1, j \in S PROVE j + 1 \in S
  <2>1. PICK i \in 1..n : i = n - j /\ n - (j + 1) = i - 1
    BY <1>3
  <2>2. a[i] # OpApplyError
    BY <1>3, <2>1
  <2>3. a[i - 1] # OpApplyError
    BY <1>1, <2>2 DEF Applied
  <2>4. j + 1 \in 0..n
    BY <1>3
  <2> QED BY <2>1, <2>3, <2>4
<1> HIDE DEF S
<1>4. 0..n \subseteq S
  BY <1>2, <1>3, UpTo
<1>5. ASSUME NEW i \in 0..n PROVE a[i] # OpApplyError
  <2>1. PICK j \in 0..n : j = n - i /\ n - j = i
    OBVIOUS
  <2>2. j \in S
    BY <1>4
  <2> QED BY <2>1, <2>2 DEF S
<1>6. \A i \in 1..n : Applicable(a[i-1], ops[i]) /\ a[i] = ApplyOp(a[i-1], ops[i])
  <2>1. ASSUME NEW i \in 1..n PROVE Applicable(a[i-1], ops[i]) /\ a[i] = ApplyOp(a[i-1], ops[i])
    <3>1. i \in 0..n /\ a[i] = Applied(a[i-1], ops[i])
      BY <1>1
    <3>2. a[i] # OpApplyError
      BY <1>5, <3>1
    <3> QED BY <3>1, <3>2 DEF Applied
  <2> QED BY <2>1
<1> QED BY <1>1, <1>5, <1>6 DEF Runs

(* A batch that applyOps accepts and the database accepts makes the same   *)
(* model in memory and in the rows (mutation.ts answers from memory).      *)
THEOREM BothAccept ==
  ASSUME NEW model, NEW ops, Len(ops) \in Nat,
         applyOps(model, ops) # OpApplyError, persistOps(model, ops) # OpApplyError
  PROVE  persistOps(model, ops) = applyOps(model, ops)
<1>1. PICK n \in Nat : n = Len(ops)
  OBVIOUS
<1>2. PICK a : a = AppliedUpTo(model, ops)
  OBVIOUS
<1>3. Applying(a, model, ops, n)
  BY <1>1, <1>2, AppliedSteps
<1>4. applyOps(model, ops) = a[n] /\ a[n] # OpApplyError
  BY <1>1, <1>2 DEF applyOps
<1>5. /\ a[0] = model
      /\ \A i \in 0..n : a[i] # OpApplyError
      /\ \A i \in 1..n : Applicable(a[i-1], ops[i]) /\ a[i] = ApplyOp(a[i-1], ops[i])
  <2>1. Runs(a, model, ops, n)
    BY <1>3, <1>4, NeverFailed
  <2> QED BY <2>1 DEF Runs
<1>6. PICK g : Persisting(g, model, ops, n) /\ persistOps(model, ops) = g[n]
  BY <1>1, PersistedSteps
<1>7. g[0] = model /\ \A i \in 1..n : g[i] = Persisted(g[i-1], ops[i])
  BY <1>6 DEF Persisting
<1> DEFINE S == {i \in 0..n : g[i] = a[i] \/ g[i] = OpApplyError}
<1>8. 0 \in S
  BY <1>5, <1>7
<1>9. ASSUME NEW i \in 0..n-1, i \in S PROVE i + 1 \in S
  <2>1. PICK j \in 1..n : j = i + 1 /\ j - 1 = i
    OBVIOUS
  <2>2. g[j] = Persisted(g[i], ops[j]) /\ (g[i] = a[i] \/ g[i] = OpApplyError)
    BY <1>7, <1>9, <2>1
  <2>3. Applicable(a[i], ops[j]) /\ a[j] = ApplyOp(a[i], ops[j])
    BY <1>5, <2>1
  <2>4. Statement(a[i], ops[j]) = a[j]
    BY <2>3 DEF Statement
  <2>5. g[j] = a[j] \/ g[j] = OpApplyError
    BY <2>2, <2>4 DEF Persisted
  <2> QED BY <2>1, <2>5
<1> HIDE DEF S
<1>10. n \in S
  <2>1. 0..n \subseteq S
    BY <1>8, <1>9, UpTo
  <2> QED BY <2>1
<1> QED BY <1>4, <1>6, <1>10 DEF S

(* What rewriting from / before leaves of an op, and of what it does.      *)
SameEffect(op, log) ==
    /\ log.action = op.action /\ log.key = op.key
    /\ op.action = "create" => log.data = op.data
    /\ op.action = "update" => /\ DOMAIN log.changes = DOMAIN op.changes
                               /\ \A p \in DOMAIN op.changes : log.changes[p].to = op.changes[p].to
Batch(ops) == \A i \in 1..Len(ops) : ops[i].action \in {"create", "update", "delete"}

LEMMA LoggedAlike ==
  ASSUME NEW model, NEW ops, Len(ops) \in Nat, NEW logged, logged = withAuthoritativeHistory(model, ops)
  PROVE  /\ Len(logged) = Len(ops)
         /\ \A i \in 1..Len(ops) : ops[i].action \in {"create", "update", "delete"} => SameEffect(ops[i], logged[i])
<1>1. Len(logged) = Len(ops)
  BY DEF withAuthoritativeHistory
<1>2. ASSUME NEW i \in 1..Len(ops), ops[i].action \in {"create", "update", "delete"}
      PROVE  SameEffect(ops[i], logged[i])
  <2>1. PICK op, log : op = ops[i] /\ log = logged[i]
    OBVIOUS
  <2>2. log = CASE op.key \notin DOMAIN model \/ op.action = "create" -> op
                [] op.action = "delete" /\ op.key \in DOMAIN model -> DeleteOp(op.key, model[op.key])
                [] op.action = "update" /\ op.key \in DOMAIN model ->
                      UpdateOp(op.key, [p \in DOMAIN op.changes |->
                          [from |-> model[op.key][p], to |-> op.changes[p].to]])
    BY <2>1 DEF withAuthoritativeHistory
  <2>3. CASE op.key \notin DOMAIN model \/ op.action = "create"
    <3>1. log = op
      BY <2>1, <2>2, <2>3, <1>2
    <3> QED BY <2>1, <3>1 DEF SameEffect
  <2>4. CASE op.action = "delete" /\ op.key \in DOMAIN model
    BY <2>1, <2>2, <2>4 DEF SameEffect, DeleteOp
  <2>5. CASE op.action = "update" /\ op.key \in DOMAIN model
    BY <2>1, <2>2, <2>5 DEF SameEffect, UpdateOp
  <2> QED BY <1>2, <2>1, <2>3, <2>4, <2>5
<1> QED BY <1>1, <1>2

LEMMA AppliesAlike ==
  ASSUME NEW model, NEW op, NEW log, op.action \in {"create", "update", "delete"}, SameEffect(op, log)
  PROVE  Applied(model, log) = Applied(model, op)
<1>1. Applicable(model, log) <=> Applicable(model, op)
  BY DEF Applicable, SameEffect
<1>2. ApplyOp(model, log) = ApplyOp(model, op)
  <2>1. CASE op.action = "create"
    BY <2>1 DEF ApplyOp, SameEffect
  <2>2. CASE op.action = "delete"
    BY <2>2 DEF ApplyOp, SameEffect
  <2>3. CASE op.action = "update"
    <3>1. PICK e : e = model[op.key]
      OBVIOUS
    <3>2. Patched(e, log.changes) = Patched(e, op.changes)
      BY <2>3 DEF Patched, SameEffect
    <3> QED BY <2>3, <3>1, <3>2 DEF ApplyOp, SameEffect
  <2> QED BY <2>1, <2>2, <2>3
<1> QED BY <1>1, <1>2 DEF Applied

(* Rewriting from / before with what the locked rows hold does not change  *)
(* what a batch does, at any of its ops (withAuthoritativeHistory).        *)
THEOREM RewriteApplies ==
  ASSUME NEW model, NEW ops, Len(ops) \in Nat, Batch(ops),
         NEW logged, logged = withAuthoritativeHistory(model, ops)
  PROVE  /\ applyOps(model, logged) = applyOps(model, ops)
         /\ \A i \in 0..Len(ops) : AppliedUpTo(model, logged)[i] = AppliedUpTo(model, ops)[i]
<1>1. PICK n \in Nat : n = Len(ops)
  OBVIOUS
<1>2. Len(logged) = n /\ \A i \in 1..n : ops[i].action \in {"create", "update", "delete"} /\ SameEffect(ops[i], logged[i])
  BY <1>1, LoggedAlike DEF Batch
<1>3. PICK a, b : a = AppliedUpTo(model, ops) /\ b = AppliedUpTo(model, logged)
  OBVIOUS
<1>4. Applying(a, model, ops, n) /\ Applying(b, model, logged, n)
  BY <1>1, <1>2, <1>3, AppliedSteps
<1>5. /\ a[0] = model /\ \A i \in 1..n : a[i] = Applied(a[i-1], ops[i])
      /\ b[0] = model /\ \A i \in 1..n : b[i] = Applied(b[i-1], logged[i])
  BY <1>4 DEF Applying
<1> DEFINE S == {i \in 0..n : b[i] = a[i]}
<1>6. 0 \in S
  BY <1>5
<1>7. ASSUME NEW i \in 0..n-1, i \in S PROVE i + 1 \in S
  <2>1. PICK j \in 1..n : j = i + 1 /\ j - 1 = i
    OBVIOUS
  <2>2. b[j] = Applied(a[i], logged[j]) /\ a[j] = Applied(a[i], ops[j])
    BY <1>5, <1>7, <2>1
  <2>3. Applied(a[i], logged[j]) = Applied(a[i], ops[j])
    BY <1>2, AppliesAlike
  <2> QED BY <2>1, <2>2, <2>3
<1> HIDE DEF S
<1>8. \A i \in 0..n : b[i] = a[i]
  BY <1>6, <1>7, UpTo DEF S
<1>9. b[n] = a[n]
  BY <1>8
<1>10. applyOps(model, logged) = applyOps(model, ops)
  BY <1>1, <1>2, <1>3, <1>9 DEF applyOps
<1> QED BY <1>1, <1>3, <1>8, <1>10

(* One op of a logged batch, and what its inverse undoes.                  *)
Rewritten(model, op) ==
    CASE op.key \notin DOMAIN model \/ op.action = "create" -> op
      [] op.action = "delete" /\ op.key \in DOMAIN model -> DeleteOp(op.key, model[op.key])
      [] op.action = "update" /\ op.key \in DOMAIN model ->
            UpdateOp(op.key, [p \in DOMAIN op.changes |->
                [from |-> model[op.key][p], to |-> op.changes[p].to]])

LEMMA ApplyGivesFunction ==
  ASSUME NEW model, NEW op, op.action \in {"create", "update", "delete"}
  PROVE  IsFunction(ApplyOp(model, op))
<1>1. CASE op.action = "create"
  BY <1>1 DEF ApplyOp, With, IsFunction
<1>2. CASE op.action = "delete"
  BY <1>2 DEF ApplyOp, Without, IsFunction
<1>3. CASE op.action = "update"
  BY <1>3 DEF ApplyOp, With, IsFunction
<1> QED BY <1>1, <1>2, <1>3

LEMMA OneUndone ==
  ASSUME NEW m, IsFunction(m), NEW op, op.action \in {"create", "update", "delete"}, Applicable(m, op),
         op.key \in DOMAIN m => IsFunction(m[op.key]),
         NEW log, log = Rewritten(m, op), NEW n, n = ApplyOp(m, op), NEW inv, inv = invertOp(log)
  PROVE  Applicable(n, inv) /\ ApplyOp(n, inv) = m
<1>1. PICK k : k = op.key
  OBVIOUS
<1>0. m = [x \in DOMAIN m |-> m[x]]
  BY DEF IsFunction
<1>2. CASE op.action = "create"
  <2>1. k \notin DOMAIN m /\ log = op
    BY <1>1, <1>2 DEF Applicable, Rewritten
  <2>2. n = [x \in DOMAIN m \cup {k} |-> IF x = k THEN op.data ELSE m[x]]
    BY <1>1, <1>2 DEF ApplyOp, With
  <2>3. inv.action = "delete" /\ inv.key = k
    BY <1>1, <1>2, <2>1 DEF invertOp, DeleteOp
  <2>4. Without(n, k) = m
    <3>1. DOMAIN n \ {k} = DOMAIN m
      BY <2>1, <2>2
    <3>2. \A x \in DOMAIN m : n[x] = m[x]
      BY <2>1, <2>2
    <3> QED BY <1>0, <3>1, <3>2 DEF Without
  <2>5. k \in DOMAIN n
    BY <2>2
  <2> QED BY <2>3, <2>4, <2>5 DEF Applicable, ApplyOp
<1>3. CASE op.action = "delete"
  <2>1. k \in DOMAIN m /\ log = DeleteOp(k, m[k])
    BY <1>1, <1>3 DEF Applicable, Rewritten
  <2>2. n = [x \in DOMAIN m \ {k} |-> m[x]]
    BY <1>1, <1>3 DEF ApplyOp, Without
  <2>3. inv.action = "create" /\ inv.key = k /\ inv.data = m[k]
    BY <2>1 DEF invertOp, DeleteOp, CreateOp
  <2>4. With(n, k, m[k]) = m
    <3>1. DOMAIN n \cup {k} = DOMAIN m
      BY <2>1, <2>2
    <3>2. \A x \in DOMAIN m : x # k => n[x] = m[x]
      BY <2>2
    <3> QED BY <1>0, <3>1, <3>2 DEF With
  <2>5. k \notin DOMAIN n
    BY <2>2
  <2> QED BY <2>3, <2>4, <2>5 DEF Applicable, ApplyOp
<1>4. CASE op.action = "update"
  <2>1. k \in DOMAIN m /\ log = UpdateOp(k, [p \in DOMAIN op.changes |->
                                      [from |-> m[k][p], to |-> op.changes[p].to]])
    BY <1>1, <1>4 DEF Applicable, Rewritten
  <2>2. PICK e, d : e = m[k] /\ d = Patched(e, op.changes)
    OBVIOUS
  <2>3. n = [x \in DOMAIN m \cup {k} |-> IF x = k THEN d ELSE m[x]]
    BY <1>1, <1>4, <2>2 DEF ApplyOp, With
  <2>4. /\ inv.action = "update" /\ inv.key = k
        /\ DOMAIN inv.changes = DOMAIN op.changes
        /\ \A p \in DOMAIN op.changes : inv.changes[p].to = e[p]
    <3>1. /\ log.action = "update" /\ log.key = k /\ DOMAIN log.changes = DOMAIN op.changes
          /\ \A p \in DOMAIN op.changes : log.changes[p].from = e[p]
      BY <2>1, <2>2 DEF UpdateOp
    <3>2. inv = UpdateOp(k, [p \in DOMAIN log.changes |->
                                [from |-> log.changes[p].to, to |-> log.changes[p].from]])
      BY <3>1 DEF invertOp
    <3> QED BY <3>1, <3>2 DEF UpdateOp
  <2>5. Patched(d, inv.changes) = e
    <3>1. e = [p \in DOMAIN e |-> e[p]]
      BY <1>1, <2>1, <2>2 DEF IsFunction
    <3>2. d = [p \in DOMAIN e |-> IF p \in DOMAIN op.changes THEN op.changes[p].to ELSE e[p]]
      BY <2>2 DEF Patched
    <3>3. DOMAIN d = DOMAIN e /\ \A p \in DOMAIN e : p \notin DOMAIN op.changes => d[p] = e[p]
      BY <3>2
    <3>4. Patched(d, inv.changes) = [p \in DOMAIN d |-> IF p \in DOMAIN inv.changes THEN inv.changes[p].to ELSE d[p]]
      BY DEF Patched
    <3>5. Patched(d, inv.changes) = [p \in DOMAIN e |-> e[p]]
      BY <2>4, <3>3, <3>4
    <3> QED BY <3>1, <3>5
  <2>6. With(n, k, e) = m
    <3>1. DOMAIN n \cup {k} = DOMAIN m
      BY <2>1, <2>3
    <3>2. \A x \in DOMAIN m : x # k => n[x] = m[x]
      BY <2>3
    <3> QED BY <1>0, <2>2, <3>1, <3>2 DEF With
  <2>7. k \in DOMAIN n /\ n[k] = d
    BY <2>3
  <2> QED BY <2>4, <2>5, <2>6, <2>7 DEF Applicable, ApplyOp
<1> QED BY <1>2, <1>3, <1>4

(* What the ops so far have not touched is as it was.                      *)
LeftAlone(m, rows, done) ==
    /\ IsFunction(m)
    /\ \A k : k \notin done => /\ k \in DOMAIN m <=> k \in DOMAIN rows
                               /\ k \in DOMAIN rows => m[k] = rows[k]

LEMMA OneTouched ==
  ASSUME NEW m, NEW rows, NEW done, LeftAlone(m, rows, done),
         NEW op, op.action \in {"create", "update", "delete"}, NEW n, n = ApplyOp(m, op)
  PROVE  LeftAlone(n, rows, done \cup {op.key})
<1>1. IsFunction(n)
  BY ApplyGivesFunction
<1>2. ASSUME NEW k, k \notin done, k # op.key PROVE (k \in DOMAIN n <=> k \in DOMAIN m) /\ (k \in DOMAIN m => n[k] = m[k])
  <2>1. CASE op.action = "create"
    BY <1>2, <2>1 DEF ApplyOp, With
  <2>2. CASE op.action = "delete"
    BY <1>2, <2>2 DEF ApplyOp, Without
  <2>3. CASE op.action = "update"
    <3>1. PICK d : d = Patched(m[op.key], op.changes)
      OBVIOUS
    <3>2. n = With(m, op.key, d)
      BY <2>3, <3>1 DEF ApplyOp
    <3> QED BY <1>2, <3>2 DEF With
  <2> QED BY <2>1, <2>2, <2>3
<1> QED BY <1>1, <1>2 DEF LeftAlone

(* A batch that is accepted by some rows and logged with what those rows   *)
(* held can be undone from the log alone: the inverse of what was logged   *)
(* leads back to the rows, whatever model the batch was computed on.       *)
THEOREM RollsBack ==
  ASSUME NEW rows, WellFormed(rows), validateModelIntegrity(rows),
         NEW ops, Len(ops) \in Nat, Batch(ops), EachOnce(ops, Len(ops)),
         NEW result, result = applyOps(rows, ops), result # OpApplyError,
         NEW logged, logged = withAuthoritativeHistory(rows, ops)
  PROVE  applyOps(result, invertOps(logged)) = rows
<1>1. PICK n \in Nat : n = Len(ops)
  OBVIOUS
<1>2. Len(logged) = n
  BY <1>1, LoggedAlike
<1>3. PICK a : a = AppliedUpTo(rows, ops)
  OBVIOUS
<1>4. Applying(a, rows, ops, n)
  BY <1>1, <1>3, AppliedSteps
<1>5. result = a[n] /\ a[n] # OpApplyError
  BY <1>1, <1>3 DEF applyOps
<1>6. Runs(a, rows, ops, n)
  BY <1>4, <1>5, NeverFailed
<1>7. \A i \in 1..n : ops[i].action \in {"create", "update", "delete"}
  BY <1>1 DEF Batch
<1> DEFINE S == {i \in 0..n : LeftAlone(a[i], rows, KeysDone(ops, i))}
<1>8. 0 \in S
  BY <1>6 DEF Runs, LeftAlone, WellFormed
<1>9. ASSUME NEW i \in 0..n-1, i \in S PROVE i + 1 \in S
  <2>1. PICK j \in 1..n : j = i + 1 /\ j - 1 = i
    OBVIOUS
  <2>2. PICK m, new, op, done, more : /\ m = a[i] /\ new = a[j] /\ op = ops[j]
                                      /\ done = KeysDone(ops, i) /\ more = KeysDone(ops, j)
    OBVIOUS
  <2>3. new = ApplyOp(m, op)
    BY <1>6, <2>1, <2>2 DEF Runs
  <2>4. more = done \cup {op.key}
    <3>1. 1..j = (1..i) \cup {j}
      BY <2>1
    <3>2. \A x : x \in KeysDone(ops, j) <=> x \in KeysDone(ops, i) \/ x = op.key
      BY <2>2, <3>1 DEF KeysDone
    <3> QED BY <2>2, <3>2
  <2>5. LeftAlone(m, rows, done) /\ op.action \in {"create", "update", "delete"}
    BY <1>7, <1>9, <2>2
  <2>6. LeftAlone(new, rows, done \cup {op.key})
    BY <2>3, <2>5, OneTouched
  <2>7. j \in 0..n
    OBVIOUS
  <2> QED BY <2>1, <2>2, <2>4, <2>6, <2>7
<1> HIDE DEF S
<1>10. 0..n \subseteq S
  BY <1>8, <1>9, UpTo
<1>11. ASSUME NEW i \in 1..n
       PROVE  Applicable(a[i], invertOp(logged[i])) /\ ApplyOp(a[i], invertOp(logged[i])) = a[i-1]
  <2>1. PICK m, op : m = a[i-1] /\ op = ops[i]
    OBVIOUS
  <2>2. i - 1 \in 0..n
    OBVIOUS
  <2>3. LeftAlone(m, rows, KeysDone(ops, i-1))
    BY <1>10, <2>1, <2>2 DEF S
  <2>4. op.key \notin KeysDone(ops, i-1)
    <3>1. ASSUME NEW j \in 1..i-1, ops[j].key = op.key PROVE FALSE
      <4>1. j \in 1..Len(ops) /\ i \in 1..Len(ops) /\ j # i
        BY <1>1
      <4> QED BY <2>1, <3>1, <4>1 DEF EachOnce
    <3> QED BY <3>1 DEF KeysDone
  <2>5. /\ op.key \in DOMAIN m <=> op.key \in DOMAIN rows
        /\ op.key \in DOMAIN rows => m[op.key] = rows[op.key]
    BY <2>3, <2>4 DEF LeftAlone
  <2>6. PICK log : log = logged[i]
    OBVIOUS
  <2>7. log = Rewritten(rows, op)
    BY <1>1, <2>1, <2>6 DEF withAuthoritativeHistory, Rewritten
  <2>8. Rewritten(rows, op) = Rewritten(m, op)
    BY <2>5 DEF Rewritten
  <2>9. IsFunction(m) /\ (op.key \in DOMAIN m => IsFunction(m[op.key]))
    BY <2>3, <2>5 DEF LeftAlone, WellFormed
  <2>10. Applicable(m, op) /\ a[i] = ApplyOp(m, op)
    BY <1>6, <2>1 DEF Runs
  <2>11. op.action \in {"create", "update", "delete"}
    BY <1>7, <2>1
  <2>12. PICK new, inv : new = a[i] /\ inv = invertOp(log)
    OBVIOUS
  <2>13. Applicable(new, inv) /\ ApplyOp(new, inv) = m
    BY <2>7, <2>8, <2>9, <2>10, <2>11, <2>12, OneUndone
  <2> QED BY <2>1, <2>6, <2>12, <2>13
<1>12. PICK back, c : back = invertOps(logged) /\ c = AppliedUpTo(result, back)
  OBVIOUS
<1>13. Len(back) = n /\ \A j \in 1..n : back[j] = invertOp(logged[n + 1 - j])
  BY <1>2, <1>12 DEF invertOps
<1>14. c[0] = result /\ \A j \in 1..n : c[j] = Applied(c[j-1], back[j])
  <2>1. Applying(c, result, back, n)
    BY <1>12, <1>13, AppliedSteps
  <2> QED BY <2>1 DEF Applying
<1> DEFINE B == {j \in 0..n : c[j] = a[n - j]}
<1>15. 0 \in B
  BY <1>5, <1>14
<1>16. ASSUME NEW j \in 0..n-1, j \in B PROVE j + 1 \in B
  <2>1. PICK i \in 1..n : i = n - j /\ n + 1 - (j + 1) = i /\ n - (j + 1) = i - 1
    OBVIOUS
  <2>2. c[j] = a[i] /\ j + 1 \in 1..n /\ (j + 1) - 1 = j
    BY <1>16, <2>1
  <2>3. c[j + 1] = Applied(a[i], invertOp(logged[i]))
    BY <1>13, <1>14, <2>1, <2>2
  <2>4. a[i] # OpApplyError
    BY <1>6 DEF Runs
  <2>5. c[j + 1] = a[i - 1]
    BY <1>11, <2>3, <2>4 DEF Applied
  <2>6. j + 1 \in 0..n
    BY <2>2
  <2> QED BY <2>1, <2>5, <2>6
<1> HIDE DEF B
<1>17. c[n] = a[0]
  <2>1. 0..n \subseteq B
    BY <1>15, <1>16, UpTo
  <2>2. n \in B
    BY <2>1
  <2>3. n - n = 0
    OBVIOUS
  <2> QED BY <2>2, <2>3 DEF B
<1>18. a[0] = rows /\ rows # OpApplyError
  <2>1. 0 \in 0..n
    OBVIOUS
  <2> QED BY <1>6, <2>1 DEF Runs
<1> QED BY <1>12, <1>13, <1>17, <1>18 DEF applyOps

(* Nothing is sent exactly when nothing has changed.                       *)
THEOREM EmptyDiff ==
  ASSUME NEW base, NEW target, Comparable(base, target)
  PROVE  diffModels(base, target) = << >> <=> base = target
<1>1. WellFormed(base) /\ WellFormed(target)
  BY DEF Comparable
<1>2. PICK ops : ops = diffModels(base, target)
  OBVIOUS
<1>3. PICK c, v, n \in Nat : DiffOrder(ops, c, v, n, base, target) /\ ops = [i \in 1..n |-> ops[i]]
  BY <1>1, <1>2, DiffInOrder
<1>4. Len(ops) = n
  BY <1>3
<1>5. ASSUME n = 0 PROVE base = target
  <2>1. Differing(base, target) = {}
    BY <1>3, <1>5 DEF DiffOrder
  <2>2. Moved(base, target, {}) = target
    BY <2>1, AllMoved
  <2> QED BY <1>1, <2>2, NothingMoved
<1>6. ASSUME base = target PROVE n = 0
  <2> SUFFICES ASSUME n # 0 PROVE FALSE
    OBVIOUS
  <2>1. 1 \in 1..n
    OBVIOUS
  <2>2. PICK k : k = ops[1].key
    OBVIOUS
  <2>3. k \in DOMAIN target \ DOMAIN base \/ k \in Changed(base, target) \/ k \in DOMAIN base \ DOMAIN target
    BY <1>3, <2>1, <2>2 DEF DiffOrder
  <2>4. ChangedFields(base[k], target[k]) = {}
    BY <1>6 DEF ChangedFields
  <2> QED BY <1>6, <2>3, <2>4 DEF Changed
<1>7. ops = << >> <=> n = 0
  BY <1>3, <1>4
<1> QED BY <1>2, <1>5, <1>6, <1>7

-----------------------------------------------------------------------------
(* Every pair an editor reaches: models over the entities there are, both  *)
(* integral.                                                               *)
OfEntities(model) ==
    /\ IsFunction(model) /\ IsFiniteSet(DOMAIN model)
    /\ DOMAIN model \subseteq DOMAIN Entities
    /\ \A k \in DOMAIN model : model[k] \in Entities[k]
ModelsInv ==
    /\ OfEntities(diffBase) /\ validateModelIntegrity(diffBase)
    /\ OfEntities(diffTarget) /\ validateModelIntegrity(diffTarget)

LEMMA OverForm ==
  ASSUME NEW m, OfEntities(m)
  PROVE  WellFormed(m)
<1>1. \A k \in DOMAIN m : k[1] \in Range(ENTITY_KINDS) /\ IsFunction(m[k])
  BY KindsHaveFields DEF OfEntities
<1> QED BY <1>1 DEF OfEntities, WellFormed

LEMMA OverPair ==
  ASSUME NEW m, NEW n, OfEntities(m), OfEntities(n)
  PROVE  Comparable(m, n) /\ NeverError(m, n)
<1>1. SameFields(m, n)
  BY KindsHaveFields DEF OfEntities, SameFields
<1>2. Comparable(m, n)
  BY <1>1, OverForm DEF Comparable
<1>3. ASSUME NEW S PROVE Moved(m, n, S) # OpApplyError
  <2>1. PICK p : p = Moved(m, n, S)
    OBVIOUS
  <2>2. /\ DOMAIN p = (DOMAIN m \ S) \cup (DOMAIN n \cap S)
        /\ \A k \in DOMAIN p : p[k] = IF k \in S THEN n[k] ELSE m[k]
    BY <2>1 DEF Moved
  <2>3. PICK K, V : K = DOMAIN p /\ V = UNION {Entities[k] : k \in K}
    OBVIOUS
  <2>4. K \in SUBSET DOMAIN Entities
    BY <2>2, <2>3 DEF OfEntities
  <2>5. \A k \in K : p[k] \in Entities[k]
    BY <2>2, <2>3 DEF OfEntities
  <2>6. \A k \in K : p[k] \in V
    BY <2>3, <2>5
  <2>7. p = [k \in K |-> p[k]]
    BY <1>2, <2>1, <2>3, MovedForm DEF WellFormed, IsFunction
  <2>8. p \in [K -> V]
    BY <2>6, <2>7
  <2> QED BY <2>1, <2>3, <2>4, <2>8, ErrorIsNoModel
<1> QED BY <1>2, <1>3 DEF NeverError

LEMMA NeighbourOver ==
  ASSUME NEW m, OfEntities(m), NEW n \in Neighbours(m)
  PROVE  OfEntities(n)
<1>1. CASE \E k \in DOMAIN Entities : \E e \in Entities[k] : n = With(m, k, e)
  <2>0. PICK k \in DOMAIN Entities : \E e \in Entities[k] : n = With(m, k, e)
    BY <1>1
  <2>1. PICK e \in Entities[k] : n = With(m, k, e)
    BY <2>0
  <2>2. /\ DOMAIN n = DOMAIN m \cup {k}
        /\ \A x \in DOMAIN n : n[x] = IF x = k THEN e ELSE m[x]
        /\ IsFunction(n)
    BY <2>1 DEF With, IsFunction
  <2>3. IsFiniteSet(DOMAIN n)
    BY <2>2, FS_AddElement DEF OfEntities
  <2>4. \A x \in DOMAIN n : x \in DOMAIN Entities /\ n[x] \in Entities[x]
    BY <2>1, <2>2 DEF OfEntities
  <2> QED BY <2>2, <2>3, <2>4 DEF OfEntities
<1>2. CASE \E k \in DOMAIN m : n = Without(m, k)
  <2>1. PICK k \in DOMAIN m : n = Without(m, k)
    BY <1>2
  <2>2. /\ DOMAIN n = DOMAIN m \ {k}
        /\ \A x \in DOMAIN n : n[x] = m[x]
        /\ IsFunction(n)
    BY <2>1 DEF Without, IsFunction
  <2>3. IsFiniteSet(DOMAIN n)
    BY <2>2, FS_Subset DEF OfEntities
  <2>4. \A x \in DOMAIN n : x \in DOMAIN Entities /\ n[x] \in Entities[x]
    BY <2>2 DEF OfEntities
  <2>5. DOMAIN n \subseteq DOMAIN Entities /\ IsFunction(n)
    BY <2>2, <2>4
  <2> QED BY <2>3, <2>4, <2>5 DEF OfEntities
<1> QED BY <1>1, <1>2 DEF Neighbours

LEMMA EmptyIsOver == OfEntities(EmptyModel) /\ validateModelIntegrity(EmptyModel)
<1>1. DOMAIN EmptyModel = {} /\ IsFunction(EmptyModel)
  BY DEF EmptyModel, IsFunction
<1>2. IsFiniteSet({})
  BY FS_EmptySet
<1>3. OfEntities(EmptyModel)
  BY <1>1, <1>2 DEF OfEntities
<1>4. \A kind : KeysOf(EmptyModel, kind) = {}
  BY <1>1 DEF KeysOf
<1>5. validateModelIntegrity(EmptyModel)
  BY <1>4 DEF validateModelIntegrity, GroupRefsHold, TableRefsHold, DomainRefsHold, ColumnRefsHold
<1> QED BY <1>3, <1>5

LEMMA ModelsStayOver == DiffSpec => []ModelsInv
<1>1. DiffInit => ModelsInv
  BY EmptyIsOver DEF DiffInit, ModelsInv
<1>2. ModelsInv /\ [DiffNext]_diffVars => ModelsInv'
  <2> SUFFICES ASSUME ModelsInv, [DiffNext]_diffVars PROVE ModelsInv'
    OBVIOUS
  <2>1. CASE EditTarget
    <3>1. PICK m \in Neighbours(diffTarget) : validateModelIntegrity(m) /\ diffTarget' = m
      BY <2>1 DEF EditTarget
    <3>2. OfEntities(m)
      BY <3>1, NeighbourOver DEF ModelsInv
    <3> QED BY <2>1, <3>1, <3>2 DEF EditTarget, ModelsInv
  <2>2. CASE Settle
    BY <2>2 DEF Settle, ModelsInv
  <2>3. CASE UNCHANGED diffVars
    BY <2>3 DEF diffVars, ModelsInv
  <2> QED BY <2>1, <2>2, <2>3 DEF DiffNext
<1> QED BY <1>1, <1>2, PTL DEF DiffSpec

LEMMA PairsDiffer ==
  ASSUME ModelsInv
  PROVE  Diffing(diffBase, diffTarget)
  BY OverPair DEF ModelsInv, Diffing

(* A pair of models leads from one to the other by its diff, chunk after   *)
(* chunk, with an integral model after each of them.                       *)
THEOREM ChunksAddUpAlways == DiffSpec => []ChunksAddUp
<1>1. ASSUME ModelsInv PROVE ChunksAddUp
  <2> SUFFICES ASSUME KeepsColumnsInPlace(diffBase, diffTarget), NEW size \in 1..3,
                      NEW chunks, chunks = chunkOps(diff, size),
                      NEW after, after = SentUpTo(diffBase, chunks)
               PROVE  /\ \A i \in 1..Len(chunks) : after[i] # OpApplyError /\ validateModelIntegrity(after[i])
                      /\ after[Len(chunks)] = diffTarget
    BY DEF ChunksAddUp
  <2>1. PICK b, t : b = diffBase /\ t = diffTarget
    OBVIOUS
  <2>2. Diffing(b, t) /\ KeepsColumnsInPlace(b, t)
    BY <1>1, <2>1, PairsDiffer
  <2>3. PICK s \in Nat : s = size /\ s # 0
    OBVIOUS
  <2>4. chunks = chunkOps(diffModels(b, t), s) /\ after = SentUpTo(b, chunks)
    BY <2>1, <2>3 DEF diff
  <2>5. /\ \A i \in 1..Len(chunks) : after[i] # OpApplyError /\ validateModelIntegrity(after[i])
        /\ after[Len(chunks)] = t
    BY ONLY <2>2, <2>3, <2>4, ChunksReach
  <2> QED BY <2>1, <2>5
<1> QED BY <1>1, ModelsStayOver, PTL

(* The row statements of a diff never break a foreign key on the way, and  *)
(* end in the model the diff was made for.                                 *)
THEOREM RowsFollowModelAlways == DiffSpec => []RowsFollowModel
<1>1. ASSUME ModelsInv PROVE RowsFollowModel
  <2>1. Diffing(diffBase, diffTarget)
    BY <1>1, PairsDiffer
  <2> QED BY <2>1, DiffPersists DEF RowsFollowModel, diff
<1> QED BY <1>1, ModelsStayOver, PTL

LEMMA DiffIsBatch ==
  ASSUME NEW base, NEW target, Comparable(base, target), NEW ops, ops = diffModels(base, target)
  PROVE  Len(ops) \in Nat /\ Batch(ops) /\ EachOnce(ops, Len(ops))
<1>1. PICK n \in Nat : Ordered(ops, n, base, target)
  BY DiffIsOrdered
<1>2. Len(ops) = n /\ EachOnce(ops, n)
  BY <1>1 DEF Ordered, MovesAll
<1>3. \A i \in 1..n : Moves(ops[i], base, target)
  BY <1>1 DEF Ordered, MovesAll
<1>4. Batch(ops)
  BY <1>2, <1>3 DEF Batch, Moves
<1> QED BY <1>2, <1>4

(* A diff records what it replaces: logged on the model it was made for,   *)
(* it stays what it is.                                                    *)
LEMMA DiffKnowsHistory ==
  ASSUME NEW base, NEW target, Comparable(base, target), NEW ops, ops = diffModels(base, target)
  PROVE  withAuthoritativeHistory(base, ops) = ops
<1>1. PICK n \in Nat : Ordered(ops, n, base, target)
  BY DiffIsOrdered
<1>2. Len(ops) = n /\ ops = [i \in 1..n |-> ops[i]] /\ \A i \in 1..n : Moves(ops[i], base, target)
  BY <1>1 DEF Ordered, MovesAll
<1>3. PICK logged : logged = withAuthoritativeHistory(base, ops)
  OBVIOUS
<1>4. logged = [i \in 1..n |-> Rewritten(base, ops[i])]
  BY <1>2, <1>3 DEF withAuthoritativeHistory, Rewritten
<1>5. ASSUME NEW i \in 1..n PROVE Rewritten(base, ops[i]) = ops[i]
  <2>1. PICK op : op = ops[i]
    OBVIOUS
  <2>2. Moves(op, base, target)
    BY <1>2, <2>1
  <2>3. CASE op.action = "create"
    BY <2>1, <2>3 DEF Rewritten
  <2>4. CASE op.action = "delete"
    <3>1. op.key \in DOMAIN base /\ op = DeleteOp(op.key, base[op.key])
      BY <2>2, <2>4 DEF Moves
    <3> QED BY <2>1, <2>4, <3>1 DEF Rewritten
  <2>5. CASE op.action = "update"
    <3>1. PICK k, old, new, changes : /\ k = op.key /\ old = base[k] /\ new = target[k]
                                      /\ changes = op.changes
      OBVIOUS
    <3>2. k \in DOMAIN base /\ changes = Changes(old, new) /\ op = UpdateOp(k, changes)
      BY <2>2, <2>5, <3>1 DEF Moves
    <3>3. [p \in DOMAIN changes |-> [from |-> old[p], to |-> changes[p].to]] = changes
      BY <3>2 DEF Changes
    <3> QED BY <2>1, <2>5, <3>1, <3>2, <3>3 DEF Rewritten
  <2> QED BY <2>1, <2>2, <2>3, <2>4, <2>5 DEF Moves
<1> QED BY <1>2, <1>3, <1>4, <1>5

(* The inverse of an edit leads from its target back to its base: what the *)
(* editor's undo applies (invertOps; use-model.ts, undo).                  *)
THEOREM EditsRollBack ==
  ASSUME NEW base, NEW target, Diffing(base, target)
  PROVE  applyOps(target, invertOps(diffModels(base, target))) = base
<1>1. PICK ops : ops = diffModels(base, target)
  OBVIOUS
<1>2. Comparable(base, target) /\ WellFormed(base) /\ validateModelIntegrity(base)
  BY DEF Diffing, Comparable
<1>3. Len(ops) \in Nat /\ Batch(ops) /\ EachOnce(ops, Len(ops))
  BY <1>1, <1>2, DiffIsBatch
<1>4. ops = withAuthoritativeHistory(base, ops)
  BY <1>1, <1>2, DiffKnowsHistory
<1>5. target = applyOps(base, ops)
  BY <1>1, DiffApplies
<1>6. target # OpApplyError
  <2>1. PICK S : S = Differing(base, target)
    OBVIOUS
  <2>2. Moved(base, target, S) = target
    BY <1>2, <2>1, AllMoved
  <2> QED BY <2>2 DEF Diffing, NeverError
<1>7. applyOps(target, invertOps(ops)) = base
  BY <1>2, <1>3, <1>4, <1>5, <1>6, RollsBack
<1> QED BY <1>1, <1>7

(* A diff that lands on other rows than it was made for is logged so that  *)
(* the inverse of what was logged leads back to exactly those rows.        *)
THEOREM LoggedHistoryRollsBackAlways == DiffSpec => []LoggedHistoryRollsBack
<1>1. ASSUME ModelsInv PROVE LoggedHistoryRollsBack
  <2> SUFFICES ASSUME NEW rows \in Neighbours(diffBase), validateModelIntegrity(rows),
                      NEW result, result = applyOps(rows, diff), result # OpApplyError,
                      NEW logged, logged = withAuthoritativeHistory(rows, diff)
               PROVE  applyOps(rows, logged) = result /\ applyOps(result, invertOps(logged)) = rows
    BY DEF LoggedHistoryRollsBack
  <2>1. WellFormed(rows)
    BY <1>1, NeighbourOver, OverForm DEF ModelsInv
  <2>2. PICK ops : ops = diff
    OBVIOUS
  <2>3. Len(ops) \in Nat /\ Batch(ops) /\ EachOnce(ops, Len(ops))
    <3>1. Comparable(diffBase, diffTarget)
      BY <1>1, OverPair DEF ModelsInv
    <3> QED BY <2>2, <3>1, DiffIsBatch DEF diff
  <2>4. result = applyOps(rows, ops) /\ logged = withAuthoritativeHistory(rows, ops)
    BY <2>2
  <2>5. applyOps(rows, logged) = applyOps(rows, ops)
    BY <2>3, <2>4, RewriteApplies
  <2>6. applyOps(result, invertOps(logged)) = rows
    BY <2>1, <2>3, <2>4, RollsBack
  <2> QED BY <2>4, <2>5, <2>6
<1> QED BY <1>1, ModelsStayOver, PTL
=============================================================================
