---------------------------- MODULE MCModelEdits ----------------------------
(***************************************************************************)
(* Sessions that start from a chain of three tables, w -> u -> t, or from  *)
(* two tables whose foreign key is the child's whole key: with an index on *)
(* the foreign key, a group, a domain and a term in use.                   *)
(*                                                                         *)
(* Beside them, and with nothing in common: the import dialog, and the     *)
(* branches and their records.  At any time two of the three have not      *)
(* begun.                                                                  *)
(***************************************************************************)
EXTENDS ModelEdits, SmallSchemas

CONSTANTS First, MaxLeft, MaxRight, TrunkNames
VARIABLES trunk, left, right, branchEdits, merged

branchVars == <<trunk, left, right, branchEdits, merged>>
Branches == INSTANCE MCChangesets WITH edits <- branchEdits

Column(t, order, pk, name, d) ==
    [tableId |-> t, order |-> order, isPk |-> pk, name |-> name, domainId |-> d]
Relates(child, parent, x) == [parentTableId |-> parent, childTableId |-> child, identifying |-> FALSE,
                              columnMappings |-> {x}]

(* t(1) has key 11 and column 12; u(2) has key 21 and foreign key 22.      *)
Two(fkIsKey) ==
    <<"table", 1>> :> [groupId |-> 5, name |-> 1] @@ <<"table", 2>> :> [groupId |-> None, name |-> 2]
    @@ <<"column", 11>> :> Column(1, 0, TRUE, 1, None) @@ <<"column", 12>> :> Column(1, 1, FALSE, 2, None)
    @@ <<"column", 21>> :> Column(2, 0, ~ fkIsKey, 3, 6) @@ <<"column", 22>> :> Column(2, 1, fkIsKey, 1, None)
    @@ <<"relationship", 8>> :> Relates(2, 1, [child |-> 22, parent |-> 11])
    @@ <<"tableGroup", 5>> :> [data |-> 1] @@ <<"domain", 6>> :> [data |-> 1]
    @@ <<"term", 7>> :> [name |-> 1, domainId |-> IF fkIsKey THEN 6 ELSE None]
    @@ <<"index", 9>> :> [tableId |-> 2, columns |-> {22}]

(* A third table whose foreign key refers to u's.                          *)
Chain == Two(TRUE) @@ <<"table", 3>> :> [groupId |-> None, name |-> 3]
         @@ <<"column", 31>> :> Column(3, 0, FALSE, 3, None)
         @@ <<"relationship", 4>> :> Relates(3, 2, [child |-> 31, parent |-> 22])

MCStarts == {Two(TRUE), Two(FALSE), Chain}
-----------------------------------------------------------------------------
NoEdits    == edits = 0 /\ plan = NoPlan /\ model = Two(TRUE)
NoBranches == branchEdits.l = 0 /\ trunk = Branches!Trunk(None)
NoImports  == stage = "closed" /\ exports = << >> /\ server = EmptyModel

InitAll ==
    /\ (ImportInit \/ ExportInit) /\ Init /\ Branches!Init
    /\ (NoEdits /\ NoBranches) \/ (NoEdits /\ NoImports) \/ (NoBranches /\ NoImports)
NextAll ==
    \/ NoBranches /\ NoImports /\ Next /\ UNCHANGED <<branchVars, importVars>>
    \/ NoEdits /\ NoImports /\ Branches!Next /\ UNCHANGED <<vars, importVars>>
    \/ NoEdits /\ NoBranches /\ ImportNext /\ UNCHANGED <<vars, branchVars>>
SpecAll == InitAll /\ [][NextAll]_<<vars, branchVars, importVars>>
-----------------------------------------------------------------------------
(* The branches' properties, see MCChangesets.                             *)
SelfCheckHolds      == Branches!SelfCheckHolds
BaselineIsWhole     == Branches!BaselineIsWhole
ChangesOfBothArrive == Branches!ChangesOfBothArrive
NamesFreeInOrder    == Branches!NamesFreeInOrder
=============================================================================
