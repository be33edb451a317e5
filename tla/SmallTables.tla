----------------------------- MODULE SmallTables ----------------------------
(***************************************************************************)
(* The instance of OpAlgebra the server and editor runs use, as tables of  *)
(* numbers: six models of two tables t and u (t can be renamed), and the   *)
(* batches that lead between them.  Small as it is, it has the ways a      *)
(* batch meets rows that moved under it: two edits that commute, create of *)
(* what exists, update and delete of what is gone, a stale "from", an edit *)
(* of two ops that is cut into two requests.                               *)
(*                                                                         *)
(* A model and a batch are named by their places in the lists of           *)
(* SmallModels, which checks every number below against ModelOps.  They    *)
(* are written out because TLC would walk the definitions of ModelOps      *)
(* again for every use of Apply, Diff or Persist in a specification.       *)
(***************************************************************************)
EXTENDS OpAlgebra, Integers, Sequences

(* Three instances: all of it; one table and its two names; two tables     *)
(* without a rename.  Each has the batches closed on its models, and the   *)
(* list is ordered so that they are intervals.                             *)
FullModel == 1..6
FullBatch == 1..26
RenameModel == {1, 2, 3}
RenameBatch == 1..8
PairModel == {1, 2, 4, 5}
PairBatch == 4..20

(* Per model (row) and batch (column); 0 where applyOps throws.            *)
ApplyTable ==
    << <<0, 0, 3, 0, 0, 0, 0, 2, 0, 0, 0, 0, 0, 0, 0, 0, 0, 5, 0, 4, 0, 0, 0, 6, 0, 0>>,
       <<3, 3, 0, 1, 1, 2, 2, 0, 0, 0, 0, 0, 4, 4, 5, 5, 0, 0, 0, 5, 0, 0, 0, 0, 6, 6>>,
       <<3, 3, 0, 1, 1, 2, 2, 0, 0, 0, 0, 0, 4, 4, 5, 5, 0, 0, 0, 6, 0, 0, 0, 0, 6, 6>>,
       <<0, 0, 6, 0, 0, 0, 0, 5, 0, 0, 0, 0, 0, 0, 0, 0, 2, 0, 1, 0, 0, 0, 3, 0, 0, 0>>,
       <<6, 6, 0, 4, 4, 5, 5, 0, 1, 1, 2, 2, 0, 0, 0, 0, 0, 0, 2, 0, 3, 3, 0, 0, 0, 0>>,
       <<6, 6, 0, 4, 4, 5, 5, 0, 1, 1, 2, 2, 0, 0, 0, 0, 0, 0, 3, 0, 3, 3, 0, 0, 0, 0>> >>

(* The same for persistOps: 0 where a statement fails.                     *)
PersistTable ==
    << <<1, 1, 3, 1, 1, 1, 1, 2, 1, 1, 1, 1, 4, 4, 4, 4, 2, 5, 1, 4, 1, 1, 3, 6, 4, 4>>,
       <<3, 3, 0, 1, 1, 2, 2, 0, 1, 1, 2, 2, 4, 4, 5, 5, 0, 0, 2, 5, 3, 3, 0, 0, 6, 6>>,
       <<3, 3, 0, 1, 1, 2, 2, 0, 1, 1, 2, 2, 4, 4, 5, 5, 0, 0, 3, 6, 3, 3, 0, 0, 6, 6>>,
       <<4, 4, 6, 4, 4, 4, 4, 5, 1, 1, 1, 1, 0, 0, 0, 0, 2, 0, 1, 0, 1, 1, 3, 0, 0, 0>>,
       <<6, 6, 0, 4, 4, 5, 5, 0, 1, 1, 2, 2, 0, 0, 0, 0, 0, 0, 2, 0, 3, 3, 0, 0, 0, 0>>,
       <<6, 6, 0, 4, 4, 5, 5, 0, 1, 1, 2, 2, 0, 0, 0, 0, 0, 0, 3, 0, 3, 3, 0, 0, 0, 0>> >>

(* Per model and batch: the batch the server logs.                         *)
RewriteTable ==
    << <<1, 2, 3, 4, 5, 6, 7, 8, 9, 10, 11, 12, 13, 14, 15, 16, 17, 18, 19, 20, 21, 22, 23, 24, 25, 26>>,
       <<2, 2, 3, 5, 5, 7, 7, 8, 10, 10, 12, 12, 14, 14, 16, 16, 17, 18, 19, 20, 22, 22, 23, 24, 26, 26>>,
       <<1, 1, 3, 4, 4, 6, 6, 8, 9, 9, 11, 11, 13, 13, 15, 15, 17, 18, 19, 20, 21, 21, 23, 24, 25, 25>>,
       <<1, 2, 3, 4, 5, 6, 7, 8, 9, 10, 11, 12, 13, 14, 15, 16, 17, 18, 19, 20, 21, 22, 23, 24, 25, 26>>,
       <<2, 2, 3, 5, 5, 7, 7, 8, 10, 10, 12, 12, 14, 14, 16, 16, 17, 18, 19, 20, 22, 22, 23, 24, 26, 26>>,
       <<1, 1, 3, 4, 4, 6, 6, 8, 9, 9, 11, 11, 13, 13, 15, 15, 17, 18, 19, 20, 21, 21, 23, 24, 25, 25>> >>

(* Per model and model: the batch from one to the other, 0 for none.       *)
DiffTable ==
    << <<0, 8, 3, 20, 18, 24>>,
       <<5, 0, 2, 14, 20, 26>>,
       <<4, 6, 0, 13, 15, 20>>,
       <<19, 17, 23, 0, 8, 3>>,
       <<10, 19, 22, 5, 0, 2>>,
       <<9, 11, 19, 4, 6, 0>> >>

(* Per batch: its inverse; its chunks of one op each.                      *)
InvertTable ==
    <<1, 6, 4, 3, 8, 2, 7, 5, 24, 18, 26, 16, 23, 17, 22, 12, 14, 10, 20, 19, 25, 15, 13, 9, 21, 11>>
ChunkTable ==
    << <<1>>, <<2>>, <<3>>, <<4>>, <<5>>, <<6>>, <<7>>, <<8>>, <<19, 4>>,
       <<19, 5>>, <<6, 19>>, <<7, 19>>, <<20, 4>>, <<20, 5>>, <<20, 6>>, <<20, 7>>, <<8, 19>>,
       <<8, 20>>, <<19>>, <<20>>, <<1, 19>>, <<2, 19>>, <<3, 19>>, <<3, 20>>, <<20, 1>>, <<20, 2>> >>

OrFailure(m) == IF m = 0 THEN Failure ELSE m

ApplyIt(m, b)   == OrFailure(ApplyTable[m][b])
PersistIt(m, b) == OrFailure(PersistTable[m][b])
RewriteIt(m, b) == RewriteTable[m][b]
DiffIt(m, n)    == DiffTable[m][n]
InvertIt(b)     == InvertTable[b]
ChunkIt(b)      == ChunkTable[b]
=============================================================================
