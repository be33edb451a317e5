---------------------------- MODULE MCFileStore ----------------------------
(* A project as pull leaves it: tables formatted by hand, no layout.       *)
EXTENDS FileStore, TLC

Contents == {"a", "b", "hand", "no ids", "id1", "broken", "absent"}
Meanings == {"a", "b", "no ids", "id1"}
Models == [tables : Meanings, layout : Meanings]
Edits == {[tables |-> t, layout |-> "a"] : t \in {"a", "b"}}
Meant(content) == CASE content = "hand" -> "a" [] content = "absent" -> "a" [] OTHER -> content
ParseIt(tree) ==
    IF Broken \in Range(tree) THEN Failure
    ELSE [tables |-> Meant(tree["tables"]), layout |-> Meant(tree["layout"])]
RenderIt(model) == [f \in File |-> IF f = "tables" THEN model.tables ELSE model.layout]
AssignIt(content) == IF content = "no ids" THEN {"id1"} ELSE {content}
Start0 == [f \in File |-> IF f = "tables" THEN "hand" ELSE "absent"]
Outside == {<<"tables", "no ids">>, <<"tables", "broken">>, <<"layout", "b">>}
NoModel == [tables |-> "none", layout |-> "none"]
=============================================================================
