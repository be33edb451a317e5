------------------------------ MODULE MCCliSync -----------------------------
(***************************************************************************)
(* The instance of CliSync TLC checks: a table with a column, a group it   *)
(* may join, an index on the column, two words that may come from the same *)
(* shared entry, a note.                                                   *)
(***************************************************************************)
EXTENDS CliSync

TableOf(group, name) == [groupId |-> group, data |-> name, position |-> "here"]
Word(origin) == [data |-> 1, origin |-> origin]

MCStart ==
    [k \in {<<"table", "t">>, <<"column", "c">>, <<"word", "w">>, <<"note", "n">>} |->
        CASE k[1] = "table"  -> TableOf(None, 1)
          [] k[1] = "column" -> [tableId |-> "t", domainId |-> None, data |-> 1]
          [] k[1] = "word"   -> Word(None)
          [] k[1] = "note"   -> [data |-> 1]]

Values ==
    [k \in {<<"tableGroup", "g">>, <<"table", "t">>, <<"column", "c">>, <<"index", "i">>,
            <<"word", "v">>, <<"word", "w">>} |->
        CASE k[1] = "tableGroup" -> {[data |-> 1]}
          [] k[1] = "table"      -> {TableOf(None, 1), TableOf("g", 1), TableOf(None, 2)}
          [] k[1] = "column"     -> {[tableId |-> "t", domainId |-> None, data |-> 1]}
          [] k[1] = "index"      -> {[tableId |-> "t", columns |-> {"c"}, data |-> 1]}
          [] k[1] = "word"       -> {Word(None), Word("o")}]

(* One entity written or dropped, or a table dropped with its parts; the   *)
(* model stays integral.                                                   *)
MCEdits(model) ==
    {m \in {With(model, k, e) : <<k, e>> \in UNION {{<<k, e>> : e \in Values[k]} : k \in DOMAIN Values}}
           \cup {Without(model, k) : k \in DOMAIN Values \cap DOMAIN model}
           \cup {[k \in {key \in DOMAIN model : FileOf(key, model[key]) # "t"} |-> model[k]]} :
       m # model /\ validateModelIntegrity(m)}

MCNewIds == <<"n1", "n2", "n3", "n4", "n5">>
MCNewTable == [groupId |-> None, data |-> 3, position |-> NoPlace]
=============================================================================
