----------------------------- MODULE MCModelOps -----------------------------
(***************************************************************************)
(* The instance of ModelPairs TLC checks: all the pairs of integral models *)
(* over a handful of entities.                                             *)
(*                                                                         *)
(* Beside it, and with nothing in common: the two name fields, and the     *)
(* dictionary's naming over every small dictionary.                        *)
(***************************************************************************)
EXTENDS ModelPairs, NamePairs

Table(g)        == [groupId |-> g, data |-> 1]
Column(t, d, v) == [tableId |-> t, domainId |-> d, data |-> v]
Relationship(p, c, m) == [parentTableId |-> p, childTableId |-> c, columnMappings |-> m, data |-> 1]
Index(t, cs)    == [tableId |-> t, columns |-> cs, data |-> 1]

(* Two tables (one may be grouped); one column that may sit in either and   *)
(* use a domain; one relationship, self-referencing when it maps the        *)
(* column; one index that may cover the column.                             *)
MCEntities ==
    [k \in {<<"tableGroup", "g">>, <<"domain", "d">>, <<"table", "t">>, <<"table", "u">>,
            <<"column", "c">>, <<"relationship", "r">>, <<"index", "i">>} |->
      CASE k[1] = "tableGroup"   -> {[data |-> 1]}
        [] k[1] = "domain"       -> {[data |-> 1]}
        [] k = <<"table", "t">>  -> {Table(None), Table("g")}
        [] k = <<"table", "u">>  -> {Table(None)}
        [] k[1] = "column"       -> {Column("t", None, 1), Column("t", "d", 2), Column("u", None, 1)}
        [] k[1] = "relationship" -> {Relationship("t", "u", {}),
                                     Relationship("t", "t", {[child |-> "c", parent |-> "c"]})}
        [] k[1] = "index"        -> {Index("t", {"c"})}]
-----------------------------------------------------------------------------
(* Letters 1..3 are Korean, 4..7 Latin.                                    *)
Word(id, l, a) == [id |-> id, logicalName |-> l, abbreviation |-> a]
NamesOf(l, p) == [logical |-> l, physical |-> p]
MCFirstNames == {NamesOf(<<>>, <<>>), NamesOf(<<1>>, <<4>>), NamesOf(<<1>>, <<>>), NamesOf(<<>>, <<5>>)}
MCTypedNames == [logical |-> {<<>>, <<1>>, <<1, 2>>}, physical |-> {<<>>, <<4>>, <<5>>}]
MCPeerNames == [logical |-> {<<3>>}, physical |-> {<<6>>}]
MCDictionaries == {<<Word(1, <<1>>, <<4>>)>>}
MCNewWord == Word(4, <<2>>, <<5>>)
MCTerms == <<[logicalName |-> <<1, Sep, 2>>, physicalName |-> <<7>>]>>
MCRules == [separator |-> TRUE, logicalSeparator |-> FALSE]

(* Two words and their compound, in every order and under every choice of  *)
(* abbreviations, and every name of up to three letters.                   *)
Abbreviations == {<<4>>, <<5>>, <<4, 5>>}
SmallDictionaries ==
    {[i \in 1..3 |-> Word(i, l[i], a[i])] :
        l \in SetToSeqs({<<1>>, <<2>>, <<1, 2>>}), a \in [1..3 -> Abbreviations]}
ReadingInit ==
    /\ names \in {NamesOf(n, Nothing) : n \in BoundedSeq({Sep, 1, 2}, 3)} /\ start = names /\ draft = names
    /\ words \in SmallDictionaries /\ acts = MaxActs /\ peerSteps = MaxPeerSteps
    /\ focus = "none" /\ timer = NoTimer /\ chain = << >> /\ sending = Idle /\ typed = Untyped /\ touched = {}

NamesInit == PairInit \/ ReadingInit
NoNaming == start = NamesOf(<<>>, <<>>) /\ names = start /\ acts = 0 /\ peerSteps = 0

Init == DiffInit /\ NamesInit
Next ==
    \/ NoNaming /\ (EditTarget \/ Settle) /\ UNCHANGED pairVars
    \/ DiffInit /\ PairNext /\ UNCHANGED diffVars
Spec == Init /\ [][Next]_<<diffVars, pairVars>>
=============================================================================
