------------------------------- MODULE Naming -------------------------------
(***************************************************************************)
(* The naming rules of packages/core/naming.ts: how the dictionary turns a *)
(* logical name into a physical one and back, and what it suggests while a *)
(* name is being typed.                                                    *)
(*                                                                         *)
(* A name is a sequence of letters (numbers) up to case; Sep is the letter *)
(* '_'.  Names have no blanks around them.  words and terms are sequences: *)
(* the order of the record's entries, which decides between namesakes.     *)
(***************************************************************************)
EXTENDS Integers, SequencesExt

CONSTANTS NoWord,               \* a segment the dictionary does not know
          NoName,               \* restoring failed
          MaxCompletions,       \* MAX_COMPLETIONS
          MaxTermCompletions    \* MAX_TERM_COMPLETIONS

Sep == 0
Nothing == << >>

(* The non-empty tokens between separators.                                *)
Tokens(name) ==
    LET step(letter, tokens) ==
            IF letter = Sep THEN <<Nothing>> \o tokens ELSE <<(<<letter>> \o Head(tokens))>> \o Tail(tokens)
    IN  SelectSeq(FoldRight(step, name, <<Nothing>>), LAMBDA token : token # Nothing)

JoinedBy(separator, names) ==
    FoldLeft(LAMBDA joined, i : joined \o (IF separator /\ i > 1 THEN <<Sep>> ELSE Nothing) \o names[i],
             Nothing, [i \in DOMAIN names |-> i])

(* The first of items whose text is name, or NoWord.                       *)
FirstNamed(items, textOf(_), name) ==
    LET hits == SelectSeq(items, LAMBDA item : textOf(item) = name)
    IN  IF hits = << >> THEN NoWord ELSE Head(hits)

(***************************************************************************)
(* Greedy decomposition: at each place the longest entry that fits, the    *)
(* first of equal ones; what no entry covers is gathered into segments     *)
(* without a word.                                                         *)
(***************************************************************************)
FitsAt(text, name, i) ==
    text # Nothing /\ i + Len(text) - 1 <= Len(name) /\ SubSeq(name, i, i + Len(text) - 1) = text

BestAt(entries, name, i) ==
    LET fitting == SelectSeq(entries, LAMBDA e : FitsAt(e.text, name, i))
        longest == SelectSeq(fitting, LAMBDA e : \A x \in Range(fitting) : Len(x.text) <= Len(e.text))
    IN  IF fitting = << >> THEN NoWord ELSE Head(longest)

Greedy(name, entries) ==
    LET from[i \in 1..Len(name) + 1] ==
          IF i > Len(name) THEN << >>
          ELSE LET best == BestAt(entries, name, i)
                   rest == from[i + 1]
               IN  IF best # NoWord THEN <<best>> \o from[i + Len(best.text)]
                   ELSE IF rest # << >> /\ Head(rest).word = NoWord
                   THEN <<[text |-> <<name[i]>> \o Head(rest).text, word |-> NoWord]>> \o Tail(rest)
                   ELSE <<[text |-> <<name[i]>>, word |-> NoWord]>> \o rest
    IN  from[1]

greedyDecompose(name, words) ==
    Greedy(name, [i \in DOMAIN words |-> [text |-> words[i].logicalName, word |-> words[i]]])

(* With a separator a token that is a word is that word, whatever is in it. *)
decomposeByWords(name, words, rules) ==
    IF ~ rules.logicalSeparator \/ Sep \notin Range(name) THEN greedyDecompose(name, words)
    ELSE LET ofToken(token) ==
                LET hit == FirstNamed(words, LAMBDA w : w.logicalName, token)
                IN  IF hit # NoWord THEN <<[text |-> token, word |-> hit]>> ELSE greedyDecompose(token, words)
             tokens == Tokens(name)
         IN  FlattenSeq([i \in DOMAIN tokens |-> ofToken(tokens[i])])

stripLogicalSeparator(name, rules) ==
    IF rules.logicalSeparator THEN SelectSeq(name, LAMBDA letter : letter # Sep) ELSE name

TextsOf(segments) == [i \in DOMAIN segments |-> segments[i].text]
withLogicalSeparator(name, words, rules) ==
    LET bare == stripLogicalSeparator(name, rules)
    IN  IF ~ rules.logicalSeparator \/ bare = Nothing THEN name
        ELSE JoinedBy(TRUE, TextsOf(decomposeByWords(bare, words, rules)))

(* Mutated form: boundaries written into a name hide its term.             *)
findTermByLogicalName_Exact(name, terms, rules) == FirstNamed(terms, LAMBDA t : t.logicalName, name)

findTermByLogicalName(name, terms, rules) ==
    FirstNamed(terms, LAMBDA t : stripLogicalSeparator(t.logicalName, rules), stripLogicalSeparator(name, rules))

(***************************************************************************)
(* Logical to physical, and back.                                          *)
(***************************************************************************)
Known(segments)   == SelectSeq(segments, LAMBDA s : s.word # NoWord)
Unknown(segments) == TextsOf(SelectSeq(segments, LAMBDA s : s.word = NoWord))

generatePhysicalName(name, words, terms, rules) ==
    LET term == findTermByLogicalName(name, terms, rules)
        segments == decomposeByWords(name, words, rules)
        parts == Known(segments)
    IN  IF term # NoWord THEN [physicalName |-> term.physicalName, unknownWords |-> << >>]
        ELSE [physicalName |-> JoinedBy(rules.separator, [i \in DOMAIN parts |-> parts[i].word.abbreviation]),
              unknownWords |-> Unknown(segments)]

(* One entry per abbreviation: the word with the smallest id.              *)
abbreviationIndex(words) ==
    LET ofAbbreviation(a) == {w \in Range(words) : w.abbreviation = a}
        entry(a) == [text |-> a, word |-> CHOOSE w \in ofAbbreviation(a) : \A v \in ofAbbreviation(a) : w.id <= v.id]
    IN  SetToSeq({entry(a) : a \in {w.abbreviation : w \in Range(words)} \ {Nothing}})

restoreLogicalName(name, words, terms, rules) ==
    LET term == FirstNamed(terms, LAMBDA t : t.physicalName, name)
        entries == abbreviationIndex(words)
        token(t) == FirstNamed(entries, LAMBDA e : e.text, t)
        tokens == Tokens(name)
        segments == IF rules.separator
                    THEN [i \in DOMAIN tokens |-> IF token(tokens[i]) = NoWord THEN [text |-> tokens[i], word |-> NoWord]
                                                  ELSE token(tokens[i])]
                    ELSE Greedy(name, entries)
        failed == [logicalName |-> NoName, unknownTokens |-> Unknown(segments)]
    IN  IF name # Nothing /\ term # NoWord
        THEN [logicalName |-> withLogicalSeparator(term.logicalName, words, rules), unknownTokens |-> << >>]
        ELSE IF segments = << >> \/ Unknown(segments) # << >> THEN failed
        ELSE [logicalName |-> JoinedBy(rules.logicalSeparator,
                                       [i \in DOMAIN segments |-> segments[i].word.logicalName]),
              unknownTokens |-> << >>]

(***************************************************************************)
(* Completions: terms for the whole input, words for the tail the          *)
(* dictionary does not cover yet.                                          *)
(***************************************************************************)
TailToken(name) ==
    LET tokens == Tokens(name) IN IF name = Nothing \/ Last(name) = Sep THEN Nothing ELSE Last(tokens)

logicalQuery(input, words, rules) ==
    LET segments == decomposeByWords(input, words, rules)
        tail == TailToken(input)
    IN  IF rules.logicalSeparator
        THEN IF FirstNamed(words, LAMBDA w : w.logicalName, tail) # NoWord THEN Nothing ELSE tail
        ELSE IF segments # << >> /\ Last(segments).word = NoWord THEN Last(segments).text ELSE Nothing

physicalQuery(input, words, rules) ==
    LET segments == Greedy(input, abbreviationIndex(words))
    IN  IF rules.separator THEN TailToken(input)
        ELSE IF segments # << >> /\ Last(segments).word = NoWord THEN Last(segments).text ELSE Nothing

Lesser(m, n) == IF m <= n THEN m ELSE n
ProperPrefix(a, b) == IsPrefix(a, b) /\ a # b
Before(a, b) ==
    \/ Len(a) < Len(b)
    \/ Len(a) = Len(b) /\ \E i \in DOMAIN a : a[i] < b[i] /\ SubSeq(a, 1, i - 1) = SubSeq(b, 1, i - 1)
Sorted(names) == SetToSortSeq(names \ {Nothing}, Before)

(* What the input becomes with each suggestion, terms first.               *)
suggestCompletions(input, side, words, terms, rules) ==
    LET logical == side = "logical"
        query == IF logical THEN logicalQuery(input, words, rules) ELSE physicalQuery(input, words, rules)
        probe == IF logical THEN stripLogicalSeparator(input, rules) ELSE input
        termText(t) == IF logical THEN stripLogicalSeparator(t.logicalName, rules) ELSE t.physicalName
        termInsert(t) == IF logical THEN withLogicalSeparator(t.logicalName, words, rules) ELSE t.physicalName
        wordText(w) == IF logical THEN w.logicalName ELSE w.abbreviation
        kept == SubSeq(input, 1, Len(input) - Len(query))
        ofTerms == Sorted({termInsert(t) : t \in {t \in Range(terms) : ProperPrefix(probe, termText(t))}})
        ofWords == Sorted({wordText(w) : w \in {w \in Range(words) : query # Nothing /\ ProperPrefix(query, wordText(w))}})
        all == SubSeq(ofTerms, 1, Lesser(Len(ofTerms), MaxTermCompletions))
               \o [i \in DOMAIN ofWords |-> kept \o ofWords[i]]
    IN  IF input = Nothing THEN << >> ELSE SubSeq(all, 1, Lesser(Len(all), MaxCompletions))
=============================================================================
