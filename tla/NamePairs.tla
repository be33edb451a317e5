------------------------------ MODULE NamePairs ------------------------------
(***************************************************************************)
(* The two name fields of a table (apps/web editor/name-pair.tsx): what a  *)
(* field shows is a draft until it is committed, each side can be made     *)
(* from the other, and meanwhile edits wait for their turn, are refused,   *)
(* or a peer changes the names.                                            *)
(*                                                                         *)
(* A handler sees the names, the draft and the words of the render it was  *)
(* made in.  The one handler that runs later is what a blur leaves to a    *)
(* timer: it keeps what it saw.  The timer waits for no time, so it runs   *)
(* before the user does anything else; edits, answers and peers may come   *)
(* first.                                                                  *)
(***************************************************************************)
EXTENDS Naming

CONSTANTS FirstNames,   \* the pairs of names a session may start from
          Dictionaries, \* the words it may start with
          TypedNames,   \* per side: what the user may type
          PeerNames,    \* per side: what a peer may set
          NewWord,      \* the word the user may register
          PairTerms,
          PairRules,
          MaxActs,      \* bound: what the user does
          MaxPeerSteps  \* bound: changes of peers and refusals
ASSUME PairsHaveSides == \A pair \in FirstNames : DOMAIN pair = {"logical", "physical"} /\ pair = [s \in DOMAIN pair |-> pair[s]]
ASSUME PairLimits == MaxActs \in Nat /\ MaxPeerSteps \in Nat
ASSUME NewWordIsAWord == NewWord # NoWord

VARIABLES names,    \* the names in the editor's model
          words,    \* its dictionary
          draft,    \* what the two fields show
          focus,    \* the field that has the focus
          timer,    \* the blur that waits for its turn
          chain,    \* edits that wait for theirs
          sending,  \* what the model was before the edit that is with the server
          acts, peerSteps,
          start,    \* history: the names before
          typed,    \* history: what the user put into a field, if its name has not changed since
          touched   \* history: the fields the user has changed

pairVars == <<names, words, draft, focus, timer, chain, sending, acts, peerSteps, start, typed, touched>>

Sides == {"logical", "physical"}
Other(side) == IF side = "logical" THEN "physical" ELSE "logical"
Idle == [names |-> NoName]
NoTimer == [side |-> "none"]
NoPatch == [s \in {} |-> Nothing]
Only(side, value) == [s \in {side} |-> value]
And(patch, side, value) == [s \in DOMAIN patch \cup {side} |-> IF s = side THEN value ELSE patch[s]]
Over(pair, patch) == [s \in Sides |-> IF s \in DOMAIN patch THEN patch[s] ELSE pair[s]]
Untyped == [s \in Sides |-> NoName]

PairInit ==
    /\ names \in FirstNames /\ start = names /\ draft = names /\ words \in Dictionaries
    /\ focus = "none" /\ timer = NoTimer /\ chain = << >> /\ sending = Idle
    /\ acts = 0 /\ peerSteps = 0 /\ typed = Untyped /\ touched = {}

(* What a side gives for the other one, if it gives anything.              *)
Made(side, value, dictionary) ==
    IF side = "logical"
    THEN LET made == generatePhysicalName(value, dictionary, PairTerms, PairRules).physicalName
         IN  IF made = Nothing THEN NoName ELSE made
    ELSE restoreLogicalName(value, dictionary, PairTerms, PairRules).logicalName

(***************************************************************************)
(* Committing.  seen is what the handler sees.                             *)
(***************************************************************************)
Seen == [names |-> names, draft |-> draft, words |-> words]

(* Mutated form: the other side's draft stays behind.                      *)
foldOtherDraft_Never(side, patch, seen) == patch

foldOtherDraft(side, patch, seen) ==
    LET o == Other(side)
    IN  IF o \notin DOMAIN patch /\ seen.draft[o] # seen.names[o] THEN And(patch, o, seen.draft[o]) ELSE patch

Untouched(side, value, seen) ==
    value = seen.names[side] /\ seen.draft[Other(side)] = seen.names[Other(side)]

(* Mutated form: leaving a field fills the other one as Enter does.        *)
Fills_Always(side, value, overwrite, seen) == value # Nothing

Fills(side, value, overwrite, seen) ==
    value # Nothing /\ (overwrite \/ seen.draft[Other(side)] = Nothing)

Queue(edit) == chain' = Append(chain, edit)
Commit(patch) ==
    /\ draft' = Over(draft, patch)
    /\ IF patch = NoPatch THEN UNCHANGED chain ELSE Queue([patch |-> patch, word |-> NoWord])

commitSide(side, value, overwrite, seen) ==
    IF Untouched(side, value, seen) THEN UNCHANGED <<draft, chain>>
    ELSE \E made \in {Made(side, value, seen.words)} :
            \E patch \in {IF Fills(side, value, overwrite, seen) /\ made # NoName
                          THEN And(Only(side, value), Other(side), made) ELSE Only(side, value)} :
                \E folded \in {foldOtherDraft(side, patch, seen)} : Commit(folded)

(***************************************************************************)
(* What the user does.                                                     *)
(***************************************************************************)
Act == timer = NoTimer /\ acts < MaxActs /\ acts' = acts + 1

Type(side) ==
    /\ focus = side /\ Act
    /\ \E value \in TypedNames[side] \ {draft[side]} :
          /\ draft' = [draft EXCEPT ![side] = value]
          /\ typed' = [typed EXCEPT ![side] = value]
    /\ touched' = touched \cup {side}
    /\ UNCHANGED <<names, words, focus, timer, chain, sending, peerSteps, start>>

(* A suggestion is taken: the field shows it and the other side follows.   *)
ApplyCompletion(side) ==
    /\ focus = side /\ Act
    /\ \E next \in Range(suggestCompletions(draft[side], side, words, PairTerms, PairRules)) :
        \E made \in {Made(side, next, words)} :
            LET shown == IF made = NoName THEN Only(side, next) ELSE And(Only(side, next), Other(side), made)
            IN  /\ draft' = Over(draft, shown) /\ typed' = Over(typed, shown)
                /\ touched' = touched \cup DOMAIN shown
    /\ UNCHANGED <<names, words, focus, timer, chain, sending, peerSteps, start>>

(* The focus comes to a field, or leaves it.                               *)
MoveFocus(to) ==
    /\ focus # to /\ focus' = to /\ timer = NoTimer
    /\ timer' = IF focus = "none" THEN NoTimer ELSE [side |-> focus, value |-> draft[focus], seen |-> Seen]
    /\ IF to = "none" THEN UNCHANGED acts ELSE Act
    /\ UNCHANGED <<names, words, draft, chain, sending, peerSteps, start, typed, touched>>

BlurFires ==
    /\ timer # NoTimer /\ timer' = NoTimer
    /\ commitSide(timer.side, timer.value, FALSE, timer.seen)
    /\ UNCHANGED <<names, words, focus, sending, acts, peerSteps, start, typed, touched>>

(* Enter, like the arrow beside a field, makes the other side from it.     *)
Overwrites(side) ==
    /\ touched' = touched \cup {Other(side)} /\ typed' = [typed EXCEPT ![Other(side)] = NoName]
    /\ UNCHANGED <<names, words, focus, timer, sending, peerSteps, start>>

Enter(side) == focus = side /\ Act /\ commitSide(side, draft[side], TRUE, Seen) /\ Overwrites(side)

fillOther(side) ==
    /\ Act /\ Overwrites(side)
    /\ \E made \in {Made(side, draft[side], words)} :
          LET after == And(Only(side, draft[side]), Other(side), made)
          IN  IF made = NoName THEN UNCHANGED <<draft, chain>>
              ELSE Commit([s \in {s \in Sides : after[s] # names[s]} |-> after[s]])

(* A word the names lack is registered; the same edit fills a side that    *)
(* was empty.                                                              *)
Lacking ==
    \/ NewWord.logicalName \in Range(generatePhysicalName(names.logical, words, PairTerms, PairRules).unknownWords)
    \/ NewWord.abbreviation \in Range(restoreLogicalName(names.physical, words, PairTerms, PairRules).unknownTokens)
Register(edit) == edit.word = NewWord
registerWord ==
    /\ Act /\ Lacking /\ \A i \in DOMAIN chain : ~ Register(chain[i])
    /\ Queue([patch |-> draft, word |-> NewWord])
    /\ UNCHANGED <<names, words, draft, focus, timer, sending, peerSteps, start, typed, touched>>

(***************************************************************************)
(* The model changes, and the draft with it.                               *)
(***************************************************************************)
(* Mutated form: both sides are matched with the model.                    *)
Matched_Both(side, new) == new[side]

(* Only the side that has changed.                                         *)
Matched(side, new) == IF new[side] # names[side] THEN new[side] ELSE draft[side]

Becomes(new) ==
    /\ names' = new /\ draft' = [s \in Sides |-> Matched(s, new)]
    /\ typed' = [s \in Sides |-> IF new[s] \in {names[s], typed[s]} THEN typed[s] ELSE NoName]

(* A registration carries the draft of its time.                           *)
Produced(edit, dictionary) ==
    LET from == IF edit.patch.physical = Nothing THEN "logical" ELSE "physical"
        made == Made(from, edit.patch[from], dictionary)
    IN  IF ~ Register(edit) THEN edit.patch
        ELSE IF edit.patch[from] = Nothing \/ edit.patch[Other(from)] # Nothing \/ made = NoName THEN NoPatch
        ELSE Only(Other(from), made)

EditsTurn ==
    /\ chain # << >> /\ sending = Idle /\ chain' = Tail(chain)
    /\ \E edit \in {Head(chain)} : \E dictionary \in {IF Register(edit) THEN Append(words, NewWord) ELSE words} :
       \E new \in {Over(names, Produced(edit, dictionary))} :
          /\ Becomes(new) /\ words' = dictionary
          /\ sending' = IF new = names /\ dictionary = words THEN Idle ELSE [names |-> names, words |-> words]
    /\ UNCHANGED <<focus, timer, acts, peerSteps, start, touched>>

Accepted ==
    /\ sending # Idle /\ sending' = Idle
    /\ UNCHANGED <<names, words, draft, focus, timer, chain, acts, peerSteps, start, typed, touched>>

PeerStep == peerSteps < MaxPeerSteps /\ peerSteps' = peerSteps + 1
Refused ==
    /\ sending # Idle /\ sending' = Idle /\ PeerStep
    /\ Becomes(sending.names) /\ words' = sending.words
    /\ UNCHANGED <<focus, timer, chain, acts, start, touched>>

PeerChanges ==
    /\ sending = Idle /\ PeerStep
    /\ \E s \in Sides : \E n \in PeerNames[s] \ {names[s]} : Becomes([names EXCEPT ![s] = n])
    /\ UNCHANGED <<words, focus, timer, chain, sending, acts, start, touched>>

PairNext ==
    \/ \E side \in Sides : Type(side) \/ ApplyCompletion(side) \/ Enter(side) \/ fillOther(side)
    \/ \E to \in Sides \cup {"none"} : MoveFocus(to)
    \/ BlurFires \/ registerWord \/ EditsTurn \/ Accepted \/ Refused \/ PeerChanges

PairSpec == PairInit /\ [][PairNext]_pairVars
-----------------------------------------------------------------------------
AtRest ==
    /\ focus = "none" /\ timer = NoTimer /\ chain = << >> /\ sending = Idle

(* Once the fields are left and every edit has had its turn, they show     *)
(* what is stored, and what the user put into one of them is stored unless *)
(* that very name was changed after it: nothing typed is lost to a change  *)
(* of the other side or stays on the screen alone (name-pair.tsx:66-72,    *)
(* 87-92, 125-128).                                                        *)
NothingTypedIsLost ==
    AtRest => /\ draft = names
              /\ \A s \in Sides : typed[s] \in {NoName, Nothing, names[s]}

(* A name that was there and that the user has left alone stays, as long   *)
(* as nobody else changes it, wherever the focus goes (D6:                 *)
(* name-pair.tsx:103-106, 122-124).                                        *)
HandSetKept ==
    peerSteps = 0 => \A s \in Sides \ touched : start[s] # Nothing => names[s] = start[s]

(* A name the dictionary knows every part of is made into a physical name  *)
(* that can be read back, and what is read makes the same physical name    *)
(* again: under every naming rule, when no two words share an abbreviation *)
(* and, where nothing separates abbreviations, none begins another         *)
(* (naming.ts:107-150, 244-330).                                           *)
ReadsBack(dictionary, rules) ==
    \A i, j \in DOMAIN dictionary :
        i # j => LET a == dictionary[i].abbreviation
                     b == dictionary[j].abbreviation
                 IN  IF rules.separator THEN a # b ELSE ~ IsPrefix(a, b)

NamesReadBack ==
    AtRest => \A rules \in [separator : BOOLEAN, logicalSeparator : BOOLEAN] :
        \A made \in {generatePhysicalName(names.logical, words, PairTerms, rules)} :
        \A read \in {restoreLogicalName(made.physicalName, words, PairTerms, rules).logicalName} :
            ReadsBack(words, rules) /\ made.unknownWords = Nothing /\ made.physicalName # Nothing =>
                read # NoName /\ generatePhysicalName(read, words, PairTerms, rules).physicalName = made.physicalName
=============================================================================
