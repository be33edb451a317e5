------------------------------ MODULE MCSharing -----------------------------
(***************************************************************************)
(* What people share: either the instance of ResourceLibrary or, beside an *)
(* empty project and no library, the instance of AccountLinks.             *)
(***************************************************************************)
EXTENDS MCResourceLibrary, MCAccountLinks

NoLibrary ==
    /\ items = << >> /\ nextItem = 1 /\ model = << >> /\ requests = << >> /\ file = None
    /\ at = [h \in Handlers |-> Idle] /\ written = {} /\ landed = << >>
    /\ flows = 0 /\ edits = 0

InitAll == (Init \/ NoLibrary) /\ LinksInit
NextAll ==
    \/ ~NoLibrary /\ Next /\ UNCHANGED linkVars
    \/ NoLibrary /\ LinksNext /\ UNCHANGED vars
SpecAll == InitAll /\ [][NextAll]_<<vars, linkVars>>
=============================================================================
