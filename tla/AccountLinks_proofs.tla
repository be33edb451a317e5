------------------------ MODULE AccountLinks_proofs -------------------------
(***************************************************************************)
(* Proofs about AccountLinks, for any emails, links, handlers and number   *)
(* of requests.                                                            *)
(*                                                                         *)
(* None of the invariants the run checks is inductive by itself.  The      *)
(* strengthening LinksInv says what a handler may rely on between two      *)
(* statements: that the account it is about to commit is still nobody's    *)
(* and claimed by no other handler (the unique email), that the link it    *)
(* read has its email and purpose, and that every earlier link a reissue   *)
(* saw and does not expire is used.                                        *)
(***************************************************************************)
EXTENDS AccountLinks, FiniteSetTheorems, TLAPS

Submitting == {"accepting", "joining", "resetting", "replacing"}
Flows ==
    {Free}
    \cup [does : {"issuing"}, purpose : Purposes, email : Emails]
    \cup [does : {"expiring"}, purpose : Purposes, email : Emails, saw : SUBSET Links]
    \cup [does : {"inserting"}, purpose : Purposes, email : Emails, kills : SUBSET Links, saw : SUBSET Links]
    \cup [does : Submitting, link : Links, email : Emails]
    \cup [does : {"changing"}, email : Emails \cup {Absent}, role : Roles \cup {Absent}, owners : SUBSET Emails]
FlowsInv == doing \in [LinkHandlers -> Flows]

(* A link that was not issued has done nothing, and no row knows of it.    *)
IssuedInv ==
    /\ \A l \in Links : l \notin Issued => effects[l] = 0
    /\ \A e \in Emails : HasAccount(e) /\ accounts[e].from # Absent => accounts[e].from \in Issued
    /\ \A l \in Issued : links[l].saw \subseteq Issued

(* What a submission has read of its link.                                 *)
Carries(f) ==
    f.does \in Submitting =>
        /\ f.link \in Issued /\ links[f.link].email = f.email
        /\ links[f.link].purpose = "reset" <=> f.does \in {"resetting", "replacing"}
CarriesInv == \A h \in LinkHandlers : Carries(doing[h])

(* A claimed email has no account, and one handler claims it.              *)
Claims(f, e) == f.does \in {"joining", "replacing"} /\ f.email = e
ClaimInv ==
    \A h \in LinkHandlers : doing[h].does = "joining" =>
        /\ ~HasAccount(doing[h].email)
        /\ \A g \in LinkHandlers : g # h => ~Claims(doing[g], doing[h].email)

(* A reissue expires every link of its batch it saw that is not used.      *)
WholeBatch(f) ==
    /\ f.does \in {"expiring", "inserting"} => f.saw \subseteq Issued
    /\ f.does = "inserting" =>
        /\ f.kills \subseteq Issued
        /\ \A l \in f.saw : links[l].purpose = f.purpose /\ links[l].email = f.email =>
              l \in f.kills \/ links[l].used
BatchInv == \A h \in LinkHandlers : WholeBatch(doing[h])

LinksInv ==
    /\ LinkTypeOK /\ FlowsInv /\ IssuedInv /\ CarriesInv /\ ClaimInv /\ BatchInv
    /\ UsedOnce /\ UsedMeansAccount /\ ReissueKillsEarlier
-----------------------------------------------------------------------------
LEMMA RowTypes ==
  ASSUME LinkTypeOK
  PROVE  /\ \A l \in Issued : links[l] \in LinkRows
         /\ \A e \in Emails : HasAccount(e) => accounts[e] \in AccountRows
  BY DEF LinkTypeOK, Issued, HasAccount

LEMMA FlowTypes ==
  ASSUME FlowsInv, NEW h \in LinkHandlers
  PROVE  /\ doing[h].does \in Submitting => doing[h].link \in Links /\ doing[h].email \in Emails
         /\ doing[h].does \in {"issuing", "expiring", "inserting"} =>
               doing[h].purpose \in Purposes /\ doing[h].email \in Emails
         /\ doing[h].does \in {"expiring", "inserting"} => doing[h].saw \subseteq Links
         /\ doing[h].does = "inserting" => doing[h].kills \subseteq Links
         /\ doing[h].does = "changing" =>
               doing[h].email \in Emails \cup {Absent} /\ doing[h].role \in Roles \cup {Absent} /\ doing[h].owners \subseteq Emails
<1>1. doing[h] \in Flows
  BY DEF FlowsInv
<1> QED BY <1>1 DEF Flows, Submitting, Free

THEOREM InitLinks == LinksInit => LinksInv
<1> SUFFICES ASSUME LinksInit PROVE LinksInv
  OBVIOUS
<1>1. Issued = {} /\ \A e \in Emails : ~HasAccount(e)
  BY DEF LinksInit, Issued, HasAccount
<1>2. \A h \in LinkHandlers : doing[h] = Free /\ doing[h].does = "nothing"
  BY DEF LinksInit, Free
<1>3. LinkTypeOK
  BY <1>1, <1>2, FlowsAreBounded DEF LinksInit, LinkTypeOK
<1>4. FlowsInv
  BY DEF LinksInit, FlowsInv, Flows
<1>5. IssuedInv
  BY <1>1 DEF LinksInit, IssuedInv
<1>6. CarriesInv /\ ClaimInv /\ BatchInv
  BY <1>2 DEF CarriesInv, Carries, ClaimInv, BatchInv, WholeBatch, Submitting
<1>7. UsedOnce /\ UsedMeansAccount /\ ReissueKillsEarlier
  BY <1>1 DEF UsedOnce, UsedMeansAccount, ReissueKillsEarlier
<1> QED BY <1>3, <1>4, <1>5, <1>6, <1>7 DEF LinksInv
-----------------------------------------------------------------------------
(* Nothing that was said of the rows depends on the handlers.              *)
LEMMA RowsStay ==
  ASSUME LinksInv, UNCHANGED <<accounts, links, effects>>
  PROVE  /\ Issued' = Issued
         /\ IssuedInv' /\ UsedOnce' /\ UsedMeansAccount' /\ ReissueKillsEarlier'
<1>1. Issued' = Issued
  BY DEF Issued
<1>2. IssuedInv'
  BY <1>1 DEF LinksInv, IssuedInv, HasAccount
<1>3. UsedOnce' /\ UsedMeansAccount'
  BY <1>1 DEF LinksInv, UsedOnce, UsedMeansAccount, HasAccount
<1>4. ReissueKillsEarlier'
  BY <1>1 DEF LinksInv, ReissueKillsEarlier, Unused
<1> QED BY <1>1, <1>2, <1>3, <1>4

(* A step of one handler that writes no row keeps the invariant if its new *)
(* flow says nothing false.                                                *)
LEMMA HandlerMoves ==
  ASSUME LinksInv, UNCHANGED <<accounts, links, members, effects>>, linkFlows' \in Nat,
         NEW h \in LinkHandlers, NEW f \in Flows, doing' = [doing EXCEPT ![h] = f],
         Carries(f), WholeBatch(f),
         f.does = "joining" => ~HasAccount(f.email),
         f.does \in {"joining", "replacing"} => \A g \in LinkHandlers : g # h => ~Claims(doing[g], f.email)
  PROVE  LinksInv'
<1>1. Issued' = Issued /\ IssuedInv' /\ UsedOnce' /\ UsedMeansAccount' /\ ReissueKillsEarlier'
  BY RowsStay
<1>2. /\ \A g \in LinkHandlers : doing'[g] = IF g = h THEN f ELSE doing[g]
      /\ FlowsInv'
  BY DEF LinksInv, FlowsInv
<1>3. CarriesInv' /\ BatchInv'
  BY <1>1, <1>2 DEF LinksInv, CarriesInv, Carries, BatchInv, WholeBatch
<1>4. ClaimInv'
  BY <1>2 DEF LinksInv, ClaimInv, Claims, HasAccount
<1>5. LinkTypeOK'
  BY <1>1, <1>2, <1>3 DEF LinksInv, LinkTypeOK, BatchInv, CarriesInv, Carries, WholeBatch, Submitting
<1> QED BY <1>1, <1>2, <1>3, <1>4, <1>5 DEF LinksInv

(* A link that stays, with its email and purpose, and used once it is,     *)
(* keeps what the handlers know of it.                                     *)
OldLinks ==
    \A l \in Issued : /\ l \in Issued' /\ links'[l].purpose = links[l].purpose
                      /\ links'[l].email = links[l].email /\ (links[l].used => links'[l].used)
LEMMA OldLinksKnown ==
  ASSUME OldLinks, NEW f PROVE (Carries(f) => Carries(f)') /\ (WholeBatch(f) => WholeBatch(f)')
<1>1. Carries(f) => Carries(f)'
  BY DEF OldLinks, Carries
<1>2. WholeBatch(f) => WholeBatch(f)'
  BY DEF OldLinks, WholeBatch
<1> QED BY <1>1, <1>2

LEMMA IdleSaysNothing == Free \in Flows /\ Free.does = "nothing" /\ Carries(Free) /\ WholeBatch(Free)
  BY DEF Free, Flows, Carries, WholeBatch, Submitting
-----------------------------------------------------------------------------
(* The steps that write no row.                                            *)
LEMMA IssueKeeps == ASSUME LinksInv, NEW h \in LinkHandlers, Issue(h) PROVE LinksInv'
<1>1. PICK e \in Emails, purpose \in Purposes : Begin(h, [does |-> "issuing", purpose |-> purpose, email |-> e], MaxLinkFlows)
  BY DEF Issue
<1> DEFINE f == [does |-> "issuing", purpose |-> purpose, email |-> e]
<1>2. f \in Flows /\ f.does = "issuing" /\ Carries(f) /\ WholeBatch(f)
  BY DEF Flows, Carries, WholeBatch, Submitting
<1>3. linkFlows' \in Nat
  BY <1>1, FlowsAreBounded DEF Begin, LinksInv, LinkTypeOK
<1> HIDE DEF f
<1>4. doing' = [doing EXCEPT ![h] = f] /\ UNCHANGED <<accounts, links, members, effects>>
  BY <1>1 DEF f, Begin, Issue
<1> QED BY <1>2, <1>3, <1>4, HandlerMoves

LEMMA SeeOlderKeeps == ASSUME LinksInv, NEW h \in LinkHandlers, SeeOlder(h) PROVE LinksInv'
<1> DEFINE f == [does |-> "expiring", purpose |-> doing[h].purpose, email |-> doing[h].email, saw |-> Issued]
<1>1. doing[h].purpose \in Purposes /\ doing[h].email \in Emails
  BY FlowTypes DEF LinksInv, SeeOlder
<1>2. f \in Flows
  BY <1>1 DEF Flows, Issued
<1>3. f.does = "expiring" /\ Carries(f) /\ WholeBatch(f)
  BY DEF Carries, Submitting, WholeBatch
<1> HIDE DEF f
<1>4. doing' = [doing EXCEPT ![h] = f] /\ UNCHANGED <<accounts, links, members, effects, linkFlows>>
  BY DEF f, SeeOlder
<1> QED BY <1>2, <1>3, <1>4, HandlerMoves DEF LinksInv, LinkTypeOK

LEMMA KillOlderKeeps == ASSUME LinksInv, NEW h \in LinkHandlers, KillOlder(h) PROVE LinksInv'
<1> DEFINE f == [does |-> "inserting", purpose |-> doing[h].purpose, email |-> doing[h].email,
                 kills |-> Older(h), saw |-> doing[h].saw]
<1>1. doing[h].purpose \in Purposes /\ doing[h].email \in Emails /\ doing[h].does = "expiring"
  BY FlowTypes DEF LinksInv, KillOlder
<1>2. doing[h].saw \subseteq Issued
  BY <1>1 DEF LinksInv, BatchInv, WholeBatch
<1>3. f \in Flows
  BY <1>1, <1>2 DEF Flows, Older, Batch, Issued
<1>4. f.does = "inserting" /\ Carries(f)
  BY DEF Carries, Submitting
<1>5. WholeBatch(f)
  BY <1>2 DEF WholeBatch, Older, Batch, Unused
<1> HIDE DEF f
<1>6. doing' = [doing EXCEPT ![h] = f] /\ UNCHANGED <<accounts, links, members, effects, linkFlows>>
  BY DEF f, KillOlder
<1> QED BY <1>3, <1>4, <1>5, <1>6, HandlerMoves DEF LinksInv, LinkTypeOK

LEMMA FindLiveKeeps == ASSUME LinksInv, NEW h \in LinkHandlers, FindLive(h) PROVE LinksInv'
<1>1. PICK l \in Issued : Begin(h, [does |-> IF links[l].purpose = "reset" THEN "resetting" ELSE "accepting",
                                    link |-> l, email |-> links[l].email], MaxLinkFlows)
  BY DEF FindLive
<1> DEFINE f == [does |-> IF links[l].purpose = "reset" THEN "resetting" ELSE "accepting",
                 link |-> l, email |-> links[l].email]
<1>2. links[l] \in LinkRows
  BY RowTypes DEF LinksInv
<1>3. f \in Flows /\ f.does \in {"accepting", "resetting"}
  BY <1>2 DEF Flows, LinkRows, Submitting, Issued
<1>4. Carries(f) /\ WholeBatch(f)
  BY DEF Carries, WholeBatch
<1>5. linkFlows' \in Nat
  BY <1>1, FlowsAreBounded DEF Begin, LinksInv, LinkTypeOK
<1> HIDE DEF f
<1>6. doing' = [doing EXCEPT ![h] = f] /\ UNCHANGED <<accounts, links, members, effects>>
  BY <1>1 DEF f, Begin, FindLive
<1> QED BY <1>3, <1>4, <1>5, <1>6, HandlerMoves

LEMMA CrashKeeps ==
  ASSUME LinksInv, NEW h \in LinkHandlers, Finish(h), UNCHANGED <<accounts, links, members, effects, linkFlows>>
  PROVE  LinksInv'
<1>1. doing' = [doing EXCEPT ![h] = Free] /\ linkFlows' \in Nat
  BY DEF Finish, LinksInv, LinkTypeOK
<1> QED BY <1>1, IdleSaysNothing, HandlerMoves

(* A handler claims an email when no other does.                           *)
LEMMA ClaimKeeps ==
  ASSUME LinksInv, NEW h \in LinkHandlers, NEW d \in {"joining", "replacing"},
         doing[h].does = IF d = "joining" THEN "accepting" ELSE "resetting",
         ~EmailClaimed(doing[h].email), d = "joining" => ~HasAccount(doing[h].email),
         doing' = [doing EXCEPT ![h] = [does |-> d, link |-> doing[h].link, email |-> doing[h].email]],
         UNCHANGED <<accounts, links, members, effects, linkFlows>>
  PROVE  LinksInv'
<1> DEFINE f == [does |-> d, link |-> doing[h].link, email |-> doing[h].email]
<1>1. f.does = d /\ f.email = doing[h].email /\ f \in Flows
  BY FlowTypes DEF LinksInv, Flows, Submitting
<1>2. Carries(f) /\ WholeBatch(f)
  BY DEF LinksInv, CarriesInv, Carries, WholeBatch, Submitting
<1>3. \A g \in LinkHandlers : ~Claims(doing[g], doing[h].email)
  BY DEF EmailClaimed, Claims
<1>4. linkFlows' \in Nat
  BY DEF LinksInv, LinkTypeOK
<1> HIDE DEF f
<1>5. doing' = [doing EXCEPT ![h] = f]
  BY DEF f
<1> QED BY <1>1, <1>2, <1>3, <1>4, <1>5, HandlerMoves

LEMMA CreateAccountKeeps == ASSUME LinksInv, NEW h \in LinkHandlers, CreateAccount(h) PROVE LinksInv'
<1>1. CASE HasAccount(doing[h].email)
  BY <1>1, CrashKeeps DEF CreateAccount
<1>2. CASE ~HasAccount(doing[h].email)
  BY <1>2, ClaimKeeps DEF CreateAccount
<1> QED BY <1>1, <1>2

LEMMA SetPasswordKeeps == ASSUME LinksInv, NEW h \in LinkHandlers, SetPassword(h) PROVE LinksInv'
  BY ClaimKeeps DEF SetPassword

LEMMA CheckMemberKeeps == ASSUME LinksInv, NEW h \in LinkHandlers, CheckMember(h) PROVE LinksInv'
<1>1. PICK e \in Emails, role \in Roles \cup {Absent} :
          Begin(h, [does |-> "changing", email |-> e, role |-> role, owners |-> Owners], MaxAllFlows)
  BY DEF CheckMember
<1> DEFINE f == [does |-> "changing", email |-> e, role |-> role, owners |-> Owners]
<1>2. f \in Flows /\ f.does = "changing" /\ Carries(f) /\ WholeBatch(f)
  BY DEF Flows, Owners, Carries, WholeBatch, Submitting
<1>3. linkFlows' \in Nat
  BY <1>1, FlowsAreBounded DEF Begin, LinksInv, LinkTypeOK
<1> HIDE DEF f
<1>4. doing' = [doing EXCEPT ![h] = f] /\ UNCHANGED <<accounts, links, members, effects>>
  BY <1>1 DEF f, Begin, CheckMember
<1> QED BY <1>2, <1>3, <1>4, HandlerMoves
-----------------------------------------------------------------------------
(* The steps on the rows of accounts and members.                          *)
LEMMA BootstrapKeeps == ASSUME LinksInv, NEW e \in Emails, Bootstrap(e) PROVE LinksInv'
<1>1. /\ accounts'[e].from = Absent
      /\ \A d \in Emails : d # e => accounts'[d] = accounts[d]
  BY DEF Bootstrap, LinksInv, LinkTypeOK
<1>2. LinkTypeOK'
  BY DEF Bootstrap, LinksInv, LinkTypeOK, Issued, AccountRows, Roles
<1>3. IssuedInv'
  BY <1>1 DEF Bootstrap, LinksInv, IssuedInv, Issued, HasAccount
<1>4. CarriesInv' /\ BatchInv' /\ FlowsInv'
  BY DEF Bootstrap, LinksInv, CarriesInv, Carries, BatchInv, WholeBatch, Issued, FlowsInv
<1>5. ClaimInv'
  <2>1. \A h \in LinkHandlers : doing[h].does = "joining" => doing[h].email \in Emails \ {e}
    BY FlowTypes DEF Bootstrap, EmailClaimed, LinksInv, Submitting
  <2> QED BY <1>1, <2>1 DEF Bootstrap, LinksInv, ClaimInv, HasAccount
<1>6. UsedOnce' /\ ReissueKillsEarlier'
  BY DEF Bootstrap, LinksInv, UsedOnce, ReissueKillsEarlier, Issued, Unused
<1>7. UsedMeansAccount'
  BY <1>1, RowTypes DEF Bootstrap, LinksInv, UsedMeansAccount, Issued, HasAccount, LinkRows
<1> QED BY <1>2, <1>3, <1>4, <1>5, <1>6, <1>7 DEF LinksInv

LEMMA SetActiveKeeps == ASSUME LinksInv, NEW e \in Emails, SetActive(e) PROVE LinksInv'
<1>1. accounts[e] \in AccountRows
  BY RowTypes DEF SetActive, LinksInv
<1>2. /\ accounts'[e] \in AccountRows /\ accounts'[e].from = accounts[e].from
      /\ \A d \in Emails : d # e => accounts'[d] = accounts[d]
  BY <1>1 DEF SetActive, LinksInv, LinkTypeOK, AccountRows
<1>3. /\ LinkTypeOK'
      /\ \A d \in Emails : HasAccount(d)' <=> HasAccount(d)
  BY <1>1, <1>2, AbsentIsNoRow DEF SetActive, LinksInv, LinkTypeOK, Issued, HasAccount
<1>4. IssuedInv' /\ UsedMeansAccount'
  BY <1>2, <1>3, RowTypes DEF SetActive, LinksInv, IssuedInv, UsedMeansAccount, Issued, LinkRows
<1>5. CarriesInv' /\ BatchInv' /\ FlowsInv'
  BY DEF SetActive, LinksInv, CarriesInv, Carries, BatchInv, WholeBatch, Issued, FlowsInv
<1>6. ClaimInv'
  BY <1>3, FlowTypes DEF SetActive, LinksInv, ClaimInv, Submitting
<1>7. UsedOnce' /\ ReissueKillsEarlier'
  BY DEF SetActive, LinksInv, UsedOnce, ReissueKillsEarlier, Issued, Unused
<1> QED BY <1>3, <1>4, <1>5, <1>6, <1>7 DEF LinksInv

LEMMA AddMemberKeeps == ASSUME LinksInv, AddMember PROVE LinksInv'
<1>1. members' \in [Emails -> {Absent} \cup Roles] /\ UNCHANGED <<accounts, links, doing, effects, linkFlows>>
  BY DEF AddMember, LinksInv, LinkTypeOK, Roles
<1>2. Issued' = Issued /\ IssuedInv' /\ UsedOnce' /\ UsedMeansAccount' /\ ReissueKillsEarlier'
  BY <1>1, RowsStay
<1>3. LinkTypeOK' /\ FlowsInv' /\ CarriesInv' /\ ClaimInv' /\ BatchInv'
  BY <1>1, <1>2 DEF LinksInv, LinkTypeOK, FlowsInv, CarriesInv, Carries, ClaimInv, Claims, HasAccount,
                    BatchInv, WholeBatch
<1> QED BY <1>2, <1>3 DEF LinksInv

(* Other changes of a member that is removed miss from now on: they are    *)
(* still changes.                                                          *)
LEMMA WriteMemberKeeps == ASSUME LinksInv, NEW h \in LinkHandlers, WriteMember(h) PROVE LinksInv'
<1>1. doing[h].role \in Roles \cup {Absent}
  BY FlowTypes DEF LinksInv, WriteMember
<1>2. members' \in [Emails -> {Absent} \cup Roles]
  BY <1>1 DEF LinksInv, LinkTypeOK, WriteMember
<1>3. \A g \in LinkHandlers :
        /\ doing'[g] \in Flows
        /\ doing'[g] = doing[g] \/ doing'[g].does \in {"nothing", "changing"}
  <2> SUFFICES ASSUME NEW g \in LinkHandlers
               PROVE  doing'[g] \in Flows /\ (doing'[g] = doing[g] \/ doing'[g].does \in {"nothing", "changing"})
    OBVIOUS
  <2>1. CASE doing'[g] = Free
    BY <2>1, IdleSaysNothing
  <2>2. CASE doing'[g] = doing[g]
    BY <2>2 DEF LinksInv, FlowsInv
  <2>3. CASE doing'[g] = [doing[g] EXCEPT !.email = Absent] /\ doing[g].does = "changing"
    <3>1. doing[g] \in [does : {"changing"}, email : Emails \cup {Absent}, role : Roles \cup {Absent},
                     owners : SUBSET Emails]
      BY <2>3 DEF LinksInv, FlowsInv, Flows, Free, Submitting
    <3> QED BY <2>3, <3>1 DEF Flows
  <2> QED BY <2>1, <2>2, <2>3 DEF WriteMember, Changes
<1>4. FlowsInv'
  BY <1>3 DEF FlowsInv, WriteMember
<1>5. Issued' = Issued /\ IssuedInv' /\ UsedOnce' /\ UsedMeansAccount' /\ ReissueKillsEarlier'
  BY RowsStay DEF WriteMember
<1>6. CarriesInv' /\ BatchInv'
  <2> SUFFICES ASSUME NEW g \in LinkHandlers PROVE Carries(doing[g])' /\ WholeBatch(doing[g])'
    BY DEF CarriesInv, BatchInv
  <2>1. CASE doing'[g] = doing[g]
    <3>1. Carries(doing[g]) /\ WholeBatch(doing[g]) /\ links' = links
      BY DEF WriteMember, LinksInv, CarriesInv, BatchInv
    <3>2. Carries(doing[g])'
      BY <1>5, <2>1, <3>1 DEF Carries
    <3>3. WholeBatch(doing[g])'
      BY <1>5, <2>1, <3>1 DEF WholeBatch
    <3> QED BY <3>2, <3>3
  <2>2. CASE doing'[g].does \in {"nothing", "changing"}
    BY <2>2 DEF Carries, WholeBatch, Submitting
  <2> QED BY <1>3, <2>1, <2>2
<1>7. ClaimInv'
  <2> SUFFICES ASSUME NEW k \in LinkHandlers, doing'[k].does = "joining"
               PROVE  /\ ~HasAccount(doing[k].email)'
                      /\ \A g \in LinkHandlers : g # k => ~Claims(doing[g], doing[k].email)'
    BY DEF ClaimInv
  <2>1. doing'[k] = doing[k]
    BY <1>3
  <2>2. ~HasAccount(doing[k].email)'
    BY <2>1 DEF WriteMember, LinksInv, ClaimInv, HasAccount
  <2>3. ASSUME NEW g \in LinkHandlers, g # k PROVE ~Claims(doing[g], doing[k].email)'
    <3>1. CASE doing'[g] = doing[g]
      BY <2>1, <2>3, <3>1 DEF LinksInv, ClaimInv, Claims
    <3>2. CASE doing'[g].does \in {"nothing", "changing"}
      BY <3>2 DEF Claims
    <3> QED BY <1>3, <3>1, <3>2
  <2> QED BY <2>2, <2>3
<1>8. LinkTypeOK'
  BY <1>2, <1>5, <1>6 DEF WriteMember, LinksInv, LinkTypeOK, CarriesInv, Carries, BatchInv, WholeBatch,
                          Submitting
<1> QED BY <1>4, <1>5, <1>6, <1>7, <1>8 DEF LinksInv
-----------------------------------------------------------------------------
(* The steps on the rows of links.                                         *)
LEMMA ExpiredIsALink ==
  ASSUME NEW link \in LinkRows
  PROVE  /\ Expired(link) \in LinkRows /\ Expired(link).purpose = link.purpose /\ Expired(link).email = link.email
         /\ ~Expired(link).live /\ Expired(link).used = link.used /\ Expired(link).saw = link.saw
  BY DEF Expired, LinkRows

(* A step after which the other handlers are where they were and one is    *)
(* idle keeps what is said of the handlers.                                *)
LEMMA OneEnds ==
  ASSUME LinksInv, NEW h \in LinkHandlers, Finish(h), OldLinks,
         \A e \in Emails : HasAccount(e)' => HasAccount(e) \/ (Claims(doing[h], e) /\ doing[h].does = "joining")
  PROVE  FlowsInv' /\ CarriesInv' /\ ClaimInv' /\ BatchInv'
<1>1. /\ FlowsInv'
      /\ doing'[h] = Free /\ \A g \in LinkHandlers : g # h => doing'[g] = doing[g]
  BY IdleSaysNothing DEF LinksInv, FlowsInv, Finish
<1>2. CarriesInv' /\ BatchInv'
  <2> SUFFICES ASSUME NEW g \in LinkHandlers PROVE Carries(doing[g])' /\ WholeBatch(doing[g])'
    BY DEF CarriesInv, BatchInv
  <2>1. CASE g = h
    BY <1>1, <2>1 DEF Carries, WholeBatch, Submitting, Free
  <2>2. CASE g # h
    <3>1. Carries(doing[g]) /\ WholeBatch(doing[g]) /\ doing'[g] = doing[g]
      BY <1>1, <2>2 DEF LinksInv, CarriesInv, BatchInv
    <3>2. Carries(doing[g])'
      BY <3>1 DEF OldLinks, Carries
    <3>3. WholeBatch(doing[g])'
      BY <3>1 DEF OldLinks, WholeBatch
    <3> QED BY <3>2, <3>3
  <2> QED BY <2>1, <2>2
<1>3. ClaimInv'
  <2> SUFFICES ASSUME NEW k \in LinkHandlers, doing'[k].does = "joining"
               PROVE  /\ ~HasAccount(doing[k].email)'
                      /\ \A g \in LinkHandlers : g # k => ~Claims(doing[g], doing[k].email)'
    BY DEF ClaimInv
  <2>1. k # h /\ doing'[k] = doing[k] /\ doing[k].email \in Emails
    BY <1>1, FlowTypes DEF Free, Submitting, LinksInv
  <2>2. ~HasAccount(doing[k].email) /\ \A g \in LinkHandlers : g # k => ~Claims(doing[g], doing[k].email)
    BY <2>1 DEF LinksInv, ClaimInv
  <2>3. ~HasAccount(doing[k].email)'
    <3>1. ASSUME NEW e \in Emails, e = doing[k].email PROVE ~HasAccount(e)'
      BY <2>1, <2>2, <3>1
    <3>2. doing'[k].email = doing[k].email
      BY <2>1
    <3> QED BY <2>1, <3>1, <3>2 DEF HasAccount
  <2>4. ASSUME NEW g \in LinkHandlers, g # k PROVE ~Claims(doing[g], doing[k].email)'
    BY <1>1, <2>1, <2>2, <2>4 DEF Claims, Free
  <2> QED BY <2>3, <2>4
<1> QED BY <1>1, <1>2, <1>3

(* What the handlers' part gives the types.                                *)
LEMMA TypesFollow ==
  ASSUME CarriesInv', BatchInv',
         accounts' \in [Emails -> {Absent} \cup AccountRows], links' \in [Links -> {Absent} \cup LinkRows],
         members' \in [Emails -> {Absent} \cup Roles], effects' \in [Links -> Nat], linkFlows' \in Nat
  PROVE  LinkTypeOK'
  BY DEF LinkTypeOK, CarriesInv, Carries, BatchInv, WholeBatch, Submitting

LEMMA InsertLinkKeeps == ASSUME LinksInv, NEW h \in LinkHandlers, InsertLink(h) PROVE LinksInv'
<1> DEFINE row == [purpose |-> doing[h].purpose, email |-> doing[h].email, live |-> TRUE, used |-> FALSE,
                   saw |-> doing[h].saw]
<1>1. PICK new \in Links \ Issued :
          links' = [l \in Links |-> IF l = new THEN row
                                    ELSE IF l \in doing[h].kills THEN Expired(links[l]) ELSE links[l]]
  <2>1. \E l \in Links : l \notin Issued
    BY DEF InsertLink, Issued
  <2>2. NextLink \in Links \ Issued
    BY <2>1 DEF NextLink
  <2> QED BY <2>2 DEF InsertLink
<1>0. UNCHANGED <<accounts, members, effects, linkFlows>> /\ Finish(h)
  BY DEF InsertLink
<1>2. doing[h].purpose \in Purposes /\ doing[h].email \in Emails /\ doing[h].kills \subseteq Issued /\ doing[h].saw \subseteq Issued
  BY FlowTypes DEF InsertLink, LinksInv, BatchInv, WholeBatch
<1>3. row \in LinkRows /\ row # Absent
  <2>1. doing[h].saw \in SUBSET Links
    BY <1>2 DEF Issued
  <2>2. row \in LinkRows
    BY <1>2, <2>1 DEF LinkRows
  <2> QED BY <2>2, AbsentIsNoRow
<1>4. \A l \in Issued : /\ links[l] \in LinkRows /\ links'[l] \in LinkRows
                        /\ links'[l].purpose = links[l].purpose /\ links'[l].email = links[l].email
                        /\ links'[l].used = links[l].used /\ links'[l].saw = links[l].saw
                        /\ links'[l].live => links[l].live /\ l \notin doing[h].kills
  BY <1>1, RowTypes, ExpiredIsALink DEF LinksInv, Issued
<1>5. Issued' = Issued \cup {new} /\ links'[new] = row
  BY <1>1, <1>2, <1>3, <1>4, AbsentIsNoRow DEF Issued
<1> HIDE DEF row
<1>6. OldLinks
  BY <1>4, <1>5 DEF OldLinks
<1>7. FlowsInv' /\ CarriesInv' /\ ClaimInv' /\ BatchInv'
  <2>1. \A e \in Emails : HasAccount(e)' => HasAccount(e) \/ (Claims(doing[h], e) /\ doing[h].does = "joining")
    BY <1>0 DEF HasAccount
  <2> QED BY <1>0, <1>6, <2>1, OneEnds
<1>8. LinkTypeOK'
  <2>1. links' \in [Links -> {Absent} \cup LinkRows]
    BY <1>1, <1>3, <1>4, <1>5 DEF Issued
  <2> QED BY <1>0, <1>7, <2>1, TypesFollow DEF LinksInv, LinkTypeOK
<1>9. IssuedInv'
  <2>1. row.saw \subseteq Issued
    BY <1>2 DEF row
  <2> QED BY <1>0, <1>4, <1>5, <2>1 DEF LinksInv, IssuedInv, HasAccount
<1>10. UsedOnce'
  <2>1. effects'[new] = 0 /\ ~links'[new].used
    BY <1>0, <1>5 DEF row, LinksInv, IssuedInv
  <2>2. \A l \in Issued : effects'[l] = IF links'[l].used THEN 1 ELSE 0
    BY <1>0, <1>4 DEF LinksInv, UsedOnce
  <2> QED BY <1>5, <2>1, <2>2 DEF UsedOnce
<1>11. UsedMeansAccount'
  <2>1. ~links'[new].used /\ accounts' = accounts
    BY <1>0, <1>5 DEF row
  <2>2. ASSUME NEW l \in Issued', links'[l].used, links'[l].purpose \in Invitations
        PROVE  HasAccount(links[l].email)' /\ accounts'[links'[l].email].from = l
    BY <1>4, <1>5, <2>1, <2>2 DEF LinksInv, UsedMeansAccount, HasAccount
  <2>3. ASSUME NEW e \in Emails, HasAccount(e)', accounts'[e].from # Absent
        PROVE  links'[accounts'[e].from].used /\ links'[accounts'[e].from].email = e
    BY <1>4, <2>1, <2>3 DEF LinksInv, UsedMeansAccount, IssuedInv, HasAccount
  <2> QED BY <2>2, <2>3 DEF UsedMeansAccount, HasAccount
<1>12. ReissueKillsEarlier'
  <2> SUFFICES ASSUME NEW l \in Issued', NEW m \in Issued', Unused(l)', links'[l].live, Unused(m)', links'[m].live,
                      links'[l].purpose = links'[m].purpose, links'[l].email = links'[m].email
               PROVE  l \notin links'[m].saw
    BY DEF ReissueKillsEarlier
  <2>1. CASE m \in Issued /\ l \in Issued
    BY <1>4, <2>1 DEF LinksInv, ReissueKillsEarlier, Unused
  <2>2. CASE m \in Issued /\ l = new
    BY <1>4, <2>2 DEF LinksInv, IssuedInv
  <2>3. CASE m = new
    <3>1. /\ row.purpose = doing[h].purpose /\ row.email = doing[h].email /\ row.saw = doing[h].saw
          /\ doing[h].saw \subseteq Issued
      BY <1>2 DEF row
    <3> SUFFICES ASSUME l \in doing[h].saw PROVE FALSE
      BY <1>5, <2>3, <3>1
    <3>2. l \in Issued /\ links[l].purpose = doing[h].purpose /\ links[l].email = doing[h].email
      BY <1>4, <1>5, <2>3, <3>1
    <3>3. l \in doing[h].kills \/ links[l].used
      BY <3>2 DEF LinksInv, BatchInv, WholeBatch, InsertLink
    <3> QED BY <1>4, <3>2, <3>3 DEF Unused
  <2> QED BY <1>5, <2>1, <2>2, <2>3
<1> QED BY <1>7, <1>8, <1>9, <1>10, <1>11, <1>12 DEF LinksInv

LEMMA RevokeKeeps == ASSUME LinksInv, NEW l \in Links, Revoke(l) PROVE LinksInv'
<1>1. l \in Issued /\ links[l] \in LinkRows /\ UNCHANGED <<accounts, members, doing, effects, linkFlows>>
  BY RowTypes DEF Revoke, Unused, LinksInv
<1>2. /\ links'[l] = Expired(links[l]) /\ links'[l] \in LinkRows /\ ~links'[l].live
      /\ \A m \in Links : m # l => links'[m] = links[m]
  BY <1>1, ExpiredIsALink DEF Revoke, LinksInv, LinkTypeOK
<1>3. Issued' = Issued
  BY <1>1, <1>2, AbsentIsNoRow DEF Issued
<1>4. \A m \in Issued : /\ links'[m].purpose = links[m].purpose /\ links'[m].email = links[m].email
                        /\ links'[m].used = links[m].used /\ links'[m].saw = links[m].saw
                        /\ links'[m].live => links[m].live
  BY <1>1, <1>2, ExpiredIsALink DEF Issued
<1>5. OldLinks
  BY <1>3, <1>4 DEF OldLinks
<1>6. CarriesInv' /\ BatchInv'
  <2> SUFFICES ASSUME NEW g \in LinkHandlers PROVE Carries(doing[g])' /\ WholeBatch(doing[g])'
    BY DEF CarriesInv, BatchInv
  <2>1. Carries(doing[g]) /\ WholeBatch(doing[g]) /\ doing'[g] = doing[g]
    BY <1>1 DEF LinksInv, CarriesInv, BatchInv
  <2>2. Carries(doing[g])'
    BY <1>5, <2>1 DEF OldLinks, Carries
  <2>3. WholeBatch(doing[g])'
    BY <1>5, <2>1 DEF OldLinks, WholeBatch
  <2> QED BY <2>2, <2>3
<1>7. LinkTypeOK'
  <2>1. links' \in [Links -> {Absent} \cup LinkRows]
    BY <1>2 DEF Revoke, LinksInv, LinkTypeOK
  <2> QED BY <1>1, <1>6, <2>1, TypesFollow DEF LinksInv, LinkTypeOK
<1>8. FlowsInv' /\ ClaimInv'
  BY <1>1 DEF LinksInv, FlowsInv, ClaimInv, Claims, HasAccount
<1>9. IssuedInv' /\ UsedOnce'
  BY <1>1, <1>3, <1>4 DEF LinksInv, IssuedInv, UsedOnce, HasAccount
<1>10. UsedMeansAccount'
  BY <1>1, <1>3, <1>4 DEF LinksInv, IssuedInv, UsedMeansAccount, HasAccount
<1>11. ReissueKillsEarlier'
  BY <1>3, <1>4 DEF LinksInv, ReissueKillsEarlier, Unused
<1> QED BY <1>6, <1>7, <1>8, <1>9, <1>10, <1>11 DEF LinksInv

LEMMA UsedIsALink ==
  ASSUME NEW link \in LinkRows, NEW row, row = [link EXCEPT !.used = TRUE]
  PROVE  /\ row \in LinkRows /\ row.used
         /\ row.purpose = link.purpose /\ row.email = link.email /\ row.saw = link.saw
  BY DEF LinkRows

(* A link is consumed: it takes its one effect.                            *)
LEMMA ConsumeKeeps ==
  ASSUME LinksInv, NEW h \in LinkHandlers, doing[h].does \in {"joining", "replacing"}, ~links[doing[h].link].used,
         links' = [links EXCEPT ![doing[h].link].used = TRUE],
         effects' = [effects EXCEPT ![doing[h].link] = @ + 1]
  PROVE  /\ Issued' = Issued /\ OldLinks /\ links' \in [Links -> {Absent} \cup LinkRows]
         /\ effects' \in [Links -> Nat]
         /\ links'[doing[h].link].used
         /\ \A l \in Issued : l # doing[h].link => links'[l] = links[l]
         /\ UsedOnce' /\ ReissueKillsEarlier'
         /\ \A l \in Links : l \notin Issued => effects'[l] = 0
         /\ \A l \in Issued : links'[l].saw = links[l].saw
<1> DEFINE k == doing[h].link
<1>1. k \in Issued /\ k \in Links /\ links[k] \in LinkRows
  BY RowTypes DEF LinksInv, CarriesInv, Carries, Submitting, Issued
<1>2. /\ links'[k] = [links[k] EXCEPT !.used = TRUE]
      /\ \A l \in Links : l # k => links'[l] = links[l] /\ effects'[l] = effects[l]
      /\ effects'[k] = effects[k] + 1
  BY <1>1 DEF LinksInv, LinkTypeOK
<1>3. links'[k] \in LinkRows /\ links'[k] # Absent /\ links'[k].used
      /\ links'[k].purpose = links[k].purpose /\ links'[k].email = links[k].email /\ links'[k].saw = links[k].saw
  BY <1>1, <1>2, UsedIsALink, AbsentIsNoRow
<1> HIDE DEF k
<1>4. Issued' = Issued
  BY <1>1, <1>2, <1>3 DEF Issued
<1>5. OldLinks
  BY <1>1, <1>2, <1>3, <1>4 DEF OldLinks, Issued
<1>6. links' \in [Links -> {Absent} \cup LinkRows] /\ effects' \in [Links -> Nat]
  BY <1>1, <1>2, <1>3 DEF LinksInv, LinkTypeOK
<1>7. UsedOnce'
  <2>1. effects[k] = 0
    BY <1>1 DEF k, LinksInv, UsedOnce
  <2>2. effects'[k] = 1
    BY <1>2, <2>1
  <2> QED BY <1>2, <1>3, <1>4, <2>2 DEF LinksInv, UsedOnce, Issued
<1>8. ReissueKillsEarlier'
  BY <1>2, <1>3, <1>4 DEF LinksInv, ReissueKillsEarlier, Unused, Issued
<1>9. \A l \in Links : l \notin Issued => effects'[l] = 0
  BY <1>1, <1>2 DEF LinksInv, IssuedInv
<1>10. \A l \in Issued : links'[l].saw = links[l].saw /\ (l # k => links'[l] = links[l])
  BY <1>2, <1>3 DEF Issued
<1> QED BY <1>3, <1>4, <1>5, <1>6, <1>7, <1>8, <1>9, <1>10 DEF k

LEMMA AcceptKeeps == ASSUME LinksInv, NEW h \in LinkHandlers, Accept(h) PROVE LinksInv'
<1> DEFINE k == doing[h].link
           email == doing[h].email
<1>1. CASE ~Consumable(k)
  BY <1>1, CrashKeeps DEF Accept
<1>2. CASE Consumable(k)
  <2>1. /\ doing[h].does = "joining" /\ Finish(h) /\ linkFlows' = linkFlows
        /\ accounts' = [accounts EXCEPT ![email] = Joined(k)]
        /\ members' = IF links[k].purpose = "team" THEN [members EXCEPT ![email] = "member"] ELSE members
        /\ links' = [links EXCEPT ![k].used = TRUE] /\ effects' = [effects EXCEPT ![k] = @ + 1]
    BY <1>2 DEF Accept
  <2>2. /\ k \in Issued /\ k \in Links /\ email \in Emails /\ links[k].email = email
        /\ links[k] \in LinkRows /\ links[k].purpose # "reset" /\ ~HasAccount(email) /\ ~links[k].used
    BY <1>2, <2>1, RowTypes, FlowTypes
       DEF LinksInv, CarriesInv, Carries, ClaimInv, Submitting, Issued, Consumable
  <2>3. Joined(k) \in AccountRows /\ Joined(k).from = k /\ Joined(k) # Absent
    <3>1. Joined(k) \in AccountRows /\ Joined(k).from = k
      BY <2>2 DEF Joined, AccountRows
    <3> QED BY <3>1, AbsentIsNoRow
  <2> HIDE DEF k, email
  <2>4. /\ accounts'[email] = Joined(k) /\ \A e \in Emails : e # email => accounts'[e] = accounts[e]
        /\ accounts' \in [Emails -> {Absent} \cup AccountRows]
    BY <2>1, <2>2, <2>3 DEF LinksInv, LinkTypeOK
  <2>5. /\ Issued' = Issued /\ OldLinks /\ links' \in [Links -> {Absent} \cup LinkRows]
        /\ effects' \in [Links -> Nat]
        /\ links'[k].used
        /\ \A l \in Issued : l # k => links'[l] = links[l]
        /\ UsedOnce' /\ ReissueKillsEarlier'
        /\ \A l \in Links : l \notin Issued => effects'[l] = 0
        /\ \A l \in Issued : links'[l].saw = links[l].saw
    BY <2>1, <2>2, ConsumeKeeps DEF k
  <2>6. FlowsInv' /\ CarriesInv' /\ ClaimInv' /\ BatchInv'
    <3>1. \A e \in Emails : HasAccount(e)' => HasAccount(e) \/ (Claims(doing[h], e) /\ doing[h].does = "joining")
      BY <2>1, <2>4 DEF HasAccount, Claims, email
    <3> QED BY <2>1, <2>5, <3>1, OneEnds
  <2>7. LinkTypeOK'
    <3>1. members' \in [Emails -> {Absent} \cup Roles]
      BY <2>1, <2>2 DEF LinksInv, LinkTypeOK, Roles
    <3> QED BY <2>1, <2>4, <2>5, <2>6, <3>1, TypesFollow DEF LinksInv, LinkTypeOK
  <2>8. IssuedInv'
    <3>1. ASSUME NEW e \in Emails, HasAccount(e)', accounts'[e].from # Absent PROVE accounts'[e].from \in Issued
      BY <2>2, <2>3, <2>4, <3>1 DEF LinksInv, IssuedInv, HasAccount
    <3> QED BY <2>5, <3>1 DEF LinksInv, IssuedInv, HasAccount
  <2>9. UsedMeansAccount'
    <3>1. /\ links'[k].email = email /\ k \in Issued'
      BY <2>2, <2>5 DEF OldLinks
    <3>2. ASSUME NEW l \in Issued', links'[l].used, links'[l].purpose \in Invitations
          PROVE  HasAccount(links[l].email)' /\ accounts'[links'[l].email].from = l
      <4>1. CASE l = k
        BY <2>3, <2>4, <3>1, <4>1 DEF HasAccount
      <4>2. CASE l # k
        <5>1. links'[l] = links[l] /\ HasAccount(links[l].email) /\ accounts[links[l].email].from = l
          BY <2>5, <3>2, <4>2 DEF LinksInv, UsedMeansAccount
        <5>2. links[l].email \in Emails /\ links[l].email # email
          BY <2>2, <2>5, <5>1, RowTypes DEF LinksInv, LinkRows
        <5> QED BY <2>4, <5>1, <5>2 DEF HasAccount
      <4> QED BY <4>1, <4>2
    <3>3. ASSUME NEW e \in Emails, HasAccount(e)', accounts'[e].from # Absent
          PROVE  links'[accounts'[e].from].used /\ links'[accounts'[e].from].email = e
      <4>1. CASE e = email
        BY <2>3, <2>4, <2>5, <3>1, <4>1
      <4>2. CASE e # email
        BY <2>4, <2>5, <3>3, <4>2 DEF LinksInv, UsedMeansAccount, IssuedInv, OldLinks, HasAccount
      <4> QED BY <4>1, <4>2
    <3> QED BY <3>2, <3>3 DEF UsedMeansAccount, HasAccount
  <2> QED BY <2>5, <2>6, <2>7, <2>8, <2>9 DEF LinksInv
<1> QED BY <1>1, <1>2

LEMMA ResetPasswordKeeps == ASSUME LinksInv, NEW h \in LinkHandlers, ResetPassword(h) PROVE LinksInv'
<1> DEFINE k == doing[h].link
<1>1. CASE ~Consumable(k)
  BY <1>1, CrashKeeps DEF ResetPassword
<1>2. CASE Consumable(k)
  <2>1. /\ doing[h].does = "replacing" /\ Finish(h) /\ UNCHANGED <<accounts, members, linkFlows>>
        /\ links' = [links EXCEPT ![k].used = TRUE] /\ effects' = [effects EXCEPT ![k] = @ + 1]
    BY <1>2 DEF ResetPassword
  <2>2. k \in Issued /\ links[k] \in LinkRows /\ links[k].purpose = "reset" /\ ~links[k].used
    BY <1>2, <2>1, RowTypes DEF LinksInv, CarriesInv, Carries, Submitting, Consumable
  <2> HIDE DEF k
  <2>3. /\ Issued' = Issued /\ OldLinks /\ links' \in [Links -> {Absent} \cup LinkRows]
        /\ effects' \in [Links -> Nat]
        /\ \A l \in Issued : l # k => links'[l] = links[l]
        /\ UsedOnce' /\ ReissueKillsEarlier'
        /\ \A l \in Links : l \notin Issued => effects'[l] = 0
        /\ \A l \in Issued : links'[l].saw = links[l].saw
    BY <2>1, <2>2, ConsumeKeeps DEF k
  <2>4. FlowsInv' /\ CarriesInv' /\ ClaimInv' /\ BatchInv'
    <3>1. \A e \in Emails : HasAccount(e)' => HasAccount(e) \/ (Claims(doing[h], e) /\ doing[h].does = "joining")
      BY <2>1 DEF HasAccount
    <3> QED BY <2>1, <2>3, <3>1, OneEnds
  <2>5. LinkTypeOK'
    BY <2>1, <2>3, <2>4, TypesFollow DEF LinksInv, LinkTypeOK
  <2>6. IssuedInv'
    BY <2>1, <2>3 DEF LinksInv, IssuedInv, HasAccount
  <2>7. UsedMeansAccount'
    <3>1. links'[k].purpose = "reset"
      BY <2>2, <2>3 DEF OldLinks
    <3>2. ASSUME NEW l \in Issued', links'[l].used, links'[l].purpose \in Invitations
          PROVE  HasAccount(links[l].email)' /\ accounts'[links'[l].email].from = l
      <4>1. l # k /\ links'[l] = links[l]
        BY <2>3, <3>1, <3>2 DEF Invitations
      <4> QED BY <2>1, <2>3, <3>2, <4>1 DEF LinksInv, UsedMeansAccount, HasAccount
    <3>3. ASSUME NEW e \in Emails, HasAccount(e)', accounts'[e].from # Absent
          PROVE  links'[accounts'[e].from].used /\ links'[accounts'[e].from].email = e
      BY <2>1, <2>3, <3>3 DEF LinksInv, UsedMeansAccount, IssuedInv, OldLinks, HasAccount
    <3> QED BY <3>2, <3>3 DEF UsedMeansAccount, HasAccount
  <2> QED BY <2>3, <2>4, <2>5, <2>6, <2>7 DEF LinksInv
<1> QED BY <1>1, <1>2
-----------------------------------------------------------------------------
LEMMA StutterKeeps == ASSUME LinksInv, UNCHANGED linkVars PROVE LinksInv'
<1>1. Issued' = Issued /\ IssuedInv' /\ UsedOnce' /\ UsedMeansAccount' /\ ReissueKillsEarlier'
  BY RowsStay DEF linkVars
<1>2. LinkTypeOK' /\ FlowsInv' /\ CarriesInv' /\ ClaimInv' /\ BatchInv'
  BY <1>1 DEF linkVars, LinksInv, LinkTypeOK, FlowsInv, CarriesInv, Carries, ClaimInv, Claims, HasAccount,
              BatchInv, WholeBatch
<1> QED BY <1>1, <1>2 DEF LinksInv

LEMMA NextKeeps == ASSUME LinksInv, [LinksNext]_linkVars PROVE LinksInv'
<1>1. ASSUME NEW e \in Emails, Bootstrap(e) \/ SetActive(e) PROVE LinksInv'
  BY <1>1, BootstrapKeeps, SetActiveKeeps
<1>2. ASSUME NEW l \in Links, Revoke(l) PROVE LinksInv'
  BY <1>2, RevokeKeeps
<1>3. CASE AddMember
  BY <1>3, AddMemberKeeps
<1>4. ASSUME NEW h \in LinkHandlers, Issue(h) \/ FindLive(h) \/ CheckMember(h) PROVE LinksInv'
  BY <1>4, IssueKeeps, FindLiveKeeps, CheckMemberKeeps
<1>5. ASSUME NEW h \in LinkHandlers, Serves(h) PROVE LinksInv'
  <2>1. CASE SeeOlder(h) \/ KillOlder(h) \/ InsertLink(h) \/ WriteMember(h)
    BY <2>1, SeeOlderKeeps, KillOlderKeeps, InsertLinkKeeps, WriteMemberKeeps
  <2>2. CASE CreateAccount(h) \/ SetPassword(h)
    BY <2>2, CreateAccountKeeps, SetPasswordKeeps
  <2>3. CASE Accept(h) \/ ResetPassword(h)
    BY <2>3, AcceptKeeps, ResetPasswordKeeps
  <2>4. CASE Crash(h)
    BY <2>4, CrashKeeps DEF Crash
  <2> QED BY <1>5, <2>1, <2>2, <2>3, <2>4 DEF Serves
<1>6. CASE UNCHANGED linkVars
  BY <1>6, StutterKeeps
<1> QED BY <1>1, <1>2, <1>3, <1>4, <1>5, <1>6 DEF LinksNext

(* The strengthening holds in every reachable state.                       *)
THEOREM LinksAreSafe == LinksSpec => []LinksInv
<1>1. LinksInit => LinksInv
  BY InitLinks
<1>2. LinksInv /\ [LinksNext]_linkVars => LinksInv'
  BY NextKeeps
<1> QED BY <1>1, <1>2, PTL DEF LinksSpec

(* Type correctness.                                                       *)
THEOREM LinksAreTyped == LinksSpec => []LinkTypeOK
<1>1. LinksInv => LinkTypeOK
  BY DEF LinksInv
<1> QED BY <1>1, LinksAreSafe, PTL

(* A link takes effect once if it is used and never otherwise, with any    *)
(* number of submissions, revocations, reissues and crashes                *)
(* (invitation.ts:225-238, auth.ts:113-124).                               *)
THEOREM LinksActOnce == LinksSpec => []UsedOnce
<1>1. LinksInv => UsedOnce
  BY DEF LinksInv
<1> QED BY <1>1, LinksAreSafe, PTL

(* A used invitation and the account it made name each other               *)
(* (invitation.ts:183-241).                                                *)
THEOREM UsedInvitationsMadeAccounts == LinksSpec => []UsedMeansAccount
<1>1. LinksInv => UsedMeansAccount
  BY DEF LinksInv
<1> QED BY <1>1, LinksAreSafe, PTL

(* Of two live unused links of a batch, neither was committed when the     *)
(* request for the other began to expire the older ones: a reissue leaves  *)
(* no link alive that its UPDATE could see (invitation.ts:77-86).  It says *)
(* nothing of a link another reissue commits after that.                   *)
THEOREM ReissueKills == LinksSpec => []ReissueKillsEarlier
<1>1. LinksInv => ReissueKillsEarlier
  BY DEF LinksInv
<1> QED BY <1>1, LinksAreSafe, PTL
-----------------------------------------------------------------------------
(* The team.  A member has an account, which no step takes away; a change  *)
(* under way was checked to leave one of the owners it saw.                *)
Checked(f) ==
    f.does = "changing" =>
        /\ f.email \in Emails => HasAccount(f.email)
        /\ f.role = "owner" \/ f.email \notin f.owners \/ Cardinality(f.owners) > 1
MembersInv ==
    /\ \A e \in Emails : members[e] # Absent => HasAccount(e)
    /\ \A h \in LinkHandlers : Checked(doing[h])

LEMMA AnotherOne ==
  ASSUME NEW S, IsFiniteSet(S), Cardinality(S) > 1, NEW x
  PROVE  \E y \in S : y # x
<1> SUFFICES ASSUME \A y \in S : y = x PROVE FALSE
  OBVIOUS
<1>1. CASE S = {}
  BY <1>1, FS_EmptySet
<1>2. CASE S # {}
  <2>1. S = {x}
    BY <1>2
  <2> QED BY <2>1, FS_Singleton
<1> QED BY <1>1, <1>2

LEMMA NewAccounts ==
  ASSUME NEW l \in Links \cup {Absent} PROVE [from |-> l, active |-> TRUE] # Absent
<1>1. [from |-> l, active |-> TRUE] \in AccountRows
  BY DEF AccountRows
<1> QED BY <1>1, AbsentIsNoRow

LEMMA AccountsStay ==
  ASSUME LinksInv, [LinksNext]_linkVars PROVE \A e \in Emails : HasAccount(e) => HasAccount(e)'
<1>1. ASSUME NEW e \in Emails, Bootstrap(e) \/ SetActive(e) PROVE \A d \in Emails : HasAccount(d) => HasAccount(d)'
  <2>1. CASE Bootstrap(e)
    BY <2>1 DEF Bootstrap
  <2>2. CASE SetActive(e)
    <3>1. accounts[e] \in AccountRows /\ accounts' = [accounts EXCEPT ![e].active = ~@]
      BY <2>2, RowTypes DEF SetActive, LinksInv
    <3>2. accounts'[e] \in AccountRows /\ \A d \in Emails : d # e => accounts'[d] = accounts[d]
      BY <3>1 DEF LinksInv, LinkTypeOK, AccountRows
    <3> QED BY <3>2, AbsentIsNoRow DEF HasAccount
  <2> QED BY <1>1, <2>1, <2>2
<1>2. ASSUME NEW h \in LinkHandlers, Accept(h), Consumable(doing[h].link)
      PROVE \A d \in Emails : HasAccount(d) => HasAccount(d)'
  <2>1. /\ accounts' = [accounts EXCEPT ![doing[h].email] = Joined(doing[h].link)] /\ doing[h].email \in Emails
        /\ doing[h].link \in Links
    BY <1>2, FlowTypes DEF Accept, LinksInv, Submitting
  <2>2. Joined(doing[h].link) # Absent
    BY <2>1, NewAccounts DEF Joined
  <2> QED BY <2>1, <2>2 DEF LinksInv, LinkTypeOK, HasAccount
<1>3. CASE accounts' = accounts
  BY <1>3 DEF HasAccount
<1>4. \/ \E e \in Emails : Bootstrap(e) \/ SetActive(e)
      \/ \E h \in LinkHandlers : Accept(h) /\ Consumable(doing[h].link)
      \/ accounts' = accounts
  BY DEF LinksNext, Serves, linkVars, Revoke, AddMember, Issue, FindLive, CheckMember, SeeOlder, KillOlder, InsertLink,
         CreateAccount, SetPassword, Accept, ResetPassword, WriteMember, Crash
<1> QED BY <1>1, <1>2, <1>3, <1>4

(* Where a change under way comes from: it was under way, it is checked    *)
(* now, or it has just lost its member.                                    *)
LEMMA ChangesFrom ==
  ASSUME LinksInv, [LinksNext]_linkVars, NEW g \in LinkHandlers, doing'[g].does = "changing"
  PROVE  \/ doing'[g] = doing[g]
         \/ CheckMember(g)
         \/ doing[g].does = "changing" /\ doing'[g] = [doing[g] EXCEPT !.email = Absent]
<1>1. ASSUME NEW h \in LinkHandlers, NEW f, doing' = [doing EXCEPT ![h] = f], f.does # "changing" PROVE doing'[g] = doing[g]
  BY <1>1 DEF LinksInv, FlowsInv
<1>2. ASSUME NEW h \in LinkHandlers, Finish(h) PROVE doing'[g] = doing[g]
  BY <1>1, <1>2, IdleSaysNothing DEF Finish
<1>3. ASSUME NEW h \in LinkHandlers, Issue(h) \/ FindLive(h) PROVE doing'[g] = doing[g]
  <2>1. CASE Issue(h)
    <3>1. PICK e \in Emails, purpose \in Purposes :
              Begin(h, [does |-> "issuing", purpose |-> purpose, email |-> e], MaxLinkFlows)
      BY <2>1 DEF Issue
    <3> QED BY <1>1, <3>1 DEF Begin
  <2>2. CASE FindLive(h)
    <3>1. PICK l \in Issued : Begin(h, [does |-> IF links[l].purpose = "reset" THEN "resetting" ELSE "accepting",
                                        link |-> l, email |-> links[l].email], MaxLinkFlows)
      BY <2>2 DEF FindLive
    <3> QED BY <1>1, <3>1 DEF Begin
  <2> QED BY <1>3, <2>1, <2>2
<1>4. ASSUME NEW h \in LinkHandlers, CheckMember(h) PROVE doing'[g] = doing[g] \/ CheckMember(g)
  <2>1. CASE h = g
    BY <1>4, <2>1
  <2>2. CASE h # g
    BY <1>4, <2>2 DEF CheckMember, Begin, LinksInv, FlowsInv
  <2> QED BY <2>1, <2>2
<1>5. ASSUME NEW h \in LinkHandlers, SeeOlder(h) \/ KillOlder(h) \/ CreateAccount(h) \/ SetPassword(h)
      PROVE  doing'[g] = doing[g]
  BY <1>1, <1>2, <1>5 DEF SeeOlder, KillOlder, CreateAccount, SetPassword
<1>6. ASSUME NEW h \in LinkHandlers, InsertLink(h) \/ Accept(h) \/ ResetPassword(h) \/ Crash(h) PROVE doing'[g] = doing[g]
  BY <1>2, <1>6 DEF InsertLink, Accept, ResetPassword, Crash
<1>7. ASSUME NEW h \in LinkHandlers, WriteMember(h)
      PROVE  doing'[g] = doing[g] \/ (doing[g].does = "changing" /\ doing'[g] = [doing[g] EXCEPT !.email = Absent])
  BY <1>7, IdleSaysNothing DEF WriteMember, Changes
<1>8. CASE doing' = doing
  BY <1>8
<1>9. \/ doing' = doing
      \/ \E h \in LinkHandlers : Issue(h) \/ FindLive(h) \/ CheckMember(h) \/ Serves(h)
  BY DEF LinksNext, linkVars, Bootstrap, SetActive, Revoke, AddMember
<1> QED BY <1>3, <1>4, <1>5, <1>6, <1>7, <1>8, <1>9 DEF Serves

LEMMA OwnersAreFinite == IsFiniteSet(Owners)
<1>1. Owners \subseteq Emails
  BY DEF Owners
<1> QED BY <1>1, EmailsAreFinite, FS_Subset

LEMMA MembersKept == ASSUME LinksInv, MembersInv, [LinksNext]_linkVars PROVE MembersInv'
<1>1. \A e \in Emails : HasAccount(e) => HasAccount(e)'
  BY AccountsStay
<1>2. \A e \in Emails : members'[e] # Absent => HasAccount(e)'
  <2>1. ASSUME NEW e \in Emails, Bootstrap(e) PROVE \A d \in Emails : members'[d] # Absent => HasAccount(d)'
    <3>1. accounts'[e] # Absent
      BY <2>1, NewAccounts DEF Bootstrap, LinksInv, LinkTypeOK
    <3> QED BY <1>1, <2>1, <3>1 DEF Bootstrap, MembersInv, LinksInv, LinkTypeOK, HasAccount
  <2>2. CASE AddMember
    BY <1>1, <2>2 DEF AddMember, Active, MembersInv, LinksInv, LinkTypeOK
  <2>3. ASSUME NEW h \in LinkHandlers, Accept(h), Consumable(doing[h].link)
        PROVE  \A d \in Emails : members'[d] # Absent => HasAccount(d)'
    <3>1. /\ accounts' = [accounts EXCEPT ![doing[h].email] = Joined(doing[h].link)] /\ doing[h].email \in Emails
          /\ doing[h].link \in Links
          /\ \A d \in Emails : d # doing[h].email => members'[d] = members[d]
      BY <2>3, FlowTypes DEF Accept, LinksInv, LinkTypeOK, Submitting
    <3>2. accounts'[doing[h].email] # Absent
      BY <3>1, NewAccounts DEF Joined, LinksInv, LinkTypeOK
    <3> QED BY <1>1, <3>1, <3>2 DEF MembersInv, HasAccount
  <2>4. ASSUME NEW h \in LinkHandlers, WriteMember(h) PROVE \A d \in Emails : members'[d] # Absent => HasAccount(d)'
    BY <1>1, <2>4 DEF WriteMember, MembersInv, Checked
  <2>5. CASE members' = members
    BY <1>1, <2>5 DEF MembersInv
  <2>6. \/ \E e \in Emails : Bootstrap(e)
        \/ AddMember \/ members' = members
        \/ \E h \in LinkHandlers : (Accept(h) /\ Consumable(doing[h].link)) \/ WriteMember(h)
    BY DEF LinksNext, Serves, linkVars, SetActive, Revoke, Issue, FindLive, CheckMember, SeeOlder, KillOlder, InsertLink,
           CreateAccount, SetPassword, Accept, ResetPassword, Crash
  <2> QED BY <2>1, <2>2, <2>3, <2>4, <2>5, <2>6
<1>3. ASSUME NEW g \in LinkHandlers, doing'[g].does = "changing" PROVE Checked(doing[g])'
  <2>1. CASE doing'[g] = doing[g]
    BY <1>1, <2>1 DEF MembersInv, Checked
  <2>2. CASE CheckMember(g)
    <3>1. PICK e \in Emails, me \in Emails, role \in Roles \cup {Absent} :
              /\ MayChange(me, e, role)
              /\ Begin(g, [does |-> "changing", email |-> e, role |-> role, owners |-> Owners], MaxAllFlows)
      BY <2>2 DEF CheckMember
    <3>2. doing'[g] = [does |-> "changing", email |-> e, role |-> role, owners |-> Owners]
      BY <3>1 DEF Begin, LinksInv, FlowsInv
    <3>3. HasAccount(e)'
      BY <1>1, <3>1 DEF MayChange, MembersInv
    <3>4. Cardinality(Owners) \in Nat
      BY OwnersAreFinite, FS_CardinalityType
    <3>5. role = "owner" \/ e \notin Owners \/ Cardinality(Owners) > 1
      BY <3>1, <3>4 DEF MayChange, LastOwner, Owners
    <3> QED BY <3>2, <3>3, <3>5 DEF Checked
  <2>3. CASE doing[g].does = "changing" /\ doing'[g] = [doing[g] EXCEPT !.email = Absent]
    <3>1. doing[g] \in [does : {"changing"}, email : Emails \cup {Absent}, role : Roles \cup {Absent},
                     owners : SUBSET Emails]
      BY <2>3 DEF LinksInv, FlowsInv, Flows, Free, Submitting
    <3>2. doing'[g].email = Absent /\ doing'[g].owners \subseteq Emails
      BY <2>3, <3>1
    <3> QED BY <3>2, AbsentIsNoRow DEF Checked
  <2> QED BY <1>3, <2>1, <2>2, <2>3, ChangesFrom
<1>4. \A g \in LinkHandlers : Checked(doing[g])'
  BY <1>3 DEF Checked
<1> QED BY <1>2, <1>4 DEF MembersInv

LEMMA LastOwnerNeedsStale ==
  ASSUME LinksInv, MembersInv, [LinksNext]_linkVars, Owners # {}, Owners' = {}
  PROVE  \E h \in LinkHandlers : WriteMember(h) /\ doing[h].owners # Owners
<1> PICK o \in Emails : members[o] = "owner" /\ o \in Owners
  BY DEF Owners
<1>1. \A e \in Emails : members'[e] # "owner"
  BY DEF Owners
<1>2. ASSUME NEW e \in Emails, Bootstrap(e) PROVE FALSE
  BY <1>1, <1>2 DEF Bootstrap, LinksInv, LinkTypeOK
<1>3. CASE AddMember
  BY <1>1, <1>3, AbsentIsNoRow DEF AddMember, Roles, LinksInv, LinkTypeOK
<1>4. ASSUME NEW h \in LinkHandlers, Accept(h) PROVE FALSE
  <2>1. ~HasAccount(doing[h].email) /\ HasAccount(o)
    BY <1>4, AbsentIsNoRow DEF Accept, LinksInv, ClaimInv, MembersInv, Roles
  <2>2. members'[o] = members[o]
    BY <1>4, <2>1 DEF Accept, LinksInv, LinkTypeOK
  <2> QED BY <1>1, <2>2
<1>5. ASSUME NEW h \in LinkHandlers, WriteMember(h), doing[h].owners = Owners PROVE FALSE
  <2>1. \A e \in Emails : members'[e] = IF e = doing[h].email THEN doing[h].role ELSE members[e]
    BY <1>5 DEF WriteMember
  <2>2. doing[h].email = o
    BY <1>1, <2>1
  <2>3. doing[h].role # "owner"
    BY <1>1, <2>1, <2>2
  <2>4. Cardinality(Owners) > 1
    BY <1>5, <2>2, <2>3 DEF MembersInv, Checked, WriteMember
  <2>5. PICK p \in Owners : p # o
    BY <2>4, OwnersAreFinite, AnotherOne
  <2> QED BY <1>1, <2>1, <2>2, <2>5 DEF Owners
<1>6. CASE members' = members
  BY <1>1, <1>6
<1>7. \/ \E e \in Emails : Bootstrap(e)
      \/ AddMember \/ members' = members
      \/ \E h \in LinkHandlers : Accept(h) \/ WriteMember(h)
  BY DEF LinksNext, Serves, linkVars, SetActive, Revoke, Issue, FindLive, CheckMember, SeeOlder, KillOlder, InsertLink,
         CreateAccount, SetPassword, ResetPassword, Crash
<1> QED BY <1>2, <1>3, <1>4, <1>5, <1>6, <1>7

(* The change whose write takes the last owner of the team was itself      *)
(* checked against owners that are no longer the owners                    *)
(* (org.ts:115-138, :144-164).                                             *)
THEOREM OnlyStaleChecksTakeOwners == LinksSpec => StaleCheckTakesLastOwner
<1>1. LinksInit => MembersInv
  BY IdleSaysNothing DEF LinksInit, MembersInv, Checked
<1>2. LinksInv /\ LinksInv' /\ MembersInv /\ [LinksNext]_linkVars => MembersInv'
  BY MembersKept
<1>3. LinksInv /\ MembersInv /\ [LinksNext]_linkVars =>
        [Owners # {} /\ Owners' = {} =>
            \E h \in LinkHandlers : WriteMember(h) /\ doing[h].owners # Owners]_linkVars
  BY LastOwnerNeedsStale
<1> QED BY <1>1, <1>2, <1>3, LinksAreSafe, PTL DEF LinksSpec, StaleCheckTakesLastOwner
=============================================================================
