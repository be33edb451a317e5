---------------------------- MODULE AccountLinks ----------------------------
(***************************************************************************)
(* Accounts, the one-time links that make them (invitations, to the        *)
(* service or to a team) or give them a new password (resets), and the     *)
(* members of one team.  An account and the person who holds it are named  *)
(* by the email.  Requests run statement by statement on a READ COMMITTED  *)
(* database; the rows a transaction has written stay locked, and unseen,   *)
(* until it commits, and a crash or a lost connection rolls it back.       *)
(***************************************************************************)
EXTENDS Naturals, FiniteSets

CONSTANTS
    Emails, Links, LinkHandlers, Absent,
    MaxLinkFlows,   \* bound: requests that issue or submit a link
    MaxAllFlows     \* bound: these and changes of members

Roles == {"owner", "admin", "member"}

(* A link's purpose: an invitation without or with a team, or a reset.     *)
Invitations == {"service", "team"}
Purposes == Invitations \cup {"reset"}

(* The rows; Absent is the one that is not there.  "from" is the link that *)
(* made the account, "saw" the links there were when the request that      *)
(* issued the link began to expire the older ones.                         *)
AccountRows == [from : {Absent} \cup Links, active : BOOLEAN]
LinkRows == [purpose : Purposes, email : Emails, live : BOOLEAN, used : BOOLEAN, saw : SUBSET Links]

ASSUME FlowsAreBounded == MaxLinkFlows \in Nat /\ MaxAllFlows \in Nat
ASSUME EmailsAreFinite == IsFiniteSet(Emails)
ASSUME AbsentIsNoRow ==
    Absent \notin Emails /\ Absent \notin Roles /\ Absent \notin AccountRows /\ Absent \notin LinkRows

VARIABLES
    accounts,   \* email -> its row, or Absent
    links,      \* link -> its row, or Absent
    members,    \* email -> role in the team, or Absent
    doing,      \* what each handler is doing
    effects,    \* link -> how often it made an account or set a password
    linkFlows

linkVars == <<accounts, links, members, doing, effects, linkFlows>>

HasAccount(e) == accounts[e] # Absent
Active(e) == HasAccount(e) /\ accounts[e].active
Issued == {l \in Links : links[l] # Absent}
Unused(l) == l \in Issued /\ ~links[l].used
Manages(e) == members[e] \in {"owner", "admin"}
Owners == {e \in Emails : members[e] = "owner"}

Free == [does |-> "nothing"]
Begin(h, flow, bound) ==
    /\ doing[h] = Free /\ linkFlows < bound
    /\ doing' = [doing EXCEPT ![h] = flow] /\ linkFlows' = linkFlows + 1
Finish(h) == doing' = [doing EXCEPT ![h] = Free]

(* Row locks: links a reissue expired, a user's row a reset has updated,   *)
(* and the unique email of an account that is not committed yet.           *)
LinkLocked(l) == \E h \in LinkHandlers : doing[h].does = "inserting" /\ l \in doing[h].kills
EmailClaimed(e) ==
    \E h \in LinkHandlers : doing[h].does \in {"joining", "replacing"} /\ doing[h].email = e
-----------------------------------------------------------------------------
LinksInit ==
    /\ accounts = [e \in Emails |-> Absent] /\ links = [l \in Links |-> Absent]
    /\ members = [e \in Emails |-> Absent]
    /\ doing = [h \in LinkHandlers |-> Free]
    /\ effects = [l \in Links |-> 0] /\ linkFlows = 0

(* ensureBootstrapAdmin; the first account makes the team (org.create).    *)
Bootstrap(e) ==
    /\ ~HasAccount(e) /\ ~EmailClaimed(e) /\ \A f \in Emails : ~HasAccount(f)
    /\ accounts' = [accounts EXCEPT ![e] = [from |-> Absent, active |-> TRUE]]
    /\ members' = [members EXCEPT ![e] = "owner"]
    /\ UNCHANGED <<links, doing, effects, linkFlows>>

(* admin.users.setActive.                                                  *)
SetActive(e) ==
    /\ HasAccount(e) /\ ~EmailClaimed(e)
    /\ accounts' = [accounts EXCEPT ![e].active = ~@]
    /\ UNCHANGED <<links, members, doing, effects, linkFlows>>
-----------------------------------------------------------------------------
(* admin.users.invite, invitation.create, admin.users.resetLink: may such  *)
(* a link be issued?                                                       *)
Issuable(purpose, e) ==
    IF purpose = "reset" THEN Active(e)
    ELSE ~HasAccount(e) /\ (purpose = "team" => \E m \in Emails : Manages(m))
Issue(h) ==
    \E e \in Emails, purpose \in Purposes :
        /\ Issuable(purpose, e)
        /\ Begin(h, [does |-> "issuing", purpose |-> purpose, email |-> e], MaxLinkFlows)
        /\ UNCHANGED <<accounts, links, members, effects>>

(* The transaction: older unused links of the batch expire.  The UPDATE    *)
(* sees the links that are committed when it starts.  For those of them    *)
(* that another transaction has locked it waits, and looks at these rows   *)
(* again: one may have been used.  It does not see a link inserted since.  *)
SeeOlder(h) ==
    /\ doing[h].does = "issuing"
    /\ doing' = [doing EXCEPT ![h] = [does |-> "expiring", purpose |-> @.purpose, email |-> @.email,
                                       saw |-> Issued]]
    /\ UNCHANGED <<accounts, links, members, effects, linkFlows>>

Batch_NullTeam(purpose, e) ==
    {l \in Issued : Unused(l) /\ links[l].purpose = purpose /\ purpose # "service" /\ links[l].email = e}
Batch(purpose, e) ==
    {l \in Issued : Unused(l) /\ links[l].purpose = purpose /\ links[l].email = e}
Older(h) == Batch(doing[h].purpose, doing[h].email) \cap doing[h].saw
KillOlder(h) ==
    /\ doing[h].does = "expiring"
    /\ \A l \in Older(h) : ~LinkLocked(l)
    /\ doing' = [doing EXCEPT ![h] = [does |-> "inserting", purpose |-> @.purpose, email |-> @.email,
                                       kills |-> Older(h), saw |-> @.saw]]
    /\ UNCHANGED <<accounts, links, members, effects, linkFlows>>

(* The new one is inserted, and all of it commits.                         *)
NextLink == CHOOSE l \in Links : l \notin Issued
Expired_Deleted(link) == Absent
Expired(link) == [link EXCEPT !.live = FALSE]
InsertLink(h) ==
    /\ doing[h].does = "inserting" /\ Issued # Links
    /\ links' = [l \in Links |->
                    IF l = NextLink THEN [purpose |-> doing[h].purpose, email |-> doing[h].email,
                                          live |-> TRUE, used |-> FALSE, saw |-> doing[h].saw]
                    ELSE IF l \in doing[h].kills THEN Expired(links[l]) ELSE links[l]]
    /\ Finish(h)
    /\ UNCHANGED <<accounts, members, effects, linkFlows>>

(* invitation.revoke, admin.invitations.revoke; resets only run out.       *)
Revoke(l) ==
    /\ Unused(l) /\ links[l].live /\ ~LinkLocked(l)
    /\ links' = [links EXCEPT ![l] = Expired(@)]
    /\ UNCHANGED <<accounts, members, doing, effects, linkFlows>>
-----------------------------------------------------------------------------
(* invitation.accept and auth.resetPassword: assertLive reads the link in  *)
(* the transaction, without a lock.                                        *)
FindLive(h) ==
    \E l \in Issued :
        /\ Unused(l) /\ links[l].live
        /\ Begin(h, [does |-> IF links[l].purpose = "reset" THEN "resetting" ELSE "accepting",
                     link |-> l, email |-> links[l].email], MaxLinkFlows)
        /\ UNCHANGED <<accounts, links, members, effects>>

(* The account and its personal organisation are inserted: the unique      *)
(* email waits for another transaction's and then decides.                 *)
CreateAccount(h) ==
    /\ doing[h].does = "accepting" /\ ~EmailClaimed(doing[h].email)
    /\ IF HasAccount(doing[h].email) THEN Finish(h)
       ELSE doing' = [doing EXCEPT ![h] = [does |-> "joining", link |-> @.link, email |-> @.email]]
    /\ UNCHANGED <<accounts, links, members, effects, linkFlows>>
SetPassword(h) ==
    /\ doing[h].does = "resetting" /\ ~EmailClaimed(doing[h].email)
    /\ doing' = [doing EXCEPT ![h] = [does |-> "replacing", link |-> @.link, email |-> @.email]]
    /\ UNCHANGED <<accounts, links, members, effects, linkFlows>>

(* The link is consumed if it is still unused, and all of it commits.      *)
Consumable_Live(l) == links[l].live
Consumable(l) == ~links[l].used
Joined(l) == [from |-> l, active |-> TRUE]
Accept(h) ==
    /\ doing[h].does = "joining" /\ ~LinkLocked(doing[h].link)
    /\ IF ~Consumable(doing[h].link) THEN UNCHANGED <<accounts, links, members, effects>>
       ELSE /\ accounts' = [accounts EXCEPT ![doing[h].email] = Joined(doing[h].link)]
            /\ links' = [links EXCEPT ![doing[h].link].used = TRUE]
            /\ members' = IF links[doing[h].link].purpose = "team"
                          THEN [members EXCEPT ![doing[h].email] = "member"] ELSE members
            /\ effects' = [effects EXCEPT ![doing[h].link] = @ + 1]
    /\ Finish(h) /\ UNCHANGED linkFlows
ResetPassword(h) ==
    /\ doing[h].does = "replacing" /\ ~LinkLocked(doing[h].link)
    /\ IF ~Consumable(doing[h].link) THEN UNCHANGED <<links, effects>>
       ELSE /\ links' = [links EXCEPT ![doing[h].link].used = TRUE]
            /\ effects' = [effects EXCEPT ![doing[h].link] = @ + 1]
    /\ Finish(h)
    /\ UNCHANGED <<accounts, members, linkFlows>>
-----------------------------------------------------------------------------
(* org.members.add, setRole and remove (the role Absent).  The guards read *)
(* the members, the write follows in a statement of its own, by the row's  *)
(* id: it misses a row that was removed in between, also if the person was *)
(* added again.                                                            *)
AddMember ==
    \E e \in Emails, role \in {"admin", "member"} :
        /\ \E me \in Emails : Manages(me)
        /\ Active(e) /\ members[e] = Absent
        /\ members' = [members EXCEPT ![e] = role]
        /\ UNCHANGED <<accounts, links, doing, effects, linkFlows>>

LastOwner_Below(e) == members[e] = "owner" /\ Cardinality(Owners) <= 0
LastOwner(e) == members[e] = "owner" /\ Cardinality(Owners) <= 1
MayChange(me, e, role) ==
    /\ Manages(me) /\ members[e] # Absent
    /\ "owner" \in {members[e], role} => members[me] = "owner"
    /\ role # "owner" => ~LastOwner(e)
CheckMember(h) ==
    \E me, e \in Emails, role \in Roles \cup {Absent} :
        /\ MayChange(me, e, role) /\ role # members[e]
        /\ Begin(h, [does |-> "changing", email |-> e, role |-> role, owners |-> Owners], MaxAllFlows)
        /\ UNCHANGED <<accounts, links, members, effects>>
Changes(g, e) == doing[g].does = "changing" /\ doing[g].email = e
WriteMember(h) ==
    /\ doing[h].does = "changing"
    /\ members' = [e \in Emails |-> IF e = doing[h].email THEN doing[h].role ELSE members[e]]
    /\ doing' = [g \in LinkHandlers |->
                 IF g = h THEN Free
                 ELSE IF doing[h].role = Absent /\ Changes(g, doing[h].email)
                 THEN [doing[g] EXCEPT !.email = Absent] ELSE doing[g]]
    /\ UNCHANGED <<accounts, links, effects, linkFlows>>

(* The process dies or the connection is lost: the transaction never was.  *)
Crash(h) == doing[h] # Free /\ Finish(h) /\ UNCHANGED <<accounts, links, members, effects, linkFlows>>

Serves(h) ==
    \/ SeeOlder(h) \/ KillOlder(h) \/ InsertLink(h) \/ CreateAccount(h) \/ SetPassword(h)
    \/ Accept(h) \/ ResetPassword(h) \/ WriteMember(h) \/ Crash(h)
LinksNext ==
    \/ \E e \in Emails : Bootstrap(e) \/ SetActive(e)
    \/ \E l \in Links : Revoke(l)
    \/ AddMember
    \/ \E h \in LinkHandlers : Issue(h) \/ FindLive(h) \/ CheckMember(h) \/ Serves(h)

LinksSpec == LinksInit /\ [][LinksNext]_linkVars
-----------------------------------------------------------------------------
LinkTypeOK ==
    /\ accounts \in [Emails -> {Absent} \cup AccountRows]
    /\ links \in [Links -> {Absent} \cup LinkRows]
    /\ members \in [Emails -> {Absent} \cup Roles]
    /\ effects \in [Links -> Nat] /\ linkFlows \in Nat
    /\ \A h \in LinkHandlers :
          /\ doing[h].does \in {"accepting", "joining", "resetting", "replacing"} => doing[h].link \in Issued
          /\ doing[h].does = "inserting" => doing[h].kills \subseteq Issued

(* A used link took effect exactly once and an unused one never did,       *)
(* however submissions of it, its revocation, its reissue and crashes      *)
(* interleave (invitation.ts:230, auth.ts:118).                            *)
UsedOnce == \A l \in Issued : effects[l] = IF links[l].used THEN 1 ELSE 0

(* A used invitation has made the account of its email, and an account     *)
(* that came from an invitation has used it: what lets the page say that   *)
(* no new invitation can be had (one-time-token.ts:79-81).                 *)
UsedMeansAccount ==
    /\ \A l \in Issued : links[l].used /\ links[l].purpose \in Invitations =>
          HasAccount(links[l].email) /\ accounts[links[l].email].from = l
    /\ \A e \in Emails : HasAccount(e) /\ accounts[e].from # Absent =>
          links[accounts[e].from].used /\ links[accounts[e].from].email = e

(* A reissue kills the earlier links of its batch: of two live unused      *)
(* links of a batch, neither was there when the request for the other      *)
(* began to expire the older ones, however many requests and submissions   *)
(* hold and change those rows meanwhile (invitation.ts:77-86).             *)
ReissueKillsEarlier ==
    \A l, m \in Issued :
        /\ Unused(l) /\ links[l].live /\ Unused(m) /\ links[m].live
        /\ links[l].purpose = links[m].purpose /\ links[l].email = links[m].email
        => l \notin links[m].saw

(* What the comment at invitation.ts:75-76 wants, that two links of one    *)
(* batch are never live at once.  It is not so: a request does not see the *)
(* link another one inserts while its UPDATE waits, nor does it lock       *)
(* anything when there is no older link.                                   *)
OneLiveLink ==
    \A l, m \in Issued :
        /\ Unused(l) /\ links[l].live /\ Unused(m) /\ links[m].live
        /\ links[l].purpose = links[m].purpose /\ links[l].email = links[m].email
        => l = m

(* The change that takes the team's last owner was itself checked against  *)
(* owners that are no longer the owners (org.ts:133, :157).                *)
StaleCheckTakesLastOwner ==
    [][Owners # {} /\ Owners' = {} =>
          \E h \in LinkHandlers : WriteMember(h) /\ doing[h].owners # Owners]_linkVars

(* What the user guide promises, that a team never loses its last owner    *)
(* (user-guide.md:94).  Two changes that are checked before either of them *)
(* is written break it (org.ts:133, :157).                                 *)
LastOwnerStays == [][Owners # {} => Owners' # {}]_linkVars
=============================================================================
