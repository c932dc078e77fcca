------------------------------ MODULE RoleStore ------------------------------
(***************************************************************************)
(* The durable role-statement store of one node, for one verse             *)
(* (fe-database role_grants.rs, role_manager.rs, and the handlers that     *)
(* change a verse's owner).  The DB thread runs one handler at a time, but *)
(* a handler is several transactions: every transaction is a step here, so *)
(* a crash or a failed write can fall between any two of them.             *)
(***************************************************************************)
EXTENDS RoleGrants

CONSTANTS
    Local,          \* this node's DID
    Inbound,        \* the role statements peers may deliver
    Budget,         \* ROLE_PENDING_PER_GRANTOR
    MaxRounds,      \* MAX_PROMOTION_ROUNDS
    MaxClock,       \* bound on the op-log clock, so on local statements
    Faults          \* which of "crash", "abort", "drop", "claim" may happen

ASSUME StoreAssumption ==
    /\ Local \in Peers
    /\ Inbound \subseteq RoleStatement
    /\ Budget \in Nat \ {0}
    /\ MaxRounds \in Nat \ {0}
    /\ MaxClock \in Nat

VARIABLES
    owner,      \* verse.created_by, or NoOwner before the manifest
    admitted,   \* table role_grant
    held,       \* table role_statement_pending
    cache,      \* table role, the materialized cache
    default,    \* verse.default_access
    joined,     \* a verse_member row says someone else invited a member
    clock,      \* the op-log clock that stamps local statements
    doc,        \* what the replication bridge last took, per key (see Publish)
    pc,         \* where the DB thread is: between handlers, or in repartition
    prior,      \* repartition's argument: the statements materialized before
    base,       \* the statements repartition's `current` materializes
    work,       \* repartition's worklist of grantors
    promoted,   \* whether this round promoted a statement
    rounds,     \* promotion rounds of this repartition
    outgoing,   \* the statements this handler publishes after repartition
    restarting, \* whether the handler is role_grants::startup
    unsettled   \* history: a handler stopped half way, or the owner changed
                \* under the store; only a full repartition settles it

(* An optional set of statements: empty, or the singleton of it.           *)
NoPrior == {}
Some(stmts) == {stmts}
Unwrap(opt) == UNION opt

tables == <<owner, admitted, held, cache, default, joined, clock>>
job == <<prior, base, work, promoted, rounds>>
after == <<outgoing, restarting>>
vars == <<tables, doc, pc, job, after, unsettled>>

(* A verse being joined, one created here, or one created here under an    *)
(* identity this node has since replaced.                                  *)
Init ==
    /\ \/ owner = NoOwner /\ joined = TRUE
       \/ owner = Local /\ joined = FALSE
       \/ "claim" \in Faults /\ owner \in Peers \ {Local} /\ joined = FALSE
    /\ admitted = {} /\ held = {} /\ cache = {}
    /\ default = Viewer
    /\ clock = 0 /\ doc = {}
    /\ pc = "idle"
    /\ prior = NoPrior /\ base = {} /\ work = {}
    /\ promoted = FALSE /\ rounds = 0
    /\ outgoing = {} /\ restarting = FALSE
    /\ unsettled = FALSE

(***************************************************************************)
(* Placement                                                               *)
(***************************************************************************)
load_effective_roles == materialize(owner, admitted)

Versions(st, table) == {x \in table : StatementKey(x) = StatementKey(st)}

live_version(st) == Versions(st, admitted \cup held)

(* A slip for OneLiveVersion: the other table keeps the key's old version. *)
WriteWithoutDelete(st, isHeld) ==
    /\ admitted' = admitted \cup (IF isHeld THEN {} ELSE {st})
    /\ held' = held \cup (IF isHeld THEN {st} ELSE {})

(* One transaction: st becomes its key's one live version.                 *)
write_live_version(st, isHeld) ==
    /\ admitted' = (admitted \ Versions(st, admitted))
                      \cup (IF isHeld THEN {} ELSE {st})
    /\ held' = (held \ Versions(st, held)) \cup (IF isHeld THEN {st} ELSE {})

Newest(st) == \A x \in live_version(st) : is_newer(st, x)

held_count_for_grantor(g) == Cardinality({x \in held : x.grantor = g})

AdmissibleNow(st) == owner # NoOwner /\ admissible(load_effective_roles, st)

(* repartition starts: `current` is the materialization of what is         *)
(* admitted after this step.                                               *)
BeginRepartition(before) ==
    /\ pc' = "demote"
    /\ prior' = before
    /\ base' = admitted'
    /\ work' = {} /\ promoted' = FALSE /\ rounds' = 0

(* A slip for NoneHeldInVain: the prior roles are read after the write.    *)
SubmitThenLoadPrior(st) ==
    /\ pc = "idle"
    /\ validate_statement(owner, st)
    /\ Newest(st)
    /\ AdmissibleNow(st)
    /\ write_live_version(st, FALSE)
    /\ BeginRepartition(Some(admitted'))
    /\ UNCHANGED <<owner, cache, default, joined, clock, doc, after, unsettled>>

(* submit_statement, Placement::Admitted.                                  *)
SubmitAdmitted(st) ==
    /\ pc = "idle"
    /\ validate_statement(owner, st)
    /\ Newest(st)
    /\ AdmissibleNow(st)
    /\ write_live_version(st, FALSE)
    /\ BeginRepartition(Some(admitted))
    /\ UNCHANGED <<owner, cache, default, joined, clock, doc, after, unsettled>>

(* submit_statement, Placement::Held: no repartition, the cache stays.     *)
(* Placement::Superseded and RefusedOverBudget write nothing.              *)
SubmitHeld(st) ==
    /\ pc = "idle"
    /\ validate_statement(owner, st)
    /\ Newest(st)
    /\ ~AdmissibleNow(st)
    /\ live_version(st) = {} => held_count_for_grantor(st.grantor) < Budget
    /\ write_live_version(st, TRUE)
    /\ UNCHANGED <<owner, cache, default, joined, clock, doc, pc, job, after, unsettled>>

(***************************************************************************)
(* Local commands                                                          *)
(***************************************************************************)
LocalRole(s) == resolve_role(owner, cache, default, Local, s)

check_role_command(p, s) ==
    /\ owner # NoOwner
    /\ p # owner
    /\ LocalRole(s) >= Manager

(* A slip for TypeOK: the statement passes on the caller's own level.      *)
OwnLevelStatement(p, s, role, revoked) ==
    [scope |-> s, peer |-> p, grantor |-> Local,
     role |-> LocalRole(s), revoked |-> revoked, hlc |-> clock + 1]

LocalStatement(p, s, role, revoked) ==
    [scope |-> s, peer |-> p, grantor |-> Local,
     role |-> role, revoked |-> revoked, hlc |-> clock + 1]

(* A slip for NeverReplayed: no fence against a newer version.             *)
IssueUnfenced(p, s, role, revoked) ==
    /\ pc = "idle"
    /\ clock < MaxClock
    /\ check_role_command(p, s)
    /\ role = None /\ ~revoked => Local = owner
    /\ LET st == LocalStatement(p, s, role, revoked) IN
         /\ write_live_version(st, FALSE)
         /\ outgoing' = {st}
    /\ clock' = clock + 1
    /\ BeginRepartition(Some(admitted))
    /\ UNCHANGED <<owner, cache, default, joined, doc, restarting, unsettled>>

(* issue_local_statement: the op-log entry and the statement commit in one *)
(* transaction that also re-checks that no newer version exists.           *)
IssueLocal(p, s, role, revoked) ==
    /\ pc = "idle"
    /\ clock < MaxClock
    /\ check_role_command(p, s)
    /\ role = None /\ ~revoked => Local = owner
    /\ LET st == LocalStatement(p, s, role, revoked) IN
         /\ \A x \in live_version(st) : ~is_newer(x, st)
         /\ write_live_version(st, FALSE)
         /\ outgoing' = {st}
    /\ clock' = clock + 1
    /\ BeginRepartition(Some(admitted))
    /\ UNCHANGED <<owner, cache, default, joined, doc, restarting, unsettled>>

assign_role_checked(p, s, role) == IssueLocal(p, s, role, FALSE)

revoke_role_checked(p, s) == IssueLocal(p, s, None, TRUE)

(* set_default_access needs Manager+ at the verse scope.                   *)
set_default_access(access) ==
    /\ pc = "idle"
    /\ owner # NoOwner
    /\ \E s \in Scopes : Chain[s] = {s} /\ LocalRole(s) >= Manager
    /\ access # default
    /\ default' = access
    /\ UNCHANGED <<owner, admitted, held, cache, joined, clock, doc, pc, job, after, unsettled>>

(***************************************************************************)
(* The owner                                                               *)
(***************************************************************************)
(* The verse row lands: owner unknown before, repartition(None) after.     *)
ManifestLands(o) ==
    /\ pc = "idle"
    /\ owner = NoOwner
    /\ owner' = o
    /\ UNCHANGED <<admitted, held, cache, default, joined, clock, doc, after, unsettled>>
    /\ BeginRepartition(NoPrior)

(* ClaimOrphanedVerse, after this node's identity changed: the verse was   *)
(* never shared (verse_never_shared), and every statement in it is the old *)
(* DID's (has_foreign_role_grant).  created_by changes, nothing of the     *)
(* role tables does.                                                       *)
claim_orphaned_verse ==
    /\ "claim" \in Faults
    /\ pc = "idle"
    /\ owner \notin {NoOwner, Local}
    /\ ~joined
    /\ \A st \in admitted \cup held : st.grantor = owner
    /\ owner' = Local
    /\ unsettled' = TRUE
    /\ UNCHANGED <<admitted, held, cache, default, joined, clock, doc, pc, job, after>>

(***************************************************************************)
(* repartition                                                             *)
(***************************************************************************)
current == materialize(owner, base)

(* A slip for LiveVersionsAdvance: a demoted statement is dropped.         *)
DemoteDrops(st) ==
    /\ pc = "demote"
    /\ st \in admitted
    /\ ~admissible(current, st)
    /\ admitted' = admitted \ {st}
    /\ UNCHANGED <<owner, held, cache, default, joined, clock, doc, pc, job, after, unsettled>>

Demote(st) ==
    /\ pc = "demote"
    /\ st \in admitted
    /\ ~admissible(current, st)
    /\ write_live_version(st, TRUE)
    /\ UNCHANGED <<owner, cache, default, joined, clock, doc, pc, job, after, unsettled>>

PeersOf(stmts) == {st.peer : st \in stmts}

(* A slip for AllAdmittedAdmissible: repartition only promotes.            *)
SkipDemote ==
    /\ pc = "demote"
    /\ work' = IF prior = NoPrior THEN {owner} \cup PeersOf(admitted)
               ELSE RisenBetween(materialize(owner, Unwrap(prior)), current, admitted)
    /\ pc' = "promote"
    /\ UNCHANGED <<tables, doc, prior, base, promoted, rounds, after, unsettled>>

EndDemote ==
    /\ pc = "demote"
    /\ \A st \in admitted : admissible(current, st)
    /\ work' = IF prior = NoPrior THEN {owner} \cup PeersOf(admitted)
               ELSE RisenBetween(materialize(owner, Unwrap(prior)), current, admitted)
    /\ pc' = "promote"
    /\ UNCHANGED <<tables, doc, prior, base, promoted, rounds, after, unsettled>>

(* The held statements a round still has to look at.                       *)
Promotable == {st \in held : st.grantor \in work /\ admissible(current, st)}

InRound == pc = "promote" /\ work # {} /\ rounds < MaxRounds

Promote(st) ==
    /\ InRound
    /\ st \in Promotable
    /\ st.peer # owner
    /\ write_live_version(st, FALSE)
    /\ promoted' = TRUE
    /\ UNCHANGED <<owner, cache, default, joined, clock, doc, pc, prior, base, work,
                   rounds, after, unsettled>>

(* A statement held before the manifest that turns out to target the owner *)
(* is denied at promotion.                                                 *)
DenyPromotion(st) ==
    /\ InRound
    /\ st \in Promotable
    /\ st.peer = owner
    /\ held' = held \ {st}
    /\ UNCHANGED <<owner, admitted, cache, default, joined, clock, doc, pc, job, after,
                   unsettled>>

(* A slip for RoundsMoveRows: a round that promoted nothing counts too.    *)
IdleRound ==
    /\ InRound
    /\ Promotable = {}
    /\ base' = admitted
    /\ work' = RisenBetween(current, materialize(owner, admitted), admitted)
    /\ promoted' = FALSE
    /\ rounds' = rounds + 1
    /\ UNCHANGED <<tables, doc, pc, prior, after, unsettled>>

EndRound ==
    /\ InRound
    /\ Promotable = {}
    /\ promoted
    /\ base' = admitted
    /\ work' = RisenBetween(current, materialize(owner, admitted), admitted)
    /\ promoted' = FALSE
    /\ rounds' = rounds + 1
    /\ UNCHANGED <<tables, doc, pc, prior, after, unsettled>>

(* A slip for RolesOfLiveStatements: one round is taken to be enough.      *)
EndAfterOneRound ==
    /\ pc = "promote"
    /\ work = {} \/ rounds = 1 \/ (InRound /\ Promotable = {} /\ ~promoted)
    /\ unsettled' = (unsettled /\ prior # NoPrior)
    /\ pc' = "cache"
    /\ UNCHANGED <<tables, doc, job, after>>

(* The rounds end when a round promoted nothing, when nobody rose, or at   *)
(* the round bound, which leaves promotable statements behind.             *)
EndPromote ==
    /\ pc = "promote"
    /\ \/ /\ work = {} \/ (InRound /\ Promotable = {} /\ ~promoted)
          /\ unsettled' = (unsettled /\ prior # NoPrior)
       \/ /\ work # {} /\ rounds >= MaxRounds
          /\ unsettled' = TRUE
    /\ pc' = "cache"
    /\ UNCHANGED <<tables, doc, job, after>>

ForgetJob ==
    /\ prior' = NoPrior /\ base' = {} /\ work' = {}
    /\ promoted' = FALSE /\ rounds' = 0

(* The live statements this node authored, which a re-emit publishes.      *)
OwnLive == {st \in admitted \cup held : st.grantor = Local}

(* A slip for CrashesAreRepaired: startup does not re-emit.                *)
LeaveSilently(out) ==
    /\ outgoing' = out
    /\ pc' = IF outgoing' = {} THEN "idle" ELSE "publish"
    /\ restarting' = FALSE
    /\ ForgetJob

(* repartition returns, or its error does: what is left to publish goes    *)
(* out next.  Startup re-emits whatever repartition did.                   *)
LeaveRepartition(out) ==
    /\ outgoing' = IF restarting THEN OwnLive ELSE out
    /\ pc' = IF outgoing' = {} THEN "idle" ELSE "publish"
    /\ restarting' = FALSE
    /\ ForgetJob

(* write_cache: one transaction that makes the role table the projection.  *)
WriteCache ==
    /\ pc = "cache"
    /\ cache' = cache_rows(current)
    /\ LeaveRepartition(outgoing)
    /\ UNCHANGED <<owner, admitted, held, default, joined, clock, doc, unsettled>>

(***************************************************************************)
(* Publication.  The bridge is a bounded channel: a send may find it full. *)
(* A statement sent is this author's latest entry under its doc key.       *)
(***************************************************************************)
RevocationsFirst(st) == st.revoked \/ \A x \in outgoing : ~x.revoked

Published(st) ==
    /\ outgoing' = outgoing \ {st}
    /\ pc' = IF outgoing' = {} THEN "idle" ELSE "publish"
    /\ UNCHANGED <<tables, job, restarting, unsettled>>

publish_statement(st) ==
    /\ pc = "publish"
    /\ RevocationsFirst(st)
    /\ doc' = (doc \ Versions(st, doc)) \cup {st}
    /\ Published(st)

DropStatement(st) ==
    /\ "drop" \in Faults
    /\ pc = "publish"
    /\ RevocationsFirst(st)
    /\ Published(st)
    /\ UNCHANGED doc

(* ReemitLocalRoleStatements, on a replica open.                           *)
reemit_local_statements ==
    /\ pc = "idle"
    /\ OwnLive # {}
    /\ outgoing' = OwnLive
    /\ pc' = "publish"
    /\ UNCHANGED <<tables, doc, job, restarting, unsettled>>

(***************************************************************************)
(* Stops half way                                                          *)
(***************************************************************************)
Crash ==
    /\ "crash" \in Faults
    /\ pc # "down"
    /\ pc' = "down"
    /\ unsettled' = (unsettled \/ pc \in {"demote", "promote", "cache"})
    /\ ForgetJob
    /\ outgoing' = {} /\ restarting' = FALSE
    /\ UNCHANGED <<tables, doc>>

(* role_grants::startup: repartition_all with no prior (which does nothing *)
(* before the manifest), then the re-emit.                                 *)
Startup ==
    /\ pc = "down"
    /\ UNCHANGED <<tables, doc, unsettled>>
    /\ \/ /\ owner = NoOwner
          /\ outgoing' = OwnLive
          /\ pc' = IF outgoing' = {} THEN "idle" ELSE "publish"
          /\ UNCHANGED <<job, restarting>>
       \/ /\ owner # NoOwner
          /\ BeginRepartition(NoPrior)
          /\ restarting' = TRUE
          /\ UNCHANGED outgoing

(* A transaction of repartition fails: the handler returns the error       *)
(* before it publishes, and the DB thread goes on to the next command.     *)
Abort ==
    /\ "abort" \in Faults
    /\ pc \in {"demote", "promote", "cache"}
    /\ unsettled' = TRUE
    /\ LeaveRepartition({})
    /\ UNCHANGED <<tables, doc>>

Repartition ==
    \/ \E st \in admitted : Demote(st)
    \/ EndDemote
    \/ \E st \in held : Promote(st) \/ DenyPromotion(st)
    \/ EndRound
    \/ EndPromote
    \/ WriteCache

Command ==
    \/ \E st \in Inbound : SubmitAdmitted(st) \/ SubmitHeld(st)
    \/ \E p \in Peers, s \in Scopes : revoke_role_checked(p, s)
    \/ \E p \in Peers, s \in Scopes, role \in GrantedRole :
          assign_role_checked(p, s, role)
    \/ \E access \in {Viewer, None} : set_default_access(access)
    \/ \E o \in Peers : ManifestLands(o)
    \/ claim_orphaned_verse
    \/ reemit_local_statements

Publish == \E st \in outgoing : publish_statement(st)

Next ==
    \/ Command
    \/ Repartition
    \/ Publish
    \/ \E st \in outgoing : DropStatement(st)
    \/ Crash
    \/ Startup
    \/ Abort

Spec == Init /\ [][Next]_vars

(* The DB thread finishes the handler it is in, and a node that went down  *)
(* is started again.  No command is owed to anyone.                        *)
Fairness == WF_vars(Repartition) /\ WF_vars(Publish) /\ WF_vars(Startup)

FairSpec == Spec /\ Fairness

(***************************************************************************)
(* Properties                                                              *)
(***************************************************************************)
TypeOK ==
    /\ owner \in Peers \cup {NoOwner}
    /\ admitted \subseteq RoleStatement
    /\ held \subseteq RoleStatement
    /\ cache \subseteq CacheRow
    /\ default \in {Viewer, None}
    /\ joined \in BOOLEAN
    /\ clock \in Nat
    /\ doc \subseteq RoleStatement
    /\ pc \in {"idle", "demote", "promote", "cache", "publish", "down"}
    /\ prior \subseteq SUBSET RoleStatement
    /\ base \subseteq RoleStatement
    /\ work \subseteq Peers
    /\ promoted \in BOOLEAN
    /\ rounds \in Nat
    /\ outgoing \subseteq RoleStatement
    /\ restarting \in BOOLEAN
    /\ unsettled \in BOOLEAN

Settled == pc \in {"idle", "publish"} /\ owner # NoOwner /\ ~unsettled

(* One live version per key: no key has two statements in role_grant and   *)
(* role_statement_pending together, whatever crashed or failed.            *)
OneLiveVersion ==
    \A x, y \in admitted \cup held :
        StatementKey(x) = StatementKey(y) => x = y /\ ~(x \in admitted /\ x \in held)

(* Between handlers no held statement's grantor has the authority that     *)
(* would admit it: the worklist over risen DIDs missed nobody.             *)
NoneHeldInVain ==
    Settled => \A st \in held : ~admissible(load_effective_roles, st)

(* Between handlers every admitted statement is admissible.                *)
AllAdmittedAdmissible ==
    Settled => \A st \in admitted : admissible(load_effective_roles, st)

(* The roles in force are those of every live statement, admitted or held, *)
(* so they do not depend on the order statements arrived in.               *)
RolesOfLiveStatements ==
    Settled => RolesOf(load_effective_roles) = RolesOf(materialize(owner, admitted \cup held))

(* Each round of promotion moves at least one row into role_grant ("each   *)
(* round moves >= 1 row, so it terminates anyway"), so the round bound     *)
(* leaves promotable statements held only in a verse with as many rows.    *)
RoundsMoveRows ==
    pc \in {"promote", "cache"} => rounds <= Cardinality(admitted)

LookupIsRoleAt ==
    \A p \in Peers, s \in Scopes :
        resolve_role(owner, cache, None, p, s) = role_at(load_effective_roles, p, s)

(* Between handlers a role lookup over the cache, nearest row first,       *)
(* returns exactly role_at of the admitted statements.                     *)
CacheIsRoleAt == Settled => LookupIsRoleAt

(* The same without regard to how the owner came to be the owner: what     *)
(* cache_rows and the claim handler's tests say of every verse.            *)
CacheFollowsOwner == pc = "idle" /\ owner # NoOwner => LookupIsRoleAt

(***************************************************************************)
(* What makes these inductive: the store in the middle of a repartition.   *)
(***************************************************************************)
InRepartition == pc \in {"demote", "promote", "cache"}

HeldQuiet == \A st \in held : ~admissible(load_effective_roles, st)

(* Nobody has authority before the manifest, so nothing is admitted.       *)
NothingBeforeManifest ==
    owner = NoOwner => admitted = {} /\ ~InRepartition

(* At rest, also while the node is down.                                   *)
AtRestInv ==
    ~InRepartition /\ owner # NoOwner /\ ~unsettled =>
        HeldQuiet /\ cache = cache_rows(load_effective_roles)

(* What demotion has taken out of role_grant is inadmissible; a held       *)
(* statement was inadmissible before this handler, or was just demoted;    *)
(* an owner's cell stays an owner's cell.                                  *)
DemoteInv ==
    pc = "demote" =>
        /\ admitted \subseteq base
        /\ \A st \in base \ admitted : ~admissible(current, st)
        /\ ~promoted /\ rounds = 0
        /\ prior # NoPrior =>
              /\ prior = Some(Unwrap(prior))
              /\ \A x \in OwnerStatements(owner, Unwrap(prior)) :
                    \E y \in OwnerStatements(owner, base) : Cell(y) = Cell(x)
              /\ ~unsettled => \A st \in held :
                    \/ ~admissible(materialize(owner, Unwrap(prior)), st)
                    \/ ~admissible(current, st)

(* The worklist names every grantor whose held statements `current` would  *)
(* admit.                                                                  *)
PromoteInv ==
    pc = "promote" =>
        /\ OwnerStatements(owner, base) \subseteq admitted
        /\ ~promoted => load_effective_roles = current
        /\ promoted => work # {} /\ rounds < MaxRounds
        /\ prior = NoPrior \/ ~unsettled =>
              \A st \in held : admissible(current, st) => st.grantor \in work

CacheInv ==
    pc = "cache" =>
        /\ load_effective_roles = current
        /\ ~unsettled => HeldQuiet

StoreInv ==
    /\ OneLiveVersion
    /\ NothingBeforeManifest
    /\ AtRestInv
    /\ DemoteInv
    /\ PromoteInv
    /\ CacheInv

(* Every live statement, or a newer version of its key, is still there     *)
(* after the step; repartition's denial deletes what targets the owner.    *)
LiveStatementKept ==
    \A x \in admitted \cup held :
        \/ \E y \in admitted' \cup held' :
              StatementKey(y) = StatementKey(x) /\ (y = x \/ is_newer(y, x))
        \/ x.peer = owner

(* A live statement is never lost and never replaced by an older one: not  *)
(* by placement, demotion, promotion, a crash or a restart.  Only one that *)
(* targets the owner is deleted (repartition's denial).                    *)
LiveVersionsAdvance ==
    [][LiveStatementKept]_vars

(* Publication never goes backwards: what the bridge takes for a key is    *)
(* never older than what it took before ("a re-emit can never replay a     *)
(* superseded grant").                                                     *)
NeverReplayed ==
    [][\A x \in doc, y \in doc' :
          StatementKey(x) = StatementKey(y) => y = x \/ is_newer(y, x)]_vars

(* AC-42: once crashes stop, the store settles again, and every live       *)
(* statement this node authored reaches the bridge, also one whose handler *)
(* died between its commit and its publication.                            *)
CrashesAreRepaired ==
    <>[](pc # "down") =>
        []<>(pc = "idle" /\ ~unsettled /\ OwnLive \subseteq doc)
=============================================================================
