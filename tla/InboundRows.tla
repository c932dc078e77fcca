----------------------------- MODULE InboundRows -----------------------------
(***************************************************************************)
(* One inbound replicated row at one node (fe-database                     *)
(* handlers/replicated_row.rs, merge.rs, scene_publication/inbound.rs):    *)
(* the admission gate that allows, denies or defers it, and what applying  *)
(* it does to the durable tables.                                          *)
(*                                                                         *)
(* The replica is one verse's.  Tables modelled: verse, fractal, petal,    *)
(* node, iot_reading, device_enrolment.  A row's payload is reduced to     *)
(* what the gate and the merge look at.  The role tables are settled (see  *)
(* RoleStore), so a role is looked up in the cache they project to.        *)
(***************************************************************************)
EXTENDS RoleGrants, Sequences

CONSTANTS
    Fractals, Petals, Nodes, Readings,    \* ids
    Rows,           \* the rows peers may deliver
    RoleStates,     \* the contents the settled role_grant table may have
    DidRank,        \* the byte order of DIDs
    Local,          \* this node's DID, the publisher of its own commits
    NoRef,          \* an absent row, field or clock
    Null            \* a field that is present and null

VARIABLES
    owner,      \* verse.created_by, or NoOwner while there is no verse row
    namespace,  \* verse.namespace_id, the id of its replica, or NoRef
    default,    \* verse.default_access
    admitted,   \* table role_grant, settled
    fractal,    \* fractal id -> "here", "other" (another verse's) or NoRef
    petal,      \* petal id -> [fractal, reqs] or NoRef
    node,       \* node id -> [petal, tomb, from] or NoRef
    clock,      \* table node_scene_clock: node id -> <<hlc, publisher>> or NoRef
    journal,    \* the latest node_log fact: node id -> [hlc, scope, row] or NoRef
    hlc,        \* HLC_STATE, in memory: the highest HLC issued or observed
    reading,    \* table iot_reading: the ids present
    enrolled    \* DID -> "none", "enrolled" or "revoked"

verse == <<owner, namespace, default>>
scene == <<node, clock, journal, hlc>>
store == <<verse, admitted, fractal, petal, scene, reading, enrolled>>

(***************************************************************************)
(* A row is [table, id, author, ref, val, ns, tomb, hlc]:                  *)
(*   verse             ref = created_by        val = default_access        *)
(*                     id = "verse" when the wire key and the claimed      *)
(*                     verse_id are this verse's; ns = namespace_id, NoRef *)
(*   fractal           ref = "here", "other" or NoRef (names no verse)     *)
(*   petal             ref = fractal_id        val = hexon_manifest, Null, *)
(*                                             NoRef (field absent)        *)
(*   node              ref = petal_id, NoRef   tomb = tombstone            *)
(*                     hlc = clock of a complete snapshot, 0 = unversioned *)
(*   iot_reading       ref = petal_id          val = node_id               *)
(*   device_enrolment  id = the principal      tomb = a revocation         *)
(***************************************************************************)

(***************************************************************************)
(* build_scope: the path from the verse down.                              *)
(***************************************************************************)
VerseScope == <<>>
FractalScope(f) == <<f>>
PetalScope(f, p) == <<f, p>>

ASSUME InboundAssumption ==
    /\ Scopes = {VerseScope} \cup {FractalScope(f) : f \in Fractals}
                  \cup {PetalScope(f, p) : f \in Fractals, p \in Petals}
    /\ RoleStates \subseteq SUBSET RoleStatement

(* What the settled role_grant table amounts to under each owner, and the  *)
(* cache rows it projects to.                                              *)
Effective ==
    [own \in Peers \cup {NoOwner} |->
        [stmts \in RoleStates \cup {{}} |-> materialize(own, stmts)]]

CacheRows ==
    [own \in Peers \cup {NoOwner} |->
        [stmts \in RoleStates \cup {{}} |-> cache_rows(Effective[own][stmts])]]

RoleOf(did, s) == resolve_role(owner, CacheRows[owner][admitted], default, did, s)

(***************************************************************************)
(* Verdicts and deferral reasons                                           *)
(***************************************************************************)
Allow == <<"allow">>
Deny == <<"deny">>
Defer(reason) == <<"defer", reason>>

Manifest == <<"manifest">>
Parent(table, id) == <<"parent", table, id>>
AuthorRole(did) == <<"role", did>>

IsDefer(verdict) == verdict[1] = "defer"

(* role_gate: the author's role at each gated scope.                       *)
role_gate(did, scopes, floor) ==
    IF \A s \in scopes : RoleOf(did, s) >= floor THEN Allow ELSE Defer(AuthorRole(did))

is_verse_member(did) ==
    \/ RoleOf(did, VerseScope) # None
    \/ has_any_role(Effective[owner][admitted], did)

(***************************************************************************)
(* Referential confinement.  locate_* yields Allow for "here".             *)
(***************************************************************************)
(* A slip for ForeignRowsUntouched: any known fractal counts as here.      *)
LocateKnown(f) == IF fractal[f] = NoRef THEN Defer(Parent("fractal", f)) ELSE Allow

locate_fractal(f) ==
    CASE fractal[f] = NoRef -> Defer(Parent("fractal", f))
      [] fractal[f] = "here" -> Allow
      [] OTHER -> Deny

locate_petal(p) ==
    IF petal[p] = NoRef THEN Defer(Parent("petal", p)) ELSE locate_fractal(petal[p].fractal)

locate_node_in_petal(n, p) ==
    CASE node[n] = NoRef -> Defer(Parent("node", n))
      [] node[n] # NoRef /\ node[n].petal = p -> Allow
      [] OTHER -> Deny

ScopeOfPetal(p) == PetalScope(petal[p].fractal, p)

(* The first of two checks that does not allow.                            *)
FirstStop(one, two) == IF one # Allow THEN one ELSE two

(* The identity fields never change, except that a replica id the local    *)
(* row never had may be filled in, by a Manager.                           *)
confine_verse(row) ==
    IF \/ row.ref \notin {NoRef, owner}
       \/ NoRef \notin {row.ns, namespace} /\ row.ns # namespace
    THEN Deny
    ELSE role_gate(row.author, {VerseScope},
                   IF row.val \notin {NoRef, default} \/ row.ns \notin {NoRef, namespace}
                   THEN Manager ELSE Editor)

confine_fractal(row) ==
    IF \/ row.ref = "other"
       \/ fractal[row.id] = "other"
       \/ row.ref = NoRef /\ fractal[row.id] = NoRef
    THEN Deny
    ELSE role_gate(row.author, {FractalScope(row.id)}, Editor)

RequirementsOf(p) == IF petal[p] = NoRef THEN NoRef ELSE petal[p].reqs

(* An absent hexon_manifest changes nothing; an explicit null is a change  *)
(* where something is stored.                                              *)
RequirementsChanged(row) ==
    /\ row.val # NoRef
    /\ RequirementsOf(row.id) # IF row.val = Null THEN NoRef ELSE row.val

(* A petal that moves is gated at the scope it leaves as well.             *)
confine_petal(row) ==
    LET from == IF petal[row.id] = NoRef THEN row.ref ELSE petal[row.id].fractal
        stop == FirstStop(locate_fractal(row.ref), locate_fractal(from))
    IN IF stop # Allow THEN stop
       ELSE role_gate(row.author, {PetalScope(f, row.id) : f \in {row.ref, from}},
                      IF RequirementsChanged(row) THEN Manager ELSE Editor)

(* A slip for WritersHadTheRole: a node that moves is judged only at the   *)
(* petal it enters.                                                        *)
ConfinePayloadPetal(row) ==
    LET stored == IF node[row.id] = NoRef THEN NoRef ELSE node[row.id].petal
        home == IF row.ref = NoRef THEN stored ELSE row.ref
        stop == FirstStop(locate_petal(home),
                          IF stored = NoRef THEN Allow ELSE locate_petal(stored))
    IN IF home = NoRef THEN Defer(Parent("node", row.id))
       ELSE IF stop # Allow THEN stop
       ELSE role_gate(row.author, {ScopeOfPetal(home)}, Editor)

(* The payload's petal and the durable row's petal must both be here; a    *)
(* row that names no petal for an unknown node waits for that node.        *)
confine_node(row) ==
    LET stored == IF node[row.id] = NoRef THEN NoRef ELSE node[row.id].petal
        petals == {row.ref, stored} \ {NoRef}
        located(p) == IF p = NoRef THEN Allow ELSE locate_petal(p)
        stop == FirstStop(located(row.ref), located(stored))
    IN CASE stop # Allow -> stop
         [] petals = {} -> Defer(Parent("node", row.id))
         [] OTHER -> role_gate(row.author, {ScopeOfPetal(p) : p \in petals}, Editor)

confine_reading(row) ==
    LET stop == FirstStop(locate_petal(row.ref), locate_node_in_petal(row.val, row.ref))
    IN IF stop # Allow THEN stop ELSE role_gate(row.author, {ScopeOfPetal(row.ref)}, Editor)

(* An enrolment waits for the manifest and for membership; a revocation    *)
(* waits for nothing.                                                      *)
admit_enrolment(row) ==
    CASE row.tomb -> Allow
      [] ~row.tomb /\ owner = NoOwner -> Defer(Manifest)
      [] OTHER -> IF is_verse_member(row.author) THEN Allow
                  ELSE Defer(AuthorRole(row.author))

admit_inbound_row(row) ==
    CASE row.table = "device_enrolment" -> admit_enrolment(row)
      [] row.table = "verse" /\ row.id # "verse" -> Deny
      [] owner = NoOwner /\ row.table = "verse" /\ row.id = "verse" ->
            IF row.ref \in Peers THEN Allow ELSE Deny
      [] owner = NoOwner /\ row.table \notin {"verse", "device_enrolment"} -> Defer(Manifest)
      [] owner # NoOwner /\ row.table = "verse" /\ row.id = "verse" -> confine_verse(row)
      [] owner # NoOwner /\ row.table = "fractal" -> confine_fractal(row)
      [] owner # NoOwner /\ row.table = "petal" -> confine_petal(row)
      [] owner # NoOwner /\ row.table = "node" -> confine_node(row)
      [] owner # NoOwner /\ row.table = "iot_reading" -> confine_reading(row)

(***************************************************************************)
(* Applying an allowed row.  Outcomes: Applied (and AppliedTombstone),     *)
(* Skipped (NotApplicable, SkippedTombstoned: nothing is written), or a    *)
(* late Deny.                                                              *)
(***************************************************************************)
Applied == <<"applied">>
Skipped == <<"skipped">>

SceneClock(row) == <<row.hlc, row.author>>

ClockLeq(one, two) ==
    \/ one[1] < two[1]
    \/ one[1] = two[1] /\ DidRank[one[2]] <= DidRank[two[2]]

Tombstoned(n) == node[n] # NoRef /\ node[n].tomb

(* The latest journal fact describes the row as it is stored: the row is a *)
(* local commit, published or not.                                         *)
JournalMatches(n) ==
    /\ NoRef \notin {node[n], journal[n]}
    /\ journal[n].row = node[n]
    /\ journal[n].scope = ScopeOfPetal(node[n].petal)

LocalClock(n) == <<journal[n].hlc, Local>>

(* A slip for NodeOrderFree: a local commit counts only once published.    *)
PublishedClock(n) == clock[n]

(* What a snapshot must be later than: the stored clock or, if higher, the *)
(* local commit nobody has published yet.                                  *)
CurrentClock(n) ==
    IF JournalMatches(n) /\ (clock[n] = NoRef \/ ~ClockLeq(LocalClock(n), clock[n]))
    THEN LocalClock(n) ELSE clock[n]

(* apply_complete: a tombstone dominates; otherwise the later clock wins,  *)
(* and a snapshot never moves a node to another petal.                     *)
apply_complete(row) ==
    CASE node[row.id] # NoRef /\ node[row.id].petal # row.ref -> Deny
      [] Tombstoned(row.id) /\ ~row.tomb -> Skipped
      [] CurrentClock(row.id) # NoRef /\ ClockLeq(SceneClock(row), CurrentClock(row.id))
           /\ (row.tomb => Tombstoned(row.id)) -> Skipped
      [] OTHER -> Applied

(* A slip for TombstonesStay: the local tombstone is not looked at.        *)
MergeOverTombstone(row) ==
    IF ~row.tomb /\ clock[row.id] # NoRef THEN Skipped ELSE Applied

(* apply_replicated_node, which an unversioned live row reaches only while *)
(* the node has no clock.                                                  *)
apply_replicated_node(row) ==
    IF ~row.tomb /\ (clock[row.id] # NoRef \/ Tombstoned(row.id)) THEN Skipped ELSE Applied

OutcomeOf(row) ==
    LET verdict == admit_inbound_row(row) IN
    CASE verdict # Allow -> verdict
      [] verdict = Allow /\ row.table = "node" ->
            IF row.hlc > 0 THEN apply_complete(row) ELSE apply_replicated_node(row)
      [] verdict = Allow /\ row.table = "device_enrolment"
           /\ enrolled[row.id] = "revoked" /\ ~row.tomb -> Skipped
      [] verdict = Allow /\ row.table = "petal" /\ row.val = Null -> Deny
      [] OTHER -> Applied

(* A slip for TypeOK: a merge that names no petal clears it.               *)
MergeNullPetal(row) ==
    LET stored == node[row.id]
        fresh == [petal |-> row.ref, tomb |-> row.tomb, from |-> SceneClock(row)]
    IN IF row.tomb /\ row.hlc = 0 /\ stored # NoRef
       THEN [stored EXCEPT !.tomb = TRUE, !.from = SceneClock(row)] ELSE fresh

(* The node row after the row is applied: a snapshot replaces it, an       *)
(* unversioned tombstone only marks it, an unversioned live row is merged. *)
NodeAfter(row) ==
    LET stored == node[row.id]
        fresh == [petal |-> row.ref, tomb |-> row.tomb, from |-> SceneClock(row)]
    IN IF row.hlc > 0 \/ stored = NoRef THEN fresh
       ELSE IF row.tomb THEN [stored EXCEPT !.tomb = TRUE, !.from = SceneClock(row)]
       ELSE [fresh EXCEPT !.petal = IF row.ref = NoRef THEN stored.petal ELSE row.ref]

Overlay(new, old) == IF new = NoRef THEN old ELSE new

PetalAfter(row) ==
    [fractal |-> row.ref, reqs |-> Overlay(row.val, RequirementsOf(row.id))]

(* The role table once its worklist is quiet, for the verse's owner.       *)
Settled(own, stmts) ==
    \A st \in stmts : /\ validate_statement(own, st)
                      /\ admissible(Effective[own][stmts], st)

apply_static_verse(row) ==
    /\ owner' = IF owner = NoOwner THEN row.ref ELSE owner
    /\ namespace' = Overlay(row.ns, namespace)
    /\ default' = Overlay(row.val, default)
    /\ IF owner # NoOwner THEN UNCHANGED admitted
       ELSE admitted' \in {stmts \in RoleStates : Settled(row.ref, stmts)}
    /\ UNCHANGED <<fractal, petal, scene, reading, enrolled>>

IsSnapshot(row) == row.table = "node" /\ row.hlc > 0

ApplyContent(row) ==
    /\ UNCHANGED <<verse, admitted, journal>>
    /\ fractal' = IF row.table = "fractal"
                  THEN [fractal EXCEPT ![row.id] = Overlay(row.ref, @)] ELSE fractal
    /\ petal' = IF row.table = "petal"
                THEN [petal EXCEPT ![row.id] = PetalAfter(row)] ELSE petal
    /\ node' = IF row.table = "node"
               THEN [node EXCEPT ![row.id] = NodeAfter(row)] ELSE node
    /\ clock' = IF IsSnapshot(row)
                THEN [clock EXCEPT ![row.id] = SceneClock(row)] ELSE clock
    /\ hlc' = IF IsSnapshot(row) /\ row.hlc > hlc THEN row.hlc ELSE hlc
    /\ reading' = IF row.table = "iot_reading" THEN reading \cup {row.id} ELSE reading
    /\ enrolled' = IF row.table = "device_enrolment"
                   THEN [enrolled EXCEPT ![row.id] = IF row.tomb THEN "revoked" ELSE "enrolled"]
                   ELSE enrolled

(* apply_replicated_row_reporting_with_publisher, on the tables.           *)
WriteRow(row) ==
    CASE OutcomeOf(row) # Applied -> UNCHANGED store
      [] OutcomeOf(row) = Applied /\ row.table = "verse" -> apply_static_verse(row)
      [] OutcomeOf(row) = Applied /\ row.table # "verse" -> ApplyContent(row)
=============================================================================
