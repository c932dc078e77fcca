-------------------------- MODULE InboundAdmissions --------------------------
(***************************************************************************)
(* The deferred-admission queue (fe-database                               *)
(* handlers/inbound_admissions.rs) over the tables of InboundRows, with    *)
(* the commands of the database thread that change what it waits for.  The *)
(* thread runs one command at a time, so a retry worklist is interrupted   *)
(* only by a crash, which loses the queue and keeps the tables.            *)
(***************************************************************************)
EXTENDS InboundRows, SequencesExt

CONSTANTS
    VerseCap,       \* DEFERRED_PER_VERSE
    AuthorCap,      \* DEFERRED_PER_AUTHOR
    Foreign,        \* ids of another verse in the same database
    Commands,       \* the local commands users issue
    Ahead,          \* HLCs that may lie over five minutes past the wall clock
    MaxHlc,         \* bound on the HLCs local commits are stamped with
    Watched,        \* the nodes whose history NodeOrderFree speaks of
    MaxFailures     \* bound on the applies that fail

VARIABLES
    queue,      \* rows by age: a sequence of [row, reason]
    triggers,   \* the worklist of drain
    batch,      \* keys still to retry for the trigger popped last
    retries,    \* retries of this call
    failures,   \* applies that failed so far
    passed      \* history of the watched nodes: rows merged or skipped, local commits

admissions == <<queue, triggers, batch, retries>>
vars == <<store, admissions, failures, passed>>

ASSUME QueueAssumption ==
    VerseCap \in Nat \ {0} /\ AuthorCap \in Nat \ {0} /\ MaxHlc \in Nat

MAX_RETRIES_PER_CALL == 4 * VerseCap

RowKey(row) == <<row.table, row.id, row.author>>

Idle == triggers = <<>> /\ batch = <<>>

(***************************************************************************)
(* The queue's operations                                                  *)
(***************************************************************************)
forget(q, key) == SelectSeq(q, LAMBDA e : RowKey(e.row) # key)

OldestOf(q, author) == CHOOSE i \in DOMAIN q :
    /\ q[i].row.author = author
    /\ \A j \in 1 .. i - 1 : q[j].row.author # author

CapAuthor(q, author) ==
    IF Len(SelectSeq(q, LAMBDA e : e.row.author = author)) > AuthorCap
    THEN RemoveAt(q, OldestOf(q, author)) ELSE q

CapVerse(q) == IF Len(q) > VerseCap THEN Tail(q) ELSE q

(* A slip for QueueSound: the queued version of the key is kept.           *)
HoldBeside(q, row, reason) ==
    CapVerse(CapAuthor(Append(q, [row |-> row, reason |-> reason]), row.author))

hold(q, row, reason) ==
    CapVerse(CapAuthor(Append(forget(q, RowKey(row)), [row |-> row, reason |-> reason]),
                       row.author))

KeysWaiting(reason) ==
    LET waiting == SelectSeq(queue, LAMBDA e : e.reason = reason)
    IN [i \in DOMAIN waiting |-> RowKey(waiting[i].row)]

(***************************************************************************)
(* settle: queue or forget the row, and enqueue the triggers it fired.     *)
(* Failed is the outcome of an apply that returned an error.               *)
(***************************************************************************)
Failed == <<"failed">>

(* A slip for QueueHoldsLatest: only a deferral drops the queued version.  *)
SettleKeepingQueued(q, row, previous, outcome) ==
    CASE IsDefer(outcome) -> hold(q, row, outcome[2])
      [] outcome = Failed /\ previous # NoRef -> hold(q, row, previous)
      [] OTHER -> q

SettledQueue(q, row, previous, outcome) ==
    CASE IsDefer(outcome) -> hold(q, row, outcome[2])
      [] outcome = Failed -> IF previous = NoRef THEN q ELSE hold(q, row, previous)
      [] OTHER -> forget(q, RowKey(row))

SortedDids(dids) ==
    SetToSortSeq(dids, LAMBDA one, two : DidRank[one] < DidRank[two])

AuthorRoleTriggers(dids) ==
    LET sorted == SortedDids(dids) IN [i \in DOMAIN sorted |-> AuthorRole(sorted[i])]

(* repartition with no prior state reports the owner and every admitted    *)
(* peer that holds a role.                                                 *)
RisenAtManifest ==
    LET now == Effective[owner'][admitted']
    IN {owner'} \cup {p \in Peers : \E st \in admitted' :
                        st.peer = p /\ role_at(now, p, st.scope) > None}

(* A slip for NoneWaitsInVain: the manifest wakes only its own waiters.    *)
FiredWithoutRisen(row, outcome) ==
    IF outcome # Applied THEN <<>>
    ELSE (IF owner = NoOwner /\ row.table = "verse" THEN <<Manifest>> ELSE <<>>)
           \o <<Parent(row.table, row.id)>>

(* A slip for RetryGuardUnreached: a row that waits for a parent wakes the *)
(* others that do.                                                         *)
FiredOnDeferral(row, outcome) ==
    IF IsDefer(outcome) THEN <<outcome[2]>>
    ELSE IF outcome # Applied THEN <<>>
    ELSE (IF owner = NoOwner /\ row.table = "verse"
          THEN <<Manifest>> \o AuthorRoleTriggers(RisenAtManifest) ELSE <<>>)
           \o <<Parent(row.table, row.id)>>

Fired(row, outcome) ==
    IF outcome # Applied THEN <<>>
    ELSE (IF owner = NoOwner /\ row.table = "verse"
          THEN <<Manifest>> \o AuthorRoleTriggers(RisenAtManifest) ELSE <<>>)
           \o <<Parent(row.table, row.id)>>

(* What still counts once a row is accepted: a live row without a clock    *)
(* merges over a local commit that was never published.                    *)
StillPassed(row, outcome) ==
    IF outcome = Applied /\ row.hlc = 0 /\ ~row.tomb
    THEN {other \in passed : other.id # row.id \/ other.hlc = 0} ELSE passed

(* admit_scene_hlc compares a snapshot with the wall clock: one that is    *)
(* far ahead is refused, until the wall clock has caught up.               *)
MayBeAhead(row) == IsSnapshot(row) /\ row.hlc \in Ahead

(* run and settle of one row, on the queue q it is no longer in.           *)
RunAndSettle(q, row, previous) ==
    \/ LET outcome == OutcomeOf(row) IN
       /\ WriteRow(row)
       /\ queue' = SettledQueue(q, row, previous, outcome)
       /\ triggers' = triggers \o Fired(row, outcome)
       /\ passed' = IF row.id \in Watched /\ outcome \in {Applied, Skipped}
                    THEN StillPassed(row, outcome) \cup {row} ELSE passed
       /\ UNCHANGED failures
    \/ /\ MayBeAhead(row)
       /\ admit_inbound_row(row) = Allow
       /\ queue' = SettledQueue(q, row, previous, Deny)
       /\ UNCHANGED <<store, triggers, failures, passed>>
    \/ /\ failures < MaxFailures
       /\ failures' = failures + 1
       /\ queue' = SettledQueue(q, row, previous, Failed)
       /\ UNCHANGED <<store, triggers, passed>>

(***************************************************************************)
(* apply: a delivered row.  Delivery is unreliable: a row may come late,   *)
(* out of order, again (the snapshot replay on open), or never.            *)
(***************************************************************************)
Deliver(row) ==
    /\ Idle
    /\ RunAndSettle(queue, row, NoRef)
    /\ UNCHANGED <<batch, retries>>

(* drain: pop a trigger and snapshot the keys that wait on it.             *)
PopTrigger ==
    /\ batch = <<>> /\ triggers # <<>>
    /\ triggers' = Tail(triggers)
    /\ batch' = KeysWaiting(Head(triggers))
    /\ retries' = IF triggers' = <<>> /\ batch' = <<>> THEN 0 ELSE retries
    /\ UNCHANGED <<store, queue, failures, passed>>

Entry(key) == CHOOSE e \in ToSet(queue) : RowKey(e.row) = key

(* drain: remove one row of the batch and run it again; the bug guard      *)
(* abandons the worklist.                                                  *)
Retry ==
    /\ batch # <<>>
    /\ IF retries >= MAX_RETRIES_PER_CALL
       THEN /\ triggers' = <<>> /\ batch' = <<>> /\ retries' = 0
            /\ UNCHANGED <<store, queue, failures, passed>>
       ELSE LET e == Entry(Head(batch)) IN
            /\ RunAndSettle(forget(queue, Head(batch)), e.row, e.reason)
            /\ batch' = Tail(batch)
            /\ retries' = IF triggers' = <<>> /\ batch' = <<>> THEN 0 ELSE retries + 1

(***************************************************************************)
(* What changes roles and tables outside the content path                  *)
(***************************************************************************)
(* The owner's statements are superseded, never lost.                      *)
RoleStep ==
    /\ owner # NoOwner
    /\ admitted' \in {stmts \in RoleStates \ {admitted} :
                        /\ Settled(owner, stmts)
                        /\ \A st \in OwnerStatements(owner, admitted) :
                             \E now \in stmts : /\ StatementKey(now) = StatementKey(st)
                                                /\ now = st \/ is_newer(now, st)}
    /\ UNCHANGED <<verse, fractal, petal, scene, reading, enrolled>>

(* apply of an admitted role statement: the risen DIDs' rows are retried.  *)
ReceiveStatement ==
    /\ Idle
    /\ RoleStep
    /\ triggers' = AuthorRoleTriggers(RisenBetween(Effective[owner][admitted],
                                                   Effective[owner][admitted'], admitted'))
    /\ UNCHANGED <<queue, batch, retries, failures, passed>>

(* AssignRole, RevokeRole: every row that waits on a role is retried, in   *)
(* the order of a hash map.                                                *)
AwaitedRoles == {e.reason : e \in ToSet(queue)} \cap {AuthorRole(p) : p \in Peers}

AssignOrRevoke ==
    /\ Idle /\ "role" \in Commands
    /\ RoleStep
    /\ triggers' \in SetToSeqs(AwaitedRoles)
    /\ UNCHANGED <<queue, batch, retries, failures, passed>>

SetVerseDefaultAccess ==
    /\ Idle /\ "default" \in Commands
    /\ owner # NoOwner
    /\ RoleOf(Local, VerseScope) >= Manager
    /\ default' \in {None, Viewer} \ {default}
    /\ UNCHANGED <<owner, namespace, admitted, fractal, petal, scene, reading, enrolled>>
    /\ UNCHANGED <<admissions, failures, passed>>

(***************************************************************************)
(* Local edits of a node: one transaction writes the row and its journal   *)
(* fact; publication then writes the scene clock, or is deferred.          *)
(***************************************************************************)
MayEdit(i) ==
    /\ owner # NoOwner /\ node[i] # NoRef
    /\ locate_petal(node[i].petal) = Allow
    /\ RoleOf(Local, ScopeOfPetal(node[i].petal)) >= Editor

LocalRow(i, tomb, t) ==
    [table |-> "node", id |-> i, author |-> Local, ref |-> node[i].petal, val |-> NoRef,
     ns |-> NoRef, tomb |-> tomb, hlc |-> t]

(* next_hlc_timestamp, and publish_after_commit or its failure.            *)
CommitScene(i, t) ==
    /\ t > hlc
    /\ hlc' = t
    /\ clock' \in {clock, [clock EXCEPT ![i] = <<t, Local>>]}
    /\ passed' = IF i \in Watched THEN passed \cup {LocalRow(i, node'[i].tomb, t)} ELSE passed
    /\ UNCHANGED <<verse, admitted, fractal, petal, reading, enrolled, admissions, failures>>

Fact(i, t, row) == [hlc |-> t, scope |-> ScopeOfPetal(node[i].petal), row |-> row]

EditNode(i, t) ==
    /\ Idle /\ "edit" \in Commands
    /\ MayEdit(i)
    /\ node' = [node EXCEPT ![i].from = <<t, Local>>]
    /\ journal' = [journal EXCEPT ![i] = Fact(i, t, node'[i])]
    /\ CommitScene(i, t)

(* DeleteNode: the tombstone is in the operation log, and the fact appended *)
(* to node_log afterwards carries no row.                                  *)
DeleteNode(i, t) ==
    /\ Idle /\ "edit" \in Commands
    /\ MayEdit(i) /\ ~Tombstoned(i)
    /\ node' = [node EXCEPT ![i].tomb = TRUE, ![i].from = <<t, Local>>]
    /\ journal' = [journal EXCEPT ![i] = Fact(i, t, NoRef)]
    /\ CommitScene(i, t)

(* prepare: a row is published only as the local commit it still is, and   *)
(* never over a later version.                                             *)
LocalTombstone(i) == Tombstoned(i) /\ node[i].from[1] > 0 /\ node[i].from[2] = Local

CommittedAs(i) == IF JournalMatches(i) THEN LocalClock(i) ELSE node[i].from

Publishable(i) ==
    /\ MayEdit(i)
    /\ JournalMatches(i) \/ LocalTombstone(i)
    /\ clock[i] = NoRef \/ ClockLeq(clock[i], CommittedAs(i))

(* recover, when a replica opens: it may stop after any of the rows.       *)
recover ==
    /\ Idle /\ "edit" \in Commands
    /\ \E done \in SUBSET {i \in Nodes : Publishable(i)} :
         clock' = [i \in Nodes |-> IF i \in done THEN CommittedAs(i) ELSE clock[i]]
    /\ UNCHANGED <<verse, admitted, fractal, petal, node, journal, hlc, reading, enrolled>>
    /\ UNCHANGED <<admissions, failures, passed>>

(* DeleteEntity: the rows of a subtree go; scene clocks, readings,         *)
(* statements and the queue stay.                                          *)
DeletePetals(petals) ==
    /\ petal' = [p \in Petals |-> IF p \in petals THEN NoRef ELSE petal[p]]
    /\ node' = [n \in Nodes |-> IF node[n] # NoRef /\ node[n].petal \in petals
                                THEN NoRef ELSE node[n]]
    /\ passed' = {row \in passed : node'[row.id] # NoRef}
    /\ UNCHANGED <<admitted, clock, journal, hlc, reading, enrolled, admissions, failures>>

PetalsIn(fractals) == {p \in Petals : petal[p] # NoRef /\ petal[p].fractal \in fractals}

DeletePetal(p) ==
    /\ Idle /\ "delete" \in Commands
    /\ owner # NoOwner /\ locate_petal(p) = Allow
    /\ RoleOf(Local, ScopeOfPetal(p)) >= Manager
    /\ DeletePetals({p})
    /\ UNCHANGED <<verse, fractal>>

DeleteFractals(fractals) ==
    /\ DeletePetals(PetalsIn(fractals))
    /\ fractal' = [f \in Fractals |-> IF f \in fractals THEN NoRef ELSE fractal[f]]

DeleteFractal(f) ==
    /\ Idle /\ "delete" \in Commands
    /\ owner # NoOwner /\ locate_fractal(f) = Allow
    /\ RoleOf(Local, FractalScope(f)) >= Manager
    /\ DeleteFractals({f})
    /\ UNCHANGED verse

DeleteVerse ==
    /\ Idle /\ "delete" \in Commands
    /\ owner # NoOwner
    /\ RoleOf(Local, VerseScope) >= Manager
    /\ DeleteFractals({f \in Fractals : fractal[f] = "here"})
    /\ owner' = NoOwner /\ namespace' = NoRef /\ default' = Viewer

(* A restart, or a crash between two retries: the tables survive, and the  *)
(* HLC starts from the highest one they hold (init_hlc, persisted_hlc).    *)
PersistedHlc ==
    Max({0} \cup {clock[i][1] : i \in {j \in Nodes : clock[j] # NoRef}}
            \cup {journal[i].hlc : i \in {j \in Nodes : journal[j] # NoRef}})

Restart ==
    /\ queue' = <<>> /\ triggers' = <<>> /\ batch' = <<>> /\ retries' = 0
    /\ hlc' = PersistedHlc
    /\ UNCHANGED <<verse, admitted, fractal, petal, node, clock, journal, reading, enrolled>>
    /\ UNCHANGED <<failures, passed>>

Init ==
    /\ owner = NoOwner /\ namespace = NoRef /\ default = Viewer /\ admitted = {}
    /\ fractal = [f \in Fractals |-> IF f \in Foreign THEN "other" ELSE NoRef]
    /\ petal = [p \in Petals |->
                  IF p \in Foreign THEN [fractal |-> CHOOSE f \in Fractals \cap Foreign : TRUE,
                                         reqs |-> NoRef]
                  ELSE NoRef]
    /\ node = [n \in Nodes |->
                 IF n \in Foreign THEN [petal |-> CHOOSE p \in Petals \cap Foreign : TRUE,
                                        tomb |-> FALSE, from |-> <<0, Local>>]
                 ELSE NoRef]
    /\ clock = [n \in Nodes |-> NoRef]
    /\ journal = [n \in Nodes |-> NoRef]
    /\ hlc = 0
    /\ reading = {}
    /\ enrolled = [p \in Peers |-> "none"]
    /\ queue = <<>> /\ triggers = <<>> /\ batch = <<>> /\ retries = 0
    /\ failures = 0 /\ passed = {}

Next ==
    \/ \E row \in Rows : Deliver(row)
    \/ PopTrigger
    \/ Retry
    \/ ReceiveStatement
    \/ AssignOrRevoke
    \/ SetVerseDefaultAccess
    \/ \E n \in Nodes, t \in 1 .. MaxHlc : EditNode(n, t) \/ DeleteNode(n, t)
    \/ recover
    \/ \E p \in Petals : DeletePetal(p)
    \/ \E f \in Fractals : DeleteFractal(f)
    \/ DeleteVerse
    \/ Restart

Spec == Init /\ [][Next]_vars

(***************************************************************************)
(* Properties                                                              *)
(***************************************************************************)
Reasons == {Manifest} \cup {AuthorRole(p) : p \in Peers}
             \cup {Parent(row.table, row.id) : row \in Rows}
             \cup {Parent("fractal", f) : f \in Fractals}
             \cup {Parent("petal", p) : p \in Petals}
             \cup {Parent("node", n) : n \in Nodes}

Clocks == {<<row.hlc, row.author>> : row \in Rows} \cup (0 .. MaxHlc) \X {Local}

NodeRecords == [petal : Petals, tomb : BOOLEAN, from : Clocks]

(* The tables, the queue and the worklist have the shapes of the code's    *)
(* columns and fields.                                                     *)
TypeOK ==
    /\ owner \in Peers \cup {NoOwner}
    /\ namespace \in {NoRef} \cup {row.ns : row \in Rows}
    /\ default \in {None, Viewer}
    /\ admitted \in RoleStates \cup {{}}
    /\ fractal \in [Fractals -> {"here", "other", NoRef}]
    /\ petal \in [Petals -> {NoRef} \cup [fractal : Fractals,
                                          reqs : {NoRef} \cup {row.val : row \in Rows}]]
    /\ node \in [Nodes -> {NoRef} \cup NodeRecords]
    /\ clock \in [Nodes -> {NoRef} \cup Clocks]
    /\ journal \in [Nodes -> {NoRef} \cup [hlc : 1 .. MaxHlc, scope : Scopes,
                                            row : {NoRef} \cup NodeRecords]]
    /\ hlc \in {0} \cup {t[1] : t \in Clocks}
    /\ reading \subseteq Readings
    /\ enrolled \in [Peers -> {"none", "enrolled", "revoked"}]
    /\ \A e \in ToSet(queue) : e \in [row : Rows, reason : Reasons]
    /\ ToSet(triggers) \subseteq Reasons
    /\ ToSet(batch) \subseteq {RowKey(row) : row \in Rows}
    /\ retries \in 0 .. MAX_RETRIES_PER_CALL
    /\ failures \in 0 .. MaxFailures
    /\ \A row \in passed \ Rows : row.author = Local /\ row.hlc \in 1 .. MaxHlc

(* The queue keeps one version per (table, id, author), both caps hold,    *)
(* and a key of the running batch is still queued, so drain's `continue`   *)
(* for a vanished row is never taken (hold, drop_oldest, drain).           *)
QueueSound ==
    /\ \A i, j \in DOMAIN queue : RowKey(queue[i].row) = RowKey(queue[j].row) => i = j
    /\ Len(queue) <= VerseCap
    /\ \A p \in Peers : Len(SelectSeq(queue, LAMBDA e : e.row.author = p)) <= AuthorCap
    /\ \A k \in ToSet(batch) : \E e \in ToSet(queue) : RowKey(e.row) = k

(* Between commands no queued row could be admitted: whenever the fact a   *)
(* deferred row awaits has landed, the row has been retried                *)
(* (inbound_admissions.rs, module comment).                                *)
NoneWaitsInVain ==
    Idle => \A e \in ToSet(queue) : IsDefer(admit_inbound_row(e.row))

(* The bug guard on one call's worklist is never what ends it              *)
(* (MAX_RETRIES_PER_CALL: "it terminates anyway").                         *)
RetryGuardUnreached == batch # <<>> => retries < MAX_RETRIES_PER_CALL

(* After a row is delivered no other version of its key is queued, so an   *)
(* older version never overwrites it on a later retry (RowKey: "the latest *)
(* bytes").                                                                *)
LatestQueued ==
    \A e \in ToSet(queue'), row \in Rows :
        RowKey(e.row) = RowKey(row) /\ e.row # row => ~Deliver(row)

QueueHoldsLatest == [][LatestQueued]_vars

(* A node some accepted row or local command deleted stays deleted, and a  *)
(* live node with a versioned row or a local commit, published or not,     *)
(* shows the one with the highest clock: what is stored does not depend on *)
(* the order in which rows came, were released from the queue or met local *)
(* edits, also across restarts (apply_complete, apply_replicated_node,     *)
(* commit_mutation).  Only a row without a clock may replace a commit that *)
(* was never published; nothing is claimed of what came before it.         *)
NodeOrderFree ==
    \A n \in Watched : node[n] # NoRef =>
        LET rows == {row \in passed : row.id = n}
            versioned == {row \in rows : row.hlc > 0}
        IN /\ node[n].tomb <=> \E row \in rows : row.tomb
           /\ ~node[n].tomb /\ versioned # {} =>
                \E row \in versioned :
                    /\ node[n].from = SceneClock(row)
                    /\ \A other \in versioned : ClockLeq(SceneClock(other), SceneClock(row))

Holds(did, fractals, p, floor) ==
    \A f \in fractals : RoleOf(did, PetalScope(f, p)) >= floor

FractalsOf(p) == IF petal[p] = NoRef THEN {} ELSE {petal[p].fractal}

PetalOf(i) == IF node[i] = NoRef THEN {} ELSE {node[i].petal}

RowStep(row) ==
    \/ Deliver(row)
    \/ batch # <<>> /\ Entry(Head(batch)).row = row /\ Retry

(* Whoever's row changes a node or a petal, delivered or retried, is an    *)
(* Editor where it was and where it ends, and a Manager there to change a  *)
(* petal's requirements; default access and replica id of a known verse    *)
(* are changed by a Manager of the verse.  All by the roles in force at    *)
(* that step, not those when the row arrived (confine_*, role_gate).       *)
ChangedByWriters ==
    <<node, petal, verse>>' # <<node, petal, verse>> =>
        \A row \in Rows : RowStep(row) =>
            /\ \A i \in Nodes : node'[i] # node[i] =>
                 \A p \in PetalOf(i) \cup PetalOf(i)' : Holds(row.author, FractalsOf(p), p, Editor)
            /\ \A p \in Petals : petal'[p] # petal[p] =>
                 Holds(row.author, FractalsOf(p) \cup FractalsOf(p)', p,
                       IF RequirementsOf(p)' # RequirementsOf(p) THEN Manager ELSE Editor)
            /\ owner # NoOwner /\ verse' # verse => RoleOf(row.author, VerseScope) >= Manager

WritersHadTheRole == [][ChangedByWriters]_vars

ForeignFractals == {f \in Fractals : fractal[f] = "other"}

ForeignNodes == {i \in Nodes : PetalOf(i) \cap PetalsIn(ForeignFractals) # {}}

(* Rows of another verse in the same database are never changed, and no    *)
(* petal or node is moved into or out of it (referential confinement).     *)
ForeignKept ==
    /\ \A f \in ForeignFractals : fractal'[f] = "other"
    /\ PetalsIn(ForeignFractals)' = PetalsIn(ForeignFractals)
    /\ ForeignNodes' = ForeignNodes
    /\ \A p \in PetalsIn(ForeignFractals) : petal'[p] = petal[p]
    /\ \A i \in ForeignNodes : node'[i] = node[i]

ForeignRowsUntouched == [][ForeignKept]_vars

(* A tombstoned node comes back only after its row was physically deleted: *)
(* no live row, late, queued or replayed, resurrects it (N-4).             *)
TombstoneKept ==
    \A n \in Nodes : Tombstoned(n) => node'[n] = NoRef \/ node'[n].tomb

TombstonesStay == [][TombstoneKept]_vars
=============================================================================
