# FractalEngine: TLA+ models and proofs

FractalEngine is a local-first, peer-to-peer spatial engine. Every peer keeps its
own SurrealDB database; changes travel between peers as rows of iroh documents and
each peer decides for itself what to accept. This directory models the part of the
program that makes that decision: who has which role, and what happens to a row
that arrives from another peer. TLC checks the models on small instances and TLAPS
proves the central results for every value of the constants.

## The system

| Part | State | Operations | What is hard |
|---|---|---|---|
| Role statements (`fe-policy`) | none (pure) | `validate_statement`, `materialize`, `role_at`, `cache_rows` | a least fixpoint over mutually vouching Managers; a cache that must answer like the fixpoint |
| Role store (`fe-database/role_grants.rs`, `role_manager.rs`) | `role_grant`, `role_statement_pending`, `role` cache, owner, default access | place a statement, repartition, assign, revoke, publish, re-emit, startup | order of arrival; a crash between two transactions; dropped publications |
| Admission gate (`handlers/replicated_row.rs`) | reads the hierarchy and the roles | `admit_inbound_row`, `confine_*`, apply | rows before their parents, manifest or authority; subjects that move |
| Deferred queue (`handlers/inbound_admissions.rs`) | queue, worklist (memory only) | `apply`, `hold`, `settle`, `drain` | missed triggers, caps, failed applies, stale versions |
| Node merge (`merge.rs`, `scene_publication`) | node rows, scene clocks, journal, HLC | snapshot, tombstone, unversioned row, local edit, publish, recover | concurrent publishers, unpublished local commits, resurrection, equal timestamps |
| Sync (`fe-sync`) | replicas, pending writes, shards | open, close, publish, forward, query | loss, eviction, partial answers |
| Canonical log (`fe-canonical-log`) | signed envelopes, branches, checkpoints | admit, fork, checkpoint, retain | lineage, retention against readers |
| Invites and join (`fe-database`) | invites, delegations | issue, admit, finalize | expiry and replay |
| UI, rendering, API, plugins, formats | caches and sessions | commands to the database thread | undo, plugin lifecycle |

Threads (UI, network, database, sync, replication bridge, API, plugins) talk over
channels. The database thread runs one command at a time, so handlers do not
interleave with each other. What interleaves is the order of commands, the
transactions inside a handler with a crash, and a full bridge with publication.
`PROJECT.json` lists every part, modelled or not, and every hazard with its line.

## Modules

**RoleGrants** holds the pure definitions of `fe-policy`. A statement is a record; a
scope is an element of `Scopes` with its chain of ancestors (`Chain`).
`materialize` is defined as the least fixpoint; **MaterializeLoop** models the passes
the code actually runs, one statement per step, in any order.

**RoleStore** is one verse on one node. `admitted`, `held`, `cache`, `owner` and
`default` are the tables; `doc` is what the bridge has taken. `pc` is where the
running handler is: each step of `repartition` is one transaction of the code, so
`Crash` can fall between any two. `Startup` runs `repartition_all` and the re-emit.
`Abort` is a failed transaction: the store is then `unsettled` until a repartition
with no prior roles to compare with (startup, or a new owner's manifest). `joined` says
whether a `verse_member` row shows the verse was shared; ClaimOrphanedVerse refuses such
a verse.

**InboundRows** is the gate and the apply of one row (`verse`, `fractal`, `petal`,
`node`, `iot_reading`, `device_enrolment`). **InboundAdmissions** adds the queue: one
step is one apply or one retry, `triggers` and `batch` are `drain`'s worklist, and the
queue is a sequence in order of arrival. Role statements enter it as settled sets
(`RoleStates`): that a settled store has exactly these roles is what the RoleStore
proofs show, and `Effective` and `CacheRows` tabulate them.

A node is edited or deleted locally in one transaction that also writes its `journal`
fact, stamped with the next HLC; publication then sets the scene `clock`, or is deferred
to `recover`. A snapshot must be later than `CurrentClock`, the published clock or a
higher unpublished local commit, and raises the HLC; a restart restores the HLC from the
tables. A snapshot far ahead of the wall clock is refused. `passed` is a history variable:
what the gate let through, and the local commits, of the nodes in `Watched`.

`MCRoleStore`, `MCMaterializeLoop` and `MCInboundAdmissions` hold the instances.
Definitions introduced as "a slip" are the faulty variants used to confirm that each
property can fail; no specification uses them.

## What the runs check

| Run | Properties | Distinct states | Shows |
|---|---|---|---|
| store_quiet | AllAdmittedAdmissible | 77482 | without crashes only admissible statements stay admitted |
| store_crash | TypeOK, OneLiveVersion, NoneHeldInVain, RolesOfLiveStatements, CacheIsRoleAt, RoundsMoveRows | 319112 | the same store with crashes and dropped publications |
| store_abort | LiveVersionsAdvance, NeverReplayed | 260397 | with failed transactions, a round bound of one and a claimed verse |
| store_repair | CrashesAreRepaired | 14424 | the store settles again and re-emits |
| materialize_passes | TypeOK, BoundSuffices, LoopComputesLeast | 29746 | the passes reach the least fixpoint within their bound |
| inbound_branch | NoneWaitsInVain, RetryGuardUnreached | 268212 | a branch in any order of delivery, with role changes, deletions, restarts |
| inbound_merge | TypeOK, QueueSound, NodeOrderFree | 276921 | competing rows of one node against local edits, tight caps, one failed apply, restarts |
| inbound_moves | WritersHadTheRole, ForeignRowsUntouched, QueueHoldsLatest, TombstonesStay | 133248 | rows that move or delete subjects or name another verse, while roles rise and fall and subtrees are deleted, without failed applies |

Four runs show a disagreement between a comment and the code; `PROJECT.json` quotes it.

- **store_not_quiescent**: after a crash, startup can promote a statement and the pin
  that makes it inadmissible in the same repartition and never demotes it. The roles
  are still right.
- **store_claim**: claiming an orphaned verse leaves the cache of the former owner's
  grants.
- **inbound_default**: changing the default access retries no deferred row.
- **inbound_unpin**: an inbound revocation of a None pin raises what the gate sees, but
  not `role_at`, so the rows of that author are not retried.

QueueHoldsLatest is checked without failed applies. With one it does not hold: when the
apply of a newer version fails, `settle` leaves the older version of its key queued, and
a later trigger may apply it. The comment on `RowKey` ("the latest bytes") can be read either
way, so this is recorded as a hazard only.

### Bounds

Role store: four peers, a verse and a fractal, and statements that delegate through
two Managers, cut authority with a pin, give it back and retract, so that promotion
needs more than one round and losing one role can undo another.
`Budget` (held statements per grantor), `MaxRounds` (promotion rounds; 4096 in the
code) and `MaxClock` (local commands) bound the rest; store_abort sets `MaxRounds` to 1
so that the bound is hit. Inbound: one branch of the hierarchy and three peers;
`VerseCap` and `AuthorCap` replace the code's caps and are small enough to be reached
in inbound_merge (2 and 2) and inbound_moves (2 and 1), `MaxFailures` bounds failed
applies, `MaxHlc` the HLCs of local commits, and `Ahead` holds the HLCs that may be
refused as too far in the future. In inbound_merge two HLCs and three publishers, one of
them local, give older, newer and equal clocks. inbound_moves watches no node: its
properties need no history. Deadlock is checked except in
store_quiet and materialize_passes, which end when no input is left, and in the runs
that show a disagreement.

### Fairness

Only store_repair assumes any: weak fairness of the steps of a running repartition,
of publication and of startup. The database thread runs a handler to its end, and the
property speaks only of behaviours in which the node eventually stays up. No command
or delivery is assumed to happen. Dropped publications are not part of that run:
a dropped statement waits for the next replica open, which nothing guarantees.

## What is proved

For all peers, scopes, statements and bounds allowed by the named assumptions
(`ScopeAssumption`: ancestors form a chain; `OwnerAssumption`, `StoreAssumption`,
`LoopAssumption`: types, and finitely many statements):

- `RoleGrantsProofs`: **CacheProjection**, nearest-row lookup over `cache_rows` is
  `role_at`.
- `RoleStoreProofs`: **TypeCorrect**, **OneVersion**, **WorklistComplete**,
  **RolesAreOrderFree**, **CacheCorrect**, **LiveVersionsOnlyAdvance**.
- `RoleStoreRoundProofs`: **PromotionTerminates**.
- `MaterializeLoopProofs`: **PassBoundHolds**, **LoopIsLeastFixpoint**.

The store's properties speak of states between handlers, so they are not inductive.
`StoreInv` says what holds inside one: while demoting, whatever left `admitted` is
inadmissible and a held statement was inadmissible before the handler or has just been
demoted (`DemoteInv`); while promoting, the worklist names every grantor with a
promotable statement (`PromoteInv`); before the cache is written, nothing is left to
promote (`CacheInv`). `RoundInv` adds that a round which raised someone has moved a
statement, so that the rounds so far are at most the admitted statements: the comment on
`MAX_PROMOTION_ROUNDS` says the same. Order-freedom then follows because held statements that are not
admissible add nothing to the fixpoint. For the loop, `LoopInv` says that every raise
is supported by the least fixpoint, that visited statements are absorbed until the
next raise, and that each pass that changed something absorbed one more statement, which bounds them.

Checked by TLC only: CrashesAreRepaired (liveness is outside the prover's reach),
AllAdmittedAdmissible, NeverReplayed, and everything about inbound rows.

## What is left out

The models stand for about 2,900 lines of the repository's 430,000 lines of Rust (tests
included): under one percent. They cover role propagation and inbound admission in
depth; every other subsystem is only in the plan.

- Cryptography, encodings and field validation: signatures are taken as verified.
- `asset`, `device_payload` and `device_format` rows, and readings that name a payload. A
  payload with many assets is the case where the retry bound might be reached.
- The assets a published row depends on, deletion of a node with its subtree, and the
  wall clock itself: a start refused because a stored clock is too far ahead.
- A live row without a clock merges over a local commit that was never published;
  NodeOrderFree claims nothing of what came before such a row.
- A failure that leaves part of an apply behind: failures in InboundAdmissions change
  nothing. Reading the code, a repartition that fails after the first manifest is
  written would lose the manifest trigger; this is not checked.
- Rows that move a petal or node while others wait on it are not in the instances of
  NoneWaitsInVain.
- `verse`, `fractal` and `petal` rows carry no clock, so their order of application matters;
  nothing is claimed about it.

## Plan

1. RoleReplication: several RoleStores exchanging statements, with an abstract role
   register they implement; legacy migration and startup reconciliation.
2. The remaining inbound tables, published assets, partial failures.
3. fe-sync: replica lifecycle, pending writes, shards and distributed queries; then
   invites and join.
4. fe-canonical-log: admission, branches, capabilities, checkpoints and retention; then
   plugin lifecycle and undo.
5. Proofs: QueueSound, TombstonesStay and ForeignRowsUntouched for InboundAdmissions, and
   the refinement of step 1.
