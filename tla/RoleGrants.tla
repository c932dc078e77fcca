----------------------------- MODULE RoleGrants -----------------------------
(***************************************************************************)
(* The pure role-statement model of fe-policy (role_grants.rs, scope.rs,   *)
(* role_level.rs): what a set of per-grantor role statements makes         *)
(* effective.  No state here; RoleStore and MaterializeLoop are the state  *)
(* machines built on these operators.                                      *)
(*                                                                         *)
(* A role is its rank.  A DID, and a hierarchy scope of the one verse      *)
(* modelled, are opaque values; a scope's ancestors are given by Chain.    *)
(***************************************************************************)
EXTENDS Integers, FiniteSets

CONSTANTS
    Peers,      \* DIDs
    Scopes,     \* the verse's hierarchy scopes: VERSE[-FRACTAL[-PETAL]]
    Chain,      \* scope_chain: a scope and its ancestors, as a set
    NoOwner     \* verse_owner before the manifest lands

(* A scope string is a path of at most three segments, so its ancestors    *)
(* are totally ordered by containment and any nonempty part of a chain has *)
(* a deepest and a shallowest element.                                     *)
ASSUME ScopeAssumption ==
    /\ Chain \in [Scopes -> SUBSET Scopes]
    /\ \A s \in Scopes : s \in Chain[s]
    /\ \A s \in Scopes : \A t \in Chain[s] : Chain[t] \subseteq Chain[s]
    /\ \A s, t \in Scopes : t \in Chain[s] /\ s \in Chain[t] => s = t
    /\ \A s \in Scopes : \A T \in SUBSET Chain[s] :
          T # {} => /\ \E u \in T : \A t \in T : t \in Chain[u]
                    /\ \E u \in T : \A t \in T : u \in Chain[t]

ASSUME OwnerAssumption == NoOwner \notin Peers

(***************************************************************************)
(* Roles and statements                                                    *)
(***************************************************************************)
None == 0
Viewer == 1
Editor == 2
Manager == 3
Owner == 4

RoleLevel == None .. Owner
GrantedRole == None .. Manager    \* nobody can grant Owner

RoleStatement ==
    [scope : Scopes, peer : Peers, grantor : Peers,
     role : GrantedRole, revoked : BOOLEAN, hlc : Nat]

Cell(st) == <<st.peer, st.scope>>
StatementKey(st) == <<st.scope, st.peer, st.grantor>>

(* canonical_bytes of two statements with one key and one hlc first differ *)
(* in the role's wire string (editor < manager < none < viewer), then in   *)
(* "false" < "true".                                                       *)
ByteRank(st) ==
    2 * (CASE st.role = Editor -> 0 [] st.role = Manager -> 1
           [] st.role = None -> 2 [] st.role = Viewer -> 3)
      + (IF st.revoked THEN 1 ELSE 0)

is_newer(candidate, existing) ==
    \/ candidate.hlc > existing.hlc
    \/ candidate.hlc = existing.hlc /\ ByteRank(candidate) > ByteRank(existing)

(* validate_statement for a payload that parsed, whose scope is one of the *)
(* verse's and whose grantor is the attested author: what is left depends  *)
(* on the owner.                                                           *)
validate_statement(owner, st) == st.peer # owner

(***************************************************************************)
(* EffectiveRoles: the owner, the owner's pins and blocks, and the         *)
(* Manager grants in effect.  mgr(S,P) is the highest of the grants on the *)
(* cell; a pinned or blocked cell has none (see Raising).                  *)
(***************************************************************************)
HighestOf(R) == CHOOSE r \in R : \A x \in R : r >= x

PinnedAt(e, p, s) == \E st \in e.pins : Cell(st) = <<p, s>>

(* The part of a chain role_at walks: it stops after the deepest pin.      *)
Reached(e, p, chain) ==
    {t \in chain : \A u \in chain :
        PinnedAt(e, p, u) /\ t \in Chain[u] => t = u}

GrantsOn(e, p, scopes) ==
    {st \in e.pins \cup e.grants : st.peer = p /\ st.scope \in scopes}

WalkRole(e, p, chain) ==
    HighestOf({None} \cup {st.role : st \in GrantsOn(e, p, Reached(e, p, chain))})

role_at(e, p, s) ==
    IF p = e.owner THEN Owner ELSE WalkRole(e, p, Chain[s])

authority(e, g, s) == role_at(e, g, s)

admissible(e, st) ==
    \/ st.grantor = e.owner
    \/ authority(e, st.grantor, st.scope) >= Manager

has_any_role(e, p) ==
    \/ p = e.owner
    \/ \E st \in e.pins \cup e.grants : st.peer = p /\ st.role # None

(* The roles a materialization gives every peer at every scope.            *)
RolesOf(e) == [p \in Peers, s \in Scopes |-> role_at(e, p, s)]

(***************************************************************************)
(* materialize: owner statements are pins and blocks; the other statements *)
(* that can raise a role take effect when their grantor is Manager+ at     *)
(* their scope.  The grants in effect are the least set closed under that  *)
(* rule.  MaterializeLoop shows that the code's passes compute it.         *)
(***************************************************************************)
OwnerStatements(owner, stmts) == {st \in stmts : st.grantor = owner}

Raising(owner, stmts) ==
    {st \in stmts :
        /\ st.grantor # owner
        /\ ~st.revoked
        /\ st.role # None
        /\ \A o \in OwnerStatements(owner, stmts) : Cell(o) # Cell(st)}

WithGrants(owner, stmts, grants) ==
    [owner  |-> owner,
     pins   |-> {st \in OwnerStatements(owner, stmts) : ~st.revoked},
     blocks |-> {st \in OwnerStatements(owner, stmts) : st.revoked},
     grants |-> grants]

Closed(owner, stmts, grants) ==
    \A st \in Raising(owner, stmts) :
        authority(WithGrants(owner, stmts, grants), st.grantor, st.scope) >= Manager
            => st \in grants

EffectiveGrants(owner, stmts) ==
    {st \in Raising(owner, stmts) :
        \A grants \in SUBSET Raising(owner, stmts) :
            Closed(owner, stmts, grants) => st \in grants}

materialize(owner, stmts) ==
    WithGrants(owner, stmts, EffectiveGrants(owner, stmts))

(***************************************************************************)
(* The role cache: cache_rows projects a materialization, and role lookups *)
(* take the nearest row up the chain.                                      *)
(***************************************************************************)
CacheRow == [scope : Scopes, peer : Peers, role : GrantedRole]

MgrAt(e, p, s) ==
    HighestOf({None} \cup {st.role : st \in {g \in e.grants : Cell(g) = <<p, s>>}})

InheritedRole(e, p, s) ==
    IF Chain[s] = {s} THEN None
    ELSE IF p = e.owner THEN Owner ELSE WalkRole(e, p, Chain[s] \ {s})

(* A slip for CacheIsRoleAt: a grant below the inherited role gets a row.  *)
EveryGrantARow(e) ==
    {[scope |-> st.scope, peer |-> st.peer, role |-> st.role] : st \in e.pins}
      \cup {[scope |-> st.scope, peer |-> st.peer,
              role |-> MgrAt(e, st.peer, st.scope)] : st \in e.grants}

cache_rows(e) ==
    {[scope |-> st.scope, peer |-> st.peer, role |-> st.role] : st \in e.pins}
      \cup {row \in {[scope |-> st.scope, peer |-> st.peer,
                      role |-> MgrAt(e, st.peer, st.scope)] : st \in e.grants} :
              row.role > InheritedRole(e, row.peer, row.scope)}

(* resolve_role over captured inputs: the owner, else the most specific    *)
(* explicit row, else the verse's default access.                          *)
resolve_role(owner, rows, default, p, s) ==
    IF p = owner THEN Owner
    ELSE LET mine == {row \in rows : row.peer = p /\ row.scope \in Chain[s]}
         IN IF mine = {} THEN default
            ELSE (CHOOSE row \in mine :
                     \A other \in mine : other.scope \in Chain[row.scope]).role

(***************************************************************************)
(* changed_between: the DIDs whose role rose, over the cells the given     *)
(* statements mention.                                                     *)
(***************************************************************************)
RisenBetween(prior, now, stmts) ==
    {p \in Peers : \E st \in stmts :
        st.peer = p /\ role_at(now, p, st.scope) > role_at(prior, p, st.scope)}
=============================================================================
