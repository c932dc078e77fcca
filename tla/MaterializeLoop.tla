--------------------------- MODULE MaterializeLoop ---------------------------
(***************************************************************************)
(* materialize (fe-policy role_grants.rs) as the loop the code runs: owner *)
(* pins and blocks are fixed, then passes over the other statements raise  *)
(* mgr from bottom until a pass changes nothing, for at most               *)
(* |statements| + 1 passes.  RoleGrants!materialize says what the loop     *)
(* must compute: the least set of grants closed under delegation.          *)
(*                                                                         *)
(* The code visits the statements of a pass in the order the caller's      *)
(* iterator gave them, which is the database's.  Here every pass may visit *)
(* them in any order.                                                      *)
(***************************************************************************)
EXTENDS RoleGrants

CONSTANTS
    OwnerDid,       \* the verse owner
    Statements      \* the statements that may be admitted

ASSUME LoopAssumption ==
    /\ OwnerDid \in Peers
    /\ Statements \subseteq RoleStatement
    /\ IsFiniteSet(Statements)

VARIABLES
    all,                \* the statements materialized, one per key
    mgr,                \* the Manager grant in effect at each cell, or None
    left,               \* manager statements this pass has yet to visit
    changed,            \* whether this pass raised a cell
    passes,             \* passes completed
    reached_fixpoint,
    done

vars == <<all, mgr, left, changed, passes, reached_fixpoint, done>>

Cells == Peers \X Scopes

OwnerPart == WithGrants(OwnerDid, all, {})

manager_statements == {st \in all : st.grantor # OwnerDid}

Init ==
    /\ all \in SUBSET Statements
    /\ \A x, y \in all : StatementKey(x) = StatementKey(y) => x = y
    /\ mgr = [cell \in Cells |-> None]
    /\ left = manager_statements
    /\ changed = FALSE /\ passes = 0
    /\ reached_fixpoint = FALSE /\ done = FALSE

(***************************************************************************)
(* The walk of role_at over the maps under construction.                   *)
(***************************************************************************)
OwnerSpoke(p, s) == \E st \in OwnerPart.pins \cup OwnerPart.blocks : Cell(st) = <<p, s>>

LoopRole(p, s) ==
    IF p = OwnerDid THEN Owner
    ELSE LET reached == Reached(OwnerPart, p, Chain[s])
         IN HighestOf({None}
              \cup {pin.role : pin \in GrantsOn(OwnerPart, p, reached)}
              \cup {mgr[<<p, t>>] : t \in {u \in reached : ~OwnerSpoke(p, u)}})

(***************************************************************************)
(* One statement of a pass                                                 *)
(***************************************************************************)
(* A slip for LoopComputesLeast: the owner's blocks are not looked at.     *)
RaisesIgnoringBlocks(st) ==
    /\ ~st.revoked /\ st.role # None
    /\ ~PinnedAt(OwnerPart, st.peer, st.scope)
    /\ LoopRole(st.grantor, st.scope) >= Manager
    /\ st.role > mgr[Cell(st)]

Raises(st) ==
    /\ ~st.revoked /\ st.role # None
    /\ ~OwnerSpoke(st.peer, st.scope)
    /\ LoopRole(st.grantor, st.scope) >= Manager
    /\ st.role > mgr[Cell(st)]

Raise(st) ==
    /\ ~done
    /\ Raises(st)
    /\ left' = left \ {st}
    /\ mgr' = [mgr EXCEPT ![Cell(st)] = st.role]
    /\ changed' = TRUE
    /\ UNCHANGED <<all, passes, reached_fixpoint, done>>

Skip(st) ==
    /\ ~done
    /\ ~Raises(st)
    /\ left' = left \ {st}
    /\ UNCHANGED <<all, mgr, changed, passes, reached_fixpoint, done>>

(***************************************************************************)
(* The end of a pass                                                       *)
(***************************************************************************)
(* A slip for BoundSuffices: the bound forgets the confirming pass.        *)
PassPerStatement == Cardinality(manager_statements)

max_passes == Cardinality(all) + 1

PassChangedNothing ==
    /\ ~done /\ left = {} /\ ~changed
    /\ reached_fixpoint' = TRUE /\ done' = TRUE
    /\ UNCHANGED <<all, mgr, left, changed, passes>>

(* A slip for TypeOK: the next pass goes over the owner's statements too.  *)
PassOverAll ==
    /\ ~done /\ left = {} /\ changed
    /\ passes' = passes + 1
    /\ done' = (passes + 1 >= max_passes)
    /\ left' = all
    /\ changed' = FALSE
    /\ UNCHANGED <<all, mgr, reached_fixpoint>>

(* Another pass, unless the bound is reached: then the loop ends with a    *)
(* warning, its fixpoint not confirmed.                                    *)
PassChangedSomething ==
    /\ ~done /\ left = {} /\ changed
    /\ passes' = passes + 1
    /\ done' = (passes + 1 >= max_passes)
    /\ left' = manager_statements
    /\ changed' = FALSE
    /\ UNCHANGED <<all, mgr, reached_fixpoint>>

Next ==
    \/ \E st \in left : Raise(st) \/ Skip(st)
    \/ PassChangedNothing
    \/ PassChangedSomething

Spec == Init /\ [][Next]_vars

(***************************************************************************)
(* Properties                                                              *)
(***************************************************************************)
TypeOK ==
    /\ all \subseteq Statements
    /\ mgr \in [Cells -> GrantedRole]
    /\ left \subseteq manager_statements
    /\ changed \in BOOLEAN
    /\ passes \in Nat
    /\ reached_fixpoint \in BOOLEAN
    /\ done \in BOOLEAN

(* The bug guard never fires: materialize always leaves its loop because a *)
(* pass changed nothing, however delegation chains and the visiting order  *)
(* fall ("bounded at |statements|+1 passes").                              *)
BoundSuffices == done => reached_fixpoint

(* What the loop leaves in mgr is the least fixpoint: each cell holds the  *)
(* highest of the grants that delegation from the owner supports, and no   *)
(* cycle of Managers vouching for each other contributes.                  *)
LoopComputesLeast ==
    done => \A p \in Peers, s \in Scopes :
                mgr[<<p, s>>] = MgrAt(materialize(OwnerDid, all), p, s)

(***************************************************************************)
(* Why: the inductive parts.                                               *)
(***************************************************************************)
Absorbed == {st \in Raising(OwnerDid, all) : st.role <= mgr[Cell(st)]}

(* Nothing is raised beyond the least fixpoint.                            *)
Supported ==
    \A cell \in Cells :
        \/ mgr[cell] = None
        \/ \E st \in EffectiveGrants(OwnerDid, all) :
              Cell(st) = cell /\ st.role = mgr[cell]

(* In a pass that has changed nothing, every statement visited and with    *)
(* authority is absorbed.                                                  *)
VisitedAbsorbed ==
    ~changed => \A st \in Raising(OwnerDid, all) \ left :
                    LoopRole(st.grantor, st.scope) >= Manager => st \in Absorbed

(* Each pass that changed something absorbed another statement.            *)
PassesCounted ==
    passes + (IF changed THEN 1 ELSE 0) <= Cardinality(Absorbed)

LoopInv ==
    /\ Supported
    /\ VisitedAbsorbed
    /\ done => reached_fixpoint /\ left = {} /\ ~changed
    /\ ~done => PassesCounted
=============================================================================
