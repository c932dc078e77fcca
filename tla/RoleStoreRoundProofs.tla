------------------------- MODULE RoleStoreRoundProofs -------------------------
(***************************************************************************)
(* The promotion rounds of repartition: each moves a statement, so that    *)
(* they end whatever the round bound is.                                   *)
(***************************************************************************)
EXTENDS RoleStoreProofs, FiniteSetTheorems

(* Every round so far, and the running one once it promoted, has its row   *)
(* in role_grant.                                                          *)
RoundInv ==
    /\ IsFiniteSet(admitted)
    /\ pc = "promote" => rounds + (IF promoted THEN 1 ELSE 0) <= Cardinality(admitted)
    /\ pc = "cache" => rounds <= Cardinality(admitted)

LEMMA WriteFinite ==
    ASSUME IsFiniteSet(admitted), NEW st, NEW isHeld \in BOOLEAN, write_live_version(st, isHeld)
    PROVE  IsFiniteSet(admitted')
<1>1. IsFiniteSet(admitted \ Versions(st, admitted))
    BY FS_Difference
<1>2. /\ isHeld => admitted' = admitted \ Versions(st, admitted)
      /\ ~isHeld => admitted' = (admitted \ Versions(st, admitted)) \cup {st}
    BY DEF write_live_version
<1> QED
    BY <1>1, <1>2, FS_AddElement

LEMMA RoundInductive == TypeInv /\ StoreInv /\ RoundInv /\ [Next]_vars => RoundInv'
<1> SUFFICES ASSUME TypeInv, StoreInv, RoundInv, [Next]_vars PROVE RoundInv'
    OBVIOUS
<1>0. /\ rounds \in Nat /\ promoted \in BOOLEAN
      /\ IsFiniteSet(admitted) /\ Cardinality(admitted) \in Nat
    BY FS_CardinalityType DEF TypeInv, TypeOK, RoundInv
<1>1. ASSUME UNCHANGED admitted, pc' \notin {"promote", "cache"} PROVE RoundInv'
    BY <1>0, <1>1 DEF RoundInv
<1>2. ASSUME NEW st, NEW isHeld \in BOOLEAN, write_live_version(st, isHeld),
             pc' \notin {"promote", "cache"}
      PROVE  RoundInv'
    BY <1>0, <1>2, WriteFinite DEF RoundInv
<1>3. ASSUME NEW p \in Peers, NEW s \in Scopes, NEW role, NEW revoked,
             IssueLocal(p, s, role, revoked)
      PROVE  RoundInv'
    <2>1. /\ write_live_version(LocalStatement(p, s, role, revoked), FALSE)
          /\ pc' = "demote"
        BY <1>3 DEF IssueLocal, BeginRepartition
    <2> QED
        BY <1>2, <2>1
<1>4. ASSUME Command PROVE RoundInv'
    <2>1. ASSUME NEW st \in Inbound, SubmitAdmitted(st) PROVE RoundInv'
        BY <1>2, <2>1 DEF SubmitAdmitted, BeginRepartition
    <2>2. ASSUME NEW st \in Inbound, SubmitHeld(st) PROVE RoundInv'
        BY <1>2, <2>2 DEF SubmitHeld
    <2>3. ASSUME NEW p \in Peers, NEW s \in Scopes, revoke_role_checked(p, s)
          PROVE  RoundInv'
        BY <1>3, <2>3 DEF revoke_role_checked
    <2>4. ASSUME NEW p \in Peers, NEW s \in Scopes, NEW role \in GrantedRole,
                 assign_role_checked(p, s, role)
          PROVE  RoundInv'
        BY <1>3, <2>4 DEF assign_role_checked
    <2>5. CASE \/ \E access \in {Viewer, None} : set_default_access(access)
               \/ \E o \in Peers : ManifestLands(o)
               \/ claim_orphaned_verse
               \/ reemit_local_statements
        BY <1>1, <2>5 DEF set_default_access, ManifestLands, BeginRepartition,
           claim_orphaned_verse, reemit_local_statements, tables
    <2> QED
        BY <1>4, <2>1, <2>2, <2>3, <2>4, <2>5 DEF Command
<1>5. ASSUME NEW st \in admitted, Demote(st) PROVE RoundInv'
    BY <1>2, <1>5 DEF Demote
<1>6. CASE EndDemote
    <2>1. /\ UNCHANGED <<admitted, promoted, rounds>> /\ pc' = "promote"
          /\ promoted = FALSE /\ rounds = 0
        BY <1>6 DEF EndDemote, tables, StoreInv, DemoteInv
    <2> QED
        BY <1>0, <2>1 DEF RoundInv
<1>7. ASSUME NEW st \in held, Promote(st) PROVE RoundInv'
    <2>1. /\ pc = "promote" /\ pc' = pc /\ rounds' = rounds /\ promoted' = TRUE
          /\ write_live_version(st, FALSE)
        BY <1>7 DEF Promote, InRound
    <2>2. Versions(st, admitted) = {} /\ st \notin admitted
        BY MoveLive DEF StoreInv, Versions
    <2>3. admitted' = admitted \cup {st}
        BY <2>1, <2>2 DEF write_live_version
    <2>4. IsFiniteSet(admitted') /\ Cardinality(admitted') = Cardinality(admitted) + 1
        BY <1>0, <2>2, <2>3, FS_AddElement
    <2>5. rounds <= Cardinality(admitted)
        BY <1>0, <2>1 DEF RoundInv
    <2> QED
        BY <1>0, <2>1, <2>4, <2>5 DEF RoundInv
<1>8. ASSUME NEW st \in held, DenyPromotion(st) PROVE RoundInv'
    BY <1>8 DEF DenyPromotion, job, RoundInv
<1>9. CASE EndRound
    <2>1. /\ pc = "promote" /\ pc' = pc /\ promoted = TRUE /\ promoted' = FALSE
          /\ rounds' = rounds + 1 /\ admitted' = admitted
        BY <1>0, <1>9 DEF EndRound, InRound, tables
    <2> QED
        BY <1>0, <2>1 DEF RoundInv
<1>10. CASE EndPromote
    <2>1. /\ pc = "promote" /\ pc' = "cache" /\ UNCHANGED <<admitted, rounds>>
        BY <1>10 DEF EndPromote, tables, job
    <2> QED
        BY <1>0, <2>1 DEF RoundInv
<1>11. CASE WriteCache \/ Abort
    <2>1. UNCHANGED admitted /\ pc' \in {"idle", "publish"}
        BY <1>11 DEF WriteCache, Abort, LeaveRepartition, tables
    <2> QED
        BY <1>1, <2>1
<1>12. CASE \/ \E st \in outgoing : publish_statement(st) \/ DropStatement(st)
            \/ Crash \/ Startup
    <2>1. UNCHANGED admitted /\ pc' \in {"idle", "publish", "down", "demote"}
        BY <1>12 DEF publish_statement, DropStatement, Published, Crash, Startup,
           BeginRepartition, tables
    <2> QED
        BY <1>1, <2>1
<1>13. CASE UNCHANGED vars
    BY <1>13 DEF vars, tables, job, RoundInv
<1>14. ASSUME Repartition PROVE RoundInv'
    BY <1>5, <1>6, <1>7, <1>8, <1>9, <1>10, <1>11, <1>14 DEF Repartition
<1> QED
    BY <1>4, <1>11, <1>12, <1>13, <1>14 DEF Next, Publish

(* Promotion takes no more rounds than role_grant has rows in the end, for *)
(* any statements and any bound: MAX_PROMOTION_ROUNDS never ends it in a   *)
(* verse with fewer admitted statements.                                   *)
THEOREM PromotionTerminates == Spec => []RoundsMoveRows
<1>1. Init => RoundInv
    BY FS_EmptySet DEF Init, RoundInv
<1>2. TypeInv /\ RoundInv => RoundsMoveRows
    <2> SUFFICES ASSUME TypeInv, RoundInv PROVE RoundsMoveRows
        OBVIOUS
    <2>1. rounds \in Nat /\ promoted \in BOOLEAN /\ Cardinality(admitted) \in Nat
        BY FS_CardinalityType DEF TypeInv, TypeOK, RoundInv
    <2> QED
        BY <2>1 DEF RoundInv, RoundsMoveRows
<1> QED
    BY <1>1, <1>2, RoundInductive, StoreInvHolds, PTL DEF Spec
=============================================================================
