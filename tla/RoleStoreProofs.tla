--------------------------- MODULE RoleStoreProofs ---------------------------
(***************************************************************************)
(* RoleStore's invariants, for any peers, hierarchy, inbound statements,   *)
(* budget, round bound and faults.                                         *)
(***************************************************************************)
EXTENDS RoleStore, RoleGrantsProofs

(***************************************************************************)
(* Types                                                                   *)
(***************************************************************************)
(* Repartition runs only with a known owner, and no step grants Owner.     *)
TypeInv ==
    /\ TypeOK
    /\ pc \in {"demote", "promote", "cache"} => owner \in Peers

LEMMA MaterializeStore ==
    ASSUME TypeInv, pc \in {"demote", "promote", "cache"}
    PROVE  /\ current \in Effective
           /\ cache_rows(current) \subseteq CacheRow
BY MaterializeType, CacheRowsType DEF TypeInv, TypeOK, current

LEMMA WriteType ==
    ASSUME TypeOK, NEW st \in RoleStatement, NEW isHeld \in BOOLEAN,
           write_live_version(st, isHeld)
    PROVE  admitted' \subseteq RoleStatement /\ held' \subseteq RoleStatement
BY DEF TypeOK, write_live_version, Versions

LEMMA RisenType == \A x, y, S : RisenBetween(x, y, S) \subseteq Peers
BY DEF RisenBetween

LEMMA TypeInductive == TypeInv /\ [Next]_vars => TypeInv'
<1> SUFFICES ASSUME TypeInv, [Next]_vars PROVE TypeInv'
    OBVIOUS
<1> USE StoreAssumption
<1>1. ASSUME NEW st \in Inbound, SubmitAdmitted(st) PROVE TypeInv'
    <2>1. admitted' \subseteq RoleStatement /\ held' \subseteq RoleStatement
        BY <1>1, WriteType DEF SubmitAdmitted, TypeInv
    <2>2. owner \in Peers
        BY <1>1 DEF SubmitAdmitted, AdmissibleNow, TypeInv, TypeOK
    <2> QED
        BY <1>1, <2>1, <2>2
        DEF SubmitAdmitted, BeginRepartition, Some, TypeInv, TypeOK, after
<1>2. ASSUME NEW st \in Inbound, SubmitHeld(st) PROVE TypeInv'
    <2>1. admitted' \subseteq RoleStatement /\ held' \subseteq RoleStatement
        BY <1>2, WriteType DEF SubmitHeld, TypeInv
    <2> QED
        BY <1>2, <2>1 DEF SubmitHeld, TypeInv, TypeOK, after, job
<1>3. ASSUME NEW p \in Peers, NEW s \in Scopes, NEW role \in GrantedRole,
             NEW revoked \in BOOLEAN, IssueLocal(p, s, role, revoked)
      PROVE  TypeInv'
    <2> DEFINE st == LocalStatement(p, s, role, revoked)
    <2>1. st \in RoleStatement
        BY DEF LocalStatement, RoleStatement, TypeInv, TypeOK
    <2>2. write_live_version(st, FALSE) /\ outgoing' = {st}
        BY <1>3 DEF IssueLocal
    <2>3. admitted' \subseteq RoleStatement /\ held' \subseteq RoleStatement
        BY <2>1, <2>2, WriteType DEF TypeInv
    <2>4. owner \in Peers
        BY <1>3 DEF IssueLocal, check_role_command, TypeInv, TypeOK
    <2>5. /\ clock' \in Nat
          /\ BeginRepartition(Some(admitted))
          /\ UNCHANGED <<owner, cache, default, joined, doc, restarting, unsettled>>
        BY <1>3 DEF IssueLocal, TypeInv, TypeOK
    <2>6. outgoing' \subseteq RoleStatement
        BY <2>1, <2>2
    <2> QED
        BY <2>3, <2>4, <2>5, <2>6 DEF BeginRepartition, Some, TypeInv, TypeOK
<1>4. ASSUME NEW access \in {Viewer, None}, set_default_access(access) PROVE TypeInv'
    BY <1>4 DEF set_default_access, TypeInv, TypeOK, job, after
<1>5. ASSUME NEW o \in Peers, ManifestLands(o) PROVE TypeInv'
    BY <1>5 DEF ManifestLands, BeginRepartition, NoPrior, TypeInv, TypeOK, after
<1>6. ASSUME claim_orphaned_verse PROVE TypeInv'
    BY <1>6 DEF claim_orphaned_verse, TypeInv, TypeOK, job, after
<1>7. ASSUME reemit_local_statements PROVE TypeInv'
    BY <1>7 DEF reemit_local_statements, OwnLive, tables, TypeInv, TypeOK, job
<1>8. ASSUME NEW st \in admitted, Demote(st) PROVE TypeInv'
    <2>1. admitted' \subseteq RoleStatement /\ held' \subseteq RoleStatement
        BY <1>8, WriteType DEF Demote, TypeInv, TypeOK
    <2> QED
        BY <1>8, <2>1 DEF Demote, TypeInv, TypeOK, job, after
<1>9. ASSUME EndDemote PROVE TypeInv'
    <2>1. {owner} \cup PeersOf(admitted) \subseteq Peers
        BY <1>9, StatementType DEF EndDemote, TypeInv, TypeOK, PeersOf
    <2>2. work' \subseteq Peers
        BY <1>9, <2>1, RisenType DEF EndDemote
    <2> QED
        BY <1>9, <2>2 DEF EndDemote, TypeInv, TypeOK, tables, after
<1>10. ASSUME NEW st \in held, Promote(st) PROVE TypeInv'
    <2>1. admitted' \subseteq RoleStatement /\ held' \subseteq RoleStatement
        BY <1>10, WriteType DEF Promote, TypeInv, TypeOK
    <2> QED
        BY <1>10, <2>1 DEF Promote, TypeInv, TypeOK, after
<1>11. ASSUME NEW st \in held, DenyPromotion(st) PROVE TypeInv'
    BY <1>11 DEF DenyPromotion, TypeInv, TypeOK, job, after
<1>12. ASSUME EndRound PROVE TypeInv'
    <2>1. work' \subseteq Peers
        BY <1>12, RisenType DEF EndRound
    <2>2. /\ rounds' \in Nat /\ promoted' = FALSE /\ base' = admitted
          /\ UNCHANGED <<tables, doc, pc, prior, after, unsettled>>
        BY <1>12 DEF EndRound, TypeInv, TypeOK
    <2> QED
        BY <2>1, <2>2 DEF TypeInv, TypeOK, tables, after
<1>13. ASSUME EndPromote PROVE TypeInv'
    BY <1>13 DEF EndPromote, TypeInv, TypeOK, tables, job, after
<1>14. ASSUME WriteCache PROVE TypeInv'
    <2>1. cache' \subseteq CacheRow
        BY <1>14, MaterializeStore DEF WriteCache
    <2>2. outgoing' \subseteq RoleStatement /\ pc' \in {"idle", "publish"}
        BY <1>14 DEF WriteCache, LeaveRepartition, OwnLive, TypeInv, TypeOK
    <2>3. /\ ForgetJob /\ restarting' = FALSE
          /\ UNCHANGED <<owner, admitted, held, default, joined, clock, doc, unsettled>>
        BY <1>14 DEF WriteCache, LeaveRepartition
    <2>4. TypeOK'
        BY <2>1, <2>2, <2>3 DEF ForgetJob, NoPrior, TypeInv, TypeOK
    <2> QED
        BY <2>2, <2>4 DEF TypeInv
<1>15. ASSUME NEW st \in outgoing, publish_statement(st) PROVE TypeInv'
    BY <1>15 DEF publish_statement, Published, TypeInv, TypeOK, tables, job
<1>16. ASSUME NEW st \in outgoing, DropStatement(st) PROVE TypeInv'
    BY <1>16 DEF DropStatement, Published, TypeInv, TypeOK, tables, job
<1>17. ASSUME Crash PROVE TypeInv'
    BY <1>17 DEF Crash, ForgetJob, NoPrior, TypeInv, TypeOK, tables
<1>18. ASSUME Startup PROVE TypeInv'
    <2>1. CASE owner = NoOwner
        <3>1. outgoing' \subseteq RoleStatement /\ pc' \in {"idle", "publish"}
            BY <1>18, <2>1 DEF Startup, OwnLive, TypeInv, TypeOK
        <3>2. UNCHANGED <<tables, doc, job, restarting, unsettled>>
            BY <1>18, <2>1 DEF Startup
        <3>3. TypeOK'
            BY <3>1, <3>2 DEF TypeInv, TypeOK, tables, job
        <3> QED
            BY <3>1, <3>3 DEF TypeInv
    <2>2. CASE owner # NoOwner
        <3>1. /\ BeginRepartition(NoPrior) /\ restarting' = TRUE
              /\ UNCHANGED <<tables, doc, unsettled, outgoing>>
            BY <1>18, <2>2 DEF Startup
        <3>2. owner \in Peers
            BY <2>2 DEF TypeInv, TypeOK
        <3> QED
            BY <3>1, <3>2 DEF BeginRepartition, NoPrior, TypeInv, TypeOK, tables
    <2> QED
        BY <2>1, <2>2
<1>19. ASSUME Abort PROVE TypeInv'
    <2>1. outgoing' \subseteq RoleStatement /\ pc' \in {"idle", "publish"}
        BY <1>19 DEF Abort, LeaveRepartition, OwnLive, TypeInv, TypeOK
    <2>2. ForgetJob /\ restarting' = FALSE /\ unsettled' = TRUE /\ UNCHANGED <<tables, doc>>
        BY <1>19 DEF Abort, LeaveRepartition
    <2>3. TypeOK'
        BY <2>1, <2>2 DEF ForgetJob, NoPrior, TypeInv, TypeOK, tables
    <2> QED
        BY <2>1, <2>3 DEF TypeInv
<1>20. CASE UNCHANGED vars
    BY <1>20 DEF vars, tables, job, after, TypeInv, TypeOK
<1>21. ASSUME Command PROVE TypeInv'
    <2>1. None \in GrantedRole
        BY DEF GrantedRole, None, Manager
    <2>2. ASSUME NEW p \in Peers, NEW s \in Scopes, revoke_role_checked(p, s)
          PROVE  TypeInv'
        BY <1>3, <2>1, <2>2 DEF revoke_role_checked
    <2>3. ASSUME NEW p \in Peers, NEW s \in Scopes, NEW role \in GrantedRole,
                 assign_role_checked(p, s, role)
          PROVE  TypeInv'
        BY <1>3, <2>3 DEF assign_role_checked
    <2> QED
        BY <1>1, <1>2, <1>4, <1>5, <1>6, <1>7, <1>21, <2>2, <2>3 DEF Command
<1>22. ASSUME Repartition PROVE TypeInv'
    BY <1>8, <1>9, <1>10, <1>11, <1>12, <1>13, <1>14, <1>22 DEF Repartition
<1> QED
    BY <1>15, <1>16, <1>17, <1>18, <1>19, <1>20, <1>21, <1>22 DEF Next, Publish

(* TypeOK holds in every reachable state: in particular no statement and   *)
(* no cache row ever carries the Owner role, and repartition never runs    *)
(* before the manifest.                                                    *)
THEOREM TypeCorrect == Spec => []TypeOK
<1>1. Init => TypeInv
    <2> SUFFICES ASSUME Init PROVE TypeInv
        OBVIOUS
    <2>1. owner \in Peers \cup {NoOwner} /\ pc = "idle"
        BY StoreAssumption DEF Init
    <2> QED
        BY <2>1 DEF Init, TypeInv, TypeOK, NoPrior
<1>2. TypeInv => TypeOK
    BY DEF TypeInv
<1> QED
    BY <1>1, <1>2, TypeInductive, PTL DEF Spec

(***************************************************************************)
(* Placement                                                               *)
(***************************************************************************)
(* The write transaction keeps one live version per key, and loses no      *)
(* other key's.                                                            *)
LEMMA WriteKeepsOneLive ==
    ASSUME OneLiveVersion, NEW st, NEW isHeld \in BOOLEAN, write_live_version(st, isHeld)
    PROVE  OneLiveVersion'
<1>1. \A x \in admitted' \cup held' :
        x = st \/ (x \in admitted \cup held /\ StatementKey(x) # StatementKey(st))
    BY DEF write_live_version, Versions
<1>2. \A x \in admitted' : x # st => x \in admitted
    BY DEF write_live_version, Versions
<1>3. \A x \in held' : x # st => x \in held
    BY DEF write_live_version, Versions
<1>4. ~(st \in admitted' /\ st \in held')
    BY DEF write_live_version, Versions
<1> SUFFICES ASSUME NEW x \in admitted' \cup held', NEW y \in admitted' \cup held',
                    StatementKey(x) = StatementKey(y)
             PROVE  x = y /\ ~(x \in admitted' /\ x \in held')
    BY DEF OneLiveVersion
<1>5. x = y
    BY <1>1 DEF OneLiveVersion
<1>6. ~(x \in admitted' /\ x \in held')
    BY <1>1, <1>2, <1>3, <1>4 DEF OneLiveVersion
<1> QED
    BY <1>5, <1>6

(* Moving the live version of a key from one table to the other.           *)
LEMMA MoveLive ==
    ASSUME OneLiveVersion, NEW st \in admitted \cup held
    PROVE  /\ st \in admitted => Versions(st, admitted) = {st} /\ Versions(st, held) = {}
           /\ st \in held => Versions(st, held) = {st} /\ Versions(st, admitted) = {}
BY DEF OneLiveVersion, Versions

LEMMA LoadedType ==
    ASSUME TypeInv, owner \in Peers
    PROVE  /\ load_effective_roles \in Effective
           /\ load_effective_roles.owner = owner
           /\ load_effective_roles.pins \cup load_effective_roles.grants \subseteq admitted
BY MaterializeType, EffectiveIsAdmissible DEF load_effective_roles, TypeInv, TypeOK

(* A statement and an older version of it are admissible together: same    *)
(* grantor, same scope.                                                    *)
LEMMA VersionsAgree ==
    ASSUME NEW e, NEW x, NEW y, StatementKey(x) = StatementKey(y)
    PROVE  admissible(e, x) <=> admissible(e, y)
BY DEF StatementKey, admissible

(* Whoever has a Manager's authority without being the owner has it from   *)
(* a statement that names them.                                            *)
LEMMA AuthorityIsGranted ==
    ASSUME NEW e \in Effective, NEW g \in Peers, NEW t \in Scopes, g # e.owner,
           authority(e, g, t) >= Manager
    PROVE  \E w \in e.pins \cup e.grants : w.peer = g
<1>1. authority(e, g, t) = WalkRole(e, g, Chain[t])
    BY DEF authority, role_at
<1>2. WalkRole(e, g, Chain[t]) # None
    BY <1>1 DEF None, Manager
<1> QED
    BY <1>2, ChainType, WalkWitness

(* The worklist step: a statement held because it was inadmissible under   *)
(* A, and that B would admit, has a grantor who rose.                      *)
LEMMA WorklistMissesNobody ==
    ASSUME NEW o \in Peers, NEW S \in SUBSET RoleStatement, NEW T \in SUBSET RoleStatement,
           NEW M \in SUBSET RoleStatement,
           materialize(o, T).pins \cup materialize(o, T).grants \subseteq M,
           \A x \in OwnerStatements(o, S) : \E y \in M : Cell(y) = Cell(x),
           NEW st \in RoleStatement,
           ~admissible(materialize(o, S), st), admissible(materialize(o, T), st)
    PROVE  st.grantor \in RisenBetween(materialize(o, S), materialize(o, T), M)
<1> DEFINE A == materialize(o, S)
           B == materialize(o, T)
<1>1. A \in Effective /\ B \in Effective /\ A.owner = o /\ B.owner = o
    BY MaterializeType, EffectiveIsAdmissible
<1>2. \A x \in A.pins : x \in OwnerStatements(o, S)
    BY DEF materialize, WithGrants
<1> HIDE DEF A, B
<1>3. ~admissible(A, st) /\ admissible(B, st)
    BY DEF A, B
<1>4. st.grantor \in Peers /\ st.scope \in Scopes /\ st.grantor # o
    BY <1>1, <1>3, StatementType DEF admissible
<1>5. /\ role_at(A, st.grantor, st.scope) \in RoleLevel
      /\ role_at(B, st.grantor, st.scope) \in RoleLevel
    BY <1>1, <1>4, RoleAtType
<1>6. role_at(A, st.grantor, st.scope) < role_at(B, st.grantor, st.scope)
    BY <1>1, <1>3, <1>4, <1>5 DEF admissible, authority, RoleLevel, None, Manager, Owner
<1>7. B.pins \cup B.grants \subseteq M
    BY DEF B
<1>8. \A x \in A.pins : \E y \in M : Cell(y) = Cell(x)
    BY <1>2
<1> QED
    BY <1>1, <1>4, <1>6, <1>7, <1>8, RiseIsMentioned DEF A, B

(***************************************************************************)
(* StoreInv, action by action                                              *)
(***************************************************************************)
(* Entering repartition: demotion has done nothing yet.                    *)
LEMMA BeginKeepsInv ==
    ASSUME TypeInv, TypeInv', NEW before, BeginRepartition(before), owner' # NoOwner,
           OneLiveVersion',
           before # NoPrior =>
              /\ before = Some(Unwrap(before))
              /\ \A x \in OwnerStatements(owner', Unwrap(before)) :
                    \E y \in OwnerStatements(owner', admitted') : Cell(y) = Cell(x)
              /\ ~unsettled' => \A st \in held' :
                    ~admissible(materialize(owner', Unwrap(before)), st)
    PROVE  StoreInv'
<1>1. pc' = "demote" /\ prior' = before /\ base' = admitted'
      /\ promoted' = FALSE /\ rounds' = 0
    BY DEF BeginRepartition
<1>2. NothingBeforeManifest'
    BY DEF NothingBeforeManifest
<1>3. AtRestInv'
    BY <1>1 DEF AtRestInv, InRepartition
<1>4. DemoteInv'
    BY <1>1 DEF DemoteInv
<1>5. PromoteInv' /\ CacheInv'
    BY <1>1 DEF PromoteInv, CacheInv
<1> QED
    BY <1>2, <1>3, <1>4, <1>5 DEF StoreInv

(* A step that leaves the tables and stays out of repartition.             *)
LEMMA RestKeepsInv ==
    ASSUME StoreInv, ~InRepartition, ~InRepartition',
           UNCHANGED <<owner, admitted, held, cache>>, unsettled => unsettled'
    PROVE  StoreInv'
<1>1. OneLiveVersion' /\ NothingBeforeManifest'
    BY DEF StoreInv, OneLiveVersion, NothingBeforeManifest
<1>2. AtRestInv'
    BY DEF StoreInv, AtRestInv, HeldQuiet, load_effective_roles
<1>3. DemoteInv' /\ PromoteInv' /\ CacheInv'
    BY DEF InRepartition, DemoteInv, PromoteInv, CacheInv
<1> QED
    BY <1>1, <1>2, <1>3 DEF StoreInv

(* A step that stops a repartition half way and records it.                *)
LEMMA StopKeepsInv ==
    ASSUME StoreInv, InRepartition, ~InRepartition', unsettled',
           UNCHANGED <<owner, admitted, held>>
    PROVE  StoreInv'
<1>1. OneLiveVersion' /\ NothingBeforeManifest'
    BY DEF StoreInv, OneLiveVersion, NothingBeforeManifest
<1>2. AtRestInv'
    BY DEF AtRestInv
<1>3. DemoteInv' /\ PromoteInv' /\ CacheInv'
    BY DEF InRepartition, DemoteInv, PromoteInv, CacheInv
<1> QED
    BY <1>1, <1>2, <1>3 DEF StoreInv

(* submit_statement and issue_local_statement, admitted: what was held was *)
(* inadmissible before the write.                                          *)
LEMMA AdmitKeepsInv ==
    ASSUME TypeInv, TypeInv', StoreInv, pc = "idle", owner # NoOwner,
           NEW st, write_live_version(st, FALSE),
           BeginRepartition(Some(admitted)), UNCHANGED <<owner, unsettled>>
    PROVE  StoreInv'
<1>1. OneLiveVersion'
    BY WriteKeepsOneLive DEF StoreInv
<1>2. Unwrap(Some(admitted)) = admitted /\ Some(admitted) # NoPrior
    BY DEF Unwrap, Some, NoPrior
<1>3. \A x \in OwnerStatements(owner', admitted) :
        \E y \in OwnerStatements(owner', admitted') : Cell(y) = Cell(x)
    <2> SUFFICES ASSUME NEW x \in OwnerStatements(owner, admitted)
                 PROVE  \E y \in OwnerStatements(owner, admitted') : Cell(y) = Cell(x)
        OBVIOUS
    <2>1. CASE StatementKey(x) = StatementKey(st)
        <3>1. st \in admitted'
            BY DEF write_live_version
        <3>2. st.grantor = x.grantor /\ Cell(st) = Cell(x)
            BY <2>1 DEF StatementKey, Cell
        <3> QED
            BY <3>1, <3>2 DEF OwnerStatements
    <2>2. CASE StatementKey(x) # StatementKey(st)
        BY <2>2 DEF OwnerStatements, write_live_version, Versions
    <2> QED
        BY <2>1, <2>2
<1>4. ~unsettled => \A x \in held' : ~admissible(materialize(owner, admitted), x)
    BY DEF StoreInv, AtRestInv, InRepartition, HeldQuiet, load_effective_roles,
           write_live_version
<1> HIDE DEF Some, Unwrap, NoPrior
<1>5. owner' # NoOwner
    OBVIOUS
<1> QED
    BY <1>1, <1>2, <1>3, <1>4, <1>5, BeginKeepsInv

(* submit_statement, held: the version it replaces, if it was admitted,    *)
(* was as inadmissible as the new one, so the roles stay.                  *)
LEMMA HoldKeepsInv ==
    ASSUME TypeInv, TypeInv', StoreInv, NEW st \in Inbound, SubmitHeld(st)
    PROVE  StoreInv'
<1>1. /\ pc = "idle" /\ write_live_version(st, TRUE) /\ ~AdmissibleNow(st)
      /\ UNCHANGED <<owner, cache, pc, unsettled>>
    BY DEF SubmitHeld
<1>2. OneLiveVersion'
    BY <1>1, WriteKeepsOneLive DEF StoreInv
<1>3. /\ admitted' = admitted \ Versions(st, admitted)
      /\ held' = (held \ Versions(st, held)) \cup {st}
    BY <1>1 DEF write_live_version
<1>4. NothingBeforeManifest'
    BY <1>1, <1>3 DEF StoreInv, NothingBeforeManifest, InRepartition
<1>5. AtRestInv'
    <2> SUFFICES ASSUME owner # NoOwner, ~unsettled
                 PROVE  HeldQuiet' /\ cache' = cache_rows(load_effective_roles')
        BY <1>1 DEF AtRestInv, InRepartition
    <2>1. owner \in Peers
        BY DEF TypeInv, TypeOK
    <2>2. ~admissible(load_effective_roles, st)
        BY <1>1 DEF AdmissibleNow
    <2>3. HeldQuiet /\ cache = cache_rows(load_effective_roles)
        BY <1>1 DEF StoreInv, AtRestInv, InRepartition
    <2>4. materialize(owner, admitted') = materialize(owner, admitted)
        <3>1. \A x \in admitted \ admitted' : ~admissible(materialize(owner, admitted), x)
            BY <1>3, <2>2, VersionsAgree DEF Versions, load_effective_roles
        <3>2. admitted \in SUBSET RoleStatement /\ admitted' \in SUBSET admitted
            BY <1>3 DEF TypeInv, TypeOK
        <3> QED
            BY <2>1, <3>1, <3>2, DemotionIsSilent
    <2>5. load_effective_roles' = load_effective_roles
        BY <1>1, <2>4 DEF load_effective_roles
    <2> QED
        BY <1>1, <1>3, <2>2, <2>3, <2>5 DEF HeldQuiet
<1>6. DemoteInv' /\ PromoteInv' /\ CacheInv'
    BY <1>1 DEF DemoteInv, PromoteInv, CacheInv
<1> QED
    BY <1>2, <1>4, <1>5, <1>6 DEF StoreInv

LEMMA DemoteKeepsInv ==
    ASSUME TypeInv, StoreInv, NEW st \in admitted, Demote(st)
    PROVE  StoreInv'
<1>1. /\ pc = "demote" /\ ~admissible(current, st) /\ write_live_version(st, TRUE)
      /\ UNCHANGED <<owner, cache, pc, prior, base, promoted, rounds, unsettled>>
    BY DEF Demote, job
<1>2. OneLiveVersion'
    BY <1>1, WriteKeepsOneLive DEF StoreInv
<1>3. admitted' = admitted \ {st} /\ held' = held \cup {st}
    BY <1>1, MoveLive DEF StoreInv, write_live_version
<1>4. owner \in Peers
    BY <1>1 DEF TypeInv
<1>5. NothingBeforeManifest' /\ AtRestInv'
    BY <1>1, <1>4, OwnerAssumption DEF NothingBeforeManifest, AtRestInv, InRepartition
<1>6. current' = current
    BY <1>1 DEF current
<1>7. DemoteInv'
    BY <1>1, <1>3, <1>6 DEF StoreInv, DemoteInv
<1>8. PromoteInv' /\ CacheInv'
    BY <1>1 DEF PromoteInv, CacheInv
<1> QED
    BY <1>2, <1>5, <1>7, <1>8 DEF StoreInv

(* Demotion did not move `current`, and the worklist it seeds is complete. *)
LEMMA EndDemoteKeepsInv ==
    ASSUME TypeInv, StoreInv, EndDemote
    PROVE  StoreInv'
<1>1. /\ pc = "demote" /\ pc' = "promote"
      /\ \A st \in admitted : admissible(current, st)
      /\ UNCHANGED <<owner, admitted, held, cache, prior, base, promoted, rounds, unsettled>>
    BY DEF EndDemote, tables
<1>2. /\ admitted \subseteq base
      /\ \A st \in base \ admitted : ~admissible(current, st)
      /\ ~promoted
    BY <1>1 DEF StoreInv, DemoteInv
<1>3. /\ owner \in Peers /\ base \in SUBSET RoleStatement
      /\ held \in SUBSET RoleStatement /\ admitted \in SUBSET RoleStatement
    BY <1>1 DEF TypeInv, TypeOK
<1>4. load_effective_roles = current
    BY <1>2, <1>3, DemotionIsSilent DEF current, load_effective_roles
<1>5. current \in Effective /\ current.owner = owner
      /\ current.pins \cup current.grants \subseteq admitted
    BY <1>3, <1>4, LoadedType
<1>6. OwnerStatements(owner, base) \subseteq admitted
    <2>1. \A x \in OwnerStatements(owner, base) : admissible(current, x)
        BY <1>3, EffectiveIsAdmissible DEF current
    <2> QED
        BY <1>2, <2>1 DEF OwnerStatements
<1>7. ASSUME prior = NoPrior \/ ~unsettled, NEW st \in held, admissible(current, st)
      PROVE  st.grantor \in work'
    <2>0. st \in RoleStatement /\ st.grantor \in Peers /\ st.scope \in Scopes
        BY <1>3, StatementType
    <2>1. CASE prior = NoPrior
        <3>1. work' = {owner} \cup PeersOf(admitted)
            BY <2>1 DEF EndDemote
        <3>2. CASE st.grantor = owner
            BY <3>1, <3>2
        <3>3. CASE st.grantor # owner
            <4>1. authority(current, st.grantor, st.scope) >= Manager
                BY <1>5, <1>7, <3>3 DEF admissible
            <4>2. PICK w \in current.pins \cup current.grants : w.peer = st.grantor
                BY <1>5, <2>0, <3>3, <4>1, AuthorityIsGranted
            <4> QED
                BY <1>5, <3>1, <4>2 DEF PeersOf
        <3> QED
            BY <3>2, <3>3
    <2>2. CASE prior # NoPrior
        <3> DEFINE S == Unwrap(prior)
        <3>1. work' = RisenBetween(materialize(owner, S), current, admitted)
            BY <2>2 DEF EndDemote
        <3>2. /\ prior = Some(S)
              /\ \A x \in OwnerStatements(owner, S) :
                    \E y \in OwnerStatements(owner, base) : Cell(y) = Cell(x)
              /\ \A x \in held : \/ ~admissible(materialize(owner, S), x)
                                 \/ ~admissible(current, x)
            BY <1>1, <1>7, <2>2 DEF StoreInv, DemoteInv
        <3>3. S \in SUBSET RoleStatement
            BY <3>2 DEF Some, TypeInv, TypeOK
        <3>4. \A x \in OwnerStatements(owner, S) : \E y \in admitted : Cell(y) = Cell(x)
            BY <1>6, <3>2
        <3>5. ~admissible(materialize(owner, S), st)
            BY <1>7, <3>2
        <3> HIDE DEF S
        <3>6. st.grantor \in RisenBetween(materialize(owner, S), materialize(owner, base), admitted)
            BY <1>3, <1>5, <1>7, <2>0, <3>3, <3>4, <3>5, WorklistMissesNobody DEF current
        <3> QED
            BY <3>1, <3>6 DEF current
    <2> QED
        BY <2>1, <2>2
<1>8. current' = current /\ load_effective_roles' = load_effective_roles
    BY <1>1 DEF current, load_effective_roles
<1>9. PromoteInv'
    BY <1>1, <1>2, <1>4, <1>6, <1>7, <1>8 DEF PromoteInv
<1>10. OneLiveVersion' /\ NothingBeforeManifest' /\ AtRestInv'
    BY <1>1 DEF StoreInv, OneLiveVersion, NothingBeforeManifest, AtRestInv, InRepartition
<1>11. DemoteInv' /\ CacheInv'
    BY <1>1 DEF DemoteInv, CacheInv
<1> QED
    BY <1>9, <1>10, <1>11 DEF StoreInv

LEMMA PromoteKeepsInv ==
    ASSUME TypeInv, StoreInv, NEW st \in held, Promote(st) \/ DenyPromotion(st)
    PROVE  StoreInv'
<1>1. /\ pc = "promote" /\ work # {} /\ rounds < MaxRounds
      /\ UNCHANGED <<owner, cache, pc, prior, base, work, rounds, unsettled>>
    BY DEF Promote, DenyPromotion, InRound, job
<1>2. /\ OneLiveVersion' /\ admitted \subseteq admitted' /\ held' \subseteq held
      /\ promoted' = TRUE \/ (admitted' = admitted /\ promoted' = promoted)
    <2>1. CASE Promote(st)
        <3>1. write_live_version(st, FALSE) /\ promoted' = TRUE
            BY <2>1 DEF Promote
        <3>2. Versions(st, admitted) = {}
            BY MoveLive DEF StoreInv
        <3>3. admitted \subseteq admitted' /\ held' \subseteq held
            BY <3>1, <3>2 DEF write_live_version
        <3> QED
            BY <3>1, <3>3, WriteKeepsOneLive DEF StoreInv
    <2>2. CASE DenyPromotion(st)
        BY <2>2 DEF DenyPromotion, job, StoreInv, OneLiveVersion
    <2> QED
        BY <2>1, <2>2
<1>3. NothingBeforeManifest' /\ AtRestInv'
    BY <1>1, OwnerAssumption DEF TypeInv, NothingBeforeManifest, AtRestInv, InRepartition
<1>4. current' = current
    BY <1>1 DEF current
<1>5. PromoteInv'
    <2>1. OwnerStatements(owner', base') \subseteq admitted'
        BY <1>1, <1>2 DEF StoreInv, PromoteInv
    <2>2. ~promoted' => load_effective_roles' = current'
        BY <1>1, <1>2, <1>4 DEF StoreInv, PromoteInv, load_effective_roles
    <2>3. promoted' => work' # {} /\ rounds' < MaxRounds
        BY <1>1
    <2>4. prior' = NoPrior \/ ~unsettled' =>
             \A x \in held' : admissible(current', x) => x.grantor \in work'
        BY <1>1, <1>2, <1>4 DEF StoreInv, PromoteInv
    <2> QED
        BY <2>1, <2>2, <2>3, <2>4 DEF PromoteInv
<1>6. DemoteInv' /\ CacheInv'
    BY <1>1 DEF DemoteInv, CacheInv
<1> QED
    BY <1>2, <1>3, <1>5, <1>6 DEF StoreInv

(* The next round's worklist: nobody left to promote under the old         *)
(* `current`, and whoever the new one empowers rose.                       *)
LEMMA EndRoundKeepsInv ==
    ASSUME TypeInv, StoreInv, EndRound
    PROVE  StoreInv'
<1>1. /\ pc = "promote" /\ Promotable = {} /\ base' = admitted /\ promoted' = FALSE
      /\ work' = RisenBetween(current, materialize(owner, admitted), admitted)
      /\ UNCHANGED <<owner, admitted, held, cache, pc, prior, unsettled>>
    BY DEF EndRound, InRound, tables
<1>2. /\ owner \in Peers /\ base \in SUBSET RoleStatement
      /\ held \in SUBSET RoleStatement /\ admitted \in SUBSET RoleStatement
    BY <1>1 DEF TypeInv, TypeOK
<1>3. OwnerStatements(owner, base) \subseteq admitted
    BY <1>1 DEF StoreInv, PromoteInv
<1>4. current' = load_effective_roles /\ load_effective_roles' = load_effective_roles
    BY <1>1 DEF current, load_effective_roles
<1>5. ASSUME prior = NoPrior \/ ~unsettled, NEW st \in held,
             admissible(load_effective_roles, st)
      PROVE  st.grantor \in work'
    <2>1. ~admissible(current, st)
        BY <1>1, <1>5 DEF StoreInv, PromoteInv, Promotable
    <2>2. load_effective_roles.pins \cup load_effective_roles.grants \subseteq admitted
        BY <1>2, LoadedType
    <2>3. \A x \in OwnerStatements(owner, base) : \E y \in admitted : Cell(y) = Cell(x)
        BY <1>3
    <2> QED
        BY <1>1, <1>2, <1>5, <2>1, <2>2, <2>3, WorklistMissesNobody
        DEF current, load_effective_roles
<1>6. PromoteInv'
    <2>1. OwnerStatements(owner', base') \subseteq admitted'
        BY <1>1 DEF OwnerStatements
    <2> QED
        BY <1>1, <1>4, <1>5, <2>1 DEF PromoteInv
<1>7. OneLiveVersion' /\ NothingBeforeManifest' /\ AtRestInv'
    BY <1>1 DEF StoreInv, OneLiveVersion, NothingBeforeManifest, AtRestInv, InRepartition
<1>8. DemoteInv' /\ CacheInv'
    BY <1>1 DEF DemoteInv, CacheInv
<1> QED
    BY <1>6, <1>7, <1>8 DEF StoreInv

LEMMA EndPromoteKeepsInv ==
    ASSUME TypeInv, StoreInv, EndPromote
    PROVE  StoreInv'
<1>1. /\ pc = "promote" /\ pc' = "cache"
      /\ UNCHANGED <<owner, admitted, held, cache, prior, base>>
    BY DEF EndPromote, tables, job
<1>2. ~promoted
    <2>1. rounds \in Nat /\ MaxRounds \in Nat
        BY StoreAssumption DEF TypeInv, TypeOK
    <2>2. promoted => work # {} /\ rounds < MaxRounds
        BY <1>1 DEF StoreInv, PromoteInv
    <2>3. work = {} \/ ~promoted \/ rounds >= MaxRounds
        BY DEF EndPromote
    <2> QED
        BY <2>1, <2>2, <2>3
<1>3. load_effective_roles = current
    BY <1>1, <1>2 DEF StoreInv, PromoteInv
<1>4. ASSUME ~unsettled' PROVE \A st \in held : ~admissible(current, st)
    <2>1. /\ work = {} \/ Promotable = {}
          /\ ~unsettled \/ prior = NoPrior
        BY <1>4 DEF EndPromote
    <2> QED
        BY <1>1, <2>1 DEF StoreInv, PromoteInv, Promotable
<1>5. current' = current /\ load_effective_roles' = load_effective_roles
    BY <1>1 DEF current, load_effective_roles
<1>6. CacheInv'
    BY <1>1, <1>3, <1>4, <1>5 DEF CacheInv, HeldQuiet
<1>7. OneLiveVersion' /\ NothingBeforeManifest' /\ AtRestInv'
    BY <1>1 DEF StoreInv, OneLiveVersion, NothingBeforeManifest, AtRestInv, InRepartition
<1>8. DemoteInv' /\ PromoteInv'
    BY <1>1 DEF DemoteInv, PromoteInv
<1> QED
    BY <1>6, <1>7, <1>8 DEF StoreInv

LEMMA WriteCacheKeepsInv ==
    ASSUME TypeInv, StoreInv, WriteCache
    PROVE  StoreInv'
<1>1. /\ pc = "cache" /\ cache' = cache_rows(current)
      /\ UNCHANGED <<owner, admitted, held, unsettled>>
    BY DEF WriteCache
<1>2. pc' \in {"idle", "publish"}
    BY DEF WriteCache, LeaveRepartition
<1>3. ~InRepartition' /\ pc' # "demote" /\ pc' # "promote" /\ pc' # "cache"
    BY <1>2 DEF InRepartition
<1>4. load_effective_roles = current /\ (~unsettled => HeldQuiet)
    BY <1>1 DEF StoreInv, CacheInv
<1>5. load_effective_roles' = load_effective_roles
    BY <1>1 DEF load_effective_roles
<1>6. AtRestInv'
    BY <1>1, <1>4, <1>5 DEF AtRestInv, HeldQuiet
<1>7. OneLiveVersion' /\ NothingBeforeManifest'
    BY <1>1, <1>3 DEF StoreInv, OneLiveVersion, NothingBeforeManifest
<1>8. DemoteInv' /\ PromoteInv' /\ CacheInv'
    BY <1>3 DEF DemoteInv, PromoteInv, CacheInv
<1> QED
    BY <1>6, <1>7, <1>8 DEF StoreInv

LEMMA StoreInductive == TypeInv /\ StoreInv /\ [Next]_vars => StoreInv'
<1> SUFFICES ASSUME TypeInv, StoreInv, [Next]_vars PROVE StoreInv'
    OBVIOUS
<1>0. TypeInv'
    BY TypeInductive
<1>1. ASSUME NEW st \in Inbound, SubmitAdmitted(st) PROVE StoreInv'
    <2>1. owner # NoOwner
        BY <1>1 DEF SubmitAdmitted, AdmissibleNow
    <2> QED
        BY <1>0, <1>1, <2>1, AdmitKeepsInv DEF SubmitAdmitted
<1>2. ASSUME NEW st \in Inbound, SubmitHeld(st) PROVE StoreInv'
    BY <1>0, <1>2, HoldKeepsInv
<1>3. ASSUME NEW p, NEW s, NEW role, NEW revoked, IssueLocal(p, s, role, revoked)
      PROVE  StoreInv'
    <2>1. owner # NoOwner
        BY <1>3 DEF IssueLocal, check_role_command
    <2>2. /\ pc = "idle"
          /\ \E st : write_live_version(st, FALSE)
          /\ BeginRepartition(Some(admitted))
          /\ UNCHANGED <<owner, unsettled>>
        BY <1>3 DEF IssueLocal
    <2> QED
        BY <1>0, <2>1, <2>2, AdmitKeepsInv
<1>4. ASSUME NEW access, set_default_access(access) PROVE StoreInv'
    BY <1>4, RestKeepsInv DEF set_default_access, InRepartition
<1>5. ASSUME NEW o \in Peers, ManifestLands(o) PROVE StoreInv'
    <2>1. OneLiveVersion' /\ owner' # NoOwner /\ BeginRepartition(NoPrior)
        BY <1>5, OwnerAssumption DEF ManifestLands, StoreInv, OneLiveVersion
    <2> QED
        BY <1>0, <2>1, BeginKeepsInv
<1>6. ASSUME claim_orphaned_verse PROVE StoreInv'
    <2>1. /\ pc = "idle" /\ unsettled' /\ owner # NoOwner /\ owner' # NoOwner
          /\ UNCHANGED <<admitted, held, pc>>
        BY <1>6, StoreAssumption, OwnerAssumption DEF claim_orphaned_verse
    <2>2. OneLiveVersion' /\ NothingBeforeManifest' /\ AtRestInv'
        BY <2>1 DEF StoreInv, OneLiveVersion, NothingBeforeManifest, AtRestInv
    <2>3. DemoteInv' /\ PromoteInv' /\ CacheInv'
        BY <2>1 DEF DemoteInv, PromoteInv, CacheInv
    <2> QED
        BY <2>2, <2>3 DEF StoreInv
<1>7. ASSUME reemit_local_statements PROVE StoreInv'
    BY <1>7, RestKeepsInv DEF reemit_local_statements, InRepartition, tables
<1>8. ASSUME NEW st \in outgoing, publish_statement(st) \/ DropStatement(st) PROVE StoreInv'
    <2>1. /\ pc = "publish" /\ pc' \in {"idle", "publish"}
          /\ UNCHANGED <<owner, admitted, held, cache, unsettled>>
        BY <1>8 DEF publish_statement, DropStatement, Published, tables
    <2>2. ~InRepartition /\ ~InRepartition'
        BY <2>1 DEF InRepartition
    <2> QED
        BY <2>1, <2>2, RestKeepsInv
<1>9. ASSUME Crash PROVE StoreInv'
    <2>1. /\ pc' = "down" /\ UNCHANGED <<owner, admitted, held, cache>>
          /\ unsettled => unsettled'
          /\ InRepartition => unsettled'
        BY <1>9 DEF Crash, tables, InRepartition
    <2>2. ~InRepartition'
        BY <2>1 DEF InRepartition
    <2> QED
        BY <2>1, <2>2, RestKeepsInv, StopKeepsInv
<1>10. ASSUME Startup PROVE StoreInv'
    <2>1. pc = "down" /\ UNCHANGED <<owner, admitted, held, cache, unsettled>>
        BY <1>10 DEF Startup, tables
    <2>2. CASE owner = NoOwner
        <3>1. pc' \in {"idle", "publish"}
            BY <1>10, <2>2 DEF Startup
        <3>2. ~InRepartition /\ ~InRepartition'
            BY <2>1, <3>1 DEF InRepartition
        <3> QED
            BY <2>1, <3>2, RestKeepsInv
    <2>3. CASE owner # NoOwner
        <3>1. BeginRepartition(NoPrior)
            BY <1>10, <2>3 DEF Startup
        <3>2. OneLiveVersion'
            BY <2>1 DEF StoreInv, OneLiveVersion
        <3> QED
            BY <1>0, <2>1, <2>3, <3>1, <3>2, BeginKeepsInv
    <2> QED
        BY <2>2, <2>3
<1>11. ASSUME Abort PROVE StoreInv'
    <2>1. /\ InRepartition /\ unsettled' /\ pc' \in {"idle", "publish"}
          /\ UNCHANGED <<owner, admitted, held>>
        BY <1>11 DEF Abort, LeaveRepartition, tables, InRepartition
    <2>2. ~InRepartition'
        BY <2>1 DEF InRepartition
    <2> QED
        BY <2>1, <2>2, StopKeepsInv
<1>12. CASE UNCHANGED vars
    <2>1. UNCHANGED <<owner, admitted, held, cache, pc, prior, base, work, promoted,
                      rounds, unsettled>>
        BY <1>12 DEF vars, tables, job
    <2> QED
        BY <2>1 DEF StoreInv, OneLiveVersion, NothingBeforeManifest, AtRestInv, DemoteInv,
           PromoteInv, CacheInv, InRepartition, HeldQuiet, current, load_effective_roles
<1>13. ASSUME Command PROVE StoreInv'
    BY <1>1, <1>2, <1>3, <1>4, <1>5, <1>6, <1>7, <1>13
    DEF Command, assign_role_checked, revoke_role_checked
<1>14. ASSUME Repartition PROVE StoreInv'
    BY <1>14, DemoteKeepsInv, EndDemoteKeepsInv, PromoteKeepsInv, EndRoundKeepsInv,
       EndPromoteKeepsInv, WriteCacheKeepsInv DEF Repartition
<1> QED
    BY <1>8, <1>9, <1>10, <1>11, <1>12, <1>13, <1>14 DEF Next, Publish

LEMMA StoreInvHolds == Spec => [](TypeInv /\ StoreInv)
<1>1. Init => TypeInv
    <2> SUFFICES ASSUME Init PROVE TypeInv
        OBVIOUS
    <2>1. owner \in Peers \cup {NoOwner} /\ pc = "idle"
        BY StoreAssumption DEF Init
    <2> QED
        BY <2>1 DEF Init, TypeInv, TypeOK, NoPrior
<1>2. Init /\ TypeInv => StoreInv
    <2> SUFFICES ASSUME Init, TypeInv PROVE StoreInv
        OBVIOUS
    <2>1. admitted = {} /\ held = {} /\ cache = {} /\ pc = "idle"
        BY DEF Init
    <2>2. OneLiveVersion /\ NothingBeforeManifest /\ DemoteInv /\ PromoteInv /\ CacheInv
        BY <2>1 DEF OneLiveVersion, NothingBeforeManifest, DemoteInv, PromoteInv, CacheInv,
           InRepartition
    <2>3. AtRestInv
        <3> SUFFICES ASSUME owner # NoOwner
                     PROVE  HeldQuiet /\ cache = cache_rows(load_effective_roles)
            BY DEF AtRestInv
        <3>1. load_effective_roles.pins = {} /\ load_effective_roles.grants = {}
            BY <2>1, LoadedType DEF TypeInv, TypeOK
        <3> QED
            BY <2>1, <3>1 DEF HeldQuiet, cache_rows
    <2> QED
        BY <2>2, <2>3 DEF StoreInv
<1> QED
    BY <1>1, <1>2, TypeInductive, StoreInductive, PTL DEF Spec

(* One live version per key, whatever crashes, fails or changes owner.     *)
THEOREM OneVersion == Spec => []OneLiveVersion
<1>1. TypeInv /\ StoreInv => OneLiveVersion
    BY DEF StoreInv
<1> QED
    BY <1>1, StoreInvHolds, PTL

(* The worklist over risen DIDs misses nobody: between handlers no held    *)
(* statement is admissible.                                                *)
THEOREM WorklistComplete == Spec => []NoneHeldInVain
<1>1. TypeInv /\ StoreInv => NoneHeldInVain
    BY DEF StoreInv, AtRestInv, NoneHeldInVain, Settled, InRepartition, HeldQuiet
<1> QED
    BY <1>1, StoreInvHolds, PTL

(* The roles in force are a function of the live statements alone, not of  *)
(* the order in which they were placed, demoted and promoted.              *)
THEOREM RolesAreOrderFree == Spec => []RolesOfLiveStatements
<1>1. TypeInv /\ StoreInv => RolesOfLiveStatements
    <2> SUFFICES ASSUME TypeInv, StoreInv, Settled
                 PROVE  materialize(owner, admitted \cup held) = load_effective_roles
        BY DEF RolesOfLiveStatements
    <2>1. owner \in Peers /\ HeldQuiet
        BY DEF StoreInv, AtRestInv, Settled, InRepartition, TypeInv, TypeOK
    <2>2. \A st \in (admitted \cup held) \ admitted :
            ~admissible(materialize(owner, admitted), st)
        BY <2>1 DEF HeldQuiet, load_effective_roles
    <2>3. admitted \cup held \in SUBSET RoleStatement
        BY DEF TypeInv, TypeOK
    <2> QED
        BY <2>1, <2>2, <2>3, HoldingIsSilent DEF load_effective_roles
<1> QED
    BY <1>1, StoreInvHolds, PTL

(* Between handlers a lookup over the role cache returns exactly role_at   *)
(* of the admitted statements.                                             *)
THEOREM CacheCorrect == Spec => []CacheIsRoleAt
<1>1. TypeInv /\ StoreInv => CacheIsRoleAt
    <2> SUFFICES ASSUME TypeInv, StoreInv, Settled, NEW p \in Peers, NEW s \in Scopes
                 PROVE  resolve_role(owner, cache, None, p, s)
                          = role_at(load_effective_roles, p, s)
        BY DEF CacheIsRoleAt, LookupIsRoleAt
    <2>1. owner \in Peers /\ cache = cache_rows(load_effective_roles)
        BY DEF StoreInv, AtRestInv, Settled, InRepartition, TypeInv, TypeOK
    <2>2. /\ admitted \in SUBSET RoleStatement
          /\ \A x, y \in admitted : StatementKey(x) = StatementKey(y) => x = y
        BY DEF StoreInv, OneLiveVersion, TypeInv, TypeOK
    <2> QED
        BY <2>1, <2>2, CacheProjection DEF load_effective_roles
<1> QED
    BY <1>1, StoreInvHolds, PTL

(***************************************************************************)
(* Live versions only move forward                                         *)
(***************************************************************************)
(* Two versions of a key are the same statement or one is the newer:       *)
(* canonical_bytes decides between equal timestamps.                       *)
LEMMA NewerIsTotal ==
    ASSUME NEW x \in RoleStatement, NEW y \in RoleStatement, StatementKey(x) = StatementKey(y)
    PROVE  x = y \/ is_newer(x, y) \/ is_newer(y, x)
<1>1. /\ x.scope = y.scope /\ x.peer = y.peer /\ x.grantor = y.grantor
      /\ x.hlc \in Nat /\ y.hlc \in Nat
      /\ x.role \in {0, 1, 2, 3} /\ y.role \in {0, 1, 2, 3}
      /\ x.revoked \in BOOLEAN /\ y.revoked \in BOOLEAN
    BY StatementType DEF StatementKey, GrantedRole, None, Manager
<1>2. CASE x.hlc = y.hlc /\ ByteRank(x) = ByteRank(y)
    <2> DEFINE k(r) == CASE r = Editor -> 0 [] r = Manager -> 1 [] r = None -> 2 [] r = Viewer -> 3
               b(v) == IF v THEN 1 ELSE 0
    <2>1. /\ k(0) = 2 /\ k(1) = 3 /\ k(2) = 0 /\ k(3) = 1
        BY DEF Editor, Manager, None, Viewer
    <2>2. b(x.revoked) \in {0, 1} /\ b(y.revoked) \in {0, 1}
        BY <1>1
    <2>3. k(x.role) \in {0, 1, 2, 3} /\ k(y.role) \in {0, 1, 2, 3}
        BY <1>1, <2>1
    <2>4. ByteRank(x) = 2 * k(x.role) + b(x.revoked) /\ ByteRank(y) = 2 * k(y.role) + b(y.revoked)
        BY DEF ByteRank
    <2>5. k(x.role) = k(y.role) /\ b(x.revoked) = b(y.revoked)
        <3>1. ASSUME NEW p \in {0, 1, 2, 3}, NEW q \in {0, 1, 2, 3},
                     NEW i \in {0, 1}, NEW j \in {0, 1}, 2 * p + i = 2 * q + j
              PROVE  p = q /\ i = j
            BY <3>1
        <3> HIDE DEF k, b
        <3>2. 2 * k(x.role) + b(x.revoked) = 2 * k(y.role) + b(y.revoked)
            BY <1>2, <2>4
        <3> QED
            BY <2>2, <2>3, <3>1, <3>2, Zenon
    <2>6. x.role = y.role
        <3> HIDE DEF k, b
        <3> QED
            BY <1>1, <2>1, <2>5
    <2>7. x.revoked = y.revoked
        BY <1>1, <2>5
    <2> QED
        BY <1>1, <1>2, <2>6, <2>7 DEF RoleStatement
<1>3. ByteRank(x) \in Int /\ ByteRank(y) \in Int
    BY <1>1 DEF ByteRank, Editor, Manager, None, Viewer
<1> QED
    BY <1>1, <1>2, <1>3 DEF is_newer

(* What one write does to the live versions: st's key moves to st, every   *)
(* other key keeps its version.                                            *)
LEMMA WriteAdvances ==
    ASSUME NEW st, NEW isHeld \in BOOLEAN, write_live_version(st, isHeld),
           \A x \in live_version(st) : st = x \/ is_newer(st, x)
    PROVE  \A x \in admitted \cup held : \E y \in admitted' \cup held' :
              StatementKey(y) = StatementKey(x) /\ (y = x \/ is_newer(y, x))
<1>1. st \in admitted' \cup held'
    BY DEF write_live_version
<1> TAKE x \in admitted \cup held
<1>2. CASE StatementKey(x) = StatementKey(st)
    BY <1>1, <1>2 DEF live_version, Versions
<1>3. CASE StatementKey(x) # StatementKey(st)
    BY <1>3 DEF write_live_version, Versions
<1> QED
    BY <1>2, <1>3

(* No step loses a live statement or replaces it by an older one, except   *)
(* one that targets the owner.                                             *)
THEOREM LiveVersionsOnlyAdvance == Spec => LiveVersionsAdvance
<1>1. TypeInv /\ StoreInv /\ [Next]_vars => [LiveStatementKept]_vars
    <2> SUFFICES ASSUME TypeInv, StoreInv, Next PROVE LiveStatementKept
        OBVIOUS
    <2>1. ASSUME NEW st \in Inbound, SubmitAdmitted(st) \/ SubmitHeld(st) PROVE LiveStatementKept
        <3>1. \E isHeld \in BOOLEAN : write_live_version(st, isHeld)
            BY <2>1 DEF SubmitAdmitted, SubmitHeld
        <3>2. \A x \in live_version(st) : is_newer(st, x)
            BY <2>1 DEF SubmitAdmitted, SubmitHeld, Newest
        <3> QED
            BY <3>1, <3>2, WriteAdvances DEF LiveStatementKept
    <2>2. ASSUME NEW p \in Peers, NEW s \in Scopes, NEW role \in GrantedRole,
                 NEW revoked \in BOOLEAN, IssueLocal(p, s, role, revoked)
          PROVE  LiveStatementKept
        <3> DEFINE st == LocalStatement(p, s, role, revoked)
        <3>1. st \in RoleStatement
            BY StoreAssumption DEF LocalStatement, RoleStatement, TypeInv, TypeOK
        <3>2. write_live_version(st, FALSE) /\ \A x \in live_version(st) : ~is_newer(x, st)
            BY <2>2 DEF IssueLocal
        <3>3. \A x \in live_version(st) : x \in RoleStatement /\ StatementKey(x) = StatementKey(st)
            BY DEF live_version, Versions, TypeInv, TypeOK
        <3> HIDE DEF st
        <3>4. \A x \in live_version(st) : st = x \/ is_newer(st, x)
            BY <3>1, <3>2, <3>3, NewerIsTotal
        <3> QED
            BY <3>2, <3>4, WriteAdvances DEF LiveStatementKept
    <2>3. ASSUME NEW st \in admitted \cup held, Demote(st) \/ Promote(st) PROVE LiveStatementKept
        <3>1. \E isHeld \in BOOLEAN : write_live_version(st, isHeld)
            BY <2>3 DEF Demote, Promote
        <3>2. \A x \in live_version(st) : st = x
            BY MoveLive DEF live_version, Versions, StoreInv
        <3> QED
            BY <3>1, <3>2, WriteAdvances DEF LiveStatementKept
    <2>4. ASSUME NEW st \in held, DenyPromotion(st) PROVE LiveStatementKept
        BY <2>4 DEF DenyPromotion, LiveStatementKept
    <2>5. ASSUME UNCHANGED <<admitted, held>> PROVE LiveStatementKept
        BY <2>5 DEF LiveStatementKept
    <2>6. ASSUME Command PROVE LiveStatementKept
        <3>1. None \in GrantedRole
            BY DEF GrantedRole, None, Manager
        <3>2. ASSUME NEW p \in Peers, NEW s \in Scopes, revoke_role_checked(p, s)
              PROVE  LiveStatementKept
            BY <2>2, <3>1, <3>2 DEF revoke_role_checked
        <3>3. ASSUME NEW p \in Peers, NEW s \in Scopes, NEW role \in GrantedRole,
                     assign_role_checked(p, s, role)
              PROVE  LiveStatementKept
            BY <2>2, <3>3 DEF assign_role_checked
        <3>4. CASE \/ \E access \in {Viewer, None} : set_default_access(access)
                   \/ \E o \in Peers : ManifestLands(o)
                   \/ claim_orphaned_verse
                   \/ reemit_local_statements
            BY <2>5, <3>4 DEF set_default_access, ManifestLands, claim_orphaned_verse,
               reemit_local_statements, tables
        <3> QED
            BY <2>1, <2>6, <3>2, <3>3, <3>4 DEF Command
    <2>7. ASSUME Repartition PROVE LiveStatementKept
        <3>1. CASE EndDemote \/ EndRound \/ EndPromote \/ WriteCache
            BY <2>5, <3>1 DEF EndDemote, EndRound, EndPromote, WriteCache, tables
        <3> QED
            BY <2>3, <2>4, <2>7, <3>1 DEF Repartition
    <2>8. CASE \/ \E st \in outgoing : publish_statement(st) \/ DropStatement(st)
               \/ Crash \/ Startup \/ Abort
        BY <2>5, <2>8 DEF publish_statement, DropStatement, Published, Crash, Startup, Abort,
           tables
    <2> QED
        BY <2>6, <2>7, <2>8 DEF Next, Publish
<1> QED
    BY <1>1, StoreInvHolds, PTL DEF Spec, LiveVersionsAdvance
=============================================================================
