------------------------ MODULE MaterializeLoopProofs ------------------------
(***************************************************************************)
(* The passes of materialize compute the least fixpoint, within the bound  *)
(* the code gives them, for any statements in any order.                   *)
(***************************************************************************)
EXTENDS MaterializeLoop, RoleGrantsProofs, FiniteSetTheorems

(***************************************************************************)
(* Who is a Manager, as a witness                                          *)
(***************************************************************************)
ManagerGrant(e, g, s) ==
    \E st \in e.pins \cup e.grants :
        st.peer = g /\ st.scope \in Reached(e, g, Chain[s]) /\ st.role = Manager

LEMMA AuthorityWitness ==
    ASSUME NEW e \in Effective, NEW g \in Peers, NEW s \in Scopes
    PROVE  authority(e, g, s) >= Manager <=> g = e.owner \/ ManagerGrant(e, g, s)
<1>1. Chain[s] \in SUBSET Scopes
    BY ChainType
<1>2. WalkRole(e, g, Chain[s]) \in 0 .. 3
    BY <1>1, WalkRoleType DEF GrantedRole, None, Manager
<1>3. CASE g = e.owner
    BY <1>3 DEF authority, role_at, Owner, Manager
<1>4. CASE g # e.owner /\ WalkRole(e, g, Chain[s]) = 3
    <2>1. ManagerGrant(e, g, s)
        BY <1>1, <1>4, WalkWitness DEF ManagerGrant, Manager, None
    <2> QED
        BY <1>4, <2>1 DEF authority, role_at, Manager
<1>5. CASE g # e.owner /\ WalkRole(e, g, Chain[s]) # 3
    <2>1. ~ManagerGrant(e, g, s)
        <3> SUFFICES ASSUME ManagerGrant(e, g, s) PROVE FALSE
            OBVIOUS
        <3>1. WalkRole(e, g, Chain[s]) >= 3
            BY <1>1, WalkAtLeast DEF ManagerGrant, Manager
        <3> QED
            BY <1>2, <1>5, <3>1
    <2> QED
        BY <1>2, <1>5, <2>1 DEF authority, role_at, Manager
<1> QED
    BY <1>3, <1>4, <1>5

LoopManager(g, s) ==
    \/ \E pin \in OwnerPart.pins :
          pin.peer = g /\ pin.scope \in Reached(OwnerPart, g, Chain[s]) /\ pin.role = Manager
    \/ \E t \in Reached(OwnerPart, g, Chain[s]) :
          ~OwnerSpoke(g, t) /\ mgr[<<g, t>>] = Manager

LEMMA OwnerPartType ==
    ASSUME all \in SUBSET RoleStatement, NEW G \in SUBSET RoleStatement
    PROVE  /\ WithGrants(OwnerDid, all, G) \in Effective
           /\ WithGrants(OwnerDid, all, G).owner = OwnerDid
           /\ WithGrants(OwnerDid, all, G).grants = G
           /\ WithGrants(OwnerDid, all, G).pins = OwnerPart.pins
           /\ OwnerPart \in Effective
           /\ OwnerPart.grants = {}
           /\ \A g \in Peers, s \in Scopes :
                 Reached(WithGrants(OwnerDid, all, G), g, Chain[s])
                    = Reached(OwnerPart, g, Chain[s])
<1>1. /\ WithGrants(OwnerDid, all, G) \in Effective
      /\ WithGrants(OwnerDid, all, G).owner = OwnerDid
      /\ WithGrants(OwnerDid, all, G).grants = G
      /\ WithGrants(OwnerDid, all, G).pins = OwnerPart.pins
      /\ OwnerPart \in Effective
      /\ OwnerPart.grants = {}
    BY LoopAssumption DEF WithGrants, OwnerPart, Effective, OwnerStatements
<1> QED
    BY <1>1 DEF Reached, PinnedAt

LEMMA LoopRoleWitness ==
    ASSUME all \in SUBSET RoleStatement, mgr \in [Cells -> GrantedRole],
           NEW g \in Peers, NEW s \in Scopes
    PROVE  LoopRole(g, s) >= Manager <=> g = OwnerDid \/ LoopManager(g, s)
<1> DEFINE reached == Reached(OwnerPart, g, Chain[s])
           P == {pin.role : pin \in GrantsOn(OwnerPart, g, reached)}
           M == {mgr[<<g, t>>] : t \in {u \in reached : ~OwnerSpoke(g, u)}}
           R == {None} \cup P \cup M
<1>1. reached \subseteq Scopes
    BY ChainType DEF Reached
<1>2. GrantsOn(OwnerPart, g, reached) = {pin \in OwnerPart.pins : pin.peer = g /\ pin.scope \in reached}
    BY OwnerPartType DEF GrantsOn
<1>3. OwnerPart.pins \subseteq RoleStatement
    BY OwnerPartType DEF Effective
<1>4. \A t \in reached : mgr[<<g, t>>] \in GrantedRole
    BY <1>1 DEF Cells
<1>5. R \subseteq 0 .. 3
    <2>1. P \subseteq 0 .. 3
        BY <1>2, <1>3, StatementType DEF GrantedRole, None, Manager
    <2>2. M \subseteq 0 .. 3
        BY <1>4 DEF GrantedRole, None, Manager
    <2> HIDE DEF P, M
    <2> QED
        BY <2>1, <2>2 DEF None
<1>6. R \in SUBSET RoleLevel /\ R # {}
    <2>1. None \in R
        OBVIOUS
    <2> HIDE DEF R
    <2> QED
        BY <1>5, <2>1 DEF RoleLevel, None, Owner
<1>7. 3 \in R <=> LoopManager(g, s)
    <2>1. 3 \in P <=> \E pin \in OwnerPart.pins :
                        pin.peer = g /\ pin.scope \in reached /\ pin.role = 3
        BY <1>2
    <2>2. 3 \in M <=> \E t \in reached : ~OwnerSpoke(g, t) /\ mgr[<<g, t>>] = 3
        OBVIOUS
    <2>3. 3 \in R <=> 3 \in P \/ 3 \in M
        BY DEF None
    <2> HIDE DEF R, P, M
    <2> QED
        BY <2>1, <2>2, <2>3 DEF LoopManager, Manager
<1>8. CASE g = OwnerDid
    BY <1>8 DEF LoopRole, Owner, Manager
<1>9. CASE g # OwnerDid
    <2>1. LoopRole(g, s) = HighestOf(R)
        BY <1>9 DEF LoopRole
    <2> HIDE DEF R
    <2>2. HighestOf(R) >= 3 <=> 3 \in R
        <3>1. HighestOf(R) \in R /\ \A x \in R : HighestOf(R) >= x
            BY <1>6, HighestOfIsMax
        <3>2. HighestOf(R) \in 0 .. 3
            BY <1>5, <3>1
        <3> QED
            BY <3>1, <3>2
    <2> QED
        BY <1>7, <1>9, <2>1, <2>2 DEF Manager
<1> QED
    BY <1>8, <1>9

(***************************************************************************)
(* Nothing too much: what the loop takes for authority is authority.       *)
(***************************************************************************)
LEMMA LoopRoleSound ==
    ASSUME all \in SUBSET RoleStatement, mgr \in [Cells -> GrantedRole], Supported,
           NEW g \in Peers, NEW s \in Scopes, LoopRole(g, s) >= Manager
    PROVE  authority(materialize(OwnerDid, all), g, s) >= Manager
<1> DEFINE E == EffectiveGrants(OwnerDid, all)
           e == WithGrants(OwnerDid, all, E)
<1>1. E \in SUBSET RoleStatement
    BY EffectiveGrantsType
<1>2. e \in Effective /\ e.owner = OwnerDid /\ e.grants = E /\ e.pins = OwnerPart.pins
      /\ Reached(e, g, Chain[s]) = Reached(OwnerPart, g, Chain[s])
    BY <1>1, OwnerPartType
<1>3. g = OwnerDid \/ LoopManager(g, s)
    BY LoopRoleWitness
<1>4. \A t \in Reached(OwnerPart, g, Chain[s]) : <<g, t>> \in Cells
    BY ChainType DEF Reached, Cells
<1> HIDE DEF E
<1>5. ASSUME NEW t \in Reached(OwnerPart, g, Chain[s]), mgr[<<g, t>>] = Manager
      PROVE  \E st \in E : st.peer = g /\ st.scope = t /\ st.role = Manager
    BY <1>4, <1>5 DEF Supported, E, Cell, Manager, None
<1> HIDE DEF e
<1>6. g = e.owner \/ ManagerGrant(e, g, s)
    <2>1. CASE g = OwnerDid
        BY <1>2, <2>1
    <2>2. CASE \E pin \in OwnerPart.pins :
                  pin.peer = g /\ pin.scope \in Reached(OwnerPart, g, Chain[s])
                  /\ pin.role = Manager
        BY <1>2, <2>2 DEF ManagerGrant
    <2>3. ASSUME NEW t \in Reached(OwnerPart, g, Chain[s]), mgr[<<g, t>>] = Manager
          PROVE  ManagerGrant(e, g, s)
        <3>1. PICK st \in E : st.peer = g /\ st.scope = t /\ st.role = Manager
            BY <1>5, <2>3
        <3> QED
            BY <1>2, <3>1 DEF ManagerGrant
    <2> QED
        BY <1>3, <2>1, <2>2, <2>3 DEF LoopManager
<1>7. authority(e, g, s) >= Manager
    BY <1>2, <1>6, AuthorityWitness
<1> QED
    BY <1>7 DEF e, E, materialize

(* Nothing too little: once every statement with authority is absorbed,    *)
(* the absorbed statements include the least fixpoint.                     *)
LEMMA FixpointAbsorbs ==
    ASSUME all \in SUBSET RoleStatement, mgr \in [Cells -> GrantedRole],
           \A st \in Raising(OwnerDid, all) :
               LoopRole(st.grantor, st.scope) >= Manager => st \in Absorbed
    PROVE  EffectiveGrants(OwnerDid, all) \subseteq Absorbed
<1> DEFINE G == {st \in Raising(OwnerDid, all) : LoopRole(st.grantor, st.scope) >= Manager}
           e == WithGrants(OwnerDid, all, G)
<1>1. Raising(OwnerDid, all) \in SUBSET RoleStatement /\ G \in SUBSET Raising(OwnerDid, all)
    BY EffectiveGrantsType
<1>2. G \in SUBSET RoleStatement /\ G \subseteq Absorbed
    BY <1>1
<1>3. ASSUME NEW st \in Raising(OwnerDid, all), authority(e, st.grantor, st.scope) >= Manager
      PROVE  st \in G
    <2> DEFINE g == st.grantor
               s == st.scope
    <2>1. g \in Peers /\ s \in Scopes
        BY <1>1, StatementType
    <2> HIDE DEF g, s, G
    <2>2. e \in Effective /\ e.owner = OwnerDid /\ e.grants = G /\ e.pins = OwnerPart.pins
          /\ Reached(e, g, Chain[s]) = Reached(OwnerPart, g, Chain[s])
        BY <1>2, <2>1, OwnerPartType
    <2> HIDE DEF e
    <2>3. g = OwnerDid \/ ManagerGrant(e, g, s)
        BY <1>3, <2>1, <2>2, AuthorityWitness DEF g, s
    <2>4. ASSUME NEW x \in G, x.role = Manager, x.peer = g
          PROVE  ~OwnerSpoke(g, x.scope) /\ mgr[<<g, x.scope>>] = Manager
        <3>1. x \in Absorbed /\ x \in Raising(OwnerDid, all) /\ x \in RoleStatement
            BY <1>1, <1>2
        <3>2. Cell(x) = <<g, x.scope>> /\ <<g, x.scope>> \in Cells
            BY <2>4, <3>1, StatementType DEF Cell, Cells
        <3>3. mgr[<<g, x.scope>>] \in 0 .. 3 /\ mgr[<<g, x.scope>>] >= 3
            BY <2>4, <3>1, <3>2 DEF Absorbed, GrantedRole, None, Manager
        <3>4. ~OwnerSpoke(g, x.scope)
            BY <3>1, <3>2 DEF OwnerSpoke, OwnerPart, WithGrants, Raising
        <3> QED
            BY <3>3, <3>4 DEF Manager
    <2>5. ManagerGrant(e, g, s) => LoopManager(g, s)
        BY <2>2, <2>4 DEF ManagerGrant, LoopManager
    <2>6. LoopRole(g, s) >= Manager
        BY <2>1, <2>3, <2>5, LoopRoleWitness
    <2> QED
        BY <2>6 DEF g, s, G
<1>4. Closed(OwnerDid, all, G)
    BY <1>3 DEF Closed
<1> QED
    BY <1>1, <1>2, <1>4, GrantsLeast

(***************************************************************************)
(* The loop                                                                *)
(***************************************************************************)
LEMMA LoopTypes ==
    ASSUME TypeOK
    PROVE  /\ all \in SUBSET RoleStatement
           /\ IsFiniteSet(all) /\ Cardinality(all) \in Nat
           /\ IsFiniteSet(Absorbed) /\ Cardinality(Absorbed) \in Nat
           /\ Absorbed \subseteq all /\ Cardinality(Absorbed) <= Cardinality(all)
           /\ \A st \in all : Cell(st) \in Cells /\ mgr[Cell(st)] \in 0 .. 3 /\ st.role \in 0 .. 3
<1>1. all \in SUBSET Statements /\ all \in SUBSET RoleStatement /\ IsFiniteSet(Statements)
    BY LoopAssumption DEF TypeOK
<1>2. IsFiniteSet(all)
    BY <1>1, FS_Subset
<1>3. Absorbed \in SUBSET all
    BY DEF Absorbed, Raising
<1>4. IsFiniteSet(Absorbed) /\ Cardinality(Absorbed) <= Cardinality(all)
    BY <1>2, <1>3, FS_Subset
<1>5. \A st \in all : Cell(st) \in Cells /\ st.role \in 0 .. 3
    BY <1>1, StatementType DEF Cell, Cells, GrantedRole, None, Manager
<1>6. \A st \in all : mgr[Cell(st)] \in 0 .. 3
    BY <1>5 DEF TypeOK, GrantedRole, None, Manager
<1> QED
    BY <1>1, <1>2, <1>3, <1>4, <1>5, <1>6, FS_CardinalityType

LEMMA LoopInit == Init => TypeOK /\ LoopInv
<1> SUFFICES ASSUME Init PROVE TypeOK /\ LoopInv
    OBVIOUS
<1>1. TypeOK
    <2>1. mgr \in [Cells -> GrantedRole]
        BY DEF Init, GrantedRole, None, Manager
    <2>2. all \subseteq Statements /\ left \subseteq manager_statements /\ passes \in Nat
        BY DEF Init, manager_statements
    <2>3. changed \in BOOLEAN /\ reached_fixpoint \in BOOLEAN /\ done \in BOOLEAN
        BY DEF Init
    <2> QED
        BY <2>1, <2>2, <2>3 DEF TypeOK
<1>2. Supported
    BY DEF Init, Supported
<1>3. VisitedAbsorbed
    BY DEF Init, VisitedAbsorbed, manager_statements, Raising
<1>4. PassesCounted
    BY <1>1, LoopTypes DEF Init, PassesCounted
<1> QED
    BY <1>1, <1>2, <1>3, <1>4 DEF LoopInv, Init

(* A statement that can raise a cell and is not raised either lacks its    *)
(* grantor's authority or is absorbed.                                     *)
LEMMA RaisingRaises ==
    ASSUME TypeOK, NEW st \in all, st.grantor # OwnerDid
    PROVE  /\ Raises(st) => /\ st \in Raising(OwnerDid, all)
                            /\ LoopRole(st.grantor, st.scope) >= Manager
                            /\ st \notin Absorbed
           /\ st \in Raising(OwnerDid, all) /\ LoopRole(st.grantor, st.scope) >= Manager
                 /\ ~Raises(st) => st \in Absorbed
<1>1. mgr[Cell(st)] \in 0 .. 3 /\ st.role \in 0 .. 3
    BY LoopTypes
<1>2. OwnerSpoke(st.peer, st.scope) <=>
        \E x \in OwnerStatements(OwnerDid, all) : Cell(x) = Cell(st)
    BY DEF OwnerSpoke, OwnerPart, WithGrants, OwnerStatements, Cell
<1>3. st \in Raising(OwnerDid, all) <=>
        ~st.revoked /\ st.role # None /\ ~OwnerSpoke(st.peer, st.scope)
    BY <1>2 DEF Raising
<1> QED
    BY <1>1, <1>3 DEF Raises, Absorbed

LEMMA RaiseKeepsInv ==
    ASSUME TypeOK, LoopInv, NEW st \in left, Raise(st)
    PROVE  TypeOK' /\ LoopInv'
<1> DEFINE cell == Cell(st)
<1>1. st \in all /\ st.grantor # OwnerDid /\ st \in RoleStatement
    BY LoopTypes DEF TypeOK, manager_statements
<1>2. cell \in Cells /\ mgr[cell] \in 0 .. 3 /\ st.role \in 0 .. 3 /\ st.role \in GrantedRole
    BY <1>1, LoopTypes DEF GrantedRole, None, Manager
<1>3. /\ all' = all /\ left' = left \ {st} /\ changed' = TRUE
      /\ passes' = passes /\ ~done /\ ~done' /\ reached_fixpoint' = reached_fixpoint
      /\ mgr' = [mgr EXCEPT ![cell] = st.role]
    BY DEF Raise, TypeOK
<1>4. /\ st \in Raising(OwnerDid, all) /\ LoopRole(st.grantor, st.scope) >= Manager
      /\ st \notin Absorbed
    BY <1>1, RaisingRaises DEF Raise
<1>5. st.role > mgr[cell]
    BY DEF Raise, Raises
<1> HIDE DEF cell
<1>6. TypeOK'
    <2>1. mgr' \in [Cells -> GrantedRole]
        BY <1>2, <1>3 DEF TypeOK
    <2>2. (all \subseteq Statements /\ left \subseteq manager_statements /\ passes \in Nat)'
        BY <1>3 DEF TypeOK, manager_statements
    <2>3. (changed \in BOOLEAN /\ reached_fixpoint \in BOOLEAN /\ done \in BOOLEAN)'
        BY Zenon DEF TypeOK, Raise
    <2> QED
        BY <2>1, <2>2, <2>3 DEF TypeOK
<1>7. Supported'
    <2>1. st.grantor \in Peers /\ st.scope \in Scopes
        BY <1>1, StatementType
    <2>2. all \in SUBSET RoleStatement /\ mgr \in [Cells -> GrantedRole]
        BY LoopTypes DEF TypeOK
    <2>3. authority(materialize(OwnerDid, all), st.grantor, st.scope) >= Manager
        BY <1>4, <2>1, <2>2, LoopRoleSound DEF LoopInv
    <2>4. st \in EffectiveGrants(OwnerDid, all)
        BY <1>4, <2>2, <2>3, GrantsClosed, LoopAssumption DEF Closed, materialize
    <2> QED
        BY <1>2, <1>3, <2>2, <2>4 DEF Supported, LoopInv, cell
<1>8. PassesCounted'
    <2>1. Absorbed \cup {st} \subseteq Absorbed'
        <3>1. ASSUME NEW x \in Absorbed PROVE x \in Absorbed'
            <4>1. x \in all /\ x \in Raising(OwnerDid, all) /\ x.role <= mgr[Cell(x)]
                BY DEF Absorbed, Raising
            <4>2. Cell(x) \in Cells /\ mgr[Cell(x)] \in 0 .. 3 /\ x.role \in 0 .. 3
                BY <4>1, LoopTypes
            <4>3. x.role <= mgr'[Cell(x)]
                <5>1. CASE Cell(x) = cell
                    BY <1>2, <1>3, <1>5, <4>1, <4>2, <5>1 DEF TypeOK
                <5>2. CASE Cell(x) # cell
                    BY <1>3, <4>1, <4>2, <5>2 DEF TypeOK
                <5> QED
                    BY <5>1, <5>2
            <4> QED
                BY <1>3, <4>1, <4>3 DEF Absorbed
        <3>2. mgr'[Cell(st)] = st.role
            BY <1>2, <1>3 DEF cell, TypeOK
        <3>3. st \in Absorbed'
            BY <1>2, <1>3, <1>4, <3>2 DEF Absorbed
        <3> QED
            BY <3>1, <3>3
    <2>2. IsFiniteSet(Absorbed) /\ Cardinality(Absorbed) \in Nat
        BY LoopTypes
    <2>3. IsFiniteSet(Absorbed')
        <3>1. IsFiniteSet(all) /\ Absorbed' \in SUBSET all
            BY <1>3, LoopTypes DEF Absorbed, Raising
        <3> QED
            BY <3>1, FS_Subset
    <2>4. Cardinality(Absorbed \cup {st}) = Cardinality(Absorbed) + 1
        BY <1>4, <2>2, FS_AddElement
    <2>5. Cardinality(Absorbed \cup {st}) <= Cardinality(Absorbed')
        BY <2>1, <2>3, FS_Subset
    <2>6. Cardinality(Absorbed') \in Nat /\ passes \in Nat
        BY <2>3, FS_CardinalityType DEF TypeOK
    <2>7. passes <= Cardinality(Absorbed)
        BY <1>3, <2>2, <2>6 DEF LoopInv, PassesCounted
    <2>8. passes + 1 <= Cardinality(Absorbed')
        BY <2>2, <2>4, <2>5, <2>6, <2>7
    <2> QED
        BY <1>3, <2>8 DEF PassesCounted
<1> QED
    BY <1>3, <1>6, <1>7, <1>8 DEF LoopInv, VisitedAbsorbed

LEMMA SkipKeepsInv ==
    ASSUME TypeOK, LoopInv, NEW st \in left, Skip(st)
    PROVE  TypeOK' /\ LoopInv'
<1>1. st \in all /\ st.grantor # OwnerDid
    BY DEF TypeOK, manager_statements
<1>2. /\ all' = all /\ left' = left \ {st} /\ changed' = changed /\ mgr' = mgr
      /\ passes' = passes /\ ~done /\ ~done' /\ reached_fixpoint' = reached_fixpoint
      /\ ~Raises(st)
    BY DEF Skip, TypeOK
<1>3. TypeOK'
    <2>1. (/\ all \subseteq Statements /\ mgr \in [Cells -> GrantedRole]
           /\ left \subseteq manager_statements /\ passes \in Nat)'
        BY <1>2 DEF TypeOK, manager_statements
    <2>2. (changed \in BOOLEAN /\ reached_fixpoint \in BOOLEAN /\ done \in BOOLEAN)'
        BY Zenon DEF TypeOK, Skip
    <2> QED
        BY <2>1, <2>2 DEF TypeOK
<1>4. Supported' /\ PassesCounted' /\ Absorbed' = Absorbed
    BY <1>2 DEF LoopInv, Supported, PassesCounted, Absorbed
<1>5. \A g, s : LoopRole(g, s)' = LoopRole(g, s)
    BY <1>2 DEF LoopRole, OwnerPart, OwnerSpoke
<1>6. VisitedAbsorbed'
    <2> SUFFICES ASSUME ~changed, NEW x \in Raising(OwnerDid, all) \ (left \ {st}),
                        LoopRole(x.grantor, x.scope) >= Manager
                 PROVE  x \in Absorbed
        BY <1>2, <1>4, <1>5 DEF VisitedAbsorbed
    <2>1. CASE x = st
        BY <1>1, <1>2, <2>1, RaisingRaises
    <2>2. CASE x # st
        BY <2>2 DEF LoopInv, VisitedAbsorbed
    <2> QED
        BY <2>1, <2>2
<1> QED
    BY <1>2, <1>3, <1>4, <1>6 DEF LoopInv

LEMMA EndPassKeepsInv ==
    ASSUME TypeOK, LoopInv, PassChangedNothing \/ PassChangedSomething
    PROVE  TypeOK' /\ LoopInv'
<1>1. all' = all /\ mgr' = mgr /\ ~done /\ left = {}
    BY DEF PassChangedNothing, PassChangedSomething
<1>2. Supported' /\ Absorbed' = Absorbed
    BY <1>1 DEF LoopInv, Supported, Absorbed
<1>3. \A g, s : LoopRole(g, s)' = LoopRole(g, s)
    BY <1>1 DEF LoopRole, OwnerPart, OwnerSpoke
<1>4. CASE PassChangedNothing
    <2>1. /\ left' = {} /\ changed' = changed /\ ~changed /\ passes' = passes
          /\ reached_fixpoint' = TRUE /\ done' = TRUE
        BY <1>4 DEF PassChangedNothing
    <2>2. TypeOK'
        BY <1>1, <2>1 DEF TypeOK, manager_statements
    <2>3. VisitedAbsorbed'
        BY <1>1, <1>2, <1>3, <2>1 DEF LoopInv, VisitedAbsorbed
    <2> QED
        BY <1>2, <2>1, <2>2, <2>3 DEF LoopInv
<1>5. CASE PassChangedSomething
    <2>1. /\ left' = manager_statements /\ changed' = FALSE /\ changed /\ passes' = passes + 1
          /\ reached_fixpoint' = reached_fixpoint /\ done' = (passes + 1 >= max_passes)
        BY <1>5 DEF PassChangedSomething
    <2>2. passes + 1 <= Cardinality(Absorbed)
        BY <1>1, <2>1 DEF LoopInv, PassesCounted
    <2>3. done' = FALSE
        <3>1. Cardinality(all) \in Nat /\ Cardinality(Absorbed) \in Nat /\ passes \in Nat
              /\ Cardinality(Absorbed) <= Cardinality(all)
            BY LoopTypes DEF TypeOK
        <3>2. ~(passes + 1 >= max_passes)
            BY <2>2, <3>1 DEF max_passes
        <3>3. (passes + 1 >= max_passes) = FALSE
            BY <3>1, <3>2 DEF max_passes
        <3> QED
            BY <2>1, <3>3, Zenon
    <2>4. passes' \in Nat
        BY <2>1 DEF TypeOK
    <2>5. TypeOK'
        BY <1>1, <2>1, <2>3, <2>4 DEF TypeOK, manager_statements
    <2>6. PassesCounted'
        BY <1>2, <2>1, <2>2, <2>4 DEF PassesCounted
    <2>7. VisitedAbsorbed'
        BY <1>1, <2>1 DEF VisitedAbsorbed, Raising, manager_statements
    <2> QED
        BY <1>2, <2>3, <2>5, <2>6, <2>7 DEF LoopInv
<1> QED
    BY <1>4, <1>5

LEMMA LoopInductive == TypeOK /\ LoopInv /\ [Next]_vars => TypeOK' /\ LoopInv'
<1> SUFFICES ASSUME TypeOK, LoopInv, [Next]_vars PROVE TypeOK' /\ LoopInv'
    OBVIOUS
<1>1. CASE Next
    BY <1>1, RaiseKeepsInv, SkipKeepsInv, EndPassKeepsInv DEF Next
<1>2. CASE UNCHANGED vars
    <2>1. TypeOK'
        BY <1>2 DEF vars, TypeOK, manager_statements
    <2>2. /\ Supported' /\ PassesCounted' = PassesCounted
        BY <1>2 DEF vars, LoopInv, Supported, PassesCounted, Absorbed
    <2>3. VisitedAbsorbed'
        <3>1. \A g, s : LoopRole(g, s)' = LoopRole(g, s)
            BY <1>2 DEF vars, LoopRole, OwnerPart, OwnerSpoke
        <3> QED
            BY <1>2, <3>1 DEF vars, LoopInv, VisitedAbsorbed, Absorbed
    <2> QED
        BY <1>2, <2>1, <2>2, <2>3 DEF vars, LoopInv
<1> QED
    BY <1>1, <1>2

LEMMA LoopInvHolds == Spec => [](TypeOK /\ LoopInv)
BY LoopInit, LoopInductive, PTL DEF Spec

(* The warning of materialize is unreachable: |statements| + 1 passes are  *)
(* enough for any statements, visited in any order.                        *)
THEOREM PassBoundHolds == Spec => []BoundSuffices
<1>1. TypeOK /\ LoopInv => BoundSuffices
    BY DEF LoopInv, BoundSuffices
<1> QED
    BY <1>1, LoopInvHolds, PTL

(* When materialize returns, mgr is the least fixpoint of delegation from  *)
(* the owner, whatever order the statements came in.                       *)
THEOREM LoopIsLeastFixpoint == Spec => []LoopComputesLeast
<1>1. TypeOK /\ LoopInv => LoopComputesLeast
    <2> SUFFICES ASSUME TypeOK, LoopInv, done, NEW p \in Peers, NEW s \in Scopes
                 PROVE  mgr[<<p, s>>] = MgrAt(materialize(OwnerDid, all), p, s)
        BY DEF LoopComputesLeast
    <2> DEFINE E == EffectiveGrants(OwnerDid, all)
               e == materialize(OwnerDid, all)
    <2>1. all \in SUBSET RoleStatement /\ mgr \in [Cells -> GrantedRole]
        BY LoopTypes DEF TypeOK
    <2>2. E \subseteq Absorbed
        BY <2>1, FixpointAbsorbs DEF LoopInv, VisitedAbsorbed
    <2>3. e \in Effective /\ e.grants = E
        BY <2>1, MaterializeType, LoopAssumption DEF materialize, WithGrants
    <2>4. <<p, s>> \in Cells /\ mgr[<<p, s>>] \in 0 .. 3
        BY <2>1 DEF Cells, GrantedRole, None, Manager
    <2> HIDE DEF E, e
    <2>5. /\ MgrAt(e, p, s) \in 0 .. 3
          /\ \A st \in E : Cell(st) = <<p, s>> => MgrAt(e, p, s) >= st.role
          /\ MgrAt(e, p, s) # None => \E st \in E : Cell(st) = <<p, s>> /\ st.role = MgrAt(e, p, s)
        BY <2>3, MgrAtIsMax
    <2>6. mgr[<<p, s>>] <= MgrAt(e, p, s)
        <3>1. CASE mgr[<<p, s>>] = None
            BY <2>5, <3>1 DEF None
        <3>2. CASE \E st \in E : Cell(st) = <<p, s>> /\ st.role = mgr[<<p, s>>]
            BY <2>4, <2>5, <3>2
        <3> QED
            BY <2>4, <3>1, <3>2 DEF LoopInv, Supported, E
    <2>7. MgrAt(e, p, s) <= mgr[<<p, s>>]
        <3>1. CASE MgrAt(e, p, s) = None
            BY <2>4, <3>1 DEF None
        <3>2. CASE MgrAt(e, p, s) # None
            <4>1. PICK st \in E : Cell(st) = <<p, s>> /\ st.role = MgrAt(e, p, s)
                BY <2>5, <3>2
            <4> QED
                BY <2>2, <4>1 DEF Absorbed
        <3> QED
            BY <3>1, <3>2
    <2>8. mgr[<<p, s>>] = MgrAt(e, p, s)
        BY <2>4, <2>5, <2>6, <2>7
    <2> QED
        BY <2>8 DEF e
<1> QED
    BY <1>1, LoopInvHolds, PTL
=============================================================================
