-------------------------- MODULE RoleGrantsProofs --------------------------
(***************************************************************************)
(* What materialize, role_at and cache_rows compute, for any statements:   *)
(* the lemmas the store's invariants rest on.                              *)
(***************************************************************************)
EXTENDS RoleGrants, TLAPS

(***************************************************************************)
(* Scopes as paths                                                         *)
(***************************************************************************)
LEMMA ChainType ==
    ASSUME NEW s \in Scopes
    PROVE  /\ Chain[s] \in SUBSET Scopes
           /\ s \in Chain[s]
           /\ \A t \in Chain[s] : t \in Scopes /\ Chain[t] \subseteq Chain[s]
BY ScopeAssumption

LEMMA ChainAntisymmetric ==
    ASSUME NEW s \in Scopes, NEW t \in Scopes, s \in Chain[t], t \in Chain[s]
    PROVE  s = t
BY ScopeAssumption

LEMMA ChainExtremes ==
    ASSUME NEW s \in Scopes, NEW T \in SUBSET Chain[s], T # {}
    PROVE  /\ \E u \in T : \A t \in T : t \in Chain[u]
           /\ \E u \in T : \A t \in T : u \in Chain[t]
BY ScopeAssumption

LEMMA ChainTotal ==
    ASSUME NEW s \in Scopes, NEW t \in Chain[s], NEW u \in Chain[s]
    PROVE  t \in Chain[u] \/ u \in Chain[t]
<1>1. {t, u} \in SUBSET Chain[s] /\ {t, u} # {}
    OBVIOUS
<1>2. \E d \in {t, u} : \A x \in {t, u} : x \in Chain[d]
    BY <1>1, ChainExtremes
<1> QED
    BY <1>2

(***************************************************************************)
(* Roles as maxima                                                         *)
(***************************************************************************)
(* A nonempty set of roles has a highest one, and HighestOf is it: the     *)
(* running maximum role_at keeps along the chain.                          *)
LEMMA HighestOfIsMax ==
    ASSUME NEW R \in SUBSET RoleLevel, R # {}
    PROVE  HighestOf(R) \in R /\ \A x \in R : HighestOf(R) >= x
<1> R \subseteq {0, 1, 2, 3, 4}
    BY DEF RoleLevel, None, Owner
<1>1. \E r \in R : \A x \in R : r >= x
    <2>1. CASE 4 \in R  BY <2>1
    <2>2. CASE 4 \notin R /\ 3 \in R  BY <2>2
    <2>3. CASE 4 \notin R /\ 3 \notin R /\ 2 \in R  BY <2>3
    <2>4. CASE R \subseteq {0, 1} /\ 1 \in R  BY <2>4
    <2>5. CASE R = {0}  BY <2>5
    <2> QED  BY <2>1, <2>2, <2>3, <2>4, <2>5
<1> QED
    BY <1>1 DEF HighestOf

(* The materialization of typed statements has typed parts.                *)
Effective ==
    [owner : Peers, pins : SUBSET RoleStatement, blocks : SUBSET RoleStatement,
     grants : SUBSET RoleStatement]

LEMMA StatementType ==
    ASSUME NEW st \in RoleStatement
    PROVE  /\ st.scope \in Scopes /\ st.peer \in Peers /\ st.grantor \in Peers
           /\ st.role \in GrantedRole /\ st.role \in RoleLevel
           /\ st.revoked \in BOOLEAN /\ st.hlc \in Nat
BY DEF RoleStatement, GrantedRole, RoleLevel, None, Manager, Owner

LEMMA MaterializeType ==
    ASSUME NEW owner \in Peers, NEW S \in SUBSET RoleStatement
    PROVE  /\ materialize(owner, S) \in Effective
           /\ materialize(owner, S).grants \subseteq S
           /\ materialize(owner, S).pins \subseteq S
BY DEF materialize, WithGrants, Effective, EffectiveGrants, Raising, OwnerStatements

(* A walk up any part of the hierarchy yields a role that can be granted.  *)
LEMMA WalkRoleType ==
    ASSUME NEW e \in Effective, NEW p \in Peers, NEW C \in SUBSET Scopes
    PROVE  WalkRole(e, p, C) \in GrantedRole
<1> DEFINE R == {None} \cup {st.role : st \in GrantsOn(e, p, Reached(e, p, C))}
<1>1. R \subseteq GrantedRole
    BY StatementType DEF GrantsOn, Effective, GrantedRole, None, Manager
<1>2. R \in SUBSET RoleLevel /\ R # {}
    BY <1>1 DEF GrantedRole, RoleLevel, None, Manager, Owner
<1>3. HighestOf(R) \in R
    BY <1>2, HighestOfIsMax
<1> QED
    BY <1>1, <1>3 DEF WalkRole

LEMMA MgrAtType ==
    ASSUME NEW e \in Effective, NEW p \in Peers, NEW s \in Scopes
    PROVE  MgrAt(e, p, s) \in GrantedRole
<1> DEFINE R == {None} \cup {st.role : st \in {g \in e.grants : Cell(g) = <<p, s>>}}
<1>1. R \subseteq GrantedRole
    BY StatementType DEF Effective, GrantedRole, None, Manager
<1>2. R \in SUBSET RoleLevel /\ R # {}
    BY <1>1 DEF GrantedRole, RoleLevel, None, Manager, Owner
<1>3. HighestOf(R) \in R
    BY <1>2, HighestOfIsMax
<1> QED
    BY <1>1, <1>3 DEF MgrAt

(* No row of the role cache says Owner.                                    *)
LEMMA CacheRowsType ==
    ASSUME NEW e \in Effective
    PROVE  cache_rows(e) \subseteq CacheRow
<1>1. \A st \in e.pins \cup e.grants :
        st.scope \in Scopes /\ st.peer \in Peers /\ st.role \in GrantedRole
    BY StatementType DEF Effective
<1>2. \A st \in e.grants : MgrAt(e, st.peer, st.scope) \in GrantedRole
    BY <1>1, MgrAtType
<1> QED
    BY <1>1, <1>2 DEF cache_rows, CacheRow

(***************************************************************************)
(* role_at as a walk                                                       *)
(***************************************************************************)
LEMMA WalkAtLeast ==
    ASSUME NEW e \in Effective, NEW p \in Peers, NEW C \in SUBSET Scopes,
           NEW st \in e.pins \cup e.grants, st.peer = p, st.scope \in Reached(e, p, C)
    PROVE  WalkRole(e, p, C) >= st.role
<1> DEFINE R == {None} \cup {x.role : x \in GrantsOn(e, p, Reached(e, p, C))}
<1>1. R \in SUBSET RoleLevel /\ R # {}
    BY StatementType DEF GrantsOn, Effective, RoleLevel, None, Owner
<1>2. st.role \in R
    BY DEF GrantsOn
<1> QED
    BY <1>1, <1>2, HighestOfIsMax DEF WalkRole

LEMMA WalkWitness ==
    ASSUME NEW e \in Effective, NEW p \in Peers, NEW C \in SUBSET Scopes,
           WalkRole(e, p, C) # None
    PROVE  \E st \in e.pins \cup e.grants :
              /\ st.peer = p
              /\ st.scope \in Reached(e, p, C)
              /\ st.role = WalkRole(e, p, C)
<1> DEFINE R == {None} \cup {x.role : x \in GrantsOn(e, p, Reached(e, p, C))}
<1>1. R \in SUBSET RoleLevel /\ R # {}
    BY StatementType DEF GrantsOn, Effective, RoleLevel, None, Owner
<1>2. WalkRole(e, p, C) \in R
    BY <1>1, HighestOfIsMax DEF WalkRole
<1> QED
    BY <1>2 DEF GrantsOn

LEMMA RoleAtType ==
    ASSUME NEW e \in Effective, NEW p \in Peers, NEW s \in Scopes
    PROVE  role_at(e, p, s) \in RoleLevel
<1>1. WalkRole(e, p, Chain[s]) \in GrantedRole
    BY WalkRoleType, ScopeAssumption
<1> QED
    BY <1>1 DEF role_at, GrantedRole, RoleLevel, None, Manager, Owner

(* More grants never lower a role: the reason the passes of materialize    *)
(* have a least fixpoint to find.                                          *)
LEMMA MoreGrantsRaise ==
    ASSUME NEW owner \in Peers, NEW S \in SUBSET RoleStatement,
           NEW H \in SUBSET RoleStatement, NEW G \in SUBSET H,
           NEW p \in Peers, NEW s \in Scopes
    PROVE  role_at(WithGrants(owner, S, G), p, s) <= role_at(WithGrants(owner, S, H), p, s)
<1> DEFINE eG == WithGrants(owner, S, G)
           eH == WithGrants(owner, S, H)
<1>1. eG \in Effective /\ eH \in Effective
    BY DEF WithGrants, Effective, OwnerStatements
<1>2. eG.owner = eH.owner /\ eG.pins = eH.pins /\ eG.grants \subseteq eH.grants
    BY DEF WithGrants
<1>3. Chain[s] \in SUBSET Scopes
    BY ScopeAssumption
<1>4. WalkRole(eG, p, Chain[s]) \in GrantedRole /\ WalkRole(eH, p, Chain[s]) \in GrantedRole
    BY <1>1, <1>3, WalkRoleType
<1> HIDE DEF eG, eH
<1>5. WalkRole(eG, p, Chain[s]) <= WalkRole(eH, p, Chain[s])
    <2>1. CASE WalkRole(eG, p, Chain[s]) = None
        BY <2>1, <1>4 DEF None, GrantedRole, Manager
    <2>2. CASE WalkRole(eG, p, Chain[s]) # None
        <3>1. PICK st \in eG.pins \cup eG.grants :
                /\ st.peer = p
                /\ st.scope \in Reached(eG, p, Chain[s])
                /\ st.role = WalkRole(eG, p, Chain[s])
            BY <2>2, <1>1, <1>3, WalkWitness
        <3>2. st \in eH.pins \cup eH.grants /\ st.scope \in Reached(eH, p, Chain[s])
            BY <3>1, <1>2 DEF Reached, PinnedAt
        <3>3. WalkRole(eH, p, Chain[s]) >= st.role
            BY <3>1, <3>2, <1>1, <1>3, WalkAtLeast
        <3> QED
            BY <3>1, <3>3, <1>4 DEF GrantedRole, None, Manager
    <2> QED
        BY <2>1, <2>2
<1>6. role_at(eG, p, s) <= role_at(eH, p, s)
    BY <1>2, <1>4, <1>5 DEF role_at, Owner, GrantedRole, None, Manager
<1> QED
    BY <1>6 DEF eG, eH

LEMMA AuthorityGrows ==
    ASSUME NEW owner \in Peers, NEW S \in SUBSET RoleStatement,
           NEW H \in SUBSET RoleStatement, NEW G \in SUBSET H,
           NEW p \in Peers, NEW s \in Scopes,
           authority(WithGrants(owner, S, G), p, s) >= Manager
    PROVE  authority(WithGrants(owner, S, H), p, s) >= Manager
<1>1. WithGrants(owner, S, G) \in Effective /\ WithGrants(owner, S, H) \in Effective
    BY DEF WithGrants, Effective, OwnerStatements
<1>2. /\ role_at(WithGrants(owner, S, G), p, s) \in RoleLevel
      /\ role_at(WithGrants(owner, S, H), p, s) \in RoleLevel
    BY <1>1, RoleAtType
<1>3. role_at(WithGrants(owner, S, G), p, s) <= role_at(WithGrants(owner, S, H), p, s)
    BY MoreGrantsRaise
<1> QED
    BY <1>2, <1>3 DEF authority, Manager, RoleLevel, None, Owner

(***************************************************************************)
(* The grants in effect are a fixpoint, and the least one                  *)
(***************************************************************************)
LEMMA EffectiveGrantsType ==
    ASSUME NEW owner, NEW S \in SUBSET RoleStatement
    PROVE  /\ EffectiveGrants(owner, S) \in SUBSET Raising(owner, S)
           /\ Raising(owner, S) \in SUBSET S
           /\ EffectiveGrants(owner, S) \in SUBSET RoleStatement
BY DEF EffectiveGrants, Raising

LEMMA GrantsLeast ==
    ASSUME NEW owner, NEW S \in SUBSET RoleStatement,
           NEW G \in SUBSET Raising(owner, S), Closed(owner, S, G)
    PROVE  EffectiveGrants(owner, S) \subseteq G
BY DEF EffectiveGrants

(* A statement whose grantor has the authority, and that can raise a role, *)
(* is in effect.                                                           *)
LEMMA GrantsClosed ==
    ASSUME NEW owner \in Peers, NEW S \in SUBSET RoleStatement
    PROVE  Closed(owner, S, EffectiveGrants(owner, S))
<1> DEFINE E == EffectiveGrants(owner, S)
<1> SUFFICES ASSUME NEW st \in Raising(owner, S),
                    authority(WithGrants(owner, S, E), st.grantor, st.scope) >= Manager,
                    NEW G \in SUBSET Raising(owner, S), Closed(owner, S, G)
             PROVE  st \in G
    BY DEF Closed, EffectiveGrants
<1>1. E \subseteq G /\ G \subseteq RoleStatement /\ st \in RoleStatement
    BY GrantsLeast, EffectiveGrantsType
<1>2. st.grantor \in Peers /\ st.scope \in Scopes
    BY <1>1, StatementType
<1> HIDE DEF E
<1>3. authority(WithGrants(owner, S, G), st.grantor, st.scope) >= Manager
    BY <1>1, <1>2, AuthorityGrows
<1> QED
    BY <1>3 DEF Closed

(* Every grant in effect has a grantor with the authority, under the       *)
(* materialization itself: no two statements hold each other up.           *)
LEMMA GrantsSupported ==
    ASSUME NEW owner \in Peers, NEW S \in SUBSET RoleStatement
    PROVE  \A st \in EffectiveGrants(owner, S) :
              authority(materialize(owner, S), st.grantor, st.scope) >= Manager
<1> DEFINE E == EffectiveGrants(owner, S)
           G == {st \in E : authority(WithGrants(owner, S, E), st.grantor, st.scope) >= Manager}
<1>1. E \in SUBSET RoleStatement /\ E \in SUBSET Raising(owner, S)
      /\ Raising(owner, S) \subseteq RoleStatement
    BY EffectiveGrantsType
<1>2. Closed(owner, S, E)
    BY GrantsClosed
<1>3. G \in SUBSET E
    OBVIOUS
<1> HIDE DEF E, G
<1>4. ASSUME NEW st \in Raising(owner, S),
             authority(WithGrants(owner, S, G), st.grantor, st.scope) >= Manager
      PROVE  st \in G
    <2>1. st.grantor \in Peers /\ st.scope \in Scopes
        BY <1>1, StatementType
    <2>2. authority(WithGrants(owner, S, E), st.grantor, st.scope) >= Manager
        BY <1>1, <1>3, <1>4, <2>1, AuthorityGrows
    <2>3. st \in E
        BY <1>2, <2>2 DEF Closed
    <2> QED
        BY <2>2, <2>3 DEF G
<1>5. Closed(owner, S, G)
    BY <1>4 DEF Closed
<1>6. EffectiveGrants(owner, S) \subseteq G
    BY <1>1, <1>3, <1>5, GrantsLeast
<1> QED
    BY <1>6 DEF G, E, materialize

(* What is in effect is admissible, and so is every owner statement.       *)
LEMMA EffectiveIsAdmissible ==
    ASSUME NEW owner \in Peers, NEW S \in SUBSET RoleStatement
    PROVE  /\ materialize(owner, S).owner = owner
           /\ \A st \in EffectiveGrants(owner, S) : admissible(materialize(owner, S), st)
           /\ \A st \in OwnerStatements(owner, S) : admissible(materialize(owner, S), st)
<1>1. materialize(owner, S).owner = owner
    BY DEF materialize, WithGrants
<1> QED
    BY <1>1, GrantsSupported DEF admissible, OwnerStatements

(***************************************************************************)
(* Inadmissible statements do not count                                    *)
(***************************************************************************)
(* Dropping inadmissible statements leaves the materialization: "demote    *)
(* never moves current" (repartition).                                     *)
LEMMA DemotionIsSilent ==
    ASSUME NEW owner \in Peers, NEW S \in SUBSET RoleStatement, NEW T \in SUBSET S,
           \A st \in S \ T : ~admissible(materialize(owner, S), st)
    PROVE  materialize(owner, T) = materialize(owner, S)
<1> DEFINE ES == EffectiveGrants(owner, S)
           ET == EffectiveGrants(owner, T)
<1>1. OwnerStatements(owner, T) = OwnerStatements(owner, S)
    BY EffectiveIsAdmissible DEF OwnerStatements
<1>2. \A G : WithGrants(owner, T, G) = WithGrants(owner, S, G)
    BY <1>1 DEF WithGrants
<1>3. Raising(owner, T) = Raising(owner, S) \cap T
    BY <1>1 DEF Raising
<1>4. ES \subseteq T /\ ES \subseteq Raising(owner, S) /\ ES \subseteq RoleStatement
    BY EffectiveIsAdmissible, EffectiveGrantsType
<1>5. Closed(owner, S, ES)
    BY GrantsClosed
<1> HIDE DEF ES
<1>6. ET \subseteq ES
    <2>1. Closed(owner, T, ES)
        BY <1>2, <1>3, <1>5 DEF Closed
    <2> QED
        BY <1>3, <1>4, <2>1, GrantsLeast
<1>7. ASSUME NEW G \in SUBSET Raising(owner, T), Closed(owner, T, G)
      PROVE  ES \subseteq G
    <2>1. ASSUME NEW st \in Raising(owner, S),
                 authority(WithGrants(owner, S, G \cap ES), st.grantor, st.scope) >= Manager
          PROVE  st \in G \cap ES
        <3>1. st.grantor \in Peers /\ st.scope \in Scopes
            BY StatementType, EffectiveGrantsType
        <3>2. G \in SUBSET RoleStatement /\ G \cap ES \in SUBSET G /\ G \cap ES \in SUBSET ES
            BY <1>3
        <3>3. authority(WithGrants(owner, S, ES), st.grantor, st.scope) >= Manager
            BY <1>4, <2>1, <3>1, <3>2, AuthorityGrows
        <3>4. st \in ES
            BY <1>5, <3>3 DEF Closed
        <3>5. authority(WithGrants(owner, S, G), st.grantor, st.scope) >= Manager
            BY <2>1, <3>1, <3>2, AuthorityGrows
        <3>6. st \in Raising(owner, T)
            BY <1>3, <1>4, <3>4
        <3> QED
            BY <1>2, <1>7, <3>4, <3>5, <3>6 DEF Closed
    <2>2. Closed(owner, S, G \cap ES)
        BY <2>1 DEF Closed
    <2>3. EffectiveGrants(owner, S) \subseteq G \cap ES
        BY <1>3, <2>2, GrantsLeast
    <2> QED
        BY <2>3 DEF ES
<1>8. ES \subseteq ET
    BY <1>3, <1>4, <1>7 DEF EffectiveGrants
<1> QED
    BY <1>2, <1>6, <1>8 DEF materialize, ES

(* Adding inadmissible statements leaves it too: what is held has no part  *)
(* in the roles.                                                           *)
LEMMA HoldingIsSilent ==
    ASSUME NEW owner \in Peers, NEW S \in SUBSET RoleStatement, NEW T \in SUBSET S,
           \A st \in S \ T : ~admissible(materialize(owner, T), st)
    PROVE  materialize(owner, S) = materialize(owner, T)
<1> DEFINE ES == EffectiveGrants(owner, S)
           ET == EffectiveGrants(owner, T)
<1>0. T \in SUBSET RoleStatement
    OBVIOUS
<1>1. OwnerStatements(owner, T) = OwnerStatements(owner, S)
    <2>1. materialize(owner, T).owner = owner
        BY <1>0, EffectiveIsAdmissible
    <2> QED
        BY <2>1 DEF OwnerStatements, admissible
<1>2. \A G : WithGrants(owner, T, G) = WithGrants(owner, S, G)
    BY <1>1 DEF WithGrants
<1>3. Raising(owner, T) = Raising(owner, S) \cap T
    BY <1>1 DEF Raising
<1>4. ET \subseteq Raising(owner, T)
    BY <1>0, EffectiveGrantsType
<1>5. Closed(owner, T, ET)
    BY <1>0, GrantsClosed
<1>6. Closed(owner, S, ET)
    <2> SUFFICES ASSUME NEW st \in Raising(owner, S),
                        authority(WithGrants(owner, S, ET), st.grantor, st.scope) >= Manager
                 PROVE  st \in ET
        BY DEF Closed
    <2>1. st \in S
        BY DEF Raising
    <2>2. authority(materialize(owner, T), st.grantor, st.scope) >= Manager
        BY <1>2 DEF materialize
    <2>3. st \in T
        BY <2>1, <2>2 DEF admissible
    <2> QED
        BY <1>2, <1>3, <1>5, <2>3 DEF Closed
<1>7. ES \subseteq ET
    BY <1>3, <1>4, <1>6, GrantsLeast
<1> HIDE DEF ET
<1>8. ASSUME NEW G \in SUBSET Raising(owner, S), Closed(owner, S, G)
      PROVE  ET \subseteq G
    <2>1. ASSUME NEW st \in Raising(owner, T),
                 authority(WithGrants(owner, T, G \cap T), st.grantor, st.scope) >= Manager
          PROVE  st \in G \cap T
        <3>1. st \in Raising(owner, S) /\ st \in T
            BY <1>3
        <3>2. st.grantor \in Peers /\ st.scope \in Scopes
            BY <3>1, StatementType
        <3>3. G \in SUBSET RoleStatement /\ G \cap T \in SUBSET G
            BY DEF Raising
        <3>4. authority(WithGrants(owner, S, G), st.grantor, st.scope) >= Manager
            BY <1>2, <2>1, <3>2, <3>3, AuthorityGrows
        <3> QED
            BY <1>8, <3>1, <3>4 DEF Closed
    <2>2. Closed(owner, T, G \cap T) /\ G \cap T \in SUBSET Raising(owner, T)
        BY <1>3, <2>1 DEF Closed
    <2>3. EffectiveGrants(owner, T) \subseteq G \cap T
        BY <1>0, <2>2, GrantsLeast
    <2> QED
        BY <2>3 DEF ET
<1>9. ET \subseteq ES
    BY <1>3, <1>4, <1>8 DEF EffectiveGrants
<1> QED
    BY <1>2, <1>7, <1>9 DEF materialize, ET

(***************************************************************************)
(* Who rose                                                                *)
(***************************************************************************)
(* changed_between looks only at the cells that statements mention.  That  *)
(* is enough: a rise of anyone's role at any scope shows at one of them,   *)
(* as long as no owner cell disappears.                                    *)
LEMMA RiseIsMentioned ==
    ASSUME NEW A \in Effective, NEW B \in Effective, A.owner = B.owner,
           NEW M \in SUBSET RoleStatement,
           B.pins \cup B.grants \subseteq M,
           \A x \in A.pins : \E y \in M : Cell(y) = Cell(x),
           NEW g \in Peers, g # A.owner, NEW s \in Scopes,
           role_at(A, g, s) < role_at(B, g, s)
    PROVE  g \in RisenBetween(A, B, M)
<1> DEFINE a(t) == WalkRole(A, g, Chain[t])
           b(t) == WalkRole(B, g, Chain[t])
<1>1. \A t \in Scopes : a(t) \in 0 .. 3 /\ b(t) \in 0 .. 3
    BY WalkRoleType, ChainType DEF GrantedRole, None, Manager
<1>2. \A t : role_at(A, g, t) = a(t) /\ role_at(B, g, t) = b(t)
    BY DEF role_at
<1>3. a(s) < b(s)
    BY <1>2
<1>4. Chain[s] \in SUBSET Scopes /\ s \in Chain[s]
    BY ChainType
<1>5. PICK w \in B.pins \cup B.grants :
        w.peer = g /\ w.scope \in Reached(B, g, Chain[s]) /\ w.role = b(s)
    <2>1. b(s) # None
        BY <1>1, <1>3 DEF None
    <2> QED
        BY <1>4, <2>1, WalkWitness
<1> DEFINE u == w.scope
<1>6. w \in M /\ u \in Chain[s] /\ u \in Scopes
    BY <1>4, <1>5 DEF Reached
<1> HIDE DEF a, b
<1>7. ASSUME NEW t \in Chain[s], u \in Chain[t]
      PROVE  b(t) >= b(s)
    <2>1. t \in Scopes /\ Chain[t] \subseteq Chain[s] /\ Chain[t] \in SUBSET Scopes
        BY <1>4, ChainType
    <2>2. u \in Reached(B, g, Chain[t])
        BY <1>5, <1>7, <2>1 DEF Reached
    <2> QED
        BY <1>5, <2>1, <2>2, WalkAtLeast DEF b
<1>8. CASE a(u) < b(s)
    <2>1. b(u) >= b(s)
        BY <1>6, <1>7, ChainType
    <2>2. b(u) > a(u)
        BY <1>1, <1>6, <1>8, <2>1
    <2> QED
        BY <1>2, <1>5, <1>6, <2>2 DEF RisenBetween
<1>9. CASE a(u) >= b(s)
    <2>0. Chain[u] \in SUBSET Scopes /\ Chain[u] \subseteq Chain[s]
        BY <1>6, ChainType
    <2>1. PICK w2 \in A.pins \cup A.grants :
            w2.peer = g /\ w2.scope \in Reached(A, g, Chain[u]) /\ w2.role = a(u)
        <3>1. a(u) # None
            BY <1>1, <1>3, <1>6, <1>9 DEF None
        <3> QED
            BY <2>0, <3>1, WalkWitness DEF a
    <2> DEFINE v == w2.scope
    <2>2. v \in Chain[u] /\ v \in Chain[s] /\ v \in Scopes
        BY <1>4, <2>0, <2>1 DEF Reached
    <2>3. v \notin Reached(A, g, Chain[s])
        <3>1. SUFFICES ASSUME v \in Reached(A, g, Chain[s]) PROVE FALSE
            OBVIOUS
        <3>2. a(s) >= a(u)
            BY <1>4, <2>1, <3>1, WalkAtLeast DEF a
        <3> QED
            BY <1>1, <1>3, <1>6, <1>9, <3>2
    <2>4. PICK x0 \in Chain[s] : PinnedAt(A, g, x0) /\ v \in Chain[x0] /\ v # x0
        BY <2>2, <2>3 DEF Reached
    <2> DEFINE P == {t \in Chain[s] : PinnedAt(A, g, t)}
    <2>5. PICK x \in P : \A t \in P : t \in Chain[x]
        <3>1. P \in SUBSET Chain[s] /\ P # {}
            BY <2>4
        <3> HIDE DEF P
        <3> QED
            BY <3>1, ChainExtremes
    <2>6. /\ x \in Chain[s] /\ x \in Scopes /\ PinnedAt(A, g, x)
          /\ Chain[x] \in SUBSET Scopes /\ x \in Chain[x]
        BY <1>4, <2>5, ChainType
    <2>7. v \in Chain[x] /\ v # x
        <3>1. x0 \in Chain[x] /\ x0 \in Scopes
            BY <1>4, <2>4, <2>5
        <3> QED
            BY <2>2, <2>4, <2>6, <3>1, ChainType, ChainAntisymmetric
    <2>8. x \notin Chain[u]
        BY <2>1, <2>6, <2>7 DEF Reached
    <2>9. u \in Chain[x]
        BY <1>6, <2>6, <2>8, ChainTotal
    <2>10. b(x) >= b(s)
        BY <1>7, <2>6, <2>9
    <2>11. a(x) <= a(s)
        <3>1. CASE a(x) = None
            BY <1>1, <1>4, <3>1 DEF None
        <3>2. CASE a(x) # None
            <4>1. PICK w3 \in A.pins \cup A.grants :
                    w3.peer = g /\ w3.scope \in Reached(A, g, Chain[x]) /\ w3.role = a(x)
                BY <2>6, <3>2, WalkWitness DEF a
            <4>2. w3.scope = x
                BY <2>6, <4>1 DEF Reached
            <4>3. x \in Reached(A, g, Chain[s])
                BY <1>4, <2>5, <2>6, ChainAntisymmetric DEF Reached
            <4>4. a(s) >= w3.role
                BY <1>4, <4>1, <4>2, <4>3, WalkAtLeast DEF a
            <4> QED
                BY <1>1, <1>4, <2>6, <4>1, <4>4
        <3> QED
            BY <3>1, <3>2
    <2>12. b(x) > a(x)
        BY <1>1, <1>3, <1>4, <2>6, <2>10, <2>11
    <2>13. PICK y \in M : Cell(y) = <<g, x>>
        BY <2>6 DEF PinnedAt
    <2> QED
        BY <1>2, <2>12, <2>13 DEF RisenBetween, Cell
<1> QED
    BY <1>1, <1>4, <1>6, <1>8, <1>9

(***************************************************************************)
(* The cache projection                                                    *)
(***************************************************************************)
(* At most one owner statement per cell, and no grant on an owner's cell.  *)
PinsAreUnique(e) ==
    /\ \A x, y \in e.pins : Cell(x) = Cell(y) => x = y
    /\ \A x \in e.pins, y \in e.grants : Cell(x) # Cell(y)

LEMMA MgrAtIsMax ==
    ASSUME NEW e \in Effective, NEW p \in Peers, NEW t \in Scopes
    PROVE  /\ MgrAt(e, p, t) \in 0 .. 3
           /\ \A st \in e.grants : Cell(st) = <<p, t>> => MgrAt(e, p, t) >= st.role
           /\ MgrAt(e, p, t) # None =>
                 \E st \in e.grants : Cell(st) = <<p, t>> /\ st.role = MgrAt(e, p, t)
<1> DEFINE R == {None} \cup {st.role : st \in {g \in e.grants : Cell(g) = <<p, t>>}}
<1>1. R \in SUBSET RoleLevel /\ R # {}
    BY StatementType DEF Effective, RoleLevel, None, Owner
<1>2. MgrAt(e, p, t) \in R /\ \A r \in R : MgrAt(e, p, t) >= r
    BY <1>1, HighestOfIsMax DEF MgrAt
<1>3. MgrAt(e, p, t) \in 0 .. 3
    BY MgrAtType DEF GrantedRole, None, Manager
<1> QED
    BY <1>2, <1>3

(* The row of a cell: the pin, or the highest grant where that is above    *)
(* what the cell inherits.                                                 *)
LEMMA RowOfCell ==
    ASSUME NEW e \in Effective, PinsAreUnique(e), NEW p \in Peers,
           NEW row \in cache_rows(e), row.peer = p
    PROVE  /\ row.scope \in Scopes
           /\ \/ \E x \in e.pins : Cell(x) = <<p, row.scope>> /\ row.role = x.role
              \/ /\ ~PinnedAt(e, p, row.scope)
                 /\ row.role = MgrAt(e, p, row.scope)
                 /\ row.role > InheritedRole(e, p, row.scope)
<1>1. CASE row \in {[scope |-> st.scope, peer |-> st.peer, role |-> st.role] : st \in e.pins}
    BY <1>1, StatementType DEF Effective, Cell
<1>2. CASE \E st \in e.grants :
             /\ row = [scope |-> st.scope, peer |-> st.peer,
                       role |-> MgrAt(e, st.peer, st.scope)]
             /\ row.role > InheritedRole(e, row.peer, row.scope)
    <2>1. PICK st \in e.grants :
             /\ row = [scope |-> st.scope, peer |-> st.peer,
                       role |-> MgrAt(e, st.peer, st.scope)]
             /\ row.role > InheritedRole(e, row.peer, row.scope)
        BY <1>2
    <2>2. ~PinnedAt(e, p, row.scope)
        BY <2>1 DEF PinnedAt, PinsAreUnique, Cell
    <2> QED
        BY <2>1, <2>2, StatementType DEF Effective
<1> QED
    BY <1>1, <1>2 DEF cache_rows

LEMMA CellHasRow ==
    ASSUME NEW e \in Effective, NEW p \in Peers, NEW t \in Scopes
    PROVE  /\ PinnedAt(e, p, t) =>
                 \E row \in cache_rows(e) : row.peer = p /\ row.scope = t
           /\ MgrAt(e, p, t) # None /\ MgrAt(e, p, t) > InheritedRole(e, p, t) =>
                 \E row \in cache_rows(e) : row.peer = p /\ row.scope = t
<1>1. ASSUME PinnedAt(e, p, t)
      PROVE  \E row \in cache_rows(e) : row.peer = p /\ row.scope = t
    <2>1. PICK st \in e.pins : st.peer = p /\ st.scope = t
        BY <1>1 DEF PinnedAt, Cell
    <2>2. [scope |-> st.scope, peer |-> st.peer, role |-> st.role] \in cache_rows(e)
        BY DEF cache_rows
    <2> QED
        BY <2>1, <2>2
<1>2. ASSUME MgrAt(e, p, t) # None, MgrAt(e, p, t) > InheritedRole(e, p, t)
      PROVE  \E row \in cache_rows(e) : row.peer = p /\ row.scope = t
    <2>1. PICK st \in e.grants : st.peer = p /\ st.scope = t
        BY <1>2, MgrAtIsMax DEF Cell
    <2>2. [scope |-> st.scope, peer |-> st.peer,
           role |-> MgrAt(e, st.peer, st.scope)] \in cache_rows(e)
        BY <1>2, <2>1 DEF cache_rows
    <2> QED
        BY <2>1, <2>2
<1> QED
    BY <1>1, <1>2

RowsFor(e, p, s) == {row \in cache_rows(e) : row.peer = p /\ row.scope \in Chain[s]}

IsNearest(e, p, s, n) ==
    /\ n \in RowsFor(e, p, s)
    /\ \A row \in RowsFor(e, p, s) : row.scope \in Chain[n.scope]

(* A scope the walk reaches from s is reached from below any scope between.*)
LEMMA ReachedFromAbove ==
    ASSUME NEW e \in Effective, NEW p \in Peers, NEW s \in Scopes,
           NEW t \in Reached(e, p, Chain[s]), NEW u \in Chain[s], u # t, t \in Chain[u]
    PROVE  t \in Reached(e, p, Chain[u] \ {u})
BY ChainType DEF Reached

LEMMA InheritedIsWalk ==
    ASSUME NEW e \in Effective, NEW p \in Peers, p # e.owner, NEW t \in Scopes
    PROVE  /\ InheritedRole(e, p, t) = WalkRole(e, p, Chain[t] \ {t})
           /\ InheritedRole(e, p, t) \in 0 .. 3
<1>1. Chain[t] \ {t} \in SUBSET Scopes
    BY ChainType
<1>2. WalkRole(e, p, Chain[t] \ {t}) \in 0 .. 3
    BY <1>1, WalkRoleType DEF GrantedRole, None, Manager
<1>3. CASE Chain[t] = {t}
    <2>1. WalkRole(e, p, Chain[t] \ {t}) = None
        <3>1. Reached(e, p, Chain[t] \ {t}) = {}
            BY <1>3 DEF Reached
        <3> QED
            BY <1>1, <3>1, WalkWitness
    <2> QED
        BY <1>2, <1>3, <2>1 DEF InheritedRole
<1> QED
    BY <1>2, <1>3 DEF InheritedRole

(* Nothing on the walk is above the nearest row (or above None, when there *)
(* is no row).                                                             *)
LEMMA NoHigherRole ==
    ASSUME NEW e \in Effective, PinsAreUnique(e), NEW p \in Peers, p # e.owner,
           NEW s \in Scopes, NEW r \in 0 .. 3,
           \/ RowsFor(e, p, s) = {} /\ r = None
           \/ \E n : IsNearest(e, p, s, n) /\ n.role = r
    PROVE  WalkRole(e, p, Chain[s]) <= r
<1> DEFINE Above(t) == \E st \in e.pins \cup e.grants : Cell(st) = <<p, t>> /\ st.role > r
           Bad == {t \in Reached(e, p, Chain[s]) : Above(t)}
<1>1. Chain[s] \in SUBSET Scopes
    BY ChainType
<1>2. WalkRole(e, p, Chain[s]) \in 0 .. 3
    BY <1>1, WalkRoleType DEF GrantedRole, None, Manager
<1>3. SUFFICES ASSUME WalkRole(e, p, Chain[s]) > r PROVE FALSE
    BY <1>2
<1>4. Bad # {}
    <2>1. PICK st \in e.pins \cup e.grants :
            /\ st.peer = p
            /\ st.scope \in Reached(e, p, Chain[s])
            /\ st.role = WalkRole(e, p, Chain[s])
        BY <1>1, <1>2, <1>3, WalkWitness DEF None
    <2> QED
        BY <1>3, <2>1 DEF Cell
<1>5. PICK t \in Bad : \A x \in Bad : t \in Chain[x]
    <2>1. Bad \in SUBSET Chain[s]
        BY DEF Reached
    <2> HIDE DEF Bad
    <2> QED
        BY <1>4, <2>1, ChainExtremes
<1>6. t \in Reached(e, p, Chain[s]) /\ t \in Chain[s] /\ t \in Scopes
    BY <1>1, <1>5 DEF Reached
<1>7. PICK st \in e.pins \cup e.grants : Cell(st) = <<p, t>> /\ st.role > r
    BY <1>5
<1>8. st \in RoleStatement /\ st.peer = p /\ st.scope = t /\ st.role \in 0 .. 3
    BY <1>7, StatementType DEF Cell, Effective, GrantedRole, None, Manager
<1> HIDE DEF Bad
<1>9. ASSUME NEW n, IsNearest(e, p, s, n), n.role = r PROVE n.scope # t /\ t \notin Chain[n.scope]
    <2> DEFINE m == n.scope
    <2>1. /\ n \in cache_rows(e) /\ n.peer = p /\ m \in Chain[s] /\ m \in Scopes
        BY <1>1, <1>9 DEF IsNearest, RowsFor
    <2>2. CASE \E x \in e.pins : Cell(x) = <<p, m>> /\ n.role = x.role
        <3>1. PinnedAt(e, p, m)
            BY <2>2 DEF PinnedAt
        <3>2. t \in Chain[m] => m = t
            BY <1>6, <2>1, <3>1 DEF Reached
        <3>3. m # t
            BY <1>7, <1>8, <1>9, <2>2 DEF PinsAreUnique
        <3> QED
            BY <3>2, <3>3
    <2>3. CASE /\ ~PinnedAt(e, p, m)
               /\ n.role = MgrAt(e, p, m)
               /\ n.role > InheritedRole(e, p, m)
        <3>1. m # t
            <4>1. SUFFICES ASSUME m = t PROVE FALSE
                OBVIOUS
            <4>2. st \in e.grants
                BY <1>7, <2>3, <4>1 DEF PinnedAt
            <4>3. MgrAt(e, p, m) >= st.role
                BY <1>7, <2>1, <4>1, <4>2, MgrAtIsMax
            <4> QED
                BY <1>7, <1>8, <1>9, <2>3, <4>3
        <3>2. t \notin Chain[m]
            <4>1. SUFFICES ASSUME t \in Chain[m] PROVE FALSE
                OBVIOUS
            <4>2. t \in Reached(e, p, Chain[m] \ {m})
                BY <1>6, <2>1, <3>1, <4>1, ReachedFromAbove
            <4>3. Chain[m] \ {m} \in SUBSET Scopes
                BY <2>1, ChainType
            <4>4. WalkRole(e, p, Chain[m] \ {m}) >= st.role
                BY <1>7, <1>8, <4>2, <4>3, WalkAtLeast
            <4>5. /\ InheritedRole(e, p, m) = WalkRole(e, p, Chain[m] \ {m})
                  /\ InheritedRole(e, p, m) \in 0 .. 3
                BY <2>1, InheritedIsWalk
            <4> QED
                BY <1>7, <1>8, <1>9, <2>3, <4>4, <4>5, SMTT(40)
        <3> QED
            BY <3>1, <3>2
    <2> QED
        BY <2>1, <2>2, <2>3, RowOfCell
<1>10. \A row \in cache_rows(e) : row.peer = p => row.scope # t
    <2>1. SUFFICES ASSUME NEW row \in cache_rows(e), row.peer = p, row.scope = t PROVE FALSE
        OBVIOUS
    <2>2. row \in RowsFor(e, p, s)
        BY <1>6, <2>1 DEF RowsFor
    <2> QED
        BY <1>9, <2>1, <2>2 DEF IsNearest
<1>11. ~PinnedAt(e, p, t)
    BY <1>6, <1>10, CellHasRow
<1>12. MgrAt(e, p, t) \in 0 .. 3 /\ MgrAt(e, p, t) > r
    <2>1. st \in e.grants
        BY <1>7, <1>11 DEF PinnedAt
    <2> QED
        BY <1>6, <1>7, <1>8, <2>1, MgrAtIsMax
<1>13. /\ InheritedRole(e, p, t) = WalkRole(e, p, Chain[t] \ {t})
       /\ InheritedRole(e, p, t) \in 0 .. 3
    BY <1>6, InheritedIsWalk
<1>14. WalkRole(e, p, Chain[t] \ {t}) > r
    <2>1. ~(MgrAt(e, p, t) > InheritedRole(e, p, t))
        BY <1>6, <1>10, <1>12, CellHasRow, SMTT(40) DEF None
    <2> QED
        BY <1>12, <1>13, <2>1
<1>15. Chain[t] \ {t} \in SUBSET Scopes
    BY <1>6, ChainType
<1>16. PICK st2 \in e.pins \cup e.grants :
        /\ st2.peer = p
        /\ st2.scope \in Reached(e, p, Chain[t] \ {t})
        /\ st2.role = WalkRole(e, p, Chain[t] \ {t})
    BY <1>13, <1>14, <1>15, WalkWitness DEF None
<1> DEFINE t2 == st2.scope
<1>17. t2 \in Chain[t] /\ t2 # t /\ t2 \in Chain[s] /\ t2 \in Scopes
    BY <1>6, <1>16, ChainType DEF Reached
<1>18. t2 \in Reached(e, p, Chain[s])
    <2> SUFFICES ASSUME NEW x \in Chain[s], PinnedAt(e, p, x), t2 \in Chain[x]
                 PROVE  t2 = x
        BY <1>17 DEF Reached
    <2>1. CASE x \in Chain[t]
        BY <1>11, <1>16, <2>1 DEF Reached
    <2>2. CASE t \in Chain[x]
        BY <1>6, <1>11, <2>2 DEF Reached
    <2> QED
        BY <1>6, <2>1, <2>2, ChainTotal
<1>19. t2 \in Bad
    BY <1>14, <1>16, <1>18 DEF Bad, Cell
<1> QED
    BY <1>5, <1>6, <1>17, <1>19, ChainAntisymmetric

LEMMA NearestRowIsWalk ==
    ASSUME NEW e \in Effective, PinsAreUnique(e), NEW p \in Peers, p # e.owner,
           NEW s \in Scopes, NEW n, IsNearest(e, p, s, n)
    PROVE  n.role = WalkRole(e, p, Chain[s])
<1> DEFINE m == n.scope
<1>1. Chain[s] \in SUBSET Scopes
    BY ChainType
<1>2. n \in cache_rows(e) /\ n.peer = p /\ m \in Chain[s] /\ m \in Scopes
    BY <1>1 DEF IsNearest, RowsFor
<1>3. m \in Reached(e, p, Chain[s])
    <2> SUFFICES ASSUME NEW x \in Chain[s], PinnedAt(e, p, x), m \in Chain[x]
                 PROVE  m = x
        BY <1>2 DEF Reached
    <2>1. x \in Chain[m]
        <3>1. PICK row \in cache_rows(e) : row.peer = p /\ row.scope = x
            BY <1>1, CellHasRow
        <3> QED
            BY <3>1 DEF IsNearest, RowsFor
    <2> QED
        BY <1>1, <1>2, <2>1, ChainAntisymmetric
<1>4. n.role \in 0 .. 3 /\ WalkRole(e, p, Chain[s]) >= n.role
    <2>1. CASE \E x \in e.pins : Cell(x) = <<p, m>> /\ n.role = x.role
        <3>1. PICK x \in e.pins : x.peer = p /\ x.scope = m /\ n.role = x.role
            BY <2>1 DEF Cell
        <3>2. x.role \in 0 .. 3
            BY StatementType DEF Effective, GrantedRole, None, Manager
        <3> QED
            BY <1>1, <1>3, <3>1, <3>2, WalkAtLeast
    <2>2. CASE n.role = MgrAt(e, p, m) /\ n.role > InheritedRole(e, p, m)
        <3>0. MgrAt(e, p, m) \in 0 .. 3 /\ InheritedRole(e, p, m) \in 0 .. 3
            BY <1>2, MgrAtIsMax, InheritedIsWalk
        <3>1. n.role \in 0 .. 3 /\ n.role # None
            BY <2>2, <3>0 DEF None
        <3>2. PICK x \in e.grants : x.peer = p /\ x.scope = m /\ x.role = n.role
            BY <1>2, <2>2, <3>1, MgrAtIsMax, SMTT(40) DEF Cell
        <3> QED
            BY <1>1, <1>3, <3>1, <3>2, WalkAtLeast
    <2> QED
        BY <1>2, <2>1, <2>2, RowOfCell
<1>5. WalkRole(e, p, Chain[s]) <= n.role
    BY <1>4, NoHigherRole
<1>6. WalkRole(e, p, Chain[s]) \in 0 .. 3
    BY <1>1, WalkRoleType DEF GrantedRole, None, Manager
<1> QED
    BY <1>4, <1>5, <1>6

LEMMA NearestRowExists ==
    ASSUME NEW e \in Effective, NEW p \in Peers, NEW s \in Scopes,
           RowsFor(e, p, s) # {}
    PROVE  \E n : IsNearest(e, p, s, n)
<1> DEFINE T == {row.scope : row \in RowsFor(e, p, s)}
<1>1. T \in SUBSET Chain[s] /\ T # {}
    BY DEF RowsFor
<1>2. PICK u \in T : \A t \in T : t \in Chain[u]
    <2> HIDE DEF T
    <2> QED
        BY <1>1, ChainExtremes
<1> QED
    BY <1>2 DEF IsNearest

(* "The hot-path resolve_role (most-specific row wins) then returns        *)
(* exactly role_at": for statements with one version per key, a lookup     *)
(* over the rows cache_rows writes is role_at of the materialization.      *)
THEOREM CacheProjection ==
    ASSUME NEW owner \in Peers, NEW S \in SUBSET RoleStatement,
           \A x, y \in S : StatementKey(x) = StatementKey(y) => x = y,
           NEW p \in Peers, NEW s \in Scopes
    PROVE  resolve_role(owner, cache_rows(materialize(owner, S)), None, p, s)
             = role_at(materialize(owner, S), p, s)
<1> DEFINE e == materialize(owner, S)
<1>1. e \in Effective /\ e.owner = owner
    BY MaterializeType, EffectiveIsAdmissible
<1>2. PinsAreUnique(e)
    <2>1. \A x \in e.pins : x \in OwnerStatements(owner, S)
        BY DEF materialize, WithGrants
    <2>2. \A x \in e.grants : x \in Raising(owner, S)
        BY DEF materialize, WithGrants, EffectiveGrants
    <2>3. \A x, y \in OwnerStatements(owner, S) : Cell(x) = Cell(y) => x = y
        BY DEF OwnerStatements, Cell, StatementKey
    <2>4. \A x \in OwnerStatements(owner, S), y \in Raising(owner, S) : Cell(x) # Cell(y)
        BY DEF Raising
    <2> QED
        BY <2>1, <2>2, <2>3, <2>4 DEF PinsAreUnique
<1> HIDE DEF e
<1>3. CASE p = owner
    BY <1>1, <1>3 DEF resolve_role, role_at, e
<1>4. CASE p # owner
    <2>1. role_at(e, p, s) = WalkRole(e, p, Chain[s])
        BY <1>1, <1>4 DEF role_at
    <2>2. CASE RowsFor(e, p, s) = {}
        <3>1. WalkRole(e, p, Chain[s]) <= None
            BY <1>1, <1>2, <1>4, <2>2, NoHigherRole DEF None
        <3>2. WalkRole(e, p, Chain[s]) \in 0 .. 3
            BY <1>1, ChainType, WalkRoleType DEF GrantedRole, None, Manager
        <3>3. resolve_role(owner, cache_rows(e), None, p, s) = None
            BY <1>4, <2>2 DEF resolve_role, RowsFor
        <3>4. WalkRole(e, p, Chain[s]) = None
            BY <3>1, <3>2 DEF None
        <3> QED
            BY <2>1, <3>3, <3>4 DEF e
    <2>3. CASE RowsFor(e, p, s) # {}
        <3> DEFINE mine == RowsFor(e, p, s)
                   n == CHOOSE row \in mine : \A other \in mine : other.scope \in Chain[row.scope]
        <3>1. IsNearest(e, p, s, n)
            <4>1. \E row \in mine : \A other \in mine : other.scope \in Chain[row.scope]
                BY <1>1, <2>3, NearestRowExists DEF IsNearest
            <4> QED
                BY <4>1 DEF IsNearest
        <3>2. resolve_role(owner, cache_rows(e), None, p, s) = n.role
            BY <1>4, <2>3 DEF resolve_role, RowsFor
        <3> HIDE DEF n
        <3>3. n.role = WalkRole(e, p, Chain[s])
            BY <1>1, <1>2, <1>4, <3>1, NearestRowIsWalk
        <3> QED
            BY <2>1, <3>2, <3>3 DEF e
    <2> QED
        BY <2>2, <2>3
<1> QED
    BY <1>3, <1>4
=============================================================================
