----------------------------- MODULE GrantsProofs -----------------------------
(***************************************************************************)
(* What holds of the algebra of the wall for every set of names: the join  *)
(* of a pod's rows is their least upper bound, narrowing is a preorder,    *)
(* and what is admitted under a manifest is admitted under every manifest  *)
(* that it narrows - the prefixes of images aside.                         *)
(***************************************************************************)
EXTENDS Grants, TLAPS

-------------------------------------------------------------------------------
(* Grants and demands                                                      *)

(* A grant is made of levels.                                              *)
LEMMA MakeGrantType ==
    ASSUME NEW fs \in Levels, NEW net \in Levels, NEW exec \in Levels
    PROVE  /\ MakeGrant(fs, net, exec) \in Grant
           /\ MakeGrant(fs, net, exec)["filesystem"] = fs
           /\ MakeGrant(fs, net, exec)["network"] = net
           /\ MakeGrant(fs, net, exec)["exec"] = exec
BY DEF MakeGrant, Grant, Axes

LEMMA LevelFacts ==
    /\ None \in Levels /\ ReadOnly \in Levels /\ Sandboxed \in Levels
    /\ ReadWrite \in Levels /\ Allowlist \in Levels /\ Full \in Levels
BY DEF Levels, None, ReadOnly, Sandboxed, ReadWrite, Allowlist, Full

(* Every effect demands a grant.                                           *)
LEMMA DemandsType ==
    ASSUME NEW e \in Effect
    PROVE  Demands(e) \in Grant
BY LevelFacts, MakeGrantType DEF Effect, Demands, Reach, Nothing, Everything

(* Every manifest implies a grant.                                         *)
LEMMA ImpliedType ==
    ASSUME NEW f \in Facet
    PROVE  ImpliedGrant(f) \in Grant
<1>1. AtLeast(f.exec, Sandboxed) \in Levels
  BY DEF AtLeast, Levels, Sandboxed, Facet
<1> QED
  BY <1>1, LevelFacts, MakeGrantType DEF ImpliedGrant, Facet

(* Grants are compared axis by axis, and the comparison is transitive.     *)
LEMMA BelowTransitive ==
    ASSUME NEW g \in Grant, NEW h \in Grant, NEW k \in Grant,
           Below(g, h), Below(h, k)
    PROVE  Below(g, k)
BY DEF Below, Grant, Levels

(* On one axis a finite ladder of levels has a least upper bound.          *)
LEMMA JoinAxis ==
    ASSUME NEW rows \in SUBSET Effect, NEW a \in Axes
    PROVE  /\ Join(rows)[a] \in Levels
           /\ \A e \in rows : Demands(e)[a] <= Join(rows)[a]
           /\ Join(rows)[a] = None \/ \E e \in rows : Demands(e)[a] = Join(rows)[a]
<1> DEFINE Bound(l) == /\ \A e \in rows : Demands(e)[a] <= l
                       /\ l = None \/ \E e \in rows : Demands(e)[a] = l
<1>1. \A e \in rows : Demands(e)[a] \in Levels
  BY DemandsType DEF Grant
<1>2. \E l \in Levels : Bound(l)
  <2>1. CASE \E e \in rows : Demands(e)[a] = 3
    BY <2>1, <1>1 DEF Levels
  <2>2. CASE /\ \A e \in rows : Demands(e)[a] # 3
             /\ \E e \in rows : Demands(e)[a] = 2
    BY <2>2, <1>1 DEF Levels
  <2>3. CASE /\ \A e \in rows : Demands(e)[a] # 3 /\ Demands(e)[a] # 2
             /\ \E e \in rows : Demands(e)[a] = 1
    BY <2>3, <1>1 DEF Levels
  <2>4. CASE \A e \in rows : /\ Demands(e)[a] # 3 /\ Demands(e)[a] # 2
                             /\ Demands(e)[a] # 1
    BY <2>4, <1>1 DEF Levels, None
  <2> QED
    BY <2>1, <2>2, <2>3, <2>4
<1>3. Join(rows)[a] = CHOOSE l \in Levels : Bound(l)
  BY DEF Join
<1> QED
  BY <1>2, <1>3

(* The lattice wall: the join of the rows is within a grant exactly when   *)
(* every row is, so a pod is refused because of a row and not because of   *)
(* their number (PodEffects::within, worst_row).                           *)
THEOREM JoinIsLeast ==
    ASSUME NEW rows \in SUBSET Effect, NEW g \in Grant
    PROVE  Below(Join(rows), g) <=> \A e \in rows : Below(Demands(e), g)
<1>1. ASSUME Below(Join(rows), g), NEW e \in rows
      PROVE  Below(Demands(e), g)
  <2> SUFFICES ASSUME NEW a \in Axes PROVE Demands(e)[a] <= g[a]
    BY DEF Below
  <2>1. Demands(e)[a] \in Levels /\ g[a] \in Levels
    BY DemandsType DEF Grant
  <2>2. Demands(e)[a] <= Join(rows)[a] /\ Join(rows)[a] \in Levels
    BY JoinAxis
  <2>3. Join(rows)[a] <= g[a]
    BY <1>1 DEF Below
  <2> QED
    BY <2>1, <2>2, <2>3 DEF Levels
<1>2. ASSUME \A e \in rows : Below(Demands(e), g)
      PROVE  Below(Join(rows), g)
  <2> SUFFICES ASSUME NEW a \in Axes PROVE Join(rows)[a] <= g[a]
    BY DEF Below
  <2>1. g[a] \in Levels
    BY DEF Grant
  <2>2. CASE Join(rows)[a] = None
    BY <2>1, <2>2 DEF None, Levels
  <2>3. CASE \E e \in rows : Demands(e)[a] = Join(rows)[a]
    BY <2>3, <1>2 DEF Below
  <2> QED
    BY <2>2, <2>3, JoinAxis
<1> QED
  BY <1>1, <1>2

(* A refusal of the lattice wall can always point at a row.                *)
THEOREM RefusalHasCulprit ==
    ASSUME NEW f \in Facet, NEW pod \in Pod, ~LatticeWall(f, pod)
    PROVE  Culprits(f, pod) # {}
<1>1. pod.rows \in SUBSET Effect
  BY DEF Pod
<1> QED
  BY <1>1, ImpliedType, JoinIsLeast DEF LatticeWall, Culprits

-------------------------------------------------------------------------------
(* Narrowing                                                               *)

(* The grant a manifest implies follows its fields: a child that narrows   *)
(* the fields and does not raise exec implies no wider grant.              *)
THEOREM CeilingFollows ==
    ASSUME NEW p \in Facet, NEW c \in Facet,
           c.egress \subseteq p.egress, c.secrets \subseteq p.secrets,
           c.capabilities \subseteq p.capabilities,
           c.hostPath => p.hostPath, c.privileged => p.privileged,
           c.hostNamespaces => p.hostNamespaces, c.exec <= p.exec
    PROVE  Below(ImpliedGrant(c), ImpliedGrant(p))
<1> DEFINE F(f) == IF f.privileged \/ f.hostPath THEN Full
                   ELSE IF f.secrets # {} THEN ReadOnly ELSE None
           N(f) == IF f.hostNamespaces THEN Full
                   ELSE IF f.egress = {} THEN None ELSE Allowlist
           X(f) == IF f.privileged \/ f.hostNamespaces THEN Full
                   ELSE IF f.capabilities = {} THEN f.exec
                   ELSE AtLeast(f.exec, Sandboxed)
<1>1. \A f \in Facet : F(f) \in Levels /\ N(f) \in Levels /\ X(f) \in Levels
  BY LevelFacts DEF Facet, AtLeast
<1>2. \A f \in Facet : /\ ImpliedGrant(f)["filesystem"] = F(f)
                       /\ ImpliedGrant(f)["network"] = N(f)
                       /\ ImpliedGrant(f)["exec"] = X(f)
  BY <1>1, MakeGrantType DEF ImpliedGrant
<1>3. F(c) <= F(p)
  BY DEF Full, ReadOnly, None
<1>4. N(c) <= N(p)
  BY DEF Full, Allowlist, None
<1>5. X(c) <= X(p)
  <2>1. c.exec \in Levels /\ p.exec \in Levels
    BY DEF Facet
  <2> QED
    BY <2>1 DEF Full, Sandboxed, AtLeast, Levels
<1> HIDE DEF F, N, X
<1> QED
  BY <1>2, <1>3, <1>4, <1>5 DEF Below, Axes

(* Narrowing is reflexive and transitive: a chain of ceilings is a ceiling *)
(* (Manifest::validate_narrowing_with, PodFacet::validate_narrowing).      *)
THEOREM NarrowingIsPreorder ==
    ASSUME NEW f \in Facet, NEW p \in Facet, NEW c \in Facet
    PROVE  /\ Narrows(f, f)
           /\ Narrows(f, p) /\ Narrows(p, c) => Narrows(f, c)
<1>1. /\ ImpliedGrant(f) \in Grant /\ ImpliedGrant(p) \in Grant
      /\ ImpliedGrant(c) \in Grant
  BY ImpliedType
<1>2. Below(ImpliedGrant(f), ImpliedGrant(f))
  BY <1>1 DEF Below, Grant, Levels
<1>3. f.budget \in Int /\ p.budget \in Int /\ c.budget \in Int
  BY NamesAssumption DEF Facet
<1>4. Narrows(f, f)
  BY <1>2, <1>3 DEF Narrows
<1>5. ASSUME Narrows(f, p), Narrows(p, c) PROVE Narrows(f, c)
  <2>1. Below(ImpliedGrant(c), ImpliedGrant(f))
    BY <1>1, <1>5, BelowTransitive DEF Narrows
  <2> QED
    BY <2>1, <1>3, <1>5 DEF Narrows
<1> QED
  BY <1>4, <1>5

-------------------------------------------------------------------------------
(* Admission under a wider manifest                                        *)

LEMMA LatticeSound ==
    ASSUME NEW p \in Facet, NEW c \in Facet, NEW pod \in Pod,
           Narrows(p, c), LatticeWall(c, pod)
    PROVE  LatticeWall(p, pod)
<1>1. pod.rows \in SUBSET Effect
  BY DEF Pod
<1>2. Below(ImpliedGrant(c), ImpliedGrant(p))
  BY DEF Narrows
<1>3. \A e \in pod.rows : Below(Demands(e), ImpliedGrant(c))
  BY <1>1, ImpliedType, JoinIsLeast DEF LatticeWall
<1>4. \A e \in pod.rows : Below(Demands(e), ImpliedGrant(p))
  BY <1>1, <1>2, <1>3, ImpliedType, DemandsType, BelowTransitive
<1> QED
  BY <1>1, <1>4, ImpliedType, JoinIsLeast DEF LatticeWall

LEMMA AdmitsSound ==
    ASSUME NEW p \in Facet, NEW c \in Facet, NEW e \in Effect,
           Narrows(p, c), Admits(c, e), e.kind # "untrusted-image"
    PROVE  Admits(p, e)
BY DEF Narrows, Admits, Effect

LEMMA ImagesSound ==
    ASSUME NEW p \in Facet, NEW c \in Facet, Narrows(p, c),
           NEW i \in Images, Vouched(c, i)
    PROVE  Vouched(p, i)
BY DEF Narrows, Vouched

LEMMA BudgetSound ==
    ASSUME NEW p \in Facet, NEW c \in Facet, NEW pod \in Pod, NEW spend \in Spend,
           Narrows(p, c), CanRun(c, spend), BudgetWall(c, pod, spend)
    PROVE  CanRun(p, spend) /\ BudgetWall(p, pod, spend)
<1>1. /\ p.budget \in Int /\ c.budget \in Int /\ pod.cost \in Int
      /\ spend.committed \in Int
  BY NamesAssumption DEF Facet, Pod, Spend
<1> QED
  BY <1>1 DEF Narrows, CanRun, BudgetWall

(* The waiver of an image check is never wider than the ceiling's: an      *)
(* unknown submitter is not helped by a child.                             *)
LEMMA TrustSound ==
    ASSUME NEW p \in Facet, NEW c \in Facet, NEW pod \in Pod, NEW standing,
           Narrows(p, c), TrustWall(c, pod, standing)
    PROVE  TrustWall(p, pod, standing)
BY DEF Narrows, TrustWall, Unchecked, Facet

(* Narrowing is sound: a pod admitted under a child is admitted under the  *)
(* parent, provided that the child did not empty the list of prefixes.     *)
THEOREM NarrowingIsSound ==
    ASSUME NEW p \in Facet, NEW c \in Facet, NEW pod \in Pod,
           NEW standing \in Standing, NEW spend \in Spend,
           Narrows(p, c), Admitted(c, pod, standing, spend),
           c.imagePrefixes = {} => p.imagePrefixes = {}
    PROVE  Admitted(p, pod, standing, spend)
<1>1. pod.rows \in SUBSET Effect /\ pod.images \in SUBSET Images
  BY DEF Pod
<1>2. NamesWall(p, pod)
  <2> SUFFICES ASSUME NEW e \in pod.rows PROVE Admits(p, e)
    BY DEF NamesWall
  <2>1. e \in Effect /\ Admits(c, e)
    BY <1>1 DEF Admitted, NamesWall
  <2>2. CASE e.kind = "untrusted-image"
    <3>1. e.name \in Images
      BY <2>1, <2>2 DEF Effect
    <3>2. c.imagePrefixes = {} \/ Vouched(c, e.name)
      BY <2>1, <2>2 DEF Admits
    <3>3. p.imagePrefixes = {} \/ Vouched(p, e.name)
      BY <3>1, <3>2, ImagesSound
    <3> QED
      BY <3>3, <2>2 DEF Admits
  <2> QED
    BY <2>1, <2>2, AdmitsSound
<1>3. ImagesWall(p, pod)
  <2>1. CASE p.imagePrefixes = {}
    BY <2>1 DEF ImagesWall
  <2>2. CASE p.imagePrefixes # {}
    BY <2>2, <1>1, ImagesSound DEF Admitted, ImagesWall
  <2> QED
    BY <2>1, <2>2
<1> QED
  BY <1>2, <1>3, LatticeSound, TrustSound, BudgetSound DEF Admitted

-------------------------------------------------------------------------------
(* What an admission says                                                  *)

(* The two walls together: a pod whose policies let it out is admitted     *)
(* only where some host is named or the node's network is granted, and     *)
(* never with unbounded reach; a field nobody could read is admitted only  *)
(* under a manifest that gives the node away.                              *)
THEOREM AdmissionsAreGranted ==
    ASSUME NEW f \in Facet, NEW pod \in Pod, NEW standing \in Standing,
           NEW spend \in Spend, Admitted(f, pod, standing, spend),
           NEW e \in pod.rows
    PROVE  /\ e.kind = "egress" => \/ e.reach = "none"
                                   \/ /\ e.reach = "allowlist"
                                      /\ f.egress # {} \/ f.hostNamespaces
           /\ e.kind = "unreadable" =>
                (f.privileged \/ f.hostPath) /\ f.hostNamespaces
<1>1. e \in Effect /\ Admits(f, e)
  BY DEF Pod, Admitted, NamesWall
<1>2. Below(Demands(e), ImpliedGrant(f))
  BY ImpliedType, JoinIsLeast DEF Pod, Admitted, LatticeWall
<1> DEFINE F == IF f.privileged \/ f.hostPath THEN Full
                ELSE IF f.secrets # {} THEN ReadOnly ELSE None
           N == IF f.hostNamespaces THEN Full
                ELSE IF f.egress = {} THEN None ELSE Allowlist
           X == IF f.privileged \/ f.hostNamespaces THEN Full
                ELSE IF f.capabilities = {} THEN f.exec
                ELSE AtLeast(f.exec, Sandboxed)
<1>3. F \in Levels /\ N \in Levels /\ X \in Levels
  BY LevelFacts DEF Facet, AtLeast
<1>4. ImpliedGrant(f)["filesystem"] = F /\ ImpliedGrant(f)["network"] = N
  BY <1>3, MakeGrantType DEF ImpliedGrant
<1>5. Demands(e)["filesystem"] <= F /\ Demands(e)["network"] <= N
  BY <1>2, <1>4 DEF Below, Axes
<1>6. ASSUME e.kind = "egress"
      PROVE  \/ e.reach = "none"
             \/ /\ e.reach = "allowlist"
                /\ f.egress # {} \/ f.hostNamespaces
  <2>1. e.reach \in {"none", "allowlist"}
    BY <1>1, <1>6 DEF Admits
  <2>2. ASSUME e.reach = "allowlist" PROVE Demands(e)["network"] = Allowlist
    BY <1>6, <2>2, LevelFacts, MakeGrantType DEF Demands
  <2> QED
    BY <2>1, <2>2, <1>5 DEF None, Allowlist, Full
<1>7. ASSUME e.kind = "unreadable"
      PROVE  (f.privileged \/ f.hostPath) /\ f.hostNamespaces
  <2>1. Demands(e)["filesystem"] = Full /\ Demands(e)["network"] = Full
    BY <1>7, LevelFacts, MakeGrantType DEF Demands, Everything
  <2> QED
    BY <2>1, <1>5 DEF None, ReadOnly, Allowlist, Full
<1> QED
  BY <1>6, <1>7
===============================================================================
