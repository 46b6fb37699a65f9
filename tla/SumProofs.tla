------------------------------- MODULE SumProofs -------------------------------
(***************************************************************************)
(* Sums over finite sets and largest elements, for the community modules'  *)
(* SumFunctionOnSet and Max.  Each induction is by a smallest              *)
(* counterexample among the subsets of a finite set: the theorems on       *)
(* induction take a predicate as a parameter, this takes the set of the    *)
(* subsets that fail.                                                      *)
(***************************************************************************)
EXTENDS FiniteSetsExt, FiniteSetTheorems, WellFoundedInduction, TLAPS

(* The element that a fold takes next.                                     *)
Some(s) == CHOOSE x \in s : TRUE

(* h is the sum of f over each subset of S, by the equation of the fold.   *)
Adds(f, S, h) ==
    h = [s \in SUBSET S |-> IF s = {} THEN 0 ELSE f[Some(s)] + h[s \ {Some(s)}]]

LEMMA SumIsFold ==
    ASSUME NEW f, NEW S
    PROVE  SumFunctionOnSet(f, S) = (CHOOSE h : Adds(f, S, h))[S]
BY DEF SumFunctionOnSet, FoldFunctionOnSet, MapThenFoldSet, Adds, Some

(* Among some subsets of a finite set there is a smallest.                 *)
LEMMA Smallest ==
    ASSUME NEW S, IsFiniteSet(S), NEW T \in SUBSET SUBSET S, T # {}
    PROVE  \E m \in T : \A u \in T : u \subseteq m => u = m
<1>1. IsWellFoundedOn(StrictSubsetOrdering(S), SUBSET S)
  BY FS_StrictSubsetOrderingWellFounded, FS_FiniteSubsetsOfFinite
<1>2. PICK m \in T : \A u \in T : ~ (<<u, m>> \in StrictSubsetOrdering(S))
  BY <1>1, WFMin
<1> QED
  BY <1>2 DEF StrictSubsetOrdering

LEMMA SomeIsIn == ASSUME NEW s, s # {} PROVE Some(s) \in s
BY DEF Some

(* Two solutions of the equation agree where both are defined.             *)
LEMMA FoldsAgree ==
    ASSUME NEW f, NEW S, IsFiniteSet(S), NEW A \in SUBSET S, NEW B \in SUBSET S,
           NEW g, NEW h, Adds(f, A, g), Adds(f, B, h),
           NEW s \in SUBSET (A \cap B)
    PROVE  g[s] = h[s]
<1> DEFINE T == {t \in SUBSET (A \cap B) : g[t] # h[t]}
<1> SUFFICES ASSUME T # {} PROVE FALSE
  OBVIOUS
<1>1. PICK m \in T : \A u \in T : u \subseteq m => u = m
  <2>1. T \in SUBSET SUBSET S
    OBVIOUS
  <2> HIDE DEF T
  <2> QED
    BY <2>1, Smallest
<1>2. g[m] = IF m = {} THEN 0 ELSE f[Some(m)] + g[m \ {Some(m)}]
  BY DEF Adds
<1>3. h[m] = IF m = {} THEN 0 ELSE f[Some(m)] + h[m \ {Some(m)}]
  BY DEF Adds
<1>4. m # {}
  BY <1>2, <1>3
<1>5. m \ {Some(m)} \notin T
  BY <1>1, <1>4, SomeIsIn
<1> QED
  BY <1>2, <1>3, <1>4, <1>5

(* The equation has a solution: each subset takes the sums of the smaller. *)
LEMMA FoldExists ==
    ASSUME NEW f, NEW S, IsFiniteSet(S)
    PROVE  \E h : Adds(f, S, h)
<1> DEFINE T    == {t \in SUBSET S : ~ \E h : Adds(f, t, h)}
           H(t) == CHOOSE h : Adds(f, t, h)
<1> SUFFICES ASSUME T # {} PROVE FALSE
  OBVIOUS
<1>1. PICK m \in T : \A u \in T : u \subseteq m => u = m
  <2>1. T \in SUBSET SUBSET S
    OBVIOUS
  <2> HIDE DEF T
  <2> QED
    BY <2>1, Smallest
<1> DEFINE h == [s \in SUBSET m |->
                    IF s = {} THEN 0
                    ELSE f[Some(s)] + H(s \ {Some(s)})[s \ {Some(s)}]]
<1>2. ASSUME NEW u \in SUBSET m, u # m
      PROVE  Adds(f, u, H(u))
  <2>1. u \notin T
    BY <1>1, <1>2
  <2> QED
    BY <2>1
<1> HIDE DEF H, T
<1>3. ASSUME NEW u \in SUBSET m, u # m
      PROVE  h[u] = H(u)[u]
  <2>1. Adds(f, u, H(u))
    BY <1>2, <1>3
  <2>2. H(u)[u] = IF u = {} THEN 0 ELSE f[Some(u)] + H(u)[u \ {Some(u)}]
    BY <2>1 DEF Adds
  <2>3. CASE u = {}
    BY <2>2, <2>3
  <2>4. CASE u # {}
    <3> DEFINE v == u \ {Some(u)}
    <3>1. v \in SUBSET u /\ v \in SUBSET m /\ v # m
      BY <1>3
    <3>2. Adds(f, v, H(v))
      BY <1>2, <3>1
    <3>3. u \in SUBSET S /\ v \in SUBSET S /\ v \in SUBSET (u \cap v)
      BY DEF T
    <3> HIDE DEF v
    <3>4. H(u)[v] = H(v)[v]
      BY <2>1, <3>2, <3>3, FoldsAgree
    <3> QED
      BY <2>2, <2>4, <3>4 DEF v
  <2> QED
    BY <2>3, <2>4
<1>4. ASSUME NEW s \in SUBSET m
      PROVE  h[s] = IF s = {} THEN 0 ELSE f[Some(s)] + h[s \ {Some(s)}]
  <2>1. CASE s = {}
    BY <2>1
  <2>2. CASE s # {}
    <3>1. s \ {Some(s)} \in SUBSET m /\ s \ {Some(s)} # m
      BY <2>2, SomeIsIn
    <3>2. h[s \ {Some(s)}] = H(s \ {Some(s)})[s \ {Some(s)}]
      BY <1>3, <3>1
    <3> HIDE DEF h
    <3>3. h[s] = f[Some(s)] + H(s \ {Some(s)})[s \ {Some(s)}]
      BY <2>2 DEF h
    <3> QED
      BY <2>2, <3>2, <3>3
  <2> QED
    BY <2>1, <2>2
<1>5. h = [s \in SUBSET m |-> h[s]]
  OBVIOUS
<1> HIDE DEF h
<1>6. Adds(f, m, h)
  BY <1>4, <1>5 DEF Adds
<1> QED
  BY <1>1, <1>6 DEF T

-------------------------------------------------------------------------------
(* The equation of the fold, for the operator.                             *)
LEMMA SumStep ==
    ASSUME NEW f, NEW S, IsFiniteSet(S)
    PROVE  SumFunctionOnSet(f, S) =
              IF S = {} THEN 0
              ELSE f[Some(S)] + SumFunctionOnSet(f, S \ {Some(S)})
<1> DEFINE F(T) == CHOOSE h : Adds(f, T, h)
           rest == S \ {Some(S)}
<1>1. \A T : SumFunctionOnSet(f, T) = F(T)[T]
  BY SumIsFold
<1>2. rest \in SUBSET S /\ S \in SUBSET S /\ rest \in SUBSET (S \cap rest)
  OBVIOUS
<1>3. IsFiniteSet(rest)
  BY <1>2, FS_Subset
<1> HIDE DEF rest
<1>4. Adds(f, S, F(S)) /\ Adds(f, rest, F(rest))
  BY <1>3, FoldExists
<1> HIDE DEF F
<1>5. F(S)[rest] = F(rest)[rest]
  BY <1>2, <1>4, FoldsAgree
<1>6. F(S)[S] = IF S = {} THEN 0 ELSE f[Some(S)] + F(S)[rest]
  BY <1>4 DEF Adds, rest
<1> QED
  BY <1>1, <1>5, <1>6 DEF rest

(* Sums of naturals are naturals.                                          *)
LEMMA SumType ==
    ASSUME NEW f, NEW S, IsFiniteSet(S), \A i \in S : f[i] \in Nat
    PROVE  SumFunctionOnSet(f, S) \in Nat
<1> DEFINE T == {t \in SUBSET S : SumFunctionOnSet(f, t) \notin Nat}
<1> SUFFICES ASSUME T # {} PROVE FALSE
  BY FS_Subset
<1>1. PICK m \in T : \A u \in T : u \subseteq m => u = m
  <2>1. T \in SUBSET SUBSET S
    OBVIOUS
  <2> HIDE DEF T
  <2> QED
    BY <2>1, Smallest
<1>2. IsFiniteSet(m)
  BY FS_Subset
<1>3. SumFunctionOnSet(f, m) = IF m = {} THEN 0
                     ELSE f[Some(m)] + SumFunctionOnSet(f, m \ {Some(m)})
  BY <1>2, SumStep
<1>4. m # {}
  BY <1>3
<1>5. Some(m) \in m
  BY <1>4, SomeIsIn
<1>6. SumFunctionOnSet(f, m \ {Some(m)}) \in Nat
  BY <1>1, <1>5
<1>7. f[Some(m)] \in Nat
  BY <1>5
<1> QED
  BY <1>3, <1>4, <1>6, <1>7

(* Any element may be taken first: addition commutes.                      *)
LEMMA SumRemove ==
    ASSUME NEW f, NEW S, IsFiniteSet(S), \A i \in S : f[i] \in Nat, NEW x \in S
    PROVE  SumFunctionOnSet(f, S) = f[x] + SumFunctionOnSet(f, S \ {x})
<1> DEFINE T == {t \in SUBSET S :
                   \E y \in t : SumFunctionOnSet(f, t) # f[y] + SumFunctionOnSet(f, t \ {y})}
<1> SUFFICES ASSUME T # {} PROVE FALSE
  OBVIOUS
<1>1. PICK m \in T : \A u \in T : u \subseteq m => u = m
  <2>1. T \in SUBSET SUBSET S
    OBVIOUS
  <2> HIDE DEF T
  <2> QED
    BY <2>1, Smallest
<1>2. PICK y \in m : SumFunctionOnSet(f, m) # f[y] + SumFunctionOnSet(f, m \ {y})
  OBVIOUS
<1> DEFINE c == Some(m)
           both == (m \ {c}) \ {y}
<1>3. c \in m /\ m \in SUBSET S
  BY <1>2, SomeIsIn
<1>4. \A t \in SUBSET S : IsFiniteSet(t) /\ SumFunctionOnSet(f, t) \in Nat
  BY FS_Subset, SumType
<1>5. SumFunctionOnSet(f, m) = f[c] + SumFunctionOnSet(f, m \ {c})
  BY <1>2, <1>4, SumStep
<1>6. c # y
  BY <1>2, <1>5
<1>7. SumFunctionOnSet(f, m \ {c}) = f[y] + SumFunctionOnSet(f, both)
  <2>1. m \ {c} \in SUBSET S /\ m \ {c} # m /\ y \in m \ {c}
    BY <1>3, <1>6
  <2> QED
    BY <2>1, <1>1
<1>8. SumFunctionOnSet(f, m \ {y}) = f[c] + SumFunctionOnSet(f, both)
  <2>1. m \ {y} \in SUBSET S /\ m \ {y} # m /\ c \in m \ {y}
    BY <1>3, <1>6
  <2>2. both = (m \ {y}) \ {c}
    OBVIOUS
  <2> QED
    BY <2>1, <2>2, <1>1
<1>9. f[c] \in Nat /\ f[y] \in Nat /\ SumFunctionOnSet(f, both) \in Nat
  BY <1>3, <1>4
<1> QED
  BY <1>2, <1>5, <1>7, <1>8, <1>9

(* The same, said of an element that is added.                             *)
LEMMA SumAdd ==
    ASSUME NEW f, NEW S, IsFiniteSet(S), NEW x, x \notin S,
           \A i \in S \cup {x} : f[i] \in Nat
    PROVE  SumFunctionOnSet(f, S \cup {x}) = f[x] + SumFunctionOnSet(f, S)
<1>1. IsFiniteSet(S \cup {x}) /\ x \in S \cup {x} /\ (S \cup {x}) \ {x} = S
  BY FS_AddElement
<1>2. SumFunctionOnSet(f, S \cup {x}) = f[x] + SumFunctionOnSet(f, (S \cup {x}) \ {x})
  BY <1>1, SumRemove
<1> QED
  BY <1>1, <1>2

(* Sums of naturals grow with the set.                                     *)
LEMMA SumGrows ==
    ASSUME NEW f, NEW S, IsFiniteSet(S), \A i \in S : f[i] \in Nat, NEW A \in SUBSET S
    PROVE  SumFunctionOnSet(f, A) <= SumFunctionOnSet(f, S)
<1> DEFINE T == {t \in SUBSET S :
                   A \subseteq t /\ ~(SumFunctionOnSet(f, A) <= SumFunctionOnSet(f, t))}
<1> SUFFICES ASSUME T # {} PROVE FALSE
  OBVIOUS
<1>1. PICK m \in T : \A u \in T : u \subseteq m => u = m
  <2>1. T \in SUBSET SUBSET S
    OBVIOUS
  <2> HIDE DEF T
  <2> QED
    BY <2>1, Smallest
<1>2. \A t \in SUBSET S : IsFiniteSet(t) /\ SumFunctionOnSet(f, t) \in Nat
  BY FS_Subset, SumType
<1>3. m # A
  BY <1>2
<1>4. PICK x \in m : x \notin A
  BY <1>3
<1>5. SumFunctionOnSet(f, m) = f[x] + SumFunctionOnSet(f, m \ {x})
  BY <1>2, <1>4, SumRemove
<1>6. m \ {x} \in SUBSET S /\ A \subseteq m \ {x} /\ m \ {x} # m
  BY <1>4
<1>7. SumFunctionOnSet(f, A) <= SumFunctionOnSet(f, m \ {x})
  BY <1>1, <1>6
<1>8. f[x] \in Nat /\ SumFunctionOnSet(f, A) \in Nat /\ SumFunctionOnSet(f, m \ {x}) \in Nat
  BY <1>2, <1>4, <1>6
<1>9. ~(SumFunctionOnSet(f, A) <= SumFunctionOnSet(f, m))
  OBVIOUS
<1> HIDE DEF T
<1> QED
  BY <1>5, <1>7, <1>8, <1>9

(* Only the values on the set count.                                       *)
LEMMA SumSame ==
    ASSUME NEW f, NEW g, NEW S, IsFiniteSet(S), \A i \in S : f[i] = g[i]
    PROVE  SumFunctionOnSet(f, S) = SumFunctionOnSet(g, S)
<1> DEFINE T == {t \in SUBSET S : SumFunctionOnSet(f, t) # SumFunctionOnSet(g, t)}
<1> SUFFICES ASSUME T # {} PROVE FALSE
  OBVIOUS
<1>1. PICK m \in T : \A u \in T : u \subseteq m => u = m
  <2>1. T \in SUBSET SUBSET S
    OBVIOUS
  <2> HIDE DEF T
  <2> QED
    BY <2>1, Smallest
<1>2. IsFiniteSet(m)
  BY FS_Subset
<1>3. /\ SumFunctionOnSet(f, m) =
            IF m = {} THEN 0 ELSE f[Some(m)] + SumFunctionOnSet(f, m \ {Some(m)})
      /\ SumFunctionOnSet(g, m) =
            IF m = {} THEN 0 ELSE g[Some(m)] + SumFunctionOnSet(g, m \ {Some(m)})
  BY <1>2, SumStep
<1>4. m # {}
  BY <1>3
<1>5. Some(m) \in m
  BY <1>4, SomeIsIn
<1>6. SumFunctionOnSet(f, m \ {Some(m)}) = SumFunctionOnSet(g, m \ {Some(m)})
  BY <1>1, <1>5
<1> QED
  BY <1>3, <1>4, <1>5, <1>6

(* Smaller summands give no larger sum.                                    *)
LEMMA SumBelow ==
    ASSUME NEW f, NEW g, NEW S, IsFiniteSet(S),
           \A i \in S : f[i] \in Nat /\ g[i] \in Nat /\ f[i] <= g[i]
    PROVE  SumFunctionOnSet(f, S) <= SumFunctionOnSet(g, S)
<1> DEFINE T == {t \in SUBSET S : ~(SumFunctionOnSet(f, t) <= SumFunctionOnSet(g, t))}
<1> SUFFICES ASSUME T # {} PROVE FALSE
  OBVIOUS
<1>1. PICK m \in T : \A u \in T : u \subseteq m => u = m
  <2>1. T \in SUBSET SUBSET S
    OBVIOUS
  <2> HIDE DEF T
  <2> QED
    BY <2>1, Smallest
<1> DEFINE x    == Some(m)
           rest == m \ {x}
<1>2. /\ SumFunctionOnSet(f, m) = IF m = {} THEN 0 ELSE f[x] + SumFunctionOnSet(f, rest)
      /\ SumFunctionOnSet(g, m) = IF m = {} THEN 0 ELSE g[x] + SumFunctionOnSet(g, rest)
  BY SumStep, FS_Subset
<1>3. m # {} /\ x \in m
  BY <1>2, SomeIsIn
<1>4. /\ SumFunctionOnSet(f, rest) \in Nat /\ SumFunctionOnSet(g, rest) \in Nat
      /\ SumFunctionOnSet(f, rest) <= SumFunctionOnSet(g, rest)
  BY <1>1, <1>3, FS_Subset, SumType
<1>5. f[x] \in Nat /\ g[x] \in Nat /\ f[x] <= g[x]
  BY <1>3
<1>6. ~(SumFunctionOnSet(f, m) <= SumFunctionOnSet(g, m))
  OBVIOUS
<1> HIDE DEF T, x, rest
<1> QED
  BY <1>2, <1>3, <1>4, <1>5, <1>6

(* A finite, nonempty set of naturals has a largest element.               *)
LEMMA MaxIsUpper ==
    ASSUME NEW S, IsFiniteSet(S), \A x \in S : x \in Nat, S # {}
    PROVE  /\ Max(S) \in S
           /\ \A x \in S : x <= Max(S)
<1> DEFINE T == {t \in SUBSET S : t # {} /\ ~ \E x \in t : \A y \in t : x >= y}
<1>1. T = {}
  <2> SUFFICES ASSUME T # {} PROVE FALSE
    OBVIOUS
  <2>1. PICK m \in T : \A u \in T : u \subseteq m => u = m
    <3>1. T \in SUBSET SUBSET S
      OBVIOUS
    <3> HIDE DEF T
    <3> QED
      BY <3>1, Smallest
  <2>2. PICK z \in m : TRUE
    OBVIOUS
  <2>3. m \subseteq Nat
    OBVIOUS
  <2>4. m \ {z} # {}
    BY <2>2, <2>3
  <2>5. PICK x \in m \ {z} : \A y \in m \ {z} : x >= y
    <3>1. m \ {z} \notin T
      BY <2>1, <2>2
    <3>2. m \ {z} \in SUBSET S
      OBVIOUS
    <3> QED
      BY <2>4, <3>1, <3>2
  <2>6. x \in Nat /\ z \in Nat /\ \A y \in m : y \in Nat
    BY <2>2, <2>3, <2>5
  <2>7. CASE x >= z
    BY <2>5, <2>6, <2>7
  <2>8. CASE z >= x
    <3>1. \A y \in m : z >= y
      BY <2>5, <2>6, <2>8
    <3> QED
      BY <2>2, <3>1
  <2> QED
    BY <2>6, <2>7, <2>8
<1>2. \E x \in S : \A y \in S : x >= y
  BY <1>1
<1> QED
  BY <1>2 DEF Max
================================================================================
