---------------------------- MODULE FoldProofs -----------------------------
(***************************************************************************)
(* Sums over finite sets, and lists put one after the other.               *)
(*                                                                         *)
(* The models count bytes with the folds of the community modules: the     *)
(* session store over its sessions, the query executor and the schema      *)
(* discovery over sequences of rows and lines.  All of these unfold to one *)
(* recursive function on the subsets of a set, which takes away a chosen   *)
(* element at each step.  The first part shows, once, what such a function *)
(* computes: it exists, it is unique, and the choices do not matter.  The  *)
(* second part does the same for the lists the result page is drawn from.  *)
(*                                                                         *)
(* Every induction here is carried out as the search for a smallest        *)
(* counterexample, among finite sets under inclusion or among numbers      *)
(* (theorem WFMin).                                                        *)
(***************************************************************************)
EXTENDS SequencesExt, SequenceTheorems, FiniteSetTheorems, TLAPS

\* The element a step of the recursion takes away.
Chosen(s) == CHOOSE x \in s : TRUE

\* f adds up the weights w over every subset of S.
SumsUp(f, w, S) ==
  f = [s \in SUBSET S |->
         IF s = {} THEN 0 ELSE w[Chosen(s)] + f[s \ {Chosen(s)}]]

\* The sum of the weights w over S.
Total(w, S) == (CHOOSE f : SumsUp(f, w, S))[S]

\* The weights of the elements of S are natural numbers.
Weighs(w, S) == \A x \in S : w[x] \in Nat

-----------------------------------------------------------------------------
\* Of the subsets of a finite set that refute something, one has no smaller one inside it.
LEMMA SmallestSubset ==
  ASSUME NEW S, IsFiniteSet(S), NEW T \in SUBSET (SUBSET S), T # {}
  PROVE  \E s \in T : \A t \in SUBSET s : t # s => t \notin T
<1>1. IsWellFoundedOn(StrictSubsetOrdering(S), SUBSET S)
  BY FS_StrictSubsetOrderingWellFounded, FS_FiniteSubsetsOfFinite
<1>2. PICK s \in T : \A t \in T : ~ (<<t, s>> \in StrictSubsetOrdering(S))
  BY <1>1, WFMin
<1>3. ASSUME NEW t \in SUBSET s, t # s, t \in T
      PROVE  FALSE
  <2>1. <<t, s>> \in StrictSubsetOrdering(S)
    BY <1>3 DEF StrictSubsetOrdering
  <2> QED BY <1>2, <1>3, <2>1
<1> QED BY <1>2, <1>3

LEMMA ChosenIn == ASSUME NEW s, s # {} PROVE Chosen(s) \in s
  BY DEF Chosen

\* A function that sums up over S does so over every subset of S.
LEMMA SumsUpWithin ==
  ASSUME NEW w, NEW S, NEW f, SumsUp(f, w, S), NEW U \in SUBSET S
  PROVE  SumsUp([s \in SUBSET U |-> f[s]], w, U)
<1> DEFINE g == [s \in SUBSET U |-> f[s]]
<1>1. ASSUME NEW s \in SUBSET U
      PROVE  g[s] = IF s = {} THEN 0 ELSE w[Chosen(s)] + g[s \ {Chosen(s)}]
  <2>1. s \in SUBSET S /\ s \ {Chosen(s)} \in SUBSET U
    OBVIOUS
  <2>2. f[s] = IF s = {} THEN 0 ELSE w[Chosen(s)] + f[s \ {Chosen(s)}]
    BY <2>1 DEF SumsUp
  <2> QED BY <2>1, <2>2
<1> QED BY <1>1 DEF SumsUp

\* Two functions that sum up over a finite set agree.
LEMMA SumsUpUnique ==
  ASSUME NEW w, NEW S, IsFiniteSet(S), NEW f, NEW g, SumsUp(f, w, S), SumsUp(g, w, S)
  PROVE  f = g
<1> DEFINE T == {s \in SUBSET S : f[s] # g[s]}
<1>1. T = {}
  <2> SUFFICES ASSUME T # {} PROVE FALSE
    OBVIOUS
  <2>0. T \in SUBSET (SUBSET S)
    OBVIOUS
  <2>1. PICK s \in T : \A t \in SUBSET s : t # s => t \notin T
    <3> HIDE DEF T
    <3> QED BY <2>0, SmallestSubset
  <2>2. /\ f[s] = IF s = {} THEN 0 ELSE w[Chosen(s)] + f[s \ {Chosen(s)}]
        /\ g[s] = IF s = {} THEN 0 ELSE w[Chosen(s)] + g[s \ {Chosen(s)}]
    BY <2>1 DEF SumsUp
  <2>3. s # {}
    BY <2>1, <2>2
  <2>4. f[s \ {Chosen(s)}] = g[s \ {Chosen(s)}]
    BY <2>1, <2>3, ChosenIn
  <2> QED BY <2>1, <2>2, <2>4
<1>2. f = [s \in SUBSET S |-> f[s]] /\ g = [s \in SUBSET S |-> g[s]]
  BY DEF SumsUp
<1> QED BY <1>1, <1>2

\* A function that sums up over a finite set exists: the one that maps each subset to its total.
LEMMA SumsUpExists ==
  ASSUME NEW w, NEW S, IsFiniteSet(S)
  PROVE  SumsUp([s \in SUBSET S |-> Total(w, s)], w, S)
<1> DEFINE h(U) == [s \in SUBSET U |-> Total(w, s)]
           T == {U \in SUBSET S : ~ SumsUp(h(U), w, U)}
<1>1. T = {}
  <2> SUFFICES ASSUME T # {} PROVE FALSE
    OBVIOUS
  <2>0. T \in SUBSET (SUBSET S)
    OBVIOUS
  <2>1. PICK U \in T : \A V \in SUBSET U : V # U => V \notin T
    <3> HIDE DEF T
    <3> QED BY <2>0, SmallestSubset
  <2>2. IsFiniteSet(U)
    BY <2>1, FS_Subset
  <2>3. \A V \in SUBSET U : V # U => SumsUp(h(V), w, V)
    BY <2>1
  <2> DEFINE g == [s \in SUBSET U |->
                     IF s # U THEN Total(w, s)
                     ELSE IF s = {} THEN 0 ELSE w[Chosen(s)] + Total(w, s \ {Chosen(s)})]
  <2>4. SumsUp(g, w, U)
    <3>1. ASSUME NEW s \in SUBSET U
          PROVE  g[s] = IF s = {} THEN 0 ELSE w[Chosen(s)] + g[s \ {Chosen(s)}]
      <4>1. s \ {Chosen(s)} \in SUBSET U /\ (s # {} => s \ {Chosen(s)} # U)
        BY ChosenIn
      <4>2. CASE s = U
        BY <4>1, <4>2
      <4>3. CASE s # U
        <5>1. SumsUp(h(s), w, s)
          BY <2>3, <4>3
        <5>2. h(s)[s] = IF s = {} THEN 0 ELSE w[Chosen(s)] + h(s)[s \ {Chosen(s)}]
          BY <5>1 DEF SumsUp
        <5> QED BY <4>1, <4>3, <5>2
      <4> QED BY <4>2, <4>3
    <3> QED BY <3>1 DEF SumsUp
  <2>5. (CHOOSE f : SumsUp(f, w, U)) = g
    <3>1. SumsUp(CHOOSE f : SumsUp(f, w, U), w, U)
      BY <2>4
    <3> QED BY <2>2, <2>4, <3>1, SumsUpUnique
  <2>6. Total(w, U) = g[U]
    BY <2>5 DEF Total
  <2>7. \A s \in SUBSET U : g[s] = Total(w, s)
    BY <2>6
  <2>8. g = h(U)
    BY <2>7
  <2> QED BY <2>1, <2>4, <2>8
<1> QED BY <1>1

\* What the recursion says, with the sums in place of the function.
LEMMA TotalEquation ==
  ASSUME NEW w, NEW S, IsFiniteSet(S)
  PROVE  Total(w, S) = IF S = {} THEN 0 ELSE w[Chosen(S)] + Total(w, S \ {Chosen(S)})
<1> DEFINE h == [s \in SUBSET S |-> Total(w, s)]
<1>1. SumsUp(h, w, S)
  BY SumsUpExists
<1>2. h[S] = IF S = {} THEN 0 ELSE w[Chosen(S)] + h[S \ {Chosen(S)}]
  BY <1>1 DEF SumsUp
<1> QED BY <1>2

\* Whatever sums up over a finite set computes its total.
LEMMA SumsUpTotal ==
  ASSUME NEW w, NEW S, IsFiniteSet(S), NEW f, SumsUp(f, w, S)
  PROVE  f[S] = Total(w, S)
<1>1. f = [s \in SUBSET S |-> Total(w, s)]
  BY SumsUpExists, SumsUpUnique
<1> QED BY <1>1

LEMMA TotalEmpty == ASSUME NEW w PROVE Total(w, {}) = 0
  BY TotalEquation, FS_EmptySet

\* A sum of natural numbers is one.
LEMMA TotalType ==
  ASSUME NEW w, NEW S, IsFiniteSet(S), Weighs(w, S)
  PROVE  Total(w, S) \in Nat
<1> DEFINE T == {s \in SUBSET S : Total(w, s) \notin Nat}
<1>1. T = {}
  <2> SUFFICES ASSUME T # {} PROVE FALSE
    OBVIOUS
  <2>0. T \in SUBSET (SUBSET S)
    OBVIOUS
  <2>1. PICK s \in T : \A t \in SUBSET s : t # s => t \notin T
    <3> HIDE DEF T
    <3> QED BY <2>0, SmallestSubset
  <2>2. Total(w, s) = IF s = {} THEN 0 ELSE w[Chosen(s)] + Total(w, s \ {Chosen(s)})
    BY <2>1, TotalEquation, FS_Subset
  <2>3. s # {}
    BY <2>1, <2>2
  <2>4. Chosen(s) \in s
    BY <2>3, ChosenIn
  <2>5. Total(w, s \ {Chosen(s)}) \in Nat
    BY <2>1, <2>4
  <2> QED BY <2>1, <2>2, <2>3, <2>4, <2>5 DEF Weighs
<1> QED BY <1>1

\* Any element may be taken away first: the order in which a sum is taken does not matter.
LEMMA TotalRemove ==
  ASSUME NEW w, NEW S, IsFiniteSet(S), Weighs(w, S), NEW x \in S
  PROVE  Total(w, S) = w[x] + Total(w, S \ {x})
<1> DEFINE T == {s \in SUBSET S : \E y \in s : Total(w, s) # w[y] + Total(w, s \ {y})}
<1>1. T = {}
  <2> SUFFICES ASSUME T # {} PROVE FALSE
    OBVIOUS
  <2>0. T \in SUBSET (SUBSET S)
    OBVIOUS
  <2>1. PICK s \in T : \A t \in SUBSET s : t # s => t \notin T
    <3> HIDE DEF T
    <3> QED BY <2>0, SmallestSubset
  <2>2. PICK y \in s : Total(w, s) # w[y] + Total(w, s \ {y})
    BY <2>1
  <2> DEFINE p == Chosen(s)
  <2>3. p \in s /\ s \in SUBSET S
    BY <2>1, <2>2, ChosenIn
  <2>4. Total(w, s) = w[p] + Total(w, s \ {p})
    BY <2>3, TotalEquation, FS_Subset
  <2>5. p # y
    BY <2>2, <2>4
  <2> HIDE DEF p
  <2>6. Total(w, s \ {p}) = w[y] + Total(w, (s \ {p}) \ {y})
    <3>1. s \ {p} \in SUBSET s /\ s \ {p} # s /\ y \in s \ {p} /\ s \ {p} \in SUBSET S
      BY <2>3, <2>5
    <3> QED BY <2>1, <3>1
  <2>7. Total(w, s \ {y}) = w[p] + Total(w, (s \ {y}) \ {p})
    <3>1. s \ {y} \in SUBSET s /\ s \ {y} # s /\ p \in s \ {y} /\ s \ {y} \in SUBSET S
      BY <2>3, <2>5
    <3> QED BY <2>1, <3>1
  <2>8. (s \ {p}) \ {y} = (s \ {y}) \ {p}
    OBVIOUS
  <2>9. Total(w, (s \ {p}) \ {y}) \in Nat
    <3>1. IsFiniteSet((s \ {p}) \ {y}) /\ Weighs(w, (s \ {p}) \ {y})
      BY <2>3, FS_Subset DEF Weighs
    <3> QED BY <3>1, TotalType
  <2>10. w[p] \in Nat /\ w[y] \in Nat
    BY <2>3 DEF Weighs
  <2> QED BY <2>2, <2>4, <2>6, <2>7, <2>8, <2>9, <2>10
<1> QED BY <1>1

\* An element more adds its weight.
LEMMA TotalAdd ==
  ASSUME NEW w, NEW S, IsFiniteSet(S), NEW x, x \notin S, Weighs(w, S \cup {x})
  PROVE  Total(w, S \cup {x}) = w[x] + Total(w, S)
<1>1. IsFiniteSet(S \cup {x}) /\ (S \cup {x}) \ {x} = S
  BY FS_AddElement
<1> QED BY <1>1, TotalRemove

\* A sum depends on the weights of its elements only.
LEMMA TotalSame ==
  ASSUME NEW v, NEW w, NEW S, IsFiniteSet(S), \A x \in S : v[x] = w[x]
  PROVE  Total(v, S) = Total(w, S)
<1> DEFINE T == {s \in SUBSET S : Total(v, s) # Total(w, s)}
<1>1. T = {}
  <2> SUFFICES ASSUME T # {} PROVE FALSE
    OBVIOUS
  <2>0. T \in SUBSET (SUBSET S)
    OBVIOUS
  <2>1. PICK s \in T : \A t \in SUBSET s : t # s => t \notin T
    <3> HIDE DEF T
    <3> QED BY <2>0, SmallestSubset
  <2>2. /\ Total(v, s) = IF s = {} THEN 0 ELSE v[Chosen(s)] + Total(v, s \ {Chosen(s)})
        /\ Total(w, s) = IF s = {} THEN 0 ELSE w[Chosen(s)] + Total(w, s \ {Chosen(s)})
    BY <2>1, TotalEquation, FS_Subset
  <2>3. s # {}
    BY <2>1, <2>2
  <2>4. Chosen(s) \in s
    BY <2>3, ChosenIn
  <2>5. Total(v, s \ {Chosen(s)}) = Total(w, s \ {Chosen(s)})
    BY <2>1, <2>4
  <2> QED BY <2>1, <2>2, <2>3, <2>4, <2>5
<1> QED BY <1>1

\* A sum is that of a part and that of the rest.
LEMMA TotalSplit ==
  ASSUME NEW w, NEW S, IsFiniteSet(S), Weighs(w, S), NEW U \in SUBSET S
  PROVE  Total(w, S) = Total(w, U) + Total(w, S \ U)
<1> DEFINE T == {s \in SUBSET U : Total(w, S) # Total(w, s) + Total(w, S \ s)}
<1>1. T = {}
  <2> SUFFICES ASSUME T # {} PROVE FALSE
    OBVIOUS
  <2>0. T \in SUBSET (SUBSET U) /\ IsFiniteSet(U)
    BY FS_Subset
  <2>1. PICK s \in T : \A t \in SUBSET s : t # s => t \notin T
    <3> HIDE DEF T
    <3> QED BY <2>0, SmallestSubset
  <2>2. \A t \in SUBSET S : IsFiniteSet(t) /\ Weighs(w, t) /\ Total(w, t) \in Nat
    BY FS_Subset, TotalType DEF Weighs
  <2>3. s # {}
    <3>1. Total(w, {}) = 0 /\ S \ {} = S /\ Total(w, S) \in Nat
      BY <2>2, TotalEmpty
    <3>2. Total(w, S) = Total(w, {}) + Total(w, S \ {})
      BY <3>1
    <3> QED BY <2>1, <3>2
  <2>4. PICK x \in s : TRUE
    BY <2>3
  <2>5. Total(w, s) = w[x] + Total(w, s \ {x})
    BY <2>1, <2>2, TotalRemove
  <2>6. Total(w, S \ (s \ {x})) = w[x] + Total(w, S \ s)
    <3>1. S \ (s \ {x}) \in SUBSET S /\ x \in S \ (s \ {x}) /\ (S \ (s \ {x})) \ {x} = S \ s
      BY <2>1
    <3> QED BY <2>2, <3>1, TotalRemove
  <2>7. Total(w, S) = Total(w, s \ {x}) + Total(w, S \ (s \ {x}))
    BY <2>1, <2>4
  <2>8. w[x] \in Nat /\ Total(w, s \ {x}) \in Nat /\ Total(w, S \ s) \in Nat
    <3>1. x \in S /\ s \ {x} \in SUBSET S /\ S \ s \in SUBSET S
      BY <2>1
    <3>2. w[x] \in Nat
      BY <3>1 DEF Weighs
    <3> QED BY <2>2, <3>1, <3>2
  <2>9. Total(w, S) # Total(w, s) + Total(w, S \ s)
    BY <2>1
  <2> HIDE DEF T
  <2> QED BY <2>5, <2>6, <2>7, <2>8, <2>9
<1>2. U \in SUBSET U
  OBVIOUS
<1> QED BY <1>1, <1>2

-----------------------------------------------------------------------------
\* The sum of the values of a function is the total of its weights.
LEMMA FoldedSum ==
  ASSUME NEW w
  PROVE  FoldFunction(+, 0, w) = Total(w, DOMAIN w)
  BY DEF FoldFunction, FoldFunctionOnSet, MapThenFoldSet, Total, SumsUp, Chosen

\* One more element at the end of a list of weights.
LEMMA TotalAppend ==
  ASSUME NEW n \in Nat, NEW v, NEW w, Weighs(w, 1 .. (n + 1)), \A i \in 1 .. n : w[i] = v[i]
  PROVE  /\ Total(w, 1 .. (n + 1)) = Total(v, 1 .. n) + w[n + 1]
         /\ Total(v, 1 .. n) \in Nat
<1>1. /\ IsFiniteSet(1 .. n)
      /\ 1 .. (n + 1) = (1 .. n) \cup {n + 1}
      /\ n + 1 \notin 1 .. n
  <2>1. IsFiniteSet(1 .. n)
    BY FS_Interval
  <2>2. 1 .. (n + 1) = (1 .. n) \cup {n + 1} /\ n + 1 \notin 1 .. n
    OBVIOUS
  <2> QED BY <2>1, <2>2
<1>2. Total(w, 1 .. (n + 1)) = w[n + 1] + Total(w, 1 .. n)
  BY <1>1, TotalAdd
<1>3. Total(w, 1 .. n) = Total(v, 1 .. n)
  BY <1>1, TotalSame
<1>4. Total(w, 1 .. n) \in Nat
  <2>1. Weighs(w, 1 .. n)
    BY <1>1 DEF Weighs
  <2> QED BY <1>1, <2>1, TotalType
<1>5. w[n + 1] \in Nat
  BY <1>1 DEF Weighs
<1> QED BY <1>2, <1>3, <1>4, <1>5

-----------------------------------------------------------------------------
(***************************************************************************)
(* Lists.                                                                  *)
(***************************************************************************)

\* f puts the first n parts one after the other.
Joins(f, parts, n) ==
  f = [i \in 1 .. n |-> IF i = 1 THEN parts[i] ELSE f[i - 1] \o parts[i]]

\* What the first n parts hold.
Held(parts, n) == UNION {ToSet(parts[i]) : i \in 1 .. n}

\* No element is in a list twice.
Distinct(s) == \A i, j \in 1 .. Len(s) : s[i] = s[j] => i = j

\* Two lists one after the other.
LEMMA JoinedHolds ==
  ASSUME NEW S, NEW s \in Seq(S), NEW t \in Seq(S)
  PROVE  /\ s \o t \in Seq(S)
         /\ ToSet(s \o t) = ToSet(s) \cup ToSet(t)
         /\ Distinct(s) /\ Distinct(t) /\ ToSet(s) \cap ToSet(t) = {} => Distinct(s \o t)
<1> DEFINE m == Len(s)
           n == Len(t)
           u == s \o t
<1>1. /\ m \in Nat /\ n \in Nat /\ u \in Seq(S) /\ Len(u) = m + n
      /\ DOMAIN s = 1 .. m /\ DOMAIN t = 1 .. n /\ DOMAIN u = 1 .. (m + n)
  BY ConcatProperties, LenProperties
<1>2. \A i \in 1 .. (m + n) : u[i] = IF i <= m THEN s[i] ELSE t[i - m]
  BY ConcatProperties
<1> HIDE DEF m, n, u
<1>3. /\ \A i \in 1 .. m : i \in 1 .. (m + n) /\ u[i] = s[i]
      /\ \A i \in 1 .. n : m + i \in 1 .. (m + n) /\ u[m + i] = t[i]
  BY <1>1, <1>2
<1>4. \A i \in 1 .. (m + n) : i \in 1 .. m \/ i - m \in 1 .. n
  BY <1>1
<1>5. ToSet(u) = ToSet(s) \cup ToSet(t)
  <2>1. /\ ToSet(s) = {s[i] : i \in 1 .. m} /\ ToSet(t) = {t[i] : i \in 1 .. n}
        /\ ToSet(u) = {u[i] : i \in 1 .. (m + n)}
    BY <1>1 DEF ToSet
  <2>2. ASSUME NEW i \in 1 .. (m + n)
        PROVE  u[i] \in ToSet(s) \cup ToSet(t)
    <3>1. CASE i <= m
      BY <1>1, <1>2, <2>1, <3>1
    <3>2. CASE ~ (i <= m)
      <4>1. i - m \in 1 .. n /\ u[i] = t[i - m]
        BY <1>1, <1>2, <3>2
      <4> QED BY <2>1, <4>1
    <3> QED BY <3>1, <3>2
  <2>3. \A i \in 1 .. m : s[i] \in ToSet(u)
    BY <1>3, <2>1
  <2>4. ASSUME NEW i \in 1 .. n PROVE t[i] \in ToSet(u)
    <3>1. m + i \in 1 .. (m + n) /\ u[m + i] = t[i]
      BY <1>3
    <3> QED BY <2>1, <3>1
  <2> QED BY <2>1, <2>2, <2>3, <2>4
<1>6. ASSUME Distinct(s), Distinct(t), ToSet(s) \cap ToSet(t) = {},
             NEW i \in 1 .. (m + n), NEW j \in 1 .. (m + n), u[i] = u[j]
      PROVE  i = j
  <2>1. \A a \in 1 .. m, b \in 1 .. n : s[a] # t[b]
    BY <1>1, <1>6 DEF ToSet
  <2>2. /\ \A a, b \in 1 .. m : s[a] = s[b] => a = b
        /\ \A a, b \in 1 .. n : t[a] = t[b] => a = b
    BY <1>6 DEF Distinct, m, n
  <2>3. CASE i <= m /\ j <= m
    BY <1>1, <1>2, <1>6, <2>2, <2>3
  <2>4. CASE i <= m /\ ~ (j <= m)
    BY <1>1, <1>2, <1>6, <2>1, <2>4
  <2>5. CASE ~ (i <= m) /\ j <= m
    BY <1>1, <1>2, <1>6, <2>1, <2>5
  <2>6. CASE ~ (i <= m) /\ ~ (j <= m)
    BY <1>1, <1>2, <1>6, <2>2, <2>6
  <2> QED BY <2>3, <2>4, <2>5, <2>6
<1> QED BY <1>1, <1>5, <1>6 DEF Distinct, u

\* Of a set of numbers, one is the smallest.
LEMMA SmallestNumber ==
  ASSUME NEW T \in SUBSET Nat, T # {}
  PROVE  \E n \in T : \A m \in T : n <= m
<1>1. PICK n \in T : \A m \in T : ~ (<<m, n>> \in OpToRel(<, Nat))
  BY NatLessThanWellFounded, WFMin
<1>2. ASSUME NEW m \in T PROVE n <= m
  <2>1. m \in Nat /\ n \in Nat
    OBVIOUS
  <2>2. ~ (m < n)
    BY <1>1, <2>1 DEF OpToRel
  <2> QED BY <2>1, <2>2
<1> QED BY <1>2

\* The function FlattenSeq is defined with exists.
LEMMA JoinsExists ==
  ASSUME NEW parts, NEW k \in Nat
  PROVE  \E f : Joins(f, parts, k)
<1> DEFINE T == {n \in Nat : ~ \E f : Joins(f, parts, n)}
<1>1. T = {}
  <2> SUFFICES ASSUME T # {} PROVE FALSE
    OBVIOUS
  <2>0. T \in SUBSET Nat
    OBVIOUS
  <2>1. PICK n \in T : \A m \in T : n <= m
    <3> HIDE DEF T
    <3> QED BY <2>0, SmallestNumber
  <2>2. n # 0
    <3> SUFFICES ASSUME n = 0 PROVE \E f : Joins(f, parts, n)
      BY <2>1
    <3> DEFINE e == [i \in 1 .. n |-> parts[i]]
    <3>1. 1 .. n = {}
      OBVIOUS
    <3>2. e = [i \in 1 .. n |-> IF i = 1 THEN parts[i] ELSE e[i - 1] \o parts[i]]
      BY <3>1
    <3> QED BY <3>2 DEF Joins
  <2>3. n - 1 \in Nat /\ n - 1 \notin T
    BY <2>1, <2>2
  <2>4. PICK f : Joins(f, parts, n - 1)
    BY <2>3
  <2> DEFINE g == [i \in 1 .. n |-> IF i = 1 THEN parts[i] ELSE f[i - 1] \o parts[i]]
  <2>5. \A i \in 1 .. (n - 1) : g[i] = f[i]
    <3> SUFFICES ASSUME NEW i \in 1 .. (n - 1) PROVE g[i] = f[i]
      OBVIOUS
    <3>1. i \in 1 .. n
      BY <2>3
    <3>2. f[i] = IF i = 1 THEN parts[i] ELSE f[i - 1] \o parts[i]
      BY <2>4 DEF Joins
    <3> QED BY <3>1, <3>2
  <2>6. ASSUME NEW i \in 1 .. n
        PROVE  g[i] = IF i = 1 THEN parts[i] ELSE g[i - 1] \o parts[i]
    <3>1. i # 1 => i - 1 \in 1 .. (n - 1)
      BY <2>3
    <3>2. i # 1 => g[i - 1] = f[i - 1]
      BY <2>5, <3>1
    <3>3. g[i] = IF i = 1 THEN parts[i] ELSE f[i - 1] \o parts[i]
      OBVIOUS
    <3> QED BY <3>2, <3>3, Zenon
  <2>7. Joins(g, parts, n)
    BY <2>6 DEF Joins
  <2> QED BY <2>1, <2>7
<1> QED BY <1>1

\* There is only one such function.
LEMMA JoinsUnique ==
  ASSUME NEW parts, NEW k \in Nat, NEW f, NEW g, Joins(f, parts, k), Joins(g, parts, k)
  PROVE  f = g
<1> DEFINE T == {n \in 1 .. k : f[n] # g[n]}
<1>1. T = {}
  <2> SUFFICES ASSUME T # {} PROVE FALSE
    OBVIOUS
  <2>0. T \in SUBSET Nat
    OBVIOUS
  <2>1. PICK n \in T : \A m \in T : n <= m
    <3> HIDE DEF T
    <3> QED BY <2>0, SmallestNumber
  <2>2. /\ f[n] = IF n = 1 THEN parts[n] ELSE f[n - 1] \o parts[n]
        /\ g[n] = IF n = 1 THEN parts[n] ELSE g[n - 1] \o parts[n]
    BY <2>1 DEF Joins
  <2>3. n # 1 => n - 1 \in 1 .. k /\ n - 1 \notin T
    BY <2>1
  <2>4. n # 1 => f[n - 1] = g[n - 1]
    BY <2>3
  <2> QED BY <2>1, <2>2, <2>4
<1>2. f = [n \in 1 .. k |-> f[n]] /\ g = [n \in 1 .. k |-> g[n]]
  BY DEF Joins
<1> QED BY <1>1, <1>2

\* Lists one after the other hold what each of them holds.
LEMMA JoinsHolds ==
  ASSUME NEW S, NEW parts, NEW k \in Nat, \A i \in 1 .. k : parts[i] \in Seq(S),
         NEW f, Joins(f, parts, k), NEW i \in 1 .. k
  PROVE  f[i] \in Seq(S) /\ ToSet(f[i]) = Held(parts, i)
<1> DEFINE Fine(n) == f[n] \in Seq(S) /\ ToSet(f[n]) = Held(parts, n)
           T == {n \in 1 .. k : ~ Fine(n)}
<1>1. T = {}
  <2> SUFFICES ASSUME T # {} PROVE FALSE
    OBVIOUS
  <2>0. T \in SUBSET Nat
    OBVIOUS
  <2>1. PICK n \in T : \A m \in T : n <= m
    <3> HIDE DEF T
    <3> QED BY <2>0, SmallestNumber
  <2>2. n \in 1 .. k /\ f[n] = IF n = 1 THEN parts[n] ELSE f[n - 1] \o parts[n]
    BY <2>1 DEF Joins
  <2>3. CASE n = 1
    <3>1. 1 .. n = {n}
      BY <2>3
    <3>2. Held(parts, n) = ToSet(parts[n])
      BY <3>1 DEF Held
    <3> QED BY <2>1, <2>2, <2>3, <3>2
  <2>4. CASE n # 1
    <3>1. n - 1 \in 1 .. k /\ n - 1 \notin T
      BY <2>1, <2>2, <2>4
    <3>2. Fine(n - 1)
      BY <3>1
    <3>3. f[n - 1] \in Seq(S) /\ parts[n] \in Seq(S) /\ f[n] = f[n - 1] \o parts[n]
      BY <2>2, <2>4, <3>2
    <3>4. f[n] \in Seq(S) /\ ToSet(f[n]) = ToSet(f[n - 1]) \cup ToSet(parts[n])
      BY <3>3, JoinedHolds
    <3>5. 1 .. n = (1 .. (n - 1)) \cup {n}
      BY <2>2
    <3>6. Held(parts, n) = Held(parts, n - 1) \cup ToSet(parts[n])
      BY <3>5 DEF Held
    <3> QED BY <2>1, <3>2, <3>4, <3>6
  <2> QED BY <2>3, <2>4
<1> QED BY <1>1

\* Lists that share nothing, and have nothing twice, do not have it twice when they are joined.
LEMMA JoinsDistinct ==
  ASSUME NEW S, NEW parts, NEW k \in Nat,
         \A i \in 1 .. k : parts[i] \in Seq(S) /\ Distinct(parts[i]),
         \A i, j \in 1 .. k : i # j => ToSet(parts[i]) \cap ToSet(parts[j]) = {},
         NEW f, Joins(f, parts, k), NEW i \in 1 .. k
  PROVE  Distinct(f[i])
<1> DEFINE T == {n \in 1 .. k : ~ Distinct(f[n])}
<1>1. T = {}
  <2> SUFFICES ASSUME T # {} PROVE FALSE
    OBVIOUS
  <2>0. T \in SUBSET Nat
    OBVIOUS
  <2>1. PICK n \in T : \A m \in T : n <= m
    <3> HIDE DEF T
    <3> QED BY <2>0, SmallestNumber
  <2>2. n \in 1 .. k /\ f[n] = IF n = 1 THEN parts[n] ELSE f[n - 1] \o parts[n]
    BY <2>1 DEF Joins
  <2>3. n # 1
    BY <2>1, <2>2
  <2>4. n - 1 \in 1 .. k /\ n - 1 \notin T
    BY <2>1, <2>2, <2>3
  <2>5. Distinct(f[n - 1]) /\ Distinct(parts[n]) /\ parts[n] \in Seq(S)
    BY <2>2, <2>4
  <2>6. f[n - 1] \in Seq(S) /\ ToSet(f[n - 1]) = Held(parts, n - 1)
    BY <2>4, JoinsHolds
  <2>7. Held(parts, n - 1) \cap ToSet(parts[n]) = {}
    <3>1. \A j \in 1 .. (n - 1) : j \in 1 .. k /\ j # n
      BY <2>2
    <3> QED BY <2>2, <3>1 DEF Held
  <2>8. Distinct(f[n - 1] \o parts[n])
    BY <2>5, <2>6, <2>7, JoinedHolds
  <2> QED BY <2>1, <2>2, <2>3, <2>8
<1> QED BY <1>1

\* FlattenSeq loses nothing, adds nothing and repeats nothing.
LEMMA Flattened ==
  ASSUME NEW S, NEW parts \in Seq(Seq(S))
  PROVE  /\ FlattenSeq(parts) \in Seq(S)
         /\ ToSet(FlattenSeq(parts)) = Held(parts, Len(parts))
         /\ (/\ \A i \in 1 .. Len(parts) : Distinct(parts[i])
             /\ \A i, j \in 1 .. Len(parts) :
                  i # j => ToSet(parts[i]) \cap ToSet(parts[j]) = {})
            => Distinct(FlattenSeq(parts))
<1> DEFINE k == Len(parts)
<1>1. k \in Nat /\ \A i \in 1 .. k : parts[i] \in Seq(S)
  BY LenProperties, ElementOfSeq
<1>2. CASE k = 0
  <2>1. parts = <<>> /\ FlattenSeq(parts) = <<>>
    BY <1>2, EmptySeq DEF FlattenSeq
  <2>2. ToSet(<<>>) = {} /\ Distinct(<<>>) /\ Held(parts, k) = {}
    BY <1>2 DEF ToSet, Distinct, Held
  <2> QED BY <2>1, <2>2, EmptySeq
<1>3. CASE k # 0
  <2> DEFINE f == CHOOSE f : Joins(f, parts, k)
  <2>1. Joins(f, parts, k)
    BY <1>1, JoinsExists
  <2>2. FlattenSeq(parts) = f[k]
    BY <1>3 DEF FlattenSeq, Joins
  <2>3. k \in 1 .. k
    BY <1>1, <1>3
  <2> HIDE DEF f, k
  <2>4. f[k] \in Seq(S) /\ ToSet(f[k]) = Held(parts, k)
    BY <1>1, <2>1, <2>3, JoinsHolds
  <2>5. (/\ \A i \in 1 .. k : Distinct(parts[i])
         /\ \A i, j \in 1 .. k : i # j => ToSet(parts[i]) \cap ToSet(parts[j]) = {})
        => Distinct(f[k])
    BY <1>1, <2>1, <2>3, JoinsDistinct
  <2> QED BY <2>2, <2>4, <2>5 DEF k
<1> QED BY <1>2, <1>3

\* The lists that are joined stand one after the other in what they are joined to: pos[k] is where
\* the part number k ends.
LEMMA FlattenedPlaces ==
  ASSUME NEW S, NEW parts \in Seq(Seq(S))
  PROVE  \E pos \in [0 .. Len(parts) -> Nat] :
           /\ pos[0] = 0
           /\ pos[Len(parts)] = Len(FlattenSeq(parts))
           /\ \A k \in 1 .. Len(parts) :
                /\ pos[k] = pos[k - 1] + Len(parts[k])
                /\ \A m \in 1 .. Len(parts[k]) : FlattenSeq(parts)[pos[k - 1] + m] = parts[k][m]
<1> DEFINE n == Len(parts)
<1>1. n \in Nat /\ \A k \in 1 .. n : parts[k] \in Seq(S) /\ Len(parts[k]) \in Nat
  BY LenProperties, ElementOfSeq
<1>2. PICK f : Joins(f, parts, n)
  BY <1>1, JoinsExists
<1> DEFINE pos == [k \in 0 .. n |-> IF k = 0 THEN 0 ELSE Len(f[k])]
<1>3. \A k \in 1 .. n : f[k] \in Seq(S) /\ Len(f[k]) \in Nat
  BY <1>1, <1>2, JoinsHolds, LenProperties
<1>4. pos \in [0 .. n -> Nat] /\ pos[0] = 0
  BY <1>1, <1>3
<1>5. FlattenSeq(parts) = IF n = 0 THEN parts ELSE f[n]
  <2>1. CASE n = 0
    BY <2>1 DEF FlattenSeq
  <2>2. CASE n # 0
    <3> DEFINE g == CHOOSE g : Joins(g, parts, n)
    <3>1. Joins(g, parts, n)
      BY <1>2
    <3>2. g = f
      BY <1>1, <1>2, <3>1, JoinsUnique
    <3>3. FlattenSeq(parts) = g[n]
      BY <2>2 DEF FlattenSeq, Joins
    <3> HIDE DEF g
    <3> QED BY <2>2, <3>2, <3>3
  <2> QED BY <2>1, <2>2
<1>6. pos[n] = Len(FlattenSeq(parts))
  BY <1>1, <1>5
<1>7. ASSUME NEW k \in 1 .. n
      PROVE  /\ pos[k] = pos[k - 1] + Len(parts[k])
             /\ \A m \in 1 .. Len(parts[k]) : f[k][pos[k - 1] + m] = parts[k][m]
             /\ k # 1 => \A m \in 1 .. pos[k - 1] : f[k][m] = f[k - 1][m]
  <2>1. f[k] = IF k = 1 THEN parts[k] ELSE f[k - 1] \o parts[k]
    BY <1>2 DEF Joins
  <2>2. CASE k = 1
    BY <1>1, <2>1, <2>2
  <2>3. CASE k # 1
    <3>1. k - 1 \in 1 .. n /\ pos[k] = Len(f[k]) /\ pos[k - 1] = Len(f[k - 1])
      BY <1>1, <2>3
    <3>2. f[k - 1] \in Seq(S) /\ parts[k] \in Seq(S) /\ f[k] = f[k - 1] \o parts[k]
      BY <1>1, <1>3, <2>1, <2>3, <3>1
    <3> DEFINE a == f[k - 1]
               b == parts[k]
    <3>3. a \in Seq(S) /\ b \in Seq(S) /\ f[k] = a \o b /\ Len(a) \in Nat /\ Len(b) \in Nat
      BY <3>2, LenProperties
    <3>4. pos[k] = Len(f[k]) /\ pos[k - 1] = Len(a)
      BY <3>1
    <3> HIDE DEF a, b, pos
    <3>5. /\ Len(a \o b) = Len(a) + Len(b)
          /\ \A m \in 1 .. Len(a) + Len(b) : (a \o b)[m] = IF m <= Len(a) THEN a[m] ELSE b[m - Len(a)]
      BY <3>3, ConcatProperties
    <3>6. pos[k] = pos[k - 1] + Len(b)
      BY <3>3, <3>4, <3>5
    <3>7. ASSUME NEW m \in 1 .. Len(b) PROVE f[k][pos[k - 1] + m] = b[m]
      <4>1. Len(a) + m \in 1 .. Len(a) + Len(b) /\ ~ (Len(a) + m <= Len(a)) /\ (Len(a) + m) - Len(a) = m
        BY <3>3
      <4> QED BY <3>3, <3>4, <3>5, <4>1
    <3>8. ASSUME NEW m \in 1 .. pos[k - 1] PROVE f[k][m] = a[m]
      <4>1. m \in 1 .. Len(a) + Len(b) /\ m <= Len(a)
        BY <3>3, <3>4
      <4> QED BY <3>3, <3>5, <4>1
    <3> QED BY <3>6, <3>7, <3>8 DEF a, b
  <2> QED BY <2>2, <2>3
<1> HIDE DEF pos
<1>8. ASSUME NEW k \in 1 .. n, NEW l \in k .. n, NEW m \in 1 .. pos[k]
      PROVE  f[l][m] = f[k][m]
  <2> DEFINE T == {j \in k .. n : ~ (pos[k] <= pos[j] /\ f[j][m] = f[k][m])}
  <2>1. T = {}
    <3> SUFFICES ASSUME T # {} PROVE FALSE
      OBVIOUS
    <3>0. T \in SUBSET Nat
      OBVIOUS
    <3>1. PICK j \in T : \A i \in T : j <= i
      <4> HIDE DEF T
      <4> QED BY <3>0, SmallestNumber
    <3>2. pos[k] \in Nat /\ j \in k .. n /\ j # k
      BY <1>4, <3>1
    <3>3. j - 1 \in k .. n /\ j - 1 \notin T /\ j \in 1 .. n /\ j # 1
      BY <1>1, <3>1, <3>2
    <3>4. pos[k] <= pos[j - 1] /\ f[j - 1][m] = f[k][m]
      BY <3>3
    <3>5. pos[j] = pos[j - 1] + Len(parts[j]) /\ pos[j - 1] \in Nat /\ Len(parts[j]) \in Nat
      <4>1. j - 1 \in 0 .. n
        BY <1>1, <3>3
      <4> QED BY <1>1, <1>4, <1>7, <3>3, <4>1
    <3>6. m \in 1 .. pos[j - 1]
      BY <3>2, <3>4, <3>5
    <3>7. f[j][m] = f[j - 1][m]
      BY <1>7, <3>3, <3>6
    <3>8. pos[k] <= pos[j]
      BY <3>2, <3>4, <3>5
    <3> QED BY <3>1, <3>4, <3>7, <3>8
  <2> QED BY <2>1
<1>9. ASSUME NEW k \in 1 .. n, NEW m \in 1 .. Len(parts[k])
      PROVE  FlattenSeq(parts)[pos[k - 1] + m] = parts[k][m]
  <2>1. pos[k - 1] \in Nat /\ Len(parts[k]) \in Nat /\ pos[k] = pos[k - 1] + Len(parts[k])
    BY <1>1, <1>4, <1>7
  <2>2. pos[k - 1] + m \in 1 .. pos[k] /\ n \in k .. n
    BY <1>1, <2>1
  <2>3. f[n][pos[k - 1] + m] = f[k][pos[k - 1] + m]
    BY <1>8, <2>2
  <2>4. f[k][pos[k - 1] + m] = parts[k][m]
    BY <1>7
  <2> QED BY <1>1, <1>5, <2>3, <2>4
<1> QED BY <1>4, <1>6, <1>7, <1>9

\* A finite set made into a list.
LEMMA AsList ==
  ASSUME NEW E, IsFiniteSet(E)
  PROVE  /\ SetToSeq(E) \in Seq(E)
         /\ ToSet(SetToSeq(E)) = E
         /\ Distinct(SetToSeq(E))
<1> DEFINE n == Cardinality(E)
           f == SetToSeq(E)
<1>1. n \in Nat /\ ExistsBijection(1 .. n, E)
  BY FS_CardinalityType
<1>2. \E g \in [1 .. n -> E] : IsInjective(g)
  BY <1>1 DEF ExistsBijection, Bijection, Injection
<1>3. f \in [1 .. n -> E] /\ IsInjective(f)
  BY <1>2 DEF SetToSeq
<1> HIDE DEF f
<1>4. f \in Injection(1 .. n, E)
  BY <1>3 DEF Injection
<1>5. IsFiniteSet(1 .. n) /\ Cardinality(1 .. n) = n
  BY <1>1, FS_Interval
<1>6. f \in Surjection(1 .. n, E)
  BY <1>4, <1>5, FS_Injection
<1>7. DOMAIN f = 1 .. n /\ f \in Seq(E) /\ Len(f) = n
  BY <1>1, <1>3, SeqDef
<1>8. ToSet(f) = E
  BY <1>3, <1>6, <1>7 DEF Surjection, ToSet
<1>9. Distinct(f)
  BY <1>3, <1>7 DEF IsInjective, Distinct
<1> QED BY <1>7, <1>8, <1>9 DEF f

\* The elements at some places of a list without repetitions are as many as the places.
LEMMA PlacesCount ==
  ASSUME NEW S, NEW s \in Seq(S), Distinct(s), NEW P \in SUBSET (1 .. Len(s))
  PROVE  /\ IsFiniteSet(P)
         /\ Cardinality({s[i] : i \in P}) = Cardinality(P)
<1> DEFINE E == {s[i] : i \in P}
           f == [i \in P |-> s[i]]
<1>1. IsFiniteSet(P)
  <2>1. Len(s) \in Nat
    BY LenProperties
  <2>2. IsFiniteSet(1 .. Len(s))
    BY <2>1, FS_Interval
  <2> QED BY <2>2, FS_Subset
<1>2. \A i, j \in P : s[i] = s[j] => i = j
  BY DEF Distinct
<1>3. f \in [P -> E] /\ IsInjective(f) /\ \A e \in E : \E i \in P : f[i] = e
  BY <1>2 DEF IsInjective
<1>4. f \in Bijection(P, E)
  BY <1>3 DEF Bijection, Injection, Surjection
<1>5. ExistsBijection(P, E)
  BY <1>4 DEF ExistsBijection
<1> HIDE DEF E
<1>6. Cardinality(E) = Cardinality(P)
  BY <1>1, <1>5, FS_Bijection
<1> QED BY <1>1, <1>6 DEF E

=============================================================================
