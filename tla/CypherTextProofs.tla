-------------------------- MODULE CypherTextProofs --------------------------
(***************************************************************************)
(* Proofs about the texts of the workspace, for texts of any length: what  *)
(* quoteCypherString writes is one literal and means what was quoted,      *)
(* inlineParameters leaves of a query what runs, but for the value, and    *)
(* formatCypher leaves all of it.                                          *)
(*                                                                         *)
(* The scanners are recursive functions that look ahead.  That such a      *)
(* function exists is shown from the end of the text backwards; what it    *)
(* computes then follows along the symbols a character is written with,    *)
(* and from token to token.  The key to the last two theorems is that a    *)
(* token is one wherever its symbols stand, if what follows does not       *)
(* belong to it (TokenMoves): no two scanners are compared, each is        *)
(* followed along the tokens of the text.                                  *)
(***************************************************************************)
EXTENDS CypherText, FoldProofs

\* f is defined from l back to b: from j it goes on at next[j], and if it joins, what it finds there
\* comes after put[j]; where next[j] is 0 it stops with last[j].
LooksAhead(f, next, joins, put, last, b, l) ==
  f = [j \in b .. l |-> IF next[j] = 0 THEN last[j]
                        ELSE IF joins THEN put[j] \o f[next[j]] ELSE f[next[j]]]

\* Such a function exists, as each place goes on at a later one.
LEMMA LooksAheadExists ==
  ASSUME NEW b \in Nat, NEW l \in Nat, NEW joins \in BOOLEAN, NEW put, NEW last,
         NEW next, \A j \in b .. l : next[j] = 0 \/ next[j] \in (j + 1) .. l
  PROVE  \E f : LooksAhead(f, next, joins, put, last, b, l)
<1> DEFINE Ahead(f, j) == IF joins THEN put[j] \o f[next[j]] ELSE f[next[j]]
           T == {n \in Nat : n <= l + 1 - b /\ ~ \E f : LooksAhead(f, next, joins, put, last, l + 1 - n, l)}
<1>1. T = {}
  <2> SUFFICES ASSUME T # {} PROVE FALSE
    OBVIOUS
  <2>0. T \in SUBSET Nat
    OBVIOUS
  <2>1. PICK n \in T : \A m \in T : n <= m
    <3> HIDE DEF T
    <3> QED BY <2>0, SmallestNumber
  <2> DEFINE a == l + 1 - n
  <2>2. n \in Nat /\ a \in Int /\ b <= a
    BY <2>1
  <2>3. n # 0
    <3> SUFFICES ASSUME n = 0 PROVE \E f : LooksAhead(f, next, joins, put, last, a, l)
      BY <2>1
    <3> DEFINE e == [j \in a .. l |-> last[j]]
    <3>1. a .. l = {}
      OBVIOUS
    <3>2. e = [j \in a .. l |-> IF next[j] = 0 THEN last[j] ELSE Ahead(e, j)]
      BY <3>1
    <3> QED BY <3>2 DEF LooksAhead
  <2>4. n - 1 \in Nat /\ n - 1 \notin T /\ n - 1 <= l + 1 - b /\ l + 1 - (n - 1) = a + 1
    <3>1. n \in Nat /\ n <= l + 1 - b
      BY <2>1
    <3>2. n - 1 \in Nat /\ ~ (n <= n - 1) /\ n - 1 <= l + 1 - b /\ l + 1 - (n - 1) = a + 1
      BY <2>3, <3>1
    <3> HIDE DEF T
    <3> QED BY <2>1, <3>2
  <2>5. PICK f : LooksAhead(f, next, joins, put, last, a + 1, l)
    BY <2>4
  <2>6. a \in b .. l
    BY <2>2, <2>3
  <2> HIDE DEF a
  <2> DEFINE g == [j \in a .. l |-> IF next[j] = 0 THEN last[j] ELSE Ahead(f, j)]
  <2>7. \A j \in (a + 1) .. l : g[j] = f[j]
    <3> SUFFICES ASSUME NEW j \in (a + 1) .. l PROVE g[j] = f[j]
      OBVIOUS
    <3>1. j \in a .. l
      BY <2>2
    <3>2. f[j] = IF next[j] = 0 THEN last[j] ELSE Ahead(f, j)
      BY <2>5 DEF LooksAhead
    <3> QED BY <3>1, <3>2
  <2>8. ASSUME NEW j \in a .. l
        PROVE  g[j] = IF next[j] = 0 THEN last[j] ELSE Ahead(g, j)
    <3>1. j \in b .. l
      BY <2>2
    <3>2. next[j] # 0 => next[j] \in (a + 1) .. l
      BY <2>2, <3>1
    <3>3. next[j] # 0 => g[next[j]] = f[next[j]]
      BY <2>7, <3>2
    <3>4. g[j] = IF next[j] = 0 THEN last[j] ELSE Ahead(f, j)
      OBVIOUS
    <3> QED BY <3>3, <3>4, Zenon DEF Ahead
  <2>9. LooksAhead(g, next, joins, put, last, a, l)
    BY <2>8 DEF LooksAhead
  <2> QED BY <2>1, <2>9 DEF a
<1>2. CASE b <= l + 1
  <2> DEFINE n == l + 1 - b
  <2>1. n \in Nat /\ n <= l + 1 - b /\ l + 1 - n = b
    BY <1>2
  <2> HIDE DEF n
  <2>2. \E f : LooksAhead(f, next, joins, put, last, l + 1 - n, l)
    BY <1>1, <2>1
  <2> QED BY <2>1, <2>2
<1>3. CASE ~ (b <= l + 1)
  <2> DEFINE e == [j \in b .. l |-> last[j]]
  <2>1. b .. l = {}
    BY <1>3
  <2>2. e = [j \in b .. l |-> IF next[j] = 0 THEN last[j] ELSE Ahead(e, j)]
    BY <2>1
  <2> QED BY <2>2 DEF LooksAhead
<1> QED BY <1>2, <1>3

-----------------------------------------------------------------------------
(***************************************************************************)
(* What a scanner yields, from any place of the text on.                   *)
(***************************************************************************)

\* f[i] is what is yielded from i on when the piece at i ends before to[i] and yields put[i].
After(f, to, i) == IF to[i] = 0 THEN <<>> ELSE f[to[i]]

Scans(f, to, put, l) ==
  f = [i \in 1 .. l + 1 |-> IF i > l THEN <<>> ELSE put[i] \o After(f, to, i)]

\* There is such an f when every piece ends after its beginning.
LEMMA ScansExists ==
  ASSUME NEW l \in Nat, NEW put, NEW to, \A i \in 1 .. l : to[i] = 0 \/ to[i] \in (i + 1) .. (l + 1)
  PROVE  \E f : Scans(f, to, put, l)
<1> DEFINE next == [i \in 1 .. l + 1 |-> IF i > l THEN 0 ELSE to[i]]
           last == [i \in 1 .. l + 1 |-> IF i > l THEN <<>> ELSE put[i] \o <<>>]
<1>1. \A i \in 1 .. l + 1 : next[i] = 0 \/ next[i] \in (i + 1) .. (l + 1)
  OBVIOUS
<1>2. PICK f : LooksAhead(f, next, TRUE, put, last, 1, l + 1)
  <2>1. l + 1 \in Nat
    OBVIOUS
  <2> HIDE DEF next, last
  <2> QED BY <1>1, <2>1, LooksAheadExists
<1>3. f = [i \in 1 .. l + 1 |-> f[i]]
  BY <1>2 DEF LooksAhead
<1>4. ASSUME NEW i \in 1 .. l + 1
      PROVE  f[i] = IF i > l THEN <<>> ELSE put[i] \o After(f, to, i)
  <2>1. f[i] = IF next[i] = 0 THEN last[i] ELSE put[i] \o f[next[i]]
    BY <1>2 DEF LooksAhead
  <2>2. CASE i > l
    BY <2>1, <2>2
  <2>3. CASE ~ (i > l)
    <3>1. next[i] = to[i] /\ last[i] = put[i] \o <<>>
      BY <2>3
    <3> HIDE DEF next, last
    <3> QED BY <2>1, <2>3, <3>1 DEF After
  <2> QED BY <2>2, <2>3
<1> QED BY <1>3, <1>4 DEF Scans

\* The equations of a scan, place by place.
LEMMA ScansStep ==
  ASSUME NEW l \in Nat, NEW put, NEW to, NEW f, Scans(f, to, put, l)
  PROVE  /\ f[l + 1] = <<>>
         /\ \A i \in 1 .. l : f[i] = put[i] \o After(f, to, i)
<1>1. f[l + 1] = <<>>
  <2>1. l + 1 \in 1 .. l + 1 /\ l + 1 > l
    OBVIOUS
  <2> QED BY <2>1 DEF Scans
<1>2. ASSUME NEW i \in 1 .. l
      PROVE  f[i] = put[i] \o After(f, to, i)
  <2>1. i \in 1 .. l + 1 /\ ~ (i > l)
    OBVIOUS
  <2> QED BY <2>1 DEF Scans
<1> QED BY <1>1, <1>2

\* Whatever holds at the end and carries over from the end of each piece to its beginning holds
\* everywhere.  (Stated of a set of places, which tells where.)
LEMMA FromTheEnd ==
  ASSUME NEW l \in Nat, NEW P, l + 1 \in P,
         \A i \in 1 .. l : (\A j \in (i + 1) .. (l + 1) : j \in P) => i \in P
  PROVE  1 .. l + 1 \subseteq P
<1> DEFINE T == {m \in Nat : m <= l /\ l + 1 - m \notin P}
<1>1. T = {}
  <2> SUFFICES ASSUME T # {} PROVE FALSE
    OBVIOUS
  <2>0. T \in SUBSET Nat
    OBVIOUS
  <2>1. PICK m \in T : \A i \in T : m <= i
    <3> HIDE DEF T
    <3> QED BY <2>0, SmallestNumber
  <2>2. m \in Nat /\ m <= l /\ l + 1 - m \notin P /\ m # 0
    <3>1. m \in Nat /\ m <= l /\ l + 1 - m \notin P
      BY <2>1
    <3>2. m = 0 => l + 1 - m = l + 1
      OBVIOUS
    <3> QED BY <3>1, <3>2
  <2> DEFINE i == l + 1 - m
  <2>3. i \in 1 .. l
    BY <2>2
  <2>4. ASSUME NEW j \in (i + 1) .. (l + 1) PROVE j \in P
    <3>1. l + 1 - j \in Nat /\ l + 1 - j <= l /\ ~ (m <= l + 1 - j) /\ l + 1 - (l + 1 - j) = j
      BY <2>2
    <3>2. l + 1 - j \notin T
      <4> HIDE DEF T
      <4> QED BY <2>1, <3>1
    <3> QED BY <3>1, <3>2
  <2> HIDE DEF T
  <2> QED BY <2>2, <2>3, <2>4
<1>2. ASSUME NEW i \in 1 .. l + 1 PROVE i \in P
  <2>1. l + 1 - i \in Nat /\ l + 1 - i <= l /\ l + 1 - (l + 1 - i) = i /\ l + 1 - i \notin T
    <3>1. l + 1 - i \in Nat /\ l + 1 - i <= l /\ l + 1 - (l + 1 - i) = i
      OBVIOUS
    <3> HIDE DEF T
    <3> QED BY <1>1, <3>1
  <2> QED BY <2>1
<1> QED BY <1>2

\* All of what is yielded is of the kind that each piece yields.
LEMMA ScansTyped ==
  ASSUME NEW l \in Nat, NEW V, NEW put, NEW to, NEW f, Scans(f, to, put, l),
         \A i \in 1 .. l : to[i] = 0 \/ to[i] \in (i + 1) .. (l + 1),
         \A i \in 1 .. l : put[i] \in Seq(V)
  PROVE  \A i \in 1 .. l + 1 : f[i] \in Seq(V)
<1> DEFINE P == {i \in 1 .. l + 1 : f[i] \in Seq(V)}
<1>1. l + 1 \in P
  <2>1. f[l + 1] = <<>>
    BY ScansStep
  <2>2. <<>> \in Seq(V) /\ l + 1 \in 1 .. l + 1
    BY EmptySeq
  <2> QED BY <2>1, <2>2
<1>0. \A i \in 1 .. l : f[i] = put[i] \o After(f, to, i)
  BY ScansStep
<1>2. ASSUME NEW i \in 1 .. l, \A j \in (i + 1) .. (l + 1) : j \in P
      PROVE  i \in P
  <2>1. put[i] \in Seq(V) /\ (to[i] = 0 \/ f[to[i]] \in Seq(V))
    BY <1>2
  <2>2. f[i] = put[i] \o After(f, to, i)
    BY <1>0, Zenon
  <2> DEFINE rest == After(f, to, i)
  <2>3. rest \in Seq(V)
    BY <2>1, EmptySeq DEF After
  <2>4. i \in 1 .. l + 1
    OBVIOUS
  <2> HIDE DEF rest
  <2>5. put[i] \o rest \in Seq(V)
    BY <2>1, <2>3, ConcatProperties
  <2> QED BY <2>2, <2>4, <2>5 DEF rest
<1> HIDE DEF P
<1>3. 1 .. l + 1 \subseteq P
  BY <1>1, <1>2, FromTheEnd
<1> QED BY <1>3 DEF P

-----------------------------------------------------------------------------
(***************************************************************************)
(* What stands where in a text.                                            *)
(***************************************************************************)
\* At, of one symbol and of two, in terms of places.
LEMMA AtOne ==
  ASSUME NEW S, NEW t \in Seq(S), NEW j \in Nat \ {0}, NEW a
  PROVE  At(t, j, <<a>>) <=> j <= Len(t) /\ t[j] = a
<1> DEFINE u == SubSeq(t, j, j)
<1>1. Len(t) \in Nat /\ Len(<<a>>) = 1 /\ j + 1 - 1 = j
  BY LenProperties
<1>2. At(t, j, <<a>>) <=> j <= Len(t) /\ u = <<a>>
  BY <1>1 DEF At
<1>3. CASE j <= Len(t)
  <2>1. \A i \in j .. j : t[i] \in S
    BY <1>1, <1>3, ElementOfSeq
  <2>2. u \in Seq(S) /\ Len(u) = 1 /\ \A i \in 1 .. 1 : u[i] = t[j + i - 1]
    BY <1>1, <2>1, SubSeqProperties
  <2> HIDE DEF u
  <2>3. u = <<t[j]>>
    <3>1. u[1] = t[j]
      BY <2>2
    <3>2. u \in [1 .. 1 -> S]
      BY <2>2, LenProperties
    <3> QED BY <3>1, <3>2
  <2> QED BY <1>2, <1>3, <2>3
<1> QED BY <1>2, <1>3

LEMMA AtTwo ==
  ASSUME NEW S, NEW t \in Seq(S), NEW j \in Nat \ {0}, NEW a, NEW b
  PROVE  At(t, j, <<a, b>>) <=> j + 1 <= Len(t) /\ t[j] = a /\ t[j + 1] = b
<1> DEFINE u == SubSeq(t, j, j + 1)
<1>1. Len(t) \in Nat /\ Len(<<a, b>>) = 2 /\ j + 2 - 1 = j + 1
  BY LenProperties
<1>2. At(t, j, <<a, b>>) <=> j + 1 <= Len(t) /\ u = <<a, b>>
  BY <1>1 DEF At
<1>3. CASE j + 1 <= Len(t)
  <2>1. \A i \in j .. (j + 1) : t[i] \in S
    BY <1>1, <1>3, ElementOfSeq
  <2>2. u \in Seq(S) /\ Len(u) = 2 /\ \A i \in 1 .. 2 : u[i] = t[j + i - 1]
    BY <1>1, <2>1, SubSeqProperties
  <2> HIDE DEF u
  <2>3. u = <<t[j], t[j + 1]>>
    <3>1. u[1] = t[j] /\ u[2] = t[j + 1]
      BY <2>2
    <3>2. u \in [1 .. 2 -> S]
      BY <2>2, LenProperties
    <3> QED BY <3>1, <3>2
  <2> QED BY <1>2, <1>3, <2>3
<1> QED BY <1>2, <1>3

\* The quote that strings are written in.  (Under a name: the SMT backend cannot read the literal.)
DoubleQuote == "\""

LEMMA Apart ==
  DoubleQuote # "\\" /\ DoubleQuote # "\n" /\ DoubleQuote # "n" /\ DoubleQuote # "tick"
  BY Zenon DEF DoubleQuote

\* Escape, in terms of that name.
LEMMA EscapeCases ==
  ASSUME NEW c
  PROVE  Escape(c) = CASE c = DoubleQuote -> <<"\\", DoubleQuote>>
                       [] c = "\\" -> <<"\\", "\\">>
                       [] c = "\n" -> <<"\\", "n">>
                       [] OTHER -> <<c>>
  BY Zenon DEF Escape, DoubleQuote

\* The symbols a literal can hold when those of the value are in S.
Written(S) == S \cup {"\\", DoubleQuote, "n"}

\* The symbols a character is written with, and where those of a whole value stand.
LEMMA EscapeForms ==
  ASSUME NEW S, NEW c \in S, NEW e, e = Escape(c)
  PROVE  /\ e \in Seq(Written(S)) /\ Len(e) \in {1, 2}
         /\ Len(e) = 2 => /\ e[1] = "\\"
                          /\ \/ c = DoubleQuote /\ e[2] = DoubleQuote
                             \/ c = "\\" /\ e[2] = "\\"
                             \/ c = "\n" /\ e[2] = "n"
         /\ Len(e) = 1 => c # DoubleQuote /\ c # "\\" /\ e[1] = c
<1> DEFINE W == Written(S)
<1>0. Seq(Written(S)) = Seq(W)
  OBVIOUS
<1>1. c \in W /\ "\\" \in W /\ DoubleQuote \in W /\ "n" \in W
  BY DEF Written
<1> HIDE DEF W
<1>2. /\ \A a \in W : <<a>> \in Seq(W)
      /\ \A a, d \in W : <<a, d>> \in Seq(W)
  OBVIOUS
<1>3. CASE c = DoubleQuote
  <2>1. e = <<"\\", DoubleQuote>>
    BY <1>3, EscapeCases, Apart
  <2>2. e \in Seq(W)
    BY <1>1, <1>2, <2>1, Zenon
  <2>3. Len(e) = 2 /\ e[1] = "\\" /\ e[2] = DoubleQuote
    BY <2>1
  <2> QED BY <1>0, <1>3, <2>2, <2>3
<1>4. CASE c = "\\"
  <2>1. e = <<"\\", "\\">>
    BY <1>4, EscapeCases, Apart
  <2>2. e \in Seq(W)
    BY <1>1, <1>2, <2>1, Zenon
  <2>3. Len(e) = 2 /\ e[1] = "\\" /\ e[2] = "\\"
    BY <2>1
  <2> QED BY <1>0, <1>4, <2>2, <2>3
<1>5. CASE c = "\n"
  <2>1. e = <<"\\", "n">>
    BY <1>5, EscapeCases, Apart
  <2>2. e \in Seq(W)
    BY <1>1, <1>2, <2>1, Zenon
  <2>3. Len(e) = 2 /\ e[1] = "\\" /\ e[2] = "n"
    BY <2>1
  <2> QED BY <1>0, <1>5, <2>2, <2>3
<1>6. CASE c # DoubleQuote /\ c # "\\" /\ c # "\n"
  <2>1. e = <<c>>
    BY <1>6, EscapeCases
  <2>2. e \in Seq(W)
    BY <1>1, <1>2, <2>1, Zenon
  <2>3. Len(e) = 1 /\ e[1] = c
    BY <2>1
  <2> QED BY <1>0, <1>6, <2>2, <2>3
<1> QED BY <1>3, <1>4, <1>5, <1>6

\* What grows from place to place is largest at the end.
LEMMA Rising ==
  ASSUME NEW n \in Nat, NEW pos \in [0 .. n -> Nat],
         \A k \in 1 .. n : pos[k - 1] <= pos[k]
  PROVE  \A k \in 0 .. n : pos[k] <= pos[n]
<1> DEFINE T == {m \in Nat : m <= n /\ ~ (pos[n - m] <= pos[n])}
<1>1. T = {}
  <2> SUFFICES ASSUME T # {} PROVE FALSE
    OBVIOUS
  <2>0. T \in SUBSET Nat
    OBVIOUS
  <2>1. PICK m \in T : \A i \in T : m <= i
    <3> HIDE DEF T
    <3> QED BY <2>0, SmallestNumber
  <2>2. m \in Nat /\ m <= n /\ m # 0 /\ ~ (pos[n - m] <= pos[n])
    <3>1. m \in Nat /\ m <= n /\ ~ (pos[n - m] <= pos[n])
      BY <2>1
    <3>2. m = 0 => n - m = n /\ pos[n] \in Nat
      OBVIOUS
    <3> QED BY <3>1, <3>2
  <2>3. m - 1 \in Nat /\ m - 1 <= n /\ m - 1 \notin T
    <3>1. m - 1 \in Nat /\ m - 1 <= n /\ ~ (m <= m - 1)
      BY <2>2
    <3> HIDE DEF T
    <3> QED BY <2>1, <3>1
  <2>4. pos[n - (m - 1)] <= pos[n]
    BY <2>3
  <2>5. n - (m - 1) \in 1 .. n /\ (n - (m - 1)) - 1 = n - m /\ n - m \in 0 .. n
    BY <2>2
  <2>6. pos[n - m] <= pos[n - (m - 1)]
    BY <2>5
  <2>7. pos[n - m] \in Nat /\ pos[n - (m - 1)] \in Nat /\ pos[n] \in Nat
    BY <2>5
  <2> HIDE DEF T
  <2> QED BY <2>2, <2>4, <2>6, <2>7
<1>2. ASSUME NEW k \in 0 .. n PROVE pos[k] <= pos[n]
  <2>1. n - k \in Nat /\ n - k <= n /\ n - (n - k) = k /\ n - k \notin T
    <3>1. n - k \in Nat /\ n - k <= n /\ n - (n - k) = k
      OBVIOUS
    <3> HIDE DEF T
    <3> QED BY <1>1, <3>1
  <2> QED BY <2>1
<1> QED BY <1>2

\* pos[k] is the number of symbols the first k characters of a value are written with; t has these
\* symbols, after some others.
Places(pos, value, t, others) ==
  /\ pos \in [0 .. Len(value) -> Nat]
  /\ pos[0] = 0
  /\ \A k \in 0 .. Len(value) : pos[k] <= pos[Len(value)]
  /\ \A k \in 1 .. Len(value) :
       /\ pos[k] = pos[k - 1] + Len(Escape(value[k]))
       /\ \A m \in 1 .. Len(Escape(value[k])) : t[pos[k - 1] + m + others] = Escape(value[k])[m]

\* Every value has such places in what it is escaped to.
LEMMA EscapedPlaces ==
  ASSUME NEW S, NEW value \in Seq(S)
  PROVE  /\ Escaped(value) \in Seq(Written(S))
         /\ \E pos : /\ Places(pos, value, Escaped(value), 0)
                     /\ pos[Len(value)] = Len(Escaped(value))
<1> DEFINE n == Len(value)
           parts == [k \in DOMAIN value |-> Escape(value[k])]
<1>1. n \in Nat /\ DOMAIN value = 1 .. n /\ \A k \in 1 .. n : value[k] \in S
  BY LenProperties, ElementOfSeq
<1>2. \A k \in 1 .. n : parts[k] = Escape(value[k]) /\ parts[k] \in Seq(Written(S))
  BY <1>1, EscapeForms
<1>3. parts \in Seq(Seq(Written(S))) /\ Len(parts) = n
  <2>1. parts \in [1 .. n -> Seq(Written(S))]
    BY <1>1, <1>2
  <2> HIDE DEF parts
  <2> QED BY <1>1, <2>1, SeqDef
<1>4. Escaped(value) = FlattenSeq(parts)
  BY DEF Escaped
<1> HIDE DEF parts, n
<1>5. Escaped(value) \in Seq(Written(S))
  BY <1>3, <1>4, Flattened
<1>6. PICK pos \in [0 .. Len(parts) -> Nat] :
        /\ pos[0] = 0
        /\ pos[Len(parts)] = Len(FlattenSeq(parts))
        /\ \A k \in 1 .. Len(parts) :
             /\ pos[k] = pos[k - 1] + Len(parts[k])
             /\ \A m \in 1 .. Len(parts[k]) : FlattenSeq(parts)[pos[k - 1] + m] = parts[k][m]
  BY <1>3, FlattenedPlaces, SMTT(30)
<1>7. /\ pos[n] = Len(Escaped(value))
      /\ \A k \in 1 .. n :
           /\ pos[k] = pos[k - 1] + Len(Escape(value[k]))
           /\ \A m \in 1 .. Len(Escape(value[k])) :
                Escaped(value)[pos[k - 1] + m] = Escape(value[k])[m]
  BY <1>2, <1>3, <1>4, <1>6
<1>8. pos \in [0 .. n -> Nat] /\ pos[0] = 0
  BY <1>3, <1>6
<1>9. \A k \in 0 .. n : pos[k] <= pos[n]
  <2>1. ASSUME NEW k \in 1 .. n PROVE pos[k - 1] <= pos[k]
    <3>1. k - 1 \in 0 .. n /\ k \in 0 .. n
      BY <1>1
    <3>2. pos[k - 1] \in Nat /\ Len(parts[k]) \in Nat /\ pos[k] = pos[k - 1] + Len(parts[k])
      BY <1>2, <1>3, <1>6, <1>8, <3>1, LenProperties
    <3> QED BY <3>2
  <2>2. n \in Nat /\ pos \in [0 .. n -> Nat] /\ \A k \in 1 .. n : pos[k - 1] <= pos[k]
    BY <1>1, <1>8, <2>1
  <2> QED BY <2>2, Rising
<1>10. \A k \in 1 .. n : \A m \in 1 .. Len(Escape(value[k])) :
         Escaped(value)[pos[k - 1] + m + 0] = Escape(value[k])[m]
  <2> SUFFICES ASSUME NEW k \in 1 .. n, NEW m \in 1 .. Len(Escape(value[k]))
               PROVE  Escaped(value)[pos[k - 1] + m + 0] = Escape(value[k])[m]
    OBVIOUS
  <2>1. pos[k - 1] + m + 0 = pos[k - 1] + m
    <3>1. k - 1 \in 0 .. n
      BY <1>1
    <3>2. Len(Escape(value[k])) \in Nat
      BY <1>2, LenProperties
    <3>3. pos[k - 1] \in Nat
      BY <1>8, <3>1
    <3>4. m \in Nat
      BY <3>2
    <3> QED BY <3>3, <3>4
  <2>2. Escaped(value)[pos[k - 1] + m] = Escape(value[k])[m]
    BY <1>7
  <2> QED BY <2>1, <2>2, Zenon
<1>11. Places(pos, value, Escaped(value), 0)
  BY <1>7, <1>8, <1>9, <1>10 DEF n, Places
<1> QED BY <1>5, <1>7, <1>11 DEF n

\* What the next character adds.
LEMMA NextPlace ==
  ASSUME NEW S, NEW value \in Seq(S), NEW t, NEW others \in Nat, NEW pos,
         Places(pos, value, t, others),
         NEW k \in Nat, k < Len(value), NEW c, c = value[k + 1], NEW e, e = Escape(c)
  PROVE  /\ c \in S /\ pos[k] \in Nat /\ pos[k + 1] \in Nat
         /\ pos[k + 1] = pos[k] + Len(e) /\ pos[k + 1] <= pos[Len(value)]
         /\ \A i \in 1 .. Len(e) : t[pos[k] + i + others] = e[i]
         /\ Len(e) \in {1, 2}
<1>1. Len(value) \in Nat
  BY LenProperties
<1>2. k \in 0 .. Len(value) /\ k + 1 \in 1 .. Len(value) /\ k + 1 \in 0 .. Len(value) /\ (k + 1) - 1 = k
  BY <1>1
<1>3. c \in S
  BY <1>2, ElementOfSeq
<1>4. Len(e) \in {1, 2}
  BY <1>3, EscapeForms
<1>5. pos[k] \in Nat /\ pos[k + 1] \in Nat /\ pos[k + 1] <= pos[Len(value)]
  BY <1>2 DEF Places
<1>6. /\ pos[k + 1] = pos[(k + 1) - 1] + Len(e)
      /\ \A i \in 1 .. Len(e) : t[pos[(k + 1) - 1] + i + others] = e[i]
  BY <1>2 DEF Places
<1> QED BY <1>2, <1>3, <1>4, <1>5, <1>6

-----------------------------------------------------------------------------
(***************************************************************************)
(* A literal is read to its end and not further.                           *)
(***************************************************************************)

\* What QuotedEnd makes of the symbol at j of a literal that opened with q, f being what it makes of
\* those after it.
Step(f, t, j, q, unclosed) ==
  IF j > Len(t) THEN unclosed
  ELSE IF t[j] = "\\" /\ q # "tick" THEN f[j + 2]
  ELSE IF t[j] = q THEN IF j + 1 <= Len(t) /\ t[j + 1] = q THEN f[j + 2] ELSE j + 1
  ELSE f[j + 1]

\* QuotedEnd is where a function of those steps arrives from behind the opening quote.
LEMMA QuotedEndSteps ==
  ASSUME NEW S, NEW t \in Seq(S), NEW i \in 1 .. Len(t), t[i] # "\\", NEW unclosed
  PROVE  \E f : /\ QuotedEnd(t, i, unclosed) = f[i + 1]
                /\ \A j \in i .. Len(t) + 2 : f[j] = Step(f, t, j, t[i], unclosed)
<1> DEFINE l == Len(t) + 2
           q == t[i]
           Arms(f, j) ==
             CASE j > Len(t) -> unclosed
               [] At(t, j, <<"\\">>) /\ t[i] # "tick" -> f[j + 2]
               [] At(t, j, <<t[i], t[i]>>) -> f[j + 2]
               [] At(t, j, <<t[i]>>) /\ ~ At(t, j, <<t[i], t[i]>>) -> j + 1
               [] OTHER -> f[j + 1]
           Reads(f) == f = [j \in i .. l |-> Arms(f, j)]
           next == [j \in i .. l |->
                      IF j > Len(t) THEN 0
                      ELSE IF t[j] = "\\" /\ q # "tick" THEN j + 2
                      ELSE IF t[j] = q THEN IF j + 1 <= Len(t) /\ t[j + 1] = q THEN j + 2 ELSE 0
                      ELSE j + 1]
           last == [j \in i .. l |-> IF j > Len(t) THEN unclosed ELSE j + 1]
<1>1. Len(t) \in Nat /\ l \in Nat /\ i \in Nat
  BY LenProperties
<1>2. ASSUME NEW f, NEW j \in i .. l
      PROVE  Arms(f, j) = Step(f, t, j, t[i], unclosed)
  <2>1. j \in Nat \ {0}
    BY <1>1
  <2>2. /\ At(t, j, <<"\\">>) <=> j <= Len(t) /\ t[j] = "\\"
        /\ At(t, j, <<t[i]>>) <=> j <= Len(t) /\ t[j] = t[i]
        /\ At(t, j, <<t[i], t[i]>>) <=> j + 1 <= Len(t) /\ t[j] = t[i] /\ t[j + 1] = t[i]
    BY <2>1, AtOne, AtTwo
  <2> QED BY <1>1, <2>1, <2>2 DEF Step
<1>3. \A j \in i .. l : next[j] = 0 \/ next[j] \in (j + 1) .. l
  BY <1>1
<1>4. PICK f : LooksAhead(f, next, FALSE, last, last, i, l)
  <2> HIDE DEF l, next, last
  <2> QED BY <1>1, <1>3, LooksAheadExists
<1>5. ASSUME NEW j \in i .. l
      PROVE  f[j] = Step(f, t, j, t[i], unclosed)
  <2>1. f[j] = IF next[j] = 0 THEN last[j] ELSE f[next[j]]
    BY <1>4 DEF LooksAhead
  <2> QED BY <1>1, <2>1 DEF Step
<1>6. Reads(f)
  <2>1. f = [j \in i .. l |-> f[j]]
    BY <1>4 DEF LooksAhead
  <2> HIDE DEF Arms
  <2> QED BY <1>2, <1>5, <2>1
<1> DEFINE g == CHOOSE g : Reads(g)
<1>7. Reads(g)
  <2> HIDE DEF Reads
  <2> QED BY <1>6
<1>8. QuotedEnd(t, i, unclosed) = g[i + 1]
  BY DEF QuotedEnd
<1> HIDE DEF g
<1>9. \A j \in i .. l : g[j] = Step(g, t, j, t[i], unclosed)
  <2>1. \A j \in i .. l : g[j] = Arms(g, j)
    <3> HIDE DEF Arms
    <3> QED BY <1>7
  <2> QED BY <1>2, <2>1
<1> QED BY <1>8, <1>9

\* A literal that is closed ends behind two quotes of its kind, and a third does not follow.
LEMMA QuotedCloses ==
  ASSUME NEW S, NEW t \in Seq(S), NEW i \in 1 .. Len(t), t[i] # "\\",
         NEW unclosed, NEW m, m = QuotedEnd(t, i, unclosed)
  PROVE  \/ m = unclosed
         \/ /\ m \in (i + 2) .. (Len(t) + 1)
            /\ m <= Len(t) => t[m] # t[i]
            /\ t[m - 1] = t[i]
<1>1. Len(t) \in Nat /\ i \in Nat
  BY LenProperties
<1>2. PICK f : m = f[i + 1] /\ \A j \in i .. Len(t) + 2 : f[j] = Step(f, t, j, t[i], unclosed)
  BY QuotedEndSteps
<1> DEFINE Fine(j) == \/ f[j] = unclosed
                      \/ /\ f[j] \in (j + 1) .. (Len(t) + 1)
                         /\ f[j] <= Len(t) => t[f[j]] # t[i]
                         /\ t[f[j] - 1] = t[i]
           P == {k \in 1 .. Len(t) + 2 : k < i \/ Fine(k)}
<1>3. \A j \in i .. Len(t) + 2 : f[j] = Step(f, t, j, t[i], unclosed)
  BY <1>2
<1>4. Len(t) + 2 \in P
  <2>1. f[Len(t) + 2] = unclosed
    BY <1>1, <1>3 DEF Step
  <2> QED BY <1>1, <2>1
<1>5. ASSUME NEW j \in 1 .. Len(t) + 1, \A k \in (j + 1) .. (Len(t) + 2) : k \in P
      PROVE  j \in P
  <2>0. j \in 1 .. Len(t) + 2 /\ j \in Nat
    BY <1>1
  <2>1. CASE j < i
    BY <2>0, <2>1
  <2>2. CASE j > Len(t)
    <3>1. f[j] = unclosed
      BY <1>1, <1>3, <2>2 DEF Step
    <3> QED BY <2>0, <3>1
  <2>3. CASE ~ (j < i) /\ ~ (j > Len(t))
    <3>1. j \in i .. Len(t) + 2 /\ j + 1 \in (j + 1) .. (Len(t) + 2) /\ j + 2 \in (j + 1) .. (Len(t) + 2)
      BY <1>1, <2>3
    <3>2. f[j] = Step(f, t, j, t[i], unclosed)
      BY <1>3, <3>1
    <3>3. Fine(j + 1) /\ Fine(j + 2)
      BY <1>1, <1>5, <2>3, <3>1
    <3>4. CASE f[j] = f[j + 1]
      BY <1>1, <2>0, <3>1, <3>3, <3>4, SMTT(30)
    <3>5. CASE f[j] = f[j + 2]
      BY <1>1, <2>0, <3>1, <3>3, <3>5
    <3>6. CASE f[j] = j + 1 /\ t[j] = t[i] /\ (j + 1 <= Len(t) => t[j + 1] # t[i])
      <4>1. Fine(j)
        BY <1>1, <2>3, <3>1, <3>6
      <4> HIDE DEF Fine
      <4> QED BY <2>0, <4>1
    <3> QED BY <1>1, <2>3, <3>2, <3>4, <3>5, <3>6 DEF Step
  <2> QED BY <2>1, <2>2, <2>3
<1>6. i + 1 \in P
  <2>1. 1 .. (Len(t) + 1) + 1 \subseteq P
    <3>1. Len(t) + 1 \in Nat /\ (Len(t) + 1) + 1 = Len(t) + 2
      BY <1>1
    <3> HIDE DEF P
    <3> QED BY <1>4, <1>5, <3>1, FromTheEnd
  <2>2. i + 1 \in 1 .. (Len(t) + 1) + 1
    BY <1>1
  <2> HIDE DEF P
  <2> QED BY <2>1, <2>2
<1> QED BY <1>1, <1>2, <1>6

\* j is a place of the literal from i to m in a text of length n; the literal fits at k in one of length l.
Within(i, j, m, n, k, l) ==
  /\ i \in Nat /\ j \in Nat /\ m \in Nat /\ n \in Nat /\ k \in Nat /\ l \in Nat
  /\ ~ (j < i) /\ j < m /\ m <= n + 1 /\ k + (m - i) <= l + 1

\* The arithmetic of such places.
LEMMA Inside ==
  ASSUME NEW i, NEW j, NEW m, NEW n, NEW k, NEW l, Within(i, j, m, n, k, l)
  PROVE  /\ j \in i .. n + 2 /\ j <= n
         /\ k + (j - i) \in k .. l + 2 /\ k + (j - i) <= l
         /\ k + ((j + 1) - i) = k + (j - i) + 1 /\ k + ((j + 2) - i) = k + (j - i) + 2
         /\ j + 1 < m => j + 1 \in (j + 1) .. m /\ ~ (j + 1 < i) /\ ~ (j + 1 >= m)
         /\ j + 2 < m => j + 2 \in (j + 1) .. m /\ ~ (j + 2 < i) /\ ~ (j + 2 >= m)
         /\ j + 2 < m => j + 1 < m /\ k + (j - i) + 1 <= l
  BY DEF Within

\* And of places in general.
LEMMA Before == \A m \in Nat : \A j \in 1 .. m - 1 : j \in Nat /\ j < m /\ j \in 1 .. m
OBVIOUS

LEMMA Middle ==
  ASSUME NEW i \in Nat, NEW m \in Nat, i + 2 <= m
  PROVE  /\ m - 1 \in Nat /\ (m - 1) + 1 = m /\ i + 1 \in 1 .. (m - 1) + 1
         /\ i + 1 \in Nat /\ ~ (i + 1 < i) /\ ~ (i + 1 >= m)
OBVIOUS

\* The n symbols of u from k on are those of t from i on.
Same(t, i, u, k, n) == \A d \in 0 .. n - 1 : u[k + d] = t[i + d]

\* What a literal is depends on nothing but its symbols and that no other quote follows.
LEMMA QuotedMoves ==
  ASSUME NEW S, NEW t \in Seq(S), NEW i \in 1 .. Len(t), t[i] # "\\",
         NEW m, m = QuotedEnd(t, i, 0), m # 0,
         NEW R, NEW u \in Seq(R), NEW k \in 1 .. Len(u), k + (m - i) <= Len(u) + 1,
         Same(t, i, u, k, m - i),
         k + (m - i) <= Len(u) => u[k + (m - i)] # t[i], NEW unclosed
  PROVE  QuotedEnd(u, k, unclosed) = k + (m - i)
<1>1. Len(t) \in Nat /\ i \in Nat /\ Len(u) \in Nat /\ k \in Nat
  BY LenProperties
<1>2. m \in Nat /\ i + 2 <= m /\ m <= Len(t) + 1 /\ (m <= Len(t) => t[m] # t[i])
  BY <1>1, QuotedCloses
<1>3. PICK f : m = f[i + 1] /\ \A j \in i .. Len(t) + 2 : f[j] = Step(f, t, j, t[i], 0)
  BY QuotedEndSteps
<1>4. u[k] = t[i]
  <2>1. 0 \in 0 .. (m - i) - 1 /\ k + 0 = k /\ i + 0 = i
    BY <1>1, <1>2
  <2>2. u[k + 0] = t[i + 0]
    BY <2>1 DEF Same
  <2> QED BY <2>1, <2>2
<1>5. PICK g : /\ QuotedEnd(u, k, unclosed) = g[k + 1]
               /\ \A j \in k .. Len(u) + 2 : g[j] = Step(g, u, j, u[k], unclosed)
  <2>1. u[k] # "\\"
    BY <1>4
  <2> QED BY <2>1, QuotedEndSteps
<1>6. \A j \in i .. Len(t) + 2 : f[j] = Step(f, t, j, t[i], 0)
  BY <1>3
<1>7. \A j \in k .. Len(u) + 2 : g[j] = Step(g, u, j, t[i], unclosed)
  BY <1>4, <1>5
<1>8. \A j \in i .. Len(t) + 2 : f[j] = m => j < m
  <2> DEFINE P == {j \in 1 .. Len(t) + 2 : j < i \/ f[j] = 0 \/ f[j] \in (j + 1) .. (Len(t) + 1)}
  <2>1. Len(t) + 2 \in P
    <3>1. f[Len(t) + 2] = 0
      BY <1>1, <1>6 DEF Step
    <3> QED BY <1>1, <3>1
  <2>2. ASSUME NEW j \in 1 .. Len(t) + 1, \A d \in (j + 1) .. (Len(t) + 2) : d \in P
        PROVE  j \in P
    <3>1. CASE j < i
      BY <1>1, <3>1
    <3>2. CASE j > Len(t)
      <4>1. f[j] = 0
        BY <1>1, <1>6, <3>2 DEF Step
      <4> QED BY <1>1, <4>1
    <3>3. CASE ~ (j < i) /\ ~ (j > Len(t))
      <4>1. j \in i .. Len(t) + 2 /\ j + 1 \in (j + 1) .. (Len(t) + 2) /\ j + 2 \in (j + 1) .. (Len(t) + 2)
        BY <1>1, <3>3
      <4>2. f[j] = Step(f, t, j, t[i], 0)
        BY <1>6, <4>1
      <4>3. /\ f[j + 1] = 0 \/ f[j + 1] \in (j + 1 + 1) .. (Len(t) + 1)
            /\ f[j + 2] = 0 \/ f[j + 2] \in (j + 2 + 1) .. (Len(t) + 1)
        BY <1>1, <2>2, <3>3, <4>1
      <4>4. f[j] = f[j + 1] \/ f[j] = f[j + 2] \/ f[j] = j + 1
        BY <1>1, <3>3, <4>2 DEF Step
      <4> QED BY <1>1, <3>3, <4>3, <4>4
    <3> QED BY <3>1, <3>2, <3>3
  <2>3. 1 .. (Len(t) + 1) + 1 \subseteq P
    <3>1. Len(t) + 1 \in Nat /\ (Len(t) + 1) + 1 = Len(t) + 2
      BY <1>1
    <3> HIDE DEF P
    <3> QED BY <2>1, <2>2, <3>1, FromTheEnd
  <2>4. ASSUME NEW j \in i .. Len(t) + 2, f[j] = m PROVE j < m
    <3>1. j \in 1 .. (Len(t) + 1) + 1 /\ j \in Nat
      BY <1>1
    <3>2. j \in P
      <4> HIDE DEF P
      <4> QED BY <2>3, <3>1
    <3>3. f[j] \in (j + 1) .. (Len(t) + 1)
      BY <1>1, <1>2, <2>4, <3>2
    <3> QED BY <1>1, <1>2, <2>4, <3>1, <3>3
  <2> QED BY <2>4
<1> DEFINE o(j) == k + (j - i)
           Q == {j \in 1 .. m : j < i \/ j >= m \/ (f[j] = m => g[o(j)] = o(m))}
<1>9. ASSUME NEW j \in 1 .. m - 1, \A d \in (j + 1) .. m : d \in Q
      PROVE  j \in Q
  <2>0. j \in Nat /\ j < m /\ j \in 1 .. m
    <3> HIDE DEF o, Q
    <3> QED BY <1>2, Before, Zenon
  <2>1. SUFFICES ASSUME ~ (j < i), f[j] = m PROVE g[o(j)] = o(m)
    BY <2>0
  <2>w. Within(i, j, m, Len(t), k, Len(u))
    BY <1>1, <1>2, <2>0, <2>1 DEF Within
  <2>2. /\ j \in i .. Len(t) + 2 /\ o(j) \in k .. Len(u) + 2 /\ o(j) <= Len(u) /\ j <= Len(t)
        /\ o(j + 1) = o(j) + 1 /\ o(j + 2) = o(j) + 2
    <3>1. j \in i .. Len(t) + 2 /\ j <= Len(t)
      BY <2>w, Inside
    <3>2. k + (j - i) \in k .. Len(u) + 2 /\ k + (j - i) <= Len(u)
      BY <2>w, Inside
    <3>3. k + ((j + 1) - i) = k + (j - i) + 1 /\ k + ((j + 2) - i) = k + (j - i) + 2
      BY <2>w, Inside
    <3> QED BY <3>1, <3>2, <3>3, Zenon DEF o
  <2>3. f[j] = Step(f, t, j, t[i], 0) /\ g[o(j)] = Step(g, u, o(j), t[i], unclosed)
    BY <1>6, <1>7, <2>2
  <2>4. u[o(j)] = t[j]
    <3>1. j - i \in 0 .. (m - i) - 1 /\ k + (j - i) = o(j) /\ i + (j - i) = j
      BY <1>1, <1>2, <2>1
    <3>2. u[k + (j - i)] = t[i + (j - i)]
      BY <3>1 DEF Same
    <3> QED BY <3>1, <3>2
  <2>5. j + 1 < m => u[o(j) + 1] = t[j + 1]
    <3> SUFFICES ASSUME j + 1 < m PROVE u[o(j) + 1] = t[j + 1]
      OBVIOUS
    <3>1. (j + 1) - i \in 0 .. (m - i) - 1 /\ k + ((j + 1) - i) = o(j) + 1 /\ i + ((j + 1) - i) = j + 1
      BY <1>1, <1>2, <2>1
    <3>2. u[k + ((j + 1) - i)] = t[i + ((j + 1) - i)]
      BY <3>1 DEF Same
    <3> QED BY <3>1, <3>2
  <2>6. f[j + 1] = m => j + 1 < m /\ g[o(j) + 1] = o(m)
    <3> SUFFICES ASSUME f[j + 1] = m PROVE j + 1 < m /\ g[o(j) + 1] = o(m)
      OBVIOUS
    <3>1. j + 1 < m
      BY <1>1, <1>8, <2>0, <2>1, <2>2
    <3>2. j + 1 \in (j + 1) .. m /\ ~ (j + 1 < i) /\ ~ (j + 1 >= m)
      BY <2>w, <3>1, Inside
    <3>3. j + 1 \in Q
      <4> HIDE DEF Q
      <4> QED BY <1>9, <3>2
    <3>4. g[o(j + 1)] = o(m)
      BY <3>2, <3>3
    <3> QED BY <2>2, <3>1, <3>4
  <2>7. f[j + 2] = m => j + 2 < m /\ g[o(j) + 2] = o(m)
    <3> SUFFICES ASSUME f[j + 2] = m PROVE j + 2 < m /\ g[o(j) + 2] = o(m)
      OBVIOUS
    <3>1. j + 2 < m
      BY <1>1, <1>8, <2>0, <2>1, <2>2
    <3>2. j + 2 \in (j + 1) .. m /\ ~ (j + 2 < i) /\ ~ (j + 2 >= m)
      BY <2>w, <3>1, Inside
    <3>3. j + 2 \in Q
      <4> HIDE DEF Q
      <4> QED BY <1>9, <3>2
    <3>4. g[o(j + 2)] = o(m)
      BY <3>2, <3>3
    <3> QED BY <2>2, <3>1, <3>4
  <2> HIDE DEF o, Q
  <2>8. CASE t[j] = "\\" /\ t[i] # "tick"
    <3>1. f[j] = f[j + 2] /\ g[o(j)] = g[o(j) + 2]
      BY <1>1, <2>2, <2>3, <2>4, <2>8 DEF Step
    <3> QED BY <2>1, <2>7, <3>1
  <2>9. CASE ~ (t[j] = "\\" /\ t[i] # "tick") /\ t[j] # t[i]
    <3>1. f[j] = f[j + 1] /\ g[o(j)] = g[o(j) + 1]
      BY <1>1, <2>2, <2>3, <2>4, <2>9 DEF Step
    <3> QED BY <2>1, <2>6, <3>1
  <2>10. CASE ~ (t[j] = "\\" /\ t[i] # "tick") /\ t[j] = t[i]
    <3>1. CASE j + 1 <= Len(t) /\ t[j + 1] = t[i]
      <4>1. f[j] = f[j + 2]
        BY <1>1, <2>2, <2>3, <2>10, <3>1 DEF Step
      <4>2. j + 2 < m /\ g[o(j) + 2] = o(m)
        BY <2>1, <2>7, <4>1
      <4>3. u[o(j) + 1] = t[i] /\ o(j) + 1 <= Len(u)
        <5>1. o(j) + 1 <= Len(u)
          BY <2>w, <4>2, Inside, Zenon DEF o
        <5>2. u[o(j) + 1] = t[i]
          <6>1. j + 1 < m
            BY <2>w, <4>2, Inside, Zenon
          <6> QED BY <2>5, <3>1, <6>1, Zenon
        <5> QED BY <5>1, <5>2
      <4>4. g[o(j)] = g[o(j) + 2]
        BY <1>1, <2>2, <2>3, <2>4, <2>10, <4>3 DEF Step
      <4> QED BY <4>2, <4>4
    <3>2. CASE ~ (j + 1 <= Len(t) /\ t[j + 1] = t[i])
      <4>1. f[j] = j + 1
        BY <1>1, <2>2, <2>3, <2>10, <3>2 DEF Step
      <4>2. m = j + 1 /\ o(m) = o(j) + 1
        BY <2>1, <2>2, <4>1
      <4>3. o(m) <= Len(u) => u[o(m)] # t[i]
        BY Zenon DEF o
      <4>4. g[o(j)] = o(j) + 1
        BY <1>1, <2>2, <2>3, <2>4, <2>10, <4>2, <4>3, SMTT(30) DEF Step
      <4> QED BY <4>2, <4>4
    <3> QED BY <3>1, <3>2
  <2> QED BY <2>8, <2>9, <2>10
<1>10. i + 1 \in Q
  <2>1. m - 1 \in Nat /\ (m - 1) + 1 = m /\ i + 1 \in 1 .. (m - 1) + 1
    <3> HIDE DEF o, Q
    <3> QED BY <1>1, <1>2, Middle, Zenon
  <2>2. (m - 1) + 1 \in Q
    <3>1. m \in 1 .. m /\ m >= m
      BY <1>1, <1>2
    <3>2. m \in Q
      BY <3>1
    <3> HIDE DEF Q
    <3> QED BY <2>1, <3>2
  <2>3. \A j \in 1 .. m - 1 : (\A d \in (j + 1) .. (m - 1) + 1 : d \in Q) => j \in Q
    <3> HIDE DEF Q
    <3> QED BY <1>9, <2>1
  <2>4. 1 .. (m - 1) + 1 \subseteq Q
    <3> HIDE DEF Q
    <3> QED BY <2>1, <2>2, <2>3, FromTheEnd
  <2> HIDE DEF Q
  <2> QED BY <2>1, <2>4
<1>11. g[k + 1] = k + (m - i)
  <2>1. o(i + 1) = k + 1 /\ i + 1 < m
    BY <1>1, <1>2
  <2>2. i + 1 \in Nat /\ ~ (i + 1 < i) /\ ~ (i + 1 >= m) /\ f[i + 1] = m
    <3> HIDE DEF o, Q
    <3> QED BY <1>1, <1>2, <1>3, Middle, Zenon
  <2>3. g[o(i + 1)] = o(m)
    BY <1>10, <2>2
  <2> QED BY <2>1, <2>3
<1> QED BY <1>5, <1>11

\* What stands where in a literal: pos[k] is the number of symbols the first k characters take.
LEMMA QuotedPlaces ==
  ASSUME NEW S, NEW value \in Seq(S), NEW t, t = Quoted(value)
  PROVE  /\ t \in Seq(Written(S)) /\ t[1] = DoubleQuote /\ t[Len(t)] = DoubleQuote
         /\ \E pos : Places(pos, value, t, 1) /\ pos[Len(value)] + 2 = Len(t)
<1> DEFINE e == Escaped(value)
           q == <<DoubleQuote>>
<1>1. t = (q \o e) \o q
  BY Zenon DEF Quoted, DoubleQuote
<1>2. e \in Seq(Written(S)) /\ q \in Seq(Written(S)) /\ Len(q) = 1 /\ q[1] = DoubleQuote
  BY EscapedPlaces DEF Written
<1>3. Len(value) \in Nat /\ Len(e) \in Nat
  BY <1>2, LenProperties
<1>4. PICK pos : Places(pos, value, e, 0) /\ pos[Len(value)] = Len(e)
  BY EscapedPlaces
<1> HIDE DEF e, q
<1>5. /\ q \o e \in Seq(Written(S)) /\ Len(q \o e) = Len(e) + 1
      /\ (q \o e)[1] = DoubleQuote
      /\ \A i \in 1 .. Len(e) : (q \o e)[i + 1] = e[i]
  <2>1. /\ q \o e \in Seq(Written(S)) /\ Len(q \o e) = Len(e) + 1
        /\ \A i \in 1 .. Len(e) + 1 : (q \o e)[i] = IF i <= 1 THEN q[i] ELSE e[i - 1]
    <3>1. /\ q \o e \in Seq(Written(S)) /\ Len(q \o e) = Len(q) + Len(e)
          /\ \A i \in 1 .. Len(q) + Len(e) :
               (q \o e)[i] = IF i <= Len(q) THEN q[i] ELSE e[i - Len(q)]
      BY <1>2, ConcatProperties
    <3>2. Len(q) + Len(e) = Len(e) + 1
      BY <1>2, <1>3
    <3> QED BY <1>2, <3>1, <3>2
  <2>2. ASSUME NEW i \in 1 .. Len(e) PROVE (q \o e)[i + 1] = e[i]
    <3>1. i + 1 \in 1 .. Len(e) + 1 /\ ~ (i + 1 <= 1) /\ (i + 1) - 1 = i
      BY <1>3
    <3> QED BY <2>1, <3>1
  <2> QED BY <1>2, <1>3, <2>1, <2>2
<1>6. /\ t \in Seq(Written(S)) /\ Len(t) = Len(e) + 2
      /\ t[1] = DoubleQuote /\ t[Len(t)] = DoubleQuote
      /\ \A i \in 1 .. Len(e) : t[i + 1] = e[i]
  <2>1. /\ t \in Seq(Written(S)) /\ Len(t) = Len(e) + 2
        /\ \A i \in 1 .. Len(e) + 2 :
             t[i] = IF i <= Len(e) + 1 THEN (q \o e)[i] ELSE q[i - (Len(e) + 1)]
    BY <1>1, <1>2, <1>3, <1>5, ConcatProperties
  <2>2. ASSUME NEW i \in 1 .. Len(e) PROVE t[i + 1] = e[i]
    <3>1. i + 1 \in 1 .. Len(e) + 2 /\ i + 1 <= Len(e) + 1
      BY <1>3
    <3> QED BY <1>5, <2>1, <3>1
  <2> QED BY <1>2, <1>3, <1>5, <2>1, <2>2
<1>7. ASSUME NEW k \in 1 .. Len(value), NEW m \in 1 .. Len(Escape(value[k]))
      PROVE  t[pos[k - 1] + m + 1] = Escape(value[k])[m]
  <2> DEFINE p == pos[k - 1] + m
  <2>1. /\ e[pos[k - 1] + m + 0] = Escape(value[k])[m]
        /\ pos[k] = pos[k - 1] + Len(Escape(value[k])) /\ pos[k] <= Len(e)
    BY <1>3, <1>4 DEF Places
  <2>2. pos[k - 1] \in Nat /\ pos[k] \in Nat /\ m \in Nat
    <3>1. k - 1 \in 0 .. Len(value) /\ k \in 0 .. Len(value) /\ value[k] \in S
      BY <1>3, ElementOfSeq
    <3>2. pos[k - 1] \in Nat /\ pos[k] \in Nat
      <4>1. pos \in [0 .. Len(value) -> Nat]
        BY <1>4 DEF Places
      <4> QED BY <3>1, <4>1
    <3>3. Len(Escape(value[k])) \in Nat
      BY <3>1, EscapeForms
    <3>4. m \in Nat
      BY <3>3
    <3> QED BY <3>2, <3>4
  <2>3. p \in 1 .. Len(e) /\ pos[k - 1] + m + 0 = p
    BY <1>3, <2>1, <2>2
  <2> HIDE DEF p
  <2>4. t[p + 1] = e[p]
    BY <1>6, <2>3
  <2> QED BY <2>1, <2>3, <2>4 DEF p
<1>8. Places(pos, value, t, 1)
  BY <1>4, <1>7 DEF Places
<1> QED BY <1>3, <1>4, <1>6, <1>8

\* Every literal quoteCypherString writes is read to its last symbol.
LEMMA QuotedToTheEnd ==
  ASSUME NEW S, NEW value \in Seq(S)
  PROVE  QuotedEnd(Quoted(value), 1, 0) = Len(Quoted(value)) + 1
<1> DEFINE n == Len(value)
<1>0. PICK t : t = Quoted(value)
  OBVIOUS
<1>1. t \in Seq(Written(S)) /\ t[1] = DoubleQuote /\ t[Len(t)] = DoubleQuote
  BY <1>0, QuotedPlaces
<1>2. PICK pos : Places(pos, value, t, 1) /\ pos[n] + 2 = Len(t)
  BY <1>0, QuotedPlaces
<1>3. \A k \in 0 .. n : pos[k] \in Nat /\ pos[k] <= pos[n]
  BY <1>2 DEF Places
<1>4. n \in Nat /\ pos[n] \in Nat /\ pos[0] = 0 /\ Len(t) \in Nat /\ Len(t) > 0
  <2>1. n \in Nat /\ Len(t) \in Nat
    BY <1>1, LenProperties
  <2> QED BY <1>2, <1>3, <2>1 DEF Places
<1>5. PICK f : /\ QuotedEnd(t, 1, 0) = f[2]
               /\ \A j \in 1 .. Len(t) + 2 : f[j] = Step(f, t, j, DoubleQuote, 0)
  <2>1. 1 \in 1 .. Len(t) /\ 1 + 1 = 2 /\ t[1] # "\\"
    BY <1>1, <1>4, Apart
  <2> QED BY <1>1, <2>1, QuotedEndSteps
<1> DEFINE T == {m \in Nat : m <= n /\ f[2 + pos[n - m]] # Len(t) + 1}
<1>6. T = {}
  <2> SUFFICES ASSUME T # {} PROVE FALSE
    OBVIOUS
  <2>0. T \in SUBSET Nat
    OBVIOUS
  <2>1. PICK m \in T : \A i \in T : m <= i
    <3> HIDE DEF T
    <3> QED BY <2>0, SmallestNumber
  <2> DEFINE k == n - m
             p == 2 + pos[k]
  <2>2. m \in Nat /\ k \in 0 .. n /\ pos[k] \in Nat /\ pos[n] \in Nat
    BY <1>3, <1>4, <2>1
  <2>3. m # 0
    <3> SUFFICES ASSUME m = 0 PROVE f[2 + pos[n - m]] = Len(t) + 1
      BY <2>1
    <3>1. n - m = n /\ 2 + pos[n] = Len(t)
      BY <1>2, <1>4, <2>2
    <3>2. f[Len(t)] = Step(f, t, Len(t), DoubleQuote, 0)
      BY <1>4, <1>5
    <3>3. Step(f, t, Len(t), DoubleQuote, 0) = Len(t) + 1
      BY <1>1, <1>4, Apart DEF Step
    <3> QED BY <3>1, <3>2, <3>3
  <2>4. m - 1 \in Nat /\ m - 1 <= n /\ m - 1 \notin T /\ n - (m - 1) = k + 1 /\ k + 1 \in 1 .. n
    <3>1. m - 1 \in Nat /\ m - 1 <= n /\ ~ (m <= m - 1) /\ n - (m - 1) = k + 1 /\ k + 1 \in 1 .. n
      BY <1>4, <2>2, <2>3
    <3> HIDE DEF T
    <3> QED BY <2>1, <3>1
  <2>5. f[2 + pos[k + 1]] = Len(t) + 1
    BY <1>4, <2>2, <2>4
  <2>6. f[2 + pos[k]] # Len(t) + 1
    BY <2>1
  <2> HIDE DEF k, T
  <2> DEFINE c == value[k + 1]
             e == Escape(c)
  <2>7. /\ c \in S /\ pos[k + 1] = pos[k] + Len(e) /\ pos[k + 1] \in Nat
        /\ \A i \in 1 .. Len(e) : t[pos[k] + i + 1] = e[i]
    <3>1. k \in Nat /\ k < n
      BY <1>4, <2>2, <2>4
    <3> HIDE DEF c, e
    <3>2. c = value[k + 1] /\ e = Escape(c)
      BY DEF c, e
    <3> QED BY <1>2, <3>1, <3>2, NextPlace
  <2>8. pos[k] <= pos[n]
    BY <1>3, <2>2
  <2> HIDE DEF e
  <2>9. f[p] = Step(f, t, p, DoubleQuote, 0) /\ p + 1 \in Nat /\ p <= Len(t)
    <3>1. p \in 1 .. Len(t) + 2 /\ p + 1 \in Nat /\ p <= Len(t)
      BY <1>2, <1>4, <2>2, <2>8
    <3> QED BY <1>5, <3>1
  <2>10. /\ Len(e) \in {1, 2}
         /\ Len(e) = 2 => e[1] = "\\"
         /\ Len(e) = 1 => c # DoubleQuote /\ c # "\\" /\ e[1] = c
    <3>1. c \in S /\ e = Escape(c)
      BY <2>7 DEF e
    <3> HIDE DEF c
    <3> QED BY <3>1, EscapeForms, Zenon
  <2> HIDE DEF c
  <2>11. CASE Len(e) = 2
    <3>1. t[p] = "\\" /\ p + 2 = 2 + pos[k + 1]
      BY <2>2, <2>7, <2>10, <2>11
    <3>2. Step(f, t, p, DoubleQuote, 0) = f[p + 2]
      BY <1>4, <2>2, <2>9, <3>1, Apart DEF Step
    <3> QED BY <2>5, <2>6, <2>9, <3>1, <3>2
  <2>12. CASE Len(e) = 1
    <3>1. t[p] = c /\ p + 1 = 2 + pos[k + 1]
      BY <2>2, <2>7, <2>10, <2>12
    <3>2. Step(f, t, p, DoubleQuote, 0) = f[p + 1]
      BY <1>4, <2>2, <2>9, <2>10, <2>12, <3>1, Apart DEF Step
    <3> QED BY <2>5, <2>6, <2>9, <3>1, <3>2
  <2> QED BY <2>10, <2>11, <2>12
<1>7. f[2] = Len(t) + 1
  <2>1. n \notin T
    <3> HIDE DEF T
    <3> QED BY <1>6
  <2>2. f[2 + pos[n - n]] = Len(t) + 1
    BY <1>4, <2>1
  <2> QED BY <1>3, <1>4, <2>2
<1> QED BY <1>0, <1>5, <1>7

-----------------------------------------------------------------------------
(***************************************************************************)
(* A literal means the value it was made of.                               *)
(***************************************************************************)

\* Two symbols of t from j on are a backslash and c.
Pair(t, j, c) == j + 1 <= Len(t) /\ t[j] = "\\" /\ t[j + 1] = c

\* What Meaning makes of the symbol at j, f being what it makes of those after it.
Means(f, t, j) ==
  IF j > Len(t) THEN <<>>
  ELSE IF Pair(t, j, DoubleQuote) THEN <<DoubleQuote>> \o f[j + 2]
  ELSE IF Pair(t, j, "\\") THEN <<"\\">> \o f[j + 2]
  ELSE IF Pair(t, j, "n") THEN <<"\n">> \o f[j + 2]
  ELSE <<t[j]>> \o f[j + 1]

\* Meaning is what a function of those steps makes of the first symbol.
LEMMA MeaningSteps ==
  ASSUME NEW S, NEW t \in Seq(S)
  PROVE  \E f : Meaning(t) = f[1] /\ \A j \in 1 .. Len(t) + 1 : f[j] = Means(f, t, j)
<1> DEFINE l == Len(t) + 1
           Arms(f, j) ==
             CASE j > Len(t) -> <<>>
               [] At(t, j, <<"\\", DoubleQuote>>) -> <<DoubleQuote>> \o f[j + 2]
               [] At(t, j, <<"\\", "\\">>) -> <<"\\">> \o f[j + 2]
               [] At(t, j, <<"\\", "n">>) -> <<"\n">> \o f[j + 2]
               [] OTHER -> <<t[j]>> \o f[j + 1]
           Reads(f) == f = [j \in 1 .. l |-> Arms(f, j)]
           next == [j \in 1 .. l |->
                      IF j > Len(t) THEN 0
                      ELSE IF Pair(t, j, DoubleQuote) \/ Pair(t, j, "\\") \/ Pair(t, j, "n") THEN j + 2
                      ELSE j + 1]
           last == [j \in 1 .. l |-> <<>>]
           put == [j \in 1 .. l |->
                     IF Pair(t, j, DoubleQuote) THEN <<DoubleQuote>>
                     ELSE IF Pair(t, j, "\\") THEN <<"\\">>
                     ELSE IF Pair(t, j, "n") THEN <<"\n">>
                     ELSE <<t[j]>>]
<1>1. Len(t) \in Nat /\ l \in Nat
  BY LenProperties
<1>2. ASSUME NEW f, NEW j \in 1 .. l
      PROVE  Arms(f, j) = Means(f, t, j)
  <2>1. /\ At(t, j, <<"\\", DoubleQuote>>) <=> Pair(t, j, DoubleQuote)
        /\ At(t, j, <<"\\", "\\">>) <=> Pair(t, j, "\\")
        /\ At(t, j, <<"\\", "n">>) <=> Pair(t, j, "n")
    BY AtTwo DEF Pair
  <2>2. /\ Pair(t, j, DoubleQuote) => ~ Pair(t, j, "\\") /\ ~ Pair(t, j, "n") /\ ~ (j > Len(t))
        /\ Pair(t, j, "\\") => ~ Pair(t, j, "n") /\ ~ (j > Len(t))
        /\ Pair(t, j, "n") => ~ (j > Len(t))
    BY <1>1, Apart DEF Pair
  <2> QED BY <2>1, <2>2, Zenon DEF Means
<1>3. \A j \in 1 .. l : next[j] = 0 \/ next[j] \in (j + 1) .. l
  BY <1>1 DEF Pair
<1>4. PICK f : LooksAhead(f, next, TRUE, put, last, 1, l)
  <2> HIDE DEF l, next, put, last
  <2> QED BY <1>1, <1>3, LooksAheadExists
<1>5. ASSUME NEW j \in 1 .. l
      PROVE  f[j] = Means(f, t, j)
  <2>1. f[j] = IF next[j] = 0 THEN last[j] ELSE put[j] \o f[next[j]]
    BY <1>4 DEF LooksAhead
  <2>2. j \in Nat /\ j + 1 # 0 /\ j + 2 # 0
    BY <1>1
  <2> QED BY <2>1, <2>2, Zenon DEF Means
<1>6. Reads(f)
  <2>1. f = [j \in 1 .. l |-> f[j]]
    BY <1>4 DEF LooksAhead
  <2> HIDE DEF Arms
  <2> QED BY <1>2, <1>5, <2>1
<1> DEFINE g == CHOOSE g : Reads(g)
<1>7. Reads(g)
  <2> HIDE DEF Reads
  <2> QED BY <1>6
<1>8. Meaning(t) = g[1]
  BY Zenon DEF Meaning, DoubleQuote
<1> HIDE DEF g
<1>9. \A j \in 1 .. l : g[j] = Means(g, t, j)
  <2>1. \A j \in 1 .. l : g[j] = Arms(g, j)
    <3> HIDE DEF Arms
    <3> QED BY <1>7
  <2> QED BY <1>2, <2>1
<1> QED BY <1>8, <1>9

\* The rest of a value, symbol by symbol.
LEMMA RestOf ==
  ASSUME NEW S, NEW value \in Seq(S)
  PROVE  /\ SubSeq(value, 1, Len(value)) = value
         /\ SubSeq(value, Len(value) + 1, Len(value)) = <<>>
         /\ \A k \in 0 .. Len(value) - 1 :
              SubSeq(value, k + 1, Len(value)) = <<value[k + 1]>> \o SubSeq(value, k + 2, Len(value))
<1>1. Len(value) \in Nat
  BY LenProperties
<1>2. SubSeq(value, 1, Len(value)) = value
  BY SubSeqFull
<1>3. SubSeq(value, Len(value) + 1, Len(value)) = <<>>
  <2>1. Len(value) \in Int /\ Len(value) + 1 \in Int /\ Len(value) < Len(value) + 1
    BY <1>1
  <2> QED BY <2>1, SubSeqEmpty
<1>4. ASSUME NEW k \in 0 .. Len(value) - 1
      PROVE  SubSeq(value, k + 1, Len(value)) = <<value[k + 1]>> \o SubSeq(value, k + 2, Len(value))
  <2>1. /\ k + 1 \in 1 .. Len(value) /\ Len(value) \in (k + 1) .. Len(value)
        /\ (k + 1) + 1 = k + 2
    BY <1>1
  <2>2. SubSeq(value, k + 1, Len(value)) = <<value[k + 1]>> \o SubSeq(value, (k + 1) + 1, Len(value))
    BY <2>1, SubSeqRecursiveFirst
  <2> QED BY <2>1, <2>2
<1> QED BY <1>2, <1>3, <1>4

\* The characters of a value come back one by one, each from the symbols it was written with.
LEMMA EscapedMeansValue ==
  ASSUME NEW S, NEW value \in Seq(S)
  PROVE  Meaning(Escaped(value)) = value
<1> DEFINE n == Len(value)
           Rest(k) == SubSeq(value, k + 1, n)
<1>0. PICK t : t = Escaped(value)
  OBVIOUS
<1>1. t \in Seq(Written(S))
  BY <1>0, EscapedPlaces
<1>2. PICK pos : Places(pos, value, t, 0) /\ pos[n] = Len(t)
  BY <1>0, EscapedPlaces
<1>3. \A k \in 0 .. n : pos[k] \in Nat /\ pos[k] <= pos[n]
  BY <1>2 DEF Places
<1>4. n \in Nat /\ pos[n] \in Nat /\ pos[0] = 0 /\ Len(t) \in Nat
  <2>1. n \in Nat /\ Len(t) \in Nat
    BY <1>1, LenProperties
  <2> QED BY <1>2, <1>3, <2>1 DEF Places
<1>5. PICK f : Meaning(t) = f[1] /\ \A j \in 1 .. Len(t) + 1 : f[j] = Means(f, t, j)
  BY <1>1, MeaningSteps
<1> DEFINE T == {m \in Nat : m <= n /\ f[1 + pos[n - m]] # Rest(n - m)}
<1>6. T = {}
  <2> SUFFICES ASSUME T # {} PROVE FALSE
    OBVIOUS
  <2>0. T \in SUBSET Nat
    OBVIOUS
  <2>1. PICK m \in T : \A i \in T : m <= i
    <3> HIDE DEF T
    <3> QED BY <2>0, SmallestNumber
  <2> DEFINE k == n - m
             p == 1 + pos[k]
             c == value[k + 1]
             e == Escape(c)
  <2>2. m \in Nat /\ k \in 0 .. n /\ pos[k] \in Nat /\ pos[n] \in Nat
    <3>1. m \in Nat /\ m <= n
      <4> HIDE DEF Rest, n
      <4> QED BY <2>1
    <3> HIDE DEF T, Rest, n
    <3> QED BY <1>3, <1>4, <3>1
  <2>3. f[1 + pos[k]] # Rest(k)
    BY <2>1
  <2>4. m # 0
    <3> SUFFICES ASSUME m = 0 PROVE f[1 + pos[k]] = Rest(k)
      BY <2>3
    <3>1. k = n /\ 1 + pos[k] = Len(t) + 1
      BY <1>2, <1>4, <2>2
    <3>2. f[Len(t) + 1] = Means(f, t, Len(t) + 1)
      BY <1>4, <1>5
    <3>3. Means(f, t, Len(t) + 1) = <<>>
      BY <1>4 DEF Means
    <3>4. Rest(n) = <<>>
      BY RestOf
    <3> HIDE DEF k, Rest
    <3> QED BY <3>1, <3>2, <3>3, <3>4
  <2>5. m - 1 \in Nat /\ m - 1 <= n /\ m - 1 \notin T /\ n - (m - 1) = k + 1 /\ k + 1 \in 1 .. n
    <3>1. m - 1 \in Nat /\ m - 1 <= n /\ ~ (m <= m - 1) /\ n - (m - 1) = k + 1 /\ k + 1 \in 1 .. n
      BY <1>4, <2>2, <2>4
    <3> HIDE DEF T
    <3> QED BY <2>1, <3>1
  <2>6. f[1 + pos[k + 1]] = Rest(k + 1)
    <3>1. f[1 + pos[n - (m - 1)]] = Rest(n - (m - 1))
      BY <2>5
    <3> HIDE DEF k, Rest, T
    <3> QED BY <2>5, <3>1
  <2>7. Rest(k) = <<c>> \o Rest(k + 1)
    <3>1. k \in 0 .. n - 1 /\ (k + 1) + 1 = k + 2
      BY <1>4, <2>2, <2>5
    <3>2. SubSeq(value, k + 1, n) = <<value[k + 1]>> \o SubSeq(value, k + 2, n)
      <4> HIDE DEF k
      <4> QED BY <3>1, RestOf
    <3> HIDE DEF k
    <3> QED BY <3>1, <3>2
  <2> HIDE DEF k, T, Rest
  <2>8. /\ c \in S /\ pos[k + 1] = pos[k] + Len(e) /\ pos[k + 1] \in Nat /\ pos[k + 1] <= Len(t)
        /\ \A i \in 1 .. Len(e) : t[pos[k] + i + 0] = e[i]
    <3>1. k \in Nat /\ k < n
      BY <1>4, <2>2, <2>5
    <3> HIDE DEF c, e
    <3>2. c = value[k + 1] /\ e = Escape(c)
      BY DEF c, e
    <3> QED BY <1>2, <3>1, <3>2, NextPlace
  <2> HIDE DEF e
  <2>9. /\ Len(e) \in {1, 2}
        /\ Len(e) = 2 => /\ e[1] = "\\"
                         /\ \/ c = DoubleQuote /\ e[2] = DoubleQuote
                            \/ c = "\\" /\ e[2] = "\\"
                            \/ c = "\n" /\ e[2] = "n"
        /\ Len(e) = 1 => c # DoubleQuote /\ c # "\\" /\ e[1] = c
    <3>1. c \in S /\ e = Escape(c)
      BY <2>8 DEF e
    <3> HIDE DEF c
    <3> QED BY <3>1, EscapeForms
  <2> HIDE DEF c
  <2>10. p + Len(e) = 1 + pos[k + 1] /\ p + Len(e) <= Len(t) + 1 /\ p \in 1 .. Len(t) + 1
    <3>1. Len(e) \in Nat /\ p \in Nat /\ p >= 1
      BY <2>2, <2>9
    <3>2. p + Len(e) = 1 + pos[k + 1]
      BY <2>2, <2>8, <3>1
    <3>3. p <= Len(t) + 1
      BY <1>2, <1>3, <1>4, <2>2
    <3> HIDE DEF p
    <3> QED BY <1>4, <2>8, <3>1, <3>2, <3>3
  <2>11. f[p] = Means(f, t, p)
    BY <1>5, <2>10
  <2>12. \A i \in 1 .. Len(e) : t[pos[k] + i] = e[i]
    <3>1. ASSUME NEW i \in 1 .. Len(e) PROVE t[pos[k] + i] = e[i]
      <4>1. pos[k] + i + 0 = pos[k] + i
        BY <2>2, <2>9
      <4> QED BY <2>8, <4>1
    <3> QED BY <3>1
  <2>13. CASE Len(e) = 2
    <3>1. t[p] = "\\" /\ t[p + 1] = e[2] /\ p + 1 <= Len(t) /\ ~ (p > Len(t)) /\ p + 2 = 1 + pos[k + 1]
      <4>1. pos[k] + 1 = p /\ pos[k] + 2 = p + 1 /\ 1 \in 1 .. Len(e) /\ 2 \in 1 .. Len(e)
        BY <2>2, <2>13
      <4> HIDE DEF p
      <4>2. t[pos[k] + 1] = e[1] /\ t[pos[k] + 2] = e[2]
        BY <2>12, <4>1, Zenon
      <4>3. p + 1 <= Len(t) /\ ~ (p > Len(t)) /\ p + 2 = 1 + pos[k + 1]
        BY <1>4, <2>10, <2>13
      <4>4. e[1] = "\\"
        BY <2>9, <2>13
      <4> QED BY <4>1, <4>2, <4>3, <4>4, Zenon
    <3>2. Pair(t, p, e[2])
      BY <3>1 DEF Pair
    <3>3. \A d : Pair(t, p, d) => d = e[2]
      BY <3>1 DEF Pair
    <3>4. Means(f, t, p) = <<c>> \o f[p + 2]
      BY <2>9, <2>13, <3>1, <3>2, <3>3, Apart DEF Means
    <3> QED BY <2>3, <2>6, <2>7, <2>11, <3>1, <3>4
  <2>14. CASE Len(e) = 1
    <3>1. t[p] = c /\ c # "\\" /\ p <= Len(t) /\ ~ (p > Len(t)) /\ p + 1 = 1 + pos[k + 1]
      BY <1>4, <2>2, <2>9, <2>10, <2>12, <2>14
    <3>2. \A d : ~ Pair(t, p, d)
      BY <3>1 DEF Pair
    <3>3. Means(f, t, p) = <<c>> \o f[p + 1]
      BY <3>1, <3>2 DEF Means
    <3> QED BY <2>3, <2>6, <2>7, <2>11, <3>1, <3>3
  <2> QED BY <2>9, <2>13, <2>14
<1>7. f[1] = Rest(0)
  <2>1. n \in Nat /\ n <= n /\ n \notin T /\ n - n = 0 /\ 1 + pos[0] = 1
    <3> HIDE DEF T
    <3> QED BY <1>4, <1>6
  <2>2. f[1 + pos[n - n]] = Rest(n - n)
    BY <2>1
  <2> HIDE DEF T, Rest
  <2> QED BY <2>1, <2>2
<1>8. Rest(0) = value
  <2>1. 0 + 1 = 1 /\ SubSeq(value, 1, n) = value
    BY RestOf
  <2> QED BY <2>1
<1> QED BY <1>0, <1>5, <1>7, <1>8

-----------------------------------------------------------------------------
(***************************************************************************)
(* What a token is, and that it is one wherever it stands.                 *)
(***************************************************************************)
\* The symbols that tell the tokens apart are none of another kind.
LEMMA Kinds ==
  /\ Quote = {"'", DoubleQuote, "tick"} /\ DoubleQuote \notin Word
  /\ DoubleQuote # "$" /\ DoubleQuote # "/" /\ DoubleQuote # "*" /\ DoubleQuote # ";" /\ DoubleQuote # "\n"
  /\ \A q \in Quote : q \notin Word /\ q \notin Space /\ q # "\\" /\ q # "$" /\ q # "/" /\ q # ";"
  /\ \A w \in Word : w \notin Space /\ w # "\n" /\ w # "\\" /\ w # "$" /\ w # "/" /\ w # "*" /\ w # ";"
  /\ Space = {" ", "\n"}
<1>1. Quote = {"'", DoubleQuote, "tick"}
  BY Zenon DEF Quote, DoubleQuote
<1>2. DoubleQuote \notin Word
  BY Zenon DEF DoubleQuote, Word, Clause, Forbidden
<1>3. /\ DoubleQuote # "$" /\ DoubleQuote # "/" /\ DoubleQuote # "*" /\ DoubleQuote # ";" /\ DoubleQuote # "\n"
      /\ DoubleQuote # "\\" /\ DoubleQuote # " "
  BY Zenon DEF DoubleQuote
<1>4. \A q \in {"'", "tick"} : q \notin Word
  BY DEF Word, Clause, Forbidden
<1>5. \A w \in Word : w \notin Space /\ w # "\n" /\ w # "\\" /\ w # "$" /\ w # "/" /\ w # "*" /\ w # ";"
  BY DEF Word, Clause, Forbidden, Space
<1>6. Space = {" ", "\n"}
  BY DEF Space
<1>7. \A q \in Quote : q \notin Word /\ q \notin Space /\ q # "\\" /\ q # "$" /\ q # "/" /\ q # ";"
  BY <1>1, <1>2, <1>3, <1>4, <1>6
<1> QED BY <1>1, <1>2, <1>3, <1>5, <1>6, <1>7

\* The place a search stops at, or the one past the end.
LEMMA Least ==
  ASSUME NEW l \in Nat, NEW T \in SUBSET Nat, \A j \in T : j <= l + 1, NEW m
  PROVE  m = Min(T \cup {l + 1}) <=> m \in T \cup {l + 1} /\ \A j \in T : m <= j
<1> DEFINE U == T \cup {l + 1}
<1>1. U \in SUBSET Nat /\ U # {}
  OBVIOUS
<1>2. PICK n \in U : \A j \in U : n <= j
  <2> HIDE DEF U
  <2> QED BY <1>1, SmallestNumber
<1> DEFINE c == CHOOSE x \in U : \A y \in U : x =< y
<1>3. c \in U /\ \A y \in U : c <= y
  <2> HIDE DEF U
  <2> QED BY <1>2
<1>4. Min(U) = c
  BY DEF Min
<1> HIDE DEF c
<1>5. ASSUME m \in U, \A j \in T : m <= j PROVE m = c
  <2>1. m \in Nat /\ c \in Nat /\ c <= m
    BY <1>1, <1>3, <1>5
  <2>2. m <= c
    BY <1>3, <1>5, <2>1
  <2> QED BY <2>1, <2>2
<1> QED BY <1>3, <1>4, <1>5

\* m is the first place of t from i on with a symbol of set, or the one past the end.
Stops(t, i, m, set) ==
  /\ m \in i .. Len(t) + 1
  /\ m <= Len(t) => t[m] \in set
  /\ \A j \in i .. Len(t) : j < m => t[j] \notin set

\* First is the place that stops so, and no other is.
LEMMA FirstStops ==
  ASSUME NEW S, NEW t \in Seq(S), NEW i \in Nat, i <= Len(t) + 1, NEW set, NEW m
  PROVE  m = First(t, i, set) <=> Stops(t, i, m, set)
<1> DEFINE T == {j \in i .. Len(t) : t[j] \in set}
<1>1. Len(t) \in Nat
  BY LenProperties
<1>2. T \in SUBSET Nat /\ \A j \in T : j <= Len(t) + 1
  BY <1>1
<1>3. m = Min(T \cup {Len(t) + 1}) <=> m \in T \cup {Len(t) + 1} /\ \A j \in T : m <= j
  <2> HIDE DEF T
  <2> QED BY <1>1, <1>2, Least
<1>4. m \in T \cup {Len(t) + 1} /\ (\A j \in T : m <= j) <=> Stops(t, i, m, set)
  <2>1. ASSUME m \in T \cup {Len(t) + 1}, \A j \in T : m <= j
        PROVE  Stops(t, i, m, set)
    <3>1. m \in Nat /\ m \in i .. Len(t) + 1 /\ (m <= Len(t) => t[m] \in set)
      BY <1>1, <2>1
    <3>2. ASSUME NEW j \in i .. Len(t), j < m PROVE t[j] \notin set
      <4>1. j \in Nat /\ ~ (m <= j)
        BY <1>1, <3>1, <3>2
      <4> QED BY <2>1, <4>1
    <3> QED BY <3>1, <3>2 DEF Stops
  <2>2. ASSUME Stops(t, i, m, set)
        PROVE  m \in T \cup {Len(t) + 1} /\ \A j \in T : m <= j
    <3>1. m \in T \cup {Len(t) + 1} /\ m \in Nat
      BY <1>1, <2>2 DEF Stops
    <3>2. ASSUME NEW j \in T PROVE m <= j
      BY <1>1, <2>2, <3>1 DEF Stops
    <3> QED BY <3>1, <3>2
  <2> QED BY <2>1, <2>2
<1> QED BY <1>3, <1>4 DEF First

\* m is the end of the word at i.
Leaves(t, i, m) ==
  /\ m \in i .. Len(t) + 1
  /\ m <= Len(t) => t[m] \notin Word
  /\ \A j \in i .. Len(t) : j < m => t[j] \in Word

\* Likewise WordEnd.
LEMMA WordEndLeaves ==
  ASSUME NEW S, NEW t \in Seq(S), NEW i \in Nat \ {0}, i <= Len(t) + 1, NEW m
  PROVE  m = WordEnd(t, i) <=> Leaves(t, i, m)
<1>1. Len(t) \in Nat
  BY LenProperties
<1>2. \A j \in i .. Len(t) : t[j] \in S \ Word <=> t[j] \notin Word
  BY <1>1, ElementOfSeq
<1>3. {j \in i .. Len(t) : t[j] \in S \ Word} = {j \in i .. Len(t) : t[j] \notin Word}
  BY <1>2
<1>4. WordEnd(t, i) = First(t, i, S \ Word)
  BY <1>3 DEF WordEnd, First
<1>5. Stops(t, i, m, S \ Word) <=> Leaves(t, i, m)
  BY <1>1, <1>2 DEF Stops, Leaves
<1> QED BY <1>4, <1>5, FirstStops

\* a and b stand in t at i.
Starts(t, i, a, b) == i + 1 <= Len(t) /\ t[i] = a /\ t[i + 1] = b

\* The end of a token, by the symbol it begins with.
LEMMA TokenKinds ==
  ASSUME NEW S, NEW t \in Seq(S), NEW i \in 1 .. Len(t)
  PROVE  TokenEnd(t, i) =
           IF Starts(t, i, "/", "*") \/ t[i] = ";" THEN 0
           ELSE IF Starts(t, i, "/", "/") THEN First(t, i, {"\n"})
           ELSE IF t[i] \in Quote THEN QuotedEnd(t, i, 0)
           ELSE IF t[i] \in Word \cup {"$"} THEN WordEnd(t, i + 1)
           ELSE i + 1
<1>1. Len(t) \in Nat /\ i \in Nat \ {0}
  BY LenProperties
<1>2. /\ At(t, i, <<"/", "*">>) <=> Starts(t, i, "/", "*")
      /\ At(t, i, <<"/", "/">>) <=> Starts(t, i, "/", "/")
  BY <1>1, AtTwo DEF Starts
<1>3. /\ Starts(t, i, "/", "*") => t[i] = "/" /\ ~ Starts(t, i, "/", "/")
      /\ Starts(t, i, "/", "/") => t[i] = "/"
  BY DEF Starts
<1>4. /\ t[i] = "/" => t[i] # ";" /\ t[i] \notin Quote /\ t[i] \notin Word \cup {"$"}
      /\ t[i] \in Quote => t[i] # ";" /\ t[i] \notin Word \cup {"$"}
      /\ t[i] \in Word \cup {"$"} => t[i] # ";"
  BY Kinds
<1> QED BY <1>2, <1>3, <1>4, Zenon DEF TokenEnd

\* A token that begins at i does not end at a symbol c that belongs to it.
Ends(t, i, c) ==
  /\ Starts(t, i, "/", "/") => c = "\n"
  /\ t[i] = "/" /\ ~ Starts(t, i, "/", "/") => c # "/" /\ c # "*"
  /\ t[i] \in Quote => c # t[i]
  /\ t[i] \in Word \cup {"$"} => c \notin Word

\* A token that ends does so at a symbol that is not part of it, and is no block comment or semicolon.
LEMMA TokenEnds ==
  ASSUME NEW S, NEW t \in Seq(S), NEW i \in 1 .. Len(t), NEW m, m = TokenEnd(t, i), m # 0
  PROVE  /\ m \in (i + 1) .. (Len(t) + 1)
         /\ m <= Len(t) => Ends(t, i, t[m])
         /\ ~ Starts(t, i, "/", "*") /\ t[i] # ";"
<1>1. Len(t) \in Nat /\ i \in Nat /\ i <= Len(t)
  BY LenProperties
<1>2. ~ Starts(t, i, "/", "*") /\ t[i] # ";"
  BY TokenKinds
<1>3. Starts(t, i, "/", "/") => t[i] = "/" /\ i + 1 <= Len(t) /\ t[i + 1] = "/"
  BY DEF Starts
<1>4. t[i] = "/" => t[i] \notin Quote /\ t[i] \notin Word \cup {"$"}
  BY Kinds
<1>5. t[i] \in Quote => t[i] \notin Word \cup {"$"} /\ t[i] # "\\"
  BY Kinds
<1>6. CASE Starts(t, i, "/", "/")
  <2>1. m = First(t, i, {"\n"})
    BY <1>2, <1>6, TokenKinds
  <2>2. Stops(t, i, m, {"\n"})
    BY <1>1, <2>1, FirstStops
  <2>3. t[i] # "\n"
    BY <1>3, <1>6
  <2>4. m \in (i + 1) .. (Len(t) + 1) /\ (m <= Len(t) => t[m] = "\n")
    BY <1>1, <2>2, <2>3 DEF Stops
  <2> QED BY <1>2, <1>3, <1>4, <1>6, <2>4 DEF Ends
<1>7. CASE ~ Starts(t, i, "/", "/") /\ t[i] \in Quote
  <2>1. m = QuotedEnd(t, i, 0)
    BY <1>2, <1>7, TokenKinds
  <2>2. m \in (i + 2) .. (Len(t) + 1) /\ (m <= Len(t) => t[m] # t[i])
    BY <1>5, <1>7, <2>1, QuotedCloses
  <2>3. m \in (i + 1) .. (Len(t) + 1)
    BY <1>1, <2>2
  <2> QED BY <1>2, <1>4, <1>5, <1>7, <2>2, <2>3 DEF Ends
<1>8. CASE ~ Starts(t, i, "/", "/") /\ t[i] \notin Quote /\ t[i] \in Word \cup {"$"}
  <2>1. m = WordEnd(t, i + 1)
    BY <1>2, <1>8, TokenKinds
  <2>2. Leaves(t, i + 1, m)
    BY <1>1, <2>1, WordEndLeaves
  <2> QED BY <1>2, <1>4, <1>8, <2>2 DEF Ends, Leaves
<1>9. CASE ~ Starts(t, i, "/", "/") /\ t[i] \notin Quote /\ t[i] \notin Word \cup {"$"}
  <2>1. m = i + 1
    BY <1>2, <1>9, TokenKinds
  <2>2. m <= Len(t) /\ t[i] = "/" => t[m] # "/" /\ t[m] # "*"
    BY <1>2, <1>9, <2>1 DEF Starts
  <2>3. m \in (i + 1) .. (Len(t) + 1)
    BY <1>1, <2>1
  <2> QED BY <1>2, <1>9, <2>2, <2>3 DEF Ends
<1> QED BY <1>6, <1>7, <1>8, <1>9

\* A token is one wherever its symbols stand, if what follows does not belong to it.
LEMMA TokenMoves ==
  ASSUME NEW S, NEW t \in Seq(S), NEW i \in 1 .. Len(t), NEW m, m = TokenEnd(t, i), m # 0,
         NEW R, NEW u \in Seq(R), NEW k \in 1 .. Len(u),
         NEW n \in 1 .. Len(u) + 1, n = k + (m - i), Same(t, i, u, k, m - i),
         n <= Len(u) => Ends(t, i, u[n])
  PROVE  TokenEnd(u, k) = n /\ u[k] = t[i] /\ (Starts(u, k, "/", "/") <=> Starts(t, i, "/", "/"))
<1>1. Len(t) \in Nat /\ i \in Nat /\ Len(u) \in Nat /\ k \in Nat /\ i <= Len(t) /\ k <= Len(u)
  BY LenProperties
<1>0. m \in (i + 1) .. (Len(t) + 1)
  BY TokenEnds
<1>2. ~ Starts(t, i, "/", "*") /\ t[i] # ";"
  BY TokenKinds
<1>3. n \in (k + 1) .. (Len(u) + 1)
  BY <1>0, <1>1
<1>4. u[k] = t[i]
  <2>1. 0 \in 0 .. (m - i) - 1 /\ k + 0 = k /\ i + 0 = i
    BY <1>0, <1>1
  <2>2. u[k + 0] = t[i + 0]
    BY <2>1 DEF Same
  <2> QED BY <2>1, <2>2
<1>5. ASSUME NEW j \in k .. Len(u), j < n
      PROVE  i + (j - k) \in i .. Len(t) /\ i + (j - k) < m /\ u[j] = t[i + (j - k)] /\ (j # k => i + (j - k) \in (i + 1) .. Len(t))
  <2>1. j - k \in 0 .. (m - i) - 1 /\ k + (j - k) = j
    BY <1>0, <1>1, <1>5
  <2>2. u[k + (j - k)] = t[i + (j - k)]
    BY <2>1 DEF Same
  <2>3. i + (j - k) \in i .. Len(t) /\ i + (j - k) < m /\ (j # k => i + (j - k) \in (i + 1) .. Len(t))
    BY <1>0, <1>1, <1>5
  <2> QED BY <2>1, <2>2, <2>3
<1>6. n <= Len(u) => Ends(t, i, u[n])
  OBVIOUS
<1>7. /\ t[i] = "/" => t[i] \notin Quote /\ t[i] \notin Word \cup {"$"}
      /\ t[i] \in Quote => t[i] \notin Word \cup {"$"} /\ t[i] # "\\" /\ t[i] # "/"
  BY Kinds
<1>8. ~ Starts(u, k, "/", "*") /\ (Starts(u, k, "/", "/") <=> Starts(t, i, "/", "/"))
  <2>1. CASE k + 1 < n
    <3>1. u[k + 1] = t[i + 1] /\ k + 1 <= Len(u) /\ i + 1 <= Len(t)
      <4>1. k + 1 \in k .. Len(u) /\ i + ((k + 1) - k) = i + 1
        BY <1>1, <1>3, <2>1
      <4> QED BY <1>1, <1>5, <2>1, <4>1
    <3> QED BY <1>2, <1>4, <3>1 DEF Starts
  <2>2. CASE ~ (k + 1 < n)
    <3>1. n = k + 1 /\ m = i + 1
      BY <1>0, <1>1, <1>3, <2>2
    <3>2. ~ Starts(t, i, "/", "/")
      <4> SUFFICES ASSUME Starts(t, i, "/", "/") PROVE FALSE
        OBVIOUS
      <4>1. t[i + 1] = "/" /\ i + 1 <= Len(t)
        BY DEF Starts
      <4>2. Ends(t, i, t[m])
        BY <3>1, <4>1, TokenEnds
      <4> QED BY <3>1, <4>1, <4>2 DEF Ends
    <3> QED BY <1>4, <1>6, <3>1, <3>2 DEF Starts, Ends
  <2> QED BY <2>1, <2>2
<1> SUFFICES TokenEnd(u, k) = n
  BY <1>4, <1>8
<1>9. CASE Starts(t, i, "/", "/")
  <2>1. m = First(t, i, {"\n"}) /\ TokenEnd(u, k) = First(u, k, {"\n"})
    BY <1>2, <1>4, <1>8, <1>9, TokenKinds
  <2>2. Stops(t, i, m, {"\n"})
    BY <1>1, <2>1, FirstStops
  <2>3. n <= Len(u) => u[n] = "\n"
    BY <1>6, <1>9 DEF Ends
  <2>4. ASSUME NEW j \in k .. Len(u), j < n PROVE u[j] \notin {"\n"}
    BY <1>5, <2>2, <2>4 DEF Stops
  <2>5. Stops(u, k, n, {"\n"})
    BY <1>1, <1>3, <2>3, <2>4 DEF Stops
  <2>6. n = First(u, k, {"\n"})
    BY <1>1, <2>5, FirstStops
  <2> QED BY <2>1, <2>6
<1>10. CASE ~ Starts(t, i, "/", "/") /\ t[i] \in Quote
  <2>1. m = QuotedEnd(t, i, 0) /\ TokenEnd(u, k) = QuotedEnd(u, k, 0)
    BY <1>2, <1>4, <1>8, <1>10, TokenKinds
  <2>2. k + (m - i) <= Len(u) + 1 /\ (k + (m - i) <= Len(u) => u[k + (m - i)] # t[i])
    BY <1>10 DEF Ends
  <2>3. QuotedEnd(u, k, 0) = k + (m - i)
    BY <1>7, <1>10, <2>1, <2>2, QuotedMoves
  <2> QED BY <2>1, <2>3
<1>11. CASE ~ Starts(t, i, "/", "/") /\ t[i] \notin Quote /\ t[i] \in Word \cup {"$"}
  <2>1. m = WordEnd(t, i + 1) /\ TokenEnd(u, k) = WordEnd(u, k + 1)
    BY <1>2, <1>4, <1>8, <1>11, TokenKinds
  <2>2. Leaves(t, i + 1, m)
    BY <1>1, <2>1, WordEndLeaves
  <2>3. n <= Len(u) => u[n] \notin Word
    BY <1>6, <1>11 DEF Ends
  <2>4. ASSUME NEW j \in k + 1 .. Len(u), j < n PROVE u[j] \in Word
    <3>1. j \in k .. Len(u) /\ j # k
      BY <1>1
    <3> QED BY <1>5, <2>2, <2>4, <3>1 DEF Leaves
  <2>5. Leaves(u, k + 1, n)
    BY <1>1, <1>3, <2>3, <2>4 DEF Leaves
  <2>6. n = WordEnd(u, k + 1)
    BY <1>1, <2>5, WordEndLeaves
  <2> QED BY <2>1, <2>6
<1>12. CASE ~ Starts(t, i, "/", "/") /\ t[i] \notin Quote /\ t[i] \notin Word \cup {"$"}
  <2>1. m = i + 1 /\ TokenEnd(u, k) = k + 1
    BY <1>2, <1>4, <1>8, <1>12, TokenKinds
  <2> QED BY <1>1, <2>1
<1> QED BY <1>9, <1>10, <1>11, <1>12

-----------------------------------------------------------------------------
(***************************************************************************)
(* How inlineParameters goes through a text.                               *)
(***************************************************************************)
\* The end of a comment that no validated query has.
CommentEnd(t, i) ==
  Min({j + 2 : j \in {j \in i + 2 .. Len(t) : At(t, j, <<"*", "/">>)}} \cup {Len(t) + 1})

\* The end of a piece for inlineParameters, by the symbol it begins with.
LEMMA InlineKinds ==
  ASSUME NEW S, NEW t \in Seq(S), NEW i \in 1 .. Len(t)
  PROVE  InlineEnd(t, i) =
           IF t[i] \in Quote THEN QuotedEnd(t, i, Len(t) + 1)
           ELSE IF Starts(t, i, "/", "/") THEN First(t, i, {"\n"})
           ELSE IF Starts(t, i, "/", "*") THEN CommentEnd(t, i)
           ELSE IF t[i] = "$" /\ i < Len(t) /\ t[i + 1] \in Word THEN WordEnd(t, i + 1)
           ELSE i + 1
<1>1. Len(t) \in Nat /\ i \in Nat \ {0}
  BY LenProperties
<1>2. /\ At(t, i, <<"/", "*">>) <=> Starts(t, i, "/", "*")
      /\ At(t, i, <<"/", "/">>) <=> Starts(t, i, "/", "/")
  BY <1>1, AtTwo DEF Starts
<1>3. /\ Starts(t, i, "/", "*") => t[i] = "/" /\ ~ Starts(t, i, "/", "/")
      /\ Starts(t, i, "/", "/") => t[i] = "/"
  BY DEF Starts
<1>4. /\ t[i] = "/" => t[i] # "$"
      /\ t[i] \in Quote => t[i] # "/" /\ t[i] # "$"
  BY Kinds
<1> QED BY <1>2, <1>3, <1>4, Zenon DEF InlineEnd, SkipQuoted, CommentEnd

\* inlineParameters always goes on.
LEMMA InlineEnds ==
  ASSUME NEW S, NEW t \in Seq(S), NEW i \in 1 .. Len(t)
  PROVE  InlineEnd(t, i) \in (i + 1) .. (Len(t) + 1)
<1>1. Len(t) \in Nat /\ i \in Nat \ {0} /\ i <= Len(t)
  BY LenProperties
<1>2. CASE t[i] \in Quote
  <2>1. InlineEnd(t, i) = QuotedEnd(t, i, Len(t) + 1)
    BY <1>2, InlineKinds
  <2>2. t[i] # "\\"
    BY <1>2, Kinds
  <2>3. \/ QuotedEnd(t, i, Len(t) + 1) = Len(t) + 1
        \/ QuotedEnd(t, i, Len(t) + 1) \in (i + 2) .. (Len(t) + 1)
    BY <2>2, QuotedCloses
  <2> QED BY <1>1, <2>1, <2>3
<1>3. CASE t[i] \notin Quote /\ Starts(t, i, "/", "/")
  <2> DEFINE m == First(t, i, {"\n"})
  <2>1. InlineEnd(t, i) = m
    BY <1>3, InlineKinds
  <2> HIDE DEF m
  <2>2. Stops(t, i, m, {"\n"})
    BY <1>1, FirstStops DEF m
  <2>3. t[i] # "\n"
    BY <1>3 DEF Starts
  <2> QED BY <1>1, <2>1, <2>2, <2>3 DEF Stops
<1>4. CASE t[i] \notin Quote /\ ~ Starts(t, i, "/", "/") /\ Starts(t, i, "/", "*")
  <2> DEFINE T == {j + 2 : j \in {j \in i + 2 .. Len(t) : At(t, j, <<"*", "/">>)}}
             m == Min(T \cup {Len(t) + 1})
  <2>1. InlineEnd(t, i) = m
    BY <1>4, InlineKinds DEF CommentEnd
  <2>2. \A j \in T : j \in Nat /\ j <= Len(t) + 1 /\ j > i
    <3> SUFFICES ASSUME NEW j \in i + 2 .. Len(t), At(t, j, <<"*", "/">>)
                 PROVE  j + 2 \in Nat /\ j + 2 <= Len(t) + 1 /\ j + 2 > i
      OBVIOUS
    <3>1. j \in Nat \ {0}
      BY <1>1
    <3>2. j + 1 <= Len(t)
      BY <3>1, AtTwo
    <3> QED BY <1>1, <3>1, <3>2
  <2>3. m \in T \cup {Len(t) + 1}
    <3>1. T \in SUBSET Nat /\ \A j \in T : j <= Len(t) + 1
      BY <2>2
    <3> HIDE DEF T
    <3>2. m = Min(T \cup {Len(t) + 1})
      BY DEF m
    <3> HIDE DEF m
    <3>3. m = Min(T \cup {Len(t) + 1}) <=> m \in T \cup {Len(t) + 1} /\ \A j \in T : m <= j
      BY <1>1, <3>1, Least
    <3> QED BY <3>2, <3>3
  <2> HIDE DEF T, m
  <2> QED BY <1>1, <2>1, <2>2, <2>3
<1>5. CASE t[i] \notin Quote /\ ~ Starts(t, i, "/", "/") /\ ~ Starts(t, i, "/", "*")
  <2>1. CASE t[i] = "$" /\ i < Len(t) /\ t[i + 1] \in Word
    <3> DEFINE m == WordEnd(t, i + 1)
    <3>1. InlineEnd(t, i) = m
      BY <1>5, <2>1, InlineKinds
    <3> HIDE DEF m
    <3>2. Leaves(t, i + 1, m)
      BY <1>1, WordEndLeaves DEF m
    <3> QED BY <1>1, <3>1, <3>2 DEF Leaves
  <2>2. CASE ~ (t[i] = "$" /\ i < Len(t) /\ t[i + 1] \in Word)
    <3>1. InlineEnd(t, i) = i + 1
      BY <1>5, <2>2, InlineKinds
    <3> QED BY <1>1, <3>1
  <2> QED BY <2>1, <2>2
<1> QED BY <1>2, <1>3, <1>4, <1>5

\* It takes a token for what it is, but for a word, which it goes through symbol by symbol.
LEMMA InlineTokens ==
  ASSUME NEW S, NEW t \in Seq(S), NEW i \in 1 .. Len(t)
  PROVE  /\ t[i] \in Word => InlineEnd(t, i) = i + 1
         /\ t[i] \notin Word /\ TokenEnd(t, i) # 0 => InlineEnd(t, i) = TokenEnd(t, i)
<1>1. Len(t) \in Nat /\ i \in Nat \ {0} /\ i <= Len(t)
  BY LenProperties
<1>2. /\ Starts(t, i, "/", "/") => t[i] = "/"
      /\ Starts(t, i, "/", "*") => t[i] = "/"
  BY DEF Starts
<1>3. /\ t[i] = "/" => t[i] \notin Quote /\ t[i] \notin Word \cup {"$"}
      /\ t[i] \in Quote => t[i] \notin Word \cup {"$"} /\ t[i] # "\\" /\ t[i] # "/"
      /\ t[i] \in Word => t[i] # "$"
  BY Kinds
<1>4. t[i] \in Word => InlineEnd(t, i) = i + 1
  BY <1>2, <1>3, InlineKinds
<1>5. ASSUME t[i] \notin Word, NEW m, m = TokenEnd(t, i), m # 0
      PROVE  InlineEnd(t, i) = m
  <2>1. ~ Starts(t, i, "/", "*") /\ t[i] # ";"
    BY <1>5, TokenKinds
  <2>2. CASE Starts(t, i, "/", "/")
    BY <1>2, <1>3, <1>5, <2>1, <2>2, TokenKinds, InlineKinds
  <2>3. CASE t[i] \in Quote
    <3>1. m = QuotedEnd(t, i, 0) /\ InlineEnd(t, i) = QuotedEnd(t, i, Len(t) + 1)
      BY <1>2, <1>3, <1>5, <2>1, <2>3, TokenKinds, InlineKinds
    <3>2. m \in (i + 2) .. (Len(t) + 1) /\ (m <= Len(t) => t[m] # t[i])
      BY <1>3, <1>5, <2>3, <3>1, QuotedCloses
    <3>3. i + (m - i) = m
      BY <1>1, <3>2
    <3>4. Same(t, i, t, i, m - i)
      BY DEF Same
    <3>5. i + (m - i) <= Len(t) + 1 /\ (i + (m - i) <= Len(t) => t[i + (m - i)] # t[i])
      BY <1>1, <3>2, <3>3
    <3>6. QuotedEnd(t, i, Len(t) + 1) = i + (m - i)
      BY <1>3, <1>5, <2>3, <3>1, <3>4, <3>5, QuotedMoves
    <3> QED BY <3>1, <3>3, <3>6
  <2>4. CASE ~ Starts(t, i, "/", "/") /\ t[i] \notin Quote /\ t[i] = "$"
    <3>1. m = WordEnd(t, i + 1)
      BY <1>5, <2>1, <2>4, TokenKinds
    <3>2. Leaves(t, i + 1, m)
      BY <1>1, <3>1, WordEndLeaves
    <3>3. CASE i < Len(t) /\ t[i + 1] \in Word
      BY <2>1, <2>4, <3>1, <3>3, InlineKinds
    <3>4. CASE ~ (i < Len(t) /\ t[i + 1] \in Word)
      <4>1. InlineEnd(t, i) = i + 1
        BY <2>1, <2>4, <3>4, InlineKinds
      <4>2. m = i + 1
        BY <1>1, <3>2, <3>4 DEF Leaves
      <4> QED BY <4>1, <4>2
    <3> QED BY <3>3, <3>4
  <2>5. CASE ~ Starts(t, i, "/", "/") /\ t[i] \notin Quote /\ t[i] # "$"
    <3>1. m = i + 1
      BY <1>5, <2>1, <2>5, TokenKinds
    <3>2. InlineEnd(t, i) = i + 1
      BY <2>1, <2>5, InlineKinds
    <3> QED BY <3>1, <3>2
  <2> QED BY <2>2, <2>3, <2>4, <2>5
<1> QED BY <1>4, <1>5

-----------------------------------------------------------------------------
(***************************************************************************)
(* The scans of a text, as functions of its places.                        *)
(***************************************************************************)
\* What the scanner of cypherTokens yields is found from the end backwards, and likewise the others.
LEMMA CodeScans ==
  ASSUME NEW S, NEW t \in Seq(S)
  PROVE  \E f : /\ Code(t) = f[1]
                /\ Scans(f, [i \in 1 .. Len(t) |-> TokenEnd(t, i)],
                         [i \in 1 .. Len(t) |-> Lexeme(t, i, TokenEnd(t, i))], Len(t))
<1> DEFINE to == [i \in 1 .. Len(t) |-> TokenEnd(t, i)]
           put == [i \in 1 .. Len(t) |-> Lexeme(t, i, TokenEnd(t, i))]
           Arms(f, i) ==
             IF i > Len(t) THEN <<>>
             ELSE Lexeme(t, i, TokenEnd(t, i)) \o (IF TokenEnd(t, i) = 0 THEN <<>> ELSE f[TokenEnd(t, i)])
           Reads(f) == f = [i \in 1 .. Len(t) + 1 |-> Arms(f, i)]
           g == CHOOSE g : Reads(g)
<1>1. Len(t) \in Nat
  BY LenProperties
<1>2. \A f : Reads(f) <=> Scans(f, to, put, Len(t))
  <2> TAKE f
  <2>1. ASSUME NEW i \in 1 .. Len(t) + 1
        PROVE  Arms(f, i) = IF i > Len(t) THEN <<>> ELSE put[i] \o After(f, to, i)
    <3>1. ~ (i > Len(t)) => to[i] = TokenEnd(t, i) /\ put[i] = Lexeme(t, i, TokenEnd(t, i))
      BY <1>1
    <3> HIDE DEF to, put
    <3> QED BY <3>1, Zenon DEF After
  <2> HIDE DEF to, put, Arms
  <2> QED BY <2>1 DEF Scans
<1>3. \A i \in 1 .. Len(t) : to[i] = 0 \/ to[i] \in (i + 1) .. (Len(t) + 1)
  BY TokenEnds
<1>4. \E f : Scans(f, to, put, Len(t))
  <2> HIDE DEF to, put
  <2> QED BY <1>1, <1>3, ScansExists
<1>5. Reads(g)
  <2> HIDE DEF Reads, to, put
  <2> QED BY <1>2, <1>4
<1>6. Code(t) = g[1]
  BY Zenon DEF Code, Scan
<1> HIDE DEF g, Reads
<1> QED BY <1>2, <1>5, <1>6

\* The same of the spans.
LEMMA SpansScan ==
  ASSUME NEW S, NEW t \in Seq(S)
  PROVE  \E f : /\ Spans(t) = f[1]
                /\ Scans(f, [i \in 1 .. Len(t) |-> TokenEnd(t, i)],
                         [i \in 1 .. Len(t) |-> Span(t, i, TokenEnd(t, i))], Len(t))
<1> DEFINE to == [i \in 1 .. Len(t) |-> TokenEnd(t, i)]
           put == [i \in 1 .. Len(t) |-> Span(t, i, TokenEnd(t, i))]
           Arms(f, i) ==
             IF i > Len(t) THEN <<>>
             ELSE Span(t, i, TokenEnd(t, i)) \o (IF TokenEnd(t, i) = 0 THEN <<>> ELSE f[TokenEnd(t, i)])
           Reads(f) == f = [i \in 1 .. Len(t) + 1 |-> Arms(f, i)]
           g == CHOOSE g : Reads(g)
<1>1. Len(t) \in Nat
  BY LenProperties
<1>2. \A f : Reads(f) <=> Scans(f, to, put, Len(t))
  <2> TAKE f
  <2>1. ASSUME NEW i \in 1 .. Len(t) + 1
        PROVE  Arms(f, i) = IF i > Len(t) THEN <<>> ELSE put[i] \o After(f, to, i)
    <3>1. ~ (i > Len(t)) => to[i] = TokenEnd(t, i) /\ put[i] = Span(t, i, TokenEnd(t, i))
      BY <1>1
    <3> HIDE DEF to, put
    <3> QED BY <3>1, Zenon DEF After
  <2> HIDE DEF to, put, Arms
  <2> QED BY <2>1 DEF Scans
<1>3. \A i \in 1 .. Len(t) : to[i] = 0 \/ to[i] \in (i + 1) .. (Len(t) + 1)
  BY TokenEnds
<1>4. \E f : Scans(f, to, put, Len(t))
  <2> HIDE DEF to, put
  <2> QED BY <1>1, <1>3, ScansExists
<1>5. Reads(g)
  <2> HIDE DEF Reads, to, put
  <2> QED BY <1>2, <1>4
<1>6. Spans(t) = g[1]
  BY Zenon DEF Spans, Scan
<1> HIDE DEF g, Reads
<1> QED BY <1>2, <1>5, <1>6

\* The same of the text inlined.
LEMMA InlinedScans ==
  ASSUME NEW S, NEW t \in Seq(S)
  PROVE  \E f : /\ Inlined(t) = f[1]
                /\ Scans(f, [i \in 1 .. Len(t) |-> InlineEnd(t, i)],
                         [i \in 1 .. Len(t) |-> Segment(t, i, InlineEnd(t, i))], Len(t))
<1> DEFINE to == [i \in 1 .. Len(t) |-> InlineEnd(t, i)]
           put == [i \in 1 .. Len(t) |-> Segment(t, i, InlineEnd(t, i))]
           Arms(f, i) ==
             IF i > Len(t) THEN <<>>
             ELSE Segment(t, i, InlineEnd(t, i)) \o (IF InlineEnd(t, i) = 0 THEN <<>> ELSE f[InlineEnd(t, i)])
           Reads(f) == f = [i \in 1 .. Len(t) + 1 |-> Arms(f, i)]
           g == CHOOSE g : Reads(g)
<1>1. Len(t) \in Nat
  BY LenProperties
<1>2. \A f : Reads(f) <=> Scans(f, to, put, Len(t))
  <2> TAKE f
  <2>1. ASSUME NEW i \in 1 .. Len(t) + 1
        PROVE  Arms(f, i) = IF i > Len(t) THEN <<>> ELSE put[i] \o After(f, to, i)
    <3>1. ~ (i > Len(t)) => to[i] = InlineEnd(t, i) /\ put[i] = Segment(t, i, InlineEnd(t, i))
      BY <1>1
    <3> HIDE DEF to, put
    <3> QED BY <3>1, Zenon DEF After
  <2> HIDE DEF to, put, Arms
  <2> QED BY <2>1 DEF Scans
<1>3. \A i \in 1 .. Len(t) : to[i] = 0 \/ to[i] \in (i + 1) .. (Len(t) + 1)
  BY InlineEnds
<1>4. \E f : Scans(f, to, put, Len(t))
  <2> HIDE DEF to, put
  <2> QED BY <1>1, <1>3, ScansExists
<1>5. Reads(g)
  <2> HIDE DEF Reads, to, put
  <2> QED BY <1>2, <1>4
<1>6. Inlined(t) = g[1]
  BY Zenon DEF Inlined, Scan
<1> HIDE DEF g, Reads
<1> QED BY <1>2, <1>5, <1>6

-----------------------------------------------------------------------------
(***************************************************************************)
(* What a token becomes.                                                   *)
(***************************************************************************)
\* The symbols of a text, of the literals that come into it and of the lines it is broken into.
Symbol == Written(STRING \cup Space)

\* Putting texts one after the other.
LEMMA JoinTexts ==
  ASSUME NEW x \in Seq(Symbol), NEW y \in Seq(Symbol), NEW z \in Seq(Symbol)
  PROVE  (x \o y) \o z = x \o (y \o z)
<1> DEFINE V == Symbol
<1> HIDE DEF V
<1>1. x \in Seq(V) /\ y \in Seq(V) /\ z \in Seq(V)
  BY DEF V
<1> QED BY <1>1, ConcatAssociative

\* The same by a name.
Associates(x, y, z) == (x \o y) \o z = x \o (y \o z)

LEMMA TextsAssociate ==
  ASSUME NEW x \in Seq(Symbol), NEW y \in Seq(Symbol), NEW z \in Seq(Symbol)
  PROVE  Associates(x, y, z)
BY JoinTexts DEF Associates

\* The value, written as a literal, is a text of at least two symbols in double quotes.
LEMMA QuotedValue ==
  /\ Quoted(Value) \in Seq(Symbol) /\ Len(Quoted(Value)) >= 2
  /\ Quoted(Value)[1] = DoubleQuote
  /\ TokenEnd(Quoted(Value), 1) = Len(Quoted(Value)) + 1
<1> DEFINE q == Quoted(Value)
<1>1. Value \in Seq(STRING \cup Space)
  <2>1. STRING \subseteq STRING \cup Space
    OBVIOUS
  <2> QED BY <2>1, ValueAssumption, SeqMonotonic, Zenon
<1>2. q \in Seq(Symbol) /\ q[1] = DoubleQuote
  BY <1>1, QuotedPlaces DEF Symbol
<1>3. Len(q) >= 2
  <2>1. PICK pos : Places(pos, Value, q, 1) /\ pos[Len(Value)] + 2 = Len(q)
    BY ValueAssumption, QuotedPlaces
  <2>2. Len(Value) \in Nat
    BY ValueAssumption, LenProperties
  <2>3. pos[Len(Value)] \in Nat
    BY <2>1, <2>2 DEF Places
  <2> HIDE DEF q
  <2> QED BY <2>1, <2>3
<1>4. QuotedEnd(q, 1, 0) = Len(q) + 1
  BY ValueAssumption, QuotedToTheEnd
<1> HIDE DEF q
<1>5. Len(q) \in Nat /\ 1 \in 1 .. Len(q)
  BY <1>2, <1>3, LenProperties
<1>6. TokenEnd(q, 1) = QuotedEnd(q, 1, 0)
  <2>1. ~ Starts(q, 1, "/", "*") /\ ~ Starts(q, 1, "/", "/") /\ q[1] # ";" /\ q[1] \in Quote
    BY <1>2, Kinds DEF Starts
  <2> QED BY <1>2, <1>5, <2>1, TokenKinds
<1> QED BY <1>2, <1>3, <1>4, <1>6 DEF q

\* Whether s is a use of the parameter.
Use(s) == s = <<"$", "x">>

\* What inlineParameters makes of the piece from i on.
LEMMA SegmentForms ==
  ASSUME NEW t \in Seq(Symbol), NEW i \in 1 .. Len(t), NEW to \in (i + 1) .. (Len(t) + 1),
         NEW w, w = SubSeq(t, i, to - 1)
  PROVE  /\ w \in Seq(Symbol) /\ Len(w) = to - i /\ Len(w) >= 1
         /\ w[1] = t[i]
         /\ Same(w, 1, t, i, Len(w))
         /\ Segment(t, i, to) = IF Use(w) THEN Quoted(Value) ELSE w
         /\ Segment(t, i, to) \in Seq(Symbol) /\ Len(Segment(t, i, to)) >= 1
         /\ Segment(t, i, to)[1] = IF Use(w) THEN DoubleQuote ELSE t[i]
         /\ Use(w) => t[i] = "$" /\ to = i + 2
<1>1. Len(t) \in Nat /\ i \in Nat /\ to \in Nat /\ i <= to - 1 /\ to - 1 <= Len(t)
  BY LenProperties
<1>2. \A j \in i .. to - 1 : t[j] \in Symbol
  BY <1>1, ElementOfSeq
<1>3. /\ w \in Seq(Symbol) /\ Len(w) = (to - 1) - i + 1
      /\ \A j \in 1 .. (to - 1) - i + 1 : w[j] = t[i + j - 1]
  BY <1>1, <1>2, SubSeqProperties
<1>4. Len(w) = to - i /\ Len(w) >= 1
  BY <1>1, <1>3
<1>5. w[1] = t[i]
  <2>1. 1 \in 1 .. (to - 1) - i + 1 /\ i + 1 - 1 = i
    BY <1>1
  <2> QED BY <1>3, <2>1
<1>6. Same(w, 1, t, i, Len(w))
  <2>1. ASSUME NEW d \in 0 .. Len(w) - 1 PROVE t[i + d] = w[1 + d]
    <3>1. 1 + d \in 1 .. (to - 1) - i + 1 /\ i + (1 + d) - 1 = i + d
      BY <1>1, <1>4
    <3> QED BY <1>3, <3>1
  <2> QED BY <2>1 DEF Same
<1>7. Segment(t, i, to) = IF Use(w) THEN Quoted(Value) ELSE w
  BY DEF Segment, Use
<1>8. Use(w) => t[i] = "$" /\ to = i + 2
  <2>1. <<"$", "x">>[1] = "$" /\ Len(<<"$", "x">>) = 2
    OBVIOUS
  <2>2. Use(w) => w[1] = "$" /\ Len(w) = 2
    BY <2>1, Zenon DEF Use
  <2> QED BY <1>1, <1>4, <1>5, <2>2
<1>9. /\ Segment(t, i, to) \in Seq(Symbol) /\ Len(Segment(t, i, to)) >= 1
      /\ Segment(t, i, to)[1] = IF Use(w) THEN DoubleQuote ELSE t[i]
  <2>1. CASE Use(w)
    <3>1. Quoted(Value) \in Seq(Symbol) /\ Len(Quoted(Value)) >= 1 /\ Quoted(Value)[1] = DoubleQuote
      <4>1. Len(Quoted(Value)) \in Nat
        BY QuotedValue, LenProperties
      <4> QED BY <4>1, QuotedValue
    <3> QED BY <1>7, <2>1, <3>1
  <2>2. CASE ~ Use(w)
    BY <1>3, <1>4, <1>5, <1>7, <2>2
  <2> QED BY <2>1, <2>2
<1> QED BY <1>3, <1>4, <1>5, <1>6, <1>7, <1>8, <1>9

\* Its length by itself.
Long(w, n) == Len(w) = n

LEMMA SegmentLength ==
  ASSUME NEW t \in Seq(Symbol), NEW i \in 1 .. Len(t), NEW to \in (i + 1) .. (Len(t) + 1),
         NEW w, w = SubSeq(t, i, to - 1)
  PROVE  Long(w, to - i)
BY SegmentForms DEF Long

\* Symbols that stand in u from p on are the piece of u between.
LEMMA Copied ==
  ASSUME NEW s \in Seq(Symbol), NEW u \in Seq(Symbol), NEW p \in 1 .. Len(u),
         NEW n \in 1 .. Len(u) + 1, n = p + Len(s), Same(s, 1, u, p, Len(s))
  PROVE  SubSeq(u, p, n - 1) = s
<1>1. Len(u) \in Nat /\ Len(s) \in Nat /\ p \in Nat
  BY LenProperties
<1>2. \A j \in p .. n - 1 : u[j] \in Symbol
  BY <1>1, ElementOfSeq
<1>3. /\ SubSeq(u, p, n - 1) \in Seq(Symbol)
      /\ Len(SubSeq(u, p, n - 1)) = IF p <= n - 1 THEN (n - 1) - p + 1 ELSE 0
      /\ \A j \in 1 .. (n - 1) - p + 1 : SubSeq(u, p, n - 1)[j] = u[p + j - 1]
  <2>1. p \in Int /\ n - 1 \in Int
    BY <1>1
  <2> QED BY <1>2, <2>1, SubSeqProperties
<1> DEFINE v == SubSeq(u, p, n - 1)
<1>4. Len(v) = Len(s)
  <2> HIDE DEF v
  <2>1. Len(v) = IF p <= n - 1 THEN (n - 1) - p + 1 ELSE 0
    BY <1>3 DEF v
  <2> QED BY <1>1, <2>1
<1>5. ASSUME NEW j \in 1 .. Len(v) PROVE v[j] = s[j]
  <2>1. j \in 1 .. (n - 1) - p + 1 /\ j - 1 \in 0 .. Len(s) - 1 /\ p + j - 1 = p + (j - 1) /\ 1 + (j - 1) = j
    BY <1>1, <1>4
  <2>2. u[p + (j - 1)] = s[1 + (j - 1)]
    BY <2>1 DEF Same
  <2> QED BY <1>3, <2>1, <2>2
<1> QED
  <2> HIDE DEF v
  <2>1. v \in Seq(Symbol)
    BY <1>3 DEF v
  <2>2. v = s
    BY <1>4, <1>5, <2>1, SeqEqual
  <2> QED BY <2>2 DEF v

\* u ends with r.
Suffix(u, r) == Len(r) <= Len(u) /\ \A d \in 1 .. Len(r) : u[(Len(u) - Len(r)) + d] = r[d]

\* Where u ends with s and r, the symbols of s stand from place p on and those of r from n on.
LEMMA SuffixSplit ==
  ASSUME NEW u \in Seq(Symbol), NEW s \in Seq(Symbol), NEW r \in Seq(Symbol), Len(s) >= 1,
         Suffix(u, s \o r), NEW p, p = (Len(u) - Len(s \o r)) + 1, NEW n, n = p + Len(s)
  PROVE  /\ Suffix(u, r) /\ n = (Len(u) - Len(r)) + 1
         /\ p \in 1 .. Len(u) /\ n \in (p + 1) .. (Len(u) + 1)
         /\ Same(s, 1, u, p, Len(s))
         /\ n <= Len(u) <=> r # <<>>
         /\ n <= Len(u) => u[n] = r[1]
<1>1. Len(u) \in Nat /\ Len(s) \in Nat /\ Len(r) \in Nat
  BY LenProperties
<1>2. /\ Len(s \o r) = Len(s) + Len(r)
      /\ \A j \in 1 .. Len(s) + Len(r) : (s \o r)[j] = IF j <= Len(s) THEN s[j] ELSE r[j - Len(s)]
  BY ConcatProperties
<1>3. Len(s) + Len(r) <= Len(u) /\ \A d \in 1 .. Len(s) + Len(r) : u[(Len(u) - (Len(s) + Len(r))) + d] = (s \o r)[d]
  BY <1>2 DEF Suffix
<1>4. p = (Len(u) - (Len(s) + Len(r))) + 1
  BY <1>2
<1>5. n = (Len(u) - Len(r)) + 1 /\ p \in 1 .. Len(u) /\ n \in (p + 1) .. (Len(u) + 1)
  BY <1>1, <1>3, <1>4
<1>6. ASSUME NEW d \in 1 .. Len(r) PROVE u[(Len(u) - Len(r)) + d] = r[d]
  <2>1. /\ Len(s) + d \in 1 .. Len(s) + Len(r) /\ ~ (Len(s) + d <= Len(s)) /\ (Len(s) + d) - Len(s) = d
        /\ (Len(u) - (Len(s) + Len(r))) + (Len(s) + d) = (Len(u) - Len(r)) + d
    BY <1>1
  <2> QED BY <1>2, <1>3, <2>1
<1>7. Suffix(u, r)
  BY <1>1, <1>3, <1>6 DEF Suffix
<1>8. ASSUME NEW d \in 0 .. Len(s) - 1 PROVE u[p + d] = s[1 + d]
  <2>1. /\ 1 + d \in 1 .. Len(s) + Len(r) /\ 1 + d <= Len(s)
        /\ (Len(u) - (Len(s) + Len(r))) + (1 + d) = p + d
    BY <1>1, <1>4
  <2> QED BY <1>2, <1>3, <2>1
<1>9. n <= Len(u) <=> r # <<>>
  <2>1. r # <<>> <=> Len(r) # 0
    BY EmptySeq
  <2> QED BY <1>1, <1>5, <2>1
<1>10. n <= Len(u) => u[n] = r[1]
  <2>1. n <= Len(u) => 1 \in 1 .. Len(r)
    BY <1>1, <1>5
  <2> QED BY <1>5, <1>6, <2>1
<1> QED BY <1>5, <1>7, <1>8, <1>9, <1>10 DEF Same

\* What the scanner of cypherTokens finds when the value stands for the parameter.
Replaced(tokens) == [k \in DOMAIN tokens |-> IF Use(tokens[k]) THEN Quoted(Value) ELSE tokens[k]]

\* Replacing goes lexeme by lexeme.
LEMMA ReplacedConcat ==
  ASSUME NEW a \in Seq(Seq(Symbol)), NEW b \in Seq(Seq(Symbol))
  PROVE  Replaced(a \o b) = Replaced(a) \o Replaced(b)
<1> DEFINE V == Seq(Symbol)
           By(w) == IF Use(w) THEN Quoted(Value) ELSE w
<1>0. \A w \in V : By(w) \in V
  BY QuotedValue
<1>1. \A c \in Seq(V) : /\ Replaced(c) \in Seq(V) /\ Len(Replaced(c)) = Len(c)
                        /\ \A k \in 1 .. Len(c) : Replaced(c)[k] = By(c[k])
  <2> SUFFICES ASSUME NEW c \in Seq(V)
               PROVE  /\ Replaced(c) \in Seq(V) /\ Len(Replaced(c)) = Len(c)
                      /\ \A k \in 1 .. Len(c) : Replaced(c)[k] = By(c[k])
    OBVIOUS
  <2>1. Len(c) \in Nat /\ DOMAIN c = 1 .. Len(c) /\ \A k \in 1 .. Len(c) : c[k] \in V
    <3> HIDE DEF V
    <3> QED BY LenProperties, ElementOfSeq
  <2>2. Replaced(c) = [k \in 1 .. Len(c) |-> By(c[k])]
    BY <2>1 DEF Replaced
  <2>3. Replaced(c) \in [1 .. Len(c) -> V]
    <3> HIDE DEF V, By
    <3> QED BY <1>0, <2>1, <2>2
  <2>4. Replaced(c) \in Seq(V) /\ Len(Replaced(c)) = Len(c)
    <3> HIDE DEF V, By
    <3>0. ASSUME NEW n \in Nat, NEW x \in [1 .. n -> V] PROVE x \in Seq(V)
      BY SeqDef
    <3>1. Replaced(c) \in Seq(V)
      BY <2>1, <2>3, <3>0, Zenon
    <3>2. 1 .. Len(Replaced(c)) = 1 .. Len(c) /\ Len(Replaced(c)) \in Nat
      BY <2>3, <3>1, LenProperties
    <3>3. ASSUME NEW x \in Nat, NEW y \in Nat, 1 .. x = 1 .. y PROVE x = y
      <4>1. (x >= 1 => x \in 1 .. y) /\ (y >= 1 => y \in 1 .. x)
        BY <3>3
      <4> QED BY <4>1
    <3> QED BY <2>1, <3>1, <3>2, <3>3, Zenon
  <2> HIDE DEF V, By
  <2> QED BY <2>2, <2>4
<1> HIDE DEF V, By
<1>2. a \in Seq(V) /\ b \in Seq(V)
  BY DEF V
<1>3. /\ a \o b \in Seq(V) /\ Len(a \o b) = Len(a) + Len(b)
      /\ \A k \in 1 .. Len(a) + Len(b) : (a \o b)[k] = IF k <= Len(a) THEN a[k] ELSE b[k - Len(a)]
  BY <1>2, ConcatProperties
<1> DEFINE x == Replaced(a)
           y == Replaced(b)
<1>4. /\ x \in Seq(V) /\ Len(x) = Len(a) /\ \A k \in 1 .. Len(a) : x[k] = By(a[k])
      /\ y \in Seq(V) /\ Len(y) = Len(b) /\ \A k \in 1 .. Len(b) : y[k] = By(b[k])
  BY <1>1, <1>2
<1> HIDE DEF x, y
<1>5. /\ x \o y \in Seq(V) /\ Len(x \o y) = Len(a) + Len(b)
      /\ \A k \in 1 .. Len(a) + Len(b) : (x \o y)[k] = IF k <= Len(a) THEN x[k] ELSE y[k - Len(a)]
  <2>1. x \in Seq(V) /\ y \in Seq(V)
    BY <1>4
  <2>2. /\ x \o y \in Seq(V) /\ Len(x \o y) = Len(x) + Len(y)
        /\ \A k \in 1 .. Len(x) + Len(y) : (x \o y)[k] = IF k <= Len(x) THEN x[k] ELSE y[k - Len(x)]
    BY <2>1, ConcatProperties
  <2>3. Len(x) = Len(a) /\ Len(y) = Len(b)
    BY <1>4
  <2> QED BY <2>2, <2>3
<1>6. Len(a) \in Nat /\ Len(b) \in Nat
  BY <1>2, LenProperties
<1> DEFINE z == Replaced(a \o b)
<1>7. z \in Seq(V) /\ Len(z) = Len(a) + Len(b) /\ \A k \in 1 .. Len(a) + Len(b) : z[k] = By((a \o b)[k])
  BY <1>1, <1>3
<1> HIDE DEF z
<1>8. ASSUME NEW k \in 1 .. Len(a) + Len(b) PROVE z[k] = (x \o y)[k]
  <2>1. CASE k <= Len(a)
    <3>1. k \in 1 .. Len(a)
      BY <1>6, <2>1
    <3> QED BY <1>3, <1>4, <1>5, <1>7, <2>1, <3>1
  <2>2. CASE ~ (k <= Len(a))
    <3>1. k - Len(a) \in 1 .. Len(b)
      BY <1>6, <2>2
    <3> QED BY <1>3, <1>4, <1>5, <1>7, <2>2, <3>1
  <2> QED BY <2>1, <2>2
<1>9. z = x \o y
  BY <1>5, <1>7, <1>8, SeqEqual
<1> QED BY <1>9 DEF x, y, z

\* Replacing one lexeme, or none.
LEMMA ReplacedOne ==
  /\ Replaced(<<>>) = <<>>
  /\ \A w : Replaced(<<w>>) = <<IF Use(w) THEN Quoted(Value) ELSE w>>
<1>1. Replaced(<<>>) = <<>>
  BY DEF Replaced
<1>2. ASSUME NEW w
      PROVE  Replaced(<<w>>) = <<IF Use(w) THEN Quoted(Value) ELSE w>>
  <2> DEFINE v == IF Use(w) THEN Quoted(Value) ELSE w
  <2>1. DOMAIN <<w>> = 1 .. 1 /\ <<w>>[1] = w /\ 1 .. 1 = {1}
    OBVIOUS
  <2>2. Replaced(<<w>>) = [k \in {1} |-> v]
    BY <2>1 DEF Replaced
  <2> HIDE DEF v
  <2>3. <<v>> = [k \in {1} |-> v]
    OBVIOUS
  <2> QED BY <2>2, <2>3 DEF v
<1> QED BY <1>1, <1>2

\* A symbol c that stands where the text has d: itself, or the quote of the value for a parameter.
Instead(c, d) == c = d \/ (d = "$" /\ c = DoubleQuote)

\* What two tokens may not begin with that touch.
Unfit == {{"$"}, {"$", DoubleQuote}}

\* Two tokens that begin with c and d, next to each other, are not Cypher.
Touch(c, d) == {c, d} \in Unfit

\* The tokens that touch so.
LEMMA TouchCases == Touch("$", "$") /\ Touch("$", DoubleQuote) /\ Touch(DoubleQuote, "$")
  BY DEF Touch, Unfit

\* The segment of a token is a token where it stands in the text inlined, and is what the lexeme of
\* the token is replaced by.
LEMMA TokenInlined ==
  ASSUME NEW t \in Seq(Symbol), NEW i \in 1 .. Len(t), NEW to, to = TokenEnd(t, i), to # 0,
         NEW s, s = Segment(t, i, to),
         NEW u \in Seq(Symbol), NEW p \in 1 .. Len(u), NEW n \in 1 .. Len(u) + 1, n = p + Len(s),
         Same(s, 1, u, p, Len(s)),
         n <= Len(u) => to <= Len(t) /\ Instead(u[n], t[to]) /\ ~ Touch(t[i], t[to])
  PROVE  TokenEnd(u, p) = n /\ Lexeme(u, p, n) = Replaced(Lexeme(t, i, to))
<1>1. Len(t) \in Nat /\ i \in Nat \ {0} /\ Len(u) \in Nat /\ p \in Nat \ {0}
  BY LenProperties
<1>2. to \in (i + 1) .. (Len(t) + 1)
  BY TokenEnds
<1>3. to <= Len(t) => Ends(t, i, t[to])
  BY TokenEnds
<1> DEFINE w == SubSeq(t, i, to - 1)
<1>4. /\ w \in Seq(Symbol) /\ Len(w) = to - i /\ Same(w, 1, t, i, Len(w))
      /\ s = IF Use(w) THEN Quoted(Value) ELSE w
      /\ s \in Seq(Symbol) /\ Len(s) >= 1
      /\ Use(w) => t[i] = "$"
  <2>1. w = SubSeq(t, i, to - 1)
    OBVIOUS
  <2> HIDE DEF w
  <2>2. w \in Seq(Symbol)
    BY <1>2, <2>1, SegmentForms, Zenon
  <2>3. Len(w) = to - i
    BY <1>2, <2>1, SegmentLength, Zenon DEF Long
  <2>4. Same(w, 1, t, i, Len(w))
    BY <1>2, <2>1, SegmentForms, Zenon
  <2>5. Segment(t, i, to) \in Seq(Symbol) /\ Len(Segment(t, i, to)) >= 1
    BY <1>2, <2>1, SegmentForms, Zenon
  <2>6. Use(w) => t[i] = "$"
    BY <1>2, <2>1, SegmentForms, Zenon
  <2>7. Segment(t, i, to) = IF Use(w) THEN Quoted(Value) ELSE w
    BY <2>1 DEF Segment, Use
  <2> QED BY <2>2, <2>3, <2>4, <2>5, <2>6, <2>7
<1>5. /\ At(t, i, <<"/", "/">>) <=> Starts(t, i, "/", "/")
      /\ At(u, p, <<"/", "/">>) <=> Starts(u, p, "/", "/")
  BY <1>1, AtTwo DEF Starts
<1>6. SubSeq(u, p, n - 1) = s
  BY <1>4, Copied
<1>7. Lexeme(u, p, n) = IF u[p] \in Space \/ Starts(u, p, "/", "/") THEN <<>> ELSE <<s>>
  BY <1>5, <1>6 DEF Lexeme
<1>8. Lexeme(t, i, to) = IF t[i] \in Space \/ Starts(t, i, "/", "/") THEN <<>> ELSE <<w>>
  BY <1>5 DEF Lexeme
<1> HIDE DEF w
<1>9. CASE Use(w)
  <2> DEFINE q == Quoted(Value)
  <2>1. s = q /\ t[i] = "$"
    BY <1>4, <1>9
  <2>2. q \in Seq(Symbol) /\ Len(q) >= 2 /\ q[1] = DoubleQuote /\ TokenEnd(q, 1) = Len(q) + 1
    BY QuotedValue
  <2> HIDE DEF q
  <2>3. Len(q) \in Nat /\ 1 \in 1 .. Len(q) /\ Len(q) + 1 # 0 /\ (Len(q) + 1) - 1 = Len(q) /\ n = p + ((Len(q) + 1) - 1)
    <3>1. Len(q) \in Nat
      BY <2>2, LenProperties
    <3> QED BY <1>1, <2>1, <2>2, <3>1
  <2>4. Same(q, 1, u, p, (Len(q) + 1) - 1)
    BY <2>1, <2>3
  <2>5. ASSUME n <= Len(u) PROVE Ends(q, 1, u[n])
    <3>1. u[n] # DoubleQuote
      BY <2>1, <2>5, TouchCases DEF Instead
    <3> QED BY <2>2, <3>1, Kinds DEF Ends, Starts
  <2>6. TokenEnd(u, p) = n /\ u[p] = q[1] /\ (Starts(u, p, "/", "/") <=> Starts(q, 1, "/", "/"))
    <3> DEFINE e == Len(q) + 1
    <3>1. e = TokenEnd(q, 1) /\ e # 0 /\ n = p + (e - 1) /\ Same(q, 1, u, p, e - 1) /\ 1 \in 1 .. Len(q)
      BY <2>2, <2>3, <2>4, Zenon
    <3> HIDE DEF e
    <3> QED BY <2>2, <2>5, <3>1, TokenMoves, Zenon
  <2>7. ~ Starts(q, 1, "/", "/") /\ q[1] \notin Space
    BY <2>2, Kinds DEF Starts
  <2>8. Lexeme(u, p, n) = <<q>>
    BY <1>7, <2>1, <2>6, <2>7
  <2>9. Lexeme(t, i, to) = <<w>>
    <3>1. t[i] \notin Space /\ ~ Starts(t, i, "/", "/")
      BY <2>1 DEF Space, Starts
    <3> QED BY <1>8, <3>1
  <2>10. Replaced(<<w>>) = <<q>>
    BY <1>9, ReplacedOne DEF q
  <2> QED BY <2>6, <2>8, <2>9, <2>10
<1>10. CASE ~ Use(w)
  <2>1. s = w /\ Len(s) = to - i
    BY <1>4, <1>10
  <2>2. Same(t, i, u, p, to - i)
    <3>1. ASSUME NEW d \in 0 .. (to - i) - 1 PROVE u[p + d] = t[i + d]
      <4>1. d \in 0 .. Len(w) - 1 /\ d \in 0 .. Len(s) - 1
        BY <1>4, <2>1
      <4>2. u[p + d] = s[1 + d]
        BY <4>1 DEF Same
      <4>3. t[i + d] = w[1 + d]
        BY <1>4, <4>1 DEF Same
      <4> QED BY <2>1, <4>2, <4>3
    <3> QED BY <3>1 DEF Same
  <2>3. ASSUME n <= Len(u) PROVE Ends(t, i, u[n])
    <3>1. Ends(t, i, t[to]) /\ Instead(u[n], t[to]) /\ ~ Touch(t[i], t[to])
      BY <1>3, <2>3
    <3>2. CASE u[n] = t[to]
      BY <3>1, <3>2
    <3>3. CASE t[to] = "$" /\ u[n] = DoubleQuote
      <4>1. t[i] # DoubleQuote
        BY <3>1, <3>3, TouchCases
      <4>2. ~ Starts(t, i, "/", "/")
        BY <3>1, <3>3 DEF Ends
      <4> QED BY <3>3, <4>1, <4>2, Kinds DEF Ends
    <3> QED BY <3>1, <3>2, <3>3 DEF Instead
  <2>4. n = p + (to - i)
    BY <2>1
  <2>5. TokenEnd(u, p) = n /\ u[p] = t[i] /\ (Starts(u, p, "/", "/") <=> Starts(t, i, "/", "/"))
    BY <2>2, <2>3, <2>4, TokenMoves
  <2>6. Replaced(Lexeme(t, i, to)) = Lexeme(t, i, to)
    BY <1>8, <1>10, ReplacedOne
  <2> QED BY <1>7, <1>8, <2>1, <2>5, <2>6
<1> QED BY <1>9, <1>10

-----------------------------------------------------------------------------
(***************************************************************************)
(* The text inlined, token by token from the end of it.                    *)
(***************************************************************************)
\* The three scans of a text: g inlines, c yields the lexemes and h the spans.
Inlines(g, t) ==
  Scans(g, [i \in 1 .. Len(t) |-> InlineEnd(t, i)],
        [i \in 1 .. Len(t) |-> Segment(t, i, InlineEnd(t, i))], Len(t))

Lexes(c, t) ==
  Scans(c, [i \in 1 .. Len(t) |-> TokenEnd(t, i)],
        [i \in 1 .. Len(t) |-> Lexeme(t, i, TokenEnd(t, i))], Len(t))

Spanned(h, t) ==
  Scans(h, [i \in 1 .. Len(t) |-> TokenEnd(t, i)],
        [i \in 1 .. Len(t) |-> Span(t, i, TokenEnd(t, i))], Len(t))

\* The equations of the scan that inlines: it always goes on.
LEMMA InlinesSteps ==
  ASSUME NEW t \in Seq(Symbol), NEW g, Inlines(g, t)
  PROVE  /\ g[Len(t) + 1] = <<>>
         /\ \A i \in 1 .. Len(t) : g[i] = Segment(t, i, InlineEnd(t, i)) \o g[InlineEnd(t, i)]
         /\ \A i \in 1 .. Len(t) + 1 : g[i] \in Seq(Symbol)
<1> DEFINE l == Len(t)
           to == [i \in 1 .. l |-> InlineEnd(t, i)]
           put == [i \in 1 .. l |-> Segment(t, i, InlineEnd(t, i))]
<1>1. l \in Nat
  BY LenProperties
<1>2. Scans(g, to, put, l)
  BY DEF Inlines
<1>3. \A i \in 1 .. l : /\ to[i] = InlineEnd(t, i) /\ put[i] = Segment(t, i, InlineEnd(t, i))
                        /\ to[i] \in (i + 1) .. (l + 1) /\ to[i] # 0
                        /\ put[i] \in Seq(Symbol)
  <2> SUFFICES ASSUME NEW i \in 1 .. l
               PROVE  /\ InlineEnd(t, i) \in (i + 1) .. (l + 1) /\ InlineEnd(t, i) # 0
                      /\ Segment(t, i, InlineEnd(t, i)) \in Seq(Symbol)
    OBVIOUS
  <2>1. InlineEnd(t, i) \in (i + 1) .. (l + 1)
    BY InlineEnds
  <2>2. InlineEnd(t, i) # 0
    BY <1>1, <2>1
  <2>3. Segment(t, i, InlineEnd(t, i)) \in Seq(Symbol)
    BY <2>1, SegmentForms
  <2> QED BY <2>1, <2>2, <2>3
<1> HIDE DEF to, put
<1>4. g[l + 1] = <<>> /\ \A i \in 1 .. l : g[i] = put[i] \o After(g, to, i)
  BY <1>1, <1>2, ScansStep
<1>5. \A i \in 1 .. l + 1 : g[i] \in Seq(Symbol)
  BY <1>1, <1>2, <1>3, ScansTyped
<1>6. ASSUME NEW i \in 1 .. l
      PROVE  g[i] = Segment(t, i, InlineEnd(t, i)) \o g[InlineEnd(t, i)]
  <2>1. After(g, to, i) = g[InlineEnd(t, i)]
    BY <1>3 DEF After
  <2> QED BY <1>3, <1>4, <2>1
<1> QED BY <1>4, <1>5, <1>6

\* The equations of the scan for lexemes, where a token ends.
LEMMA LexesSteps ==
  ASSUME NEW t \in Seq(Symbol), NEW c, Lexes(c, t)
  PROVE  /\ c[Len(t) + 1] = <<>>
         /\ \A i \in 1 .. Len(t) :
              TokenEnd(t, i) # 0 => c[i] = Lexeme(t, i, TokenEnd(t, i)) \o c[TokenEnd(t, i)]
         /\ \A i \in 1 .. Len(t) : TokenEnd(t, i) = 0 => c[i] = Lexeme(t, i, 0) \o <<>>
         /\ \A i \in 1 .. Len(t) + 1 : c[i] \in Seq(Seq(Symbol))
<1> DEFINE l == Len(t)
           to == [i \in 1 .. l |-> TokenEnd(t, i)]
           put == [i \in 1 .. l |-> Lexeme(t, i, TokenEnd(t, i))]
           V == Seq(Symbol)
<1>1. l \in Nat
  BY LenProperties
<1>2. Scans(c, to, put, l)
  BY DEF Lexes
<1>3. \A i \in 1 .. l : /\ to[i] = TokenEnd(t, i) /\ put[i] = Lexeme(t, i, TokenEnd(t, i))
                        /\ to[i] = 0 \/ to[i] \in (i + 1) .. (l + 1)
                        /\ put[i] \in Seq(V)
  <2> SUFFICES ASSUME NEW i \in 1 .. l
               PROVE  /\ TokenEnd(t, i) = 0 \/ TokenEnd(t, i) \in (i + 1) .. (l + 1)
                      /\ Lexeme(t, i, TokenEnd(t, i)) \in Seq(V)
    OBVIOUS
  <2>1. TokenEnd(t, i) = 0 \/ TokenEnd(t, i) \in (i + 1) .. (l + 1)
    BY TokenEnds
  <2> DEFINE w == SubSeq(t, i, TokenEnd(t, i) - 1)
  <2>2. w \in V
    <3>1. CASE TokenEnd(t, i) = 0
      <4>1. i \in Int /\ 0 - 1 \in Int /\ 0 - 1 < i
        BY <1>1
      <4>2. SubSeq(t, i, 0 - 1) = <<>>
        BY <4>1, SubSeqEmpty
      <4> QED BY <3>1, <4>2, EmptySeq
    <3>2. CASE TokenEnd(t, i) # 0
      BY <2>1, <3>2, SegmentForms
    <3> QED BY <3>1, <3>2
  <2> HIDE DEF w, V
  <2>3. <<>> \in Seq(V) /\ <<w>> \in Seq(V)
    BY <2>2
  <2> QED BY <2>1, <2>3, Zenon DEF Lexeme, w
<1> HIDE DEF to, put, V
<1>4. c[l + 1] = <<>> /\ \A i \in 1 .. l : c[i] = put[i] \o After(c, to, i)
  BY <1>1, <1>2, ScansStep
<1>5. \A i \in 1 .. l + 1 : c[i] \in Seq(V)
  BY <1>1, <1>2, <1>3, ScansTyped
<1>6. ASSUME NEW i \in 1 .. l, TokenEnd(t, i) # 0
      PROVE  c[i] = Lexeme(t, i, TokenEnd(t, i)) \o c[TokenEnd(t, i)]
  <2>1. After(c, to, i) = c[TokenEnd(t, i)]
    BY <1>3, <1>6 DEF After
  <2> QED BY <1>3, <1>4, <2>1
<1>7. ASSUME NEW i \in 1 .. l, TokenEnd(t, i) = 0
      PROVE  c[i] = Lexeme(t, i, 0) \o <<>>
  <2>1. After(c, to, i) = <<>>
    BY <1>3, <1>7 DEF After
  <2> QED BY <1>3, <1>4, <1>7, <2>1
<1> QED BY <1>4, <1>5, <1>6, <1>7 DEF V

\* What is inlined of a text begins like the text, or with the value.
LEMMA InlinedHead ==
  ASSUME NEW t \in Seq(Symbol), NEW g, Inlines(g, t), NEW i \in 1 .. Len(t)
  PROVE  g[i] # <<>> /\ Instead(g[i][1], t[i])
<1> DEFINE to == InlineEnd(t, i)
           s == Segment(t, i, to)
<1>1. to \in (i + 1) .. (Len(t) + 1)
  BY InlineEnds
<1>2. g[i] = s \o g[to]
  BY InlinesSteps
<1>3. g[to] \in Seq(Symbol)
  <2>1. to \in 1 .. Len(t) + 1
    BY <1>1, LenProperties
  <2> QED BY <2>1, InlinesSteps
<1> HIDE DEF to
<1>4. s \in Seq(Symbol) /\ Len(s) >= 1
  BY <1>1, SegmentForms
<1>5. Instead(s[1], t[i])
  <2> DEFINE w == SubSeq(t, i, to - 1)
  <2>1. s[1] = IF Use(w) THEN DoubleQuote ELSE t[i]
    BY <1>1, SegmentForms
  <2>2. Use(w) => t[i] = "$"
    BY <1>1, SegmentForms
  <2> HIDE DEF w, s
  <2> QED BY <2>1, <2>2 DEF Instead
<1> DEFINE r == g[to]
           v == s \o r
<1> HIDE DEF s, r
<1>6. Len(s) \in Nat /\ Len(r) \in Nat /\ r \in Seq(Symbol)
  BY <1>3, <1>4, LenProperties DEF r
<1>7. /\ v \in Seq(Symbol) /\ Len(v) = Len(s) + Len(r)
      /\ \A k \in 1 .. Len(s) + Len(r) : v[k] = IF k <= Len(s) THEN s[k] ELSE r[k - Len(s)]
  BY <1>4, <1>6, ConcatProperties
<1> HIDE DEF v
<1>8. v[1] = s[1]
  <2>1. 1 \in 1 .. Len(s) + Len(r) /\ 1 <= Len(s)
    BY <1>4, <1>6
  <2> QED BY <1>7, <2>1
<1>9. v # <<>>
  <2>1. Len(v) # 0
    BY <1>4, <1>6, <1>7
  <2> QED BY <2>1, EmptySeq
<1>10. g[i] = v
  BY <1>2 DEF r, v
<1> QED BY <1>5, <1>8, <1>9, <1>10

\* One symbol of a text, as a piece of it.
LEMMA OneSymbol ==
  ASSUME NEW t \in Seq(Symbol), NEW j \in 1 .. Len(t)
  PROVE  SubSeq(t, j, (j + 1) - 1) = <<t[j]>>
<1>1. Len(t) \in Nat /\ j \in Int /\ j + 1 \in Int /\ j < j + 1 /\ (j + 1) - 1 = j /\ j \in j .. Len(t)
  BY LenProperties
<1>2. SubSeq(t, j, j) = <<t[j]>> \o SubSeq(t, j + 1, j)
  BY <1>1, SubSeqRecursiveFirst
<1>3. SubSeq(t, j + 1, j) = <<>>
  BY <1>1, SubSeqEmpty
<1>4. <<t[j]>> \in Seq(Symbol)
  BY ElementOfSeq
<1>5. <<t[j]>> \o <<>> = <<t[j]>>
  BY <1>4, ConcatEmptySeq
<1> QED BY <1>1, <1>2, <1>3, <1>5

\* inlineParameters goes from token to token, whatever it does within.
LEMMA InlinesTokens ==
  ASSUME NEW t \in Seq(Symbol), NEW g, Inlines(g, t), NEW i \in 1 .. Len(t),
         NEW to, to = TokenEnd(t, i), to # 0
  PROVE  g[i] = Segment(t, i, to) \o g[to]
<1>1. Len(t) \in Nat /\ i \in Nat \ {0} /\ i <= Len(t)
  BY LenProperties
<1>2. to \in (i + 1) .. (Len(t) + 1)
  BY TokenEnds
<1>3. CASE t[i] \notin Word
  <2>1. InlineEnd(t, i) = to
    BY <1>3, InlineTokens
  <2>2. g[i] = Segment(t, i, InlineEnd(t, i)) \o g[InlineEnd(t, i)]
    BY InlinesSteps
  <2> QED BY <2>1, <2>2
<1>4. CASE t[i] \in Word
  <2>1. to = WordEnd(t, i + 1)
    <3>1. t[i] # "/" /\ t[i] \notin Quote /\ t[i] # ";"
      BY <1>4, Kinds
    <3>2. ~ Starts(t, i, "/", "*") /\ ~ Starts(t, i, "/", "/")
      BY <3>1 DEF Starts
    <3> QED BY <1>4, <3>1, <3>2, TokenKinds
  <2>2. Leaves(t, i + 1, to)
    BY <1>1, <2>1, WordEndLeaves
  <2>3. ASSUME NEW j \in i .. Len(t), j < to PROVE t[j] \in Word
    <3>1. j = i \/ j \in i + 1 .. Len(t)
      BY <1>1
    <3> QED BY <1>4, <2>2, <2>3, <3>1 DEF Leaves
  <2>4. g[to] \in Seq(Symbol)
    <3>1. to \in 1 .. Len(t) + 1
      BY <1>1, <1>2
    <3> QED BY <3>1, InlinesSteps
  <2> DEFINE rest(j) == SubSeq(t, j, to - 1)
             P == {j \in 1 .. to : j < i \/ g[j] = rest(j) \o g[to]}
  <2>5. (to - 1) + 1 \in P
    <3>1. to \in 1 .. to /\ (to - 1) + 1 = to /\ to \in Int /\ to - 1 \in Int /\ to - 1 < to
      BY <1>1, <1>2
    <3>2. SubSeq(t, to, to - 1) = <<>>
      BY <3>1, SubSeqEmpty
    <3>3. <<>> \o g[to] = g[to]
      BY <2>4, ConcatEmptySeq
    <3>4. g[to] = rest(to) \o g[to]
      BY <3>2, <3>3
    <3> HIDE DEF rest
    <3> QED BY <3>1, <3>4
  <2>6. ASSUME NEW j \in 1 .. to - 1, \A k \in (j + 1) .. ((to - 1) + 1) : k \in P
        PROVE  j \in P
    <3>0. j \in 1 .. to /\ j \in Nat
      BY <1>1, <1>2
    <3>1. CASE j < i
      BY <3>0, <3>1
    <3>2. CASE ~ (j < i)
      <4>1. j \in i .. Len(t) /\ j < to /\ j \in 1 .. Len(t) /\ j + 1 \in (j + 1) .. ((to - 1) + 1)
        BY <1>1, <1>2, <3>2
      <4>2. t[j] \in Word
        BY <2>3, <4>1
      <4>3. InlineEnd(t, j) = j + 1
        BY <4>1, <4>2, InlineTokens
      <4>4. g[j] = Segment(t, j, j + 1) \o g[j + 1]
        <5>1. g[j] = Segment(t, j, InlineEnd(t, j)) \o g[InlineEnd(t, j)]
          BY <4>1, InlinesSteps
        <5> QED BY <4>3, <5>1
      <4>5. SubSeq(t, j, (j + 1) - 1) = <<t[j]>>
        BY <4>1, OneSymbol
      <4>6. Segment(t, j, j + 1) = <<t[j]>>
        <5>1. t[j] # "$"
          BY <4>2, Kinds
        <5>2. j + 1 \in (j + 1) .. (Len(t) + 1)
          BY <1>1, <4>1
        <5>3. ~ Use(<<t[j]>>)
          <6>1. <<t[j]>>[1] = t[j] /\ <<"$", "x">>[1] = "$"
            OBVIOUS
          <6> QED BY <5>1, <6>1, Zenon DEF Use
        <5> QED BY <4>5, <5>3, Zenon DEF Segment, Use
      <4>7. g[j + 1] = rest(j + 1) \o g[to]
        <5>1. j + 1 \in P
          <6> HIDE DEF P
          <6> QED BY <2>6, <4>1
        <5>2. ~ (j + 1 < i)
          BY <1>1, <3>0, <3>2
        <5> HIDE DEF rest
        <5> QED BY <5>1, <5>2
      <4>8. rest(j) = <<t[j]>> \o rest(j + 1)
        <5>1. to - 1 \in j .. Len(t)
          BY <1>1, <1>2, <3>0
        <5> QED BY <4>1, <5>1, SubSeqRecursiveFirst
      <4>9. <<t[j]>> \in Seq(Symbol)
        BY <4>1, ElementOfSeq
      <4>10. rest(j + 1) \in Seq(Symbol)
        <5>1. j + 1 \in Int /\ to - 1 \in Int /\ \A k \in j + 1 .. to - 1 : k \in 1 .. Len(t)
          BY <1>1, <1>2, <3>0
        <5>2. \A k \in j + 1 .. to - 1 : t[k] \in Symbol
          BY <5>1, ElementOfSeq
        <5> QED BY <5>1, <5>2, SubSeqProperties
      <4> HIDE DEF rest
      <4>11. (<<t[j]>> \o rest(j + 1)) \o g[to] = <<t[j]>> \o (rest(j + 1) \o g[to])
        <5> DEFINE a == <<t[j]>>
                   b == rest(j + 1)
                   e == g[to]
        <5>1. a \in Seq(Symbol) /\ b \in Seq(Symbol) /\ e \in Seq(Symbol)
          BY <2>4, <4>9, <4>10
        <5> HIDE DEF a, b, e
        <5>2. (a \o b) \o e = a \o (b \o e)
          BY <5>1, JoinTexts, Zenon
        <5> QED BY <5>2 DEF a, b, e
      <4>12. g[j] = rest(j) \o g[to]
        BY <4>4, <4>6, <4>7, <4>8, <4>11
      <4> QED BY <3>0, <4>12
    <3> QED BY <3>1, <3>2
  <2>7. g[i] = rest(i) \o g[to]
    <3>1. to - 1 \in Nat /\ i \in 1 .. (to - 1) + 1 /\ ~ (i < i)
      BY <1>1, <1>2
    <3>2. 1 .. (to - 1) + 1 \subseteq P
      <4> HIDE DEF P
      <4> QED BY <2>5, <2>6, <3>1, FromTheEnd
    <3>3. i \in P
      <4> HIDE DEF P
      <4> QED BY <3>1, <3>2
    <3> HIDE DEF rest
    <3> QED BY <3>1, <3>3
  <2>8. Segment(t, i, to) = rest(i)
    <3>1. ~ Use(rest(i))
      <4>1. t[i] # "$"
        BY <1>4, Kinds
      <4>2. Use(rest(i)) => t[i] = "$"
        BY <1>2, SegmentForms
      <4> QED BY <4>1, <4>2
    <3> QED BY <3>1, Zenon DEF Segment, Use
  <2> QED BY <2>7, <2>8
<1> QED BY <1>3, <1>4

\* From place i on every token ends and no two touch that begin with the symbols of one of apart.
Plain(h, t, i, apart) ==
  /\ \A k \in DOMAIN h[i] : h[i][k][2] # 0
  /\ \A k \in 1 .. Len(h[i]) - 1 : {t[h[i][k][1]], t[h[i][k + 1][1]]} \notin apart

\* Then the token at i ends, it does not touch the next so, and the same holds from the next on.
LEMMA PlainStep ==
  ASSUME NEW t \in Seq(Symbol), NEW h, Spanned(h, t), NEW i \in 1 .. Len(t),
         NEW apart, Plain(h, t, i, apart), NEW to, to = TokenEnd(t, i)
  PROVE  /\ to # 0
         /\ Plain(h, t, to, apart)
         /\ to <= Len(t) => {t[i], t[to]} \notin apart
<1> DEFINE l == Len(t)
           ends == [k \in 1 .. l |-> TokenEnd(t, k)]
           put == [k \in 1 .. l |-> Span(t, k, TokenEnd(t, k))]
           V == Nat \X Nat
<1>1. l \in Nat
  BY LenProperties
<1>2. Scans(h, ends, put, l)
  BY DEF Spanned
<1>3. \A k \in 1 .. l : /\ ends[k] = TokenEnd(t, k) /\ put[k] = <<<<k, TokenEnd(t, k)>>>>
                        /\ ends[k] = 0 \/ ends[k] \in (k + 1) .. (l + 1)
                        /\ put[k] \in Seq(V)
  <2> SUFFICES ASSUME NEW k \in 1 .. l
               PROVE  /\ TokenEnd(t, k) = 0 \/ TokenEnd(t, k) \in (k + 1) .. (l + 1)
                      /\ <<<<k, TokenEnd(t, k)>>>> \in Seq(V)
    BY DEF Span
  <2>1. TokenEnd(t, k) = 0 \/ TokenEnd(t, k) \in (k + 1) .. (l + 1)
    BY TokenEnds
  <2>2. <<k, TokenEnd(t, k)>> \in V
    BY <1>1, <2>1
  <2> HIDE DEF V
  <2> QED BY <2>1, <2>2
<1> HIDE DEF ends, put, V
<1>4. h[l + 1] = <<>> /\ \A k \in 1 .. l : h[k] = put[k] \o After(h, ends, k)
  BY <1>1, <1>2, ScansStep
<1>5. \A k \in 1 .. l + 1 : h[k] \in Seq(V)
  BY <1>1, <1>2, <1>3, ScansTyped
<1>6. \A k \in 1 .. l : After(h, ends, k) \in Seq(V)
  <2> SUFFICES ASSUME NEW k \in 1 .. l PROVE After(h, ends, k) \in Seq(V)
    OBVIOUS
  <2>1. CASE ends[k] = 0
    BY <2>1, EmptySeq DEF After
  <2>2. CASE ends[k] # 0
    <3>1. ends[k] \in 1 .. l + 1
      BY <1>1, <1>3, <2>2
    <3> QED BY <1>5, <2>2, <3>1 DEF After
  <2> QED BY <2>1, <2>2
<1>7. ASSUME NEW k \in 1 .. l
      PROVE  /\ Len(h[k]) = Len(After(h, ends, k)) + 1 /\ Len(After(h, ends, k)) \in Nat
             /\ h[k][1] = <<k, TokenEnd(t, k)>>
             /\ \A j \in 1 .. Len(After(h, ends, k)) : h[k][j + 1] = After(h, ends, k)[j]
  <2> DEFINE r == After(h, ends, k)
             a == put[k]
             v == a \o r
  <2>1. r \in Seq(V) /\ a \in Seq(V) /\ Len(a) = 1 /\ a[1] = <<k, TokenEnd(t, k)>> /\ h[k] = v
    <3>1. r \in Seq(V) /\ a \in Seq(V)
      BY <1>3, <1>6
    <3>2. h[k] = v
      BY <1>4
    <3>3. Len(a) = 1 /\ a[1] = <<k, TokenEnd(t, k)>>
      <4>1. a = <<<<k, TokenEnd(t, k)>>>>
        BY <1>3
      <4> QED BY <4>1
    <3> HIDE DEF r, a, v
    <3> QED BY <3>1, <3>2, <3>3
  <2> HIDE DEF r, a
  <2>2. /\ v \in Seq(V) /\ Len(v) = Len(a) + Len(r)
        /\ \A j \in 1 .. Len(a) + Len(r) : v[j] = IF j <= Len(a) THEN a[j] ELSE r[j - Len(a)]
    BY <2>1, ConcatProperties
  <2>3. Len(r) \in Nat
    BY <2>1, LenProperties
  <2> HIDE DEF v
  <2>4. v[1] = a[1]
    <3>1. 1 \in 1 .. Len(a) + Len(r) /\ 1 <= Len(a)
      BY <2>1, <2>3
    <3> QED BY <2>2, <3>1
  <2>5. ASSUME NEW j \in 1 .. Len(r) PROVE v[j + 1] = r[j]
    <3>1. j + 1 \in 1 .. Len(a) + Len(r) /\ ~ (j + 1 <= Len(a)) /\ (j + 1) - Len(a) = j
      BY <2>1, <2>3
    <3> QED BY <2>2, <3>1
  <2>6. Len(v) = Len(r) + 1
    BY <2>1, <2>2, <2>3
  <2> QED BY <2>1, <2>3, <2>4, <2>5, <2>6 DEF r
<1> DEFINE r == After(h, ends, i)
<1>8. /\ Len(h[i]) = Len(r) + 1 /\ Len(r) \in Nat /\ h[i][1] = <<i, to>>
      /\ \A j \in 1 .. Len(r) : h[i][j + 1] = r[j]
  BY <1>7
<1>0. DOMAIN h[i] = 1 .. Len(h[i]) /\ DOMAIN r = 1 .. Len(r)
  <2>1. h[i] \in Seq(V)
    BY <1>1, <1>5
  <2>2. r \in Seq(V)
    BY <1>6
  <2> HIDE DEF r
  <2> QED BY <2>1, <2>2, LenProperties
<1>9. to # 0
  <2>1. 1 \in DOMAIN h[i]
    BY <1>0, <1>8
  <2>2. h[i][1][2] # 0
    BY <2>1 DEF Plain
  <2>3. <<i, to>>[2] = to
    OBVIOUS
  <2> QED BY <1>8, <2>2, <2>3
<1>10. r = h[to] /\ to \in (i + 1) .. (l + 1)
  BY <1>3, <1>9 DEF After
<1> HIDE DEF r
<1>11. Plain(h, t, to, apart)
  <2>1. ASSUME NEW k \in DOMAIN r PROVE r[k][2] # 0
    <3>1. k + 1 \in DOMAIN h[i]
      BY <1>0, <1>8
    <3>2. h[i][k + 1][2] # 0
      BY <3>1 DEF Plain
    <3> QED BY <1>0, <1>8, <3>2
  <2>2. ASSUME NEW k \in 1 .. Len(r) - 1 PROVE {t[r[k][1]], t[r[k + 1][1]]} \notin apart
    <3>1. k + 1 \in 1 .. Len(h[i]) - 1 /\ k \in 1 .. Len(r) /\ k + 1 \in 1 .. Len(r)
      BY <1>8
    <3>2. {t[h[i][k + 1][1]], t[h[i][(k + 1) + 1][1]]} \notin apart
      BY <3>1 DEF Plain
    <3>3. h[i][k + 1] = r[k] /\ h[i][(k + 1) + 1] = r[k + 1]
      BY <1>8, <3>1
    <3> QED BY <3>2, <3>3
  <2> QED BY <1>10, <2>1, <2>2 DEF Plain
<1>12. ASSUME to <= Len(t) PROVE {t[i], t[to]} \notin apart
  <2>1. to \in 1 .. l
    BY <1>1, <1>10, <1>12
  <2>2. Len(r) >= 1 /\ r[1] = <<to, TokenEnd(t, to)>>
    <3>1. /\ Len(h[to]) = Len(After(h, ends, to)) + 1 /\ Len(After(h, ends, to)) \in Nat
          /\ h[to][1] = <<to, TokenEnd(t, to)>>
      BY <1>7, <2>1
    <3> QED BY <1>10, <3>1
  <2>3. 1 \in 1 .. Len(h[i]) - 1 /\ 1 \in 1 .. Len(r) /\ 1 + 1 = 2
    BY <1>8, <2>2
  <2>4. {t[h[i][1][1]], t[h[i][1 + 1][1]]} \notin apart
    BY <2>3 DEF Plain
  <2>5. h[i][1 + 1] = r[1]
    BY <1>8, <2>3
  <2>6. h[i][1][1] = i /\ h[i][1 + 1][1] = to
    BY <1>8, <2>2, <2>5
  <2> QED BY <2>4, <2>6
<1> QED BY <1>9, <1>11, <1>12

\* Text t is scanned by g, c and h, and u by e.
Scanned(g, c, h, t, e, u) == Inlines(g, t) /\ Lexes(c, t) /\ Spanned(h, t) /\ Lexes(e, u)

\* From place i of t on, u is what is inlined and has the lexemes it should.
Agrees(g, c, h, t, e, u, i) ==
  Suffix(u, g[i]) /\ Plain(h, t, i, Unfit) => e[(Len(u) - Len(g[i])) + 1] = Replaced(c[i])

\* What holds from the next token on holds from this one on.
LEMMA InlinedStep ==
  ASSUME NEW t \in Seq(Symbol), NEW u \in Seq(Symbol), NEW g, NEW c, NEW h, NEW e,
         Scanned(g, c, h, t, e, u), NEW i \in 1 .. Len(t), NEW to, to = TokenEnd(t, i),
         to # 0 => Agrees(g, c, h, t, e, u, to)
  PROVE  Agrees(g, c, h, t, e, u, i)
<1> SUFFICES ASSUME Suffix(u, g[i]), Plain(h, t, i, Unfit)
             PROVE  e[(Len(u) - Len(g[i])) + 1] = Replaced(c[i])
  BY DEF Agrees
<1> USE DEF Scanned
<1> DEFINE s == Segment(t, i, to)
           r == g[to]
           p == (Len(u) - Len(g[i])) + 1
           n == p + Len(s)
           lexeme == Lexeme(t, i, to)
<1>1. to # 0 /\ Plain(h, t, to, Unfit) /\ (to <= Len(t) => ~ Touch(t[i], t[to]))
  <2>1. to # 0 /\ Plain(h, t, to, Unfit)
    BY PlainStep
  <2>2. to <= Len(t) => {t[i], t[to]} \notin Unfit
    BY PlainStep
  <2> HIDE DEF s, r, p, n, lexeme
  <2> QED BY <2>1, <2>2 DEF Touch
<1>2. to \in (i + 1) .. (Len(t) + 1)
  BY <1>1, TokenEnds
<1>3. to \in 1 .. Len(t) + 1 /\ (to <= Len(t) => to \in 1 .. Len(t)) /\ (~ (to <= Len(t)) => to = Len(t) + 1)
  BY <1>2, LenProperties
<1>4. g[i] = s \o r
  BY <1>1, InlinesTokens
<1>5. s \in Seq(Symbol) /\ Len(s) >= 1
  BY <1>2, SegmentForms
<1>6. r \in Seq(Symbol)
  BY <1>3, InlinesSteps
<1>7. r # <<>> => to <= Len(t) /\ Instead(r[1], t[to])
  <2>1. ~ (to <= Len(t)) => r = <<>>
    BY <1>3, InlinesSteps
  <2>2. to <= Len(t) => Instead(r[1], t[to])
    BY <1>3, InlinedHead
  <2> QED BY <2>1, <2>2
<1> HIDE DEF s, r
<1>8. /\ Suffix(u, r) /\ n = (Len(u) - Len(r)) + 1
      /\ p \in 1 .. Len(u) /\ n \in (p + 1) .. (Len(u) + 1)
      /\ Same(s, 1, u, p, Len(s))
      /\ n <= Len(u) => r # <<>> /\ u[n] = r[1]
  <2>1. Suffix(u, s \o r) /\ p = (Len(u) - Len(s \o r)) + 1
    BY <1>4
  <2> HIDE DEF p
  <2>2. n = p + Len(s)
    OBVIOUS
  <2> HIDE DEF n
  <2>3. Suffix(u, r) /\ n = (Len(u) - Len(r)) + 1
    BY <1>5, <1>6, <2>1, <2>2, SuffixSplit
  <2>4. p \in 1 .. Len(u) /\ n \in (p + 1) .. (Len(u) + 1)
    BY <1>5, <1>6, <2>1, <2>2, SuffixSplit
  <2>5. Same(s, 1, u, p, Len(s))
    BY <1>5, <1>6, <2>1, <2>2, SuffixSplit
  <2>6. n <= Len(u) => r # <<>> /\ u[n] = r[1]
    BY <1>5, <1>6, <2>1, <2>2, SuffixSplit
  <2> QED BY <2>3, <2>4, <2>5, <2>6
<1>9. n <= Len(u) => to <= Len(t) /\ Instead(u[n], t[to]) /\ ~ Touch(t[i], t[to])
  BY <1>1, <1>7, <1>8
<1>10. n \in 1 .. Len(u) + 1 /\ n # 0
  <2> HIDE DEF n, p
  <2> QED BY <1>8, LenProperties
<1>11. TokenEnd(u, p) = n /\ Lexeme(u, p, n) = Replaced(lexeme)
  <2>1. s = Segment(t, i, to)
    BY DEF s
  <2> HIDE DEF p
  <2>2. n = p + Len(s)
    OBVIOUS
  <2> HIDE DEF n
  <2>3. p \in 1 .. Len(u) /\ Same(s, 1, u, p, Len(s))
    BY <1>8
  <2> HIDE DEF lexeme
  <2>4. TokenEnd(u, p) = n
    BY <1>1, <1>9, <1>10, <2>1, <2>2, <2>3, TokenInlined
  <2>5. Lexeme(u, p, n) = Replaced(Lexeme(t, i, to))
    BY <1>1, <1>9, <1>10, <2>1, <2>2, <2>3, TokenInlined
  <2> QED BY <2>4, <2>5 DEF lexeme
<1>12. e[p] = Replaced(lexeme) \o e[n]
  <2> HIDE DEF n, p
  <2>1. e[p] = Lexeme(u, p, TokenEnd(u, p)) \o e[TokenEnd(u, p)]
    BY <1>8, <1>10, <1>11, LexesSteps
  <2> HIDE DEF lexeme
  <2> QED BY <1>11, <2>1
<1>13. e[n] = Replaced(c[to])
  <2> HIDE DEF n, p
  <2>1. Suffix(u, g[to]) /\ Plain(h, t, to, Unfit)
    BY <1>1, <1>8 DEF r
  <2>2. Agrees(g, c, h, t, e, u, to)
    BY <1>1
  <2> QED BY <1>8, <2>1, <2>2 DEF r, Agrees
<1>14. c[i] = lexeme \o c[to]
  BY <1>1, LexesSteps
<1>15. lexeme \in Seq(Seq(Symbol)) /\ c[to] \in Seq(Seq(Symbol))
  <2>1. c[to] \in Seq(Seq(Symbol))
    BY <1>3, LexesSteps
  <2> DEFINE w == SubSeq(t, i, to - 1)
             V == Seq(Symbol)
  <2>2. w \in V
    BY <1>2, SegmentForms
  <2> HIDE DEF w, V
  <2>3. <<>> \in Seq(V) /\ <<w>> \in Seq(V)
    BY <2>2
  <2>4. lexeme \in Seq(V)
    BY <2>3, Zenon DEF Lexeme, w
  <2> QED BY <2>1, <2>4 DEF V
<1> HIDE DEF lexeme
<1>16. Replaced(c[i]) = Replaced(lexeme) \o Replaced(c[to])
  BY <1>14, <1>15, ReplacedConcat
<1> QED BY <1>12, <1>13, <1>16

\* A readable text with nothing that touches, inlined, has the lexemes of the text with the value for the parameter.
LEMMA InlinedReplaces ==
  ASSUME NEW t \in Seq(Symbol), Readable(t), ~ Touching(t)
  PROVE  Code(Inlined(t)) = Replaced(Code(t))
<1>1. Len(t) \in Nat
  BY LenProperties
<1>2. PICK g : Inlined(t) = g[1] /\ Inlines(g, t)
  BY InlinedScans DEF Inlines
<1>3. PICK c : Code(t) = c[1] /\ Lexes(c, t)
  BY CodeScans DEF Lexes
<1>4. PICK h : Spans(t) = h[1] /\ Spanned(h, t)
  BY SpansScan DEF Spanned
<1> DEFINE u == g[1]
<1>5. u \in Seq(Symbol)
  <2>1. 1 \in 1 .. Len(t) + 1
    BY <1>1
  <2> QED BY <1>2, <2>1, InlinesSteps
<1>6. PICK e : Code(u) = e[1] /\ Lexes(e, u)
  <2> HIDE DEF u
  <2> QED BY <1>5, CodeScans DEF Lexes
<1>7. Plain(h, t, 1, Unfit)
  BY <1>4, Zenon DEF Readable, Touching, Plain, Unfit, DoubleQuote
<1> DEFINE P == {i \in 1 .. Len(t) + 1 : Agrees(g, c, h, t, e, u, i)}
<1> HIDE DEF u
<1>8. Len(t) + 1 \in P
  <2>1. g[Len(t) + 1] = <<>> /\ c[Len(t) + 1] = <<>> /\ e[Len(u) + 1] = <<>>
    BY <1>2, <1>3, <1>5, <1>6, InlinesSteps, LexesSteps
  <2>2. (Len(u) - Len(g[Len(t) + 1])) + 1 = Len(u) + 1
    BY <1>5, <2>1, EmptySeq, LenProperties
  <2>3. Len(t) + 1 \in 1 .. Len(t) + 1
    BY <1>1
  <2>4. e[(Len(u) - Len(g[Len(t) + 1])) + 1] = Replaced(c[Len(t) + 1])
    BY <2>1, <2>2, ReplacedOne
  <2> QED BY <2>3, <2>4 DEF Agrees
<1>9. ASSUME NEW i \in 1 .. Len(t), \A j \in (i + 1) .. (Len(t) + 1) : j \in P
      PROVE  i \in P
  <2>1. i \in 1 .. Len(t) + 1
    BY <1>1
  <2>2. PICK to : to = TokenEnd(t, i)
    OBVIOUS
  <2>3. to # 0 => Agrees(g, c, h, t, e, u, to)
    <3>1. to # 0 => to \in (i + 1) .. (Len(t) + 1)
      BY <2>2, TokenEnds
    <3>2. to # 0 => to \in P
      <4> HIDE DEF P
      <4> QED BY <1>9, <3>1
    <3> QED BY <3>2
  <2>4. Scanned(g, c, h, t, e, u)
    BY <1>2, <1>3, <1>4, <1>6 DEF Scanned
  <2>5. Agrees(g, c, h, t, e, u, i)
    BY <1>5, <2>2, <2>3, <2>4, InlinedStep
  <2> QED BY <2>1, <2>5
<1>10. 1 \in P
  <2>1. 1 .. Len(t) + 1 \subseteq P
    <3> HIDE DEF P
    <3> QED BY <1>1, <1>8, <1>9, FromTheEnd
  <2>2. 1 \in 1 .. Len(t) + 1
    BY <1>1
  <2> HIDE DEF P
  <2> QED BY <2>1, <2>2
<1>11. Suffix(u, g[1]) /\ (Len(u) - Len(g[1])) + 1 = 1
  <2>1. u = g[1]
    BY DEF u
  <2>2. Len(u) \in Nat
    BY <1>5, LenProperties
  <2>3. \A d \in 1 .. Len(u) : (Len(u) - Len(u)) + d = d
    BY <2>2
  <2> QED BY <2>1, <2>2, <2>3 DEF Suffix
<1>12. e[1] = Replaced(c[1])
  <2>1. Agrees(g, c, h, t, e, u, 1)
    BY <1>10
  <2> QED BY <1>7, <1>11, <2>1 DEF Agrees
<1> QED BY <1>2, <1>3, <1>6, <1>12 DEF u

-----------------------------------------------------------------------------
(***************************************************************************)
(* The lexemes of texts put one after the other.                           *)
(***************************************************************************)
\* The symbols of the token of t from i to m stand in u from k to n, and what follows is not of it.
Stands(t, i, m, u, k, n) ==
  /\ k \in 1 .. Len(u) /\ n \in 1 .. Len(u) + 1 /\ n = k + (m - i)
  /\ Same(t, i, u, k, m - i)
  /\ n <= Len(u) => Ends(t, i, u[n])

\* A token has the same lexeme wherever its symbols stand, if what follows does not belong to it.
LEMMA TokenStands ==
  ASSUME NEW t \in Seq(Symbol), NEW i \in 1 .. Len(t), NEW m, m = TokenEnd(t, i), m # 0,
         NEW u \in Seq(Symbol), NEW k, NEW n, Stands(t, i, m, u, k, n)
  PROVE  TokenEnd(u, k) = n /\ Lexeme(u, k, n) = Lexeme(t, i, m)
<1>0. /\ k \in 1 .. Len(u) /\ n \in 1 .. Len(u) + 1 /\ n = k + (m - i) /\ Same(t, i, u, k, m - i)
      /\ n <= Len(u) => Ends(t, i, u[n])
  BY DEF Stands
<1>1. TokenEnd(u, k) = n /\ u[k] = t[i] /\ (Starts(u, k, "/", "/") <=> Starts(t, i, "/", "/"))
  BY <1>0, TokenMoves
<1>2. Len(t) \in Nat /\ i \in Nat \ {0} /\ Len(u) \in Nat /\ k \in Nat \ {0}
  BY <1>0, LenProperties
<1>3. m \in (i + 1) .. (Len(t) + 1)
  BY TokenEnds
<1>4. /\ At(t, i, <<"/", "/">>) <=> Starts(t, i, "/", "/")
      /\ At(u, k, <<"/", "/">>) <=> Starts(u, k, "/", "/")
  BY <1>2, AtTwo DEF Starts
<1> DEFINE s == SubSeq(t, i, m - 1)
<1>5. s \in Seq(Symbol) /\ Len(s) = m - i /\ Same(s, 1, t, i, Len(s))
  <2>1. s = SubSeq(t, i, m - 1)
    OBVIOUS
  <2> HIDE DEF s
  <2>2. s \in Seq(Symbol) /\ Same(s, 1, t, i, Len(s))
    BY <1>3, <2>1, SegmentForms, Zenon
  <2>3. Len(s) = m - i
    BY <1>3, <2>1, SegmentLength, Zenon DEF Long
  <2> QED BY <2>2, <2>3
<1> HIDE DEF s
<1>6. Same(s, 1, u, k, Len(s)) /\ n = k + Len(s)
  <2>1. ASSUME NEW d \in 0 .. Len(s) - 1 PROVE u[k + d] = s[1 + d]
    <3>1. d \in 0 .. (m - i) - 1
      BY <1>5
    <3>2. u[k + d] = t[i + d]
      BY <1>0, <3>1 DEF Same
    <3>3. t[i + d] = s[1 + d]
      BY <1>5 DEF Same
    <3> QED BY <3>2, <3>3
  <2> QED BY <1>0, <1>5, <2>1 DEF Same
<1>7. SubSeq(u, k, n - 1) = s
  BY <1>0, <1>5, <1>6, Copied
<1>8. Lexeme(u, k, n) = IF u[k] \in Space \/ Starts(u, k, "/", "/") THEN <<>> ELSE <<s>>
  BY <1>4, <1>7 DEF Lexeme
<1>9. Lexeme(t, i, m) = IF t[i] \in Space \/ Starts(t, i, "/", "/") THEN <<>> ELSE <<s>>
  BY <1>4 DEF Lexeme, s
<1> QED BY <1>1, <1>8, <1>9

\* The tokens of a text are those it has as the end of another, g symbols before it.
LEMMA TokenShifts ==
  ASSUME NEW u \in Seq(Symbol), NEW r \in Seq(Symbol), Suffix(u, r), NEW g, g = Len(u) - Len(r),
         NEW k \in 1 .. Len(r), NEW m, m = TokenEnd(r, k), NEW p, p = g + k
  PROVE  /\ p \in 1 .. Len(u)
         /\ m # 0 => TokenEnd(u, p) = g + m /\ Lexeme(u, p, g + m) = Lexeme(r, k, m)
         /\ m = 0 => TokenEnd(u, p) = 0 /\ Lexeme(u, p, 0) = Lexeme(r, k, 0)
<1>1. /\ Len(u) \in Nat /\ Len(r) \in Nat /\ k \in Nat \ {0} /\ g \in Nat /\ Len(u) = g + Len(r)
  BY LenProperties DEF Suffix
<1>3. \A j \in 1 .. Len(r) : u[g + j] = r[j]
  BY DEF Suffix
<1>4. p \in 1 .. Len(u) /\ p \in Nat \ {0}
  BY <1>1
<1>5. ASSUME m # 0
      PROVE  TokenEnd(u, p) = g + m /\ Lexeme(u, p, g + m) = Lexeme(r, k, m)
  <2>1. m \in (k + 1) .. (Len(r) + 1)
    BY <1>5, TokenEnds
  <2>2. m <= Len(r) => Ends(r, k, r[m])
    BY <1>5, TokenEnds
  <2> DEFINE n == g + m
  <2>3. n \in 1 .. Len(u) + 1 /\ n = p + (m - k)
    BY <1>1, <2>1
  <2>4. n <= Len(u) => Ends(r, k, u[n])
    <3>1. n <= Len(u) => m \in 1 .. Len(r) /\ m <= Len(r)
      BY <1>1, <2>1
    <3> QED BY <1>3, <2>2, <3>1
  <2>5. Same(r, k, u, p, m - k)
    <3>1. ASSUME NEW d \in 0 .. (m - k) - 1 PROVE u[p + d] = r[k + d]
      <4>1. k + d \in 1 .. Len(r) /\ g + (k + d) = p + d
        BY <1>1, <2>1
      <4> QED BY <1>3, <4>1
    <3> QED BY <3>1 DEF Same
  <2> HIDE DEF n
  <2>6. Stands(r, k, m, u, p, n)
    BY <1>4, <2>3, <2>4, <2>5 DEF Stands
  <2>7. TokenEnd(u, p) = n /\ Lexeme(u, p, n) = Lexeme(r, k, m)
    <3>1. TokenEnd(u, p) = n
      BY <1>5, <2>6, TokenStands
    <3>2. Lexeme(u, p, n) = Lexeme(r, k, m)
      BY <1>5, <2>6, TokenStands
    <3> QED BY <3>1, <3>2
  <2> QED BY <2>7 DEF n
<1>6. ASSUME m = 0
      PROVE  TokenEnd(u, p) = 0 /\ Lexeme(u, p, 0) = Lexeme(r, k, 0)
  <2>1. TokenEnd(u, p) = 0
    <3> SUFFICES ASSUME NEW n, n = TokenEnd(u, p), n # 0 PROVE FALSE
      OBVIOUS
    <3>1. n \in (p + 1) .. (Len(u) + 1)
      BY <1>4, TokenEnds
    <3>2. n <= Len(u) => Ends(u, p, u[n])
      BY <1>4, TokenEnds
    <3> DEFINE l == n - g
    <3>3. l \in 1 .. Len(r) + 1 /\ l = k + (n - p) /\ l # 0
      BY <1>1, <3>1
    <3>4. l <= Len(r) => Ends(u, p, r[l])
      <4>1. l <= Len(r) => l \in 1 .. Len(r) /\ g + l = n /\ n <= Len(u)
        <5>1. Len(r) \in Nat /\ g \in Nat /\ l \in 1 .. Len(r) + 1 /\ l = n - g /\ Len(u) = g + Len(r) /\ n \in Int
          BY <1>1, <1>4, <3>1, <3>3
        <5> HIDE DEF l
        <5> QED BY <5>1
      <4> QED BY <1>3, <3>2, <4>1
    <3>5. Same(u, p, r, k, n - p)
      <4>1. ASSUME NEW d \in 0 .. (n - p) - 1 PROVE r[k + d] = u[p + d]
        <5>1. k + d \in 1 .. Len(r) /\ g + (k + d) = p + d
          BY <1>1, <3>1
        <5> QED BY <1>3, <5>1
      <4> QED BY <4>1 DEF Same
    <3> HIDE DEF l
    <3>6. Stands(u, p, n, r, k, l)
      BY <3>3, <3>4, <3>5 DEF Stands
    <3>7. TokenEnd(r, k) = l
      BY <1>4, <3>6, TokenStands
    <3> QED BY <1>6, <3>3, <3>7
  <2>2. u[p] = r[k]
    BY <1>3
  <2>3. Starts(u, p, "/", "/") <=> Starts(r, k, "/", "/")
    <3>1. p + 1 <= Len(u) <=> k + 1 <= Len(r)
      BY <1>1
    <3>2. k + 1 <= Len(r) => k + 1 \in 1 .. Len(r) /\ g + (k + 1) = p + 1
      BY <1>1
    <3> QED BY <1>3, <2>2, <3>1, <3>2 DEF Starts
  <2>4. /\ At(u, p, <<"/", "/">>) <=> Starts(u, p, "/", "/")
        /\ At(r, k, <<"/", "/">>) <=> Starts(r, k, "/", "/")
    <3>1. At(u, p, <<"/", "/">>) <=> p + 1 <= Len(u) /\ u[p] = "/" /\ u[p + 1] = "/"
      BY <1>4, AtTwo
    <3>2. At(r, k, <<"/", "/">>) <=> k + 1 <= Len(r) /\ r[k] = "/" /\ r[k + 1] = "/"
      BY <1>1, AtTwo
    <3> QED BY <3>1, <3>2 DEF Starts
  <2>5. SubSeq(u, p, 0 - 1) = <<>> /\ SubSeq(r, k, 0 - 1) = <<>>
    <3>1. p \in Int /\ k \in Int /\ 0 - 1 \in Int /\ 0 - 1 < p /\ 0 - 1 < k
      BY <1>1, <1>4
    <3> QED BY <3>1, SubSeqEmpty
  <2>6. Lexeme(u, p, 0) = IF u[p] \in Space \/ Starts(u, p, "/", "/") THEN <<>> ELSE <<<<>>>>
    BY <2>4, <2>5 DEF Lexeme
  <2>7. Lexeme(r, k, 0) = IF r[k] \in Space \/ Starts(r, k, "/", "/") THEN <<>> ELSE <<<<>>>>
    BY <2>4, <2>5 DEF Lexeme
  <2> QED BY <2>1, <2>2, <2>3, <2>6, <2>7
<1> QED BY <1>4, <1>5, <1>6

\* What is scanned of the end of a text is what is scanned of it by itself.
LEMMA LexemesShift ==
  ASSUME NEW u \in Seq(Symbol), NEW r \in Seq(Symbol), Suffix(u, r), NEW g, g = Len(u) - Len(r),
         NEW e, Lexes(e, u), NEW f, Lexes(f, r)
  PROVE  e[g + 1] = f[1]
<1>1. /\ Len(u) \in Nat /\ Len(r) \in Nat /\ g \in Nat /\ Len(u) = g + Len(r)
  BY LenProperties DEF Suffix
<1> DEFINE P == {k \in 1 .. Len(r) + 1 : e[g + k] = f[k]}
<1>3. Len(r) + 1 \in P
  <2>1. e[Len(u) + 1] = <<>> /\ f[Len(r) + 1] = <<>>
    BY LexesSteps
  <2>2. g + (Len(r) + 1) = Len(u) + 1 /\ Len(r) + 1 \in 1 .. Len(r) + 1
    BY <1>1
  <2> QED BY <2>1, <2>2
<1>4. ASSUME NEW k \in 1 .. Len(r), \A j \in (k + 1) .. (Len(r) + 1) : j \in P
      PROVE  k \in P
  <2> DEFINE p == g + k
             m == TokenEnd(r, k)
  <2>1. k \in 1 .. Len(r) + 1
    BY <1>1
  <2>0. p = g + k /\ m = TokenEnd(r, k)
    OBVIOUS
  <2> HIDE DEF p, m
  <2>2. CASE m # 0
    <3>1. m \in (k + 1) .. (Len(r) + 1)
      BY <2>0, <2>2, TokenEnds
    <3>2. p \in 1 .. Len(u) /\ TokenEnd(u, p) = g + m /\ Lexeme(u, p, g + m) = Lexeme(r, k, m)
      <4>1. p \in 1 .. Len(u)
        BY <2>0, TokenShifts
      <4>2. TokenEnd(u, p) = g + m
        BY <2>0, <2>2, TokenShifts
      <4>3. Lexeme(u, p, g + m) = Lexeme(r, k, m)
        BY <2>0, <2>2, TokenShifts
      <4> QED BY <4>1, <4>2, <4>3
    <3>3. g + m # 0
      BY <1>1, <3>1
    <3>4. e[p] = Lexeme(u, p, TokenEnd(u, p)) \o e[TokenEnd(u, p)]
      BY <3>2, <3>3, LexesSteps
    <3>5. f[k] = Lexeme(r, k, m) \o f[m]
      BY <2>0, <2>2, LexesSteps
    <3>6. e[g + m] = f[m]
      BY <1>4, <3>1
    <3> QED BY <2>0, <2>1, <3>2, <3>4, <3>5, <3>6
  <2>3. CASE m = 0
    <3>1. p \in 1 .. Len(u) /\ TokenEnd(u, p) = 0 /\ Lexeme(u, p, 0) = Lexeme(r, k, 0)
      <4>1. p \in 1 .. Len(u)
        BY <2>0, TokenShifts
      <4>2. TokenEnd(u, p) = 0
        <5>1. 0 = TokenEnd(r, k)
          BY <2>0, <2>3
        <5> QED BY <2>0, <5>1, TokenShifts
      <4>3. Lexeme(u, p, 0) = Lexeme(r, k, 0)
        <5>1. 0 = TokenEnd(r, k)
          BY <2>0, <2>3
        <5> QED BY <2>0, <5>1, TokenShifts
      <4> QED BY <4>1, <4>2, <4>3
    <3>2. e[p] = Lexeme(u, p, 0) \o <<>>
      BY <3>1, LexesSteps
    <3>3. f[k] = Lexeme(r, k, 0) \o <<>>
      BY <2>0, <2>3, LexesSteps
    <3> QED BY <2>0, <2>1, <3>1, <3>2, <3>3
  <2> QED BY <2>2, <2>3
<1>5. 1 \in P
  <2>1. 1 .. Len(r) + 1 \subseteq P
    <3> HIDE DEF P
    <3> QED BY <1>1, <1>3, <1>4, FromTheEnd
  <2>2. 1 \in 1 .. Len(r) + 1
    BY <1>1
  <2> HIDE DEF P
  <2> QED BY <2>1, <2>2
<1> QED BY <1>5

LEMMA CodeTyped ==
  /\ Code(<<>>) = <<>>
  /\ \A t \in Seq(Symbol) : Code(t) \in Seq(Seq(Symbol))
<1>1. ASSUME NEW t \in Seq(Symbol) PROVE Code(t) \in Seq(Seq(Symbol)) /\ (t = <<>> => Code(t) = <<>>)
  <2>1. PICK f : Code(t) = f[1] /\ Lexes(f, t)
    BY CodeScans DEF Lexes
  <2>2. 1 \in 1 .. Len(t) + 1
    BY LenProperties
  <2>3. f[1] \in Seq(Seq(Symbol)) /\ f[Len(t) + 1] = <<>>
    BY <2>1, <2>2, LexesSteps
  <2>4. t = <<>> => Len(t) + 1 = 1
    BY EmptySeq
  <2> QED BY <2>1, <2>3, <2>4
<1>2. <<>> \in Seq(Symbol)
  BY EmptySeq
<1> QED BY <1>1, <1>2

\* Where the symbols of w and r stand in both of them together.
LEMMA Together ==
  ASSUME NEW w \in Seq(Symbol), NEW r \in Seq(Symbol), NEW u, u = w \o r
  PROVE  /\ u \in Seq(Symbol) /\ Len(u) = Len(w) + Len(r) /\ Suffix(u, r)
         /\ Len(w) \in Nat /\ Len(r) \in Nat
         /\ \A j \in 1 .. Len(w) : u[j] = w[j]
         /\ Len(r) >= 1 => u[Len(w) + 1] = r[1]
<1>1. /\ u \in Seq(Symbol) /\ Len(u) = Len(w) + Len(r)
      /\ \A j \in 1 .. Len(w) + Len(r) : u[j] = IF j <= Len(w) THEN w[j] ELSE r[j - Len(w)]
  BY ConcatProperties
<1>2. Len(w) \in Nat /\ Len(r) \in Nat
  BY LenProperties
<1>3. ASSUME NEW n, n = Len(u), NEW a \in Nat, a = Len(w), NEW b \in Nat, b = Len(r), n = a + b,
             \A j \in 1 .. a + b : u[j] = IF j <= a THEN w[j] ELSE r[j - a]
      PROVE  /\ b <= n /\ \A d \in 1 .. b : u[(n - b) + d] = r[d]
             /\ \A j \in 1 .. a : u[j] = w[j]
             /\ b >= 1 => u[a + 1] = r[1]
  <2>1. ASSUME NEW d \in 1 .. b PROVE u[(n - b) + d] = r[d]
    <3>1. (n - b) + d \in 1 .. a + b /\ ~ ((n - b) + d <= a) /\ ((n - b) + d) - a = d
      BY <1>3
    <3> QED BY <1>3, <3>1
  <2>2. b >= 1 => a + 1 \in 1 .. a + b /\ ~ (a + 1 <= a) /\ (a + 1) - a = 1
    BY <1>3
  <2>3. \A j \in 1 .. a : j \in 1 .. a + b /\ j <= a
    BY <1>3
  <2> QED BY <1>3, <2>1, <2>2, <2>3
<1>4. Suffix(u, r)
  BY <1>1, <1>2, <1>3, Zenon DEF Suffix
<1>5. (\A j \in 1 .. Len(w) : u[j] = w[j]) /\ (Len(r) >= 1 => u[Len(w) + 1] = r[1])
  BY <1>1, <1>2, <1>3, Zenon
<1> QED BY <1>1, <1>2, <1>4, <1>5

\* w is the token of t from i to to.
Token(w, t, i, to) == to = TokenEnd(t, i) /\ to # 0 /\ w = SubSeq(t, i, to - 1)

\* Its symbols.
LEMMA TokenIs ==
  ASSUME NEW t \in Seq(Symbol), NEW i \in 1 .. Len(t), NEW to, NEW w, Token(w, t, i, to)
  PROVE  /\ to = TokenEnd(t, i) /\ to # 0 /\ to \in (i + 1) .. (Len(t) + 1)
         /\ to <= Len(t) => Ends(t, i, t[to])
         /\ w \in Seq(Symbol) /\ Len(w) = to - i /\ Len(w) >= 1 /\ Len(w) \in Nat
         /\ w[1] = t[i] /\ Same(w, 1, t, i, Len(w))
         /\ w = SubSeq(t, i, to - 1)
<1>1. to = TokenEnd(t, i) /\ to # 0 /\ w = SubSeq(t, i, to - 1)
  BY DEF Token
<1>2. to \in (i + 1) .. (Len(t) + 1) /\ (to <= Len(t) => Ends(t, i, t[to]))
  BY <1>1, TokenEnds
<1>3. w \in Seq(Symbol) /\ Len(w) = to - i
  BY <1>1, <1>2, SegmentForms
<1>4. Len(w) >= 1 /\ w[1] = t[i]
  BY <1>1, <1>2, SegmentForms
<1>5. Same(w, 1, t, i, Len(w))
  BY <1>1, <1>2, SegmentForms
<1>6. Len(w) \in Nat
  BY <1>3, LenProperties, Zenon
<1> QED BY <1>1, <1>2, <1>3, <1>4, <1>5, <1>6, Zenon

\* A token put before a text that does not go on with it is one lexeme more.
LEMMA TokenFirst ==
  ASSUME NEW t \in Seq(Symbol), NEW i \in 1 .. Len(t), NEW to, NEW w, Token(w, t, i, to),
         NEW r \in Seq(Symbol), r = <<>> \/ Ends(t, i, r[1])
  PROVE  Code(w \o r) = Lexeme(t, i, to) \o Code(r)
<1>1. Len(t) \in Nat /\ Len(r) \in Nat /\ i \in Nat
  BY LenProperties
<1>2. to = TokenEnd(t, i) /\ to # 0 /\ to \in (i + 1) .. (Len(t) + 1)
  BY TokenIs
<1>3. w \in Seq(Symbol) /\ Len(w) = to - i /\ Len(w) >= 1 /\ Same(w, 1, t, i, Len(w))
  BY TokenIs
<1> DEFINE u == w \o r
           g == Len(u) - Len(r)
           n == Len(w) + 1
<1>4. /\ u \in Seq(Symbol) /\ Len(u) = Len(w) + Len(r) /\ Suffix(u, r)
      /\ \A j \in 1 .. Len(w) : u[j] = w[j]
      /\ Len(r) >= 1 => u[Len(w) + 1] = r[1]
  <2>1. u = w \o r
    OBVIOUS
  <2> HIDE DEF u
  <2>2. u \in Seq(Symbol) /\ Len(u) = Len(w) + Len(r)
    BY <1>3, <2>1, Together
  <2>3. Suffix(u, r)
    BY <1>3, <2>1, Together
  <2>4. \A j \in 1 .. Len(w) : u[j] = w[j]
    BY <1>3, <2>1, Together
  <2>5. Len(r) >= 1 => u[Len(w) + 1] = r[1]
    BY <1>3, <2>1, Together
  <2> QED BY <2>2, <2>3, <2>4, <2>5
<1> HIDE DEF u
<1>5. PICK e : Code(u) = e[1] /\ Lexes(e, u)
  BY <1>4, CodeScans DEF Lexes
<1>6. PICK f : Code(r) = f[1] /\ Lexes(f, r)
  BY CodeScans DEF Lexes
<1>7. e[g + 1] = f[1]
  <2>1. g = Len(u) - Len(r)
    OBVIOUS
  <2> HIDE DEF g
  <2> QED BY <1>4, <1>5, <1>6, <2>1, LexemesShift
<1>8. n \in 1 .. Len(u) + 1 /\ n = 1 + (to - i) /\ 1 \in 1 .. Len(u) /\ n # 0 /\ n = g + 1
  <2>1. /\ Len(t) \in Nat /\ Len(r) \in Nat /\ i \in Nat /\ to \in (i + 1) .. (Len(t) + 1)
        /\ Len(w) = to - i /\ Len(u) = Len(w) + Len(r)
    BY <1>1, <1>2, <1>3, <1>4, Zenon
  <2> QED BY <2>1
<1>9. Same(t, i, u, 1, to - i)
  <2>1. ASSUME NEW d \in 0 .. (to - i) - 1 PROVE u[1 + d] = t[i + d]
    <3>1. d \in 0 .. Len(w) - 1 /\ 1 + d \in 1 .. Len(w)
      BY <1>1, <1>2, <1>3
    <3>2. t[i + d] = w[1 + d]
      BY <1>3, <3>1 DEF Same
    <3> QED BY <1>4, <3>1, <3>2
  <2> QED BY <2>1 DEF Same
<1>10. n <= Len(u) => Ends(t, i, u[n])
  <2>1. n <= Len(u) => Len(r) >= 1 /\ Len(r) # 0
    <3>1. Len(r) \in Nat /\ Len(w) \in Nat /\ Len(u) = Len(w) + Len(r)
      BY <1>3, <1>4, LenProperties, Zenon
    <3> QED BY <3>1
  <2>2. r = <<>> => Len(r) = 0
    BY EmptySeq
  <2> QED BY <1>4, <2>1, <2>2
<1> HIDE DEF n, g
<1>11. TokenEnd(u, 1) = n /\ Lexeme(u, 1, n) = Lexeme(t, i, to)
  <2>1. Stands(t, i, to, u, 1, n)
    BY <1>8, <1>9, <1>10 DEF Stands
  <2>2. TokenEnd(u, 1) = n
    BY <1>2, <1>4, <2>1, TokenStands
  <2>3. Lexeme(u, 1, n) = Lexeme(t, i, to)
    BY <1>2, <1>4, <2>1, TokenStands
  <2> QED BY <2>2, <2>3
<1>12. e[1] = Lexeme(u, 1, TokenEnd(u, 1)) \o e[TokenEnd(u, 1)]
  <2>1. 1 \in 1 .. Len(u) /\ TokenEnd(u, 1) # 0
    BY <1>8, <1>11
  <2>2. u \in Seq(Symbol) /\ Lexes(e, u)
    BY <1>4, <1>5
  <2> QED BY <2>1, <2>2, LexesSteps
<1>13. e[n] = Code(r)
  BY <1>6, <1>7, <1>8
<1> QED BY <1>5, <1>11, <1>12, <1>13 DEF u

\* A space put before a text is none.
LEMMA SpaceFirst ==
  ASSUME NEW x \in Space, NEW r \in Seq(Symbol)
  PROVE  <<x>> \in Seq(Symbol) /\ Code(<<x>> \o r) = Code(r)
<1> DEFINE t == <<x>>
<1>1. x \in Symbol
  BY DEF Symbol, Written
<1>2. t \in Seq(Symbol) /\ Len(t) = 1 /\ t[1] = x
  BY <1>1
<1> HIDE DEF t
<1>3. 1 \in 1 .. Len(t)
  BY <1>2
<1>4. x # "/" /\ x # ";" /\ x \notin Quote /\ x \notin Word \cup {"$"}
  BY Kinds
<1>5. ~ Starts(t, 1, "/", "*") /\ ~ Starts(t, 1, "/", "/")
  BY <1>2, <1>4 DEF Starts
<1>6. TokenEnd(t, 1) = 1 + 1
  BY <1>2, <1>3, <1>4, <1>5, TokenKinds
<1>7. SubSeq(t, 1, (1 + 1) - 1) = <<x>>
  BY <1>2, <1>3, OneSymbol
<1>8. Ends(t, 1, r[1])
  BY <1>2, <1>4, <1>5 DEF Ends
<1>9. Lexeme(t, 1, 1 + 1) = <<>>
  BY <1>2 DEF Lexeme
<1>10. Code(<<x>> \o r) = Lexeme(t, 1, 1 + 1) \o Code(r)
  <2> DEFINE w == <<x>>
             to == 1 + 1
  <2>0. to # 0
    OBVIOUS
  <2>1. to # 0 /\ to = TokenEnd(t, 1) /\ w = SubSeq(t, 1, to - 1)
    BY <1>6, <1>7, <2>0, Zenon
  <2>4. r = <<>> \/ Ends(t, 1, r[1])
    BY <1>8
  <2> HIDE DEF w, to
  <2>2. Token(w, t, 1, to)
    BY <2>1, Zenon DEF Token
  <2>3. Code(w \o r) = Lexeme(t, 1, to) \o Code(r)
    <3> DEFINE i == 1
    <3>1. i \in 1 .. Len(t) /\ Token(w, t, i, to) /\ (r = <<>> \/ Ends(t, i, r[1]))
      BY <1>3, <2>2, <2>4
    <3> HIDE DEF i
    <3>2. Code(w \o r) = Lexeme(t, i, to) \o Code(r)
      <4>1. t \in Seq(Symbol)
        BY <1>2
      <4> QED BY <3>1, <4>1, TokenFirst
    <3> QED BY <3>2 DEF i
  <2> QED BY <2>3, Zenon DEF w, to
<1>11. <<>> \o Code(r) = Code(r)
  BY CodeTyped, ConcatEmptySeq
<1> QED BY <1>2, <1>9, <1>10, <1>11 DEF t

-----------------------------------------------------------------------------
(***************************************************************************)
(* Spaces at the end.                                                      *)
(***************************************************************************)
\* A piece of a text, and how pieces that touch make a longer one.
LEMMA Pieces ==
  ASSUME NEW t \in Seq(Symbol), NEW i \in 1 .. Len(t) + 1, NEW n \in i .. Len(t) + 1
  PROVE  /\ SubSeq(t, i, n - 1) \in Seq(Symbol) /\ Len(SubSeq(t, i, n - 1)) = n - i
         /\ \A j \in 1 .. n - i : SubSeq(t, i, n - 1)[j] = t[i + j - 1]
         /\ \A k \in i .. n : SubSeq(t, i, k - 1) \o SubSeq(t, k, n - 1) = SubSeq(t, i, n - 1)
<1>1. Len(t) \in Nat /\ i \in Int /\ n - 1 \in Int
  BY LenProperties
<1>2. \A j \in i .. n - 1 : t[j] \in Symbol
  BY <1>1, ElementOfSeq
<1> DEFINE v == SubSeq(t, i, n - 1)
<1>3. /\ v \in Seq(Symbol)
      /\ Len(v) = IF i <= n - 1 THEN (n - 1) - i + 1 ELSE 0
      /\ \A j \in 1 .. (n - 1) - i + 1 : v[j] = t[i + j - 1]
  BY <1>1, <1>2, SubSeqProperties
<1>4. ASSUME NEW k \in i .. n PROVE SubSeq(t, i, k - 1) \o SubSeq(t, k, n - 1) = v
  <2>1. k - 1 \in i - 1 .. Len(t) /\ n - 1 \in k - 1 .. Len(t) /\ (k - 1) + 1 = k
    BY <1>1
  <2> HIDE DEF v
  <2>2. SubSeq(t, i, k - 1) \o SubSeq(t, (k - 1) + 1, n - 1) = v
    BY <2>1, ConcatAdjacentSubSeq DEF v
  <2> QED BY <2>1, <2>2, Zenon
<1> HIDE DEF v
<1>5. Len(v) = n - i /\ \A j \in 1 .. n - i : v[j] = t[i + j - 1]
  <2>1. (n - 1) - i + 1 = n - i /\ (~ (i <= n - 1) => n - i = 0)
    BY <1>1
  <2> QED BY <1>3, <2>1
<1> QED BY <1>3, <1>4, <1>5, Zenon DEF v

\* The greatest of some numbers.
LEMMA Greatest ==
  ASSUME NEW l \in Nat, NEW T \in SUBSET (0 .. l), T # {}
  PROVE  Max(T) \in T /\ \A j \in T : j <= Max(T)
<1> DEFINE D == {l - j : j \in T}
<1>1. D \in SUBSET Nat /\ D # {}
  OBVIOUS
<1>2. PICK n \in D : \A j \in D : n <= j
  <2> HIDE DEF D
  <2> QED BY <1>1, SmallestNumber
<1>3. PICK m \in T : n = l - m
  BY <1>2
<1>4. ASSUME NEW j \in T PROVE m >= j
  <2>1. l - m <= l - j
    BY <1>2, <1>3
  <2>2. m \in Nat /\ j \in Nat
    OBVIOUS
  <2> QED BY <2>1, <2>2
<1> DEFINE c == CHOOSE x \in T : \A y \in T : x >= y
<1>5. c \in T /\ \A j \in T : c >= j
  <2> HIDE DEF D
  <2> QED BY <1>4
<1>6. Max(T) = c
  BY DEF Max
<1> HIDE DEF c
<1>7. \A j \in T : c >= j => j <= c
  BY <1>5
<1> QED BY <1>5, <1>6, <1>7

\* The spaces at the end of t begin behind m.
Trimmed(t, m) ==
  /\ m \in 0 .. Len(t)
  /\ m # 0 => t[m] \notin Space
  /\ \A j \in m + 1 .. Len(t) : t[j] \in Space

\* That is how far TrimRight keeps it.
LEMMA TrimIs ==
  ASSUME NEW t \in Seq(Symbol)
  PROVE  /\ \E m : Trimmed(t, m)
         /\ \A m : Trimmed(t, m) => TrimRight(t) = SubSeq(t, 1, m)
<1>1. Len(t) \in Nat
  BY LenProperties
<1> DEFINE T == {j \in 1 .. Len(t) : t[j] \notin Space} \cup {0}
           c == Max(T)
<1>2. T \in SUBSET (0 .. Len(t)) /\ T # {}
  BY <1>1
<1>3. c \in T /\ \A j \in T : j <= c
  <2> HIDE DEF T
  <2> QED BY <1>1, <1>2, Greatest
<1>4. TrimRight(t) = SubSeq(t, 1, c)
  BY DEF TrimRight
<1> HIDE DEF c
<1>5. Trimmed(t, c)
  <2>1. c \in 0 .. Len(t) /\ (c # 0 => t[c] \notin Space)
    BY <1>1, <1>3
  <2>2. ASSUME NEW j \in c + 1 .. Len(t), t[j] \notin Space PROVE FALSE
    <3>1. j \in 1 .. Len(t) /\ c \in Nat /\ ~ (j <= c)
      BY <1>1, <2>1
    <3> QED BY <1>3, <2>2, <3>1
  <2> QED BY <2>1, <2>2 DEF Trimmed
<1>6. ASSUME NEW m, Trimmed(t, m) PROVE m = c
  <2>1. /\ m \in 0 .. Len(t) /\ (m # 0 => t[m] \notin Space)
        /\ \A j \in m + 1 .. Len(t) : t[j] \in Space
    BY <1>6 DEF Trimmed
  <2>2. c \in 0 .. Len(t) /\ (c # 0 => t[c] \notin Space)
    BY <1>1, <1>3
  <2>3. m <= c
    BY <1>1, <1>3, <2>1
  <2>4. ~ (m + 1 <= c)
    <3>1. m + 1 <= c => c \in m + 1 .. Len(t) /\ c # 0
      BY <1>1, <2>1, <2>2
    <3> QED BY <2>1, <2>2, <3>1
  <2> QED BY <1>1, <2>1, <2>2, <2>3, <2>4
<1> QED BY <1>4, <1>5, <1>6

\* Of two pieces, the second is trimmed, and where nothing is left of it, the first.
LEMMA TrimJoin ==
  ASSUME NEW a \in Seq(Symbol), NEW b \in Seq(Symbol)
  PROVE  /\ TrimRight(b) \in Seq(Symbol)
         /\ TrimRight(a \o b) = IF TrimRight(b) = <<>> THEN TrimRight(a) ELSE a \o TrimRight(b)
<1> DEFINE u == a \o b
<1>1. /\ u \in Seq(Symbol) /\ Len(u) = Len(a) + Len(b)
      /\ \A j \in 1 .. Len(a) + Len(b) : u[j] = IF j <= Len(a) THEN a[j] ELSE b[j - Len(a)]
  BY ConcatProperties
<1>2. Len(a) \in Nat /\ Len(b) \in Nat
  BY LenProperties
<1>3. PICK m : Trimmed(b, m) /\ TrimRight(b) = SubSeq(b, 1, m)
  BY TrimIs
<1>4. m \in 0 .. Len(b) /\ (m # 0 => b[m] \notin Space) /\ \A j \in m + 1 .. Len(b) : b[j] \in Space
  BY <1>3 DEF Trimmed
<1> DEFINE d == SubSeq(b, 1, m)
<1>5. d \in Seq(Symbol) /\ Len(d) = m
  <2>1. 1 \in 1 .. Len(b) + 1 /\ m + 1 \in 1 .. Len(b) + 1 /\ (m + 1) - 1 = m
    BY <1>2, <1>4
  <2>2. SubSeq(b, 1, (m + 1) - 1) \in Seq(Symbol) /\ Len(SubSeq(b, 1, (m + 1) - 1)) = (m + 1) - 1
    BY <2>1, Pieces
  <2> QED BY <2>1, <2>2
<1>6. d = <<>> <=> m = 0
  <2> HIDE DEF d
  <2> QED BY <1>5, EmptySeq
<1>10. u = a \o b
  OBVIOUS
<1> HIDE DEF u, d
<1>7. CASE m = 0
  <2>1. PICK k : Trimmed(a, k) /\ TrimRight(a) = SubSeq(a, 1, k)
    BY TrimIs
  <2>2. k \in 0 .. Len(a) /\ (k # 0 => a[k] \notin Space) /\ \A j \in k + 1 .. Len(a) : a[j] \in Space
    BY <2>1 DEF Trimmed
  <2>3. Trimmed(u, k)
    <3>1. k \in 0 .. Len(u)
      BY <1>1, <1>2, <2>2
    <3>2. k # 0 => u[k] \notin Space
      BY <1>1, <1>2, <2>2
    <3>3. ASSUME NEW j \in k + 1 .. Len(u) PROVE u[j] \in Space
      <4>1. j \in 1 .. Len(a) + Len(b)
        BY <1>1, <1>2, <2>2
      <4>2. CASE j <= Len(a)
        <5>1. j \in k + 1 .. Len(a)
          BY <1>2, <4>2
        <5> QED BY <1>1, <2>2, <4>1, <4>2, <5>1
      <4>3. CASE ~ (j <= Len(a))
        <5>1. j - Len(a) \in m + 1 .. Len(b)
          BY <1>2, <1>7, <4>1, <4>3
        <5> QED BY <1>1, <1>4, <4>1, <4>3, <5>1
      <4> QED BY <4>2, <4>3
    <3> QED BY <3>1, <3>2, <3>3 DEF Trimmed
  <2>4. TrimRight(u) = SubSeq(u, 1, k)
    BY <1>1, <2>3, TrimIs
  <2>5. SubSeq(u, 1, k) = SubSeq(a, 1, k)
    <3>1. CASE k = 0
      BY <3>1, SubSeqEmpty
    <3>2. CASE k # 0
      <4>1. 1 \in 1 .. Len(a) /\ k \in 1 .. Len(a)
        BY <1>2, <2>2, <3>2
      <4> QED BY <1>10, <4>1, SubSeqOfConcat1
    <3> QED BY <3>1, <3>2
  <2>6. TrimRight(u) = TrimRight(a) /\ TrimRight(b) = <<>>
    BY <1>3, <1>6, <1>7, <2>1, <2>4, <2>5 DEF d
  <2> QED BY <1>10, <2>6, EmptySeq
<1>8. CASE m # 0
  <2> DEFINE k == Len(a) + m
  <2>1. k \in 1 .. Len(u) /\ ~ (k <= Len(a)) /\ k - Len(a) = m /\ k # 0
    BY <1>1, <1>2, <1>4, <1>8
  <2>2. u[k] \notin Space
    <3>1. k \in 1 .. Len(a) + Len(b)
      BY <1>1, <2>1
    <3> HIDE DEF k
    <3> QED BY <1>1, <1>4, <1>8, <2>1, <3>1
  <2>3. ASSUME NEW j \in k + 1 .. Len(u) PROVE u[j] \in Space
    <3>1. j \in 1 .. Len(a) + Len(b) /\ ~ (j <= Len(a)) /\ j - Len(a) \in m + 1 .. Len(b)
      BY <1>1, <1>2, <1>4
    <3> QED BY <1>1, <1>4, <3>1
  <2>4. TrimRight(u) = SubSeq(u, 1, k)
    <3>1. k \in 0 .. Len(u)
      BY <2>1
    <3> HIDE DEF k
    <3>2. Trimmed(u, k)
      BY <2>2, <2>3, <3>1 DEF Trimmed
    <3> QED BY <1>1, <3>2, TrimIs
  <2>5. SubSeq(u, 1, k) = a \o d
    <3> DEFINE v == SubSeq(u, 1, k)
               w == a \o d
    <3>0. w = a \o d
      OBVIOUS
    <3>1. v \in Seq(Symbol) /\ Len(v) = k /\ \A j \in 1 .. k : v[j] = u[j]
      <4>1. 1 \in 1 .. Len(u) + 1 /\ k + 1 \in 1 .. Len(u) + 1 /\ (k + 1) - 1 = k
        BY <1>1, <1>2, <2>1
      <4> HIDE DEF k
      <4>2. /\ SubSeq(u, 1, (k + 1) - 1) \in Seq(Symbol) /\ Len(SubSeq(u, 1, (k + 1) - 1)) = (k + 1) - 1
            /\ \A j \in 1 .. (k + 1) - 1 : SubSeq(u, 1, (k + 1) - 1)[j] = u[1 + j - 1]
        BY <1>1, <4>1, Pieces
      <4>3. v \in Seq(Symbol) /\ Len(v) = k /\ \A j \in 1 .. k : v[j] = u[1 + j - 1]
        BY <4>1, <4>2, Zenon DEF v
      <4>4. \A j \in 1 .. k : 1 + j - 1 = j
        BY <2>1
      <4> HIDE DEF v
      <4> QED BY <4>3, <4>4
    <3>2. w \in Seq(Symbol) /\ Len(w) = k /\ \A j \in 1 .. k : w[j] = IF j <= Len(a) THEN a[j] ELSE d[j - Len(a)]
      <4>1. /\ w \in Seq(Symbol) /\ Len(w) = Len(a) + Len(d)
            /\ \A j \in 1 .. Len(a) + Len(d) : w[j] = IF j <= Len(a) THEN a[j] ELSE d[j - Len(a)]
        BY <1>5, ConcatProperties
      <4> HIDE DEF w
      <4> QED BY <1>5, <4>1
    <3> HIDE DEF v, w
    <3>3. ASSUME NEW j \in 1 .. k PROVE v[j] = w[j]
      <4>1. j \in 1 .. Len(a) + Len(b) /\ (~ (j <= Len(a)) => j - Len(a) \in 1 .. m)
        BY <1>1, <1>2, <2>1
      <4>2. \A c \in 1 .. m : d[c] = b[c]
        <5>1. 1 \in 1 .. Len(b) + 1 /\ m + 1 \in 1 .. Len(b) + 1 /\ (m + 1) - 1 = m
          BY <1>2, <1>4
        <5>2. \A c \in 1 .. (m + 1) - 1 : SubSeq(b, 1, (m + 1) - 1)[c] = b[1 + c - 1]
          BY <5>1, Pieces
        <5>3. \A c \in 1 .. m : d[c] = b[1 + c - 1]
          BY <5>1, <5>2, Zenon DEF d
        <5>4. \A c \in 1 .. m : 1 + c - 1 = c
          BY <1>4
        <5> QED BY <5>3, <5>4
      <4> QED BY <1>1, <3>1, <3>2, <4>1, <4>2
    <3>4. v = w
      <4> HIDE DEF k
      <4> QED BY <3>1, <3>2, <3>3, SeqEqual
    <3> QED BY <3>0, <3>4 DEF v
  <2>6. TrimRight(u) = a \o d /\ TrimRight(b) = d /\ d # <<>>
    BY <1>3, <1>6, <1>8, <2>4, <2>5 DEF d
  <2> QED BY <1>5, <1>10, <2>6
<1> QED BY <1>7, <1>8

\* A new line before a text is none.
LEMMA NewLine ==
  ASSUME NEW r \in Seq(Symbol)
  PROVE  /\ <<"\n">> \o r \in Seq(Symbol) /\ (<<"\n">> \o r)[1] = "\n"
         /\ Code(<<"\n">> \o r) = Code(r)
<1> DEFINE v == <<"\n">>
           u == v \o r
<1>1. v \in Seq(Symbol) /\ Code(u) = Code(r)
  <2>1. "\n" \in Space
    BY Kinds
  <2> QED BY <2>1, SpaceFirst
<1>2. Len(v) = 1 /\ v[1] = "\n"
  OBVIOUS
<1>3. u = v \o r
  OBVIOUS
<1> HIDE DEF u, v
<1>4. u \in Seq(Symbol)
  BY <1>1, <1>3, Together
<1>5. \A j \in 1 .. Len(v) : u[j] = v[j]
  BY <1>1, <1>3, Together
<1>6. u[1] = "\n"
  BY <1>2, <1>5
<1> QED BY <1>1, <1>4, <1>6 DEF u, v

\* A comment before a new line is none of the code.
LEMMA CommentFirst ==
  ASSUME NEW b \in Seq(Symbol), Len(b) >= 2, b[1] = "/", b[2] = "/", \A j \in 1 .. Len(b) : b[j] # "\n",
         NEW r \in Seq(Symbol)
  PROVE  Code(b \o (<<"\n">> \o r)) = Code(r)
<1> DEFINE l == Len(b) + 1
           k == 1
           u == <<"\n">> \o r
<1>0. Len(b) \in Nat
  BY LenProperties
<1>1. /\ k \in 1 .. Len(b) /\ k \in Nat \ {0} /\ k <= Len(b) + 1 /\ l - 1 = Len(b) /\ l # 0
      /\ k + 1 <= Len(b) /\ l \in k .. Len(b) + 1 /\ ~ (l <= Len(b)) /\ k + 1 = 2
      /\ \A j \in k .. Len(b) : j \in 1 .. Len(b)
  BY <1>0
<1>2. l = Len(b) + 1 /\ k = 1 /\ u = <<"\n">> \o r
  OBVIOUS
<1>3. u \in Seq(Symbol) /\ u[1] = "\n" /\ Code(u) = Code(r)
  BY NewLine
<1> HIDE DEF l, k, u
<1>4. Starts(b, k, "/", "/") /\ b[k] = "/"
  BY <1>1, <1>2 DEF Starts
<1>5. l = TokenEnd(b, k)
  <2>1. Stops(b, k, l, {"\n"})
    BY <1>1 DEF Stops
  <2>2. l = First(b, k, {"\n"})
    BY <1>1, <2>1, FirstStops
  <2>3. ~ Starts(b, k, "/", "*") /\ b[k] # ";"
    BY <1>4 DEF Starts
  <2> QED BY <1>1, <1>4, <2>2, <2>3, TokenKinds
<1>6. Token(b, b, k, l)
  <2>1. b = SubSeq(b, k, l - 1)
    BY <1>1, <1>2, SubSeqFull, Zenon
  <2> QED BY <1>1, <1>5, <2>1, Zenon DEF Token
<1>7. Lexeme(b, k, l) = <<>>
  <2>1. At(b, k, <<"/", "/">>)
    BY <1>1, <1>4, AtTwo DEF Starts
  <2> QED BY <2>1 DEF Lexeme
<1>8. u = <<>> \/ Ends(b, k, u[1])
  BY <1>3, <1>4, Kinds DEF Ends
<1>9. Code(b \o u) = Lexeme(b, k, l) \o Code(u)
  <2>1. k \in 1 .. Len(b) /\ u \in Seq(Symbol)
    BY <1>1, <1>3
  <2> QED BY <1>6, <1>8, <2>1, TokenFirst
<1>10. <<>> \o Code(r) = Code(r)
  BY CodeTyped, ConcatEmptySeq
<1> QED BY <1>2, <1>3, <1>7, <1>9, <1>10, Zenon

\* A token with the spaces at its end taken off is read as it was, if a new line follows.
LEMMA TrimmedToken ==
  ASSUME NEW t \in Seq(Symbol), NEW i \in 1 .. Len(t), NEW to, NEW w, Token(w, t, i, to),
         NEW b, b = TrimRight(w)
  PROVE  /\ b \in Seq(Symbol)
         /\ b = <<>> => Lexeme(t, i, to) = <<>>
         /\ b # <<>> => b[1] = t[i] /\ Len(b) >= 1
         /\ \A r \in Seq(Symbol) : Code(b \o (<<"\n">> \o r)) = Lexeme(t, i, to) \o Code(r)
<1>1. Len(t) \in Nat /\ i \in Nat \ {0}
  BY LenProperties
<1>2. to = TokenEnd(t, i) /\ to # 0 /\ to \in (i + 1) .. (Len(t) + 1)
  BY TokenIs
<1>3. w \in Seq(Symbol) /\ Len(w) = to - i /\ Len(w) >= 1 /\ Len(w) \in Nat /\ w[1] = t[i]
  BY TokenIs
<1>4. Same(w, 1, t, i, Len(w))
  BY TokenIs
<1>5. \A j \in 1 .. Len(w) : w[j] = t[i + (j - 1)]
  <2>1. ASSUME NEW j \in 1 .. Len(w) PROVE w[j] = t[i + (j - 1)]
    <3>1. j - 1 \in 0 .. Len(w) - 1 /\ 1 + (j - 1) = j
      BY <1>3
    <3>2. t[i + (j - 1)] = w[1 + (j - 1)]
      BY <1>4, <3>1 DEF Same
    <3> QED BY <3>1, <3>2
  <2> QED BY <2>1
<1>6. TokenEnd(t, i) =
        IF Starts(t, i, "/", "*") \/ t[i] = ";" THEN 0
        ELSE IF Starts(t, i, "/", "/") THEN First(t, i, {"\n"})
        ELSE IF t[i] \in Quote THEN QuotedEnd(t, i, 0)
        ELSE IF t[i] \in Word \cup {"$"} THEN WordEnd(t, i + 1)
        ELSE i + 1
  BY TokenKinds
<1>7. At(t, i, <<"/", "/">>) <=> Starts(t, i, "/", "/")
  BY <1>1, AtTwo DEF Starts
<1>8. PICK m : Trimmed(w, m) /\ b = SubSeq(w, 1, m)
  BY <1>3, TrimIs
<1>9. m \in 0 .. Len(w) /\ (m # 0 => w[m] \notin Space) /\ \A j \in m + 1 .. Len(w) : w[j] \in Space
  BY <1>8 DEF Trimmed
<1>10. /\ b \in Seq(Symbol) /\ Len(b) = m
       /\ \A j \in 1 .. m : b[j] = w[j]
  <2>1. 1 \in 1 .. Len(w) + 1 /\ m + 1 \in 1 .. Len(w) + 1 /\ (m + 1) - 1 = m /\ \A j \in 1 .. m : 1 + j - 1 = j
    BY <1>3, <1>9
  <2>2. /\ SubSeq(w, 1, (m + 1) - 1) \in Seq(Symbol) /\ Len(SubSeq(w, 1, (m + 1) - 1)) = (m + 1) - 1
        /\ \A j \in 1 .. (m + 1) - 1 : SubSeq(w, 1, (m + 1) - 1)[j] = w[1 + j - 1]
    BY <1>3, <2>1, Pieces
  <2> QED BY <1>8, <2>1, <2>2, Zenon
<1>11. b = <<>> <=> m = 0
  BY <1>10, EmptySeq
<1>12. b # <<>> => b[1] = t[i] /\ Len(b) >= 1
  BY <1>3, <1>9, <1>10, <1>11
<1>13. \A r \in Seq(Symbol) : /\ <<"\n">> \o r \in Seq(Symbol) /\ (<<"\n">> \o r)[1] = "\n"
                              /\ Code(<<"\n">> \o r) = Code(r)
  BY NewLine
<1>14. \A r \in Seq(Symbol) : <<>> \o Code(r) = Code(r)
  BY CodeTyped, ConcatEmptySeq
<1>15. \A r \in Seq(Symbol) : <<>> \o (<<"\n">> \o r) = <<"\n">> \o r
  BY <1>13, ConcatEmptySeq, Zenon
<1>20. CASE t[i] \in Space
  <2>1. t[i] # "/" /\ t[i] # ";" /\ t[i] \notin Quote /\ t[i] \notin Word \cup {"$"}
    BY <1>20, Kinds
  <2>2. to = i + 1
    BY <1>2, <1>6, <2>1 DEF Starts
  <2>3. m = 0
    <3>1. Len(w) = 1
      BY <1>1, <1>3, <2>2
    <3>2. m = 1 => w[1] \notin Space
      BY <1>9
    <3>3. m \in 0 .. 1
      BY <1>9, <3>1
    <3>4. m # 1
      BY <1>3, <1>20, <3>2
    <3> QED BY <3>3, <3>4
  <2>4. b = <<>> /\ Lexeme(t, i, to) = <<>>
    BY <1>11, <1>20, <2>3 DEF Lexeme
  <2>5. \A r \in Seq(Symbol) : Code(b \o (<<"\n">> \o r)) = Lexeme(t, i, to) \o Code(r)
    BY <1>13, <1>14, <1>15, <2>4, Zenon
  <2> QED BY <1>10, <1>12, <2>4, <2>5
<1>21. CASE Starts(t, i, "/", "/")
  <2>1. i + 1 <= Len(t) /\ t[i] = "/" /\ t[i + 1] = "/"
    BY <1>21 DEF Starts
  <2>2. Stops(t, i, to, {"\n"})
    <3>1. to = First(t, i, {"\n"})
      BY <1>2, <1>6, <1>21
    <3> QED BY <1>1, <3>1, FirstStops
  <2>3. \A j \in 1 .. Len(w) : w[j] # "\n"
    <3>1. ASSUME NEW j \in 1 .. Len(w) PROVE w[j] # "\n"
      <4>1. i + (j - 1) \in i .. Len(t) /\ i + (j - 1) < to
        BY <1>1, <1>2, <1>3
      <4> QED BY <1>5, <2>2, <4>1 DEF Stops
    <3> QED BY <3>1
  <2>4. to # i + 1
    <3>1. t[i + 1] # "\n" /\ i + 1 <= Len(t)
      BY <2>1
    <3> QED BY <2>2, <3>1 DEF Stops
  <2>5. Len(w) >= 2
    BY <1>1, <1>2, <1>3, <2>4
  <2>6. w[2] = "/"
    <3>1. 2 \in 1 .. Len(w) /\ i + (2 - 1) = i + 1
      BY <1>1, <1>3, <2>5
    <3> QED BY <1>5, <2>1, <3>1
  <2>7. m >= 2
    <3>1. "/" \notin Space
      BY Kinds
    <3>2. m + 1 <= 2 => 2 \in m + 1 .. Len(w)
      BY <1>9, <2>5
    <3> QED BY <1>9, <2>6, <3>1, <3>2
  <2>8. b[1] = "/" /\ b[2] = "/" /\ \A j \in 1 .. Len(b) : b[j] # "\n"
    <3>1. 1 \in 1 .. m /\ 2 \in 1 .. m /\ \A j \in 1 .. m : j \in 1 .. Len(w)
      BY <1>3, <1>9, <2>7
    <3> QED BY <1>3, <1>10, <2>1, <2>3, <2>6, <3>1
  <2>16. \A r \in Seq(Symbol) : Code(b \o (<<"\n">> \o r)) = Code(r)
    <3>1. Len(b) >= 2
      BY <1>10, <2>7
    <3> QED BY <1>10, <2>8, <3>1, CommentFirst
  <2>17. Lexeme(t, i, to) = <<>>
    BY <1>7, <1>21 DEF Lexeme
  <2>18. \A r \in Seq(Symbol) : Code(b \o (<<"\n">> \o r)) = Lexeme(t, i, to) \o Code(r)
    BY <1>14, <2>16, <2>17, Zenon
  <2> QED BY <1>10, <1>12, <2>17, <2>18
<1>22. CASE t[i] \notin Space /\ ~ Starts(t, i, "/", "/")
  <2>1. t[to - 1] \notin Space
    <3>1. CASE t[i] \in Quote
      <4>1. t[i] # "\\"
        BY <3>1, Kinds
      <4>2. to = QuotedEnd(t, i, 0)
        BY <1>2, <1>6, <1>22, <3>1
      <4>3. t[to - 1] = t[i]
        BY <1>2, <4>1, <4>2, QuotedCloses
      <4> QED BY <1>22, <4>3
    <3>2. CASE t[i] \notin Quote /\ t[i] \in Word \cup {"$"}
      <4>1. to = WordEnd(t, i + 1)
        BY <1>2, <1>6, <1>22, <3>2
      <4>2. Leaves(t, i + 1, to)
        <5>1. i + 1 \in Nat \ {0} /\ i + 1 <= Len(t) + 1
          BY <1>1
        <5> QED BY <4>1, <5>1, WordEndLeaves
      <4>3. CASE to = i + 1
        <5>1. to - 1 = i
          BY <1>1, <4>3
        <5> QED BY <1>22, <5>1
      <4>4. CASE to # i + 1
        <5>1. to - 1 \in i + 1 .. Len(t) /\ to - 1 < to
          BY <1>1, <1>2, <4>4
        <5>2. t[to - 1] \in Word
          BY <4>2, <5>1 DEF Leaves
        <5> QED BY <5>2, Kinds
      <4> QED BY <4>3, <4>4
    <3>3. CASE t[i] \notin Quote /\ ~ (t[i] \in Word \cup {"$"})
      <4>1. to = i + 1
        BY <1>2, <1>6, <1>22, <3>3
      <4>2. to - 1 = i
        BY <1>1, <4>1
      <4> QED BY <1>22, <4>2
    <3> QED BY <3>1, <3>2, <3>3
  <2>2. m = Len(w)
    <3>1. Len(w) \in 1 .. Len(w) /\ i + (Len(w) - 1) = to - 1
      BY <1>1, <1>2, <1>3
    <3>2. w[Len(w)] \notin Space
      BY <1>5, <2>1, <3>1
    <3>3. m + 1 <= Len(w) => Len(w) \in m + 1 .. Len(w)
      BY <1>9, <3>1
    <3> QED BY <1>3, <1>9, <3>2, <3>3
  <2>3. b = w
    BY <1>3, <1>8, <2>2, SubSeqFull
  <2>4. Ends(t, i, "\n")
    <3>1. t[i] \in Quote => "\n" # t[i]
      BY Kinds
    <3>2. "\n" \notin Word
      BY Kinds
    <3> QED BY <1>22, <3>1, <3>2 DEF Ends
  <2>5. ASSUME NEW r \in Seq(Symbol)
        PROVE  Code(b \o (<<"\n">> \o r)) = Lexeme(t, i, to) \o Code(<<"\n">> \o r)
    <3> DEFINE u == <<"\n">> \o r
    <3>1. u \in Seq(Symbol) /\ (u = <<>> \/ Ends(t, i, u[1]))
      BY <1>13, <2>4
    <3> HIDE DEF u
    <3>2. Code(w \o u) = Lexeme(t, i, to) \o Code(u)
      BY <3>1, TokenFirst
    <3> QED BY <2>3, <3>2, Zenon DEF u
  <2>6. \A r \in Seq(Symbol) : Code(b \o (<<"\n">> \o r)) = Lexeme(t, i, to) \o Code(r)
    BY <1>13, <2>5, Zenon
  <2>7. b # <<>>
    BY <1>3, <1>11, <2>2
  <2> QED BY <1>10, <1>12, <2>6, <2>7
<1> QED BY <1>20, <1>21, <1>22

-----------------------------------------------------------------------------
(***************************************************************************)
(* The pieces that formatCypher goes through.                              *)
(***************************************************************************)
\* formatCypher always goes on; it takes a token for what it is, but for a parameter, whose name it
\* takes for a word.
LEMMA FormatTokens ==
  ASSUME NEW S, NEW t \in Seq(S), NEW i \in 1 .. Len(t)
  PROVE  /\ FormatEnd(t, i) \in (i + 1) .. (Len(t) + 1)
         /\ t[i] \in Word => FormatEnd(t, i) = WordEnd(t, i)
         /\ t[i] = "$" => FormatEnd(t, i) = i + 1
         /\ TokenEnd(t, i) # 0 /\ t[i] # "$" => FormatEnd(t, i) = TokenEnd(t, i)
<1>1. Len(t) \in Nat /\ i \in Nat \ {0} /\ i <= Len(t)
  BY LenProperties
<1>2. /\ Starts(t, i, "/", "/") => t[i] = "/"
      /\ Starts(t, i, "/", "*") => t[i] = "/"
  BY DEF Starts
<1>3. /\ t[i] = "/" => t[i] \notin Quote /\ t[i] \notin Word \cup {"$"}
      /\ t[i] \in Quote => t[i] \notin Word \cup {"$"} /\ t[i] # "\\" /\ t[i] # "/"
      /\ t[i] \in Word => t[i] # "$" /\ t[i] # ";"
      /\ t[i] = "$" => t[i] \notin Quote /\ t[i] \notin Word
  BY Kinds
<1>4. At(t, i, <<"/", "/">>) <=> Starts(t, i, "/", "/")
  BY <1>1, AtTwo DEF Starts
<1>5. FormatEnd(t, i) = IF t[i] \in Quote THEN QuotedEnd(t, i, Len(t) + 1)
                        ELSE IF Starts(t, i, "/", "/") THEN First(t, i, {"\n"})
                        ELSE IF t[i] \in Word THEN WordEnd(t, i)
                        ELSE i + 1
  BY <1>2, <1>3, <1>4, Zenon DEF FormatEnd, SkipQuoted
<1>6. CASE t[i] \in Quote
  <2>1. FormatEnd(t, i) = QuotedEnd(t, i, Len(t) + 1)
    BY <1>5, <1>6
  <2>2. \/ QuotedEnd(t, i, Len(t) + 1) = Len(t) + 1
        \/ QuotedEnd(t, i, Len(t) + 1) \in (i + 2) .. (Len(t) + 1)
    BY <1>3, <1>6, QuotedCloses
  <2>3. FormatEnd(t, i) \in (i + 1) .. (Len(t) + 1)
    BY <1>1, <2>1, <2>2
  <2>4. TokenEnd(t, i) # 0 => FormatEnd(t, i) = TokenEnd(t, i)
    <3>1. t[i] \notin Word /\ InlineEnd(t, i) = QuotedEnd(t, i, Len(t) + 1)
      BY <1>3, <1>6, InlineKinds
    <3> QED BY <2>1, <3>1, InlineTokens
  <2> QED BY <1>3, <1>6, <2>3, <2>4
<1>7. CASE t[i] \notin Quote /\ Starts(t, i, "/", "/")
  <2> DEFINE m == First(t, i, {"\n"})
  <2>1. FormatEnd(t, i) = m /\ InlineEnd(t, i) = m
    BY <1>5, <1>7, InlineKinds
  <2> HIDE DEF m
  <2>2. m \in (i + 1) .. (Len(t) + 1)
    BY <2>1, InlineEnds
  <2>3. t[i] \notin Word /\ t[i] # "$"
    BY <1>2, <1>3, <1>7
  <2>4. TokenEnd(t, i) # 0 => FormatEnd(t, i) = TokenEnd(t, i)
    BY <2>1, <2>3, InlineTokens
  <2> QED BY <2>1, <2>2, <2>3, <2>4
<1>8. CASE t[i] \in Word
  <2> DEFINE m == WordEnd(t, i + 1)
  <2>1. Leaves(t, i + 1, m)
    <3>1. i + 1 \in Nat \ {0} /\ i + 1 <= Len(t) + 1
      BY <1>1
    <3> QED BY <3>1, WordEndLeaves
  <2>2. TokenEnd(t, i) = m
    <3>1. t[i] # "/" /\ t[i] \notin Quote
      BY <1>3, <1>8
    <3> QED BY <1>2, <1>3, <1>8, <3>1, TokenKinds
  <2> HIDE DEF m
  <2>3. m \in (i + 1) .. (Len(t) + 1)
    BY <1>1, <2>1 DEF Leaves
  <2>4. Leaves(t, i, m)
    <3>1. ASSUME NEW j \in i .. Len(t), j < m PROVE t[j] \in Word
      <4>1. j = i \/ j \in i + 1 .. Len(t)
        BY <1>1
      <4> QED BY <1>8, <2>1, <3>1, <4>1 DEF Leaves
    <3>2. m \in i .. Len(t) + 1 /\ (m <= Len(t) => t[m] \notin Word)
      BY <1>1, <2>1, <2>3 DEF Leaves
    <3> QED BY <3>1, <3>2 DEF Leaves
  <2>5. m = WordEnd(t, i)
    <3>1. i \in Nat \ {0} /\ i <= Len(t) + 1
      BY <1>1
    <3> QED BY <2>4, <3>1, WordEndLeaves
  <2>6. FormatEnd(t, i) = WordEnd(t, i)
    <3>1. t[i] # "/" /\ t[i] \notin Quote
      BY <1>3, <1>8
    <3> QED BY <1>2, <1>5, <1>8, <3>1
  <2> QED BY <1>3, <1>8, <2>2, <2>3, <2>5, <2>6
<1>9. CASE t[i] \notin Quote /\ ~ Starts(t, i, "/", "/") /\ t[i] \notin Word
  <2>1. FormatEnd(t, i) = i + 1
    BY <1>5, <1>9
  <2>2. TokenEnd(t, i) # 0 /\ t[i] # "$" => TokenEnd(t, i) = i + 1
    BY <1>9, TokenKinds
  <2>3. i + 1 \in (i + 1) .. (Len(t) + 1)
    BY <1>1
  <2> QED BY <1>9, <2>1, <2>2, <2>3
<1> QED BY <1>2, <1>3, <1>6, <1>7, <1>8, <1>9

\* The name of a parameter is its token but for the dollar.
LEMMA ParameterName ==
  ASSUME NEW t \in Seq(Symbol), NEW i \in 1 .. Len(t), t[i] = "$"
  PROVE  /\ TokenEnd(t, i) = WordEnd(t, i + 1)
         /\ ~ (i + 1 <= Len(t) /\ t[i + 1] \in Word) => TokenEnd(t, i) = i + 1
<1>1. Len(t) \in Nat /\ i \in Nat
  BY LenProperties
<1>2. t[i] # "/" /\ t[i] # ";" /\ t[i] \notin Quote
  BY Kinds
<1>3. TokenEnd(t, i) = WordEnd(t, i + 1)
  <2>1. ~ Starts(t, i, "/", "*") /\ ~ Starts(t, i, "/", "/")
    BY <1>2 DEF Starts
  <2> QED BY <1>2, <2>1, TokenKinds
<1> DEFINE m == WordEnd(t, i + 1)
<1>4. Leaves(t, i + 1, m)
  <2>1. i + 1 \in Nat \ {0} /\ i + 1 <= Len(t) + 1
    BY <1>1
  <2> QED BY <2>1, WordEndLeaves
<1> HIDE DEF m
<1>5. ~ (i + 1 <= Len(t) /\ t[i + 1] \in Word) => m = i + 1
  BY <1>1, <1>4 DEF Leaves
<1> QED BY <1>3, <1>5 DEF m

\* The spaces from i on.
LEMMA SpaceEndIs ==
  ASSUME NEW t \in Seq(Symbol), NEW i \in 1 .. Len(t) + 1, NEW m, m = SpaceEnd(t, i)
  PROVE  m \in i .. Len(t) + 1 /\ \A k \in i .. m - 1 : t[k] \in Space
<1>1. Len(t) \in Nat /\ i \in Nat
  BY LenProperties
<1> DEFINE T == {j \in i .. Len(t) : t[j] \notin Space}
<1>2. T \in SUBSET Nat /\ \A j \in T : j <= Len(t) + 1
  BY <1>1
<1>3. m \in T \cup {Len(t) + 1} /\ \A j \in T : m <= j
  <2>1. m = Min(T \cup {Len(t) + 1})
    BY Zenon DEF SpaceEnd
  <2> HIDE DEF T
  <2>2. m = Min(T \cup {Len(t) + 1}) <=> m \in T \cup {Len(t) + 1} /\ \A j \in T : m <= j
    BY <1>1, <1>2, Least
  <2> QED BY <2>1, <2>2
<1>4. m \in i .. Len(t) + 1
  BY <1>1, <1>3
<1>5. ASSUME NEW k \in i .. m - 1, t[k] \notin Space PROVE FALSE
  <2>1. k \in T /\ ~ (m <= k)
    BY <1>1, <1>4, <1>5
  <2> QED BY <1>3, <2>1
<1> QED BY <1>4, <1>5

\* What formatCypher goes through, from any place of the text on.
Formats(f, t) ==
  Scans(f, [i \in 1 .. Len(t) |-> FormatEnd(t, i)],
        [i \in 1 .. Len(t) |-> Span(t, i, FormatEnd(t, i))], Len(t))

LEMMA FormatScans ==
  ASSUME NEW t \in Seq(Symbol)
  PROVE  \E f : Scan(t, FormatEnd, Span) = f[1] /\ Formats(f, t)
<1> DEFINE to == [i \in 1 .. Len(t) |-> FormatEnd(t, i)]
           put == [i \in 1 .. Len(t) |-> Span(t, i, FormatEnd(t, i))]
           Arms(f, i) ==
             IF i > Len(t) THEN <<>>
             ELSE Span(t, i, FormatEnd(t, i)) \o (IF FormatEnd(t, i) = 0 THEN <<>> ELSE f[FormatEnd(t, i)])
           Reads(f) == f = [i \in 1 .. Len(t) + 1 |-> Arms(f, i)]
           g == CHOOSE g : Reads(g)
<1>1. Len(t) \in Nat
  BY LenProperties
<1>2. \A f : Reads(f) <=> Scans(f, to, put, Len(t))
  <2> TAKE f
  <2>1. ASSUME NEW i \in 1 .. Len(t) + 1
        PROVE  Arms(f, i) = IF i > Len(t) THEN <<>> ELSE put[i] \o After(f, to, i)
    <3>1. ~ (i > Len(t)) => to[i] = FormatEnd(t, i) /\ put[i] = Span(t, i, FormatEnd(t, i))
      BY <1>1
    <3> HIDE DEF to, put
    <3> QED BY <3>1, Zenon DEF After
  <2> HIDE DEF to, put, Arms
  <2> QED BY <2>1 DEF Scans
<1>3. \A i \in 1 .. Len(t) : to[i] = 0 \/ to[i] \in (i + 1) .. (Len(t) + 1)
  BY FormatTokens
<1>4. \E f : Scans(f, to, put, Len(t))
  <2> HIDE DEF to, put
  <2> QED BY <1>1, <1>3, ScansExists
<1>5. Reads(g)
  <2> HIDE DEF Reads, to, put
  <2> QED BY <1>2, <1>4
<1>6. Scan(t, FormatEnd, Span) = g[1]
  BY Zenon DEF Scan
<1>7. Formats(g, t)
  <2>1. Scans(g, to, put, Len(t))
    <3> HIDE DEF g, Reads, to, put
    <3> QED BY <1>2, <1>5
  <2> HIDE DEF g
  <2> QED BY <2>1 DEF Formats
<1> HIDE DEF g, Reads
<1> QED BY <1>6, <1>7

\* The equations of that scan.
LEMMA FormatsSteps ==
  ASSUME NEW t \in Seq(Symbol), NEW f, Formats(f, t)
  PROVE  /\ f[Len(t) + 1] = <<>>
         /\ \A i \in 1 .. Len(t) : f[i] = <<<<i, FormatEnd(t, i)>>>> \o f[FormatEnd(t, i)]
         /\ \A i \in 1 .. Len(t) + 1 : f[i] \in Seq(Nat \X Nat)
<1> DEFINE l == Len(t)
           to == [i \in 1 .. l |-> FormatEnd(t, i)]
           put == [i \in 1 .. l |-> Span(t, i, FormatEnd(t, i))]
           V == Nat \X Nat
<1>1. l \in Nat
  BY LenProperties
<1>2. Scans(f, to, put, l)
  BY DEF Formats
<1>3. \A i \in 1 .. l : /\ to[i] = FormatEnd(t, i) /\ put[i] = <<<<i, FormatEnd(t, i)>>>>
                        /\ to[i] \in (i + 1) .. (l + 1) /\ to[i] # 0
                        /\ put[i] \in Seq(V)
  <2> SUFFICES ASSUME NEW i \in 1 .. l
               PROVE  /\ FormatEnd(t, i) \in (i + 1) .. (l + 1) /\ FormatEnd(t, i) # 0
                      /\ <<<<i, FormatEnd(t, i)>>>> \in Seq(V)
    BY DEF Span
  <2>1. FormatEnd(t, i) \in (i + 1) .. (l + 1)
    BY FormatTokens
  <2>2. <<i, FormatEnd(t, i)>> \in V /\ FormatEnd(t, i) # 0
    BY <1>1, <2>1
  <2> HIDE DEF V
  <2> QED BY <2>1, <2>2
<1> HIDE DEF to, put, V
<1>4. f[l + 1] = <<>> /\ \A i \in 1 .. l : f[i] = put[i] \o After(f, to, i)
  BY <1>1, <1>2, ScansStep
<1>5. \A i \in 1 .. l + 1 : f[i] \in Seq(V)
  BY <1>1, <1>2, <1>3, ScansTyped
<1>6. ASSUME NEW i \in 1 .. l
      PROVE  f[i] = <<<<i, FormatEnd(t, i)>>>> \o f[FormatEnd(t, i)]
  <2>1. After(f, to, i) = f[FormatEnd(t, i)]
    BY <1>3 DEF After
  <2> QED BY <1>3, <1>4, <2>1
<1> QED BY <1>4, <1>5, <1>6 DEF V

-----------------------------------------------------------------------------
(***************************************************************************)
(* What formatCypher makes of them, one after the other.                   *)
(***************************************************************************)
\* The function FoldLeft is defined with: of each set of spans, the state after these.
Iterates(h, t, spans, n) ==
  h = [s \in SUBSET (1 .. n) |->
         IF s = {} THEN Unformatted ELSE FormatStep(t, h[s \ {Max(s)}], spans[Max(s)])]

LEMMA IteratesExists ==
  ASSUME NEW n \in Nat, NEW t, NEW spans
  PROVE  \E h : Iterates(h, t, spans, n)
<1> DEFINE T == {m \in Nat : ~ \E h : Iterates(h, t, spans, m)}
<1>1. T = {}
  <2> SUFFICES ASSUME T # {} PROVE FALSE
    OBVIOUS
  <2>0. T \in SUBSET Nat
    OBVIOUS
  <2>1. PICK m \in T : \A k \in T : m <= k
    <3> HIDE DEF T
    <3> QED BY <2>0, SmallestNumber
  <2>2. m \in Nat /\ ~ \E h : Iterates(h, t, spans, m)
    BY <2>1
  <2>3. m # 0
    <3> SUFFICES ASSUME m = 0 PROVE \E h : Iterates(h, t, spans, m)
      BY <2>2
    <3> DEFINE e == [s \in SUBSET (1 .. m) |-> Unformatted]
    <3>1. \A s \in SUBSET (1 .. m) : s = {}
      OBVIOUS
    <3>2. e = [s \in SUBSET (1 .. m) |->
                 IF s = {} THEN Unformatted ELSE FormatStep(t, e[s \ {Max(s)}], spans[Max(s)])]
      BY <3>1
    <3> QED BY <3>2 DEF Iterates
  <2>4. m - 1 \in Nat /\ m - 1 \notin T
    <3>1. m - 1 \in Nat /\ ~ (m <= m - 1)
      BY <2>2, <2>3
    <3> HIDE DEF T
    <3> QED BY <2>1, <3>1
  <2>5. PICK h : Iterates(h, t, spans, m - 1)
    BY <2>4
  <2> DEFINE Rest(f, s) == FormatStep(t, f[s \ {Max(s)}], spans[Max(s)])
             g == [s \in SUBSET (1 .. m) |-> IF m \in s THEN Rest(h, s) ELSE h[s]]
  <2>6. \A s \in SUBSET (1 .. m - 1) : h[s] = IF s = {} THEN Unformatted ELSE Rest(h, s)
    BY <2>5 DEF Iterates
  <2>7. ASSUME NEW s \in SUBSET (1 .. m), s # {}
        PROVE  Max(s) \in s /\ (m \in s => Max(s) = m)
    <3>1. s \in SUBSET (0 .. m)
      BY <2>2
    <3>2. Max(s) \in s /\ \A j \in s : j <= Max(s)
      BY <2>2, <2>7, <3>1, Greatest
    <3>3. Max(s) \in 1 .. m
      BY <3>2
    <3> QED BY <2>2, <3>2, <3>3
  <2> HIDE DEF Rest, T
  <2>8. ASSUME NEW s \in SUBSET (1 .. m - 1) PROVE g[s] = h[s]
    <3>1. s \in SUBSET (1 .. m) /\ m \notin s
      BY <2>2
    <3> QED BY <3>1
  <2>9. ASSUME NEW s \in SUBSET (1 .. m)
        PROVE  g[s] = IF s = {} THEN Unformatted ELSE Rest(g, s)
    <3>1. s # {} => s \ {Max(s)} \in SUBSET (1 .. m - 1)
      <4> SUFFICES ASSUME s # {} PROVE s \ {Max(s)} \in SUBSET (1 .. m - 1)
        OBVIOUS
      <4>1. Max(s) \in s /\ (m \in s => Max(s) = m)
        BY <2>7
      <4>2. ASSUME NEW j \in s, j # Max(s) PROVE j \in 1 .. m - 1
        <5>1. j # m
          BY <4>1, <4>2
        <5> QED BY <2>2, <5>1
      <4> QED BY <4>2
    <3>2. s # {} => g[s \ {Max(s)}] = h[s \ {Max(s)}]
      BY <2>8, <3>1
    <3>3. s # {} => Rest(g, s) = Rest(h, s)
      <4> HIDE DEF g
      <4> QED BY <3>2 DEF Rest
    <3>4. CASE m \in s
      <4>1. g[s] = Rest(h, s) /\ s # {}
        BY <3>4
      <4> QED BY <3>3, <4>1, Zenon
    <3>5. CASE m \notin s
      <4>1. s \in SUBSET (1 .. m - 1)
        BY <2>2, <3>5
      <4>2. g[s] = IF s = {} THEN Unformatted ELSE Rest(h, s)
        BY <2>6, <2>8, <4>1, Zenon
      <4> HIDE DEF g
      <4> QED BY <3>3, <4>2
    <3> QED BY <3>4, <3>5
  <2>10. Iterates(g, t, spans, m)
    BY <2>9 DEF Iterates, Rest
  <2> QED BY <2>2, <2>10
<1> QED BY <1>1

\* formatCypher goes from state to state and from place to place.
LEMMA FormattedSteps ==
  ASSUME NEW t \in Seq(Symbol)
  PROVE  \E n \in Nat : \E a, p :
           /\ a[0] = Unformatted /\ p[0] = 1 /\ p[n] = Len(t) + 1
           /\ \A k \in 1 .. n : /\ p[k - 1] \in 1 .. Len(t) /\ p[k] = FormatEnd(t, p[k - 1])
                                /\ a[k] = FormatStep(t, a[k - 1], <<p[k - 1], p[k]>>)
           /\ Formatted(t) = a[n].out \o SubSeq(t, a[n].last, Len(t))
<1> DEFINE spans == Scan(t, FormatEnd, Span)
           n == Len(spans)
           V == Nat \X Nat
<1>0. Len(t) \in Nat
  BY LenProperties
<1>1. PICK f : spans = f[1] /\ Formats(f, t)
  BY FormatScans
<1>2. /\ f[Len(t) + 1] = <<>>
      /\ \A i \in 1 .. Len(t) : f[i] = <<<<i, FormatEnd(t, i)>>>> \o f[FormatEnd(t, i)]
      /\ \A i \in 1 .. Len(t) + 1 : f[i] \in Seq(V)
  BY <1>1, FormatsSteps
<1>3. spans \in Seq(V)
  <2>1. 1 \in 1 .. Len(t) + 1
    BY <1>0
  <2> QED BY <1>1, <1>2, <2>1
<1>4. Formatted(t) =
        LET h == CHOOSE h : h = [s \in SUBSET (DOMAIN spans) |->
                     IF s = {} THEN Unformatted ELSE FormatStep(t, h[s \ {Max(s)}], spans[Max(s)])]
            end == h[DOMAIN spans]
        IN  end.out \o SubSeq(t, end.last, Len(t))
  BY DEF Formatted, FoldLeft, MapThenFoldSet
<1> HIDE DEF spans
<1>5. n \in Nat /\ DOMAIN spans = 1 .. n
  BY <1>3, LenProperties
<1> DEFINE h == CHOOSE h : Iterates(h, t, spans, n)
<1>6. Formatted(t) = h[1 .. n].out \o SubSeq(t, h[1 .. n].last, Len(t))
  <2> HIDE DEF n
  <2> QED BY <1>4, <1>5, Zenon DEF Iterates
<1>7. Iterates(h, t, spans, n)
  <2> HIDE DEF n
  <2> QED BY <1>5, IteratesExists
<1> HIDE DEF h, n, V
<1>8. h[{}] = Unformatted /\ \A k \in 1 .. n : h[1 .. k] = FormatStep(t, h[1 .. k - 1], spans[k])
  <2>1. h[{}] = Unformatted
    <3>1. {} \in SUBSET (1 .. n)
      OBVIOUS
    <3> QED BY <1>7, <3>1 DEF Iterates
  <2>2. ASSUME NEW k \in 1 .. n PROVE h[1 .. k] = FormatStep(t, h[1 .. k - 1], spans[k])
    <3> DEFINE s == 1 .. k
    <3>0. k \in Nat /\ k \in s /\ \A j \in s : j \in 1 .. n /\ j \in 0 .. k
      BY <1>5
    <3>1. s \in SUBSET (1 .. n) /\ s # {} /\ s \in SUBSET (0 .. k) /\ k \in s /\ k \in Nat
      <4> HIDE DEF s
      <4> QED BY <3>0
    <3>2. s \ {k} = 1 .. k - 1
      BY <1>5
    <3>3. Max(s) = k
      <4> HIDE DEF s
      <4>1. Max(s) \in s /\ \A j \in s : j <= Max(s)
        BY <3>1, Greatest
      <4>2. Max(s) \in 0 .. k /\ k <= Max(s)
        BY <3>1, <4>1
      <4> QED BY <3>1, <4>2
    <3> HIDE DEF s
    <3>4. h[s] = FormatStep(t, h[s \ {Max(s)}], spans[Max(s)])
      BY <1>7, <3>1, Zenon DEF Iterates
    <3> QED BY <3>2, <3>3, <3>4, Zenon DEF s
  <2> QED BY <2>1, <2>2
<1> DEFINE Rest(k) == SubSeq(spans, k + 1, n)
<1>9. Rest(0) = spans /\ Rest(n) = <<>> /\ \A k \in 1 .. n : Rest(k - 1) = <<spans[k]>> \o Rest(k)
  <2>1. /\ SubSeq(spans, 1, n) = spans /\ SubSeq(spans, n + 1, n) = <<>>
        /\ \A k \in 0 .. n - 1 : SubSeq(spans, k + 1, n) = <<spans[k + 1]>> \o SubSeq(spans, k + 2, n)
    BY <1>3, RestOf, Zenon DEF n
  <2>2. ASSUME NEW k \in 1 .. n PROVE Rest(k - 1) = <<spans[k]>> \o Rest(k)
    <3>1. k - 1 \in 0 .. n - 1 /\ (k - 1) + 1 = k /\ (k - 1) + 2 = k + 1
      BY <1>5
    <3>2. SubSeq(spans, (k - 1) + 1, n) = <<spans[(k - 1) + 1]>> \o SubSeq(spans, (k - 1) + 2, n)
      BY <2>1, <3>1, Zenon
    <3> QED BY <3>1, <3>2, Zenon
  <2>3. 0 + 1 = 1
    OBVIOUS
  <2> QED BY <2>1, <2>2, <2>3, Zenon
<1>10. (\A k \in 0 .. n : Rest(k) \in Seq(V)) /\ (\A k \in 1 .. n : spans[k] \in V)
  <2>1. ASSUME NEW k \in 0 .. n PROVE Rest(k) \in Seq(V)
    <3>1. k + 1 \in Int /\ n \in Int /\ \A j \in k + 1 .. n : j \in 1 .. n
      BY <1>5
    <3>2. \A j \in k + 1 .. n : spans[j] \in V
      BY <1>3, <1>5, <3>1, ElementOfSeq DEF n
    <3> QED BY <3>1, <3>2, SubSeqProperties
  <2>2. \A k \in 1 .. n : spans[k] \in V
    BY <1>3, ElementOfSeq DEF n
  <2> QED BY <2>1, <2>2
<1> HIDE DEF Rest
\* A span in front.
<1>11. ASSUME NEW x \in V, NEW y \in V, NEW v \in Seq(V), NEW w \in Seq(V), <<x>> \o v = <<y>> \o w
       PROVE  x = y /\ v = w
  <2>1. <<x>> \in Seq(V) /\ <<y>> \in Seq(V)
    OBVIOUS
  <2> DEFINE a == <<x>>
             b == <<y>>
             d == a \o v
             e == b \o w
  <2>2. Len(a) = 1 /\ a[1] = x /\ Len(b) = 1 /\ b[1] = y
    OBVIOUS
  <2> HIDE DEF a, b
  <2>3. /\ Len(d) = Len(a) + Len(v) /\ Len(e) = Len(b) + Len(w)
        /\ \A j \in 1 .. Len(a) + Len(v) : d[j] = IF j <= Len(a) THEN a[j] ELSE v[j - Len(a)]
        /\ \A j \in 1 .. Len(b) + Len(w) : e[j] = IF j <= Len(b) THEN b[j] ELSE w[j - Len(b)]
    BY <2>1, ConcatProperties DEF a, b
  <2>4. Len(v) \in Nat /\ Len(w) \in Nat
    BY LenProperties
  <2>5. d = e
    BY <1>11 DEF a, b
  <2> HIDE DEF d, e
  <2>6. 1 \in 1 .. Len(a) + Len(v) /\ 1 <= Len(a) /\ 1 \in 1 .. Len(b) + Len(w) /\ 1 <= Len(b)
    BY <2>2, <2>4
  <2>7. x = y
    BY <2>2, <2>3, <2>5, <2>6
  <2>8. v = w
    BY <1>11, <2>1, <2>7, ConcatSimplifications
  <2> QED BY <2>7, <2>8
<1>12. ASSUME NEW x \in V, NEW v \in Seq(V) PROVE <<x>> \o v # <<>>
  <2>1. <<x>> \in Seq(V) /\ <<x>> # <<>>
    OBVIOUS
  <2> DEFINE a == <<x>>
  <2> HIDE DEF a
  <2>2. a \o v = <<>> <=> a = <<>> /\ v = <<>>
    BY <2>1, ConcatEqualIffEmpty DEF a
  <2> QED BY <2>1, <2>2 DEF a
<1>13. \A i \in 1 .. Len(t) : /\ FormatEnd(t, i) \in 1 .. Len(t) + 1 /\ <<i, FormatEnd(t, i)>> \in V
                              /\ i \in 1 .. Len(t) + 1
  <2>1. ASSUME NEW i \in 1 .. Len(t)
        PROVE  FormatEnd(t, i) \in 1 .. Len(t) + 1 /\ FormatEnd(t, i) \in Nat /\ i \in Nat /\ i \in 1 .. Len(t) + 1
    <3>1. FormatEnd(t, i) \in (i + 1) .. (Len(t) + 1)
      BY FormatTokens
    <3> QED BY <1>0, <3>1
  <2> QED BY <2>1 DEF V
\* Where the rest of the spans comes from.
<1> DEFINE At1(k, i) == i \in 1 .. Len(t) + 1 /\ f[i] = Rest(k)
<1>14. ASSUME NEW k \in 1 .. n, NEW i, At1(k - 1, i)
       PROVE  i \in 1 .. Len(t) /\ spans[k] = <<i, FormatEnd(t, i)>> /\ At1(k, FormatEnd(t, i))
  <2>1. k - 1 \in 0 .. n /\ k \in 0 .. n
    BY <1>5
  <2>2. f[i] = <<spans[k]>> \o Rest(k) /\ spans[k] \in V /\ Rest(k) \in Seq(V)
    BY <1>9, <1>10, <1>14, <2>1
  <2>3. f[i] # <<>>
    BY <1>12, <2>2
  <2>4. i \in 1 .. Len(t)
    BY <1>0, <1>2, <1>14, <2>3
  <2>5. /\ f[i] = <<<<i, FormatEnd(t, i)>>>> \o f[FormatEnd(t, i)]
        /\ <<i, FormatEnd(t, i)>> \in V /\ FormatEnd(t, i) \in 1 .. Len(t) + 1
        /\ f[FormatEnd(t, i)] \in Seq(V)
    BY <1>2, <1>13, <2>4
  <2>6. spans[k] = <<i, FormatEnd(t, i)>> /\ Rest(k) = f[FormatEnd(t, i)]
    BY <1>11, <2>2, <2>5
  <2> QED BY <2>4, <2>5, <2>6
<1>15. ASSUME NEW i, At1(n, i) PROVE i = Len(t) + 1
  <2>1. f[i] = <<>> /\ i \in 1 .. Len(t) + 1
    BY <1>9, <1>15
  <2>2. ~ (i \in 1 .. Len(t))
    <3> SUFFICES ASSUME i \in 1 .. Len(t) PROVE FALSE
      OBVIOUS
    <3>1. /\ f[i] = <<<<i, FormatEnd(t, i)>>>> \o f[FormatEnd(t, i)]
          /\ <<i, FormatEnd(t, i)>> \in V /\ f[FormatEnd(t, i)] \in Seq(V)
      BY <1>2, <1>13
    <3> QED BY <1>12, <2>1, <3>1
  <2> QED BY <1>0, <2>1, <2>2
<1>16. At1(0, 1)
  <2>1. 1 \in 1 .. Len(t) + 1
    BY <1>0
  <2> QED BY <1>1, <1>9, <2>1
<1> HIDE DEF At1
<1> DEFINE p == [k \in 0 .. n |-> IF k = n THEN Len(t) + 1 ELSE spans[k + 1][1]]
           a == [k \in 0 .. n |-> h[1 .. k]]
<1>17. ASSUME NEW k \in 0 .. n, NEW i, At1(k, i) PROVE p[k] = i
  <2>1. CASE k = n
    BY <1>15, <1>17, <2>1
  <2>2. CASE k # n
    <3>1. k + 1 \in 1 .. n /\ (k + 1) - 1 = k
      BY <1>5, <2>2
    <3>2. spans[k + 1] = <<i, FormatEnd(t, i)>>
      BY <1>14, <1>17, <3>1
    <3> QED BY <2>2, <3>2
  <2> QED BY <2>1, <2>2
<1> DEFINE T == {k \in Nat : k <= n /\ ~ At1(k, p[k])}
<1>18. T = {}
  <2> SUFFICES ASSUME T # {} PROVE FALSE
    OBVIOUS
  <2>0. T \in SUBSET Nat
    OBVIOUS
  <2>1. PICK k \in T : \A j \in T : k <= j
    <3> HIDE DEF T
    <3> QED BY <2>0, SmallestNumber
  <2>2. k \in Nat /\ k <= n /\ ~ At1(k, p[k])
    BY <2>1
  <2> HIDE DEF T, p
  <2>3. k # 0
    <3>1. 0 \in 0 .. n
      BY <1>5
    <3>2. p[0] = 1
      BY <1>16, <1>17, <3>1
    <3> QED BY <1>16, <2>2, <3>2
  <2>4. k - 1 \in 0 .. n /\ k \in 1 .. n /\ k \in 0 .. n /\ k - 1 \in Nat /\ k - 1 <= n /\ ~ (k <= k - 1)
    BY <1>5, <2>2, <2>3
  <2>5. k - 1 \notin T
    BY <2>1, <2>4
  <2>6. At1(k - 1, p[k - 1])
    BY <2>4, <2>5 DEF T
  <2>7. At1(k, FormatEnd(t, p[k - 1]))
    BY <1>14, <2>4, <2>6
  <2>8. p[k] = FormatEnd(t, p[k - 1])
    BY <1>17, <2>4, <2>7
  <2> QED BY <2>2, <2>7, <2>8
<1>19. \A k \in 0 .. n : At1(k, p[k])
  <2>1. ASSUME NEW k \in 0 .. n PROVE At1(k, p[k])
    <3>1. k \in Nat /\ k <= n
      BY <1>5
    <3>2. k \notin T
      <4> HIDE DEF T
      <4> QED BY <1>18
    <3> HIDE DEF p
    <3> QED BY <3>1, <3>2
  <2> QED BY <2>1
<1>20. a[0] = Unformatted /\ \A k \in 1 .. n : a[k] = FormatStep(t, a[k - 1], spans[k])
  <2>1. 1 .. 0 = {} /\ 0 \in 0 .. n
    BY <1>5
  <2>2. a[0] = Unformatted
    BY <1>8, <2>1
  <2>3. ASSUME NEW k \in 1 .. n PROVE a[k] = FormatStep(t, a[k - 1], spans[k])
    <3>1. k \in 0 .. n /\ k - 1 \in 0 .. n
      BY <1>5
    <3>2. a[k] = h[1 .. k] /\ a[k - 1] = h[1 .. k - 1]
      BY <3>1
    <3> HIDE DEF a
    <3> QED BY <1>8, <3>2, Zenon
  <2> QED BY <2>2, <2>3
<1>21. p[0] = 1 /\ p[n] = Len(t) + 1
  <2>1. 0 \in 0 .. n /\ n \in 0 .. n
    BY <1>5
  <2> HIDE DEF p
  <2>2. p[0] = 1
    BY <1>16, <1>17, <2>1
  <2>3. p[n] = Len(t) + 1
    BY <1>15, <1>19, <2>1
  <2> QED BY <2>2, <2>3
<1>22. a[n] = h[1 .. n]
  <2>1. n \in 0 .. n
    BY <1>5
  <2> QED BY <2>1
<1> HIDE DEF p, a
<1>23. ASSUME NEW k \in 1 .. n
       PROVE  /\ p[k - 1] \in 1 .. Len(t) /\ p[k] = FormatEnd(t, p[k - 1])
              /\ spans[k] = <<p[k - 1], p[k]>>
  <2>1. k - 1 \in 0 .. n /\ k \in 0 .. n
    BY <1>5
  <2>2. At1(k - 1, p[k - 1])
    BY <1>19, <2>1
  <2>3. p[k - 1] \in 1 .. Len(t) /\ spans[k] = <<p[k - 1], FormatEnd(t, p[k - 1])>> /\ At1(k, FormatEnd(t, p[k - 1]))
    BY <1>14, <2>2
  <2>4. p[k] = FormatEnd(t, p[k - 1])
    BY <1>17, <2>1, <2>3
  <2> QED BY <2>3, <2>4
<1>24. \A k \in 1 .. n : /\ p[k - 1] \in 1 .. Len(t) /\ p[k] = FormatEnd(t, p[k - 1])
                         /\ a[k] = FormatStep(t, a[k - 1], <<p[k - 1], p[k]>>)
  BY <1>20, <1>23
<1>25. Formatted(t) = a[n].out \o SubSeq(t, a[n].last, Len(t))
  BY <1>6, <1>22, Zenon
<1> QED BY <1>5, <1>20, <1>21, <1>24, <1>25, Zenon

-----------------------------------------------------------------------------
(***************************************************************************)
(* What is written so far, and what may follow it.                         *)
(***************************************************************************)
\* What Code makes of a text.
Lexemes == Seq(Seq(Symbol))

\* With o written and p pending, d is what is read of them before whatever begins with one of first, and
\* before a new line if the spaces at the end of p are taken off.
Said(o, p, d, first) ==
  \A r \in Seq(Symbol) :
    /\ r = <<>> \/ r[1] \in first => Code(o \o (p \o r)) = d \o Code(r)
    /\ Code((o \o TrimRight(p)) \o (<<"\n">> \o r)) = d \o Code(r)

\* Putting lexemes one after the other.
LEMMA JoinLexemes ==
  ASSUME NEW a \in Lexemes, NEW b \in Lexemes, NEW d \in Lexemes
  PROVE  (a \o b) \o d = a \o (b \o d)
<1> DEFINE V == Seq(Symbol)
<1>1. a \in Seq(V) /\ b \in Seq(V) /\ d \in Seq(V)
  BY DEF Lexemes
<1> HIDE DEF V
<1> QED BY <1>1, ConcatAssociative

\* The lexeme of a token.
LEMMA LexemeTyped ==
  ASSUME NEW t \in Seq(Symbol), NEW i \in 1 .. Len(t), NEW to, NEW w, Token(w, t, i, to)
  PROVE  Lexeme(t, i, to) \in Lexemes
<1> DEFINE V == Seq(Symbol)
<1>1. w \in V /\ w = SubSeq(t, i, to - 1)
  BY TokenIs
<1> HIDE DEF V
<1>2. <<>> \in Seq(V) /\ <<w>> \in Seq(V)
  BY <1>1
<1> QED BY <1>1, <1>2, Zenon DEF Lexeme, Lexemes, V

\* Before a new line, x is what is read of b.
ReadsAs(b, x) == \A r \in Seq(Symbol) : Code(b \o (<<"\n">> \o r)) = x \o Code(r)

\* A token without the spaces at its end.
LEMMA TrimmedReads ==
  ASSUME NEW t \in Seq(Symbol), NEW i \in 1 .. Len(t), NEW to, NEW w, Token(w, t, i, to)
  PROVE  ReadsAs(TrimRight(w), Lexeme(t, i, to))
<1> DEFINE b == TrimRight(w)
<1>1. b = TrimRight(w)
  OBVIOUS
<1> HIDE DEF b
<1>2. \A r \in Seq(Symbol) : Code(b \o (<<"\n">> \o r)) = Lexeme(t, i, to) \o Code(r)
  BY <1>1, TrimmedToken
<1>3. ReadsAs(b, Lexeme(t, i, to))
  BY <1>2, Zenon DEF ReadsAs
<1> QED BY <1>3 DEF b

\* A token more is pending.
LEMMA TokenSaid ==
  ASSUME NEW t \in Seq(Symbol), NEW i \in 1 .. Len(t), NEW to, NEW w, Token(w, t, i, to),
         NEW o \in Seq(Symbol), NEW p \in Seq(Symbol), NEW d \in Lexemes, NEW first,
         Said(o, p, d, first), t[i] \in first, NEW next, \A x \in next : Ends(t, i, x)
  PROVE  Said(o, p \o w, d \o Lexeme(t, i, to), next)
<1>1. w \in Seq(Symbol) /\ Len(w) >= 1 /\ w[1] = t[i]
  BY TokenIs
<1> DEFINE b == TrimRight(w)
           a == Lexeme(t, i, to)
<1>0. a \in Lexemes
  BY LexemeTyped
<1>2. /\ b \in Seq(Symbol)
      /\ b = <<>> => a = <<>>
      /\ b # <<>> => b[1] = t[i] /\ Len(b) >= 1
      /\ ReadsAs(b, a)
  <2>0. b = TrimRight(w)
    OBVIOUS
  <2> HIDE DEF a, b
  <2>1. b \in Seq(Symbol) /\ (b # <<>> => b[1] = t[i] /\ Len(b) >= 1)
    BY <2>0, TrimmedToken
  <2>2. b = <<>> => Lexeme(t, i, to) = <<>>
    BY <2>0, TrimmedToken
  <2>3. ReadsAs(b, a)
    BY TrimmedReads DEF a, b
  <2> QED BY <2>1, <2>2, <2>3, Zenon DEF a
<1>3. /\ TrimRight(p) \in Seq(Symbol)
      /\ TrimRight(p \o w) = IF b = <<>> THEN TrimRight(p) ELSE p \o b
  <2>1. TrimRight(p) \in Seq(Symbol)
    BY TrimJoin
  <2>2. TrimRight(p \o w) = IF b = <<>> THEN TrimRight(p) ELSE p \o b
    BY <1>1, TrimJoin
  <2> QED BY <2>1, <2>2
<1> HIDE DEF b, a
<1> SUFFICES ASSUME NEW r \in Seq(Symbol)
             PROVE  /\ r = <<>> \/ r[1] \in next => Code(o \o ((p \o w) \o r)) = (d \o a) \o Code(r)
                    /\ Code((o \o TrimRight(p \o w)) \o (<<"\n">> \o r)) = (d \o a) \o Code(r)
  BY DEF Said, a
<1>4. Code(r) \in Lexemes /\ d \o (a \o Code(r)) = (d \o a) \o Code(r)
  <2>1. Code(r) \in Lexemes
    BY CodeTyped DEF Lexemes
  <2> QED BY <1>0, <2>1, JoinLexemes
<1> DEFINE nl == <<"\n">> \o r
<1>5. nl \in Seq(Symbol)
  BY NewLine
<1> HIDE DEF nl
<1>6. ASSUME r = <<>> \/ r[1] \in next
      PROVE  Code(o \o ((p \o w) \o r)) = (d \o a) \o Code(r)
  <2> DEFINE v == w \o r
  <2>1. v \in Seq(Symbol) /\ v[1] = t[i]
    <3>0. v = w \o r
      OBVIOUS
    <3> HIDE DEF v
    <3>1. v \in Seq(Symbol)
      BY <1>1, <3>0, Together
    <3>2. \A j \in 1 .. Len(w) : v[j] = w[j]
      BY <1>1, <3>0, Together
    <3>3. 1 \in 1 .. Len(w)
      BY <1>1, LenProperties
    <3> QED BY <1>1, <3>1, <3>2, <3>3
  <2>2. Code(v) = a \o Code(r)
    <3>1. r = <<>> \/ Ends(t, i, r[1])
      BY <1>6
    <3>2. Code(w \o r) = Lexeme(t, i, to) \o Code(r)
      BY <3>1, TokenFirst
    <3> QED BY <3>2, Zenon DEF a
  <2>3. (p \o w) \o r = p \o v
    BY <1>1, JoinTexts
  <2> HIDE DEF v
  <2>4. Code(o \o (p \o v)) = d \o Code(v)
    BY <2>1 DEF Said
  <2> QED BY <1>4, <2>2, <2>3, <2>4, Zenon
<1>7. Code((o \o TrimRight(p \o w)) \o nl) = (d \o a) \o Code(r)
  <2>1. CASE b = <<>>
    <3>1. Code((o \o TrimRight(p)) \o nl) = d \o Code(r)
      BY DEF Said, nl
    <3>2. d \o a = d
      <4>1. d \o <<>> = d
        BY ConcatEmptySeq DEF Lexemes
      <4> QED BY <1>2, <2>1, <4>1
    <3> QED BY <1>3, <2>1, <3>1, <3>2, Zenon
  <2>2. CASE b # <<>>
    <3> DEFINE v == b \o nl
    <3>1. v \in Seq(Symbol) /\ v[1] = t[i]
      <4>0. v = b \o nl
        OBVIOUS
      <4> HIDE DEF v
      <4>1. v \in Seq(Symbol)
        BY <1>2, <1>5, <4>0, Together
      <4>2. \A j \in 1 .. Len(b) : v[j] = b[j]
        BY <1>2, <1>5, <4>0, Together
      <4>3. 1 \in 1 .. Len(b)
        BY <1>2, <2>2, LenProperties
      <4> QED BY <1>2, <2>2, <4>1, <4>2, <4>3
    <3>2. Code(v) = a \o Code(r)
      BY <1>2, Zenon DEF nl, ReadsAs
    <3>3. (o \o (p \o b)) \o nl = o \o (p \o v)
      <4>1. p \o b \in Seq(Symbol)
        BY <1>2, ConcatProperties
      <4>2. Associates(o, p \o b, nl) /\ Associates(p, b, nl)
        BY <1>2, <1>5, <4>1, TextsAssociate, Zenon
      <4> QED BY <4>2, Zenon DEF Associates
    <3> HIDE DEF v
    <3>4. Code(o \o (p \o v)) = d \o Code(v)
      BY <3>1 DEF Said
    <3> QED BY <1>3, <1>4, <2>2, <3>2, <3>3, <3>4, Zenon
  <2> QED BY <2>1, <2>2
<1> QED BY <1>6, <1>7 DEF nl

\* An indent before a text is none.
LEMMA IndentFirst ==
  ASSUME NEW indent \in {<<>>, <<" ">>}, NEW r \in Seq(Symbol)
  PROVE  indent \in Seq(Symbol) /\ indent \o r \in Seq(Symbol) /\ Code(indent \o r) = Code(r)
<1>1. CASE indent = <<>>
  <2>1. <<>> \in Seq(Symbol) /\ <<>> \o r = r
    BY EmptySeq, ConcatEmptySeq
  <2> QED BY <1>1, <2>1
<1>2. CASE indent = <<" ">>
  <2>1. " " \in Space
    BY Kinds
  <2>2. indent \in Seq(Symbol) /\ Code(indent \o r) = Code(r)
    BY <1>2, <2>1, SpaceFirst
  <2>3. indent \o r \in Seq(Symbol)
    BY <2>2, ConcatProperties
  <2> QED BY <2>2, <2>3
<1> QED BY <1>1, <1>2

\* What lineBreak writes of what was written and pending.
Broken(o, p, indent) ==
  LET out == o \o TrimRight(p)
  IN  IF out = <<>> THEN out ELSE out \o <<"\n">> \o indent

\* Nothing has no spaces at its end.
LEMMA TrimNothing == TrimRight(<<>>) = <<>>
<1>1. PICK t \in Seq(Symbol) : t = <<>>
  BY EmptySeq
<1>2. PICK m : Trimmed(t, m) /\ TrimRight(t) = SubSeq(t, 1, m)
  BY TrimIs
<1>3. Len(t) = 0
  BY <1>1, EmptySeq
<1>4. m = 0
  BY <1>2, <1>3 DEF Trimmed
<1>5. 1 \in Int /\ m \in Int /\ m < 1
  BY <1>4
<1>6. SubSeq(t, 1, m) = <<>>
  BY <1>5, SubSeqEmpty
<1> QED BY <1>1, <1>2, <1>6, Zenon

\* Nothing is pending after it, and anything may follow.
LEMMA BrokenSaid ==
  ASSUME NEW o \in Seq(Symbol), NEW p \in Seq(Symbol), NEW d \in Lexemes, NEW first,
         Said(o, p, d, first), NEW indent \in {<<>>, <<" ">>}
  PROVE  /\ Broken(o, p, indent) \in Seq(Symbol)
         /\ Said(Broken(o, p, indent), <<>>, d, Symbol)
<1> DEFINE out == o \o TrimRight(p)
           new == Broken(o, p, indent)
<1>1. out \in Seq(Symbol)
  <2>1. TrimRight(p) \in Seq(Symbol)
    BY TrimJoin
  <2> QED BY <2>1, ConcatProperties
<1>2. TrimRight(<<>>) = <<>>
  BY TrimNothing
<1>3. \A r \in Seq(Symbol) : Code(out \o (<<"\n">> \o r)) = d \o Code(r)
  BY Zenon DEF Said
<1>4. new = IF out = <<>> THEN out ELSE (out \o <<"\n">>) \o indent
  BY Zenon DEF Broken
<1> HIDE DEF out, new
<1>5. <<"\n">> \in Seq(Symbol) /\ indent \in Seq(Symbol)
  <2>1. "\n" \in Space /\ <<>> \in Seq(Symbol)
    BY Kinds, EmptySeq
  <2> QED BY <2>1, SpaceFirst, IndentFirst
<1> DEFINE nl == <<"\n">>
<1> HIDE DEF nl
<1>6. new \in Seq(Symbol)
  <2>1. out \o nl \in Seq(Symbol)
    BY <1>1, <1>5, ConcatProperties DEF nl
  <2>2. (out \o nl) \o indent \in Seq(Symbol)
    BY <1>5, <2>1, ConcatProperties
  <2> QED BY <1>1, <1>4, <2>2, Zenon DEF nl
<1>7. ASSUME NEW r \in Seq(Symbol) PROVE Code(new \o r) = d \o Code(r)
  <2>1. CASE out = <<>>
    <3>1. new = <<>>
      BY <1>4, <2>1
    <3>2. <<>> \o r = r /\ nl \o r \in Seq(Symbol) /\ Code(nl \o r) = Code(r)
      BY NewLine, ConcatEmptySeq DEF nl
    <3>3. <<>> \o (nl \o r) = nl \o r
      BY <3>2, ConcatEmptySeq
    <3>4. Code(out \o (nl \o r)) = d \o Code(r)
      BY <1>3 DEF nl
    <3>5. Code(out \o (nl \o r)) = Code(new \o r)
      BY <2>1, <3>1, <3>2, <3>3, Zenon
    <3> QED BY <3>4, <3>5, Zenon
  <2>2. CASE out # <<>>
    <3> DEFINE v == indent \o r
    <3>1. v \in Seq(Symbol) /\ Code(v) = Code(r)
      BY IndentFirst
    <3>2. new \o r = out \o (nl \o v)
      <4>1. out \o nl \in Seq(Symbol)
        BY <1>1, <1>5, ConcatProperties DEF nl
      <4>2. ((out \o nl) \o indent) \o r = (out \o nl) \o v
        BY <1>5, <4>1, JoinTexts, Zenon
      <4>3. (out \o nl) \o v = out \o (nl \o v)
        BY <1>1, <1>5, <3>1, JoinTexts, Zenon DEF nl
      <4> QED BY <1>4, <2>2, <4>2, <4>3, Zenon DEF nl
    <3> HIDE DEF v
    <3>3. Code(out \o (nl \o v)) = d \o Code(v)
      BY <1>3, <3>1, Zenon DEF nl
    <3> QED BY <3>1, <3>2, <3>3, Zenon
  <2> QED BY <2>1, <2>2
<1>8. ASSUME NEW r \in Seq(Symbol)
      PROVE  /\ Code(new \o (<<>> \o r)) = d \o Code(r)
             /\ Code((new \o TrimRight(<<>>)) \o (<<"\n">> \o r)) = d \o Code(r)
  <2>1. <<>> \o r = r /\ new \o <<>> = new
    BY <1>6, ConcatEmptySeq
  <2>2. nl \o r \in Seq(Symbol) /\ Code(nl \o r) = Code(r)
    BY NewLine DEF nl
  <2>3. Code(new \o (nl \o r)) = d \o Code(nl \o r)
    BY <1>7, <2>2
  <2>4. Code(new \o r) = d \o Code(r)
    BY <1>7
  <2> QED BY <1>2, <2>1, <2>2, <2>3, <2>4, Zenon DEF nl
<1>9. Said(new, <<>>, d, Symbol)
  BY <1>8, Zenon DEF Said
<1> QED BY <1>6, <1>9 DEF new

-----------------------------------------------------------------------------
(***************************************************************************)
(* What is written and pending says what was read.                         *)
(***************************************************************************)
\* What may follow the text between l and j: anything if there is none, otherwise a new line or what
\* does follow it in t.
Follow(t, l, j) ==
  IF j <= l THEN Symbol ELSE IF j <= Len(t) THEN {"\n", t[j]} ELSE {"\n"}

\* At j, with o written and the text from l on pending, what they say is the tokens before j.
Keeps(t, c, h, o, l, j) ==
  /\ o \in Seq(Symbol) /\ l \in 1 .. Len(t) + 1 /\ j \in 1 .. Len(t) + 1
  /\ Plain(h, t, j, {})
  /\ \A k \in j .. l - 1 : t[k] \in Space
  /\ \E d \in Lexemes : c[1] = d \o c[j] /\ Said(o, SubSeq(t, l, j - 1), d, Follow(t, l, j))

\* A new line ends every token that can end.
LEMMA NewLineEnds ==
  ASSUME NEW t \in Seq(Symbol), NEW i \in 1 .. Len(t)
  PROVE  Ends(t, i, "\n")
<1>1. "\n" \in Space /\ "\n" # "/" /\ "\n" # "*"
  BY Kinds
<1>2. \A q \in Quote : q # "\n"
  BY <1>1, Kinds
<1>3. \A x \in Word \cup {"$"} : x # "\n"
  BY <1>1, Kinds
<1> QED BY <1>1, <1>2, <1>3 DEF Ends

\* A space is a token of its own and no lexeme.
LEMMA SpaceToken ==
  ASSUME NEW t \in Seq(Symbol), NEW j \in 1 .. Len(t), t[j] \in Space
  PROVE  TokenEnd(t, j) = j + 1 /\ \A m : Lexeme(t, j, m) = <<>>
<1>1. t[j] # "/" /\ t[j] # ";" /\ t[j] \notin Quote /\ t[j] \notin Word \cup {"$"}
  BY Kinds
<1>2. ~ Starts(t, j, "/", "*") /\ ~ Starts(t, j, "/", "/")
  BY <1>1 DEF Starts
<1>3. TokenEnd(t, j) = j + 1
  BY <1>1, <1>2, TokenKinds
<1>4. \A m : Lexeme(t, j, m) = <<>>
  BY DEF Lexeme
<1> QED BY <1>3, <1>4

\* What is pending.
LEMMA Pending ==
  ASSUME NEW t \in Seq(Symbol), NEW l \in 1 .. Len(t) + 1, NEW j \in 1 .. Len(t) + 1
  PROVE  /\ SubSeq(t, l, j - 1) \in Seq(Symbol)
         /\ j <= l => SubSeq(t, l, j - 1) = <<>>
         /\ \A n \in j .. Len(t) + 1 : l <= j => SubSeq(t, l, j - 1) \o SubSeq(t, j, n - 1) = SubSeq(t, l, n - 1)
<1>1. Len(t) \in Nat /\ l \in Int /\ j - 1 \in Int
  BY LenProperties
<1>2. ASSUME j <= l PROVE SubSeq(t, l, j - 1) = <<>> /\ SubSeq(t, l, j - 1) \in Seq(Symbol)
  <2>1. l > j - 1
    BY <1>1, <1>2
  <2>2. SubSeq(t, l, j - 1) = <<>>
    BY <1>1, <2>1, SubSeqEmpty
  <2> QED BY <2>2, EmptySeq
<1>3. ASSUME l <= j PROVE SubSeq(t, l, j - 1) \in Seq(Symbol)
  <2>1. j \in l .. Len(t) + 1
    BY <1>1, <1>3
  <2> QED BY <2>1, Pieces
<1>4. ASSUME NEW n \in j .. Len(t) + 1, l <= j
      PROVE  SubSeq(t, l, j - 1) \o SubSeq(t, j, n - 1) = SubSeq(t, l, n - 1)
  <2>1. n \in l .. Len(t) + 1 /\ j \in l .. n
    BY <1>1, <1>4
  <2> QED BY <2>1, Pieces
<1> QED BY <1>1, <1>2, <1>3, <1>4

\* A token more is read.
LEMMA KeepsToken ==
  ASSUME NEW t \in Seq(Symbol), NEW c, Lexes(c, t), NEW h, Spanned(h, t), NEW o, NEW l,
         NEW j \in 1 .. Len(t), Keeps(t, c, h, o, l, j), NEW to, to = TokenEnd(t, j)
  PROVE  to # 0 /\ Keeps(t, c, h, o, l, to)
<1>1. /\ o \in Seq(Symbol) /\ l \in 1 .. Len(t) + 1 /\ Plain(h, t, j, {})
      /\ \A k \in j .. l - 1 : t[k] \in Space
  BY DEF Keeps
<1>2. PICK d \in Lexemes : c[1] = d \o c[j] /\ Said(o, SubSeq(t, l, j - 1), d, Follow(t, l, j))
  BY DEF Keeps
<1>3. to # 0 /\ Plain(h, t, to, {})
  BY <1>1, PlainStep
<1> DEFINE w == SubSeq(t, j, to - 1)
<1>4. Token(w, t, j, to)
  BY <1>3 DEF Token
<1> HIDE DEF w
<1>5. to \in (j + 1) .. (Len(t) + 1) /\ (to <= Len(t) => Ends(t, j, t[to]))
  BY <1>4, TokenIs
<1>6. Len(t) \in Nat /\ j \in Nat /\ l \in Nat
  BY <1>1, LenProperties
<1> DEFINE a == Lexeme(t, j, to)
<1>7. a \in Lexemes /\ c[to] \in Lexemes /\ c[j] = a \o c[to]
  <2>1. a \in Lexemes
    BY <1>4, LexemeTyped
  <2>2. to \in 1 .. Len(t) + 1
    BY <1>5, <1>6
  <2>3. c[to] \in Lexemes
    BY <2>2, LexesSteps DEF Lexemes
  <2>4. c[j] = a \o c[to]
    BY <1>3, LexesSteps
  <2> QED BY <2>1, <2>3, <2>4
<1>8. c[1] = (d \o a) \o c[to] /\ d \o a \in Lexemes
  <2>1. (d \o a) \o c[to] = d \o (a \o c[to])
    BY <1>7, JoinLexemes
  <2>2. d \o a \in Lexemes
    BY <1>7, ConcatProperties DEF Lexemes
  <2> QED BY <1>2, <1>7, <2>1, <2>2, Zenon
<1>9. \A k \in to .. l - 1 : t[k] \in Space
  BY <1>1, <1>5, <1>6
<1>10. Said(o, SubSeq(t, l, to - 1), d \o a, Follow(t, l, to))
  <2>1. CASE j < l
    <3>1. t[j] \in Space
      BY <1>1, <1>6, <2>1
    <3>2. to = j + 1 /\ a = <<>>
      BY <3>1, SpaceToken
    <3>3. d \o a = d
      <4>1. d \o <<>> = d
        BY ConcatEmptySeq DEF Lexemes
      <4> QED BY <3>2, <4>1, Zenon
    <3>4. j <= l /\ to <= l /\ to \in 1 .. Len(t) + 1 /\ j \in 1 .. Len(t) + 1
      BY <1>5, <1>6, <2>1, <3>2
    <3>5. SubSeq(t, l, j - 1) = <<>> /\ SubSeq(t, l, to - 1) = <<>>
      BY <1>1, <3>4, Pending
    <3>6. Follow(t, l, j) = Symbol /\ Follow(t, l, to) = Symbol
      BY <3>4 DEF Follow
    <3> QED BY <1>2, <3>3, <3>5, <3>6, Zenon
  <2>2. CASE j >= l
    <3> DEFINE p == SubSeq(t, l, j - 1)
               first == Follow(t, l, j)
               next == Follow(t, l, to)
    <3>1. l <= j /\ ~ (to <= l) /\ to \in j .. Len(t) + 1 /\ j \in 1 .. Len(t) + 1
      BY <1>5, <1>6, <2>2
    <3>2. p \in Seq(Symbol) /\ p \o w = SubSeq(t, l, to - 1)
      BY <1>1, <3>1, Pending DEF w
    <3>3. t[j] \in first
      <4>1. t[j] \in Symbol
        BY ElementOfSeq
      <4>2. j <= Len(t)
        BY <1>6
      <4> QED BY <4>1, <4>2 DEF Follow
    <3>4. \A x \in next : Ends(t, j, x)
      <4>1. next = IF to <= Len(t) THEN {"\n", t[to]} ELSE {"\n"}
        BY <3>1 DEF Follow
      <4>2. Ends(t, j, "\n")
        BY NewLineEnds
      <4> QED BY <1>5, <4>1, <4>2
    <3>5. Said(o, p, d, first)
      BY <1>2
    <3> HIDE DEF p, first, next
    <3>6. Said(o, p \o w, d \o a, next)
      BY <1>1, <1>4, <3>2, <3>3, <3>4, <3>5, TokenSaid
    <3> QED BY <3>2, <3>6, Zenon DEF next
  <2> QED BY <1>6, <2>1, <2>2
<1>11. to \in 1 .. Len(t) + 1
  BY <1>5, <1>6
<1> QED BY <1>1, <1>3, <1>8, <1>9, <1>10, <1>11, Zenon DEF Keeps

\* If nothing is pending and anything may follow.
LEMMA KeepsWritten ==
  ASSUME NEW t \in Seq(Symbol), NEW c, NEW h, NEW o, NEW l, NEW j, Keeps(t, c, h, o, l, j),
         NEW next \in j .. Len(t) + 1, \A k \in j .. next - 1 : t[k] \in Space, NEW new \in Seq(Symbol),
         \A d \in Lexemes : Said(o, SubSeq(t, l, j - 1), d, Follow(t, l, j)) => Said(new, <<>>, d, Symbol)
  PROVE  Keeps(t, c, h, new, next, j)
<1>1. j \in 1 .. Len(t) + 1 /\ Plain(h, t, j, {})
  BY DEF Keeps
<1>2. PICK d \in Lexemes : c[1] = d \o c[j] /\ Said(o, SubSeq(t, l, j - 1), d, Follow(t, l, j))
  BY DEF Keeps
<1>3. Len(t) \in Nat
  BY LenProperties
<1>4. next \in 1 .. Len(t) + 1 /\ j <= next
  BY <1>1, <1>3
<1>5. SubSeq(t, next, j - 1) = <<>> /\ Follow(t, next, j) = Symbol
  BY <1>1, <1>4, Pending DEF Follow
<1>6. Said(new, SubSeq(t, next, j - 1), d, Follow(t, next, j))
  BY <1>2, <1>5, Zenon
<1> QED BY <1>1, <1>2, <1>4, <1>6, Zenon DEF Keeps

\* A new line is begun.
LEMMA KeepsBroken ==
  ASSUME NEW t \in Seq(Symbol), NEW c, NEW h, NEW o, NEW l, NEW j, Keeps(t, c, h, o, l, j),
         NEW next \in j .. Len(t) + 1, \A k \in j .. next - 1 : t[k] \in Space,
         NEW indent \in {<<>>, <<" ">>}
  PROVE  Keeps(t, c, h, Broken(o, SubSeq(t, l, j - 1), indent), next, j)
<1> DEFINE p == SubSeq(t, l, j - 1)
           new == Broken(o, p, indent)
<1>1. o \in Seq(Symbol) /\ l \in 1 .. Len(t) + 1 /\ j \in 1 .. Len(t) + 1
  BY Zenon DEF Keeps
<1>2. p \in Seq(Symbol)
  BY <1>1, Pending, Zenon
<1> HIDE DEF p
<1>3. new \in Seq(Symbol) /\ \A d \in Lexemes : Said(o, p, d, Follow(t, l, j)) => Said(new, <<>>, d, Symbol)
  <2>1. \A d \in Lexemes : Said(o, p, d, Follow(t, l, j)) => new \in Seq(Symbol) /\ Said(new, <<>>, d, Symbol)
    BY <1>1, <1>2, BrokenSaid, Zenon
  <2>2. \E d \in Lexemes : Said(o, p, d, Follow(t, l, j))
    BY Zenon DEF Keeps, p
  <2> QED BY <2>1, <2>2, Zenon
<1> HIDE DEF new
<1> QED BY <1>3, KeepsWritten, Zenon DEF p, new

-----------------------------------------------------------------------------
(***************************************************************************)
(* formatCypher step by step.                                              *)
(***************************************************************************)
\* It is so at the places formatCypher goes to, but between the dollar and the name of a parameter,
\* where it is so behind the name.
Holds(t, c, h, o, l, i) ==
  \/ Keeps(t, c, h, o, l, i)
  \/ /\ i \in 2 .. Len(t) /\ t[i - 1] = "$" /\ t[i] \in Word
     /\ Keeps(t, c, h, o, l, WordEnd(t, i))

\* lineBreak writes.
LEMMA BreakWrites ==
  ASSUME NEW t, NEW s, {"out", "last"} \subseteq DOMAIN s, NEW at, NEW next, NEW indent
  PROVE  /\ LineBreak(t, s, at, next, indent).out = Broken(s.out, SubSeq(t, s.last, at - 1), indent)
         /\ LineBreak(t, s, at, next, indent).last = next
         /\ DOMAIN LineBreak(t, s, at, next, indent) = DOMAIN s
<1> DEFINE new == Broken(s.out, SubSeq(t, s.last, at - 1), indent)
<1>1. LineBreak(t, s, at, next, indent) = [s EXCEPT !.out = new, !.last = next]
  BY Zenon DEF LineBreak, Broken
<1> HIDE DEF new
<1>2. /\ [s EXCEPT !.out = new, !.last = next].out = new
      /\ [s EXCEPT !.out = new, !.last = next].last = next
      /\ DOMAIN [s EXCEPT !.out = new, !.last = next] = DOMAIN s
  OBVIOUS
<1> QED BY <1>1, <1>2, Zenon DEF new

\* A step writes nothing, or it begins a line, behind a comma or before a clause.
LEMMA StepWrites ==
  ASSUME NEW t, NEW s, {"out", "last"} \subseteq DOMAIN s, NEW span
  PROVE  LET i == span[1]
             to == span[2]
             r == FormatStep(t, s, span)
         IN  /\ {"out", "last"} \subseteq DOMAIN r
             /\ \/ r.out = s.out /\ r.last = s.last
                \/ /\ t[i] = "," /\ r.last = SpaceEnd(t, to)
                   /\ r.out = Broken(s.out, SubSeq(t, s.last, to - 1), <<" ">>)
                \/ /\ t[i] \in Word /\ ~ Name(t, i) /\ r.last = i
                   /\ r.out = Broken(s.out, SubSeq(t, s.last, i - 1), <<>>)
<1> DEFINE i == span[1]
           to == span[2]
           r == FormatStep(t, s, span)
           next == SpaceEnd(t, to)
           comma == LineBreak(t, s, to, next, <<" ">>)
           word == LineBreak(t, s, i, i, <<>>)
           past == ClauseEnd(t, i, to)
           Breaks == t[i] = "," /\ s.depth = 0 /\ s.inReturn /\ ~ At(t, next, <<"/", "/">>)
           Clauses == t[i] \in Word /\ s.depth = 0 /\ ~ Name(t, i) /\ past # 0
           Mode(x) == IF t[i] = "AND" THEN x ELSE t[i] = "RETURN"
<1>1. \/ r = s
      \/ r = [s EXCEPT !.depth = @ + 1]
      \/ r = [s EXCEPT !.depth = @ - 1]
      \/ t[i] = "," /\ r = comma
      \/ t[i] \in Word /\ ~ Name(t, i) /\ r = [word EXCEPT !.past = past, !.inReturn = Mode(@)]
  <2> DEFINE opened == [s EXCEPT !.depth = @ + 1]
             closed == [s EXCEPT !.depth = @ - 1]
             begun == [word EXCEPT !.past = past, !.inReturn = Mode(@)]
             opens == t[i] \in {"(", "[", "{"}
             closes == t[i] \in {")", "]", "}"}
  <2>1. r =
          IF i < s.past THEN s
          ELSE CASE opens -> opened [] closes -> closed [] Breaks -> comma [] Clauses -> begun [] OTHER -> s
    BY Zenon DEF FormatStep
  <2>2. Breaks => t[i] = ","
    OBVIOUS
  <2>3. Clauses => t[i] \in Word /\ ~ Name(t, i)
    OBVIOUS
  <2> HIDE DEF opened, closed, begun, opens, closes, Breaks, Clauses, comma, r
  <2>4. \/ r = s \/ r = opened \/ r = closed \/ (Breaks /\ r = comma) \/ (Clauses /\ r = begun)
    BY <2>1
  <2> QED BY <2>2, <2>3, <2>4 DEF opened, closed, begun
<1> HIDE DEF r, i, to, next
<1>2. /\ [s EXCEPT !.depth = @ + 1].out = s.out /\ [s EXCEPT !.depth = @ + 1].last = s.last
      /\ DOMAIN [s EXCEPT !.depth = @ + 1] = DOMAIN s
  OBVIOUS
<1>3. /\ [s EXCEPT !.depth = @ - 1].out = s.out /\ [s EXCEPT !.depth = @ - 1].last = s.last
      /\ DOMAIN [s EXCEPT !.depth = @ - 1] = DOMAIN s
  OBVIOUS
<1>4. /\ comma.out = Broken(s.out, SubSeq(t, s.last, to - 1), <<" ">>) /\ comma.last = next
      /\ DOMAIN comma = DOMAIN s
  <2> DEFINE indent == <<" ">>
  <2> HIDE DEF indent
  <2>1. /\ LineBreak(t, s, to, next, indent).out = Broken(s.out, SubSeq(t, s.last, to - 1), indent)
        /\ LineBreak(t, s, to, next, indent).last = next
        /\ DOMAIN LineBreak(t, s, to, next, indent) = DOMAIN s
    BY BreakWrites
  <2> QED BY <2>1, Zenon DEF indent
<1>5. /\ word.out = Broken(s.out, SubSeq(t, s.last, i - 1), <<>>) /\ word.last = i /\ DOMAIN word = DOMAIN s
  BY BreakWrites
<1> DEFINE begun == [word EXCEPT !.past = past, !.inReturn = Mode(@)]
<1> HIDE DEF word, comma, past
<1>6. begun.out = word.out /\ begun.last = word.last /\ DOMAIN begun = DOMAIN word
  BY <1>5
<1> HIDE DEF begun
<1>7. /\ {"out", "last"} \subseteq DOMAIN r
      /\ \/ r.out = s.out /\ r.last = s.last
         \/ /\ t[i] = "," /\ r.last = next
            /\ r.out = Broken(s.out, SubSeq(t, s.last, to - 1), <<" ">>)
         \/ /\ t[i] \in Word /\ ~ Name(t, i) /\ r.last = i
            /\ r.out = Broken(s.out, SubSeq(t, s.last, i - 1), <<>>)
  <2>1. CASE r = s
    BY <2>1
  <2>2. CASE r = [s EXCEPT !.depth = @ + 1]
    BY <1>2, <2>2
  <2>3. CASE r = [s EXCEPT !.depth = @ - 1]
    BY <1>3, <2>3
  <2>4. CASE t[i] = "," /\ r = comma
    BY <1>4, <2>4, Zenon
  <2>5. CASE t[i] \in Word /\ ~ Name(t, i) /\ r = begun
    BY <1>5, <1>6, <2>5, Zenon
  <2> QED BY <1>1, <2>1, <2>2, <2>3, <2>4, <2>5, Zenon DEF begun
<1> QED BY <1>7, Zenon DEF i, to, r, next

\* The piece at i is read.
LEMMA PieceKept ==
  ASSUME NEW t \in Seq(Symbol), NEW c, Lexes(c, t), NEW h, Spanned(h, t), NEW o, NEW l,
         NEW i \in 1 .. Len(t), NEW to, to = FormatEnd(t, i), Keeps(t, c, h, o, l, i)
  PROVE  Holds(t, c, h, o, l, to) /\ (t[i] # "$" => Keeps(t, c, h, o, l, to))
<1>1. TokenEnd(t, i) # 0 /\ Keeps(t, c, h, o, l, TokenEnd(t, i))
  BY KeepsToken
<1>2. ASSUME t[i] # "$" PROVE Keeps(t, c, h, o, l, to)
  <2>1. to = TokenEnd(t, i)
    BY <1>1, <1>2, FormatTokens
  <2> QED BY <1>1, <2>1
<1>3. ASSUME t[i] = "$" PROVE Holds(t, c, h, o, l, to)
  <2>1. to = i + 1
    BY <1>3, FormatTokens
  <2>2. Len(t) \in Nat /\ i \in Nat \ {0}
    BY LenProperties
  <2>3. TokenEnd(t, i) = WordEnd(t, to) /\ (~ (to <= Len(t) /\ t[to] \in Word) => TokenEnd(t, i) = to)
    BY <1>3, <2>1, ParameterName
  <2>4. CASE to <= Len(t) /\ t[to] \in Word
    <3>1. to \in 2 .. Len(t) /\ to - 1 = i
      BY <2>1, <2>2, <2>4
    <3> QED BY <1>1, <1>3, <2>3, <2>4, <3>1, Zenon DEF Holds
  <2>5. CASE ~ (to <= Len(t) /\ t[to] \in Word)
    BY <1>1, <2>3, <2>5, Zenon DEF Holds
  <2> QED BY <2>4, <2>5
<1> QED BY <1>2, <1>3, Zenon DEF Holds

\* The piece at i is read, between the dollar and the name as elsewhere.
LEMMA HoldsKept ==
  ASSUME NEW t \in Seq(Symbol), NEW c, Lexes(c, t), NEW h, Spanned(h, t), NEW o, NEW l,
         NEW i \in 1 .. Len(t), NEW to, to = FormatEnd(t, i), Holds(t, c, h, o, l, i)
  PROVE  Holds(t, c, h, o, l, to)
<1>1. CASE Keeps(t, c, h, o, l, i)
  BY <1>1, PieceKept
<1>2. CASE t[i] \in Word /\ Keeps(t, c, h, o, l, WordEnd(t, i))
  <2>1. to = WordEnd(t, i)
    BY <1>2, FormatTokens
  <2> QED BY <1>2, <2>1, Zenon DEF Holds
<1> QED BY <1>1, <1>2, Zenon DEF Holds

\* So a step of formatCypher keeps what is said.
LEMMA StepHolds ==
  ASSUME NEW t \in Seq(Symbol), NEW c, Lexes(c, t), NEW h, Spanned(h, t),
         NEW s, {"out", "last"} \subseteq DOMAIN s, NEW i \in 1 .. Len(t), NEW to, to = FormatEnd(t, i),
         Holds(t, c, h, s.out, s.last, i), NEW r, r = FormatStep(t, s, <<i, to>>)
  PROVE  {"out", "last"} \subseteq DOMAIN r /\ Holds(t, c, h, r.out, r.last, to)
<1> DEFINE o == s.out
           l == s.last
<1>1. /\ {"out", "last"} \subseteq DOMAIN r
      /\ \/ r.out = o /\ r.last = l
         \/ /\ t[i] = "," /\ r.last = SpaceEnd(t, to)
            /\ r.out = Broken(o, SubSeq(t, l, to - 1), <<" ">>)
         \/ /\ t[i] \in Word /\ ~ Name(t, i) /\ r.last = i
            /\ r.out = Broken(o, SubSeq(t, l, i - 1), <<>>)
  <2> DEFINE span == <<i, to>>
  <2>1. span[1] = i /\ span[2] = to /\ r = FormatStep(t, s, span)
    OBVIOUS
  <2> HIDE DEF span, o, l
  <2>2. /\ {"out", "last"} \subseteq DOMAIN FormatStep(t, s, span)
        /\ LET x == FormatStep(t, s, span)
           IN  \/ x.out = s.out /\ x.last = s.last
               \/ /\ t[span[1]] = "," /\ x.last = SpaceEnd(t, span[2])
                  /\ x.out = Broken(s.out, SubSeq(t, s.last, span[2] - 1), <<" ">>)
               \/ /\ t[span[1]] \in Word /\ ~ Name(t, span[1]) /\ x.last = span[1]
                  /\ x.out = Broken(s.out, SubSeq(t, s.last, span[1] - 1), <<>>)
    BY StepWrites, Zenon
  <2> QED BY <2>1, <2>2, Zenon DEF o, l
<1>2. Holds(t, c, h, o, l, i)
  OBVIOUS
<1> HIDE DEF o, l
<1>3. Len(t) \in Nat /\ i \in Nat \ {0} /\ to \in (i + 1) .. (Len(t) + 1)
  BY LenProperties, FormatTokens
<1>4. CASE r.out = o /\ r.last = l
  <2>1. Holds(t, c, h, o, l, to)
    BY <1>2, HoldsKept
  <2> QED BY <1>1, <1>4, <2>1, Zenon
<1>5. CASE t[i] = "," /\ r.last = SpaceEnd(t, to) /\ r.out = Broken(o, SubSeq(t, l, to - 1), <<" ">>)
  <2>1. t[i] # "$" /\ t[i] \notin Word
    BY <1>5 DEF Word, Clause, Forbidden
  <2>2. Keeps(t, c, h, o, l, i)
    BY <1>2, <2>1, Zenon DEF Holds
  <2>3. Keeps(t, c, h, o, l, to)
    BY <2>1, <2>2, PieceKept
  <2>4. to \in 1 .. Len(t) + 1
    BY <1>3
  <2>5. SpaceEnd(t, to) \in to .. Len(t) + 1 /\ \A k \in to .. SpaceEnd(t, to) - 1 : t[k] \in Space
    BY <2>4, SpaceEndIs
  <2>6. Keeps(t, c, h, Broken(o, SubSeq(t, l, to - 1), <<" ">>), SpaceEnd(t, to), to)
    <3>1. <<" ">> \in {<<>>, <<" ">>}
      OBVIOUS
    <3> QED BY <2>3, <2>5, <3>1, KeepsBroken, Zenon
  <2> QED BY <1>1, <1>5, <2>6, Zenon DEF Holds
<1>6. CASE t[i] \in Word /\ ~ Name(t, i) /\ r.last = i /\ r.out = Broken(o, SubSeq(t, l, i - 1), <<>>)
  <2>1. ~ (i \in 2 .. Len(t) /\ t[i - 1] = "$")
    BY <1>6 DEF Name
  <2>2. Keeps(t, c, h, o, l, i)
    BY <1>2, <2>1, Zenon DEF Holds
  <2>3. i \in i .. Len(t) + 1 /\ \A k \in i .. i - 1 : t[k] \in Space
    BY <1>3
  <2>4. Keeps(t, c, h, Broken(o, SubSeq(t, l, i - 1), <<>>), i, i)
    <3>1. <<>> \in {<<>>, <<" ">>}
      OBVIOUS
    <3> QED BY <2>2, <2>3, <3>1, KeepsBroken, Zenon
  <2>5. Keeps(t, c, h, r.out, r.last, i)
    BY <1>6, <2>4, Zenon
  <2>6. Holds(t, c, h, r.out, r.last, to)
    BY <2>5, PieceKept
  <2> QED BY <1>1, <2>6, Zenon
<1> QED BY <1>1, <1>4, <1>5, <1>6, Zenon

\* It begins with nothing said, at the beginning.
LEMMA HoldsFirst ==
  ASSUME NEW t \in Seq(Symbol), NEW c, Lexes(c, t), NEW h, Plain(h, t, 1, {})
  PROVE  Holds(t, c, h, <<>>, 1, 1)
<1>1. Len(t) \in Nat /\ 1 \in 1 .. Len(t) + 1
  BY LenProperties
<1>2. <<>> \in Seq(Symbol) /\ <<>> \in Lexemes
  BY EmptySeq DEF Lexemes
<1>3. SubSeq(t, 1, 1 - 1) = <<>> /\ Follow(t, 1, 1) = Symbol
  <2>1. 1 - 1 = 0 /\ 1 \in Int /\ 0 \in Int /\ 1 > 0
    OBVIOUS
  <2>2. SubSeq(t, 1, 0) = <<>>
    BY <2>1, SubSeqEmpty
  <2> QED BY <2>1, <2>2 DEF Follow
<1>4. c[1] \in Lexemes /\ <<>> \o c[1] = c[1]
  <2>1. c[1] \in Lexemes
    BY <1>1, LexesSteps DEF Lexemes
  <2> QED BY <2>1, ConcatEmptySeq DEF Lexemes
<1>5. ASSUME NEW r \in Seq(Symbol)
      PROVE  /\ Code(<<>> \o (<<>> \o r)) = <<>> \o Code(r)
             /\ Code((<<>> \o TrimRight(<<>>)) \o (<<"\n">> \o r)) = <<>> \o Code(r)
  <2>1. <<>> \o r = r /\ <<>> \o Code(r) = Code(r)
    BY CodeTyped, ConcatEmptySeq
  <2> DEFINE nl == <<"\n">> \o r
  <2>2. nl \in Seq(Symbol) /\ Code(nl) = Code(r)
    BY NewLine
  <2> HIDE DEF nl
  <2>3. <<>> \o <<>> = <<>> /\ <<>> \o nl = nl
    BY <1>2, <2>2, ConcatEmptySeq
  <2> QED BY <2>1, <2>2, <2>3, TrimNothing, Zenon DEF nl
<1>6. Said(<<>>, <<>>, <<>>, Symbol)
  BY <1>5, Zenon DEF Said
<1>7. \A k \in 1 .. 1 - 1 : t[k] \in Space
  OBVIOUS
<1> QED BY <1>1, <1>2, <1>3, <1>4, <1>6, <1>7, Zenon DEF Holds, Keeps

\* At the end, what is pending is written as it is.
LEMMA HoldsLast ==
  ASSUME NEW t \in Seq(Symbol), NEW c, Lexes(c, t), NEW h, NEW o, NEW l,
         Holds(t, c, h, o, l, Len(t) + 1)
  PROVE  Code(o \o SubSeq(t, l, Len(t))) = c[1]
<1> DEFINE e == Len(t) + 1
<1>1. Len(t) \in Nat /\ e - 1 = Len(t) /\ e \notin 2 .. Len(t)
  BY LenProperties
<1>2. Keeps(t, c, h, o, l, e)
  BY <1>1, Zenon DEF Holds
<1>3. c[e] = <<>>
  BY LexesSteps
<1>4. e \in 1 .. Len(t) + 1
  BY <1>1
<1> HIDE DEF e
<1>5. PICK d \in Lexemes : c[1] = d \o c[e] /\ Said(o, SubSeq(t, l, e - 1), d, Follow(t, l, e))
  BY <1>2, Zenon DEF Keeps
<1> DEFINE p == SubSeq(t, l, e - 1)
<1>6. p \in Seq(Symbol)
  BY <1>2, <1>4, Pending, Zenon DEF Keeps
<1>7. p = SubSeq(t, l, Len(t))
  BY <1>1, Zenon
<1> HIDE DEF p
<1>8. <<>> \in Seq(Symbol) /\ p \o <<>> = p
  BY <1>6, EmptySeq, ConcatEmptySeq
<1>9. Code(o \o (p \o <<>>)) = d \o Code(<<>>)
  BY <1>5, <1>8, Zenon DEF Said, p
<1> QED BY <1>3, <1>5, <1>7, <1>8, <1>9, CodeTyped, Zenon

\* The text formatted has the tokens of the text.
LEMMA FormattedKeeps ==
  ASSUME NEW t \in Seq(Symbol), Readable(t)
  PROVE  Code(Formatted(t)) = Code(t)
<1>1. PICK c : Code(t) = c[1] /\ Lexes(c, t)
  BY CodeScans DEF Lexes
<1>2. PICK h : Spans(t) = h[1] /\ Spanned(h, t)
  BY SpansScan DEF Spanned
<1>3. Plain(h, t, 1, {})
  BY <1>2 DEF Readable, Plain
<1>4. PICK n \in Nat : \E a, p :
        /\ a[0] = Unformatted /\ p[0] = 1 /\ p[n] = Len(t) + 1
        /\ \A k \in 1 .. n : /\ p[k - 1] \in 1 .. Len(t) /\ p[k] = FormatEnd(t, p[k - 1])
                             /\ a[k] = FormatStep(t, a[k - 1], <<p[k - 1], p[k]>>)
        /\ Formatted(t) = a[n].out \o SubSeq(t, a[n].last, Len(t))
  BY FormattedSteps
<1>5. PICK a, p :
        /\ a[0] = Unformatted /\ p[0] = 1 /\ p[n] = Len(t) + 1
        /\ \A k \in 1 .. n : /\ p[k - 1] \in 1 .. Len(t) /\ p[k] = FormatEnd(t, p[k - 1])
                             /\ a[k] = FormatStep(t, a[k - 1], <<p[k - 1], p[k]>>)
        /\ Formatted(t) = a[n].out \o SubSeq(t, a[n].last, Len(t))
  BY <1>4
<1> DEFINE Good(k) == {"out", "last"} \subseteq DOMAIN a[k] /\ Holds(t, c, h, a[k].out, a[k].last, p[k])
           T == {k \in Nat : k <= n /\ ~ Good(k)}
<1>6. Good(0)
  <2>1. /\ {"out", "last"} \subseteq DOMAIN Unformatted
        /\ Unformatted.out = <<>> /\ Unformatted.last = 1
    BY DEF Unformatted
  <2>2. Holds(t, c, h, <<>>, 1, 1)
    BY <1>1, <1>3, HoldsFirst
  <2> QED BY <1>5, <2>1, <2>2, Zenon
<1>7. ASSUME NEW k \in 1 .. n, Good(k - 1) PROVE Good(k)
  <2>1. /\ p[k - 1] \in 1 .. Len(t) /\ p[k] = FormatEnd(t, p[k - 1])
        /\ a[k] = FormatStep(t, a[k - 1], <<p[k - 1], p[k]>>)
    BY <1>5
  <2> QED BY <1>1, <1>2, <1>7, <2>1, StepHolds, Zenon
<1> HIDE DEF Good
<1>8. T = {}
  <2> SUFFICES ASSUME T # {} PROVE FALSE
    OBVIOUS
  <2>1. PICK k \in T : \A j \in T : k <= j
    BY SmallestNumber
  <2>2. k # 0 /\ k \in Nat /\ k <= n
    BY <1>6, <2>1
  <2>3. k \in 1 .. n /\ k - 1 \in Nat /\ k - 1 <= n /\ ~ (k <= k - 1)
    BY <2>2
  <2>4. Good(k - 1)
    BY <2>1, <2>3
  <2> QED BY <1>7, <2>1, <2>3, <2>4
<1>9. Good(n)
  BY <1>8
<1>10. Code(a[n].out \o SubSeq(t, a[n].last, Len(t))) = c[1]
  <2> DEFINE o == a[n].out
             l == a[n].last
  <2>1. Holds(t, c, h, o, l, Len(t) + 1)
    BY <1>5, <1>9, Zenon DEF Good
  <2> HIDE DEF o, l
  <2>2. Code(o \o SubSeq(t, l, Len(t))) = c[1]
    BY <1>1, <2>1, HoldsLast
  <2> QED BY <2>2, Zenon DEF o, l
<1> QED BY <1>1, <1>5, <1>10, Zenon

-----------------------------------------------------------------------------
(***************************************************************************)
(* Theorems.                                                               *)
(***************************************************************************)

\* A text is what a person can type, piece by piece.
LEMMA TextIsText == Spec => [](text \in Seq(STRING))
<1>1. Init => text \in Seq(STRING)
  BY EmptySeq, Zenon DEF Init
<1>2. ASSUME text \in Seq(STRING), [Next]_vars
      PROVE  (text \in Seq(STRING))'
  <2>1. ASSUME NEW piece \in Piece, Type(piece)
        PROVE  (text \in Seq(STRING))'
    <3>1. piece \in Seq(STRING) /\ text' = text \o piece
      BY <2>1, PieceAssumption, Zenon DEF Type
    <3>2. text \o piece \in Seq(STRING)
      BY <1>2, <3>1, ConcatProperties, Zenon
    <3> QED BY <3>1, <3>2, Zenon
  <2>2. CASE Clear
    BY <2>2, EmptySeq, Zenon DEF Clear
  <2>3. CASE UNCHANGED vars
    BY <1>2, <2>3, Zenon DEF vars
  <2> QED BY <1>2, <2>1, <2>2, <2>3, Zenon DEF Next
<1> QED BY <1>1, <1>2, PTL DEF Spec

\* Whatever string the value of a parameter is, of any length: quoteCypherString writes it as one
\* literal, which ends where it was written to end, and Cypher reads it back as the string.  No
\* value can end the string it stands in or come out as another one.
THEOREM LiteralsMeanValues == Spec => []LiteralMeansValue
<1>1. text \in Seq(STRING) => LiteralMeansValue
  BY QuotedToTheEnd, EscapedMeansValue, Zenon DEF LiteralMeansValue
<1> QED BY <1>1, TextIsText, PTL

\* Of every query validateReadQuery accepts, of any length, in which no parameter touches another
\* or a string: the query copied has the tokens of the one that runs, each as it was, but for the
\* uses of the parameter, where the value stands as one string, whatever the value.  Nothing within
\* a string, a comment or a longer name is taken for the parameter, and no value runs into what follows.
THEOREM InliningKeepsTokens == Spec => []InliningKeepsCode
<1>1. ASSUME text \in Seq(STRING)
      PROVE  InliningKeepsCode
  <2>1. text \in Seq(Symbol)
    <3>1. STRING \subseteq Symbol
      BY DEF Symbol, Written
    <3> QED BY <1>1, <3>1, SeqMonotonic
  <2>2. Accepted(text) => Readable(text)
    BY Zenon DEF Accepted
  <2>3. Readable(text) /\ ~ Touching(text) => Code(Inlined(text)) = Replaced(Code(text))
    BY <2>1, InlinedReplaces
  <2> QED BY <2>2, <2>3, Zenon DEF InliningKeepsCode, Replaced, Use
<1> QED BY <1>1, TextIsText, PTL

\* formatCypher "changes presentation only", whatever the query that validateReadQuery accepts and of
\* any length: the text on display has the tokens of the text that runs, every string, comment and
\* name whole, and nothing taken for a keyword or for the end of a token that is none.
THEOREM FormattingKeepsTokens == Spec => []FormattingKeepsCode
<1>1. ASSUME text \in Seq(STRING)
      PROVE  FormattingKeepsCode
  <2>1. text \in Seq(Symbol)
    <3>1. STRING \subseteq Symbol
      BY DEF Symbol, Written
    <3> QED BY <1>1, <3>1, SeqMonotonic
  <2>2. Accepted(text) => Readable(text)
    BY Zenon DEF Accepted
  <2> QED BY <2>1, <2>2, FormattedKeeps, Zenon DEF FormattingKeepsCode
<1> QED BY <1>1, TextIsText, PTL

=============================================================================
