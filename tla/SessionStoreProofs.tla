------------------------- MODULE SessionStoreProofs -------------------------
(***************************************************************************)
(* Proofs about the session store, for any number of sessions, any budget, *)
(* any idle period and any measure of the content.                         *)
(*                                                                         *)
(* The inductive invariant speaks of store values, because every operation *)
(* of the code is a chain of the private methods: each method is shown to  *)
(* keep a store value Sound, and an operation then follows by chaining.    *)
(***************************************************************************)
EXTENDS SessionStore, FoldProofs

\* A store value is a record of the three protected fields.
IsStore(st) ==
  st = [sessions |-> st.sessions, recency |-> st.recency, used |-> st.used]

TypedStore(st) ==
  /\ IsStore(st)
  /\ DOMAIN st.sessions \subseteq SessionId
  /\ st.sessions = [id \in DOMAIN st.sessions |-> st.sessions[id]]
  /\ \A id \in DOMAIN st.sessions : st.sessions[id] \in Session
  /\ st.recency \in Seq(SessionId)

Listed(st) ==
  /\ \A i, j \in 1 .. Len(st.recency) : st.recency[i] = st.recency[j] => i = j
  /\ \A i \in 1 .. Len(st.recency) : st.recency[i] \in DOMAIN st.sessions
  /\ \A id \in DOMAIN st.sessions : \E i \in 1 .. Len(st.recency) : st.recency[i] = id

\* No use lies in the future: this is what makes the front of the list the youngest.
Ordered(st) ==
  /\ \A id \in DOMAIN st.sessions : st.sessions[id].lastUsed <= now
  /\ \A i, j \in 1 .. Len(st.recency) :
       i < j => st.sessions[st.recency[i]].lastUsed >= st.sessions[st.recency[j]].lastUsed

Sound(st) == TypedStore(st) /\ Listed(st) /\ Ordered(st)

\* What a method that removes sessions may do to the others: nothing.
Shrinks(st, new) ==
  /\ DOMAIN new.sessions \subseteq DOMAIN st.sessions
  /\ \A id \in DOMAIN new.sessions : new.sessions[id] = st.sessions[id]

AllFresh(st) == \A id \in DOMAIN st.sessions : Idle(st, id) < TTL

-----------------------------------------------------------------------------
\* A cut at position k splits the sessions into those in front of it and those behind it.
LEMMA Cut ==
  ASSUME NEW st, TypedStore(st), Listed(st), NEW k \in 0 .. Len(st.recency)
  PROVE  /\ \A i \in 1 .. k : st.recency[i] \in DOMAIN st.sessions \ Behind(st, k)
         /\ \A id \in DOMAIN st.sessions \ Behind(st, k) :
              \E i \in 1 .. k : st.recency[i] = id
<1>0. st.recency \in Seq(SessionId) /\ Len(st.recency) \in Nat
  BY DEF TypedStore
<1>1. ASSUME NEW i \in 1 .. k
      PROVE  st.recency[i] \in DOMAIN st.sessions \ Behind(st, k)
  <2>1. i \in 1 .. Len(st.recency) /\ i \notin (k + 1) .. Len(st.recency)
    BY <1>0
  <2>2. ASSUME NEW j \in (k + 1) .. Len(st.recency)
        PROVE  st.recency[j] # st.recency[i]
    <3>1. j \in 1 .. Len(st.recency) /\ j # i
      BY <1>0
    <3> QED BY <2>1, <3>1 DEF Listed
  <2> QED BY <2>1, <2>2 DEF Listed, Behind
<1>2. ASSUME NEW id \in DOMAIN st.sessions \ Behind(st, k)
      PROVE  \E i \in 1 .. k : st.recency[i] = id
  <2>1. PICK i \in 1 .. Len(st.recency) : st.recency[i] = id
    BY DEF Listed
  <2>2. i \in 1 .. k
    BY <1>0, <2>1 DEF Behind
  <2> QED BY <2>1, <2>2
<1> QED BY <1>1, <1>2

\* The walk of expire() keeps the store sound and changes no session that stays.
LEMMA ExpiredSound ==
  ASSUME NEW st, Sound(st), now \in Nat, NEW k \in 0 .. Len(st.recency)
  PROVE  Sound(Expired(st, k)) /\ Shrinks(st, Expired(st, k))
<1> DEFINE new == Expired(st, k)
<1>0. st.recency \in Seq(SessionId) /\ Len(st.recency) \in Nat
  BY DEF Sound, TypedStore
<1>1. /\ new.sessions = [id \in DOMAIN st.sessions \ Behind(st, k) |-> st.sessions[id]]
      /\ new.recency = SubSeq(st.recency, 1, k)
      /\ IsStore(new)
  BY DEF Expired, Without, IsStore
<1>2. /\ new.recency \in Seq(SessionId)
      /\ Len(new.recency) = k
      /\ \A i \in 1 .. k : new.recency[i] = st.recency[i]
  BY <1>0, <1>1
<1>3. /\ \A i \in 1 .. k : st.recency[i] \in DOMAIN st.sessions \ Behind(st, k)
      /\ \A id \in DOMAIN st.sessions \ Behind(st, k) :
           \E i \in 1 .. k : st.recency[i] = id
  BY Cut DEF Sound
<1>4. /\ DOMAIN new.sessions = DOMAIN st.sessions \ Behind(st, k)
      /\ \A id \in DOMAIN new.sessions : new.sessions[id] = st.sessions[id]
  BY <1>1
<1>5. TypedStore(new)
  BY <1>1, <1>2 DEF Sound, TypedStore
<1> HIDE DEF new
<1>6. Listed(new)
  <2>1. \A i, j \in 1 .. k : new.recency[i] = new.recency[j] => i = j
    BY <1>0, <1>2 DEF Sound, Listed
  <2> QED BY <1>2, <1>3, <1>4, <2>1 DEF Listed
<1>7. Ordered(new)
  <2>1. \A i, j \in 1 .. k :
          i < j => new.sessions[new.recency[i]].lastUsed >= new.sessions[new.recency[j]].lastUsed
    <3>1. \A i \in 1 .. k : new.sessions[new.recency[i]] = st.sessions[st.recency[i]]
      BY <1>2, <1>3, <1>4
    <3>2. \A i \in 1 .. k : i \in 1 .. Len(st.recency)
      BY <1>0
    <3>3. Ordered(st)
      BY DEF Sound
    <3> QED BY <3>1, <3>2, <3>3 DEF Ordered
  <2> QED BY <1>2, <1>4, <2>1 DEF Sound, Ordered
<1>8. Shrinks(st, new)
  BY <1>4 DEF Shrinks
<1> QED BY <1>5, <1>6, <1>7, <1>8 DEF Sound, new

\* Where the walk stops nothing idle is left: the entries in front of a fresh one are fresh too.
LEMMA ExpiredFresh ==
  ASSUME NEW st, Sound(st), now \in Nat,
         NEW k \in 0 .. Len(st.recency), ExpireStopsAt(st, k)
  PROVE  AllFresh(Expired(st, k))
<1>0. st.recency \in Seq(SessionId) /\ Len(st.recency) \in Nat /\ TTL \in Nat
  BY LimitAssumption DEF Sound, TypedStore
<1> SUFFICES ASSUME NEW id \in DOMAIN Expired(st, k).sessions
             PROVE  Idle(Expired(st, k), id) < TTL
  BY DEF AllFresh
<1>1. /\ id \in DOMAIN st.sessions \ Behind(st, k)
      /\ Expired(st, k).sessions[id] = st.sessions[id]
  BY DEF Expired, Without
<1>2. PICK i \in 1 .. k : st.recency[i] = id
  BY <1>1, Cut DEF Sound
<1>3. k > 0 /\ k \in 1 .. Len(st.recency) /\ i \in 1 .. Len(st.recency)
  BY <1>0
<1>4. /\ st.recency[k] \in DOMAIN st.sessions
      /\ st.sessions[st.recency[k]].lastUsed \in Nat
      /\ st.sessions[id].lastUsed \in Nat
  BY <1>1, <1>3 DEF Sound, Listed, TypedStore, Session
<1>5. st.sessions[id].lastUsed >= st.sessions[st.recency[k]].lastUsed
  BY <1>0, <1>2, <1>3, <1>4 DEF Sound, Ordered
<1>6. now - st.sessions[st.recency[k]].lastUsed < TTL
  BY <1>3 DEF ExpireStopsAt, Idle
<1> QED BY <1>0, <1>1, <1>4, <1>5, <1>6 DEF Idle

\* A list with one more element at its end.
LEMMA OneMore ==
  ASSUME NEW S, NEW list \in Seq(S), NEW x \in S
  PROVE  /\ list \o <<x>> \in Seq(S)
         /\ Len(list \o <<x>>) = Len(list) + 1
         /\ \A i \in 1 .. Len(list) : (list \o <<x>>)[i] = list[i]
         /\ (list \o <<x>>)[Len(list) + 1] = x
<1>1. <<x>> \in Seq(S) /\ Len(<<x>>) = 1 /\ <<x>>[1] = x
  OBVIOUS
<1>2. /\ Len(list) \in Nat
      /\ list \o <<x>> \in Seq(S)
      /\ Len(list \o <<x>>) = Len(list) + 1
      /\ \A i \in 1 .. Len(list) : (list \o <<x>>)[i] = list[i]
  BY <1>1
<1>3. (list \o <<x>>)[Len(list) + 1] = <<x>>[1]
  BY <1>1, <1>2
<1> QED BY <1>1, <1>2, <1>3

\* The second walk of evict() does the same and never drops the current session.
LEMMA EvictedSound ==
  ASSUME NEW st, Sound(st), now \in Nat, NEW j \in 0 .. Len(st.recency), NEW current
  PROVE  /\ Sound(Evicted(st, j, current))
         /\ Shrinks(st, Evicted(st, j, current))
         /\ current \in DOMAIN st.sessions => current \in DOMAIN Evicted(st, j, current).sessions
<1> DEFINE new == Evicted(st, j, current)
           list == SubSeq(st.recency, 1, j)
<1>0. st.recency \in Seq(SessionId) /\ Len(st.recency) \in Nat
  BY DEF Sound, TypedStore
<1>1. /\ new.sessions = [id \in DOMAIN st.sessions \ (Behind(st, j) \ {current})
                           |-> st.sessions[id]]
      /\ new.recency = list \o IF current \in Behind(st, j) THEN <<current>> ELSE <<>>
      /\ IsStore(new)
  BY DEF Evicted, Without, IsStore
<1>2. /\ list \in Seq(SessionId)
      /\ Len(list) = j
      /\ \A i \in 1 .. j : list[i] = st.recency[i]
  BY <1>0
<1>3. /\ \A i \in 1 .. j : st.recency[i] \in DOMAIN st.sessions \ Behind(st, j)
      /\ \A id \in DOMAIN st.sessions \ Behind(st, j) :
           \E i \in 1 .. j : st.recency[i] = id
  BY Cut DEF Sound
<1>4. /\ DOMAIN new.sessions = DOMAIN st.sessions \ (Behind(st, j) \ {current})
      /\ \A id \in DOMAIN new.sessions : new.sessions[id] = st.sessions[id]
      /\ new.sessions = [id \in DOMAIN new.sessions |-> new.sessions[id]]
  BY <1>1
<1>5. Shrinks(st, new)
  BY <1>4 DEF Shrinks
<1>6. current \in DOMAIN st.sessions => current \in DOMAIN new.sessions
  BY <1>4
<1>7. CASE current \notin Behind(st, j)
  <2>1. new.recency = list
    BY <1>1, <1>2, <1>7
  <2>2. DOMAIN new.sessions = DOMAIN st.sessions \ Behind(st, j)
    BY <1>4, <1>7
  <2> HIDE DEF new, list
  <2>3. TypedStore(new)
    BY <1>1, <1>2, <1>4, <2>1, <2>2 DEF Sound, TypedStore
  <2>4. Listed(new)
    <3>0. /\ Listed(st)
          /\ \A a \in 1 .. j : a \in 1 .. Len(st.recency)
      BY <1>0 DEF Sound
    <3>1. \A a, b \in 1 .. j : new.recency[a] = new.recency[b] => a = b
      BY <1>2, <2>1, <3>0 DEF Listed
    <3>2. Len(new.recency) = j
      BY <1>2, <2>1
    <3>3. \A a \in 1 .. j : new.recency[a] \in DOMAIN new.sessions
      BY <1>2, <1>3, <2>1, <2>2
    <3>4. \A id \in DOMAIN new.sessions : \E a \in 1 .. j : new.recency[a] = id
      BY <1>2, <1>3, <2>1, <2>2
    <3> QED BY <3>1, <3>2, <3>3, <3>4 DEF Listed
  <2>5. Ordered(new)
    <3>0. /\ Ordered(st)
          /\ \A a \in 1 .. j : a \in 1 .. Len(st.recency)
      BY <1>0 DEF Sound
    <3>1. \A a \in 1 .. j : new.sessions[new.recency[a]] = st.sessions[st.recency[a]]
      BY <1>2, <1>3, <1>4, <2>1, <2>2
    <3>2. \A a, b \in 1 .. j :
            a < b => new.sessions[new.recency[a]].lastUsed >= new.sessions[new.recency[b]].lastUsed
      BY <3>0, <3>1 DEF Ordered
    <3> QED BY <1>2, <1>4, <2>1, <2>2, <3>2 DEF Sound, Ordered
  <2> QED BY <1>5, <1>6, <2>3, <2>4, <2>5 DEF Sound, new
<1>8. CASE current \in Behind(st, j)
  <2>1. PICK c \in (j + 1) .. Len(st.recency) : st.recency[c] = current
    BY <1>8 DEF Behind
  <2>2. /\ c \in 1 .. Len(st.recency)
        /\ current \in DOMAIN st.sessions
        /\ current \in SessionId
        /\ current \in DOMAIN new.sessions
    BY <1>0, <1>6, <2>1 DEF Sound, Listed, TypedStore
  <2>3. /\ new.recency \in Seq(SessionId)
        /\ Len(new.recency) = j + 1
        /\ \A i \in 1 .. j : new.recency[i] = st.recency[i]
        /\ new.recency[j + 1] = st.recency[c]
    <3> HIDE DEF new, list
    <3>1. new.recency = list \o <<current>>
      BY <1>1, <1>8
    <3>2. /\ list \o <<current>> \in Seq(SessionId)
          /\ Len(list \o <<current>>) = Len(list) + 1
          /\ \A i \in 1 .. Len(list) : (list \o <<current>>)[i] = list[i]
          /\ (list \o <<current>>)[Len(list) + 1] = current
      BY <1>2, <2>2, OneMore, Zenon
    <3>3. /\ new.recency \in Seq(SessionId)
          /\ Len(new.recency) = j + 1
          /\ \A i \in 1 .. j : new.recency[i] = list[i]
          /\ new.recency[j + 1] = current
      BY <1>2, <3>1, <3>2, Zenon
    <3>4. \A i \in 1 .. j : new.recency[i] = st.recency[i]
      BY <1>2, <3>3
    <3> QED BY <2>1, <3>3, <3>4
  <2> HIDE DEF new, list
  <2>4. TypedStore(new)
    BY <1>1, <1>4, <2>3 DEF Sound, TypedStore
  <2>5. Listed(new)
    <3>1. ASSUME NEW a \in 1 .. (j + 1), NEW b \in 1 .. (j + 1), new.recency[a] = new.recency[b]
          PROVE  a = b
      <4> DEFINE old(i) == IF i = j + 1 THEN c ELSE i
      <4>1. \A i \in 1 .. (j + 1) :
              old(i) \in 1 .. Len(st.recency) /\ new.recency[i] = st.recency[old(i)]
        BY <1>0, <2>1, <2>2, <2>3
      <4>2. old(a) = old(b)
        <5> HIDE DEF old
        <5> QED BY <3>1, <4>1 DEF Sound, Listed
      <4> QED BY <1>0, <2>1, <4>2
    <3>2. ASSUME NEW a \in 1 .. (j + 1)
          PROVE  new.recency[a] \in DOMAIN new.sessions
      <4>1. CASE a = j + 1
        BY <2>1, <2>2, <2>3, <4>1
      <4>2. CASE a # j + 1
        <5>1. a \in 1 .. j
          BY <1>0, <4>2
        <5> QED BY <1>3, <1>4, <2>3, <5>1
      <4> QED BY <4>1, <4>2
    <3>3. ASSUME NEW id \in DOMAIN new.sessions
          PROVE  \E a \in 1 .. (j + 1) : new.recency[a] = id
      <4>1. CASE id = current
        BY <1>0, <2>1, <2>3, <4>1
      <4>2. CASE id # current
        <5>1. PICK a \in 1 .. j : st.recency[a] = id
          BY <1>3, <1>4, <4>2
        <5> QED BY <1>0, <2>3, <5>1
      <4> QED BY <4>1, <4>2
    <3> QED BY <2>3, <3>1, <3>2, <3>3 DEF Listed
  <2>6. Ordered(new)
    <3>1. \A id \in DOMAIN new.sessions : new.sessions[id].lastUsed <= now
      BY <1>4 DEF Sound, Ordered
    <3>2. ASSUME NEW a \in 1 .. (j + 1), NEW b \in 1 .. (j + 1), a < b
          PROVE  new.sessions[new.recency[a]].lastUsed >= new.sessions[new.recency[b]].lastUsed
      <4>1. a \in 1 .. j /\ a \in 1 .. Len(st.recency) /\ new.recency[a] = st.recency[a]
        BY <1>0, <2>3, <3>2
      <4>2. PICK d \in 1 .. Len(st.recency) : a < d /\ new.recency[b] = st.recency[d]
        <5>1. CASE b = j + 1
          BY <1>0, <2>1, <2>2, <2>3, <4>1, <5>1
        <5>2. CASE b # j + 1
          BY <1>0, <2>3, <3>2, <5>2
        <5> QED BY <5>1, <5>2
      <4>3. /\ new.recency[a] \in DOMAIN new.sessions
            /\ new.recency[b] \in DOMAIN new.sessions
        BY <2>3, <2>5, <3>2 DEF Listed
      <4>4. /\ new.sessions[new.recency[a]] = st.sessions[st.recency[a]]
            /\ new.sessions[new.recency[b]] = st.sessions[st.recency[d]]
        BY <1>4, <4>1, <4>2, <4>3
      <4> QED BY <1>0, <4>1, <4>2, <4>4 DEF Sound, Ordered
    <3> QED BY <2>3, <3>1, <3>2 DEF Ordered
  <2> QED BY <1>5, <1>6, <2>4, <2>5, <2>6 DEF Sound, new
<1> QED BY <1>7, <1>8

-----------------------------------------------------------------------------
\* MoveToFront permutes the list: the element moves to position 1, the ones before it back by one.
LEMMA MoveToFrontPermutes ==
  ASSUME NEW list \in Seq(SessionId), NEW p \in 1 .. Len(list),
         \A i, j \in 1 .. Len(list) : list[i] = list[j] => i = j
  PROVE  /\ MoveToFront(list, list[p]) \in Seq(SessionId)
         /\ Len(MoveToFront(list, list[p])) = Len(list)
         /\ MoveToFront(list, list[p])[1] = list[p]
         /\ \A i \in 2 .. Len(list) :
              MoveToFront(list, list[p])[i] = IF i <= p THEN list[i - 1] ELSE list[i]
<1> DEFINE q == CHOOSE i \in 1 .. Len(list) : list[i] = list[p]
<1>1. q = p
  OBVIOUS
<1>2. MoveToFront(list, list[p]) =
        [i \in 1 .. Len(list) |->
           IF i = 1 THEN list[p] ELSE IF i <= p THEN list[i - 1] ELSE list[i]]
  BY <1>1 DEF MoveToFront
<1>3. \A i \in 1 .. Len(list) :
        (IF i = 1 THEN list[p] ELSE IF i <= p THEN list[i - 1] ELSE list[i]) \in SessionId
  OBVIOUS
<1> QED BY <1>2, <1>3

\* touch() makes the session the youngest and puts it in front, so the order survives.
LEMMA TouchedSound ==
  ASSUME NEW st, Sound(st), now \in Nat, NEW id \in DOMAIN st.sessions
  PROVE  /\ Sound(Touched(st, id))
         /\ DOMAIN Touched(st, id).sessions = DOMAIN st.sessions
         /\ Touched(st, id).sessions[id] = [st.sessions[id] EXCEPT !.lastUsed = now]
         /\ \A i \in DOMAIN st.sessions \ {id} :
              Touched(st, id).sessions[i] = st.sessions[i]
<1> DEFINE new == Touched(st, id)
           n == Len(st.recency)
<1>0. st.recency \in Seq(SessionId) /\ n \in Nat
  BY DEF Sound, TypedStore
<1>1. /\ new.sessions = [st.sessions EXCEPT ![id].lastUsed = now]
      /\ new.recency = MoveToFront(st.recency, id)
      /\ IsStore(new)
  BY DEF Touched, IsStore
<1>2. PICK p \in 1 .. n : st.recency[p] = id
  BY DEF Sound, Listed
<1>3. /\ new.recency \in Seq(SessionId)
      /\ Len(new.recency) = n
      /\ new.recency[1] = id
      /\ \A i \in 2 .. n :
           new.recency[i] = IF i <= p THEN st.recency[i - 1] ELSE st.recency[i]
  <2>1. \A i, j \in 1 .. Len(st.recency) : st.recency[i] = st.recency[j] => i = j
    BY DEF Sound, Listed
  <2> QED BY <1>0, <1>1, <1>2, <2>1, MoveToFrontPermutes
<1>4. /\ DOMAIN new.sessions = DOMAIN st.sessions
      /\ new.sessions[id] = [st.sessions[id] EXCEPT !.lastUsed = now]
      /\ \A i \in DOMAIN st.sessions \ {id} : new.sessions[i] = st.sessions[i]
      /\ new.sessions = [i \in DOMAIN new.sessions |-> new.sessions[i]]
  BY <1>1 DEF Sound, TypedStore
<1>5. \A i \in DOMAIN st.sessions : st.sessions[i] \in Session
  BY DEF Sound, TypedStore
<1>6. new.sessions[id] \in Session /\ new.sessions[id].lastUsed = now
  BY <1>4, <1>5 DEF Session
<1> HIDE DEF new
<1>7. TypedStore(new)
  BY <1>1, <1>3, <1>4, <1>5, <1>6 DEF Sound, TypedStore
<1>8. Listed(new)
  <2> DEFINE old(i) == IF i = 1 THEN p ELSE IF i <= p THEN i - 1 ELSE i
  <2>0. \A i \in 1 .. n : old(i) \in 1 .. n /\ new.recency[i] = st.recency[old(i)]
    BY <1>0, <1>2, <1>3
  <2>1. ASSUME NEW a \in 1 .. n, NEW b \in 1 .. n, new.recency[a] = new.recency[b]
        PROVE  a = b
    <3>1. old(a) = old(b)
      <4> HIDE DEF old
      <4> QED BY <2>0, <2>1 DEF Sound, Listed
    <3> QED BY <1>0, <1>2, <3>1
  <2>2. \A a \in 1 .. n : new.recency[a] \in DOMAIN new.sessions
    <3> HIDE DEF old
    <3> QED BY <1>4, <2>0 DEF Sound, Listed
  <2>3. ASSUME NEW i \in DOMAIN new.sessions
        PROVE  \E a \in 1 .. n : new.recency[a] = i
    <3>1. PICK b \in 1 .. n : st.recency[b] = i
      BY <1>4 DEF Sound, Listed
    <3>2. CASE b < p
      <4>1. b + 1 \in 2 .. n /\ b + 1 <= p /\ (b + 1) - 1 = b
        BY <1>0, <1>2, <3>2
      <4>2. new.recency[b + 1] = st.recency[b]
        BY <1>3, <4>1
      <4> QED BY <1>0, <3>1, <4>1, <4>2
    <3>3. CASE b = p
      BY <1>0, <1>2, <1>3, <3>1, <3>3
    <3>4. CASE b > p
      <4>1. b \in 2 .. n /\ ~ (b <= p)
        BY <1>0, <1>2, <3>4
      <4>2. new.recency[b] = st.recency[b]
        BY <1>3, <4>1
      <4> QED BY <3>1, <4>2
    <3> QED BY <1>0, <1>2, <3>2, <3>3, <3>4
  <2> QED BY <1>3, <2>1, <2>2, <2>3 DEF Listed
<1>9. Ordered(new)
  <2>1. ASSUME NEW i \in DOMAIN new.sessions
        PROVE  new.sessions[i].lastUsed <= now
    <3>1. CASE i = id
      BY <1>6, <3>1
    <3>2. CASE i # id
      BY <1>4, <3>2 DEF Sound, Ordered
    <3> QED BY <3>1, <3>2
  <2>2. ASSUME NEW a \in 1 .. n, NEW b \in 1 .. n, a < b
        PROVE  new.sessions[new.recency[a]].lastUsed >= new.sessions[new.recency[b]].lastUsed
    <3>1. CASE a = 1
      <4>1. new.recency[b] \in DOMAIN new.sessions
        BY <1>3, <1>8 DEF Listed
      <4>2. new.sessions[new.recency[b]].lastUsed \in Nat
        BY <1>7, <4>1 DEF TypedStore, Session
      <4> QED BY <1>3, <1>6, <2>1, <3>1, <4>1, <4>2
    <3>2. CASE a # 1
      <4> DEFINE oa == IF a <= p THEN a - 1 ELSE a
                 ob == IF b <= p THEN b - 1 ELSE b
      <4>1. /\ oa \in 1 .. n /\ ob \in 1 .. n /\ oa < ob
            /\ oa # p /\ ob # p
        BY <1>0, <1>2, <2>2, <3>2
      <4>2. new.recency[a] = st.recency[oa] /\ new.recency[b] = st.recency[ob]
        BY <1>0, <1>3, <2>2, <3>2
      <4>3. /\ st.recency[oa] \in DOMAIN st.sessions \ {id}
            /\ st.recency[ob] \in DOMAIN st.sessions \ {id}
        BY <1>2, <4>1 DEF Sound, Listed
      <4> HIDE DEF oa, ob
      <4> QED BY <1>4, <4>1, <4>2, <4>3 DEF Sound, Ordered
    <3> QED BY <3>1, <3>2
  <2> QED BY <1>3, <2>1, <2>2 DEF Ordered
<1> QED BY <1>4, <1>7, <1>8, <1>9 DEF Sound, new

\* A session not yet listed goes in front, as the youngest.
LEMMA AddedSound ==
  ASSUME NEW st, Sound(st), now \in Nat, NEW id \in SessionId, id \notin DOMAIN st.sessions
  PROVE  /\ Sound(Added(st, id))
         /\ DOMAIN Added(st, id).sessions = DOMAIN st.sessions \cup {id}
         /\ Added(st, id).sessions[id].content = NewContent
         /\ \A i \in DOMAIN st.sessions : Added(st, id).sessions[i] = st.sessions[i]
<1> DEFINE new == Added(st, id)
           n == Len(st.recency)
           fresh == [lastUsed |-> now, content |-> NewContent, size |-> Measure[NewContent]]
<1>0. st.recency \in Seq(SessionId) /\ n \in Nat
  BY DEF Sound, TypedStore
<1>1. /\ new.recency = <<id>> \o st.recency
      /\ DOMAIN new.sessions = DOMAIN st.sessions \cup {id}
      /\ new.sessions[id] = fresh
      /\ \A i \in DOMAIN st.sessions : new.sessions[i] = st.sessions[i]
      /\ new.sessions = [i \in DOMAIN new.sessions |-> new.sessions[i]]
      /\ IsStore(new)
  BY DEF Added, IsStore
<1>2. /\ new.recency \in Seq(SessionId)
      /\ Len(new.recency) = n + 1
      /\ new.recency[1] = id
      /\ \A i \in 2 .. (n + 1) : new.recency[i] = st.recency[i - 1]
  BY <1>0, <1>1
<1>3. fresh \in Session /\ fresh.lastUsed = now /\ fresh.content = NewContent
  BY ContentAssumption DEF Session
<1> HIDE DEF new, fresh
<1>4. TypedStore(new)
  BY <1>1, <1>2, <1>3 DEF Sound, TypedStore
<1>5. Listed(new)
  <2>1. \A a \in 2 .. (n + 1) : a - 1 \in 1 .. n /\ new.recency[a] \in DOMAIN st.sessions
    BY <1>0, <1>2 DEF Sound, Listed
  <2>2. ASSUME NEW a \in 1 .. (n + 1), NEW b \in 1 .. (n + 1), new.recency[a] = new.recency[b]
        PROVE  a = b
    <3>1. CASE a = 1
      BY <1>0, <1>2, <2>1, <2>2, <3>1
    <3>2. CASE b = 1
      BY <1>0, <1>2, <2>1, <2>2, <3>2
    <3>3. CASE a # 1 /\ b # 1
      <4>0. a \in 2 .. (n + 1) /\ b \in 2 .. (n + 1)
        BY <1>0, <3>3
      <4>1. /\ a - 1 \in 1 .. n /\ b - 1 \in 1 .. n
            /\ st.recency[a - 1] = st.recency[b - 1]
        BY <1>2, <2>1, <2>2, <4>0
      <4>2. a - 1 = b - 1
        BY <4>1 DEF Sound, Listed
      <4> QED BY <1>0, <4>2
    <3> QED BY <3>1, <3>2, <3>3
  <2>3. \A a \in 1 .. (n + 1) : new.recency[a] \in DOMAIN new.sessions
    BY <1>0, <1>1, <1>2, <2>1
  <2>4. ASSUME NEW i \in DOMAIN new.sessions
        PROVE  \E a \in 1 .. (n + 1) : new.recency[a] = i
    <3>1. CASE i = id
      BY <1>0, <1>2, <3>1
    <3>2. CASE i # id
      <4>1. PICK b \in 1 .. n : st.recency[b] = i
        BY <1>1, <3>2 DEF Sound, Listed
      <4>2. b + 1 \in 2 .. (n + 1) /\ (b + 1) - 1 = b
        BY <1>0
      <4>3. new.recency[b + 1] = i
        BY <1>2, <4>1, <4>2
      <4> QED BY <1>0, <4>2, <4>3
    <3> QED BY <3>1, <3>2
  <2> QED BY <1>2, <2>2, <2>3, <2>4 DEF Listed
<1>6. Ordered(new)
  <2>1. \A i \in DOMAIN new.sessions : new.sessions[i].lastUsed <= now
    BY <1>1, <1>3 DEF Sound, Ordered
  <2>2. ASSUME NEW a \in 1 .. (n + 1), NEW b \in 1 .. (n + 1), a < b
        PROVE  new.sessions[new.recency[a]].lastUsed >= new.sessions[new.recency[b]].lastUsed
    <3>0. /\ new.recency[b] \in DOMAIN new.sessions
          /\ new.sessions[new.recency[b]].lastUsed \in Nat
      BY <1>2, <1>4, <1>5 DEF Listed, TypedStore, Session
    <3>1. CASE a = 1
      BY <1>1, <1>2, <1>3, <2>1, <3>0, <3>1
    <3>2. CASE a # 1
      <4>0. /\ a \in 2 .. (n + 1) /\ b \in 2 .. (n + 1)
            /\ a - 1 \in 1 .. n /\ b - 1 \in 1 .. n /\ a - 1 < b - 1
        BY <1>0, <2>2, <3>2
      <4>1. /\ a - 1 \in 1 .. n /\ b - 1 \in 1 .. n /\ a - 1 < b - 1
            /\ new.recency[a] = st.recency[a - 1]
            /\ new.recency[b] = st.recency[b - 1]
        BY <1>2, <4>0
      <4>2. /\ st.recency[a - 1] \in DOMAIN st.sessions
            /\ st.recency[b - 1] \in DOMAIN st.sessions
        BY <4>1 DEF Sound, Listed
      <4>3. st.sessions[st.recency[a - 1]].lastUsed >= st.sessions[st.recency[b - 1]].lastUsed
        BY <4>1 DEF Sound, Ordered
      <4> QED BY <1>1, <4>1, <4>2, <4>3
    <3> QED BY <3>1, <3>2
  <2> QED BY <1>2, <2>1, <2>2 DEF Ordered
<1> QED BY <1>1, <1>3, <1>4, <1>5, <1>6 DEF Sound, new

\* Replacing the content of a session, or its size, concerns neither the list nor its order.
LEMMA ChangedSound ==
  ASSUME NEW st, Sound(st), NEW id \in DOMAIN st.sessions, NEW content \in Content
  PROVE  /\ Sound(Changed(st, id, content))
         /\ DOMAIN Changed(st, id, content).sessions = DOMAIN st.sessions
         /\ Changed(st, id, content).sessions[id].content = content
         /\ \A i \in DOMAIN st.sessions \ {id} :
              Changed(st, id, content).sessions[i] = st.sessions[i]
<1> DEFINE new == Changed(st, id, content)
<1>0. \A i \in DOMAIN st.sessions : st.sessions[i] \in Session
  BY DEF Sound, TypedStore
<1>1. /\ new.sessions = [st.sessions EXCEPT ![id].content = content]
      /\ new.recency = st.recency
      /\ IsStore(new)
  BY DEF Changed, IsStore
<1>2. /\ DOMAIN new.sessions = DOMAIN st.sessions
      /\ new.sessions[id] = [st.sessions[id] EXCEPT !.content = content]
      /\ \A i \in DOMAIN st.sessions \ {id} : new.sessions[i] = st.sessions[i]
      /\ new.sessions = [i \in DOMAIN new.sessions |-> new.sessions[i]]
  BY <1>1 DEF Sound, TypedStore
<1>3. /\ new.sessions[id] \in Session
      /\ new.sessions[id].content = content
      /\ new.sessions[id].lastUsed = st.sessions[id].lastUsed
  BY <1>0, <1>2 DEF Session
<1> HIDE DEF new
<1>4. \A i \in DOMAIN st.sessions : new.sessions[i].lastUsed = st.sessions[i].lastUsed
  BY <1>2, <1>3
<1>5. TypedStore(new)
  BY <1>0, <1>1, <1>2, <1>3 DEF Sound, TypedStore
<1>6. Listed(new)
  BY <1>1, <1>2 DEF Sound, Listed
<1>7. Ordered(new)
  <2>1. \A i \in 1 .. Len(st.recency) : st.recency[i] \in DOMAIN st.sessions
    BY DEF Sound, Listed
  <2>2. \A i \in 1 .. Len(st.recency) :
          new.sessions[new.recency[i]].lastUsed = st.sessions[st.recency[i]].lastUsed
    BY <1>1, <1>4, <2>1
  <2> QED BY <1>1, <1>2, <1>4, <2>2 DEF Sound, Ordered
<1> QED BY <1>2, <1>3, <1>5, <1>6, <1>7 DEF Sound, new

LEMMA RemeasuredSound ==
  ASSUME NEW st, Sound(st), NEW id \in DOMAIN st.sessions
  PROVE  /\ Sound(Remeasured(st, id))
         /\ DOMAIN Remeasured(st, id).sessions = DOMAIN st.sessions
         /\ \A i \in DOMAIN st.sessions :
              Remeasured(st, id).sessions[i].content = st.sessions[i].content
<1> DEFINE new == Remeasured(st, id)
           size == Measure[st.sessions[id].content]
<1>0. \A i \in DOMAIN st.sessions : st.sessions[i] \in Session
  BY DEF Sound, TypedStore
<1>1. /\ new.sessions = [st.sessions EXCEPT ![id].size = size]
      /\ new.recency = st.recency
      /\ IsStore(new)
      /\ size \in Nat
  BY <1>0, ContentAssumption DEF Remeasured, IsStore, Session
<1> HIDE DEF size
<1>2. /\ DOMAIN new.sessions = DOMAIN st.sessions
      /\ new.sessions[id] = [st.sessions[id] EXCEPT !.size = size]
      /\ \A i \in DOMAIN st.sessions \ {id} : new.sessions[i] = st.sessions[i]
      /\ new.sessions = [i \in DOMAIN new.sessions |-> new.sessions[i]]
  BY <1>1 DEF Sound, TypedStore
<1>3. /\ new.sessions[id] \in Session
      /\ new.sessions[id].content = st.sessions[id].content
      /\ new.sessions[id].lastUsed = st.sessions[id].lastUsed
  BY <1>0, <1>1, <1>2 DEF Session
<1> HIDE DEF new
<1>4. \A i \in DOMAIN st.sessions :
        /\ new.sessions[i].lastUsed = st.sessions[i].lastUsed
        /\ new.sessions[i].content = st.sessions[i].content
  BY <1>2, <1>3
<1>5. TypedStore(new)
  BY <1>0, <1>1, <1>2, <1>3 DEF Sound, TypedStore
<1>6. Listed(new)
  BY <1>1, <1>2 DEF Sound, Listed
<1>7. Ordered(new)
  <2>1. \A i \in 1 .. Len(st.recency) : st.recency[i] \in DOMAIN st.sessions
    BY DEF Sound, Listed
  <2>2. \A i \in 1 .. Len(st.recency) :
          new.sessions[new.recency[i]].lastUsed = st.sessions[st.recency[i]].lastUsed
    BY <1>1, <1>4, <2>1
  <2> QED BY <1>1, <1>2, <1>4, <2>2 DEF Sound, Ordered
<1> QED BY <1>2, <1>4, <1>5, <1>6, <1>7 DEF Sound, new

-----------------------------------------------------------------------------
(***************************************************************************)
(* The operations.                                                         *)
(***************************************************************************)

\* The sweep stops in front of a session that is not idle.
LEMMA StaysFresh ==
  ASSUME NEW st, Sound(st), now \in Nat, NEW id \in DOMAIN st.sessions, Idle(st, id) < TTL,
         NEW k \in 0 .. Len(st.recency), ExpireStopsAt(st, k)
  PROVE  id \notin Behind(st, k)
<1> SUFFICES ASSUME NEW i \in (k + 1) .. Len(st.recency), st.recency[i] = id
             PROVE  FALSE
  BY DEF Behind
<1>1. Idle(st, id) >= TTL
  BY DEF ExpireStopsAt
<1>2. Idle(st, id) \in Int /\ TTL \in Int
  BY LimitAssumption DEF Idle, Sound, TypedStore, Session
<1> QED BY <1>1, <1>2

\* evict() leaves a sound store without idle sessions that still holds the current one.
LEMMA EvictIntoResult ==
  ASSUME NEW st, Sound(st), now \in Nat, NEW current \in DOMAIN st.sessions,
         Idle(st, current) < TTL, EvictInto(st, current)
  PROVE  \E new : /\ Become(new)
                  /\ Sound(new)
                  /\ Shrinks(st, new)
                  /\ AllFresh(new)
                  /\ current \in DOMAIN new.sessions
<1>1. PICK k \in 0 .. Len(st.recency) :
        /\ ExpireStopsAt(st, k)
        /\ \E j \in 0 .. Len(Expired(st, k).recency) :
             Become(Evicted(Expired(st, k), j, current))
  BY DEF EvictInto
<1> DEFINE fresh == Expired(st, k)
<1>2. PICK j \in 0 .. Len(fresh.recency) : Become(Evicted(fresh, j, current))
  BY <1>1
<1> DEFINE new == Evicted(fresh, j, current)
<1>3. Sound(fresh) /\ Shrinks(st, fresh) /\ AllFresh(fresh)
  BY <1>1, ExpiredSound, ExpiredFresh
<1>4. current \in DOMAIN fresh.sessions
  <2>1. current \notin Behind(st, k)
    BY <1>1, StaysFresh
  <2> QED BY <2>1 DEF Expired, Without
<1> HIDE DEF fresh
<1>5. /\ Sound(new) /\ Shrinks(fresh, new)
      /\ current \in DOMAIN new.sessions
  BY <1>3, <1>4, EvictedSound
<1> HIDE DEF new
<1>6. Shrinks(st, new) /\ AllFresh(new)
  BY <1>3, <1>5 DEF Shrinks, AllFresh, Idle
<1> QED BY <1>2, <1>5, <1>6 DEF new

\* The next state is the store value an operation ends with.
LEMMA BecomeNext ==
  ASSUME NEW st, Sound(st), AllFresh(st), Become(st), now' = now
  PROVE  Sound(Store)' /\ AllFresh(Store)'
<1>1. Store' = st
  BY DEF Become, Store, Sound, TypedStore, IsStore
<1>2. Sound(Store)'
  BY <1>1 DEF Sound, TypedStore, IsStore, Listed, Ordered
<1>3. AllFresh(Store)'
  BY <1>1 DEF AllFresh, Idle
<1> QED BY <1>2, <1>3

IInv ==
  /\ now \in Nat
  /\ issued \subseteq SessionId
  /\ DOMAIN sessions \subseteq issued
  /\ Sound(Store)

LEMMA LoadHeldStep ==
  ASSUME IInv, NEW cookie, LoadHeld(cookie)
  PROVE  /\ Sound(Store)' /\ AllFresh(Store)'
         /\ now' = now /\ issued' = issued
         /\ DOMAIN sessions' \subseteq DOMAIN sessions
         /\ \A id \in DOMAIN sessions' : sessions'[id].content = sessions[id].content
<1>0. Store.sessions = sessions /\ Store.recency = recency /\ Sound(Store) /\ now \in Nat
  BY DEF IInv, Store
<1> DEFINE swept(k) == Expired(Store, k)
<1>1. PICK k \in 0 .. Len(recency) :
        /\ ExpireStopsAt(Store, k)
        /\ cookie \in DOMAIN swept(k).sessions
        /\ Become(Touched(swept(k), cookie))
        /\ now' = now /\ issued' = issued
  BY DEF LoadHeld
<1> DEFINE st  == swept(k)
           new == Touched(st, cookie)
<1>2. Sound(st) /\ Shrinks(Store, st) /\ AllFresh(st)
  BY <1>0, <1>1, ExpiredSound, ExpiredFresh
<1>3. cookie \in DOMAIN st.sessions /\ Become(new)
  BY <1>1
<1> HIDE DEF st, swept
<1>4. /\ Sound(new)
      /\ DOMAIN new.sessions = DOMAIN st.sessions
      /\ new.sessions[cookie] = [st.sessions[cookie] EXCEPT !.lastUsed = now]
      /\ \A i \in DOMAIN st.sessions \ {cookie} : new.sessions[i] = st.sessions[i]
  BY <1>0, <1>2, <1>3, TouchedSound
<1>5. st.sessions[cookie] \in Session
  BY <1>2, <1>3 DEF Sound, TypedStore
<1>6. /\ new.sessions[cookie].lastUsed = now
      /\ new.sessions[cookie].content = st.sessions[cookie].content
  BY <1>4, <1>5 DEF Session
<1> HIDE DEF new
<1>7. AllFresh(new)
  <2> SUFFICES ASSUME NEW i \in DOMAIN new.sessions
               PROVE  Idle(new, i) < TTL
    BY DEF AllFresh
  <2>1. CASE i = cookie
    BY <1>0, <1>6, <2>1, LimitAssumption DEF Idle
  <2>2. CASE i # cookie
    BY <1>2, <1>4, <2>2 DEF AllFresh, Idle
  <2> QED BY <2>1, <2>2
<1>8. Sound(Store)' /\ AllFresh(Store)'
  BY <1>1, <1>3, <1>4, <1>7, BecomeNext
<1>9. /\ DOMAIN sessions' \subseteq DOMAIN sessions
      /\ \A id \in DOMAIN sessions' : sessions'[id].content = sessions[id].content
  BY <1>0, <1>2, <1>3, <1>4, <1>6 DEF Become, Shrinks
<1> QED BY <1>1, <1>8, <1>9

LEMMA LoadNewStep ==
  ASSUME IInv, NEW cookie, NEW id \in SessionId, LoadNew(cookie, id)
  PROVE  /\ Sound(Store)' /\ AllFresh(Store)'
         /\ now' = now /\ id \notin issued /\ issued' = issued \cup {id}
         /\ id \in DOMAIN sessions' /\ sessions'[id].content = NewContent
         /\ DOMAIN sessions' \subseteq DOMAIN sessions \cup {id}
         /\ \A i \in DOMAIN sessions' \ {id} : sessions'[i].content = sessions[i].content
<1>0. /\ Store.sessions = sessions /\ Store.recency = recency
      /\ Sound(Store) /\ now \in Nat /\ id \notin DOMAIN sessions
  BY DEF IInv, Store, LoadNew
<1> DEFINE swept(k) == Expired(Store, k)
<1>1. PICK k \in 0 .. Len(recency) :
        /\ ExpireStopsAt(Store, k)
        /\ EvictInto(Added(swept(k), id), id)
  BY DEF LoadNew
<1> DEFINE st    == swept(k)
           added == Added(st, id)
<1>2. Sound(st) /\ Shrinks(Store, st)
  BY <1>0, <1>1, ExpiredSound
<1> HIDE DEF st, swept
<1>3. /\ Sound(added)
      /\ DOMAIN added.sessions = DOMAIN st.sessions \cup {id}
      /\ added.sessions[id].content = NewContent
      /\ \A i \in DOMAIN st.sessions : added.sessions[i] = st.sessions[i]
  BY <1>0, <1>2, AddedSound DEF Shrinks
<1>4. Idle(added, id) < TTL
  <2>1. added.sessions[id].lastUsed = now
    BY DEF Added
  <2> QED BY <1>0, <2>1, LimitAssumption DEF Idle
<1>5. EvictInto(added, id) /\ id \in DOMAIN added.sessions
  BY <1>1, <1>3 DEF st
<1> HIDE DEF added
<1>6. PICK new : /\ Become(new) /\ Sound(new) /\ Shrinks(added, new)
                 /\ AllFresh(new) /\ id \in DOMAIN new.sessions
  BY <1>0, <1>3, <1>4, <1>5, EvictIntoResult
<1>7. now' = now /\ id \notin issued /\ issued' = issued \cup {id}
  BY DEF LoadNew
<1>8. Sound(Store)' /\ AllFresh(Store)'
  BY <1>6, <1>7, BecomeNext
<1>9. /\ id \in DOMAIN sessions' /\ sessions'[id].content = NewContent
      /\ DOMAIN sessions' \subseteq DOMAIN sessions \cup {id}
      /\ \A i \in DOMAIN sessions' \ {id} : sessions'[i].content = sessions[i].content
  BY <1>0, <1>2, <1>3, <1>6 DEF Become, Shrinks
<1> QED BY <1>7, <1>8, <1>9

LEMMA UpdateStep ==
  ASSUME IInv, NEW id \in SessionId, NEW content \in Content, Update(id, content)
  PROVE  /\ Sound(Store)' /\ AllFresh(Store)'
         /\ now' = now /\ issued' = issued
         /\ id \in DOMAIN sessions' /\ sessions'[id].content = content
         /\ DOMAIN sessions' \subseteq DOMAIN sessions
         /\ \A i \in DOMAIN sessions' \ {id} : sessions'[i].content = sessions[i].content
<1>0. /\ Store.sessions = sessions /\ Store.recency = recency
      /\ Sound(Store) /\ now \in Nat /\ id \in DOMAIN sessions
  BY DEF IInv, Store, Update, Live
<1> DEFINE changed == Changed(Store, id, content)
           touched == Touched(changed, id)
           st      == Remeasured(touched, id)
<1>1. EvictInto(st, id) /\ now' = now /\ issued' = issued
  BY DEF Update
<1>2. /\ Sound(changed)
      /\ DOMAIN changed.sessions = DOMAIN sessions
      /\ changed.sessions[id].content = content
      /\ \A i \in DOMAIN sessions \ {id} : changed.sessions[i] = sessions[i]
  BY <1>0, ChangedSound
<1> HIDE DEF changed
<1>3. /\ Sound(touched)
      /\ DOMAIN touched.sessions = DOMAIN sessions
      /\ touched.sessions[id] = [changed.sessions[id] EXCEPT !.lastUsed = now]
      /\ \A i \in DOMAIN sessions \ {id} : touched.sessions[i] = changed.sessions[i]
  BY <1>0, <1>2, TouchedSound
<1>4. touched.sessions[id].lastUsed = now /\ touched.sessions[id].content = content
  <2>1. changed.sessions[id] \in Session
    BY <1>0, <1>2 DEF Sound, TypedStore
  <2> QED BY <1>2, <1>3, <2>1 DEF Session
<1>5. touched.sessions[id] \in Session
  BY <1>0, <1>3 DEF Sound, TypedStore
<1> HIDE DEF touched
<1>6. /\ Sound(st)
      /\ DOMAIN st.sessions = DOMAIN sessions
      /\ \A i \in DOMAIN sessions : st.sessions[i].content = touched.sessions[i].content
  BY <1>0, <1>3, RemeasuredSound
<1>7. st.sessions[id].lastUsed = now
  <2>1. st.sessions = [touched.sessions EXCEPT ![id].size = Measure[touched.sessions[id].content]]
    BY DEF Remeasured
  <2>2. st.sessions[id] =
          [touched.sessions[id] EXCEPT !.size = Measure[touched.sessions[id].content]]
    BY <1>0, <1>3, <2>1 DEF Sound, TypedStore
  <2> QED BY <1>4, <1>5, <2>2 DEF Session
<1> HIDE DEF st
<1>8. Idle(st, id) < TTL
  BY <1>0, <1>7, LimitAssumption DEF Idle
<1>9. PICK new : /\ Become(new) /\ Sound(new) /\ Shrinks(st, new)
                 /\ AllFresh(new) /\ id \in DOMAIN new.sessions
  BY <1>0, <1>1, <1>6, <1>8, EvictIntoResult
<1>10. Sound(Store)' /\ AllFresh(Store)'
  BY <1>1, <1>9, BecomeNext
<1>11. /\ id \in DOMAIN sessions' /\ sessions'[id].content = content
       /\ DOMAIN sessions' \subseteq DOMAIN sessions
       /\ \A i \in DOMAIN sessions' \ {id} : sessions'[i].content = sessions[i].content
  <2>1. /\ sessions' = new.sessions
        /\ DOMAIN new.sessions \subseteq DOMAIN sessions
        /\ \A i \in DOMAIN new.sessions : new.sessions[i] = st.sessions[i]
    BY <1>6, <1>9 DEF Become, Shrinks
  <2>2. sessions'[id].content = content
    BY <1>0, <1>4, <1>6, <1>9, <2>1
  <2>3. ASSUME NEW i \in DOMAIN new.sessions \ {id}
        PROVE  new.sessions[i].content = sessions[i].content
    BY <1>2, <1>3, <1>6, <2>1
  <2> QED BY <1>9, <2>1, <2>2, <2>3
<1> QED BY <1>1, <1>10, <1>11

-----------------------------------------------------------------------------
(***************************************************************************)
(* The theorems.                                                           *)
(***************************************************************************)

LEMMA InitIInv == Init => IInv
<1> SUFFICES ASSUME Init PROVE IInv
  OBVIOUS
<1>1. /\ now = 0 /\ issued = {} /\ DOMAIN sessions = {} /\ recency = <<>>
      /\ sessions = [id \in DOMAIN sessions |-> sessions[id]]
  BY DEF Init
<1>2. Store.sessions = sessions /\ Store.recency = recency /\ IsStore(Store)
  BY DEF Store, IsStore
<1> QED BY <1>1, <1>2 DEF IInv, Sound, TypedStore, Listed, Ordered

\* Time only makes sessions older: the order is about when they were used.
LEMMA TickSound ==
  ASSUME IInv, Tick
  PROVE  IInv'
<1>1. /\ now \in Nat /\ now' = now + 1 /\ Store' = Store
      /\ sessions' = sessions /\ issued' = issued
  BY DEF IInv, Tick, Store
<1>2. Sound(Store)
  BY DEF IInv
<1>3. TypedStore(Store)' /\ Listed(Store)'
  BY <1>1, <1>2 DEF Sound, TypedStore, IsStore, Listed
<1>4. Ordered(Store)'
  <2>1. \A id \in DOMAIN Store.sessions : Store.sessions[id].lastUsed \in Nat
    BY <1>2 DEF Sound, TypedStore, Session
  <2> QED BY <1>1, <1>2, <2>1 DEF Sound, Ordered
<1> QED BY <1>1, <1>3, <1>4 DEF IInv, Sound

\* The invariant is inductive, and any step that touches the sessions leaves none idle.
LEMMA StepIInv ==
  ASSUME IInv, [Next]_vars
  PROVE  IInv' /\ (UNCHANGED sessions \/ (AllFresh(Store)' /\ now' = now))
<1>1. CASE Tick
  BY <1>1, TickSound DEF Tick
<1>2. ASSUME NEW cookie \in issued, LoadHeld(cookie)
      PROVE  IInv' /\ AllFresh(Store)' /\ now' = now
  BY <1>2, LoadHeldStep DEF IInv
<1>3. ASSUME NEW cookie \in issued \cup {NoCookie}, NEW id \in SessionId, LoadNew(cookie, id)
      PROVE  IInv' /\ AllFresh(Store)' /\ now' = now
  BY <1>3, LoadNewStep DEF IInv
<1>4. ASSUME NEW id \in SessionId, NEW content \in Content, Update(id, content)
      PROVE  IInv' /\ AllFresh(Store)' /\ now' = now
  BY <1>4, UpdateStep DEF IInv
<1>5. ASSUME UNCHANGED vars
      PROVE  IInv' /\ UNCHANGED sessions
  BY <1>5 DEF vars, IInv, Store, Sound, TypedStore, IsStore, Listed, Ordered
<1> QED BY <1>1, <1>2, <1>3, <1>4, <1>5 DEF Next, UpdateEnded

THEOREM Invariance == Spec => []IInv
<1>1. IInv /\ [Next]_vars => IInv'
  BY StepIInv
<1> QED BY InitIInv, <1>1, PTL DEF Spec

\* The variables keep their types, whatever the contents and the clock do.
THEOREM TypeCorrect == Spec => []TypeOK
<1>1. IInv => TypeOK
  BY DEF IInv, TypeOK, Sound, TypedStore, Store
<1> QED BY Invariance, <1>1, PTL

\* remove(), PushFront and MoveToFront keep the recency list and the map in step.
THEOREM ListCorrect == Spec => []ListMatchesMap
<1>1. IInv => ListMatchesMap
  <2> SUFFICES ASSUME IInv PROVE ListMatchesMap
    OBVIOUS
  <2>1. Listed(Store) /\ Store.sessions = sessions /\ Store.recency = recency
    BY DEF IInv, Sound, Store
  <2>2. \A id \in DOMAIN sessions : \E i \in 1 .. Len(recency) : recency[i] = id
    BY <2>1 DEF Listed
  <2>3. \A i \in 1 .. Len(recency) : recency[i] \in DOMAIN sessions
    BY <2>1 DEF Listed
  <2>5. \A i, j \in 1 .. Len(recency) : recency[i] = recency[j] => i = j
    BY <2>1, Zenon DEF Listed
  <2>4. {recency[i] : i \in 1 .. Len(recency)} = DOMAIN sessions
    BY <2>2, <2>3
  <2> QED BY <2>4, <2>5 DEF ListMatchesMap
<1> QED BY Invariance, <1>1, PTL

\* The recency list is always sorted by last use: the assumption expire() makes when it stops early.
THEOREM OrderCorrect == Spec => []RecencyOrdered
<1>1. IInv => RecencyOrdered
  BY DEF IInv, Sound, Ordered, Store, RecencyOrdered
<1> QED BY Invariance, <1>1, PTL

\* Both together are the invariant the walks of expire() and evict() rely on.
THEOREM RecencyCorrect == Spec => []RecencyList
BY ListCorrect, OrderCorrect, PTL DEF RecencyList

\* Every load and every update sweeps completely: no session it leaves has been idle for TTL.
THEOREM SweepComplete == Spec => NoneOverstays
<1>1. IInv /\ [Next]_vars =>
        [\A id \in DOMAIN sessions' : now - sessions'[id].lastUsed < TTL]_sessions
  <2> SUFFICES ASSUME IInv, [Next]_vars, sessions' # sessions
               PROVE  \A id \in DOMAIN sessions' : now - sessions'[id].lastUsed < TTL
    OBVIOUS
  <2>1. AllFresh(Store)' /\ now' = now
    BY StepIInv
  <2> QED BY <2>1 DEF AllFresh, Idle, Store
<1> QED BY Invariance, <1>1, PTL DEF Spec, NoneOverstays

\* The store implements the contract the request handlers are modelled on.
THEOREM ImplementsContract == Spec => ContractSpec
<1>1. Init => Contract!Init
  <2> SUFFICES ASSUME Init PROVE Contract!Init
    OBVIOUS
  <2>1. DOMAIN sessions = {} /\ issued = {}
    BY DEF Init
  <2> QED BY <2>1 DEF Contract!Init, Live
<1>2. IInv /\ [Next]_vars => [Contract!Next]_Contract!vars
  <2> SUFFICES ASSUME IInv, [Next]_vars
               PROVE  Contract!Next \/ UNCHANGED Contract!vars
    OBVIOUS
  <2> DEFINE held == [id \in DOMAIN sessions |-> sessions[id].content]
  <2>0. PICK ended \in SUBSET DOMAIN sessions : ended = DOMAIN sessions \ DOMAIN sessions'
    OBVIOUS
  <2>a. held = [id \in Live |-> sessions[id].content] /\ DOMAIN held = DOMAIN sessions
    BY DEF Live
  <2>1. CASE Tick
    BY <2>1 DEF Tick, Contract!vars, Live
  <2>2. ASSUME NEW cookie \in issued, LoadHeld(cookie)
        PROVE  Contract!Next
    <3>1. /\ DOMAIN sessions' \subseteq DOMAIN sessions /\ issued' = issued
          /\ \A id \in DOMAIN sessions' : sessions'[id].content = sessions[id].content
      BY <2>2, LoadHeldStep
    <3>2. held' = [id \in DOMAIN held \ ended |-> held[id]]
      BY <2>0, <3>1
    <3>3. Contract!End(ended)
      BY <3>1, <3>2 DEF Contract!End, Contract!Without, Live
    <3> QED BY <2>0, <2>a, <3>3 DEF Contract!Next
  <2>3. ASSUME NEW cookie \in issued \cup {NoCookie}, NEW id \in SessionId, LoadNew(cookie, id)
        PROVE  Contract!Next
    <3>1. /\ id \notin issued /\ issued' = issued \cup {id}
          /\ id \in DOMAIN sessions' /\ sessions'[id].content = NewContent
          /\ DOMAIN sessions' \subseteq DOMAIN sessions \cup {id}
          /\ \A i \in DOMAIN sessions' \ {id} : sessions'[i].content = sessions[i].content
      BY <2>3, LoadNewStep
    <3>2. held' = [i \in (DOMAIN held \ ended) \cup {id} |->
                     IF i = id THEN NewContent ELSE held[i]]
      BY <2>0, <3>1
    <3>3. Contract!Open(id, ended)
      BY <3>1, <3>2 DEF Contract!Open, Live
    <3> QED BY <2>0, <2>a, <3>3 DEF Contract!Next
  <2>4. ASSUME NEW id \in SessionId, NEW content \in Content, Update(id, content)
        PROVE  Contract!Next
    <3>1. /\ issued' = issued
          /\ id \in DOMAIN sessions' /\ sessions'[id].content = content
          /\ DOMAIN sessions' \subseteq DOMAIN sessions
          /\ \A i \in DOMAIN sessions' \ {id} : sessions'[i].content = sessions[i].content
      BY <2>4, UpdateStep
    <3>2. held' = [[i \in DOMAIN held \ ended |-> held[i]] EXCEPT ![id] = content]
      BY <2>0, <3>1
    <3>3. Contract!Change(id, content, ended)
      BY <3>1, <3>2 DEF Contract!Change, Contract!Without, Live
    <3>4. id \in DOMAIN held
      BY <3>1
    <3> QED BY <2>0, <2>a, <3>3, <3>4 DEF Contract!Next
  <2>5. ASSUME UNCHANGED vars
        PROVE  UNCHANGED Contract!vars
    BY <2>5 DEF vars, Contract!vars, Live
  <2> QED BY <2>1, <2>2, <2>3, <2>4, <2>5 DEF Next, UpdateEnded
<1> QED BY Invariance, <1>1, <1>2, PTL DEF Spec, ContractSpec, Contract!Spec

-----------------------------------------------------------------------------
(***************************************************************************)
(* The bytes.  The accounted bytes are the sum of what the sessions were   *)
(* charged with (module FoldProofs), and every operation but the change of  *)
(* a content, which a new measure follows at once, leaves each charged     *)
(* with what it holds.  That is what makes the walk of evict() end within  *)
(* the budget, and what shows that it did not go further than it had to.   *)
(***************************************************************************)

\* The sizes the sessions of a store value are charged with.
Sizes(st) == [id \in DOMAIN st.sessions |-> st.sessions[id].size]

\* What is accounted is what the sessions are charged with ...
Charged(st) == st.used = Total(Sizes(st), DOMAIN st.sessions)

\* ... and each is charged with what it holds.
Measured(st) ==
  \A id \in DOMAIN st.sessions : st.sessions[id].size = Measure[st.sessions[id].content]

\* The list holds every session, so there are finitely many, each with a natural size.
LEMMA StoreWeighs ==
  ASSUME NEW st, Sound(st), NEW ids \in SUBSET DOMAIN st.sessions
  PROVE  /\ IsFiniteSet(ids)
         /\ Weighs(Sizes(st), ids)
         /\ Total(Sizes(st), ids) \in Nat
<1>0. st.recency \in Seq(SessionId) /\ Len(st.recency) \in Nat
  BY DEF Sound, TypedStore
<1>1. IsFiniteSet(DOMAIN st.sessions)
  <2> DEFINE I == 1 .. Len(st.recency)
             f == [i \in I |-> st.recency[i]]
  <2>1. f \in Surjection(I, DOMAIN st.sessions)
    <3>1. f \in [I -> DOMAIN st.sessions]
      BY DEF Sound, Listed
    <3>2. \A id \in DOMAIN st.sessions : \E i \in I : f[i] = id
      BY DEF Sound, Listed
    <3> QED BY <3>1, <3>2 DEF Surjection
  <2>2. IsFiniteSet(I)
    BY <1>0, FS_Interval
  <2> QED BY <2>1, <2>2, FS_Surjection
<1>2. IsFiniteSet(ids)
  BY <1>1, FS_Subset
<1>3. Weighs(Sizes(st), ids)
  BY DEF Weighs, Sizes, Sound, TypedStore, Session
<1> QED BY <1>2, <1>3, TotalType

\* The fold the model sums sizes with computes their total.
LEMMA SizeOfTotal ==
  ASSUME NEW st, Sound(st), NEW ids \in SUBSET DOMAIN st.sessions
  PROVE  SizeOf(st, ids) = Total(Sizes(st), ids)
<1> DEFINE E(g) == g = [s \in SUBSET ids |->
                          IF s = {} THEN 0
                          ELSE st.sessions[CHOOSE x \in s : TRUE].size
                                 + g[s \ {CHOOSE x \in s : TRUE}]]
<1>1. SizeOf(st, ids) = (CHOOSE g : E(g))[ids]
  BY DEF SizeOf, MapThenSumSet, MapThenFoldSet
<1>2. \A g : E(g) <=> SumsUp(g, Sizes(st), ids)
  <2> SUFFICES ASSUME NEW g PROVE E(g) <=> SumsUp(g, Sizes(st), ids)
    OBVIOUS
  <2>1. ASSUME NEW s \in SUBSET ids, s # {}
        PROVE  st.sessions[CHOOSE x \in s : TRUE].size = Sizes(st)[Chosen(s)]
    <3>1. Chosen(s) \in DOMAIN st.sessions
      BY <2>1, ChosenIn
    <3> QED BY <3>1 DEF Sizes, Chosen
  <2> QED BY <2>1 DEF SumsUp, Chosen
<1>3. SumsUp([s \in SUBSET ids |-> Total(Sizes(st), s)], Sizes(st), ids)
  BY StoreWeighs, SumsUpExists
<1>4. SumsUp(CHOOSE g : E(g), Sizes(st), ids)
  <2> HIDE DEF E
  <2> QED BY <1>2, <1>3
<1> HIDE DEF E
<1> QED BY <1>1, <1>4, StoreWeighs, SumsUpTotal

\* remove gives back what the sessions it drops were charged with.
LEMMA WithoutCharged ==
  ASSUME NEW st, Sound(st), Charged(st), NEW ids \in SUBSET DOMAIN st.sessions, NEW list
  PROVE  /\ Charged(Without(st, ids, list))
         /\ st.used \in Nat /\ Without(st, ids, list).used \in Nat
         /\ Without(st, ids, list).used <= st.used
<1> DEFINE new  == Without(st, ids, list)
           live == DOMAIN st.sessions
<1>1. /\ IsFiniteSet(live) /\ Weighs(Sizes(st), live)
      /\ Total(Sizes(st), ids) \in Nat /\ Total(Sizes(st), live \ ids) \in Nat
      /\ IsFiniteSet(live \ ids)
  BY StoreWeighs
<1>2. Total(Sizes(st), live) = Total(Sizes(st), ids) + Total(Sizes(st), live \ ids)
  BY <1>1, TotalSplit
<1>3. new.used = st.used - Total(Sizes(st), ids)
  BY SizeOfTotal DEF Without
<1>4. st.used = Total(Sizes(st), live)
  BY DEF Charged
<1>5. new.used = Total(Sizes(st), live \ ids)
  BY <1>1, <1>2, <1>3, <1>4
<1>6. DOMAIN new.sessions = live \ ids /\ \A id \in live \ ids : Sizes(new)[id] = Sizes(st)[id]
  BY DEF Without, Sizes
<1>7. Total(Sizes(new), live \ ids) = Total(Sizes(st), live \ ids)
  BY <1>1, <1>6, TotalSame
<1> QED BY <1>1, <1>2, <1>4, <1>5, <1>6, <1>7 DEF Charged


LEMMA WithoutMeasured ==
  ASSUME NEW st, Measured(st), NEW ids, NEW list
  PROVE  Measured(Without(st, ids, list))
  BY DEF Measured, Without

\* The ids behind a position of the list are sessions.
LEMMA BehindLive ==
  ASSUME NEW st, Sound(st), NEW k \in 0 .. Len(st.recency)
  PROVE  Behind(st, k) \in SUBSET DOMAIN st.sessions
<1>1. Len(st.recency) \in Nat
  BY DEF Sound, TypedStore
<1> QED BY <1>1 DEF Behind, Sound, Listed

\* touch changes no size.
LEMMA TouchedCharged ==
  ASSUME NEW st, Sound(st), Charged(st), NEW id \in DOMAIN st.sessions
  PROVE  /\ Charged(Touched(st, id))
         /\ Measured(st) => Measured(Touched(st, id))
         /\ Touched(st, id).used = st.used
<1> DEFINE new == Touched(st, id)
<1>1. /\ new.sessions = [st.sessions EXCEPT ![id].lastUsed = now]
      /\ new.used = st.used
  BY DEF Touched
<1> HIDE DEF new
<1>2. /\ DOMAIN new.sessions = DOMAIN st.sessions
      /\ \A i \in DOMAIN st.sessions : /\ new.sessions[i].size = st.sessions[i].size
                                       /\ new.sessions[i].content = st.sessions[i].content
  BY <1>1 DEF Sound, TypedStore, Session
<1>3. Total(Sizes(new), DOMAIN st.sessions) = Total(Sizes(st), DOMAIN st.sessions)
  <2>1. \A i \in DOMAIN st.sessions : Sizes(new)[i] = Sizes(st)[i]
    BY <1>2 DEF Sizes
  <2> QED BY <2>1, StoreWeighs, TotalSame
<1> QED BY <1>1, <1>2, <1>3 DEF Charged, Measured, new

\* A new session adds the size of its content.
LEMMA AddedCharged ==
  ASSUME NEW st, Sound(st), Charged(st), Measured(st), now \in Nat,
         NEW id \in SessionId, id \notin DOMAIN st.sessions
  PROVE  Charged(Added(st, id)) /\ Measured(Added(st, id))
<1> DEFINE new  == Added(st, id)
           live == DOMAIN st.sessions
<1>1. /\ Sound(new)
      /\ DOMAIN new.sessions = live \cup {id}
      /\ \A i \in live : new.sessions[i] = st.sessions[i]
  BY AddedSound
<1>2. /\ new.sessions[id].size = Measure[NewContent]
      /\ new.sessions[id].content = NewContent
      /\ new.used = st.used + Measure[NewContent]
  BY DEF Added
<1> HIDE DEF new
<1>3. Measured(new)
  BY <1>1, <1>2 DEF Measured
<1>4. Total(Sizes(new), live \cup {id}) = Sizes(new)[id] + Total(Sizes(new), live)
  <2>1. IsFiniteSet(live) /\ Weighs(Sizes(new), live \cup {id})
    BY <1>1, StoreWeighs
  <2> QED BY <2>1, TotalAdd
<1>5. Sizes(new)[id] = Measure[NewContent]
  BY <1>1, <1>2 DEF Sizes
<1>6. Total(Sizes(new), live) = Total(Sizes(st), live)
  <2>1. \A i \in live : Sizes(new)[i] = Sizes(st)[i]
    BY <1>1 DEF Sizes
  <2> QED BY <2>1, StoreWeighs, TotalSame
<1>7. Measure[NewContent] \in Nat /\ Total(Sizes(st), live) \in Nat
  BY StoreWeighs, ContentAssumption
<1> QED BY <1>1, <1>2, <1>3, <1>4, <1>5, <1>6, <1>7 DEF Charged, new

\* A change of content alone leaves the charges as they were.
LEMMA ChangedCharged ==
  ASSUME NEW st, Sound(st), Charged(st), Measured(st),
         NEW id \in DOMAIN st.sessions, NEW content \in Content
  PROVE  /\ Charged(Changed(st, id, content))
         /\ \A i \in DOMAIN st.sessions \ {id} :
              Changed(st, id, content).sessions[i].size
                = Measure[Changed(st, id, content).sessions[i].content]
<1> DEFINE new == Changed(st, id, content)
<1>1. /\ new.sessions = [st.sessions EXCEPT ![id].content = content]
      /\ new.used = st.used
  BY DEF Changed
<1> HIDE DEF new
<1>2. /\ DOMAIN new.sessions = DOMAIN st.sessions
      /\ \A i \in DOMAIN st.sessions : new.sessions[i].size = st.sessions[i].size
      /\ \A i \in DOMAIN st.sessions \ {id} : new.sessions[i] = st.sessions[i]
  BY <1>1 DEF Sound, TypedStore, Session
<1>3. Total(Sizes(new), DOMAIN st.sessions) = Total(Sizes(st), DOMAIN st.sessions)
  <2>1. \A i \in DOMAIN st.sessions : Sizes(new)[i] = Sizes(st)[i]
    BY <1>2 DEF Sizes
  <2> QED BY <2>1, StoreWeighs, TotalSame
<1> QED BY <1>1, <1>2, <1>3 DEF Charged, Measured, new

\* Measuring a session again charges it for what it now holds, whatever it was charged before.
LEMMA RemeasuredCharged ==
  ASSUME NEW st, Sound(st), Charged(st), NEW id \in DOMAIN st.sessions,
         \A i \in DOMAIN st.sessions \ {id} :
           st.sessions[i].size = Measure[st.sessions[i].content]
  PROVE  Charged(Remeasured(st, id)) /\ Measured(Remeasured(st, id))
<1> DEFINE new  == Remeasured(st, id)
           size == Measure[st.sessions[id].content]
           live == DOMAIN st.sessions
           rest == live \ {id}
<1>1. /\ new.sessions = [st.sessions EXCEPT ![id].size = size]
      /\ new.used = st.used - st.sessions[id].size + size
  BY DEF Remeasured
<1>2. Sound(new) /\ DOMAIN new.sessions = live
  BY RemeasuredSound
<1> HIDE DEF new
<1>3. /\ new.sessions[id].size = size /\ new.sessions[id].content = st.sessions[id].content
      /\ \A i \in rest : new.sessions[i] = st.sessions[i]
  BY <1>1 DEF Sound, TypedStore, Session
<1>4. Measured(new)
  BY <1>2, <1>3 DEF Measured
<1>5. /\ Total(Sizes(st), live) = Sizes(st)[id] + Total(Sizes(st), rest)
      /\ Total(Sizes(new), live) = Sizes(new)[id] + Total(Sizes(new), rest)
  <2>1. IsFiniteSet(live) /\ Weighs(Sizes(st), live) /\ Weighs(Sizes(new), live)
    BY <1>2, StoreWeighs
  <2> QED BY <2>1, TotalRemove
<1>6. Total(Sizes(new), rest) = Total(Sizes(st), rest)
  <2>1. \A i \in rest : Sizes(new)[i] = Sizes(st)[i]
    BY <1>2, <1>3 DEF Sizes
  <2>2. IsFiniteSet(rest)
    BY StoreWeighs
  <2> QED BY <2>1, <2>2, TotalSame
<1>7. Sizes(st)[id] = st.sessions[id].size /\ Sizes(new)[id] = size
  BY <1>2, <1>3 DEF Sizes
<1>8. st.sessions[id].size \in Nat /\ size \in Nat /\ Total(Sizes(st), rest) \in Nat
  <2>1. st.sessions[id] \in Session
    BY DEF Sound, TypedStore
  <2>2. rest \in SUBSET live
    OBVIOUS
  <2> QED BY <2>1, <2>2, StoreWeighs, ContentAssumption DEF Session
<1>9. new.used = Total(Sizes(new), live)
  <2> HIDE DEF size, rest
  <2> QED BY <1>1, <1>5, <1>6, <1>7, <1>8 DEF Charged
<1> QED BY <1>2, <1>4, <1>9 DEF Charged, new


\* evict() stops where the budget is met, or where only the current session is left.
LEMMA EvictedWithinBudget ==
  ASSUME NEW st, Sound(st), Charged(st), NEW current \in DOMAIN st.sessions,
         NEW j \in 0 .. Len(st.recency), EvictStopsAt(st, j, current)
  PROVE  \/ Evicted(st, j, current).used <= Budget
         \/ DOMAIN Evicted(st, j, current).sessions = {current}
<1> DEFINE new == Evicted(st, j, current)
<1>1. /\ new.used = UsedDownTo(st, j, current)
      /\ DOMAIN new.sessions = DOMAIN st.sessions \ (Behind(st, j) \ {current})
  BY DEF Evicted, Without, UsedDownTo
<1>2. CASE j > 0
  BY <1>1, <1>2 DEF EvictStopsAt
<1>3. CASE ~ (j > 0)
  <2>1. j = 0
    BY <1>3
  <2>2. Behind(st, j) = DOMAIN st.sessions
    BY SMTT(30), <2>1 DEF Behind, Sound, Listed
  <2> QED BY <1>1, <2>2
<1> QED BY <1>2, <1>3

\* evict() leaves every session charged for what it holds, within the budget if it can.
LEMMA EvictIntoBudget ==
  ASSUME NEW st, Sound(st), Charged(st), Measured(st), now \in Nat,
         NEW current \in DOMAIN st.sessions, Idle(st, current) < TTL, EvictInto(st, current)
  PROVE  /\ Charged(Store)' /\ Measured(Store)'
         /\ used' <= Budget \/ DOMAIN sessions' = {current}
<1>1. PICK k \in 0 .. Len(st.recency) :
        /\ ExpireStopsAt(st, k)
        /\ \E j \in 0 .. Len(Expired(st, k).recency) :
             /\ EvictStopsAt(Expired(st, k), j, current)
             /\ Become(Evicted(Expired(st, k), j, current))
  BY DEF EvictInto
<1> DEFINE fresh == Expired(st, k)
<1>2. PICK j \in 0 .. Len(fresh.recency) :
        EvictStopsAt(fresh, j, current) /\ Become(Evicted(fresh, j, current))
  BY <1>1
<1> DEFINE new == Evicted(fresh, j, current)
<1>3. Sound(fresh) /\ Charged(fresh) /\ Measured(fresh)
  BY ExpiredSound, BehindLive, WithoutCharged, WithoutMeasured DEF Expired
<1>4. current \in DOMAIN fresh.sessions
  <2>1. current \notin Behind(st, k)
    BY <1>1, StaysFresh
  <2> QED BY <2>1 DEF Expired, Without
<1> HIDE DEF fresh
<1>5. Charged(new) /\ Measured(new)
  <2>1. Behind(fresh, j) \ {current} \in SUBSET DOMAIN fresh.sessions
    BY <1>2, <1>3, BehindLive
  <2> QED BY <1>3, <2>1, WithoutCharged, WithoutMeasured DEF Evicted
<1>6. new.used <= Budget \/ DOMAIN new.sessions = {current}
  BY <1>2, <1>3, <1>4, EvictedWithinBudget
<1> HIDE DEF new
<1>7. sessions' = new.sessions /\ used' = new.used
  BY <1>2 DEF Become, new
<1> QED BY <1>5, <1>6, <1>7 DEF Charged, Measured, Sizes, Store


\* Position a of the list of st lost a session that was not idle.
Dropped(st, a) ==
  /\ st.recency[a] \notin DOMAIN sessions'
  /\ Idle(st, st.recency[a]) < TTL

\* The eviction from st, on behalf of the session at its front, was for space and oldest first.
OldestForSpace(st) ==
  \A a \in 1 .. Len(st.recency) : Dropped(st, a) =>
    /\ \A b \in a .. Len(st.recency) :
         st.recency[b] \in DOMAIN sessions' => st.recency[b] = st.recency[1]
    /\ (\A b \in 1 .. Len(st.recency) : Dropped(st, b) => a <= b) =>
         used' + st.sessions[st.recency[a]].size > Budget

LEMMA EvictIntoOldest ==
  ASSUME NEW st, Sound(st), Charged(st), now \in Nat, st.recency # <<>>,
         Idle(st, st.recency[1]) < TTL, EvictInto(st, st.recency[1])
  PROVE  OldestForSpace(st) /\ recency'[1] = st.recency[1]
<1> DEFINE current == st.recency[1]
           n == Len(st.recency)
<1>0. st.recency \in Seq(SessionId) /\ n \in Nat /\ n > 0
  BY DEF Sound, TypedStore
<1>1. PICK k \in 0 .. n :
        /\ ExpireStopsAt(st, k)
        /\ \E j \in 0 .. Len(Expired(st, k).recency) :
             /\ EvictStopsAt(Expired(st, k), j, current)
             /\ Become(Evicted(Expired(st, k), j, current))
  BY DEF EvictInto
<1> DEFINE fresh == Expired(st, k)
<1>2. PICK j \in 0 .. Len(fresh.recency) :
        EvictStopsAt(fresh, j, current) /\ Become(Evicted(fresh, j, current))
  BY <1>1
<1> DEFINE new == Evicted(fresh, j, current)
           gone == Behind(fresh, j) \ {current}
<1>3. /\ Sound(fresh) /\ Charged(fresh) /\ Shrinks(st, fresh) /\ AllFresh(fresh)
  BY <1>1, ExpiredSound, ExpiredFresh, BehindLive, WithoutCharged DEF Expired
<1>4. k > 0
  <2>1. current \in DOMAIN st.sessions
    BY <1>0 DEF Sound, Listed
  <2>2. current \notin Behind(st, k)
    BY <1>1, <2>1, StaysFresh
  <2> QED BY <1>0, <2>2 DEF Behind
<1>5. /\ fresh.recency \in Seq(SessionId) /\ Len(fresh.recency) = k
      /\ \A i \in 1 .. k : fresh.recency[i] = st.recency[i]
      /\ DOMAIN fresh.sessions = DOMAIN st.sessions \ Behind(st, k)
  BY <1>0 DEF Expired, Without
<1>6. fresh.recency[1] = current
  BY <1>0, <1>4, <1>5
<1>7. /\ DOMAIN new.sessions = DOMAIN fresh.sessions \ gone
      /\ new.used = fresh.used - SizeOf(fresh, gone)
      /\ new.recency = SubSeq(fresh.recency, 1, j) \o
                         IF current \in Behind(fresh, j) THEN <<current>> ELSE <<>>
  BY DEF Evicted, Without
<1>8. recency' = new.recency /\ DOMAIN sessions' = DOMAIN new.sessions /\ used' = new.used
  BY <1>2 DEF Become
<1> HIDE DEF fresh, new
<1>9. recency'[1] = current
  <2>1. CASE j = 0
    <3>1. current \in Behind(fresh, j)
      BY <1>0, <1>4, <1>5, <1>6, <2>1 DEF Behind
    <3>2. SubSeq(fresh.recency, 1, j) = <<>>
      BY <1>5, <2>1
    <3>3. recency' = <<>> \o <<current>>
      BY <1>7, <1>8, <3>1, <3>2
    <3>4. current \in SessionId
      BY <1>0
    <3> HIDE DEF current
    <3> QED BY <3>3, <3>4
  <2>2. CASE j > 0
    <3>1. /\ SubSeq(fresh.recency, 1, j) \in Seq(SessionId)
          /\ Len(SubSeq(fresh.recency, 1, j)) = j
          /\ SubSeq(fresh.recency, 1, j)[1] = current
      BY <1>2, <1>5, <1>6, <2>2
    <3>2. current \in SessionId
      BY <1>0
    <3> QED BY <1>7, <1>8, <2>2, <3>1, <3>2
  <2> QED BY <2>1, <2>2
<1>10. \A i \in 1 .. n : st.recency[i] \in DOMAIN fresh.sessions <=> i <= k
  <2> SUFFICES ASSUME NEW i \in 1 .. n
               PROVE  st.recency[i] \in DOMAIN fresh.sessions <=> i <= k
    OBVIOUS
  <2>1. CASE i <= k
    <3>1. i \in 1 .. k
      BY <1>0, <2>1
    <3> QED BY <1>5, <3>1, Cut, <2>1 DEF Sound
  <2>2. CASE ~ (i <= k)
    <3>1. i \in (k + 1) .. n
      BY <1>0, <2>2
    <3> QED BY <1>5, <3>1, <2>2 DEF Behind
  <2> QED BY <2>1, <2>2
<1>11. \A i \in 1 .. k : st.recency[i] \in gone <=> i > j /\ st.recency[i] # current
  <2> SUFFICES ASSUME NEW i \in 1 .. k
               PROVE  st.recency[i] \in Behind(fresh, j) <=> i > j
    OBVIOUS
  <2>1. j \in 0 .. k
    BY <1>2, <1>5
  <2>2. ASSUME NEW b \in (j + 1) .. k, fresh.recency[b] = st.recency[i]
        PROVE  b = i
    <3>1. b \in 1 .. k /\ fresh.recency[i] = st.recency[i]
      BY <1>5, <2>1
    <3> QED BY <1>3, <1>5, <2>2, <3>1 DEF Sound, Listed
  <2>3. i > j => i \in (j + 1) .. k
    BY <2>1
  <2>4. \A b \in (j + 1) .. k : b > j
    BY <2>1
  <2> QED BY <1>5, <2>2, <2>3, <2>4 DEF Behind
<1>12. \A i \in 1 .. n : Dropped(st, i) <=> i <= k /\ i > j /\ st.recency[i] # current
  <2> SUFFICES ASSUME NEW i \in 1 .. n
               PROVE  Dropped(st, i) <=> i <= k /\ i > j /\ st.recency[i] # current
    OBVIOUS
  <2>1. CASE i <= k
    <3>1. i \in 1 .. k /\ st.recency[i] \in DOMAIN fresh.sessions
      BY <1>0, <1>10, <2>1
    <3>2. Idle(st, st.recency[i]) < TTL
      BY <1>3, <3>1 DEF AllFresh, Shrinks, Idle
    <3>3. st.recency[i] \in DOMAIN sessions' <=> ~ (i > j /\ st.recency[i] # current)
      BY <1>7, <1>8, <1>11, <3>1
    <3> QED BY <2>1, <3>2, <3>3 DEF Dropped
  <2>2. CASE ~ (i <= k)
    <3>1. i \in (k + 1) .. n
      BY <1>0, <2>2
    <3>2. Idle(st, st.recency[i]) >= TTL
      BY <1>1, <3>1 DEF ExpireStopsAt
    <3>3. Idle(st, st.recency[i]) \in Int /\ TTL \in Int
      <4>1. st.sessions[st.recency[i]] \in Session
        BY DEF Sound, Listed, TypedStore
      <4> QED BY <4>1, LimitAssumption DEF Idle, Session
    <3>4. ~ (Idle(st, st.recency[i]) < TTL)
      BY <3>2, <3>3
    <3> QED BY <2>2, <3>4 DEF Dropped
  <2> QED BY <2>1, <2>2
<1> SUFFICES ASSUME NEW a \in 1 .. n, Dropped(st, a)
             PROVE  /\ \A b \in a .. n :
                         st.recency[b] \in DOMAIN sessions' => st.recency[b] = current
                    /\ (\A b \in 1 .. n : Dropped(st, b) => a <= b) =>
                         used' + st.sessions[st.recency[a]].size > Budget
  BY <1>9 DEF OldestForSpace
<1>13. a \in 1 .. k /\ a > j /\ st.recency[a] # current /\ j \in Nat
  BY <1>0, <1>2, <1>5, <1>12
<1>14. ASSUME NEW b \in a .. n, st.recency[b] \in DOMAIN sessions'
       PROVE  st.recency[b] = current
  <2>1. b \in 1 .. n /\ b > j
    BY <1>0, <1>13
  <2>2. st.recency[b] \in DOMAIN fresh.sessions
    BY <1>7, <1>8, <1>14
  <2>3. b <= k /\ b \in 1 .. k
    BY <1>0, <1>10, <2>1, <2>2
  <2> QED BY <1>7, <1>8, <1>11, <1>14, <2>1, <2>3
<1>15. ASSUME \A b \in 1 .. n : Dropped(st, b) => a <= b
       PROVE  used' + st.sessions[st.recency[a]].size > Budget
  <2> DEFINE x == st.recency[a]
             rest == Behind(fresh, a) \ {current}
  <2>1. UsedDownTo(fresh, a, current) > Budget
    <3>1. a \in (j + 1) .. Len(fresh.recency)
      BY <1>5, <1>13
    <3> QED BY <1>2, <3>1 DEF EvictStopsAt
  <2>2. gone \in SUBSET DOMAIN fresh.sessions /\ rest \in SUBSET DOMAIN fresh.sessions
    <3>1. a \in 0 .. Len(fresh.recency)
      BY <1>5, <1>13
    <3> QED BY <1>2, <1>3, <3>1, BehindLive
  <2>3. x \in gone /\ x \notin rest
    <3>1. \A i \in (a + 1) .. k : i \in 1 .. k /\ i # a
      BY <1>13
    <3>2. x \notin Behind(fresh, a)
      BY <1>3, <1>5, <1>13, <3>1 DEF Behind, Sound, Listed
    <3> QED BY <1>11, <1>13, <3>2
  <2>4. gone = rest \cup {x}
    <3>1. ASSUME NEW y \in gone, y # x
          PROVE  y \in rest
      <4>1. PICK i \in (j + 1) .. k : fresh.recency[i] = y
        BY <1>5, <3>1 DEF Behind
      <4>2. i \in 1 .. k /\ i \in 1 .. n /\ i > j /\ i <= k /\ st.recency[i] = y
        BY <1>0, <1>5, <1>13, <4>1
      <4>3. a <= i /\ i # a
        BY <1>12, <1>15, <3>1, <4>2
      <4>4. i \in (a + 1) .. Len(fresh.recency)
        BY <1>5, <1>13, <4>2, <4>3
      <4> QED BY <3>1, <4>1, <4>4 DEF Behind
    <3>2. \A i \in (a + 1) .. k : i \in (j + 1) .. k
      BY <1>13
    <3>3. rest \subseteq gone
      BY <1>5, <3>2 DEF Behind
    <3> QED BY <2>3, <3>1, <3>3
  <2>5. Total(Sizes(fresh), gone) = Sizes(fresh)[x] + Total(Sizes(fresh), rest)
    <3>1. IsFiniteSet(rest) /\ Weighs(Sizes(fresh), gone)
      BY <1>3, <2>2, StoreWeighs
    <3> HIDE DEF gone, rest, x
    <3> QED BY <2>3, <2>4, <3>1, TotalAdd
  <2>6. Sizes(fresh)[x] = st.sessions[x].size
    BY <1>3, <2>2, <2>3 DEF Sizes, Shrinks
  <2>7. /\ SizeOf(fresh, gone) = Total(Sizes(fresh), gone)
        /\ SizeOf(fresh, rest) = Total(Sizes(fresh), rest)
    BY <1>3, <2>2, SizeOfTotal
  <2>8. /\ Total(Sizes(fresh), rest) \in Nat /\ fresh.used \in Nat
        /\ Sizes(fresh)[x] \in Nat
    <3>1. Weighs(Sizes(fresh), gone) /\ Total(Sizes(fresh), rest) \in Nat
      BY <1>3, <2>2, StoreWeighs
    <3>2. fresh.used \in Nat
      BY <1>3, StoreWeighs DEF Charged
    <3> QED BY <2>3, <3>1, <3>2 DEF Weighs
  <2>9. used' = fresh.used - SizeOf(fresh, gone) /\ fresh.used - SizeOf(fresh, rest) > Budget
    BY <1>7, <1>8, <2>1 DEF UsedDownTo
  <2> HIDE DEF gone, rest, x
  <2>10. used' + Sizes(fresh)[x] > Budget
    BY <2>5, <2>7, <2>8, <2>9, LimitAssumption
  <2> QED BY <2>6, <2>10 DEF x
<1> QED BY <1>14, <1>15


\* pos tells where the sessions of the current list are in the list of st, whose front is the session
\* an operation is about: the others are in the same order, as old and as large as they were.
Carries(pos, st) ==
  LET kept == {i \in 1 .. Len(recency) :
                 recency[i] \in DOMAIN st.sessions /\ recency[i] # st.recency[1]}
  IN  /\ \A i \in kept :
           /\ pos[i] \in 1 .. Len(st.recency)
           /\ st.recency[pos[i]] = recency[i]
           /\ st.sessions[recency[i]].lastUsed = sessions[recency[i]].lastUsed
           /\ st.sessions[recency[i]].size = sessions[recency[i]].size
      /\ \A i, j \in kept : i <= j => pos[i] <= pos[j]
      /\ \A b \in 1 .. Len(st.recency) :
           st.recency[b] # st.recency[1] => \E i \in kept : pos[i] = b

\* The body of EvictsOldestForSpace.
OldestStep ==
  LET dropped == {i \in 1 .. Len(recency) :
                    /\ recency[i] \notin DOMAIN sessions'
                    /\ now - sessions[recency[i]].lastUsed < TTL}
  IN  \A i \in dropped :
        /\ \A j \in i .. Len(recency) :
             recency[j] \in DOMAIN sessions' => recency[j] = recency'[1]
        /\ (\A j \in dropped : i <= j) => used' + sessions[recency[i]].size > Budget

\* What an eviction did to the list it worked on, it did to the list the operation started from.
LEMMA OldestCarriesOver ==
  ASSUME Len(recency) \in Nat, NEW st, NEW pos, Carries(pos, st), OldestForSpace(st),
         recency'[1] = st.recency[1], st.recency[1] \in DOMAIN sessions',
         DOMAIN sessions' \subseteq DOMAIN st.sessions,
         \A i \in 1 .. Len(recency) :
           now - sessions[recency[i]].lastUsed < TTL => recency[i] \in DOMAIN st.sessions
  PROVE  OldestStep
<1> DEFINE n == Len(recency)
           front == st.recency[1]
           kept == {i \in 1 .. n : recency[i] \in DOMAIN st.sessions /\ recency[i] # front}
           dropped == {i \in 1 .. n : /\ recency[i] \notin DOMAIN sessions'
                                      /\ now - sessions[recency[i]].lastUsed < TTL}
<1>1. \A i \in kept : /\ pos[i] \in 1 .. Len(st.recency)
                      /\ st.recency[pos[i]] = recency[i]
                      /\ st.sessions[recency[i]].lastUsed = sessions[recency[i]].lastUsed
                      /\ st.sessions[recency[i]].size = sessions[recency[i]].size
  BY DEF Carries
<1>2. \A i, j \in kept : i <= j => pos[i] <= pos[j]
  BY DEF Carries
<1>3. \A b \in 1 .. Len(st.recency) : st.recency[b] # front => \E i \in kept : pos[i] = b
  BY DEF Carries
<1>4. \A i \in kept : i \in dropped <=> Dropped(st, pos[i])
  BY <1>1 DEF Dropped, Idle
<1>5. dropped \subseteq kept
  OBVIOUS
<1> SUFFICES ASSUME NEW i \in dropped
             PROVE  /\ \A j \in i .. n : recency[j] \in DOMAIN sessions' => recency[j] = front
                    /\ (\A j \in dropped : i <= j) => used' + sessions[recency[i]].size > Budget
  BY DEF OldestStep
<1>6. Dropped(st, pos[i]) /\ pos[i] \in 1 .. Len(st.recency)
  BY <1>1, <1>4, <1>5
<1>7. /\ \A b \in pos[i] .. Len(st.recency) :
           st.recency[b] \in DOMAIN sessions' => st.recency[b] = front
      /\ (\A b \in 1 .. Len(st.recency) : Dropped(st, b) => pos[i] <= b) =>
           used' + st.sessions[st.recency[pos[i]]].size > Budget
  BY <1>6 DEF OldestForSpace
<1>8. ASSUME NEW j \in i .. n, recency[j] \in DOMAIN sessions'
      PROVE  recency[j] = front
  <2> SUFFICES ASSUME recency[j] # front PROVE FALSE
    OBVIOUS
  <2>1. j \in 1 .. n /\ i <= j
    OBVIOUS
  <2>2. j \in kept
    BY <1>8, <2>1
  <2>3. pos[j] \in 1 .. Len(st.recency) /\ pos[i] <= pos[j] /\ st.recency[pos[j]] = recency[j]
    BY <1>1, <1>2, <1>5, <2>1, <2>2
  <2>4. pos[j] \in pos[i] .. Len(st.recency)
    BY <1>6, <2>3
  <2> QED BY <1>7, <1>8, <2>3, <2>4
<1>9. ASSUME \A j \in dropped : i <= j
      PROVE  used' + sessions[recency[i]].size > Budget
  <2>1. ASSUME NEW b \in 1 .. Len(st.recency), Dropped(st, b)
        PROVE  pos[i] <= b
    <3>1. st.recency[b] # front
      BY <2>1 DEF Dropped
    <3>2. PICK j \in kept : pos[j] = b
      BY <1>3, <3>1
    <3>3. j \in dropped
      BY <1>4, <2>1, <3>2
    <3> QED BY <1>2, <1>5, <1>9, <3>2, <3>3
  <2> QED BY <1>1, <1>5, <1>7, <2>1
<1> QED BY <1>8, <1>9


\* What the operations keep about the bytes.
InBudget == used <= Budget \/ \E id \in DOMAIN sessions : DOMAIN sessions = {id}

BudgetInv == IInv /\ Charged(Store) /\ Measured(Store) /\ InBudget

\* load() of a session that is held only drops idle ones.
LEMMA LoadHeldBudget ==
  ASSUME BudgetInv, NEW cookie, LoadHeld(cookie)
  PROVE  /\ Charged(Store)' /\ Measured(Store)' /\ InBudget'
         /\ OldestStep
<1>0. /\ Store.sessions = sessions /\ Store.recency = recency /\ Store.used = used
      /\ Sound(Store) /\ now \in Nat /\ Charged(Store) /\ Measured(Store)
  BY DEF BudgetInv, IInv, Store
<1> DEFINE swept(k) == Expired(Store, k)
<1>1. PICK k \in 0 .. Len(recency) :
        /\ ExpireStopsAt(Store, k)
        /\ cookie \in DOMAIN swept(k).sessions
        /\ Become(Touched(swept(k), cookie))
  BY DEF LoadHeld
<1> DEFINE st  == swept(k)
           new == Touched(st, cookie)
<1>2. /\ Sound(st) /\ Charged(st) /\ Measured(st)
      /\ st.used \in Nat /\ used \in Nat /\ st.used <= used
      /\ DOMAIN st.sessions = DOMAIN sessions \ Behind(Store, k)
  <2>1. Behind(Store, k) \in SUBSET DOMAIN Store.sessions
    BY <1>0, <1>1, BehindLive
  <2> QED BY <1>0, <1>1, <2>1, ExpiredSound, WithoutCharged, WithoutMeasured DEF Expired, Without
<1>3. cookie \in DOMAIN st.sessions /\ Become(new)
  BY <1>1
<1> HIDE DEF st, swept
<1>4. /\ Charged(new) /\ Measured(new) /\ new.used = st.used
      /\ DOMAIN new.sessions = DOMAIN st.sessions
  BY <1>0, <1>2, <1>3, TouchedCharged, TouchedSound
<1> HIDE DEF new
<1>5. sessions' = new.sessions /\ used' = new.used
  BY <1>3 DEF Become
<1>6. Charged(Store)' /\ Measured(Store)'
  BY <1>4, <1>5 DEF Charged, Measured, Sizes, Store
<1>7. InBudget'
  <2>1. CASE used <= Budget
    BY <1>2, <1>4, <1>5, <2>1, LimitAssumption DEF InBudget
  <2>2. CASE \E id \in DOMAIN sessions : DOMAIN sessions = {id}
    <3>1. DOMAIN sessions' = {cookie}
      BY <1>2, <1>3, <1>4, <1>5, <2>2
    <3> QED BY <3>1 DEF InBudget
  <2> QED BY <2>1, <2>2 DEF BudgetInv, InBudget
<1>8. ASSUME NEW i \in 1 .. Len(recency), now - sessions[recency[i]].lastUsed < TTL
      PROVE  recency[i] \in DOMAIN sessions'
  <2>1. recency[i] \in DOMAIN sessions
    BY <1>0 DEF Sound, Listed
  <2>2. recency[i] \notin Behind(Store, k)
    BY <1>0, <1>1, <1>8, <2>1, StaysFresh DEF Idle
  <2> QED BY <1>2, <1>4, <1>5, <2>1, <2>2
<1> QED BY <1>6, <1>7, <1>8 DEF OldestStep

\* load() of a new session charges it, and evicts the oldest ones for it.
LEMMA LoadNewBudget ==
  ASSUME BudgetInv, NEW cookie, NEW id \in SessionId, LoadNew(cookie, id)
  PROVE  /\ Charged(Store)' /\ Measured(Store)' /\ InBudget'
         /\ OldestStep
<1>0. /\ Store.sessions = sessions /\ Store.recency = recency /\ Store.used = used
      /\ Sound(Store) /\ now \in Nat /\ Charged(Store) /\ Measured(Store)
      /\ id \notin DOMAIN sessions /\ IInv
  BY DEF BudgetInv, IInv, Store, LoadNew
<1>n. recency \in Seq(SessionId) /\ Len(recency) \in Nat
  BY <1>0 DEF Sound, TypedStore
<1> DEFINE swept(k) == Expired(Store, k)
<1>1. PICK k \in 0 .. Len(recency) :
        /\ ExpireStopsAt(Store, k)
        /\ EvictInto(Added(swept(k), id), id)
  BY DEF LoadNew
<1> DEFINE st    == swept(k)
           added == Added(st, id)
<1>2. /\ Sound(st) /\ Charged(st) /\ Measured(st) /\ Shrinks(Store, st)
      /\ DOMAIN st.sessions = DOMAIN sessions \ Behind(Store, k)
      /\ st.recency = SubSeq(recency, 1, k)
  <2>1. Behind(Store, k) \in SUBSET DOMAIN Store.sessions
    BY <1>0, <1>1, BehindLive
  <2> QED BY <1>0, <1>1, <2>1, ExpiredSound, WithoutCharged, WithoutMeasured DEF Expired, Without
<1>3. EvictInto(added, id)
  BY <1>1
<1> HIDE DEF st, swept
<1>4. id \notin DOMAIN st.sessions
  BY <1>0, <1>2
<1>5. /\ Sound(added) /\ Charged(added) /\ Measured(added)
      /\ DOMAIN added.sessions = DOMAIN st.sessions \cup {id}
      /\ \A i \in DOMAIN st.sessions : added.sessions[i] = st.sessions[i]
  BY <1>0, <1>2, <1>4, AddedSound, AddedCharged
<1>6. Idle(added, id) < TTL
  <2>1. added.sessions[id].lastUsed = now
    BY DEF Added
  <2> QED BY <1>0, <2>1, LimitAssumption DEF Idle
<1>7. /\ Len(st.recency) = k /\ st.recency \in Seq(SessionId)
      /\ \A i \in 1 .. k : st.recency[i] = recency[i]
  BY <1>n, <1>2
<1>8. /\ added.recency \in Seq(SessionId) /\ Len(added.recency) = k + 1
      /\ added.recency[1] = id
      /\ \A i \in 2 .. (k + 1) : added.recency[i] = recency[i - 1]
  <2>1. added.recency = <<id>> \o st.recency
    BY DEF Added
  <2>2. \A i \in 2 .. (k + 1) : i - 1 \in 1 .. k
    OBVIOUS
  <2> QED BY <1>1, <1>7, <2>1, <2>2
<1> HIDE DEF added
<1>9. /\ Charged(Store)' /\ Measured(Store)'
      /\ used' <= Budget \/ DOMAIN sessions' = {id}
  BY <1>0, <1>3, <1>5, <1>6, EvictIntoBudget
<1>10. OldestForSpace(added) /\ recency'[1] = id
  <2>1. added.recency # <<>>
    BY <1>8
  <2> QED BY <1>0, <1>3, <1>5, <1>6, <1>8, <2>1, EvictIntoOldest
<1>11. id \in DOMAIN sessions' /\ DOMAIN sessions' \subseteq DOMAIN added.sessions
  <2>1. PICK new : Become(new) /\ Shrinks(added, new) /\ id \in DOMAIN new.sessions
    BY <1>0, <1>3, <1>5, <1>6, EvictIntoResult
  <2> QED BY <2>1 DEF Become, Shrinks
<1> DEFINE pos == [i \in 1 .. Len(recency) |-> i + 1]
<1>12. \A i \in 1 .. Len(recency) :
         /\ recency[i] \in DOMAIN sessions /\ recency[i] # id
         /\ recency[i] \in DOMAIN st.sessions <=> i <= k
  <2> SUFFICES ASSUME NEW i \in 1 .. Len(recency)
               PROVE  /\ recency[i] \in DOMAIN sessions
                      /\ recency[i] \in DOMAIN st.sessions <=> i <= k
    BY <1>0
  <2>1. recency[i] \in DOMAIN sessions
    BY <1>0 DEF Sound, Listed
  <2>2. CASE i <= k
    <3>1. i \in 1 .. k
      BY <1>1, <1>n, <2>2
    <3> QED BY <1>0, <1>1, <1>2, <2>1, <2>2, <3>1, Cut DEF Sound
  <2>3. CASE ~ (i <= k)
    <3>1. i \in (k + 1) .. Len(recency)
      BY <1>1, <1>n, <2>3
    <3> QED BY <1>0, <1>2, <2>1, <2>3, <3>1 DEF Behind
  <2> QED BY <2>2, <2>3
<1>13. Carries(pos, added)
  <2> DEFINE kept == {i \in 1 .. Len(recency) :
                        recency[i] \in DOMAIN added.sessions /\ recency[i] # id}
  <2>1. \A i \in 1 .. Len(recency) : i \in kept <=> i <= k
    BY <1>5, <1>12
  <2>2. ASSUME NEW i \in kept
        PROVE  /\ pos[i] \in 1 .. Len(added.recency)
               /\ added.recency[pos[i]] = recency[i]
               /\ added.sessions[recency[i]].lastUsed = sessions[recency[i]].lastUsed
               /\ added.sessions[recency[i]].size = sessions[recency[i]].size
    <3>1. i \in 1 .. k /\ i + 1 \in 2 .. (k + 1) /\ (i + 1) - 1 = i /\ pos[i] = i + 1
      BY <1>1, <1>n, <2>1
    <3>2. recency[i] \in DOMAIN st.sessions
      BY <1>12, <2>1
    <3>3. added.sessions[recency[i]] = sessions[recency[i]]
      BY <1>0, <1>2, <1>5, <3>2 DEF Shrinks
    <3> QED BY <1>8, <3>1, <3>3
  <2>3. \A i, j \in kept : i <= j => pos[i] <= pos[j]
    BY <1>n
  <2>4. ASSUME NEW b \in 1 .. Len(added.recency), added.recency[b] # id
        PROVE  \E i \in kept : pos[i] = b
    <3>1. b - 1 \in 1 .. k /\ b - 1 \in 1 .. Len(recency) /\ pos[b - 1] = b
      BY <1>1, <1>n, <1>8, <2>4
    <3> QED BY <1>1, <1>n, <2>1, <3>1
  <2> HIDE DEF pos
  <2> QED BY <1>8, <2>2, <2>3, <2>4 DEF Carries
<1>14. ASSUME NEW i \in 1 .. Len(recency), now - sessions[recency[i]].lastUsed < TTL
       PROVE  recency[i] \in DOMAIN added.sessions
  <2>1. recency[i] \notin Behind(Store, k)
    BY <1>0, <1>1, <1>12, <1>14, StaysFresh DEF Idle
  <2> QED BY <1>2, <1>5, <1>12, <2>1
<1>15. OldestStep
  <2> HIDE DEF pos
  <2> QED BY <1>n, <1>8, <1>10, <1>11, <1>13, <1>14, OldestCarriesOver
<1> QED BY <1>9, <1>11, <1>15 DEF InBudget


\* update() charges the session for what it now holds, and evicts the oldest others for it.
LEMMA UpdateBudget ==
  ASSUME BudgetInv, NEW id \in SessionId, NEW content \in Content, Update(id, content)
  PROVE  /\ Charged(Store)' /\ Measured(Store)' /\ InBudget'
         /\ OldestStep
<1>0. /\ Store.sessions = sessions /\ Store.recency = recency /\ Store.used = used
      /\ Sound(Store) /\ now \in Nat /\ Charged(Store) /\ Measured(Store)
      /\ id \in DOMAIN sessions
  BY DEF BudgetInv, IInv, Store, Update, Live
<1>n. recency \in Seq(SessionId) /\ Len(recency) \in Nat
  BY <1>0 DEF Sound, TypedStore
<1> DEFINE changed == Changed(Store, id, content)
           touched == Touched(changed, id)
           st      == Remeasured(touched, id)
<1>1. EvictInto(st, id)
  BY DEF Update
<1>2. /\ Sound(changed) /\ Charged(changed)
      /\ DOMAIN changed.sessions = DOMAIN sessions
      /\ \A i \in DOMAIN sessions \ {id} :
           /\ changed.sessions[i] = sessions[i]
           /\ changed.sessions[i].size = Measure[changed.sessions[i].content]
      /\ changed.recency = recency
  BY <1>0, ChangedSound, ChangedCharged DEF Changed
<1> HIDE DEF changed
<1>3. /\ Sound(touched) /\ Charged(touched)
      /\ DOMAIN touched.sessions = DOMAIN sessions
      /\ touched.sessions[id] = [changed.sessions[id] EXCEPT !.lastUsed = now]
      /\ \A i \in DOMAIN sessions \ {id} : touched.sessions[i] = changed.sessions[i]
      /\ touched.recency = MoveToFront(recency, id)
  BY <1>0, <1>2, TouchedSound, TouchedCharged DEF Touched
<1>4. touched.sessions[id].lastUsed = now
  <2>1. changed.sessions[id] \in Session
    BY <1>0, <1>2 DEF Sound, TypedStore
  <2> QED BY <1>3, <2>1 DEF Session
<1>5. touched.sessions[id] \in Session
  BY <1>0, <1>3 DEF Sound, TypedStore
<1> HIDE DEF touched
<1>6. /\ Sound(st) /\ Charged(st) /\ Measured(st)
      /\ DOMAIN st.sessions = DOMAIN sessions
  <2>1. \A i \in DOMAIN touched.sessions \ {id} :
          touched.sessions[i].size = Measure[touched.sessions[i].content]
    BY <1>2, <1>3
  <2>2. id \in DOMAIN touched.sessions
    BY <1>0, <1>3
  <2> QED BY <1>3, <2>1, <2>2, RemeasuredSound, RemeasuredCharged
<1>7. /\ st.sessions[id].lastUsed = now
      /\ \A i \in DOMAIN sessions \ {id} : st.sessions[i] = sessions[i]
      /\ st.recency = MoveToFront(recency, id)
  <2>1. /\ st.sessions = [touched.sessions EXCEPT
                            ![id].size = Measure[touched.sessions[id].content]]
        /\ st.recency = touched.recency
    BY DEF Remeasured
  <2>2. /\ st.sessions[id] =
             [touched.sessions[id] EXCEPT !.size = Measure[touched.sessions[id].content]]
        /\ \A i \in DOMAIN sessions \ {id} : st.sessions[i] = touched.sessions[i]
    BY <1>0, <1>3, <2>1 DEF Sound, TypedStore
  <2>3. st.sessions[id].lastUsed = now
    BY <1>4, <1>5, <2>2 DEF Session
  <2> QED BY <1>2, <1>3, <2>1, <2>2, <2>3
<1> HIDE DEF st
<1>8. Idle(st, id) < TTL
  BY <1>0, <1>7, LimitAssumption DEF Idle
<1>9. /\ Charged(Store)' /\ Measured(Store)'
      /\ used' <= Budget \/ DOMAIN sessions' = {id}
  BY <1>0, <1>1, <1>6, <1>8, EvictIntoBudget
<1>10. PICK p \in 1 .. Len(recency) : recency[p] = id
  BY <1>0 DEF Sound, Listed
<1>11. \A i, j \in 1 .. Len(recency) : recency[i] = recency[j] => i = j
  BY <1>0, Zenon DEF Sound, Listed
<1>12. /\ st.recency \in Seq(SessionId) /\ Len(st.recency) = Len(recency)
       /\ st.recency[1] = id
       /\ \A i \in 2 .. Len(recency) :
            st.recency[i] = IF i <= p THEN recency[i - 1] ELSE recency[i]
  BY <1>n, <1>7, <1>10, <1>11, MoveToFrontPermutes
<1>13. OldestForSpace(st) /\ recency'[1] = id
  <2>1. st.recency # <<>>
    BY <1>n, <1>10, <1>12
  <2> QED BY <1>0, <1>1, <1>6, <1>8, <1>12, <2>1, EvictIntoOldest
<1>14. id \in DOMAIN sessions' /\ DOMAIN sessions' \subseteq DOMAIN st.sessions
  <2>1. PICK new : Become(new) /\ Shrinks(st, new) /\ id \in DOMAIN new.sessions
    BY <1>0, <1>1, <1>6, <1>8, EvictIntoResult
  <2> QED BY <2>1 DEF Become, Shrinks
<1> DEFINE pos == [i \in 1 .. Len(recency) |-> IF i < p THEN i + 1 ELSE i]
<1>15. \A i \in 1 .. Len(recency) :
         recency[i] \in DOMAIN st.sessions /\ (recency[i] # id <=> i # p)
  <2>1. \A i \in 1 .. Len(recency) : recency[i] \in DOMAIN sessions
    BY <1>0 DEF Sound, Listed
  <2> QED BY <1>6, <1>10, <1>11, <2>1
<1>16. Carries(pos, st)
  <2> DEFINE kept == {i \in 1 .. Len(recency) :
                        recency[i] \in DOMAIN st.sessions /\ recency[i] # id}
  <2>1. \A i \in 1 .. Len(recency) : i \in kept <=> i # p
    BY <1>15
  <2>2. ASSUME NEW i \in kept
        PROVE  /\ pos[i] \in 1 .. Len(st.recency)
               /\ st.recency[pos[i]] = recency[i]
               /\ st.sessions[recency[i]].lastUsed = sessions[recency[i]].lastUsed
               /\ st.sessions[recency[i]].size = sessions[recency[i]].size
    <3>1. i \in 1 .. Len(recency) /\ i # p
      BY <2>1
    <3>2. st.sessions[recency[i]] = sessions[recency[i]]
      BY <1>6, <1>7, <1>15, <3>1
    <3>3. CASE i < p
      <4>1. pos[i] = i + 1 /\ i + 1 \in 2 .. Len(recency) /\ i + 1 <= p /\ (i + 1) - 1 = i
        BY <1>n, <3>1, <3>3
      <4> QED BY <1>12, <3>2, <4>1
    <3>4. CASE i > p
      <4>1. pos[i] = i /\ i \in 2 .. Len(recency) /\ ~ (i <= p)
        BY <1>n, <3>1, <3>4
      <4> QED BY <1>12, <3>2, <4>1
    <3> QED BY <1>n, <3>1, <3>3, <3>4
  <2>3. \A i, j \in kept : i <= j => pos[i] <= pos[j]
    BY <1>n, <2>1
  <2>4. ASSUME NEW b \in 1 .. Len(st.recency), st.recency[b] # id
        PROVE  \E i \in kept : pos[i] = b
    <3>1. b \in 2 .. Len(recency)
      BY <1>n, <1>12, <2>4
    <3>2. CASE b <= p
      <4>1. b - 1 \in 1 .. Len(recency) /\ b - 1 # p /\ pos[b - 1] = b
        BY <1>n, <3>1, <3>2
      <4> QED BY <2>1, <4>1
    <3>3. CASE ~ (b <= p)
      <4>1. b \in 1 .. Len(recency) /\ b # p /\ pos[b] = b
        BY <1>n, <3>1, <3>3
      <4> QED BY <2>1, <4>1
    <3> QED BY <3>2, <3>3
  <2> HIDE DEF pos
  <2> QED BY <1>12, <2>2, <2>3, <2>4 DEF Carries
<1>17. OldestStep
  <2> HIDE DEF pos
  <2> QED BY <1>n, <1>12, <1>13, <1>14, <1>15, <1>16, OldestCarriesOver
<1> QED BY <1>9, <1>14, <1>17 DEF InBudget

-----------------------------------------------------------------------------
LEMMA InitBudget == Init => BudgetInv
<1> SUFFICES ASSUME Init PROVE BudgetInv
  OBVIOUS
<1>1. IInv
  BY InitIInv
<1>2. /\ Store.sessions = sessions /\ Store.used = 0 /\ used = 0
      /\ DOMAIN sessions = {}
  BY DEF Init, Store
<1>3. Charged(Store)
  BY <1>2, TotalEmpty DEF Charged
<1> QED BY <1>1, <1>2, <1>3, LimitAssumption DEF BudgetInv, Measured, InBudget

\* The bytes are kept by every step, and whatever a step drops it drops oldest first, for space.
LEMMA StepBudget ==
  ASSUME BudgetInv, [Next]_vars
  PROVE  BudgetInv' /\ (UNCHANGED sessions \/ OldestStep)
<1>0. IInv' /\ IInv
  BY StepIInv DEF BudgetInv
<1>1. ASSUME UNCHANGED <<sessions, used>>
      PROVE  Charged(Store)' /\ Measured(Store)' /\ InBudget'
  BY <1>1 DEF BudgetInv, Charged, Measured, Sizes, InBudget, Store
<1>2. CASE Tick
  BY <1>0, <1>1, <1>2 DEF Tick, BudgetInv
<1>3. ASSUME NEW cookie \in issued, LoadHeld(cookie)
      PROVE  BudgetInv' /\ OldestStep
  BY <1>0, <1>3, LoadHeldBudget DEF BudgetInv
<1>4. ASSUME NEW cookie \in issued \cup {NoCookie}, NEW id \in SessionId, LoadNew(cookie, id)
      PROVE  BudgetInv' /\ OldestStep
  BY <1>0, <1>4, LoadNewBudget DEF BudgetInv
<1>5. ASSUME NEW id \in SessionId, NEW content \in Content, Update(id, content)
      PROVE  BudgetInv' /\ OldestStep
  BY <1>0, <1>5, UpdateBudget DEF BudgetInv
<1>6. CASE UNCHANGED vars
  BY <1>0, <1>1, <1>6 DEF vars, BudgetInv
<1> QED BY <1>2, <1>3, <1>4, <1>5, <1>6 DEF Next, UpdateEnded

THEOREM BudgetInvariance == Spec => []BudgetInv
<1>1. BudgetInv /\ [Next]_vars => BudgetInv'
  BY StepBudget
<1> QED BY InitBudget, <1>1, PTL DEF Spec

\* No operation forgets to charge, re-measure or refund a session: the accounted bytes are the sum,
\* over the live sessions, of the size of what they now hold.
THEOREM AccountingCorrect == Spec => []Accounting
<1>1. BudgetInv => Accounting
  <2> SUFFICES ASSUME BudgetInv PROVE Accounting
    OBVIOUS
  <2>1. /\ Store.sessions = sessions /\ Store.used = used
        /\ Sound(Store) /\ Charged(Store) /\ Measured(Store)
    BY DEF BudgetInv, IInv, Store
  <2> DEFINE w == [id \in Live |-> Measure[sessions[id].content]]
             E(g) == g = [s \in SUBSET Live |->
                            IF s = {} THEN 0
                            ELSE Measure[sessions[CHOOSE x \in s : TRUE].content]
                                   + g[s \ {CHOOSE x \in s : TRUE}]]
  <2>2. MapThenSumSet(LAMBDA id : Measure[sessions[id].content], Live) = (CHOOSE g : E(g))[Live]
    BY DEF MapThenSumSet, MapThenFoldSet
  <2>3. ASSUME NEW g PROVE E(g) <=> SumsUp(g, w, Live)
    <3>1. ASSUME NEW s \in SUBSET Live, s # {}
          PROVE  Measure[sessions[CHOOSE x \in s : TRUE].content] = w[Chosen(s)]
      <4>1. Chosen(s) \in Live
        BY <3>1, ChosenIn
      <4> QED BY <4>1 DEF Chosen
    <3> HIDE DEF w
    <3> QED BY <3>1 DEF SumsUp, Chosen
  <2>4. IsFiniteSet(Live)
    BY <2>1, StoreWeighs DEF Live
  <2> HIDE DEF E
  <2>5. SumsUp(CHOOSE g : E(g), w, Live)
    <3>1. SumsUp([s \in SUBSET Live |-> Total(w, s)], w, Live)
      BY <2>4, SumsUpExists
    <3> HIDE DEF w
    <3> QED BY <2>3, <3>1
  <2>6. MapThenSumSet(LAMBDA id : Measure[sessions[id].content], Live) = Total(w, Live)
    BY <2>2, <2>4, <2>5, SumsUpTotal
  <2>7. Total(w, Live) = Total(Sizes(Store), Live)
    <3>1. \A id \in Live : w[id] = Sizes(Store)[id]
      BY <2>1 DEF Live, Measured, Sizes
    <3> HIDE DEF w
    <3> QED BY <2>4, <3>1, TotalSame
  <2> QED BY <2>1, <2>6, <2>7 DEF Accounting, Charged, Measured, Live
<1> QED BY BudgetInvariance, <1>1, PTL

\* Memory exceeds the budget only when a single session is left, which is the one in use.
THEOREM BudgetCorrect == Spec => []WithinBudget
<1>1. BudgetInv => WithinBudget
  BY FS_Singleton DEF BudgetInv, InBudget, WithinBudget, Live
<1> QED BY BudgetInvariance, <1>1, PTL

\* A session that is not idle goes only when its bytes are needed, and never before an older one.
THEOREM EvictionCorrect == Spec => EvictsOldestForSpace
<1>1. BudgetInv /\ [Next]_vars => [OldestStep]_sessions
  BY StepBudget
<1> QED BY BudgetInvariance, <1>1, PTL DEF Spec, EvictsOldestForSpace, OldestStep

=============================================================================
