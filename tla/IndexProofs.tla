---------------------------- MODULE IndexProofs ----------------------------
(***************************************************************************)
(* The methods of Index keep its type and keep its three structures in     *)
(* step, for every set of keys and every set of entries.                   *)
(***************************************************************************)
EXTENDS Index, SequenceTheorems, TLAPS

Distinct(s) == \A i, j \in DOMAIN s : s[i] = s[j] => i = j

-----------------------------------------------------------------------------
(* Partial maps *)

LEMMA BindType ==
  ASSUME NEW K, NEW E, NEW m, IsPartialMap(m, K, E), NEW k \in K, NEW v \in E
  PROVE  IsPartialMap(Bind(m, k, v), K, E)
  BY DEF Bind, IsPartialMap

LEMMA UnbindValue ==
  ASSUME NEW m, NEW k
  PROVE  /\ DOMAIN Unbind(m, k) = DOMAIN m \ {k}
         /\ \A j \in DOMAIN m : j # k => Unbind(m, k)[j] = m[j]
  BY DEF Unbind, Restrict

LEMMA UnbindType ==
  ASSUME NEW K, NEW E, NEW m, IsPartialMap(m, K, E), NEW k
  PROVE  IsPartialMap(Unbind(m, k), K, E)
  BY DEF Unbind, Restrict, IsPartialMap

-----------------------------------------------------------------------------
(* The recency list *)

LEMMA RemoveAtProperties ==
  ASSUME NEW S, NEW s \in Seq(S), NEW i \in 1..Len(s)
  PROVE  /\ RemoveAt(s, i) \in Seq(S)
         /\ Len(RemoveAt(s, i)) = Len(s) - 1
         /\ \A j \in 1..(Len(s) - 1) :
              RemoveAt(s, i)[j] = IF j < i THEN s[j] ELSE s[j + 1]
  <1> DEFINE a == SubSeq(s, 1, i - 1)
             b == SubSeq(s, i + 1, Len(s))
  <1>1. Len(s) \in Nat
    BY LenProperties
  <1>2. a \in Seq(S) /\ Len(a) = i - 1 /\ \A j \in 1..(i - 1) : a[j] = s[j]
    BY <1>1, SubSeqProperties, LenProperties
  <1>3. /\ b \in Seq(S) /\ Len(b) = Len(s) - i
        /\ \A j \in 1..(Len(s) - i) : b[j] = s[i + j]
    BY <1>1, SubSeqProperties, LenProperties
  <1>4. RemoveAt(s, i) = a \o b
    BY DEF RemoveAt
  <1> HIDE DEF a, b
  <1>5. a \o b \in Seq(S) /\ Len(a \o b) = Len(s) - 1
    <2>1. a \o b \in Seq(S) /\ Len(a \o b) = Len(a) + Len(b)
      BY <1>2, <1>3, ConcatProperties
    <2> QED BY <1>1, <1>2, <1>3, <2>1
  <1>6. ASSUME NEW j \in 1..(Len(s) - 1)
        PROVE  (a \o b)[j] = IF j < i THEN s[j] ELSE s[j + 1]
    <2>1. (a \o b)[j] = IF j <= Len(a) THEN a[j] ELSE b[j - Len(a)]
      BY <1>1, <1>2, <1>3, ConcatProperties
    <2>2. CASE j < i
      BY <1>1, <1>2, <2>1, <2>2
    <2>3. CASE ~(j < i)
      BY <1>1, <1>2, <1>3, <2>1, <2>3
    <2> QED BY <2>2, <2>3
  <1> QED BY <1>4, <1>5, <1>6

\* Taking a key off a list without repetitions takes off that key only.
LEMMA UnlistProperties ==
  ASSUME NEW S, NEW s \in Seq(S), NEW k \in Range(s), Distinct(s)
  PROVE  /\ Unlist(s, k) \in Seq(S)
         /\ Range(Unlist(s, k)) = Range(s) \ {k}
         /\ Distinct(Unlist(s, k))
  <1>1. Len(s) \in Nat /\ DOMAIN s = 1..Len(s)
    BY LenProperties
  <1>2. PICK i \in 1..Len(s) : s[i] = k /\ Unlist(s, k) = RemoveAt(s, i)
    BY <1>1 DEF Range, Unlist, LruElem
  <1> DEFINE t == RemoveAt(s, i)
  <1>3. /\ t \in Seq(S) /\ Len(t) = Len(s) - 1
        /\ \A j \in 1..(Len(s) - 1) : t[j] = IF j < i THEN s[j] ELSE s[j + 1]
    BY RemoveAtProperties
  <1> HIDE DEF t
  <1>4. DOMAIN t = 1..(Len(s) - 1)
    BY <1>3, LenProperties
  <1>5. Range(t) = Range(s) \ {k}
    <2>1. ASSUME NEW x \in Range(t) PROVE x \in Range(s) \ {k}
      BY <1>1, <1>2, <1>3, <1>4 DEF Range, Distinct
    <2>2. ASSUME NEW x \in Range(s) \ {k} PROVE x \in Range(t)
      <3>1. PICK j \in 1..Len(s) : s[j] = x
        BY <1>1 DEF Range
      <3>2. j # i
        BY <1>2, <3>1
      <3>3. CASE j < i
        BY <1>1, <1>3, <1>4, <3>1, <3>3 DEF Range
      <3>4. CASE j > i
        <4>1. j - 1 \in 1..(Len(s) - 1) /\ t[j - 1] = s[j]
          BY <1>1, <1>3, <3>4
        <4> QED BY <1>4, <3>1, <4>1 DEF Range
      <3> QED BY <1>1, <3>2, <3>3, <3>4
    <2> QED BY <2>1, <2>2
  <1>6. Distinct(t)
    BY <1>1, <1>3, <1>4 DEF Distinct
  <1> QED BY <1>2, <1>3, <1>5, <1>6 DEF t

\* Appending a key a list does not hold.
LEMMA AppendDistinct ==
  ASSUME NEW S, NEW s \in Seq(S), NEW k \in S, k \notin Range(s), Distinct(s)
  PROVE  /\ Append(s, k) \in Seq(S)
         /\ Range(Append(s, k)) = Range(s) \cup {k}
         /\ Distinct(Append(s, k))
  <1>1. Len(s) \in Nat /\ DOMAIN s = 1..Len(s)
    BY LenProperties
  <1> DEFINE t == Append(s, k)
  <1>2. /\ t \in Seq(S) /\ DOMAIN t = 1..(Len(s) + 1)
        /\ t[Len(s) + 1] = k /\ \A j \in 1..Len(s) : t[j] = s[j]
    BY <1>1, AppendProperties, LenProperties
  <1> HIDE DEF t
  <1>3. Range(t) = Range(s) \cup {k}
    BY <1>1, <1>2 DEF Range
  <1>4. Distinct(t)
    BY <1>1, <1>2 DEF Range, Distinct
  <1> QED BY <1>2, <1>3, <1>4 DEF t

LEMMA MoveToBackProperties ==
  ASSUME NEW S, NEW s \in Seq(S), NEW k \in Range(s), Distinct(s)
  PROVE  /\ MoveToBack(s, k) \in Seq(S)
         /\ Range(MoveToBack(s, k)) = Range(s)
         /\ Distinct(MoveToBack(s, k))
  <1>1. /\ Unlist(s, k) \in Seq(S) /\ Range(Unlist(s, k)) = Range(s) \ {k}
        /\ Distinct(Unlist(s, k))
    BY UnlistProperties
  <1>2. k \in S
    BY LenProperties DEF Range
  <1>3. /\ Append(Unlist(s, k), k) \in Seq(S)
        /\ Range(Append(Unlist(s, k), k)) = (Range(s) \ {k}) \cup {k}
        /\ Distinct(Append(Unlist(s, k), k))
    BY <1>1, <1>2, AppendDistinct
  <1> QED BY <1>3 DEF MoveToBack

-----------------------------------------------------------------------------
(* The methods *)

\* What an index of keys K and entries E satisfies between two requests.
Sound(x, K, E) == IsIndex(x, K, E) /\ InStep(x)

LEMMA NewIndexSound ==
  ASSUME NEW K, NEW E
  PROVE  Sound(NewIndex, K, E)
  <1>1. IsPartialMap(EmptyMap, K, E) /\ IsPartialMap(EmptyMap, K, Nat)
    BY DEF EmptyMap, IsPartialMap
  <1>2. <<>> \in Seq(K) /\ DOMAIN <<>> = {} /\ Range(<<>>) = {}
    BY EmptySeq, LenProperties DEF Range
  <1>3. IsIndex(NewIndex, K, E)
    BY <1>1, <1>2 DEF NewIndex, IsIndex
  <1>4. HeapInStep(NewIndex) /\ LruInStep(NewIndex)
    BY <1>2 DEF NewIndex, HeapInStep, LruInStep, EmptyMap
  <1> QED BY <1>3, <1>4 DEF Sound, InStep

\* Setting an entry, new or not, expiring or not.
LEMMA SetEntrySound ==
  ASSUME NEW K, NEW E, NEW x, Sound(x, K, E), NEW k \in K, NEW e \in E,
         \A f \in E : f.hard \in Nat
  PROVE  /\ Sound(SetEntry(x, k, e), K, E)
         /\ SetEntry(x, k, e).data = Bind(x.data, k, e)
  <1> DEFINE y == SetEntry(x, k, e)
             lru == IF k \in DOMAIN x.data THEN MoveToBack(x.lru, k)
                                           ELSE Append(x.lru, k)
  <1>1. /\ IsPartialMap(x.data, K, E) /\ IsPartialMap(x.heap, K, Nat)
        /\ x.lru \in Seq(K) /\ Range(x.lru) = DOMAIN x.data /\ Distinct(x.lru)
        /\ x.heap = [j \in {i \in DOMAIN x.data : x.data[i].hard > 0} |-> x.data[j].hard]
    BY DEF Sound, IsIndex, InStep, HeapInStep, LruInStep, Distinct
  <1>2. /\ y = [data |-> y.data, heap |-> y.heap, lru |-> y.lru]
        /\ y.data = Bind(x.data, k, e)
        /\ y.heap = Schedule(x.heap, k, e.hard)
        /\ y.lru = lru
    BY DEF SetEntry
  <1>3. /\ IsPartialMap(y.data, K, E) /\ DOMAIN y.data = DOMAIN x.data \cup {k}
        /\ y.data[k] = e /\ \A j \in DOMAIN x.data : j # k => y.data[j] = x.data[j]
    <2>1. IsPartialMap(Bind(x.data, k, e), K, E)
      BY <1>1, BindType
    <2>2. LET m == Bind(x.data, k, e)
          IN /\ DOMAIN m = DOMAIN x.data \cup {k} /\ m[k] = e
             /\ \A j \in DOMAIN x.data : j # k => m[j] = x.data[j]
      BY DEF Bind
    <2> QED BY <1>2, <2>1, <2>2
  <1>4. lru \in Seq(K) /\ Range(lru) = DOMAIN x.data \cup {k} /\ Distinct(lru)
    <2>1. CASE k \in DOMAIN x.data
      <3>1. /\ MoveToBack(x.lru, k) \in Seq(K) /\ Distinct(MoveToBack(x.lru, k))
            /\ Range(MoveToBack(x.lru, k)) = Range(x.lru)
        BY <1>1, <2>1, MoveToBackProperties
      <3> QED BY <1>1, <2>1, <3>1
    <2>2. CASE k \notin DOMAIN x.data
      <3>1. /\ Append(x.lru, k) \in Seq(K) /\ Distinct(Append(x.lru, k))
            /\ Range(Append(x.lru, k)) = Range(x.lru) \cup {k}
        BY <1>1, <2>2, AppendDistinct
      <3> QED BY <1>1, <2>2, <3>1
    <2> QED BY <2>1, <2>2
  <1> HIDE DEF y, lru
  <1>5. IsPartialMap(y.heap, K, Nat) /\ HeapInStep(y)
    <2>1. CASE e.hard > 0
      <3>1. /\ y.heap = Bind(x.heap, k, e.hard) /\ IsPartialMap(y.heap, K, Nat)
            /\ DOMAIN y.heap = DOMAIN x.heap \cup {k} /\ y.heap[k] = e.hard
            /\ \A j \in DOMAIN x.heap : j # k => y.heap[j] = x.heap[j]
        <4>1. IsPartialMap(Bind(x.heap, k, e.hard), K, Nat)
          <5>1. e.hard \in Nat
            OBVIOUS
          <5> QED BY <1>1, <5>1, BindType
        <4>2. LET m == Bind(x.heap, k, e.hard)
              IN /\ DOMAIN m = DOMAIN x.heap \cup {k} /\ m[k] = e.hard
                 /\ \A j \in DOMAIN x.heap : j # k => m[j] = x.heap[j]
          BY DEF Bind
        <4>3. y.heap = Bind(x.heap, k, e.hard)
          BY <1>2, <2>1 DEF Schedule
        <4> QED BY <4>1, <4>2, <4>3
      <3>2. DOMAIN y.heap = {i \in DOMAIN y.data : y.data[i].hard > 0}
        BY <1>1, <1>3, <2>1, <3>1
      <3>3. \A j \in DOMAIN y.heap : y.heap[j] = y.data[j].hard
        BY <1>1, <1>3, <3>1
      <3> QED BY <3>1, <3>2, <3>3 DEF HeapInStep, IsPartialMap
    <2>2. CASE ~(e.hard > 0)
      <3>1. /\ y.heap = Unbind(x.heap, k) /\ IsPartialMap(y.heap, K, Nat)
            /\ DOMAIN y.heap = DOMAIN x.heap \ {k}
            /\ \A j \in DOMAIN x.heap : j # k => y.heap[j] = x.heap[j]
        <4>1. LET m == Unbind(x.heap, k)
              IN /\ IsPartialMap(m, K, Nat) /\ DOMAIN m = DOMAIN x.heap \ {k}
                 /\ \A j \in DOMAIN x.heap : j # k => m[j] = x.heap[j]
          BY <1>1, UnbindType, UnbindValue
        <4>2. y.heap = Unbind(x.heap, k)
          BY <1>2, <2>2 DEF Schedule
        <4> QED BY <4>1, <4>2
      <3>2. DOMAIN y.heap = {i \in DOMAIN y.data : y.data[i].hard > 0}
        BY <1>1, <1>3, <2>2, <3>1
      <3>3. \A j \in DOMAIN y.heap : y.heap[j] = y.data[j].hard
        BY <1>1, <1>3, <3>1
      <3> QED BY <3>1, <3>2, <3>3 DEF HeapInStep, IsPartialMap
    <2> QED BY <2>1, <2>2
  <1>6. LruInStep(y)
    BY <1>2, <1>3, <1>4 DEF LruInStep, Distinct
  <1> QED BY <1>2, <1>3, <1>4, <1>5, <1>6 DEF Sound, IsIndex, InStep, y

\* Deleting a key, present or not.
LEMMA DeleteKeySound ==
  ASSUME NEW K, NEW E, NEW x, Sound(x, K, E), NEW k
  PROVE  /\ Sound(DeleteKey(x, k), K, E)
         /\ DOMAIN DeleteKey(x, k).data = DOMAIN x.data \ {k}
         /\ \A j \in DOMAIN x.data : j # k => DeleteKey(x, k).data[j] = x.data[j]
  <1>1. CASE k \notin DOMAIN x.data
    BY <1>1 DEF DeleteKey
  <1>2. CASE k \in DOMAIN x.data
    <2> DEFINE y == DeleteKey(x, k)
    <2>1. /\ IsPartialMap(x.data, K, E) /\ IsPartialMap(x.heap, K, Nat)
          /\ x.lru \in Seq(K) /\ Range(x.lru) = DOMAIN x.data /\ Distinct(x.lru)
          /\ x.heap = [j \in {i \in DOMAIN x.data : x.data[i].hard > 0} |-> x.data[j].hard]
      BY DEF Sound, IsIndex, InStep, HeapInStep, LruInStep, Distinct
    <2>2. /\ y = [data |-> y.data, heap |-> y.heap, lru |-> y.lru]
          /\ y.data = Unbind(x.data, k)
          /\ y.heap = Unbind(x.heap, k)
          /\ y.lru = Unlist(x.lru, k)
      BY <1>2 DEF DeleteKey
    <2> HIDE DEF y
    <2>3. /\ IsPartialMap(y.data, K, E) /\ DOMAIN y.data = DOMAIN x.data \ {k}
          /\ \A j \in DOMAIN x.data : j # k => y.data[j] = x.data[j]
      <3>1. LET m == Unbind(x.data, k)
            IN /\ IsPartialMap(m, K, E) /\ DOMAIN m = DOMAIN x.data \ {k}
               /\ \A j \in DOMAIN x.data : j # k => m[j] = x.data[j]
        BY <2>1, UnbindType, UnbindValue
      <3> QED BY <2>2, <3>1
    <2>4. /\ IsPartialMap(y.heap, K, Nat) /\ DOMAIN y.heap = DOMAIN x.heap \ {k}
          /\ \A j \in DOMAIN x.heap : j # k => y.heap[j] = x.heap[j]
      <3>1. LET m == Unbind(x.heap, k)
            IN /\ IsPartialMap(m, K, Nat) /\ DOMAIN m = DOMAIN x.heap \ {k}
               /\ \A j \in DOMAIN x.heap : j # k => m[j] = x.heap[j]
        BY <2>1, UnbindType, UnbindValue
      <3> QED BY <2>2, <3>1
    <2>5. y.lru \in Seq(K) /\ Range(y.lru) = DOMAIN y.data /\ Distinct(y.lru)
      <3>1. /\ Unlist(x.lru, k) \in Seq(K) /\ Distinct(Unlist(x.lru, k))
            /\ Range(Unlist(x.lru, k)) = Range(x.lru) \ {k}
        BY <1>2, <2>1, UnlistProperties
      <3> QED BY <2>1, <2>2, <2>3, <3>1
    <2>6. HeapInStep(y)
      <3>1. DOMAIN y.heap = {i \in DOMAIN y.data : y.data[i].hard > 0}
        BY <2>1, <2>3, <2>4
      <3>2. \A j \in DOMAIN y.heap : y.heap[j] = y.data[j].hard
        BY <2>1, <2>3, <2>4
      <3> QED BY <2>4, <3>1, <3>2 DEF HeapInStep, IsPartialMap
    <2>7. LruInStep(y)
      BY <2>5 DEF LruInStep, Distinct
    <2> QED BY <2>2, <2>3, <2>4, <2>5, <2>6, <2>7 DEF Sound, IsIndex, InStep, y
  <1> QED BY <1>1, <1>2

\* Using a key.
LEMMA TouchKeySound ==
  ASSUME NEW K, NEW E, NEW x, Sound(x, K, E), NEW k
  PROVE  /\ Sound(TouchKey(x, k), K, E)
         /\ TouchKey(x, k).data = x.data
  <1>1. CASE k \notin DOMAIN x.data
    BY <1>1 DEF TouchKey
  <1>2. CASE k \in DOMAIN x.data
    <2>1. x = [data |-> x.data, heap |-> x.heap, lru |-> x.lru]
      BY DEF Sound, IsIndex
    <2>2. TouchKey(x, k) = [data |-> x.data, heap |-> x.heap, lru |-> MoveToBack(x.lru, k)]
      BY <1>2, <2>1 DEF TouchKey
    <2>3. x.lru \in Seq(K) /\ Range(x.lru) = DOMAIN x.data /\ Distinct(x.lru)
      BY DEF Sound, IsIndex, InStep, LruInStep, Distinct
    <2>4. /\ MoveToBack(x.lru, k) \in Seq(K) /\ Distinct(MoveToBack(x.lru, k))
          /\ Range(MoveToBack(x.lru, k)) = DOMAIN x.data
      BY <1>2, <2>3, MoveToBackProperties
    <2> QED BY <2>2, <2>4
            DEF Sound, IsIndex, InStep, HeapInStep, LruInStep, Distinct
  <1> QED BY <1>1, <1>2

\* Eviction and the expiry loop find an entry to delete.
LEMMA OldestPresent ==
  ASSUME NEW K, NEW E, NEW x, Sound(x, K, E), x.lru # <<>>
  PROVE  GetOldest(x) \in DOMAIN x.data
  <1>1. x.lru \in Seq(K) /\ Range(x.lru) = DOMAIN x.data
    BY DEF Sound, IsIndex, InStep, LruInStep
  <1>2. Len(x.lru) \in Nat /\ Len(x.lru) # 0 /\ DOMAIN x.lru = 1..Len(x.lru)
    BY <1>1, EmptySeq, LenProperties
  <1>3. Head(x.lru) = x.lru[1] /\ 1 \in DOMAIN x.lru
    BY <1>1, <1>2, HeadTailProperties
  <1> QED BY <1>1, <1>3 DEF GetOldest, Range
-----------------------------------------------------------------------------
(* The order of the list *)

\* The list holds a, and b further back.
Before(s, a, b) == \E i, j \in DOMAIN s : i < j /\ s[i] = a /\ s[j] = b

\* What is left of a list keeps its order.
LEMMA UnlistOrder ==
  ASSUME NEW S, NEW s \in Seq(S), NEW k \in Range(s), Distinct(s),
         NEW a, NEW b, Before(Unlist(s, k), a, b)
  PROVE  Before(s, a, b) /\ k \notin {a, b}
  <1>1. Len(s) \in Nat /\ DOMAIN s = 1..Len(s)
    BY LenProperties
  <1>2. PICK i \in 1..Len(s) : s[i] = k /\ Unlist(s, k) = RemoveAt(s, i)
    BY <1>1 DEF Range, Unlist, LruElem
  <1> DEFINE t == RemoveAt(s, i)
             from(j) == IF j < i THEN j ELSE j + 1
  <1>3. /\ t \in Seq(S) /\ Len(t) = Len(s) - 1
        /\ \A j \in 1..(Len(s) - 1) : t[j] = s[from(j)]
    BY RemoveAtProperties
  <1> HIDE DEF t
  <1>4. DOMAIN t = 1..(Len(s) - 1)
    BY <1>3, LenProperties
  <1>5. PICK m, n \in 1..(Len(s) - 1) : m < n /\ t[m] = a /\ t[n] = b
    BY <1>2, <1>4 DEF Before, t
  <1>6. from(m) \in DOMAIN s /\ from(n) \in DOMAIN s /\ from(m) < from(n)
    BY <1>1, <1>5
  <1>7. s[from(m)] = a /\ s[from(n)] = b
    BY <1>3, <1>5
  <1>8. from(m) # i /\ from(n) # i
    BY <1>1, <1>5
  <1>9. Before(s, a, b)
    BY <1>6, <1>7 DEF Before
  <1>10. a # k /\ b # k
    BY <1>1, <1>2, <1>6, <1>7, <1>8 DEF Distinct
  <1> QED BY <1>9, <1>10

LEMMA AppendOrder ==
  ASSUME NEW S, NEW s \in Seq(S), NEW k \in S, NEW a, NEW b,
         Before(Append(s, k), a, b)
  PROVE  Before(s, a, b) \/ (b = k /\ a \in Range(s))
  <1>1. Len(s) \in Nat /\ DOMAIN s = 1..Len(s)
    BY LenProperties
  <1> DEFINE t == Append(s, k)
  <1>2. /\ DOMAIN t = 1..(Len(s) + 1)
        /\ t[Len(s) + 1] = k /\ \A j \in 1..Len(s) : t[j] = s[j]
    BY <1>1, AppendProperties, LenProperties
  <1> HIDE DEF t
  <1>3. PICK m, n \in DOMAIN t : m < n /\ t[m] = a /\ t[n] = b
    BY DEF Before, t
  <1>4. m \in 1..Len(s) /\ s[m] = a
    BY <1>1, <1>2, <1>3
  <1>5. CASE n \in 1..Len(s)
    BY <1>1, <1>2, <1>3, <1>4, <1>5 DEF Before
  <1>6. CASE n = Len(s) + 1
    BY <1>1, <1>2, <1>3, <1>4, <1>6 DEF Range
  <1> QED BY <1>1, <1>2, <1>3, <1>5, <1>6

LEMMA MoveToBackOrder ==
  ASSUME NEW S, NEW s \in Seq(S), NEW k \in Range(s), Distinct(s),
         NEW a, NEW b, Before(MoveToBack(s, k), a, b)
  PROVE  a # k /\ (b = k \/ Before(s, a, b))
  <1> DEFINE t == Unlist(s, k)
  <1>1. k \in S
    BY LenProperties DEF Range
  <1>2. t \in Seq(S) /\ Range(t) = Range(s) \ {k}
    BY UnlistProperties
  <1>3. Before(t, a, b) => Before(s, a, b) /\ k \notin {a, b}
    BY UnlistOrder
  <1> HIDE DEF t
  <1>4. Before(Append(t, k), a, b)
    BY DEF MoveToBack, t
  <1>5. Before(t, a, b) \/ (b = k /\ a \in Range(t))
    BY <1>1, <1>2, <1>4, AppendOrder
  <1> QED BY <1>2, <1>3, <1>5

\* Deleting a key changes the order of no other, using or setting one changes
\* its place only, and puts it behind all others.
LEMMA DeleteKeyOrder ==
  ASSUME NEW K, NEW E, NEW x, Sound(x, K, E), NEW k, NEW a, NEW b,
         Before(DeleteKey(x, k).lru, a, b)
  PROVE  Before(x.lru, a, b)
  <1>1. x.lru \in Seq(K) /\ Range(x.lru) = DOMAIN x.data /\ Distinct(x.lru)
    BY DEF Sound, IsIndex, InStep, LruInStep, Distinct
  <1>2. CASE k \in DOMAIN x.data
    <2>1. DeleteKey(x, k).lru = Unlist(x.lru, k)
      BY <1>2 DEF DeleteKey
    <2> QED BY <1>1, <1>2, <2>1, UnlistOrder
  <1> QED BY <1>2 DEF DeleteKey

LEMMA TouchKeyOrder ==
  ASSUME NEW K, NEW E, NEW x, Sound(x, K, E), NEW k \in DOMAIN x.data,
         NEW a, NEW b, Before(TouchKey(x, k).lru, a, b)
  PROVE  a # k /\ (b = k \/ Before(x.lru, a, b))
  <1>1. x.lru \in Seq(K) /\ Range(x.lru) = DOMAIN x.data /\ Distinct(x.lru)
    BY DEF Sound, IsIndex, InStep, LruInStep, Distinct
  <1>2. TouchKey(x, k).lru = MoveToBack(x.lru, k)
    <2>1. x = [data |-> x.data, heap |-> x.heap, lru |-> x.lru]
      BY DEF Sound, IsIndex
    <2> QED BY <2>1 DEF TouchKey
  <1> QED BY <1>1, <1>2, MoveToBackOrder

LEMMA SetEntryOrder ==
  ASSUME NEW K, NEW E, NEW x, Sound(x, K, E), NEW k \in K, NEW e,
         NEW a, NEW b, Before(SetEntry(x, k, e).lru, a, b)
  PROVE  a # k /\ (b = k \/ Before(x.lru, a, b))
  <1>1. x.lru \in Seq(K) /\ Range(x.lru) = DOMAIN x.data /\ Distinct(x.lru)
    BY DEF Sound, IsIndex, InStep, LruInStep, Distinct
  <1>2. CASE k \in DOMAIN x.data
    <2>1. SetEntry(x, k, e).lru = MoveToBack(x.lru, k)
      BY <1>2 DEF SetEntry
    <2> QED BY <1>1, <1>2, <2>1, MoveToBackOrder
  <1>3. CASE k \notin DOMAIN x.data
    <2>1. SetEntry(x, k, e).lru = Append(x.lru, k)
      BY <1>3 DEF SetEntry
    <2>2. Before(x.lru, a, b) \/ (b = k /\ a \in Range(x.lru))
      BY <1>1, <2>1, AppendOrder
    <2>3. Before(x.lru, a, b) => a \in Range(x.lru)
      BY DEF Before, Range
    <2> QED BY <1>1, <1>3, <2>2, <2>3
  <1> QED BY <1>2, <1>3
=============================================================================
