---------------------------- MODULE ExpiryProofs ----------------------------
(***************************************************************************)
(* Proofs about ExpiryHeap, for any number of keys and whatever their      *)
(* expiries: the map from keys to positions is exact at every moment, the  *)
(* heap is ordered between two calls, its root is then an entry with the   *)
(* earliest expiry, and the heap implements the map of ExpiryMap.          *)
(***************************************************************************)
EXTENDS ExpiryHeap, SequenceTheorems, FiniteSetTheorems, TLAPS

ExpiryOf(s) == [i \in 1..Len(s) |-> s[i].expiry]

\* The first n of the expiries e are in order.
Ordered(e, n) == \A i \in 2..n : e[Parent(i)] <= e[i]

\* ... but position a may have to sink and, if it is still where the loop
\* started, to rise.
Sinking(e, a, n, s) ==
  \A i \in 2..n : Parent(i) # a /\ (i = a => a # s) => e[Parent(i)] <= e[i]

\* ... but position a may have to rise.
Rising(e, a, n) == \A i \in 2..n : i # a => e[Parent(i)] <= e[i]

\* The children of a are in order with its parent.
Bridged(e, a, n) ==
  \A i \in 2..n : a > 1 /\ Parent(i) = a => e[Parent(a)] <= e[i]

LoopOrdered ==
  /\ pc = "down" => /\ start <= at /\ Sinking(ExpiryOf(entries), at, limit, start)
                    /\ Bridged(ExpiryOf(entries), at, limit)
  /\ pc = "up" => Rising(ExpiryOf(entries), at, limit) /\ Bridged(ExpiryOf(entries), at, limit)

Inv == TypeOK /\ KeyIndexExact /\ HeapOrdered /\ LoopOrdered

-----------------------------------------------------------------------------
(* Sequences of expiries *)

LEMMA ParentType ==
  ASSUME NEW i \in Nat, i > 1
  PROVE  Parent(i) \in 1..(i - 1) /\ (i = 2 * Parent(i) \/ i = 2 * Parent(i) + 1)
  BY DEF Parent

LEMMA Family ==
  ASSUME NEW j \in Nat \ {0}
  PROVE  /\ Parent(2 * j) = j /\ Parent(2 * j + 1) = j
         /\ \A i \in Nat : i > 1 /\ Parent(i) = j => i \in {2 * j, 2 * j + 1}
  BY DEF Parent

LEMMA Replaced ==
  ASSUME NEW n \in Nat, NEW a \in 1..n, NEW e, NEW f,
         \A i \in 1..n : e[i] \in Nat /\ (i # a => f[i] = e[i]),
         Ordered(e, n)
  PROVE  Sinking(f, a, n, a) /\ Bridged(f, a, n)
  <1>1. \A i \in 2..n : Parent(i) \in 1..(i - 1)
    BY ParentType
  <1>2. Sinking(f, a, n, a)
    BY <1>1 DEF Sinking, Ordered
  <1>3. Bridged(f, a, n)
    <2> SUFFICES ASSUME NEW i \in 2..n, a > 1, Parent(i) = a
                 PROVE  f[Parent(a)] <= f[i]
      BY DEF Bridged
    <2>1. e[Parent(a)] <= e[a] /\ e[a] <= e[i]
      BY DEF Ordered
    <2>2. Parent(a) \in 1..n /\ Parent(a) # a /\ i # a
      BY <1>1
    <2> QED BY <2>1, <2>2
  <1> QED BY <1>2, <1>3

LEMMA Pushed ==
  ASSUME NEW n \in Nat, NEW e, NEW f, \A i \in 1..n : f[i] = e[i], Ordered(e, n)
  PROVE  Rising(f, n + 1, n + 1) /\ Bridged(f, n + 1, n + 1)
  BY ParentType DEF Ordered, Rising, Bridged

LEMMA Sunk ==
  ASSUME NEW n \in Nat, NEW a \in 1..n, NEW c \in 2..n, NEW s \in 1..n, NEW e, NEW f,
         \A i \in 1..n : e[i] \in Nat,
         Parent(c) = a, e[c] < e[a], s <= a,
         \A i \in 2..n : Parent(i) = a => e[c] <= e[i],
         f[a] = e[c], f[c] = e[a], \A i \in 1..n : i \notin {a, c} => f[i] = e[i],
         Sinking(e, a, n, s), Bridged(e, a, n)
  PROVE  s <= c /\ Sinking(f, c, n, s) /\ Bridged(f, c, n)
  <1>1. \A i \in 2..n : Parent(i) \in 1..(i - 1)
    BY ParentType
  <1>2. a < c /\ s < c
    BY <1>1
  <1>3. ASSUME NEW i \in 2..n, Parent(i) # c
        PROVE  f[Parent(i)] <= f[i]
    <2>1. CASE i = c
      BY <2>1, <1>2
    <2>2. CASE i = a
      <3>1. e[Parent(a)] <= e[c]
        BY <2>2 DEF Bridged
      <3>2. Parent(a) \in 1..n /\ Parent(a) \notin {a, c}
        BY <1>1, <1>2, <2>2
      <3> QED BY <2>2, <3>1, <3>2
    <2>3. CASE i \notin {a, c} /\ Parent(i) = a
      BY <2>3
    <2>4. CASE i \notin {a, c} /\ Parent(i) # a
      <3>1. e[Parent(i)] <= e[i]
        BY <2>4 DEF Sinking
      <3>2. Parent(i) \in 1..n /\ Parent(i) \notin {a, c}
        BY <1>1, <1>3, <2>4
      <3> QED BY <2>4, <3>1, <3>2
    <2> QED BY <2>1, <2>2, <2>3, <2>4
  <1>4. ASSUME NEW i \in 2..n, Parent(i) = c
        PROVE  f[Parent(c)] <= f[i]
    <2>1. i \notin {a, c}
      BY <1>1, <1>2, <1>4
    <2>2. e[c] <= e[i]
      BY <1>2, <1>4, <2>1 DEF Sinking
    <2> QED BY <2>1, <2>2
  <1> QED
    BY <1>2, <1>3, <1>4 DEF Sinking, Bridged

LEMMA Risen ==
  ASSUME NEW n \in Nat, NEW a \in 2..n, NEW p \in 1..n, NEW e, NEW f,
         \A i \in 1..n : e[i] \in Nat,
         Parent(a) = p, e[a] < e[p],
         f[a] = e[p], f[p] = e[a], \A i \in 1..n : i \notin {a, p} => f[i] = e[i],
         Rising(e, a, n), Bridged(e, a, n)
  PROVE  Rising(f, p, n) /\ Bridged(f, p, n)
  <1>1. \A i \in 2..n : Parent(i) \in 1..(i - 1)
    BY ParentType
  <1>2. p < a
    BY <1>1
  <1>3. ASSUME NEW i \in 2..n, i # p
        PROVE  f[Parent(i)] <= f[i]
    <2>1. CASE i = a
      BY <2>1, <1>2
    <2>2. CASE i # a /\ Parent(i) = p
      <3>1. e[p] <= e[i]
        BY <2>2 DEF Rising
      <3> QED BY <1>3, <2>2, <3>1
    <2>3. CASE i # a /\ Parent(i) = a
      <3>1. e[p] <= e[i]
        BY <2>3 DEF Bridged
      <3> QED BY <1>3, <2>3, <3>1
    <2>4. CASE i # a /\ Parent(i) \notin {a, p}
      <3>1. e[Parent(i)] <= e[i] /\ Parent(i) \in 1..n
        BY <1>1, <2>4 DEF Rising
      <3> QED BY <1>3, <2>4, <3>1
    <2> QED BY <2>1, <2>2, <2>3, <2>4
  <1>4. ASSUME NEW i \in 2..n, p > 1, Parent(i) = p
        PROVE  f[Parent(p)] <= f[i]
    <2>1. Parent(p) \in 1..n /\ Parent(p) \notin {a, p}
      BY <1>1, <1>2, <1>4
    <2>2. e[Parent(p)] <= e[p] /\ f[Parent(p)] = e[Parent(p)]
      BY <1>2, <1>4, <2>1 DEF Rising
    <2>3. CASE i = a
      BY <2>2, <2>3
    <2>4. CASE i # a
      <3>1. e[p] <= e[i] /\ i # p
        BY <1>1, <1>4, <2>4 DEF Rising
      <3> QED BY <2>1, <2>2, <2>4, <3>1
    <2> QED BY <2>3, <2>4
  <1> QED
    BY <1>3, <1>4 DEF Rising, Bridged

\* What the loops find when they stop.
LEMMA Stopped ==
  ASSUME NEW n \in Nat, NEW a \in 1..n, NEW e, \A i \in 1..n : e[i] \in Nat
  PROVE  /\ \A s \in 1..n : /\ Sinking(e, a, n, s)
                            /\ \A i \in 2..n : Parent(i) = a => e[a] <= e[i]
                            => /\ Rising(e, a, n)
                               /\ a # s => Ordered(e, n)
         /\ Rising(e, a, n) /\ (a > 1 => e[Parent(a)] <= e[a]) => Ordered(e, n)
  BY DEF Sinking, Rising, Ordered

LEMMA Agreement ==
  ASSUME NEW n \in Nat, NEW e, NEW f, \A i \in 1..n : f[i] = e[i]
  PROVE  /\ Ordered(e, n) => Ordered(f, n)
         /\ \A m \in 1..n : Ordered(e, n) => Ordered(e, m)
  BY ParentType DEF Ordered

-----------------------------------------------------------------------------
(* Entries and positions *)

IndexOK == IsPartialMap(keyIndex, Keys, 1..Len(entries)) /\ KeyIndexExact

LEMMA ExpiryType ==
  ASSUME NEW s \in Seq(ExpiryEntry)
  PROVE  /\ Len(s) \in Nat
         /\ \A i \in 1..Len(s) :
              s[i] \in ExpiryEntry /\ ExpiryOf(s)[i] = s[i].expiry /\ ExpiryOf(s)[i] \in Nat
  <1>1. Len(s) \in Nat /\ \A i \in 1..Len(s) : s[i] \in ExpiryEntry
    BY ElementOfSeq, LenProperties
  <1>2. \A i \in 1..Len(s) : s[i].expiry \in Nat
    BY <1>1, ExpiryAssumption DEF ExpiryEntry
  <1> QED
    BY <1>1, <1>2 DEF ExpiryOf

\* HeapOrdered in terms of the expiries.
LEMMA HeapOf ==
  ASSUME NEW s \in Seq(ExpiryEntry)
  PROVE  Ordered(ExpiryOf(s), Len(s))
           <=> \A i \in 2..Len(s) : ~(s[i].expiry < s[Parent(i)].expiry)
  <1>1. \A i \in 2..Len(s) : Parent(i) \in 1..Len(s) /\ i \in 1..Len(s)
    BY ExpiryType, ParentType
  <1>2. \A i \in 1..Len(s) : ExpiryOf(s)[i] = s[i].expiry /\ ExpiryOf(s)[i] \in Nat
    BY ExpiryType
  <1>3. \A i \in 2..Len(s) : ExpiryOf(s)[Parent(i)] <= ExpiryOf(s)[i]
                               <=> ~(s[i].expiry < s[Parent(i)].expiry)
    BY <1>1, <1>2
  <1> QED
    BY <1>3 DEF Ordered

LEMMA Swapped ==
  ASSUME entries \in Seq(ExpiryEntry), IndexOK,
         NEW i \in 1..Len(entries), NEW j \in 1..Len(entries), i # j, Swap(i, j)
  PROVE  /\ entries' \in Seq(ExpiryEntry) /\ Len(entries') = Len(entries)
         /\ entries'[i] = entries[j] /\ entries'[j] = entries[i]
         /\ \A x \in 1..Len(entries) : x \notin {i, j} => entries'[x] = entries[x]
         /\ IndexOK'
  <1>1. /\ entries' = [entries EXCEPT ![i] = entries[j], ![j] = entries[i]]
        /\ keyIndex' = [keyIndex EXCEPT ![entries[j].key] = i, ![entries[i].key] = j]
    BY DEF Swap
  <1>2. \A x \in 1..Len(entries) : entries[x] \in ExpiryEntry
    BY ExpiryType
  <1>3. entries \in [1..Len(entries) -> ExpiryEntry] /\ Len(entries) \in Nat
    BY <1>2
  <1>4. entries' \in [1..Len(entries) -> ExpiryEntry]
    BY <1>1, <1>2, <1>3
  <1>5. entries' \in Seq(ExpiryEntry) /\ Len(entries') = Len(entries)
    BY <1>3, <1>4
  <1>6. /\ entries'[i] = entries[j] /\ entries'[j] = entries[i]
        /\ \A x \in 1..Len(entries) : x \notin {i, j} => entries'[x] = entries[x]
    BY <1>1, <1>3
  <1>7. PICK k \in Keys, l \in Keys : k = entries[i].key /\ l = entries[j].key
    BY <1>2 DEF ExpiryEntry
  <1>8. /\ k \in DOMAIN keyIndex /\ l \in DOMAIN keyIndex /\ k # l
        /\ keyIndex[k] = i /\ keyIndex[l] = j
    BY <1>7 DEF IndexOK, KeyIndexExact
  <1>9. /\ DOMAIN keyIndex' = DOMAIN keyIndex
        /\ keyIndex'[k] = j /\ keyIndex'[l] = i
        /\ \A x \in DOMAIN keyIndex : x \notin {k, l} => keyIndex'[x] = keyIndex[x]
    BY <1>1, <1>7, <1>8 DEF IndexOK, IsPartialMap
  <1>10. IsPartialMap(keyIndex, Keys, 1..Len(entries))'
    <2>1. keyIndex' \in [DOMAIN keyIndex -> 1..Len(entries)]
      BY <1>1, <1>7 DEF IndexOK, IsPartialMap
    <2> QED BY <1>5, <1>9, <2>1 DEF IndexOK, IsPartialMap
  <1>11. ASSUME NEW x \in 1..Len(entries)
         PROVE  entries'[x].key \in DOMAIN keyIndex' /\ keyIndex'[entries'[x].key] = x
    <2>1. CASE x \in {i, j}
      BY <1>6, <1>7, <1>8, <1>9, <2>1
    <2>2. CASE x \notin {i, j}
      <3>1. entries[x].key \in DOMAIN keyIndex /\ keyIndex[entries[x].key] = x
        BY DEF IndexOK, KeyIndexExact
      <3> QED BY <1>6, <1>8, <1>9, <2>2, <3>1
    <2> QED BY <2>1, <2>2
  <1>12. ASSUME NEW x \in DOMAIN keyIndex
         PROVE  entries'[keyIndex'[x]].key = x
    <2>1. CASE x \in {k, l}
      BY <1>6, <1>7, <1>8, <1>9, <2>1
    <2>2. CASE x \notin {k, l}
      <3>1. entries[keyIndex[x]].key = x /\ keyIndex[x] \in 1..Len(entries)
        BY DEF IndexOK, KeyIndexExact, IsPartialMap
      <3>2. keyIndex[x] \notin {i, j}
        BY <1>7, <2>2, <3>1
      <3> QED BY <1>6, <1>9, <2>2, <3>1, <3>2
    <2> QED BY <2>1, <2>2
  <1>13. KeyIndexExact'
    BY <1>5, <1>9, <1>11, <1>12 DEF KeyIndexExact
  <1> QED
    BY <1>5, <1>6, <1>10, <1>13 DEF IndexOK

LEMMA Popped ==
  ASSUME entries \in Seq(ExpiryEntry), IndexOK, entries # <<>>, Pop
  PROVE  /\ entries' \in Seq(ExpiryEntry) /\ Len(entries') = Len(entries) - 1
         /\ \A i \in 1..Len(entries') : entries'[i] = entries[i]
         /\ IndexOK'
  <1>1. Len(entries) \in Nat \ {0}
    BY EmptySeq, LenProperties
  <1>2. PICK n, k : n \in Nat \ {0} /\ n = Len(entries) /\ k = entries[n].key
    BY <1>1
  <1>3. /\ entries' = [i \in 1..(n - 1) |-> entries[i]]
        /\ keyIndex' = [x \in DOMAIN keyIndex \ {k} |-> keyIndex[x]]
    BY <1>2 DEF Pop, Front, Last, Unbind, Restrict
  <1>4. /\ entries' \in Seq(ExpiryEntry) /\ Len(entries') = n - 1
        /\ \A i \in 1..(n - 1) : entries'[i] = entries[i]
    BY <1>2, <1>3, ExpiryType
  <1>5. /\ k \in DOMAIN keyIndex /\ keyIndex[k] = n
        /\ \A x \in DOMAIN keyIndex : entries[keyIndex[x]].key = x
                                      /\ keyIndex[x] \in 1..n
    BY <1>2 DEF IndexOK, KeyIndexExact, IsPartialMap
  <1>6. \A x \in DOMAIN keyIndex' : keyIndex'[x] = keyIndex[x] /\ keyIndex[x] \in 1..(n - 1)
    BY <1>2, <1>3, <1>5
  <1>7. IsPartialMap(keyIndex, Keys, 1..Len(entries))'
    BY <1>2, <1>3, <1>4, <1>6 DEF IndexOK, IsPartialMap
  <1>8. ASSUME NEW i \in 1..(n - 1)
        PROVE  entries'[i].key \in DOMAIN keyIndex' /\ keyIndex'[entries'[i].key] = i
    <2>1. entries[i].key \in DOMAIN keyIndex /\ keyIndex[entries[i].key] = i
      BY <1>2 DEF IndexOK, KeyIndexExact
    <2> QED BY <1>3, <1>4, <1>5, <2>1
  <1>9. \A x \in DOMAIN keyIndex' : entries'[keyIndex'[x]].key = x
    BY <1>3, <1>4, <1>5, <1>6
  <1> QED
    BY <1>2, <1>4, <1>7, <1>8, <1>9 DEF IndexOK, KeyIndexExact

LEMMA Appended ==
  ASSUME entries \in Seq(ExpiryEntry), IndexOK, NEW e \in ExpiryEntry,
         e.key \notin DOMAIN keyIndex, Push(e)
  PROVE  /\ entries' \in Seq(ExpiryEntry) /\ Len(entries') = Len(entries) + 1
         /\ \A i \in 1..Len(entries) : entries'[i] = entries[i]
         /\ IndexOK'
  <1>1. PICK n \in Nat, k \in Keys : n = Len(entries) /\ k = e.key
    BY ExpiryType DEF ExpiryEntry
  <1>2. /\ entries' \in Seq(ExpiryEntry) /\ Len(entries') = n + 1
        /\ entries'[n + 1] = e
        /\ \A i \in 1..n : entries'[i] = entries[i]
    BY <1>1, AppendProperties DEF Push
  <1>3. keyIndex' = [x \in DOMAIN keyIndex \cup {k} |-> IF x = k THEN n + 1 ELSE keyIndex[x]]
    BY <1>1 DEF Push, Bind
  <1>4. /\ DOMAIN keyIndex' = DOMAIN keyIndex \cup {k} /\ keyIndex'[k] = n + 1
        /\ \A x \in DOMAIN keyIndex : keyIndex'[x] = keyIndex[x]
    BY <1>1, <1>3
  <1>5. \A x \in DOMAIN keyIndex : keyIndex[x] \in 1..n /\ entries[keyIndex[x]].key = x
    BY <1>1 DEF IndexOK, KeyIndexExact, IsPartialMap
  <1>6. IsPartialMap(keyIndex, Keys, 1..Len(entries))'
    BY <1>1, <1>2, <1>3, <1>5 DEF IndexOK, IsPartialMap
  <1>7. \A i \in 1..n : entries[i].key \in DOMAIN keyIndex /\ keyIndex[entries[i].key] = i
    BY <1>1 DEF IndexOK, KeyIndexExact
  <1>8. \A i \in 1..(n + 1) :
          entries'[i].key \in DOMAIN keyIndex' /\ keyIndex'[entries'[i].key] = i
    BY <1>1, <1>2, <1>4, <1>7
  <1>9. \A x \in DOMAIN keyIndex' : entries'[keyIndex'[x]].key = x
    BY <1>1, <1>2, <1>4, <1>5
  <1> QED
    BY <1>1, <1>2, <1>6, <1>8, <1>9 DEF IndexOK, KeyIndexExact

-----------------------------------------------------------------------------
(* Steps *)

\* Whoever finishes has put the entries below the limit in order.
LEMMA FinishInv ==
  ASSUME Inv, pc # "idle", Ordered(ExpiryOf(entries), limit), Finish
  PROVE  Inv'
  <1>1. /\ entries \in Seq(ExpiryEntry) /\ Len(entries) \in Nat /\ IndexOK
        /\ limit \in Nat /\ limit \in {Len(entries), Len(entries) - 1} /\ limit > 0
    BY ExpiryType DEF Inv, TypeOK, IndexOK
  <1>2. /\ entries' \in Seq(ExpiryEntry) /\ Len(entries') = limit /\ IndexOK'
        /\ \A i \in 1..limit : entries'[i] = entries[i]
    <2>1. CASE limit < Len(entries)
      <3>1. Pop /\ entries # <<>>
        BY <1>1, <2>1 DEF Finish
      <3> QED BY <1>1, <2>1, <3>1, Popped
    <2>2. CASE limit = Len(entries)
      <3>1. entries' = entries /\ keyIndex' = keyIndex
        BY <1>1, <2>2 DEF Finish
      <3> QED BY <1>1, <2>2, <3>1 DEF IndexOK, KeyIndexExact
    <2> QED BY <1>1, <2>1, <2>2
  <1>3. pc' = "idle" /\ at' = 0 /\ start' = 0 /\ limit' = 0 /\ call' = call
    BY DEF Finish
  <1>4. TypeOK' /\ KeyIndexExact'
    BY <1>2, <1>3 DEF Inv, TypeOK, IndexOK
  <1>5. \A i \in 1..limit : ExpiryOf(entries')[i] = ExpiryOf(entries)[i]
    BY <1>1, <1>2, ExpiryType
  <1>6. Ordered(ExpiryOf(entries'), limit)
    BY <1>1, <1>5, Agreement
  <1>7. HeapOrdered'
    BY <1>2, <1>6, HeapOf DEF HeapOrdered, Less
  <1>8. LoopOrdered'
    BY <1>3 DEF LoopOrdered
  <1> QED BY <1>4, <1>7, <1>8 DEF Inv

LEMMA InsertKeyInv ==
  ASSUME Inv, NEW k \in Keys, NEW expiry \in Expiries, InsertKey(k, expiry)
  PROVE  Inv'
  <1>1. /\ entries \in Seq(ExpiryEntry) /\ Len(entries) \in Nat /\ IndexOK
        /\ pc = "idle" /\ call' = [key |-> k, expiry |-> expiry]
    BY ExpiryType DEF Inv, TypeOK, IndexOK, InsertKey
  <1>2. PICK n \in Nat : n = Len(entries)
    BY <1>1
  <1>3. Ordered(ExpiryOf(entries), n)
    BY <1>1, <1>2, HeapOf DEF Inv, HeapOrdered, Less
  <1>4. call' \in [key : Keys, expiry : Expiries \cup {0}]
    BY <1>1
  <1>5. CASE k \in DOMAIN keyIndex /\ Fix(k, expiry)
    <2>1. PICK a \in 1..n : a = keyIndex[k] /\ entries[a].key = k
      BY <1>1, <1>2, <1>5 DEF IndexOK, IsPartialMap, KeyIndexExact
    <2>2. /\ entries' = [entries EXCEPT ![a].expiry = expiry]
          /\ keyIndex' = keyIndex
          /\ pc' = "down" /\ at' = a /\ start' = a /\ limit' = n
      BY <1>2, <1>5, <2>1 DEF Fix, Sift
    <2>3. \A i \in 1..n : entries[i] \in ExpiryEntry
      BY <1>1, <1>2, ExpiryType
    <2>4. PICK x \in ExpiryEntry : x = [entries[a] EXCEPT !.expiry = expiry]
                                    /\ x.key = entries[a].key
      <3>1. [entries[a] EXCEPT !.expiry = expiry] \in ExpiryEntry
        BY <2>3 DEF ExpiryEntry
      <3>2. [entries[a] EXCEPT !.expiry = expiry].key = entries[a].key
        BY <2>3 DEF ExpiryEntry
      <3> QED BY <3>1, <3>2
    <2>5. entries' = [entries EXCEPT ![a] = x]
      BY <2>2, <2>4
    <2>6. /\ entries' \in Seq(ExpiryEntry) /\ Len(entries') = n
          /\ entries'[a].key = entries[a].key
          /\ \A i \in 1..n : i # a => entries'[i] = entries[i]
      BY <1>1, <1>2, <2>3, <2>4, <2>5
    <2>7. TypeOK'
      BY <1>1, <1>2, <1>4, <2>2, <2>6 DEF TypeOK, IndexOK
    <2>8. KeyIndexExact'
      BY <1>1, <1>2, <2>2, <2>6 DEF IndexOK, KeyIndexExact, IsPartialMap
    <2>9. \A i \in 1..n : /\ ExpiryOf(entries)[i] \in Nat
                          /\ i # a => ExpiryOf(entries')[i] = ExpiryOf(entries)[i]
      BY <1>1, <1>2, <2>6, ExpiryType
    <2>10. Sinking(ExpiryOf(entries'), a, n, a) /\ Bridged(ExpiryOf(entries'), a, n)
      BY <1>3, <2>9, Replaced
    <2>11. HeapOrdered' /\ LoopOrdered'
      BY <2>2, <2>10 DEF HeapOrdered, LoopOrdered
    <2> QED BY <2>7, <2>8, <2>11 DEF Inv
  <1>6. CASE /\ k \notin DOMAIN keyIndex
             /\ Push([key |-> k, expiry |-> expiry])
             /\ Sift("up", Len(entries) + 1, Len(entries) + 1)
    <2>1. /\ entries' \in Seq(ExpiryEntry) /\ Len(entries') = n + 1
          /\ \A i \in 1..n : entries'[i] = entries[i]
          /\ IndexOK'
      <3>1. PICK e \in ExpiryEntry : e = [key |-> k, expiry |-> expiry] /\ e.key = k
        <4>1. [key |-> k, expiry |-> expiry] \in ExpiryEntry
          BY DEF ExpiryEntry
        <4> QED BY <4>1
      <3>2. e.key \notin DOMAIN keyIndex /\ Push(e)
        BY <1>6, <3>1
      <3> QED BY <1>1, <1>2, <3>2, Appended
    <2>2. pc' = "up" /\ at' = n + 1 /\ start' = n + 1 /\ limit' = n + 1
      BY <1>2, <1>6 DEF Sift
    <2>3. TypeOK' /\ KeyIndexExact'
      BY <1>4, <2>1, <2>2 DEF TypeOK, IndexOK
    <2>4. \A i \in 1..n : ExpiryOf(entries')[i] = ExpiryOf(entries)[i]
      BY <1>1, <1>2, <2>1, ExpiryType
    <2>5. Rising(ExpiryOf(entries'), n + 1, n + 1) /\ Bridged(ExpiryOf(entries'), n + 1, n + 1)
      BY <1>3, <2>4, Pushed
    <2>6. HeapOrdered' /\ LoopOrdered'
      BY <2>2, <2>5 DEF HeapOrdered, LoopOrdered
    <2> QED BY <2>3, <2>6 DEF Inv
  <1> QED BY <1>5, <1>6 DEF InsertKey

LEMMA RemoveKeyInv ==
  ASSUME Inv, NEW k \in Keys, RemoveKey(k)
  PROVE  Inv'
  <1>1. /\ entries \in Seq(ExpiryEntry) /\ Len(entries) \in Nat /\ IndexOK
        /\ pc = "idle" /\ call' = [key |-> k, expiry |-> 0]
    BY ExpiryType DEF Inv, TypeOK, IndexOK, RemoveKey
  <1>2. PICK n \in Nat : n = Len(entries)
    BY <1>1
  <1>3. Ordered(ExpiryOf(entries), n)
    BY <1>1, <1>2, HeapOf DEF Inv, HeapOrdered, Less
  <1>4. call' \in [key : Keys, expiry : Expiries \cup {0}]
    BY <1>1
  <1>5. CASE k \notin DOMAIN keyIndex
    <2>1. entries' = entries /\ keyIndex' = keyIndex /\ pc' = pc
          /\ at' = at /\ start' = start /\ limit' = limit
      BY <1>5 DEF RemoveKey, locals
    <2> QED
      BY <1>1, <1>4, <2>1
         DEF Inv, TypeOK, KeyIndexExact, HeapOrdered, LoopOrdered, Less
  <1>6. CASE k \in DOMAIN keyIndex /\ keyIndex[k] = Len(entries)
    <2>1. Pop /\ pc' = "idle" /\ at' = at /\ start' = start /\ limit' = limit
      BY <1>1, <1>6 DEF RemoveKey, locals
    <2>2. entries # <<>> /\ n > 0
      <3>1. n \in 1..n
        BY <1>1, <1>2, <1>6 DEF IndexOK, IsPartialMap
      <3> QED BY <1>2, <3>1
    <2>3. /\ entries' \in Seq(ExpiryEntry) /\ Len(entries') = n - 1
          /\ \A i \in 1..(n - 1) : entries'[i] = entries[i]
          /\ IndexOK'
      BY <1>1, <1>2, <2>1, <2>2, Popped
    <2>4. TypeOK' /\ KeyIndexExact'
      BY <1>1, <1>4, <2>1, <2>3 DEF Inv, TypeOK, IndexOK
    <2>5. \A i \in 1..(n - 1) : ExpiryOf(entries')[i] = ExpiryOf(entries)[i]
      BY <1>1, <1>2, <2>3, ExpiryType
    <2>6. Ordered(ExpiryOf(entries), n - 1)
      BY <1>3, <2>2 DEF Ordered
    <2>7. Ordered(ExpiryOf(entries'), n - 1)
      <3>1. n - 1 \in Nat
        BY <2>2
      <3> QED BY <2>5, <2>6, <3>1, Agreement
    <2>8. HeapOrdered'
      BY <2>3, <2>7, HeapOf DEF HeapOrdered, Less
    <2>9. LoopOrdered'
      BY <2>1 DEF LoopOrdered
    <2> QED BY <2>4, <2>8, <2>9 DEF Inv
  <1>7. CASE k \in DOMAIN keyIndex /\ keyIndex[k] # Len(entries)
    <2>1. PICK a \in 1..n : a = keyIndex[k]
      BY <1>1, <1>2, <1>7 DEF IndexOK, IsPartialMap
    <2>2. /\ Swap(a, n) /\ a < n /\ n - 1 \in Nat /\ a \in 1..(n - 1)
          /\ pc' = "down" /\ at' = a /\ start' = a /\ limit' = n - 1
      BY <1>2, <1>7, <2>1 DEF RemoveKey, Sift
    <2>3. /\ entries' \in Seq(ExpiryEntry) /\ Len(entries') = n
          /\ \A i \in 1..n : i \notin {a, n} => entries'[i] = entries[i]
          /\ IndexOK'
      BY <1>1, <1>2, <2>2, Swapped
    <2>4. TypeOK' /\ KeyIndexExact'
      BY <1>4, <2>2, <2>3 DEF TypeOK, IndexOK
    <2>5. \A i \in 1..(n - 1) : /\ ExpiryOf(entries)[i] \in Nat
                                /\ i # a => ExpiryOf(entries')[i] = ExpiryOf(entries)[i]
      BY <1>1, <1>2, <2>3, ExpiryType
    <2>6. Ordered(ExpiryOf(entries), n - 1)
      BY <1>3 DEF Ordered
    <2>7. Sinking(ExpiryOf(entries'), a, n - 1, a) /\ Bridged(ExpiryOf(entries'), a, n - 1)
      BY <2>2, <2>5, <2>6, Replaced
    <2>8. HeapOrdered' /\ LoopOrdered'
      BY <2>2, <2>7 DEF HeapOrdered, LoopOrdered
    <2> QED BY <2>4, <2>8 DEF Inv
  <1> QED BY <1>5, <1>6, <1>7

LEMMA LoopRange ==
  ASSUME Inv, pc # "idle"
  PROVE  /\ entries \in Seq(ExpiryEntry) /\ IndexOK
         /\ limit \in Nat /\ at \in 1..limit /\ start \in 1..limit
         /\ limit <= Len(entries) /\ limit \in {Len(entries), Len(entries) - 1}
         /\ \A i \in 1..limit : /\ i \in 1..Len(entries)
                                /\ ExpiryOf(entries)[i] = entries[i].expiry
                                /\ ExpiryOf(entries)[i] \in Nat
  <1>1. /\ entries \in Seq(ExpiryEntry) /\ IndexOK /\ Len(entries) \in Nat
        /\ limit \in {Len(entries), Len(entries) - 1}
        /\ at \in 1..limit /\ start \in 1..limit
    BY ExpiryType DEF Inv, TypeOK, IndexOK
  <1>2. limit \in Nat /\ limit <= Len(entries)
    BY <1>1
  <1>3. \A i \in 1..limit : i \in 1..Len(entries)
    BY <1>1, <1>2
  <1> QED
    BY <1>1, <1>2, <1>3, ExpiryType

\* If an entry need not sink, its children are in order with it; if it must,
\* LesserChild is a child of it and not after the other one.
LEMMA Child ==
  ASSUME Inv, pc = "down",
         NEW a \in 1..limit, a = at
  PROVE  LET e == ExpiryOf(entries)
             c == LesserChild(a)
         IN /\ ~Sinks => \A i \in 2..limit : Parent(i) = a => e[a] <= e[i]
            /\ Sinks => /\ c \in 2..limit /\ Parent(c) = a /\ e[c] < e[a]
                        /\ \A i \in 2..limit : Parent(i) = a => e[c] <= e[i]
  <1> DEFINE e == ExpiryOf(entries)
             c == LesserChild(a)
  <1>1. limit \in Nat /\ \A i \in 1..limit : e[i] = entries[i].expiry /\ e[i] \in Nat
    BY LoopRange
  <1>2. \A i \in 2..limit : Parent(i) = a => i \in {2 * a, 2 * a + 1}
    BY <1>1, Family
  <1>3. Parent(2 * a) = a /\ Parent(2 * a + 1) = a
    BY <1>1, Family
  <1>4. ASSUME 2 * a <= limit
        PROVE  /\ c \in 2..limit /\ c \in {2 * a, 2 * a + 1}
               /\ \A i \in 2..limit : i \in {2 * a, 2 * a + 1} => e[c] <= e[i]
    <2> HIDE DEF e
    <2>1. CASE 2 * a + 1 <= limit /\ Less(2 * a + 1, 2 * a)
      <3>1. c = 2 * a + 1
        BY <2>1 DEF LesserChild
      <3>2. e[2 * a + 1] < e[2 * a]
        BY <1>1, <2>1 DEF Less
      <3> HIDE DEF c
      <3> QED BY <1>1, <2>1, <3>1, <3>2
    <2>2. CASE ~(2 * a + 1 <= limit /\ Less(2 * a + 1, 2 * a))
      <3>1. c = 2 * a
        BY <2>2 DEF LesserChild
      <3>2. 2 * a + 1 <= limit => e[2 * a] <= e[2 * a + 1]
        BY <1>1, <2>2 DEF Less
      <3> HIDE DEF c
      <3> QED BY <1>1, <1>4, <3>1, <3>2
    <2> QED BY <2>1, <2>2
  <1>5. Less(c, a) <=> entries[c].expiry < entries[a].expiry
    BY DEF Less
  <1> HIDE DEF e, c
  <1>6. ASSUME Sinks
        PROVE  /\ c \in 2..limit /\ Parent(c) = a /\ e[c] < e[a]
               /\ \A i \in 2..limit : Parent(i) = a => e[c] <= e[i]
    <2>1. 2 * a <= limit /\ Less(c, a)
      BY <1>6 DEF Sinks, c
    <2> QED BY <1>1, <1>2, <1>3, <1>4, <1>5, <2>1
  <1>7. ASSUME ~Sinks, NEW i \in 2..limit, Parent(i) = a
        PROVE  e[a] <= e[i]
    <2>1. i \in {2 * a, 2 * a + 1} /\ 2 * a <= limit
      BY <1>1, <1>2, <1>7
    <2>2. ~Less(c, a)
      BY <1>7, <2>1 DEF Sinks, c
    <2>3. c \in 1..limit /\ e[c] <= e[i]
      BY <1>1, <1>4, <2>1
    <2> QED BY <1>1, <1>5, <2>2, <2>3
  <1> QED
    BY <1>6, <1>7 DEF e, c

LEMMA DownInv ==
  ASSUME Inv, Down
  PROVE  Inv'
  <1>1. pc = "down" /\ Sinks
    BY DEF Down
  <1>2. PICK n, a, s, e :
          /\ n = limit /\ a = at /\ s = start /\ e = ExpiryOf(entries)
          /\ n \in Nat /\ a \in 1..n /\ s \in 1..n
    BY <1>1, LoopRange
  <1>3. PICK c \in 2..n :
          /\ c = LesserChild(at) /\ Parent(c) = a /\ e[c] < e[a]
          /\ \A i \in 2..n : Parent(i) = a => e[c] <= e[i]
    BY <1>1, <1>2, Child
  <1>4. Swap(a, c) /\ at' = c /\ pc' = pc /\ start' = s /\ limit' = n /\ call' = call
    BY <1>2, <1>3 DEF Down
  <1>5. a # c /\ a \in 1..Len(entries) /\ c \in 1..Len(entries) /\ c \in 1..n
    BY <1>1, <1>2, <1>3, LoopRange
  <1>6. /\ entries' \in Seq(ExpiryEntry) /\ Len(entries') = Len(entries)
        /\ entries'[a] = entries[c] /\ entries'[c] = entries[a]
        /\ \A i \in 1..Len(entries) : i \notin {a, c} => entries'[i] = entries[i]
        /\ IndexOK'
    BY <1>1, <1>4, <1>5, LoopRange, Swapped
  <1>7. TypeOK' /\ KeyIndexExact'
    BY <1>1, <1>2, <1>4, <1>5, <1>6, LoopRange DEF Inv, TypeOK, IndexOK
  <1>8. PICK f : f = ExpiryOf(entries')
    OBVIOUS
  <1>9. /\ f[a] = e[c] /\ f[c] = e[a]
        /\ \A i \in 1..n : i \notin {a, c} => f[i] = e[i]
        /\ \A i \in 1..n : e[i] \in Nat
    <2>1. \A i \in 1..n : i \in 1..Len(entries)
      BY <1>1, <1>2, LoopRange
    <2>2. \A i \in 1..n : f[i] = entries'[i].expiry
      BY <1>6, <1>8, <2>1, ExpiryType
    <2>3. \A i \in 1..n : e[i] = entries[i].expiry /\ e[i] \in Nat
      BY <1>1, <1>2, LoopRange
    <2>4. a \in 1..n /\ c \in 1..n
      BY <1>2, <1>5
    <2>5. f[a] = e[c] /\ f[c] = e[a]
      BY <1>6, <2>2, <2>3, <2>4
    <2>6. \A i \in 1..n : i \notin {a, c} => f[i] = e[i]
      BY <1>6, <2>1, <2>2, <2>3
    <2> QED BY <2>3, <2>5, <2>6
  <1>10. s <= a /\ Sinking(e, a, n, s) /\ Bridged(e, a, n)
    BY <1>1, <1>2 DEF Inv, LoopOrdered
  <1>11. s <= c /\ Sinking(f, c, n, s) /\ Bridged(f, c, n)
    <2>1. n \in Nat /\ a \in 1..n /\ s \in 1..n
      BY <1>2
    <2>2. \A i \in 2..n : Parent(i) = a => e[c] <= e[i]
      BY <1>3
    <2>3. Parent(c) = a /\ e[c] < e[a]
      BY <1>3
    <2> QED BY <1>9, <1>10, <2>1, <2>2, <2>3, Sunk, SMTT(30)
  <1>12. HeapOrdered' /\ LoopOrdered'
    BY <1>1, <1>4, <1>8, <1>11 DEF HeapOrdered, LoopOrdered
  <1> QED BY <1>7, <1>12 DEF Inv

LEMMA DownDoneInv ==
  ASSUME Inv, DownDone
  PROVE  Inv'
  <1>1. pc = "down" /\ ~Sinks
    BY DEF DownDone
  <1>2. PICK n, a, s, e :
          /\ n = limit /\ a = at /\ s = start /\ e = ExpiryOf(entries)
          /\ n \in Nat /\ a \in 1..n /\ s \in 1..n
    BY <1>1, LoopRange
  <1>3. \A i \in 1..n : e[i] \in Nat
    BY <1>1, <1>2, LoopRange
  <1>4. \A i \in 2..n : Parent(i) = a => e[a] <= e[i]
    BY <1>1, <1>2, Child
  <1>5. Sinking(e, a, n, s) /\ Bridged(e, a, n)
    BY <1>1, <1>2 DEF Inv, LoopOrdered
  <1>6. Rising(e, a, n) /\ (a # s => Ordered(e, n))
    BY <1>2, <1>3, <1>4, <1>5, Stopped
  <1>7. CASE at > start /\ Finish
    BY <1>1, <1>2, <1>6, <1>7, FinishInv
  <1>8. CASE at = start /\ pc' = "up" /\ UNCHANGED <<entries, keyIndex, locals, call>>
    <2>1. /\ entries' = entries /\ keyIndex' = keyIndex /\ at' = at /\ start' = start
          /\ limit' = limit /\ call' = call /\ pc' = "up"
      BY <1>8 DEF locals
    <2>2. TypeOK' /\ KeyIndexExact' /\ HeapOrdered'
      BY <1>1, <2>1 DEF Inv, TypeOK, KeyIndexExact, HeapOrdered
    <2>3. LoopOrdered'
      BY <1>2, <1>5, <1>6, <2>1 DEF LoopOrdered
    <2> QED BY <2>2, <2>3 DEF Inv
  <1> QED BY <1>7, <1>8 DEF DownDone

LEMMA UpInv ==
  ASSUME Inv, Up
  PROVE  Inv'
  <1>1. pc = "up" /\ Rises
    BY DEF Up
  <1>2. PICK n, a, e :
          /\ n = limit /\ a = at /\ e = ExpiryOf(entries)
          /\ n \in Nat /\ a \in 2..n
    BY <1>1, LoopRange DEF Rises
  <1>3. PICK p \in 1..n : p = Parent(at) /\ Parent(a) = p /\ p < a
    BY <1>2, ParentType
  <1>4. \A i \in 1..n : i \in 1..Len(entries) /\ e[i] = entries[i].expiry /\ e[i] \in Nat
    BY <1>1, <1>2, LoopRange
  <1>5. e[a] < e[p]
    BY <1>1, <1>2, <1>3, <1>4 DEF Rises, Less
  <1>6. Swap(p, a) /\ at' = p /\ pc' = pc /\ start' = start /\ limit' = n /\ call' = call
    BY <1>2, <1>3 DEF Up
  <1>7. /\ entries' \in Seq(ExpiryEntry) /\ Len(entries') = Len(entries)
        /\ entries'[p] = entries[a] /\ entries'[a] = entries[p]
        /\ \A i \in 1..Len(entries) : i \notin {p, a} => entries'[i] = entries[i]
        /\ IndexOK'
    BY <1>1, <1>2, <1>3, <1>4, <1>6, LoopRange, Swapped
  <1>8. TypeOK' /\ KeyIndexExact'
    BY <1>1, <1>2, <1>3, <1>6, <1>7, LoopRange DEF Inv, TypeOK, IndexOK
  <1>9. PICK f : f = ExpiryOf(entries')
    OBVIOUS
  <1>10. /\ f[a] = e[p] /\ f[p] = e[a]
         /\ \A i \in 1..n : i \notin {a, p} => f[i] = e[i]
    <2>1. \A i \in 1..n : f[i] = entries'[i].expiry
      BY <1>4, <1>7, <1>9, ExpiryType
    <2>2. a \in 1..n /\ p \in 1..n
      BY <1>2, <1>3
    <2>3. f[a] = e[p] /\ f[p] = e[a]
      BY <1>4, <1>7, <2>1, <2>2
    <2>4. \A i \in 1..n : i \notin {a, p} => f[i] = e[i]
      BY <1>4, <1>7, <2>1
    <2> QED BY <2>3, <2>4
  <1>11. Rising(e, a, n) /\ Bridged(e, a, n)
    BY <1>1, <1>2 DEF Inv, LoopOrdered
  <1>12. Rising(f, p, n) /\ Bridged(f, p, n)
    BY <1>2, <1>3, <1>4, <1>5, <1>10, <1>11, Risen
  <1>13. HeapOrdered' /\ LoopOrdered'
    BY <1>1, <1>6, <1>9, <1>12 DEF HeapOrdered, LoopOrdered
  <1> QED BY <1>8, <1>13 DEF Inv

LEMMA UpDoneInv ==
  ASSUME Inv, UpDone
  PROVE  Inv'
  <1>1. pc = "up" /\ ~Rises /\ Finish
    BY DEF UpDone
  <1>2. PICK n, a, e :
          /\ n = limit /\ a = at /\ e = ExpiryOf(entries)
          /\ n \in Nat /\ a \in 1..n
    BY <1>1, LoopRange
  <1>3. \A i \in 1..n : e[i] = entries[i].expiry /\ e[i] \in Nat
    BY <1>1, <1>2, LoopRange
  <1>4. a > 1 => e[Parent(a)] <= e[a]
    <2> SUFFICES ASSUME a > 1 PROVE e[Parent(a)] <= e[a]
      OBVIOUS
    <2>1. Parent(a) \in 1..n
      BY <1>2, ParentType
    <2>2. ~(entries[a].expiry < entries[Parent(a)].expiry)
      BY <1>1, <1>2 DEF Rises, Less
    <2> QED BY <1>2, <1>3, <2>1, <2>2
  <1>5. Rising(e, a, n)
    BY <1>1, <1>2 DEF Inv, LoopOrdered
  <1>6. Ordered(e, n)
    BY <1>2, <1>3, <1>4, <1>5, Stopped
  <1> QED BY <1>1, <1>2, <1>6, FinishInv

LEMMA InitInv == Init => Inv
  <1> SUFFICES ASSUME Init PROVE Inv
    OBVIOUS
  <1>1. entries = <<>> /\ Len(entries) = 0 /\ entries \in Seq(ExpiryEntry) /\ pc = "idle"
    BY DEF Init
  <1>2. TypeOK
    BY <1>1 DEF Init, TypeOK, EmptyMap, IsPartialMap
  <1>3. KeyIndexExact /\ HeapOrdered /\ LoopOrdered
    BY <1>1 DEF Init, EmptyMap, KeyIndexExact, HeapOrdered, LoopOrdered
  <1> QED BY <1>2, <1>3 DEF Inv

LEMMA NextInv == Inv /\ [Next]_vars => Inv'
  <1> SUFFICES ASSUME Inv, [Next]_vars PROVE Inv'
    OBVIOUS
  <1>1. CASE Next
    BY <1>1, InsertKeyInv, RemoveKeyInv, DownInv, DownDoneInv, UpInv, UpDoneInv DEF Next
  <1>2. CASE UNCHANGED vars
    BY <1>2 DEF vars, locals, Inv, TypeOK, KeyIndexExact, HeapOrdered, LoopOrdered, Less
  <1> QED BY <1>1, <1>2

LEMMA SpecInv == Spec => []Inv
  BY InitInv, NextInv, PTL DEF Spec

-----------------------------------------------------------------------------
(* The root *)

\* Every set of numbers has a least one.
LEMMA LeastNumber ==
  ASSUME NEW T \in SUBSET Nat, T # {}
  PROVE  \E m \in T : \A n \in T : m <= n
  <1> DEFINE U == {0..n : n \in T}
  <1>1. IsWellFoundedOn(StrictSubsetOrdering(Nat), FiniteSubsetsOf(Nat))
    BY FS_StrictSubsetOrderingWellFounded
  <1>2. U \subseteq FiniteSubsetsOf(Nat) /\ U # {}
    <2>1. \A n \in T : 0..n \in FiniteSubsetsOf(Nat)
      <3> TAKE n \in T
      <3>1. IsFiniteSet(0..n) /\ 0..n \in SUBSET Nat
        BY FS_Interval
      <3> QED BY <3>1 DEF FiniteSubsetsOf
    <2> QED BY <2>1
  <1> HIDE DEF U
  <1>3. PICK s \in U : \A r \in U : ~(<<r, s>> \in StrictSubsetOrdering(Nat))
    BY <1>1, <1>2, WFMin
  <1>4. PICK m \in T : s = 0..m
    BY DEF U
  <1>5. ASSUME NEW n \in T, n < m
        PROVE  FALSE
    <2>1. 0..n \in U
      BY DEF U
    <2>2. 0..n \subseteq 0..m /\ 0..n # 0..m
      BY <1>5
    <2>3. 0..n \in SUBSET Nat /\ 0..m \in SUBSET Nat
      OBVIOUS
    <2> QED BY <1>3, <1>4, <2>1, <2>2, <2>3 DEF StrictSubsetOrdering
  <1> QED BY <1>5

\* In order from parent to child is in order from the root to everyone: the
\* first position that were before the root would have a parent before it too.
LEMMA RootLeast ==
  ASSUME NEW n \in Nat, NEW e, \A i \in 1..n : e[i] \in Nat, Ordered(e, n)
  PROVE  \A i \in 1..n : e[1] <= e[i]
  <1> DEFINE T == {i \in 1..n : e[i] < e[1]}
  <1> SUFFICES ASSUME T # {} PROVE FALSE
    OBVIOUS
  <1>1. PICK m \in T : \A i \in T : m <= i
    <2>1. T \in SUBSET Nat
      OBVIOUS
    <2> HIDE DEF T
    <2> QED BY <2>1, LeastNumber
  <1>2. m \in 2..n
    OBVIOUS
  <1>3. Parent(m) \in 1..(m - 1)
    BY <1>2, ParentType
  <1>4. Parent(m) \notin T
    BY <1>1, <1>2, <1>3
  <1>5. e[Parent(m)] <= e[m]
    BY <1>2 DEF Ordered
  <1> QED BY <1>2, <1>3, <1>4, <1>5

-----------------------------------------------------------------------------
(* The map from keys to expiries *)

\* f maps the keys of the entries in S, and no others, to their expiries.
Describes(f, S) ==
  f = [k \in {e.key : e \in S} |-> f[k]] /\ \A e \in S : f[e.key] = e.expiry

FirstOf(s, n) == {s[i] : i \in 1..n}

ContentsOf(s, places, n) ==
  [k \in {s[i].key : i \in 1..n} |-> s[places[k]].expiry]

LEMMA ContentsDescribe ==
  ASSUME NEW s, NEW places, NEW n \in Nat,
         \A i \in 1..n : places[s[i].key] = i
  PROVE  Describes(ContentsOf(s, places, n), FirstOf(s, n))
  <1> DEFINE f == ContentsOf(s, places, n)
  <1>1. {e.key : e \in FirstOf(s, n)} = {s[i].key : i \in 1..n}
    BY DEF FirstOf
  <1>2. f = [k \in {s[i].key : i \in 1..n} |-> f[k]]
    BY DEF ContentsOf
  <1>3. \A e \in FirstOf(s, n) : f[e.key] = e.expiry
    BY DEF FirstOf, ContentsOf
  <1> QED BY <1>1, <1>2, <1>3 DEF Describes

LEMMA DescribeOne ==
  ASSUME NEW f, NEW g, NEW S, Describes(f, S), Describes(g, S)
  PROVE  f = g
  <1>1. \A k \in {e.key : e \in S} : f[k] = g[k]
    BY DEF Describes
  <1> QED BY <1>1 DEF Describes

LEMMA DescribeBind ==
  ASSUME NEW S, NEW T, NEW f, Describes(f, S), NEW x \in T,
         \A e \in S : e.key # x.key => e \in T,
         \A e \in T : e = x \/ (e \in S /\ e.key # x.key)
  PROVE  Describes(Bind(f, x.key, x.expiry), T)
  <1> DEFINE D == {e.key : e \in S}
             g == Bind(f, x.key, x.expiry)
  <1>1. DOMAIN f = D /\ \A e \in S : f[e.key] = e.expiry
    BY DEF Describes
  <1>2. {e.key : e \in T} = D \cup {x.key}
    OBVIOUS
  <1>3. /\ g = [k \in D \cup {x.key} |-> g[k]]
        /\ g[x.key] = x.expiry
        /\ \A k \in D : k # x.key => g[k] = f[k]
    BY <1>1 DEF Bind
  <1>4. \A e \in T : g[e.key] = e.expiry
    BY <1>1, <1>3
  <1> QED BY <1>2, <1>3, <1>4 DEF Describes

LEMMA DescribeUnbind ==
  ASSUME NEW S, NEW T, NEW f, Describes(f, S), NEW k,
         \A e : e \in T <=> (e \in S /\ e.key # k)
  PROVE  Describes(Unbind(f, k), T)
  <1> DEFINE D == {e.key : e \in S}
             g == Unbind(f, k)
  <1>1. DOMAIN f = D /\ \A e \in S : f[e.key] = e.expiry
    BY DEF Describes
  <1>2. {e.key : e \in T} = D \ {k}
    OBVIOUS
  <1>3. /\ g = [j \in D \ {k} |-> g[j]]
        /\ \A j \in D : j # k => g[j] = f[j]
    BY <1>1 DEF Unbind, Restrict
  <1>4. \A e \in T : g[e.key] = e.expiry
    BY <1>1, <1>3
  <1> QED BY <1>2, <1>3, <1>4 DEF Describes

\* The loops move the entries but neither add nor lose one.
LEMMA SwapKeeps ==
  ASSUME NEW n \in Nat, NEW s, NEW t, NEW i \in 1..n, NEW j \in 1..n,
         t[i] = s[j], t[j] = s[i], \A x \in 1..n : x \notin {i, j} => t[x] = s[x]
  PROVE  FirstOf(t, n) = FirstOf(s, n)
  <1>1. \A x \in 1..n : t[x] \in FirstOf(s, n) /\ s[x] \in FirstOf(t, n)
    BY DEF FirstOf
  <1> QED BY <1>1 DEF FirstOf

LEMMA InvContents ==
  /\ Inv => Scheduled \in Nat /\ Describes(Contents, FirstOf(entries, Scheduled))
  /\ Inv' => Scheduled' \in Nat /\ Describes(Contents', FirstOf(entries', Scheduled'))
  <1>1. ASSUME Inv
        PROVE  Scheduled \in Nat /\ \A i \in 1..Scheduled : keyIndex[entries[i].key] = i
    <2>1. Len(entries) \in Nat /\ Scheduled \in Nat /\ Scheduled <= Len(entries)
      BY <1>1, ExpiryType DEF Inv, TypeOK, Scheduled
    <2> QED BY <1>1, <2>1 DEF Inv, KeyIndexExact
  <1>2. ASSUME Inv'
        PROVE  Scheduled' \in Nat /\ \A i \in 1..Scheduled' : keyIndex'[entries'[i].key] = i
    <2>1. Len(entries') \in Nat /\ Scheduled' \in Nat /\ Scheduled' <= Len(entries')
      BY <1>2, ExpiryType DEF Inv, TypeOK, Scheduled
    <2> QED BY <1>2, <2>1 DEF Inv, KeyIndexExact
  <1>3. /\ Contents = ContentsOf(entries, keyIndex, Scheduled)
        /\ Contents' = ContentsOf(entries', keyIndex', Scheduled')
    BY DEF Contents, ContentsOf
  <1> QED BY <1>1, <1>2, <1>3, ContentsDescribe

LEMMA ContentsSame ==
  ASSUME Inv, Inv', FirstOf(entries', Scheduled') = FirstOf(entries, Scheduled)
  PROVE  Contents' = Contents
  BY InvContents, DescribeOne

-----------------------------------------------------------------------------
(* ExpiryHeap implements ExpiryMap *)

LEMMA SameOperators ==
  /\ Abstract!EmptyMap = EmptyMap /\ Abstract!NoCall = NoCall
  /\ \A f, k, x : Abstract!Schedule(f, k, x) = Schedule(f, k, x)
  BY DEF Abstract!EmptyMap, EmptyMap, Abstract!NoCall, NoCall, Abstract!Schedule, Schedule,
         Abstract!Bind, Bind, Abstract!Unbind, Unbind, Abstract!Restrict, Restrict

LEMMA FinishImplements ==
  ASSUME Inv, Inv', pc # "idle", Finish
  PROVE  Contents' = Contents /\ call' = call
  <1>1. /\ entries \in Seq(ExpiryEntry) /\ IndexOK
        /\ limit \in Nat /\ limit > 0 /\ limit \in {Len(entries), Len(entries) - 1}
    BY LoopRange
  <1>2. Len(entries') = limit /\ \A i \in 1..limit : entries'[i] = entries[i]
    <2>1. CASE limit < Len(entries)
      <3>1. Pop /\ entries # <<>>
        BY <1>1, <2>1 DEF Finish
      <3> QED BY <1>1, <2>1, <3>1, Popped, ExpiryType
    <2>2. CASE limit = Len(entries)
      BY <1>1, <2>2 DEF Finish
    <2> QED BY <1>1, <2>1, <2>2, ExpiryType
  <1>3. Scheduled = limit /\ Scheduled' = limit
    BY <1>2 DEF Finish, Scheduled
  <1>4. FirstOf(entries', Scheduled') = FirstOf(entries, Scheduled)
    BY <1>2, <1>3 DEF FirstOf
  <1> QED BY <1>4, ContentsSame DEF Finish

LEMMA LoopImplements ==
  ASSUME Inv, Inv', Down \/ DownDone \/ Up \/ UpDone
  PROVE  Contents' = Contents /\ call' = call
  <1>1. ASSUME NEW i \in 1..limit, NEW j \in 1..limit, i # j, pc # "idle", Swap(i, j),
               UNCHANGED <<pc, limit, call>>
        PROVE  Contents' = Contents /\ call' = call
    <2>1. PICK n \in Nat : /\ n = limit /\ n <= Len(entries) /\ n = Scheduled /\ n = Scheduled'
                           /\ i \in 1..n /\ j \in 1..n
                           /\ \A x \in 1..n : x \in 1..Len(entries)
      BY <1>1, LoopRange DEF Scheduled
    <2>2. /\ entries'[i] = entries[j] /\ entries'[j] = entries[i]
          /\ \A x \in 1..n : x \notin {i, j} => entries'[x] = entries[x]
      BY <1>1, <2>1, LoopRange, Swapped
    <2>3. FirstOf(entries', n) = FirstOf(entries, n)
      BY <2>1, <2>2, SwapKeeps
    <2> QED BY <1>1, <2>1, <2>3, ContentsSame
  <1>2. CASE Down
    <2>1. /\ pc = "down" /\ Swap(at, LesserChild(at)) /\ UNCHANGED <<pc, limit, call>>
          /\ at \in 1..limit /\ limit \in Nat
      BY <1>2, LoopRange DEF Down
    <2>2. LesserChild(at) \in 2..limit /\ Parent(LesserChild(at)) = at
      BY <1>2, <2>1, Child DEF Down
    <2>3. at # LesserChild(at) /\ LesserChild(at) \in 1..limit
      BY <2>1, <2>2, ParentType
    <2> QED BY <1>1, <2>1, <2>3
  <1>3. CASE DownDone
    <2>1. CASE Finish
      BY <1>3, <2>1, FinishImplements DEF DownDone
    <2>2. CASE pc' = "up" /\ UNCHANGED <<entries, keyIndex, locals, call>>
      BY <1>3, <2>2 DEF DownDone, locals, Contents, Scheduled
    <2> QED BY <1>3, <2>1, <2>2 DEF DownDone
  <1>4. CASE Up
    <2>1. /\ pc = "up" /\ Swap(Parent(at), at) /\ UNCHANGED <<pc, limit, call>>
          /\ at > 1 /\ at \in 1..limit /\ limit \in Nat
      BY <1>4, LoopRange DEF Up, Rises
    <2>2. Parent(at) # at /\ Parent(at) \in 1..limit
      BY <2>1, ParentType
    <2> QED BY <1>1, <2>1, <2>2
  <1>5. CASE UpDone
    BY <1>5, FinishImplements DEF UpDone
  <1> QED BY <1>2, <1>3, <1>4, <1>5

LEMMA InsertImplements ==
  ASSUME Inv, Inv', NEW k \in Keys, NEW expiry \in Expiries, InsertKey(k, expiry)
  PROVE  Contents' = Schedule(Contents, k, expiry) /\ call' = [key |-> k, expiry |-> expiry]
  <1>1. /\ entries \in Seq(ExpiryEntry) /\ IndexOK /\ pc = "idle"
        /\ call' = [key |-> k, expiry |-> expiry]
    BY DEF Inv, TypeOK, IndexOK, InsertKey
  <1>2. PICK n \in Nat : n = Len(entries) /\ n = Scheduled
    BY <1>1, ExpiryType DEF Scheduled
  <1>3. Describes(Contents, FirstOf(entries, n))
    BY <1>2, InvContents
  <1>4. Schedule(Contents, k, expiry) = Bind(Contents, k, expiry)
    BY ExpiryAssumption DEF Schedule
  <1>5. PICK x \in ExpiryEntry : x = [key |-> k, expiry |-> expiry] /\ x.key = k /\ x.expiry = expiry
    <2>1. [key |-> k, expiry |-> expiry] \in ExpiryEntry
      BY DEF ExpiryEntry
    <2> QED BY <2>1
  <1>6. \A i \in 1..n : entries[i] \in ExpiryEntry /\ keyIndex[entries[i].key] = i
                        /\ entries[i].key \in DOMAIN keyIndex
    BY <1>1, <1>2, ExpiryType DEF IndexOK, KeyIndexExact
  <1>7. ASSUME NEW a \in 1..Scheduled', Scheduled' \in Nat, entries'[a] = x,
               \A i \in 1..n : entries[i].key # k => i \in 1..Scheduled' /\ i # a,
               \A i \in 1..Scheduled' : i # a => /\ i \in 1..n /\ entries'[i] = entries[i]
                                                /\ entries[i].key # k
        PROVE  Contents' = Bind(Contents, k, expiry)
    <2>1. x \in FirstOf(entries', Scheduled')
      BY <1>7 DEF FirstOf
    <2>2. \A e \in FirstOf(entries, n) : e.key # x.key => e \in FirstOf(entries', Scheduled')
      BY <1>5, <1>7 DEF FirstOf
    <2>3. \A e \in FirstOf(entries', Scheduled') :
            e = x \/ (e \in FirstOf(entries, n) /\ e.key # x.key)
      <3>1. \A i \in 1..Scheduled' :
              entries'[i] = x \/ (entries'[i] \in FirstOf(entries, n) /\ entries'[i].key # k)
        <4> TAKE i \in 1..Scheduled'
        <4>1. CASE i = a
          BY <1>7, <4>1
        <4>2. CASE i # a
          <5>1. i \in 1..n /\ entries'[i] = entries[i] /\ entries[i].key # k
            BY <1>7, <4>2
          <5> QED BY <5>1 DEF FirstOf
        <4> QED BY <4>1, <4>2
      <3> QED BY <1>5, <3>1 DEF FirstOf
    <2>4. Describes(Bind(Contents, x.key, x.expiry), FirstOf(entries', Scheduled'))
      BY <1>3, <2>1, <2>2, <2>3, DescribeBind
    <2> QED BY <1>5, <2>4, InvContents, DescribeOne
  <1>8. CASE k \in DOMAIN keyIndex /\ Fix(k, expiry)
    <2>1. PICK a \in 1..n : a = keyIndex[k] /\ entries[a].key = k
      BY <1>1, <1>2, <1>8 DEF IndexOK, IsPartialMap, KeyIndexExact
    <2>2. /\ entries' = [entries EXCEPT ![a].expiry = expiry]
          /\ pc' = "down" /\ limit' = n
      BY <1>2, <1>8, <2>1 DEF Fix, Sift
    <2>3. [entries[a] EXCEPT !.expiry = expiry] = x
      BY <1>5, <1>6, <2>1 DEF ExpiryEntry
    <2>4. entries' = [entries EXCEPT ![a] = x]
      BY <2>2, <2>3
    <2>5. Scheduled' = n /\ entries'[a] = x /\ \A i \in 1..n : i # a => entries'[i] = entries[i]
      BY <1>1, <1>2, <2>2, <2>4 DEF Scheduled
    <2>6. \A i \in 1..n : entries[i].key = k <=> i = a
      BY <1>6, <2>1
    <2> QED BY <1>1, <1>4, <1>7, <2>5, <2>6
  <1>9. CASE /\ k \notin DOMAIN keyIndex
             /\ Push([key |-> k, expiry |-> expiry])
             /\ Sift("up", Len(entries) + 1, Len(entries) + 1)
    <2>1. entries' = Append(entries, x) /\ pc' = "up" /\ limit' = n + 1
      BY <1>2, <1>5, <1>9 DEF Push, Sift
    <2>2. Scheduled' = n + 1 /\ entries'[n + 1] = x /\ \A i \in 1..n : entries'[i] = entries[i]
      BY <1>1, <1>2, <1>5, <2>1, AppendProperties DEF Scheduled
    <2>3. \A i \in 1..n : entries[i].key # k
      BY <1>6, <1>9
    <2> QED BY <1>1, <1>4, <1>7, <2>2, <2>3
  <1> QED BY <1>8, <1>9 DEF InsertKey

LEMMA RemoveImplements ==
  ASSUME Inv, Inv', NEW k \in Keys, RemoveKey(k)
  PROVE  Contents' = Schedule(Contents, k, 0) /\ call' = [key |-> k, expiry |-> 0]
  <1>1. /\ entries \in Seq(ExpiryEntry) /\ IndexOK /\ pc = "idle"
        /\ call' = [key |-> k, expiry |-> 0]
    BY DEF Inv, TypeOK, IndexOK, RemoveKey
  <1>2. PICK n \in Nat : n = Len(entries) /\ n = Scheduled
    BY <1>1, ExpiryType DEF Scheduled
  <1>3. Describes(Contents, FirstOf(entries, n))
    BY <1>2, InvContents
  <1>4. Schedule(Contents, k, 0) = Unbind(Contents, k)
    BY DEF Schedule
  <1>5. \A i \in 1..n : keyIndex[entries[i].key] = i /\ entries[i].key \in DOMAIN keyIndex
    BY <1>1, <1>2 DEF IndexOK, KeyIndexExact
  <1>6. ASSUME \A e : e \in FirstOf(entries', Scheduled')
                        <=> e \in FirstOf(entries, n) /\ e.key # k
        PROVE  Contents' = Unbind(Contents, k)
    <2>1. Describes(Unbind(Contents, k), FirstOf(entries', Scheduled'))
      BY <1>3, <1>6, DescribeUnbind
    <2> QED BY <2>1, InvContents, DescribeOne
  <1>7. CASE k \notin DOMAIN keyIndex
    <2>1. entries' = entries /\ Scheduled' = n
      BY <1>1, <1>2, <1>7 DEF RemoveKey, locals, Scheduled
    <2>2. \A i \in 1..n : entries[i].key # k
      BY <1>5, <1>7
    <2>3. \A e : e \in FirstOf(entries', Scheduled') <=> e \in FirstOf(entries, n) /\ e.key # k
      BY <2>1, <2>2 DEF FirstOf
    <2> QED BY <1>1, <1>4, <1>6, <2>3
  <1>8. CASE k \in DOMAIN keyIndex
    <2>1. PICK a \in 1..n : a = keyIndex[k] /\ entries[a].key = k
      BY <1>1, <1>2, <1>8 DEF IndexOK, IsPartialMap, KeyIndexExact
    <2>2. \A i \in 1..n : entries[i].key = k <=> i = a
      BY <1>5, <2>1
    <2>3. /\ Scheduled' = n - 1
          /\ a # n => entries'[a] = entries[n]
          /\ \A i \in 1..(n - 1) : i # a => entries'[i] = entries[i]
      <3>1. CASE a = n
        <4>1. Pop /\ pc' = "idle"
          BY <1>1, <1>2, <1>8, <2>1, <3>1 DEF RemoveKey
        <4>2. Len(entries) # 0
          BY <1>2
        <4>3. entries # <<>>
          BY <4>2
        <4> QED BY <1>1, <1>2, <3>1, <4>1, <4>3, Popped DEF Scheduled
      <3>2. CASE a # n
        <4>1. /\ Swap(a, n) /\ pc' = "down" /\ limit' = n - 1
              /\ a \in 1..Len(entries) /\ n \in 1..Len(entries)
          BY <1>2, <1>8, <2>1, <3>2 DEF RemoveKey, Sift
        <4> QED BY <1>1, <1>2, <3>2, <4>1, Swapped DEF Scheduled
      <3> QED BY <3>1, <3>2
    <2>4. \A i \in 1..(n - 1) :
            /\ i # a => entries'[i] = entries[i] /\ i \in 1..n /\ i # a
            /\ i = a => entries'[i] = entries[n] /\ n \in 1..n /\ n # a
      BY <2>3
    <2>5. \A i \in 1..n : i # a => \E j \in 1..(n - 1) : entries'[j] = entries[i]
      BY <2>3
    <2>6. ASSUME NEW e
          PROVE  e \in FirstOf(entries', n - 1) <=> e \in FirstOf(entries, n) /\ e.key # k
      <3>1. e \in FirstOf(entries', n - 1) => e \in FirstOf(entries, n) /\ e.key # k
        BY <2>2, <2>4 DEF FirstOf
      <3>2. e \in FirstOf(entries, n) /\ e.key # k => e \in FirstOf(entries', n - 1)
        BY <2>2, <2>5 DEF FirstOf
      <3> QED BY <3>1, <3>2
    <2> QED BY <1>1, <1>4, <1>6, <2>3, <2>6
  <1> QED BY <1>7, <1>8

LEMMA NextImplements ==
  Inv /\ Inv' /\ [Next]_vars => [Abstract!Next]_<<Contents, call>>
  <1> SUFFICES ASSUME Inv, Inv', [Next]_vars PROVE [Abstract!Next]_<<Contents, call>>
    OBVIOUS
  <1>1. CASE \E k \in Keys, expiry \in Expiries : InsertKey(k, expiry)
    <2>1. PICK k \in Keys, expiry \in Expiries : InsertKey(k, expiry)
      BY <1>1
    <2>2. Abstract!Step(k, expiry)
      BY <2>1, InsertImplements, SameOperators DEF Abstract!Step
    <2> QED BY <2>2 DEF Abstract!Next
  <1>2. CASE \E k \in Keys : RemoveKey(k)
    <2>1. PICK k \in Keys : RemoveKey(k)
      BY <1>2
    <2>2. Abstract!Step(k, 0)
      BY <2>1, RemoveImplements, SameOperators DEF Abstract!Step
    <2> QED BY <2>2 DEF Abstract!Next
  <1>3. CASE Down \/ DownDone \/ Up \/ UpDone
    BY <1>3, LoopImplements
  <1>4. CASE UNCHANGED vars
    BY <1>4 DEF vars, locals, Contents, Scheduled
  <1> QED BY <1>1, <1>2, <1>3, <1>4 DEF Next

-----------------------------------------------------------------------------
(* Theorems *)

\* The heap, its key index and the places the loops of container/heap are at keep
\* their types: no index leaves the slice, also when the last entry is removed.
THEOREM TypeCorrect == Spec => []TypeOK
  <1>1. Inv => TypeOK
    BY DEF Inv
  <1> QED
    BY <1>1, SpecInv, PTL

\* Every position a call finds for a key is where its entry is, however the
\* loops have moved it.
THEOREM KeyIndexStaysExact == Spec => []KeyIndexExact
  <1>1. Inv => KeyIndexExact
    BY DEF Inv
  <1> QED
    BY <1>1, SpecInv, PTL

\* Whatever is inserted, rescheduled or removed, the heap is in order again
\* when the call returns.
THEOREM HeapStaysOrdered == Spec => []HeapOrdered
  <1>1. Inv => HeapOrdered
    BY DEF Inv
  <1> QED
    BY <1>1, SpecInv, PTL

\* The entry expireKeys peeks at is one with the earliest expiry, for any number
\* of entries: if it is not due, none is.
THEOREM RootStaysEarliest == Spec => []RootIsEarliest
  <1>1. ASSUME Inv, pc = "idle", entries # <<>>
        PROVE  entries[1].key \in PeekMin([NewIndex EXCEPT !.heap = Contents])
    <2>1. PICK n \in Nat : n = Len(entries) /\ n = Scheduled /\ n > 0
      BY <1>1, ExpiryType, EmptySeq DEF Inv, TypeOK, Scheduled
    <2>2. Describes(Contents, FirstOf(entries, n))
      BY <1>1, <2>1, InvContents
    <2>3. \A i \in 1..n : entries[1].expiry <= entries[i].expiry
      <3>1. \A i \in 1..n : ExpiryOf(entries)[i] = entries[i].expiry /\ ExpiryOf(entries)[i] \in Nat
        BY <1>1, <2>1, ExpiryType DEF Inv, TypeOK
      <3>2. Ordered(ExpiryOf(entries), n)
        BY <1>1, <2>1, HeapOf DEF Inv, TypeOK, HeapOrdered, Less
      <3>3. 1 \in 1..n
        BY <2>1
      <3> QED BY <3>1, <3>2, <3>3, RootLeast
    <2>4. entries[1] \in FirstOf(entries, n)
      BY <2>1 DEF FirstOf
    <2>5. \A e \in FirstOf(entries, n) : entries[1].expiry <= e.expiry
      BY <2>3 DEF FirstOf
    <2>6. /\ entries[1].key \in DOMAIN Contents
          /\ \A k \in DOMAIN Contents : Contents[entries[1].key] <= Contents[k]
      BY <2>2, <2>4, <2>5 DEF Describes
    <2>7. [NewIndex EXCEPT !.heap = Contents].heap = Contents
      BY DEF NewIndex
    <2> HIDE DEF NewIndex
    <2> QED BY <2>6, <2>7 DEF PeekMin
  <1>2. Inv => RootIsEarliest
    BY <1>1 DEF RootIsEarliest
  <1> QED
    BY <1>2, SpecInv, PTL

\* Each call does to the map from keys to expiries what the worker's index
\* expects of it, in one step, and the loops that restore the order, seen from
\* outside, do nothing: they lose no entry, bring none back and change none.
THEOREM ExpiryHeapImplementsExpiryMap == Spec => ImplementsExpiryMap
  <1>1. Init => Abstract!Init
    <2> SUFFICES ASSUME Init PROVE Abstract!Init
      OBVIOUS
    <2>1. entries = <<>> /\ Scheduled = 0 /\ call = NoCall
      BY DEF Init, Scheduled
    <2>2. Contents = EmptyMap
      BY <2>1 DEF Contents, EmptyMap
    <2> QED BY <2>1, <2>2, SameOperators DEF Abstract!Init
  <1> QED
    BY <1>1, SpecInv, NextImplements, PTL DEF Spec, ImplementsExpiryMap, Abstract!Spec
=============================================================================
