---------------------------- MODULE ServerProofs ----------------------------
(***************************************************************************)
(* Proofs about Server: the limit on connections holds and the counter is  *)
(* exact, for any finite number of clients and any limit.                  *)
(***************************************************************************)
EXTENDS Server, FiniteSetTheorems, SequenceTheorems, TLAPS

\* The accept loop tests a number that can only have become smaller since.
LoadedIsUpperBound == loop = "decide" => currConns <= curr

\* A connection that waits for a decision has no goroutine yet, and waits once.
Undecided(c) == handler[c] = "none" /\ client[c] # "away"

Waiting ==
  /\ \A i \in 1..Len(backlog) : Undecided(backlog[i])
  /\ \A i, j \in 1..Len(backlog) : backlog[i] = backlog[j] => i = j
  /\ loop # "accept" =>
       /\ Undecided(conn)
       /\ \A i \in 1..Len(backlog) : backlog[i] # conn

Inv == TypeOK /\ CounterExact /\ LoadedIsUpperBound /\ Waiting

-----------------------------------------------------------------------------
(* How the set of handled connections changes. *)

LEMMA HandledFinite ==
  IsFiniteSet(Handled) /\ Cardinality(Handled) \in Nat
  BY ServerAssumption, FS_Subset, FS_CardinalityType DEF Handled

\* An admitted connection takes one place.
LEMMA HandledGrows ==
  ASSUME NEW c \in Conns, TypeOK, handler[c] = "none",
         handler' = [handler EXCEPT ![c] = "peek"]
  PROVE  Cardinality(Handled') = Cardinality(Handled) + 1
  <1>1. Handled' = Handled \union {c} /\ c \notin Handled
    BY DEF TypeOK, Handled
  <1> QED
    BY <1>1, HandledFinite, FS_AddElement

\* A goroutine that ends gives one place back.
LEMMA HandledShrinks ==
  ASSUME NEW c \in Conns, TypeOK, handler[c] # "none",
         handler' = [handler EXCEPT ![c] = "none"]
  PROVE  /\ Cardinality(Handled') = Cardinality(Handled) - 1
         /\ Cardinality(Handled) > 0
  <1>1. Handled' = Handled \ {c} /\ c \in Handled
    BY DEF TypeOK, Handled
  <1>2. Cardinality(Handled) # 0
    BY <1>1, HandledFinite, FS_EmptySet
  <1> QED
    BY <1>1, <1>2, HandledFinite, FS_RemoveElement

\* Between these, a goroutine keeps its place.
LEMMA HandledStays ==
  ASSUME NEW c \in Conns, TypeOK, handler[c] # "none", NEW at, at # "none",
         handler' = [handler EXCEPT ![c] = at]
  PROVE  Handled' = Handled
  BY DEF TypeOK, Handled

-----------------------------------------------------------------------------

LEMMA InitInv == Init => Inv
  <1> SUFFICES ASSUME Init PROVE Inv
    OBVIOUS
  <1> USE ServerAssumption DEF Init
  <1>1. TypeOK /\ LoadedIsUpperBound /\ Waiting
    BY DEF TypeOK, LoadedIsUpperBound, Waiting
  <1>2. Handled = {}
    BY DEF Handled
  <1>3. CounterExact
    BY <1>2, FS_EmptySet DEF CounterExact
  <1> QED
    BY <1>1, <1>3 DEF Inv

LEMMA NextInv == Inv /\ [Next]_vars => Inv'
  <1> SUFFICES ASSUME Inv, [Next]_vars PROVE Inv'
    OBVIOUS
  <1> USE ServerAssumption
  <1>0. TypeOK /\ CounterExact /\ LoadedIsUpperBound /\ Waiting
    BY DEF Inv
  <1>1. ASSUME NEW c \in Conns, Dial(c) PROVE Inv'
    <2> USE <1>0, <1>1 DEF Dial
    <2>1. TypeOK'
      BY DEF TypeOK
    <2>2. CounterExact' /\ LoadedIsUpperBound'
      BY DEF CounterExact, Handled, LoadedIsUpperBound
    <2>3. Waiting'
      BY DEF Waiting, Undecided, TypeOK
    <2> QED BY <2>1, <2>2, <2>3 DEF Inv
  <1>2. ASSUME NEW c \in Conns, SendFirstByte(c) \/ Leave(c) PROVE Inv'
    <2> USE <1>0, <1>2 DEF SendFirstByte, Leave
    <2>1. TypeOK'
      BY DEF TypeOK
    <2>2. CounterExact' /\ LoadedIsUpperBound'
      BY DEF CounterExact, Handled, LoadedIsUpperBound
    <2>3. Waiting'
      BY DEF Waiting, Undecided, TypeOK
    <2> QED BY <2>1, <2>2, <2>3 DEF Inv
  <1>3. CASE Accept
    <2> USE <1>0, <1>3 DEF Accept
    <2>1. TypeOK'
      BY DEF TypeOK
    <2>2. CounterExact' /\ LoadedIsUpperBound'
      BY DEF CounterExact, Handled, LoadedIsUpperBound
    <2>3. Waiting'
      BY DEF Waiting, Undecided, TypeOK
    <2> QED BY <2>1, <2>2, <2>3 DEF Inv
  <1>4. CASE Load
    BY <1>0, <1>4 DEF Load, Inv, TypeOK, CounterExact, Handled,
                      LoadedIsUpperBound, Waiting, Undecided
  <1>5. CASE Reject
    <2> USE <1>0, <1>5 DEF Reject, Again
    <2>1. TypeOK'
      BY DEF TypeOK
    <2>2. CounterExact' /\ LoadedIsUpperBound'
      BY DEF CounterExact, Handled, LoadedIsUpperBound
    <2>3. Waiting'
      BY DEF Waiting, Undecided, TypeOK
    <2> QED BY <2>1, <2>2, <2>3 DEF Inv
  <1>6. CASE Admit
    <2> USE <1>0, <1>6 DEF Admit, Again
    <2>1. currConns < MaxConnections
      BY DEF Full, LoadedIsUpperBound, TypeOK
    <2>2. conn \in Conns /\ handler[conn] = "none"
      BY DEF TypeOK, Waiting, Undecided
    <2>3. TypeOK'
      BY <2>1, <2>2 DEF TypeOK
    <2>4. CounterExact'
      BY <2>2, HandledGrows DEF CounterExact
    <2>5. LoadedIsUpperBound' /\ Waiting'
      BY <2>2 DEF LoadedIsUpperBound, Waiting, Undecided, TypeOK
    <2> QED BY <2>3, <2>4, <2>5 DEF Inv
  <1>7. ASSUME NEW c \in Conns, FirstByte(c) \/ PeekFails(c) \/ Return(c)
        PROVE  Inv'
    <2> USE <1>0, <1>7 DEF FirstByte, PeekFails, Return
    <2>1. TypeOK'
      BY DEF TypeOK
    <2>2. CounterExact' /\ LoadedIsUpperBound'
      BY HandledStays DEF CounterExact, LoadedIsUpperBound
    <2>3. Waiting'
      BY DEF Waiting, Undecided, TypeOK
    <2> QED BY <2>1, <2>2, <2>3 DEF Inv
  <1>8. ASSUME NEW c \in Conns, CloseConn(c) PROVE Inv'
    <2> USE <1>0, <1>8 DEF CloseConn
    <2>1. TypeOK'
      BY DEF TypeOK
    <2>2. CounterExact' /\ LoadedIsUpperBound'
      BY HandledStays DEF CounterExact, LoadedIsUpperBound
    <2>3. Waiting'
      BY DEF Waiting, Undecided, TypeOK
    <2> QED BY <2>1, <2>2, <2>3 DEF Inv
  <1>9. ASSUME NEW c \in Conns, Release(c) PROVE Inv'
    <2> USE <1>0, <1>9 DEF Release
    <2>1. Cardinality(Handled') = Cardinality(Handled) - 1 /\ currConns > 0
      BY HandledShrinks DEF CounterExact
    <2>2. TypeOK'
      BY <2>1 DEF TypeOK
    <2>3. CounterExact' /\ LoadedIsUpperBound'
      BY <2>1 DEF CounterExact, LoadedIsUpperBound, TypeOK
    <2>4. Waiting'
      BY DEF Waiting, Undecided, TypeOK
    <2> QED BY <2>2, <2>3, <2>4 DEF Inv
  <1>10. CASE UNCHANGED vars
    BY <1>0, <1>10 DEF vars, Inv, TypeOK, CounterExact, Handled,
                       LoadedIsUpperBound, Waiting, Undecided
  <1> QED
    BY <1>1, <1>2, <1>3, <1>4, <1>5, <1>6, <1>7, <1>8, <1>9, <1>10
    DEF Next, Start, HandleConnection

LEMMA SpecInv == Spec => []Inv
  BY InitInv, NextInv, PTL DEF Spec

\* The variables of the accept loop and its goroutines keep their types.
THEOREM TypeCorrect == Spec => []TypeOK
  <1>1. Inv => TypeOK
    BY DEF Inv
  <1> QED
    BY <1>1, SpecInv, PTL

\* Whichever way connections end, the counter is the number of goroutines.
THEOREM CounterStaysExact == Spec => []CounterExact
  <1>1. Inv => CounterExact
    BY DEF Inv
  <1> QED
    BY <1>1, SpecInv, PTL

\* For any limit and any number of clients, at most MaxConnections connections
\* are served at a time: one accept loop is enough to make the separate test
\* and increment safe.
THEOREM LimitAlwaysHolds == Spec => []LimitHolds
  <1>1. Inv => LimitHolds
    BY ServerAssumption DEF Inv, TypeOK, CounterExact, LimitHolds
  <1> QED
    BY <1>1, SpecInv, PTL
=============================================================================
