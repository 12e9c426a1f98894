------------------------------- MODULE Server -------------------------------
(***************************************************************************)
(* The network server of pkg/server/server.go: an accept loop that limits  *)
(* the number of connections and one goroutine per connection, up to the   *)
(* choice of the protocol.  What a protocol handler does with its commands *)
(* is left out: it returns once its client has gone, and may return before *)
(* (QUIT, errors).                                                         *)
(***************************************************************************)
EXTENDS Integers, Sequences, FiniteSets

CONSTANTS
  Conns,           \* the connections that clients open, again and again
  MaxConnections,
  NoConn           \* none of them

ASSUME ServerAssumption ==
  IsFiniteSet(Conns) /\ MaxConnections \in Nat /\ NoConn \notin Conns

VARIABLES
  backlog,    \* connections waiting for Accept, in order
  loop,       \* where the accept loop is: "accept", "load" or "decide"
  conn,       \* its connection
  curr,       \* the counter as it has loaded it
  currConns,  \* the counter
  handler,    \* where the goroutine of each connection is: "none", "peek",
              \* "serve", "close" or "release"
  client      \* the other end: "away", "silent", "talking", or it has closed
              \* its end before ("gone") or after ("left") sending a byte

vars == <<backlog, loop, conn, curr, currConns, handler, client>>

HasSent == {"talking", "left"}
Departed == {"gone", "left"}

-----------------------------------------------------------------------------
(* Clients *)

Dial(c) ==
  /\ client[c] = "away" /\ handler[c] = "none"
  /\ client' = [client EXCEPT ![c] = "silent"]
  /\ backlog' = Append(backlog, c)
  /\ UNCHANGED <<loop, conn, curr, currConns, handler>>

SendFirstByte(c) ==
  /\ client[c] = "silent"
  /\ client' = [client EXCEPT ![c] = "talking"]
  /\ UNCHANGED <<backlog, loop, conn, curr, currConns, handler>>

Leave(c) ==
  /\ client[c] \in {"silent", "talking"}
  /\ client' = [client EXCEPT ![c] = IF @ = "silent" THEN "gone" ELSE "left"]
  /\ UNCHANGED <<backlog, loop, conn, curr, currConns, handler>>

-----------------------------------------------------------------------------
(* The accept loop.  An error of Accept goes around the loop. *)

Accept ==
  /\ loop = "accept" /\ backlog # <<>>
  /\ loop' = "load" /\ conn' = Head(backlog) /\ backlog' = Tail(backlog)
  /\ UNCHANGED <<curr, currConns, handler, client>>

Load ==
  /\ loop = "load"
  /\ curr' = currConns /\ loop' = "decide"
  /\ UNCHANGED <<backlog, conn, currConns, handler, client>>

Again == loop' = "accept" /\ conn' = NoConn /\ curr' = 0

\* Mutants: the limit is taken for the last number that is let in; a rejected
\* connection gives back a place it never had; the loop waits for a place.
FullLate == curr > MaxConnections
RejectReleases ==
  /\ loop = "decide" /\ curr >= MaxConnections
  /\ Again
  /\ client' = [client EXCEPT ![conn] = "away"]
  /\ currConns' = currConns - 1
  /\ UNCHANGED <<backlog, handler>>
RejectWaits ==
  /\ loop = "decide" /\ curr >= MaxConnections
  /\ loop' = "load"
  /\ UNCHANGED <<backlog, conn, curr, currConns, handler, client>>

Full == curr >= MaxConnections

Reject ==
  /\ loop = "decide" /\ Full
  /\ Again
  /\ client' = [client EXCEPT ![conn] = "away"]
  /\ UNCHANGED <<backlog, currConns, handler>>

Admit ==
  /\ loop = "decide" /\ ~Full
  /\ Again
  /\ currConns' = currConns + 1
  /\ handler' = [handler EXCEPT ![conn] = "peek"]
  /\ UNCHANGED <<backlog, client>>

-----------------------------------------------------------------------------
(* handleConnection *)

\* The first byte arrives before the read deadline, which is then reset.
FirstByte(c) ==
  /\ handler[c] = "peek" /\ client[c] \in HasSent
  /\ handler' = [handler EXCEPT ![c] = "serve"]
  /\ UNCHANGED <<backlog, loop, conn, curr, currConns, client>>

\* Mutants: there is no deadline for the first byte; the place is only given
\* back by connections that were served.
PeekFailsOnEOF(c) ==
  /\ handler[c] = "peek" /\ client[c] = "gone"
  /\ handler' = [handler EXCEPT ![c] = "close"]
  /\ UNCHANGED <<backlog, loop, conn, curr, currConns, client>>
PeekFailsSilently(c) ==
  /\ handler[c] = "peek"
  /\ handler' = [handler EXCEPT ![c] = "none"]
  /\ client' = [client EXCEPT ![c] = "away"]
  /\ UNCHANGED <<backlog, loop, conn, curr, currConns>>

\* The client has gone, the connection was reset, or the deadline has passed,
\* maybe just before the first byte was looked for.
PeekFails(c) ==
  /\ handler[c] = "peek"
  /\ handler' = [handler EXCEPT ![c] = "close"]
  /\ UNCHANGED <<backlog, loop, conn, curr, currConns, client>>

\* handleText or handleBinary returns.
Return(c) ==
  /\ handler[c] = "serve"
  /\ handler' = [handler EXCEPT ![c] = "close"]
  /\ UNCHANGED <<backlog, loop, conn, curr, currConns, client>>

\* The deferred function closes the connection, then gives the place back.
CloseConn(c) ==
  /\ handler[c] = "close"
  /\ handler' = [handler EXCEPT ![c] = "release"]
  /\ client' = [client EXCEPT ![c] = "away"]
  /\ UNCHANGED <<backlog, loop, conn, curr, currConns>>

Release(c) ==
  /\ handler[c] = "release"
  /\ handler' = [handler EXCEPT ![c] = "none"]
  /\ currConns' = currConns - 1
  /\ UNCHANGED <<backlog, loop, conn, curr, client>>

-----------------------------------------------------------------------------

\* NewWithOptions
Init ==
  /\ backlog = <<>>
  /\ loop = "accept" /\ conn = NoConn /\ curr = 0
  /\ currConns = 0
  /\ handler = [c \in Conns |-> "none"]
  /\ client = [c \in Conns |-> "away"]

Start == Accept \/ Load \/ Reject \/ Admit

HandleConnection(c) ==
  FirstByte(c) \/ PeekFails(c) \/ Return(c) \/ CloseConn(c) \/ Release(c)

Next ==
  \/ \E c \in Conns : Dial(c) \/ SendFirstByte(c) \/ Leave(c)
  \/ Start
  \/ \E c \in Conns : HandleConnection(c)

Spec == Init /\ [][Next]_vars

\* The accept loop and the goroutines go on when they can: the deadline ends a
\* wait for the first byte.  A client need not send anything nor leave; a
\* protocol handler returns once its client has left.
FairSpec ==
  /\ Spec
  /\ WF_vars(Start)
  /\ \A c \in Conns :
       /\ WF_vars(FirstByte(c) \/ PeekFails(c) \/ CloseConn(c) \/ Release(c))
       /\ WF_vars(client[c] \in Departed /\ Return(c))

-----------------------------------------------------------------------------
(* Properties *)

\* The variables keep their types; the counter stays within the limit.
TypeOK ==
  /\ backlog \in Seq(Conns)
  /\ loop \in {"accept", "load", "decide"}
  /\ IF loop = "accept" THEN conn = NoConn ELSE conn \in Conns
  /\ curr \in 0..MaxConnections
  /\ currConns \in 0..MaxConnections
  /\ handler \in [Conns -> {"none", "peek", "serve", "close", "release"}]
  /\ client \in [Conns -> {"away", "silent", "talking", "gone", "left"}]

Handled == {c \in Conns : handler[c] # "none"}

\* Connections being served never exceed the limit, although the accept loop
\* loads the counter, compares it and increments it in separate steps while
\* goroutines decrement it.
LimitHolds == Cardinality(Handled) <= MaxConnections

\* No place is lost or given back twice, whichever way a connection ends:
\* rejected, silent, gone early, served.
CounterExact == currConns = Cardinality(Handled)

\* A client that connects is admitted or turned away, also when the places are
\* taken by clients who never leave: the accept loop waits for nobody.
DialsAnswered ==
  \A c \in Conns :
    client[c] # "away" /\ handler[c] = "none"
      ~> handler[c] # "none" \/ client[c] = "away"

\* A place is not kept for ever by a client that never says anything, nor by
\* one that has closed its end.
PlacesComeBack ==
  \A c \in Conns :
    handler[c] # "none" /\ client[c] \in {"silent"} \union Departed
      ~> handler[c] = "none" \/ client[c] = "talking"
=============================================================================
