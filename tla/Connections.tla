---------------------------- MODULE Connections ----------------------------
(***************************************************************************)
(* Clients of both protocols on one cache: what they are told, when, and   *)
(* what they may conclude from it.                                         *)
(***************************************************************************)
EXTENDS TextProtocol, BinaryProtocol

Init ==
  /\ store = [k \in {} |-> 0] /\ casCounter = 0 /\ issued = [n \in {} |-> 0]
  /\ mem = [b \in Buffers |-> NoValue] /\ pool = Buffers
  /\ \E session \in Sessions :
       client = [c \in Conns |->
                   [plan |-> session[c], owes |-> NoCommand, state |-> "new"]]
  /\ wire = [c \in Conns |-> <<>>] /\ buf = [c \in Conns |-> <<>>]
  /\ out = [c \in Conns |-> FALSE]
  /\ proc = [c \in Conns |-> Idle]
  /\ told = {} /\ astray = {}

TextConns == Conns \ BinaryConns

Next ==
  \/ \E c \in Conns : Send(c) \/ SendData(c) \/ Leave(c)
  \/ \E c \in TextConns : TextStep(c)
  \/ \E c \in BinaryConns : BinaryStep(c)
  \/ \E k \in Keys : Lose(k)

Spec == Init /\ [][Next]_vars

\* The goroutines of the connections go on when they can, as calls of the cache
\* return (ShardedCache).  Clients owe nothing: they may stop anywhere.
FairSpec ==
  /\ Spec
  /\ \A c \in TextConns : WF_vars(TextStep(c))
  /\ \A c \in BinaryConns : WF_vars(BinaryStep(c))

-----------------------------------------------------------------------------
(* Properties *)

Items == [part : {"line", "data", "stray"}, of : Commands]
Slices == DOMAIN mem

\* The variables keep their types; an entry's slice exists.
TypeOK ==
  /\ DOMAIN store \subseteq Keys
  /\ \A k \in DOMAIN store :
       store[k] \in [slice : Slices, cas : 1..casCounter,
                    expiry : [ttl : Int, exptime : Int, binary : BOOLEAN]]
  /\ casCounter \in Nat /\ issued \in [1..casCounter -> [key : Keys, value : Value]]
  /\ Buffers \subseteq Slices /\ Slices \subseteq 1..casCounter \cup Buffers
  /\ mem \in [Slices -> Value] /\ pool \subseteq Buffers
  /\ client \in [Conns -> [plan : Seq(Commands),
                           owes : Commands \cup {NoCommand},
                           state : {"new", "open", "left"}]]
  /\ wire \in [Conns -> Seq(Items)] /\ buf \in [Conns -> Seq(Items)]
  /\ out \in [Conns -> BOOLEAN]
  /\ proc \in [Conns -> [at : {"read", "data", "bytes", "call", "touch", "get", "write",
                               "returned"},
                         cmd : Commands \cup {NoCommand}, todo : Seq(Keys),
                         buffer : Buffers \cup {NoBuffer},
                         slice : Slices \cup {NoBuffer},
                         cas : 0..casCounter, answers : Nat]]
  /\ told \subseteq [key : Keys, value : Value, cas : Nat,
                     by : STRING]
  /\ astray \subseteq Conns

\* A client that was told a value with a token, by whichever command of either
\* protocol, can rely on it: as long as a cas with the token would succeed, what
\* it overwrites is the value the client was told.  The binary get-and-touch
\* makes two calls, the responses are written after the cache has moved on, and
\* the values it was given lay in buffers that are used again.
NoBlindCas ==
  \A t \in told :
    Has(t.key) /\ store[t.key].cas = t.cas => Contents(t.key) = t.value

\* What is told is a value together with the very token it was issued under,
\* although its bytes are read from a slice that the worker shares, after other
\* clients have changed the entry.  The binary get-and-touch may tell a token of
\* one value with a later value: of it only NoBlindCas is true.
TellsIssued ==
  \A t \in told :
    t.by \notin BinaryGats => issued[t.cas] = [key |-> t.key, value |-> t.value]

\* Whether the sender of the command waits for a response.
Solicits(cmd) ==
  ~cmd.noreply /\ cmd.op \notin Quiet \cup {"blank", "VERBOSITY", "QUIT", "opQuit", "magic"}

\* When a handler is done, whichever way it went, it has written one response to
\* a command that asks for one; one too many or too few, and every response that
\* follows on the connection is taken for that of another command.  A proper
\* command that asks for none gets one only if it counts, or its data do not come.
AnsweredOnce ==
  \A c \in Conns :
    At(c, "read") /\ Cmd(c) # NoCommand =>
      /\ proc[c].answers <= 1
      /\ Solicits(Cmd(c)) => proc[c].answers = 1
      /\ Cmd(c).noreply /\ Cmd(c).form = "ok" /\ proc[c].answers = 1
           => \/ Cmd(c).op \in Counts \/ client[c].owes = Cmd(c)
              \/ c \in astray /\ EndOfInput(c)

\* A storage command whose line the client sent takes its own data block for its
\* data, whatever has gone wrong before.  A data block is read for lines only
\* after a line refused for its fields: of the storage commands with something
\* wrong, those alone put the connection out of step, and it is back in step after
\* the block unless a storage command was among the lines.
InStep ==
  \A c \in Conns : ~NoInput(c) =>
    LET item == Head(Input(c)) IN
    /\ At(c, "data") => item.part = "data" /\ item.of = Cmd(c)
    /\ At(c, "read") /\ item.part = "data" /\ c \notin astray =>
         /\ c \in TextConns /\ item.of = Cmd(c)
         /\ \/ Cmd(c).form = "short"
            \/ Cmd(c).form = "malformed" /\ Cmd(c).op \notin Appends

\* While a goroutine waits for input, responses stay behind in its writer only if
\* the client has begun a command it does not finish, or the last line was empty
\* (the client's, or the empty data block of a line that was refused), or a storage
\* command read out of a data block waits for data; when it has returned they are
\* lost only then, and before QUIT.
WithheldKnown ==
  \A c \in Conns :
    out[c] /\ (At(c, "returned") \/ (NoInput(c) /\ proc[c].at \in {"read", "data", "bytes"})) =>
      \/ Cmd(c).op \in {"blank", "QUIT", "opQuit", "magic"}
      \/ HasData(Cmd(c)) /\ client[c].owes = Cmd(c)
      \/ At(c, "bytes")

\* An item for which its client asked an expiry has one, through every change of
\* its value, however the expiry was expressed; so it is not served for ever.  The
\* binary protocol keeps this promise only if the moment is not in the past.
ExpiryKept ==
  \A k \in DOMAIN store :
    LET e == store[k].expiry
    IN e.exptime # 0 => e.ttl > 0 \/ (e.binary /\ Past(e.exptime))

\* A body buffer is in the pool or in the hands of one goroutine, on every path
\* through handleBinary.
BuffersExclusive ==
  \A c \in BinaryConns :
    proc[c].buffer # NoBuffer =>
      /\ proc[c].buffer \notin pool
      /\ \A d \in BinaryConns \ {c} : proc[d].buffer # proc[c].buffer

\* A response that has been written reaches the client, unless the client keeps
\* the rest of a command back, the input ends with an empty line (which the empty
\* data block of a refused line is as well) or with a storage command read out of
\* a data block, or the handler returns.
RepliesArrive ==
  \A c \in Conns :
    out[c] ~> \/ ~out[c] \/ At(c, "returned")
              \/ NoInput(c) /\ (At(c, "data") \/ At(c, "bytes") \/ Cmd(c).op = "blank")

\* Once its client has left, a handler returns, wherever in a command it is: what
\* the accept loop relies on to get its places back (Server).
ServingEnds == \A c \in Conns : client[c].state = "left" ~> At(c, "returned")

\* "gats - Get and touch with CAS": with nobody else on the cache, the token that
\* gats has told is the token of the entry.
GatsTokenCurrent ==
  \A c \in Conns :
    At(c, "call") /\ Cmd(c).op = "GATS" /\ proc[c].cas # 0 =>
      \A k \in Keys : Has(k) => store[k].cas = proc[c].cas
=============================================================================
