---------------------------- MODULE ShardedCache ----------------------------
(***************************************************************************)
(* The plumbing between callers and workers: pkg/tqmemory/sharded.go and   *)
(* the channels, the select loop and the shutdown of worker.go.            *)
(*                                                                         *)
(* A call takes a response channel from a pool, sends its request with     *)
(* that channel to a worker's bounded request channel, waits for the       *)
(* response and returns the channel to the pool.  FlushAll does so with    *)
(* one worker after the other.  Close stops the workers one by one.        *)
(***************************************************************************)
EXTENDS Shards, Sequences, SequencesExt

CONSTANTS
  Channels,   \* the response channels
  NoChannel, NoAnswer,
  Capacity,   \* Config.ChannelCapacity, 0 for unbuffered
  Closing     \* whether the owner ever closes the cache

ASSUME ShardedAssumption ==
  /\ NoChannel \notin Channels /\ NoAnswer \notin Replies
  /\ NoAnswer \notin Requests \cup {FlushAll}
  /\ Capacity \in Nat /\ Closing \in BOOLEAN

VARIABLES
  pc,        \* where each caller is in sendRequest: "idle", "get", "send",
             \* "wait" or "put"
  asked,     \* its call, NoAnswer between calls
  turn,      \* the worker its current request goes to
  held,      \* its response channel
  answer,    \* the last response it received in that call
  pool,      \* respChanPool
  buffer,    \* the contents of each response channel, at most one response
  queue,     \* Worker.reqChan: requests with their response channels
  sending,   \* the response a worker is about to send, and its channel
  shard,     \* the contents of each worker's index
  closing,   \* how many workers Close has told to stop
  stopped    \* whether a worker's goroutine has returned

callers == <<pc, asked, turn, held, answer>>
workers == <<queue, sending, shard, stopped>>
vars == <<callers, pool, buffer, workers, closing>>

Calls == Requests \cup {FlushAll}

Nothing == [ch |-> NoChannel]
Message(c) == [req |-> asked[c], ch |-> held[c]]

-----------------------------------------------------------------------------
(* Callers *)

Call(c, r) ==
  /\ pc[c] = "idle"
  /\ pc' = [pc EXCEPT ![c] = "get"]
  /\ asked' = [asked EXCEPT ![c] = r]
  /\ turn' = [turn EXCEPT ![c] = FirstWorker(r)]
  /\ answer' = [answer EXCEPT ![c] = NoAnswer]
  /\ UNCHANGED <<held, pool, buffer, workers, closing>>

\* Mutant: the channel is used while it stays in the pool.
GetChannelKeeps(c) ==
  /\ pc[c] = "get"
  /\ \E ch \in Channels :
       /\ ch \in pool \/ \A d \in Clients : held[d] # ch
       /\ buffer' = [buffer EXCEPT ![ch] = IF ch \in pool THEN @ ELSE <<>>]
       /\ held' = [held EXCEPT ![c] = ch]
       /\ pool' = pool \cup {ch}
  /\ pc' = [pc EXCEPT ![c] = "send"]
  /\ UNCHANGED <<asked, turn, answer, workers, closing>>

\* respChanPool.Get: a pooled channel or, as the pool may drop what it holds,
\* a new one that nobody refers to.
GetChannel(c) ==
  /\ pc[c] = "get"
  /\ \E ch \in Channels :
       /\ \/ ch \in pool /\ UNCHANGED buffer
          \/ /\ ch \notin pool /\ \A d \in Clients : held[d] # ch
             /\ buffer' = [buffer EXCEPT ![ch] = <<>>]
       /\ held' = [held EXCEPT ![c] = ch]
       /\ pool' = pool \ {ch}
  /\ pc' = [pc EXCEPT ![c] = "send"]
  /\ UNCHANGED <<asked, turn, answer, workers, closing>>

\* Mutant: the channel goes back to the pool before its response has arrived.
SendAndRelease(c) ==
  /\ pc[c] = "send" /\ Len(queue[turn[c]]) < Capacity
  /\ queue' = [queue EXCEPT ![turn[c]] = Append(@, Message(c))]
  /\ pc' = [pc EXCEPT ![c] = "wait"]
  /\ pool' = pool \cup {held[c]}
  /\ UNCHANGED <<asked, turn, held, answer, buffer, sending, shard, stopped,
                 closing>>

\* Sending to a buffered channel blocks while it is full.
Send(c) ==
  /\ pc[c] = "send" /\ Len(queue[turn[c]]) < Capacity
  /\ queue' = [queue EXCEPT ![turn[c]] = Append(@, Message(c))]
  /\ pc' = [pc EXCEPT ![c] = "wait"]
  /\ UNCHANGED <<asked, turn, held, answer, pool, buffer, sending, shard, stopped,
                 closing>>

Receive(c) ==
  /\ pc[c] = "wait" /\ buffer[held[c]] # <<>>
  /\ answer' = [answer EXCEPT ![c] = Head(buffer[held[c]])]
  /\ buffer' = [buffer EXCEPT ![held[c]] = Tail(@)]
  /\ pc' = [pc EXCEPT ![c] = "put"]
  /\ UNCHANGED <<asked, turn, held, pool, workers, closing>>

\* respChanPool.Put; FlushAll goes on to the next worker, any other call and
\* the last turn of FlushAll return.
PutChannel(c) ==
  /\ pc[c] = "put"
  /\ pool' = pool \cup {held[c]}
  /\ held' = [held EXCEPT ![c] = NoChannel]
  /\ IF LastWorker(asked[c], turn[c])
     THEN /\ pc' = [pc EXCEPT ![c] = "idle"]
          /\ asked' = [asked EXCEPT ![c] = NoAnswer]
          /\ turn' = [turn EXCEPT ![c] = 0]
     ELSE /\ pc' = [pc EXCEPT ![c] = "get"]
          /\ turn' = [turn EXCEPT ![c] = @ + 1]
          /\ UNCHANGED asked
  /\ UNCHANGED <<answer, buffer, workers, closing>>

-----------------------------------------------------------------------------
(* Workers *)

AtSelect(w) == ~stopped[w] /\ sending[w] = Nothing

\* Mutant: a flush is handled without a response.
HandleFlushSilently(w, m) ==
  \E o \in Handle(shard[w], m.req) :
    /\ shard' = [shard EXCEPT ![w] = o.state]
    /\ sending' = IF m.req = FlushAll THEN sending
                  ELSE [sending EXCEPT ![w] = [ch |-> m.ch, resp |-> o.reply]]

\* handleRequest up to the send of the response.
HandleMessage(w, m) ==
  \E o \in Handle(shard[w], m.req) :
    /\ shard' = [shard EXCEPT ![w] = o.state]
    /\ sending' = [sending EXCEPT ![w] = [ch |-> m.ch, resp |-> o.reply]]

Serve(w) ==
  /\ AtSelect(w) /\ queue[w] # <<>>
  /\ HandleMessage(w, Head(queue[w]))
  /\ queue' = [queue EXCEPT ![w] = Tail(@)]
  /\ UNCHANGED <<callers, pool, buffer, stopped, closing>>

\* An unbuffered request channel hands over a blocked caller's request.
Handover(w, c) ==
  /\ AtSelect(w) /\ Capacity = 0
  /\ pc[c] = "send" /\ turn[c] = w
  /\ HandleMessage(w, Message(c))
  /\ pc' = [pc EXCEPT ![c] = "wait"]
  /\ UNCHANGED <<asked, turn, held, answer, pool, buffer, queue, stopped, closing>>

\* The receive of the select.
TakeRequest(w) == AtSelect(w) /\ (Serve(w) \/ \E c \in Clients : Handover(w, c))

\* The send of the response: a response channel holds one.
Respond(w) ==
  /\ sending[w] # Nothing /\ buffer[sending[w].ch] = <<>>
  /\ buffer' = [buffer EXCEPT ![sending[w].ch] = <<sending[w].resp>>]
  /\ sending' = [sending EXCEPT ![w] = Nothing]
  /\ UNCHANGED <<callers, pool, queue, shard, stopped, closing>>

Maintain(w) ==
  /\ AtSelect(w)
  /\ \E s \in Upkeep(shard[w]) : shard' = [shard EXCEPT ![w] = s]
  /\ UNCHANGED <<callers, pool, buffer, queue, sending, stopped, closing>>

\* Mutant: a worker stops only once nobody waits to be served.
StopWorkerDrained(w) ==
  /\ AtSelect(w) /\ w < closing
  /\ queue[w] = <<>> /\ \A c \in Clients : ~(pc[c] = "send" /\ turn[c] = w)
  /\ stopped' = [stopped EXCEPT ![w] = TRUE]
  /\ UNCHANGED <<callers, pool, buffer, queue, sending, shard, closing>>

\* stopChan is closed and select picks it, maybe before waiting requests.
StopWorker(w) ==
  /\ AtSelect(w) /\ w < closing
  /\ stopped' = [stopped EXCEPT ![w] = TRUE]
  /\ UNCHANGED <<callers, pool, buffer, queue, sending, shard, closing>>

\* Close calls Stop on each worker in turn and waits until it is done.
Close ==
  /\ Closing /\ closing < WorkerCount
  /\ closing > 0 => stopped[closing - 1]
  /\ closing' = closing + 1
  /\ UNCHANGED <<callers, pool, buffer, workers>>

-----------------------------------------------------------------------------

\* NewSharded
Init ==
  /\ pc = [c \in Clients |-> "idle"]
  /\ asked = [c \in Clients |-> NoAnswer]
  /\ turn = [c \in Clients |-> 0]
  /\ held = [c \in Clients |-> NoChannel]
  /\ answer = [c \in Clients |-> NoAnswer]
  /\ pool = {}
  /\ buffer = [ch \in Channels |-> <<>>]
  /\ queue = [w \in Workers |-> <<>>]
  /\ sending = [w \in Workers |-> Nothing]
  /\ shard = [w \in Workers |-> NewShard]
  /\ closing = 0
  /\ stopped = [w \in Workers |-> FALSE]

Caller(c) ==
  \/ \E r \in Calls : Call(c, r)
  \/ GetChannel(c) \/ Send(c) \/ Receive(c) \/ PutChannel(c)

WorkerStep(w) ==
  TakeRequest(w) \/ Respond(w) \/ Maintain(w) \/ StopWorker(w)

Next ==
  \/ \E c \in Clients : Caller(c)
  \/ \E w \in Workers : WorkerStep(w)
  \/ Close

Spec == Init /\ [][Next]_vars

\* Goroutines that can go on do.  A channel serves its blocked senders first
\* come, first served, so none of them is passed over for ever; select picks
\* at random among the ready cases, so neither a request nor a stop is.
\* The owner need not close the cache, but a Close that has begun goes on.
FairSpec ==
  /\ Spec
  /\ \A c \in Clients :
       SF_vars(\/ GetChannel(c) \/ Send(c) \/ Receive(c) \/ PutChannel(c)
               \/ \E w \in Workers : Handover(w, c))
  /\ \A w \in Workers :
       SF_vars(Serve(w) \/ Respond(w)) /\ SF_vars(StopWorker(w))
  /\ WF_vars(closing > 0 /\ Close)

-----------------------------------------------------------------------------
(* Properties *)

CallersOK ==
  /\ pc \in [Clients -> {"idle", "get", "send", "wait", "put"}]
  /\ asked \in [Clients -> Calls \cup {NoAnswer}]
  /\ \A c \in Clients : pc[c] # "idle" => asked[c] \in Calls
  /\ turn \in [Clients -> Workers]
  /\ held \in [Clients -> Channels \cup {NoChannel}]
  /\ answer \in [Clients -> Replies \cup {NoAnswer}]

ChannelsOK ==
  /\ pool \subseteq Channels
  /\ buffer \in [Channels -> Seq(Replies)]

WorkersOK ==
  /\ queue \in [Workers -> Seq([req : Calls, ch : Channels])]
  /\ sending \in [Workers -> [ch : Channels, resp : Replies] \cup {Nothing}]
  /\ shard \in [Workers -> States]
  /\ closing \in 0..WorkerCount
  /\ stopped \in [Workers -> BOOLEAN]

TypeOK == CallersOK /\ ChannelsOK /\ WorkersOK

\* A response channel belongs to one caller from the moment it takes it from
\* the pool until it returns it, and a pooled channel is empty: what arrives
\* on a channel is meant for the caller that waits on it.
ChannelsExclusive ==
  /\ \A c, d \in Clients : held[c] = held[d] /\ held[c] # NoChannel => c = d
  /\ \A c \in Clients : held[c] \notin pool
  /\ \A ch \in pool : buffer[ch] = <<>>

\* A worker never waits for a caller to take its response: the channel of the
\* request it has handled is empty, its caller waits on it and no other
\* request in flight has the same channel.
WorkersNeverBlock ==
  \A w \in Workers : sending[w] # Nothing =>
    LET ch == sending[w].ch
    IN /\ buffer[ch] = <<>>
       /\ \E c \in Clients : pc[c] = "wait" /\ held[c] = ch
       /\ \A v \in Workers :
            /\ \A i \in DOMAIN queue[v] : queue[v][i].ch # ch
            /\ v # w => sending[v].ch # ch

\* A call returns, unless the worker it is waiting for has been stopped.
CallsReturn ==
  \A c \in Clients :
    pc[c] # "idle" ~> pc[c] = "idle" \/ stopped[turn[c]]

\* Close returns, whatever the callers do in the meantime: every worker comes
\* back to its select and finds that it has to stop.
CloseReturns == closing > 0 ~> \A w \in Workers : stopped[w]
=============================================================================
