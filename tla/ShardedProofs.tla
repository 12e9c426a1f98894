--------------------------- MODULE ShardedProofs ---------------------------
(***************************************************************************)
(* Proofs about ShardedCache: response channels are never shared, no       *)
(* worker blocks on a response, and every call is atomic, for any number   *)
(* of callers, workers and channels, any capacity and whatever the         *)
(* workers' handlers do.  Of shards of tokens, as ShardedHistory has them, *)
(* what calls promise each other: a token wins once, and a flush hides.    *)
(***************************************************************************)
EXTENDS ShardedHistory, SequenceTheorems, TLAPS

\* A caller has a channel exactly from taking it until it returns it.
HeldInTime ==
  \A c \in Clients : held[c] # NoChannel <=> pc[c] \in {"send", "wait", "put"}

HeldOnce == \A c, d \in Clients : held[c] = held[d] /\ held[c] # NoChannel => c = d

PoolUnheld == \A c \in Clients : held[c] \notin pool

\* A channel holds at most one response, which somebody waits for.
BuffersAwaited ==
  \A ch \in Channels :
    /\ Len(buffer[ch]) <= 1
    /\ buffer[ch] # <<>> => \E c \in Clients : pc[c] = "wait" /\ held[c] = ch

\* Caller c waits for worker w to answer on ch, and has no answer yet.
Awaits(c, w, ch) ==
  pc[c] = "wait" /\ turn[c] = w /\ held[c] = ch /\ buffer[ch] = <<>>

QueuesAwaited ==
  \A w \in Workers : \A i \in 1..Len(queue[w]) :
    \E c \in Clients : Awaits(c, w, queue[w][i].ch) /\ queue[w][i].req = asked[c]

\* A request waits in one place of one queue, or its response is being sent.
QueuedOnce ==
  \A w \in Workers : \A i, j \in 1..Len(queue[w]) :
    queue[w][i].ch = queue[w][j].ch => i = j

SendingAwaited ==
  \A w \in Workers : sending[w] # Nothing =>
    \E c \in Clients : Awaits(c, w, sending[w].ch)

SendingUnqueued ==
  \A w \in Workers : sending[w] # Nothing =>
    \A i \in 1..Len(queue[w]) : queue[w][i].ch # sending[w].ch

Inv ==
  /\ TypeOK
  /\ HeldInTime /\ HeldOnce /\ PoolUnheld /\ BuffersAwaited
  /\ QueuesAwaited /\ QueuedOnce /\ SendingAwaited /\ SendingUnqueued

-----------------------------------------------------------------------------

LEMMA InitInv == Init => Inv
  <1> SUFFICES ASSUME Init PROVE Inv
    OBVIOUS
  <1> USE ShardsAssumption, ShardedAssumption DEF Init
  <1>1. TypeOK
    BY DEF TypeOK, CallersOK, ChannelsOK, WorkersOK, Workers
  <1>2. HeldInTime /\ HeldOnce /\ PoolUnheld /\ BuffersAwaited
    BY DEF HeldInTime, HeldOnce, PoolUnheld, BuffersAwaited
  <1>3. QueuesAwaited /\ QueuedOnce /\ SendingAwaited /\ SendingUnqueued
    BY DEF QueuesAwaited, QueuedOnce, SendingAwaited, SendingUnqueued
  <1> QED
    BY <1>1, <1>2, <1>3 DEF Inv

LEMMA QueuedType ==
  ASSUME TypeOK, NEW w \in Workers, NEW i \in 1..Len(queue[w])
  PROVE  queue[w][i] \in [req : Calls, ch : Channels]
  <1>1. queue[w] \in Seq([req : Calls, ch : Channels])
    BY DEF TypeOK, WorkersOK
  <1> QED BY <1>1, ElementOfSeq

\* A step that touches neither queues nor responses in the making, and leaves
\* those who wait for them waiting, keeps what is said about them.
LEMMA Undisturbed ==
  ASSUME Inv, UNCHANGED <<queue, sending>>,
         \A d \in Clients, w \in Workers, x \in Channels :
           Awaits(d, w, x) => Awaits(d, w, x)' /\ asked'[d] = asked[d]
  PROVE  QueuesAwaited' /\ QueuedOnce' /\ SendingAwaited' /\ SendingUnqueued'
  <1>1. \A w \in Workers : \A i \in 1..Len(queue[w]) : queue[w][i].ch \in Channels
    BY QueuedType DEF Inv
  <1>2. \A w \in Workers : sending[w] # Nothing => sending[w].ch \in Channels
    BY DEF Inv, TypeOK, WorkersOK
  <1>3. QueuesAwaited'
    <2> SUFFICES ASSUME NEW w \in Workers, NEW i \in 1..Len(queue[w])
                 PROVE  \E c \in Clients : Awaits(c, w, queue[w][i].ch)'
                                             /\ queue[w][i].req = asked'[c]
      BY DEF QueuesAwaited, Awaits
    <2>1. PICK c \in Clients :
            Awaits(c, w, queue[w][i].ch) /\ queue[w][i].req = asked[c]
      BY DEF Inv, QueuesAwaited
    <2> QED BY <1>1, <2>1
  <1>4. SendingAwaited'
    <2> SUFFICES ASSUME NEW w \in Workers, sending[w] # Nothing
                 PROVE  \E c \in Clients : Awaits(c, w, sending[w].ch)'
      BY DEF SendingAwaited, Awaits
    <2>1. PICK c \in Clients : Awaits(c, w, sending[w].ch)
      BY DEF Inv, SendingAwaited
    <2> QED BY <1>2, <2>1
  <1>5. QueuedOnce' /\ SendingUnqueued'
    BY DEF Inv, QueuedOnce, SendingUnqueued
  <1> QED BY <1>3, <1>4, <1>5

LEMMA FirstWorkerType ==
  ASSUME NEW r \in Calls
  PROVE  FirstWorker(r) \in Workers
  BY ShardsAssumption DEF FirstWorker, Workers, Calls

LEMMA CallInv ==
  ASSUME Inv, NEW c \in Clients, NEW r \in Calls, Call(c, r)
  PROVE  Inv'
  <1> USE DEF Inv, Call
  <1>1. TypeOK'
    <2>1. CallersOK'
      BY FirstWorkerType DEF TypeOK, CallersOK
    <2>2. ChannelsOK' /\ WorkersOK'
      BY DEF TypeOK, ChannelsOK, WorkersOK, workers
    <2> QED BY <2>1, <2>2 DEF TypeOK
  <1>2. HeldInTime' /\ HeldOnce' /\ PoolUnheld' /\ BuffersAwaited'
    BY DEF TypeOK, CallersOK, HeldInTime, HeldOnce, PoolUnheld, BuffersAwaited
  <1>3. QueuesAwaited' /\ QueuedOnce' /\ SendingAwaited' /\ SendingUnqueued'
    BY Undisturbed DEF TypeOK, CallersOK, Awaits, workers
  <1> QED
    BY <1>1, <1>2, <1>3

LEMMA GetChannelInv ==
  ASSUME Inv, NEW c \in Clients, GetChannel(c)
  PROVE  Inv'
  <1>1. PICK ch \in Channels :
          /\ \/ ch \in pool /\ UNCHANGED buffer
             \/ /\ ch \notin pool /\ \A d \in Clients : held[d] # ch
                /\ buffer' = [buffer EXCEPT ![ch] = <<>>]
          /\ held' = [held EXCEPT ![c] = ch]
          /\ pool' = pool \ {ch}
    BY DEF GetChannel
  <1>2. /\ pc[c] = "get" /\ pc' = [pc EXCEPT ![c] = "send"]
        /\ UNCHANGED <<asked, turn, answer, workers, closing>>
    BY DEF GetChannel
  <1>3. \A d \in Clients : held[d] # ch
    BY <1>1 DEF Inv, PoolUnheld
  <1>4. \A x \in Channels : x # ch => buffer'[x] = buffer[x]
    BY <1>1 DEF Inv, TypeOK, ChannelsOK
  <1>5. buffer'[ch] = <<>>
    BY <1>1, <1>3 DEF Inv, TypeOK, ChannelsOK, BuffersAwaited
  <1>6. CallersOK' /\ WorkersOK'
    BY <1>1, <1>2 DEF Inv, TypeOK, CallersOK, WorkersOK, workers
  <1>7. ChannelsOK'
    <2>1. CASE UNCHANGED buffer
      BY <1>1, <2>1 DEF Inv, TypeOK, ChannelsOK
    <2>2. CASE buffer' = [buffer EXCEPT ![ch] = <<>>]
      BY <1>1, <2>2 DEF Inv, TypeOK, ChannelsOK
    <2> QED BY <1>1, <2>1, <2>2
  <1>8. HeldInTime' /\ HeldOnce' /\ PoolUnheld'
    BY <1>1, <1>2, <1>3, ShardedAssumption
       DEF Inv, TypeOK, CallersOK, HeldInTime, HeldOnce, PoolUnheld
  <1>9. BuffersAwaited'
    BY <1>1, <1>2, <1>4, <1>5 DEF Inv, TypeOK, CallersOK, BuffersAwaited
  <1>10. \A d \in Clients, w \in Workers, x \in Channels :
           Awaits(d, w, x) => Awaits(d, w, x)' /\ asked'[d] = asked[d]
    BY <1>1, <1>2, <1>3, <1>4 DEF Inv, TypeOK, CallersOK, Awaits
  <1>11. QueuesAwaited' /\ QueuedOnce' /\ SendingAwaited' /\ SendingUnqueued'
    BY <1>2, <1>10, Undisturbed DEF workers
  <1> QED
    BY <1>6, <1>7, <1>8, <1>9, <1>11 DEF Inv, TypeOK

LEMMA ReceiveInv ==
  ASSUME Inv, NEW c \in Clients, Receive(c)
  PROVE  Inv'
  <1> DEFINE ch == held[c]
  <1>1. /\ pc[c] = "wait" /\ buffer[ch] # <<>>
        /\ answer' = [answer EXCEPT ![c] = Head(buffer[ch])]
        /\ buffer' = [buffer EXCEPT ![ch] = Tail(@)]
        /\ pc' = [pc EXCEPT ![c] = "put"]
        /\ UNCHANGED <<asked, turn, held, pool, workers, closing>>
    BY DEF Receive
  <1>2. ch \in Channels
    BY <1>1 DEF Inv, TypeOK, CallersOK, HeldInTime
  <1>3. buffer[ch] \in Seq(Replies) /\ Len(buffer[ch]) <= 1
    BY <1>2 DEF Inv, TypeOK, ChannelsOK, BuffersAwaited
  <1> HIDE DEF ch
  <1>4. Head(buffer[ch]) \in Replies /\ Tail(buffer[ch]) = <<>>
    BY <1>1, <1>3, EmptySeq, HeadTailProperties
  <1>41. buffer' = [buffer EXCEPT ![ch] = <<>>]
    BY <1>1, <1>4
  <1> USE DEF ch
  <1>5. CallersOK'
    BY <1>1, <1>4 DEF Inv, TypeOK, CallersOK
  <1>6. ChannelsOK' /\ WorkersOK'
    <2>1. <<>> \in Seq(Replies)
      BY EmptySeq
    <2>2. ChannelsOK'
      BY <1>1, <1>2, <1>41, <2>1 DEF Inv, TypeOK, ChannelsOK
    <2>3. WorkersOK'
      BY <1>1 DEF Inv, TypeOK, WorkersOK, workers
    <2> QED BY <2>2, <2>3
  <1>7. HeldInTime' /\ HeldOnce' /\ PoolUnheld'
    BY <1>1 DEF Inv, TypeOK, CallersOK, HeldInTime, HeldOnce, PoolUnheld
  <1>8. BuffersAwaited'
    BY <1>1, <1>2, <1>41
       DEF Inv, TypeOK, CallersOK, ChannelsOK, HeldOnce, BuffersAwaited
  <1>9. \A d \in Clients, w \in Workers, x \in Channels :
          Awaits(d, w, x) => Awaits(d, w, x)' /\ asked'[d] = asked[d]
    BY <1>1, <1>2 DEF Inv, TypeOK, CallersOK, ChannelsOK, Awaits
  <1>10. QueuesAwaited' /\ QueuedOnce' /\ SendingAwaited' /\ SendingUnqueued'
    BY <1>1, <1>9, Undisturbed DEF workers
  <1> QED
    BY <1>5, <1>6, <1>7, <1>8, <1>10 DEF Inv, TypeOK

LEMMA PutChannelInv ==
  ASSUME Inv, NEW c \in Clients, PutChannel(c)
  PROVE  Inv'
  <1>1. /\ pc[c] = "put"
        /\ pool' = pool \cup {held[c]}
        /\ held' = [held EXCEPT ![c] = NoChannel]
        /\ UNCHANGED <<answer, buffer, workers, closing>>
    BY DEF PutChannel
  <1>2. \/ /\ pc' = [pc EXCEPT ![c] = "idle"]
           /\ asked' = [asked EXCEPT ![c] = NoAnswer]
           /\ turn' = [turn EXCEPT ![c] = 0]
        \/ /\ ~LastWorker(asked[c], turn[c])
           /\ pc' = [pc EXCEPT ![c] = "get"]
           /\ turn' = [turn EXCEPT ![c] = @ + 1]
           /\ UNCHANGED asked
    BY DEF PutChannel
  <1>3. held[c] \in Channels
    BY <1>1 DEF Inv, TypeOK, CallersOK, HeldInTime
  <1>4. CallersOK'
    <2>1. CASE pc' = [pc EXCEPT ![c] = "idle"]
      <3>1. 0 \in Workers
        BY ShardsAssumption DEF Workers
      <3>2. /\ asked' = [asked EXCEPT ![c] = NoAnswer]
            /\ turn' = [turn EXCEPT ![c] = 0]
        BY <1>2, <2>1 DEF Inv, TypeOK, CallersOK
      <3> QED
        BY <1>1, <2>1, <3>1, <3>2 DEF Inv, TypeOK, CallersOK
    <2>2. CASE /\ ~LastWorker(asked[c], turn[c])
               /\ pc' = [pc EXCEPT ![c] = "get"]
               /\ turn' = [turn EXCEPT ![c] = @ + 1]
               /\ UNCHANGED asked
      <3>1. turn[c] + 1 \in Workers
        BY <2>2, ShardsAssumption DEF LastWorker, Workers, Inv, TypeOK, CallersOK
      <3> QED
        BY <1>1, <2>2, <3>1 DEF Inv, TypeOK, CallersOK
    <2> QED BY <1>2, <2>1, <2>2
  <1>5. ChannelsOK' /\ WorkersOK'
    BY <1>1, <1>3 DEF Inv, TypeOK, ChannelsOK, WorkersOK, workers
  <1>6. HeldInTime' /\ HeldOnce' /\ PoolUnheld'
    <2>1. \A d \in Clients : d # c => pc'[d] = pc[d] /\ held'[d] = held[d]
      BY <1>1, <1>2 DEF Inv, TypeOK, CallersOK
    <2>2. held'[c] = NoChannel /\ pc'[c] \in {"idle", "get"}
      BY <1>1, <1>2 DEF Inv, TypeOK, CallersOK
    <2>3. HeldInTime' /\ HeldOnce'
      BY <2>1, <2>2 DEF Inv, HeldInTime, HeldOnce
    <2>4. PoolUnheld'
      BY <1>1, <1>3, <2>1, <2>2, ShardedAssumption
         DEF Inv, TypeOK, ChannelsOK, HeldOnce, PoolUnheld
    <2> QED BY <2>3, <2>4
  <1>7. \A d \in Clients : pc[d] = "wait" =>
          d # c /\ pc'[d] = "wait" /\ held'[d] = held[d] /\ turn'[d] = turn[d]
          /\ asked'[d] = asked[d]
    BY <1>1, <1>2 DEF Inv, TypeOK, CallersOK
  <1>8. BuffersAwaited'
    BY <1>1, <1>7 DEF Inv, BuffersAwaited
  <1>9. QueuesAwaited' /\ QueuedOnce' /\ SendingAwaited' /\ SendingUnqueued'
    BY <1>1, <1>7, Undisturbed DEF Awaits, workers
  <1> QED
    BY <1>4, <1>5, <1>6, <1>8, <1>9 DEF Inv, TypeOK

LEMMA SendInv ==
  ASSUME Inv, NEW c \in Clients, Send(c)
  PROVE  Inv'
  <1>1. pc[c] = "send"
    BY DEF Send
  <1>2. PICK w \in Workers, ch \in Channels, r \in Calls :
          turn[c] = w /\ held[c] = ch /\ asked[c] = r
    BY <1>1 DEF Inv, TypeOK, CallersOK, HeldInTime
  <1>3. PICK m \in [req : Calls, ch : Channels] :
          m = Message(c) /\ m.req = r /\ m.ch = ch
    <2>1. Message(c) = [req |-> r, ch |-> ch]
      BY <1>2 DEF Message
    <2> QED BY <2>1
  <1>4. /\ queue' = [queue EXCEPT ![w] = Append(queue[w], m)]
        /\ pc' = [pc EXCEPT ![c] = "wait"]
        /\ UNCHANGED <<asked, turn, held, answer, pool, buffer, sending, shard,
                       stopped, closing>>
    BY <1>2, <1>3 DEF Send
  <1>5. /\ queue'[w] \in Seq([req : Calls, ch : Channels])
        /\ Len(queue'[w]) = Len(queue[w]) + 1 /\ Len(queue[w]) \in Nat
        /\ queue'[w][Len(queue[w]) + 1] = m
        /\ \A i \in 1..Len(queue[w]) : queue'[w][i] = queue[w][i]
        /\ \A v \in Workers : v # w => queue'[v] = queue[v]
    <2>1. queue[w] \in Seq([req : Calls, ch : Channels])
      BY <1>2 DEF Inv, TypeOK, WorkersOK
    <2>2. queue'[w] = Append(queue[w], m)
      BY <1>4, <1>2 DEF Inv, TypeOK, WorkersOK
    <2>3. \A v \in Workers : v # w => queue'[v] = queue[v]
      BY <1>4 DEF Inv, TypeOK, WorkersOK
    <2> QED
      BY <2>1, <2>2, <2>3, AppendProperties, LenProperties
  <1>6. CallersOK' /\ ChannelsOK'
    BY <1>1, <1>4 DEF Inv, TypeOK, CallersOK, ChannelsOK
  <1>7. WorkersOK'
    <2>1. queue' \in [Workers -> Seq([req : Calls, ch : Channels])]
      BY <1>4, <1>5 DEF Inv, TypeOK, WorkersOK
    <2> QED BY <1>4, <2>1 DEF Inv, TypeOK, WorkersOK
  <1>8. HeldInTime' /\ HeldOnce' /\ PoolUnheld' /\ BuffersAwaited'
    BY <1>1, <1>4 DEF Inv, TypeOK, CallersOK, HeldInTime, HeldOnce, PoolUnheld,
                      BuffersAwaited
  <1>9. \A d \in Clients, v \in Workers, x \in Channels :
          Awaits(d, v, x) => Awaits(d, v, x)' /\ asked'[d] = asked[d]
    BY <1>4 DEF Inv, TypeOK, CallersOK, Awaits
  \* Nobody waits on this channel before the send.
  <1>10. \A d \in Clients : pc[d] = "wait" => held[d] # ch
    BY <1>1, <1>2, ShardedAssumption DEF Inv, HeldOnce
  <1>11. Awaits(c, w, ch)' /\ asked'[c] = r
    <2>1. buffer[ch] = <<>>
      BY <1>10 DEF Inv, BuffersAwaited
    <2> QED
      BY <1>2, <1>4, <2>1 DEF Inv, TypeOK, CallersOK, Awaits
  <1>12. \A v \in Workers : \A i \in 1..Len(queue[v]) : queue[v][i].ch # ch
    BY <1>10 DEF Inv, QueuesAwaited, Awaits
  \* A request in a queue after the step is the one sent or was there before.
  <1>13. \A v \in Workers : \A i \in 1..Len(queue'[v]) :
           \/ v = w /\ i = Len(queue[w]) + 1 /\ queue'[v][i] = m
           \/ i \in 1..Len(queue[v]) /\ queue'[v][i] = queue[v][i]
    BY <1>5
  <1>14. QueuesAwaited'
    <2> SUFFICES ASSUME NEW v \in Workers, NEW i \in 1..Len(queue'[v]),
                        NEW x \in Channels, x = queue'[v][i].ch
                 PROVE  \E d \in Clients : Awaits(d, v, x)'
                                             /\ queue'[v][i].req = asked'[d]
      <3>1. \A v \in Workers : \A i \in 1..Len(queue'[v]) : queue'[v][i].ch \in Channels
        BY <1>3, <1>13, QueuedType DEF Inv
      <3> QED BY <3>1 DEF QueuesAwaited, Awaits
    <2>1. CASE v = w /\ queue'[v][i] = m
      BY <1>3, <1>11, <2>1
    <2>2. CASE i \in 1..Len(queue[v]) /\ queue'[v][i] = queue[v][i]
      <3>1. PICK d \in Clients : Awaits(d, v, x) /\ queue[v][i].req = asked[d]
        BY <2>2 DEF Inv, QueuesAwaited
      <3> QED BY <1>9, <2>2, <3>1
    <2> QED BY <1>13, <2>1, <2>2
  <1>15. QueuedOnce'
    <2> SUFFICES ASSUME NEW v \in Workers,
                        NEW i \in 1..Len(queue'[v]), NEW j \in 1..Len(queue'[v]),
                        queue'[v][i].ch = queue'[v][j].ch
                 PROVE  i = j
      BY DEF QueuedOnce
    <2>1. CASE i \in 1..Len(queue[v]) /\ j \in 1..Len(queue[v])
      BY <1>5, <2>1 DEF Inv, QueuedOnce
    <2>2. CASE v = w /\ i = Len(queue[w]) + 1
      BY <1>3, <1>12, <1>13, <2>2
    <2>3. CASE v = w /\ j = Len(queue[w]) + 1
      BY <1>3, <1>12, <1>13, <2>3
    <2> QED BY <1>13, <2>1, <2>2, <2>3
  <1>16. SendingAwaited'
    <2> SUFFICES ASSUME NEW v \in Workers, sending[v] # Nothing,
                        NEW x \in Channels, x = sending[v].ch
                 PROVE  \E d \in Clients : Awaits(d, v, x)'
      <3>1. \A v \in Workers : sending[v] # Nothing => sending[v].ch \in Channels
        BY DEF Inv, TypeOK, WorkersOK
      <3> QED BY <1>4, <3>1 DEF SendingAwaited, Awaits
    <2>1. PICK d \in Clients : Awaits(d, v, x)
      BY DEF Inv, SendingAwaited
    <2> QED BY <1>9, <2>1
  <1>17. SendingUnqueued'
    <2> SUFFICES ASSUME NEW v \in Workers, sending[v] # Nothing,
                        NEW i \in 1..Len(queue'[v])
                 PROVE  queue'[v][i].ch # sending[v].ch
      BY <1>4 DEF SendingUnqueued
    <2>1. sending[v].ch # ch
      BY <1>10 DEF Inv, SendingAwaited, Awaits
    <2> QED
      BY <1>3, <1>13, <2>1 DEF Inv, SendingUnqueued
  <1> QED
    BY <1>6, <1>7, <1>8, <1>14, <1>15, <1>16, <1>17 DEF Inv, TypeOK

LEMMA Handled ==
  ASSUME TypeOK, NEW w \in Workers, NEW m \in [req : Calls, ch : Channels],
         HandleMessage(w, m)
  PROVE  /\ shard' \in [Workers -> States]
         /\ sending' \in [Workers -> [ch : Channels, resp : Replies] \cup {Nothing}]
         /\ sending'[w].ch = m.ch
         /\ \A v \in Workers : v # w => sending'[v] = sending[v]
  <1>1. PICK o \in Handle(shard[w], m.req) :
          /\ shard' = [shard EXCEPT ![w] = o.state]
          /\ sending' = [sending EXCEPT ![w] = [ch |-> m.ch, resp |-> o.reply]]
    BY DEF HandleMessage
  <1>2. o.state \in States /\ o.reply \in Replies
    BY ShardsAssumption DEF TypeOK, WorkersOK, Outcome, Calls
  <1> QED
    BY <1>1, <1>2 DEF TypeOK, WorkersOK

LEMMA NothingIsNoResponse ==
  ASSUME NEW s \in [ch : Channels, resp : Replies]
  PROVE  s # Nothing
  BY ShardedAssumption DEF Nothing

LEMMA ServeInv ==
  ASSUME Inv, NEW w \in Workers, Serve(w)
  PROVE  Inv'
  <1>1. /\ sending[w] = Nothing /\ queue[w] # <<>>
        /\ queue[w] \in Seq([req : Calls, ch : Channels])
    BY DEF Serve, AtSelect, Inv, TypeOK, WorkersOK
  <1>2. PICK m \in [req : Calls, ch : Channels] : m = Head(queue[w])
    BY <1>1, EmptySeq, HeadTailProperties
  <1>3. /\ HandleMessage(w, m)
        /\ queue' = [queue EXCEPT ![w] = Tail(queue[w])]
        /\ UNCHANGED <<callers, pool, buffer, stopped, closing>>
    BY <1>2 DEF Serve
  <1>4. /\ Len(queue[w]) \in Nat \ {0} /\ m = queue[w][1]
        /\ queue'[w] \in Seq([req : Calls, ch : Channels])
        /\ Len(queue'[w]) = Len(queue[w]) - 1
        /\ \A i \in 1..Len(queue'[w]) : queue'[w][i] = queue[w][i + 1]
        /\ \A v \in Workers : v # w => queue'[v] = queue[v]
    <2>1. queue'[w] = Tail(queue[w]) /\ \A v \in Workers : v # w => queue'[v] = queue[v]
      BY <1>3 DEF Inv, TypeOK, WorkersOK
    <2> QED
      BY <1>1, <1>2, <2>1, EmptySeq, HeadTailProperties, LenProperties
  <1>5. /\ shard' \in [Workers -> States]
        /\ sending' \in [Workers -> [ch : Channels, resp : Replies] \cup {Nothing}]
        /\ sending'[w].ch = m.ch
        /\ \A v \in Workers : v # w => sending'[v] = sending[v]
    BY <1>3, Handled DEF Inv
  <1>6. CallersOK' /\ ChannelsOK'
    BY <1>3 DEF Inv, TypeOK, CallersOK, ChannelsOK, callers
  <1>7. WorkersOK'
    <2>1. queue' \in [Workers -> Seq([req : Calls, ch : Channels])]
      BY <1>3, <1>4 DEF Inv, TypeOK, WorkersOK
    <2> QED BY <1>3, <1>5, <2>1 DEF Inv, TypeOK, WorkersOK
  <1>8. HeldInTime' /\ HeldOnce' /\ PoolUnheld' /\ BuffersAwaited'
    BY <1>3 DEF Inv, HeldInTime, HeldOnce, PoolUnheld, BuffersAwaited, callers
  <1>9. \A d \in Clients, v \in Workers, x \in Channels :
          Awaits(d, v, x) => Awaits(d, v, x)' /\ asked'[d] = asked[d]
    BY <1>3 DEF Awaits, callers
  \* What is in a queue after the step was there before, not at its head.
  <1>10. \A v \in Workers : \A i \in 1..Len(queue'[v]) :
           \/ v # w /\ i \in 1..Len(queue[v]) /\ queue'[v][i] = queue[v][i]
           \/ v = w /\ i + 1 \in 1..Len(queue[w]) /\ queue'[w][i] = queue[w][i + 1]
    BY <1>4
  <1>11. QueuesAwaited'
    <2> SUFFICES ASSUME NEW v \in Workers, NEW i \in 1..Len(queue'[v]),
                        NEW x \in Channels, x = queue'[v][i].ch
                 PROVE  \E d \in Clients : Awaits(d, v, x)'
                                             /\ queue'[v][i].req = asked'[d]
      <3>1. \A v \in Workers : \A i \in 1..Len(queue'[v]) : queue'[v][i].ch \in Channels
        BY <1>10, QueuedType DEF Inv
      <3> QED BY <3>1 DEF QueuesAwaited, Awaits
    <2>1. PICK j \in 1..Len(queue[v]) : queue'[v][i] = queue[v][j]
      BY <1>10
    <2>2. PICK d \in Clients : Awaits(d, v, x) /\ queue[v][j].req = asked[d]
      BY <2>1 DEF Inv, QueuesAwaited
    <2> QED BY <1>9, <2>1, <2>2
  <1>12. QueuedOnce'
    <2> SUFFICES ASSUME NEW v \in Workers,
                        NEW i \in 1..Len(queue'[v]), NEW j \in 1..Len(queue'[v]),
                        queue'[v][i].ch = queue'[v][j].ch
                 PROVE  i = j
      BY DEF QueuedOnce
    <2>1. CASE v = w
      <3>1. i + 1 = j + 1
        BY <1>10, <2>1 DEF Inv, QueuedOnce
      <3> QED BY <3>1
    <2>2. CASE v # w
      BY <1>10, <2>2 DEF Inv, QueuedOnce
    <2> QED BY <2>1, <2>2
  <1>13. SendingAwaited'
    <2> SUFFICES ASSUME NEW v \in Workers, sending'[v] # Nothing,
                        NEW x \in Channels, x = sending'[v].ch
                 PROVE  \E d \in Clients : Awaits(d, v, x)'
      <3>1. \A v \in Workers : sending'[v] # Nothing => sending'[v].ch \in Channels
        BY <1>5
      <3> QED BY <3>1 DEF SendingAwaited, Awaits
    <2>1. CASE v = w
      <3>1. PICK d \in Clients : Awaits(d, w, x)
        BY <1>4, <1>5, <2>1 DEF Inv, QueuesAwaited
      <3> QED BY <1>9, <2>1, <3>1
    <2>2. CASE v # w
      <3>1. PICK d \in Clients : Awaits(d, v, x)
        BY <1>5, <2>2 DEF Inv, SendingAwaited
      <3> QED BY <1>9, <3>1
    <2> QED BY <2>1, <2>2
  <1>14. SendingUnqueued'
    <2> SUFFICES ASSUME NEW v \in Workers, sending'[v] # Nothing,
                        NEW i \in 1..Len(queue'[v])
                 PROVE  queue'[v][i].ch # sending'[v].ch
      BY DEF SendingUnqueued
    <2>1. CASE v = w
      <3>1. queue[w][i + 1].ch # queue[w][1].ch
        BY <1>4, <1>10, <2>1 DEF Inv, QueuedOnce
      <3> QED BY <1>4, <1>5, <1>10, <2>1, <3>1
    <2>2. CASE v # w
      BY <1>5, <1>10, <2>2 DEF Inv, SendingUnqueued
    <2> QED BY <2>1, <2>2
  <1> QED
    BY <1>6, <1>7, <1>8, <1>11, <1>12, <1>13, <1>14 DEF Inv, TypeOK

LEMMA HandoverInv ==
  ASSUME Inv, NEW w \in Workers, NEW c \in Clients, Handover(w, c)
  PROVE  Inv'
  <1>1. pc[c] = "send" /\ turn[c] = w /\ sending[w] = Nothing
    BY DEF Handover, AtSelect
  <1>2. PICK ch \in Channels, r \in Calls : held[c] = ch /\ asked[c] = r
    BY <1>1 DEF Inv, TypeOK, CallersOK, HeldInTime
  <1>3. PICK m \in [req : Calls, ch : Channels] :
          m = Message(c) /\ m.req = r /\ m.ch = ch
    <2>1. Message(c) = [req |-> r, ch |-> ch]
      BY <1>2 DEF Message
    <2> QED BY <2>1
  <1>4. /\ HandleMessage(w, m)
        /\ pc' = [pc EXCEPT ![c] = "wait"]
        /\ UNCHANGED <<asked, turn, held, answer, pool, buffer, queue, stopped,
                       closing>>
    BY <1>3 DEF Handover
  <1>5. /\ shard' \in [Workers -> States]
        /\ sending' \in [Workers -> [ch : Channels, resp : Replies] \cup {Nothing}]
        /\ sending'[w].ch = ch
        /\ \A v \in Workers : v # w => sending'[v] = sending[v]
    BY <1>3, <1>4, Handled DEF Inv
  <1>6. CallersOK' /\ ChannelsOK'
    BY <1>1, <1>4 DEF Inv, TypeOK, CallersOK, ChannelsOK
  <1>7. WorkersOK'
    BY <1>4, <1>5 DEF Inv, TypeOK, WorkersOK
  <1>8. HeldInTime' /\ HeldOnce' /\ PoolUnheld' /\ BuffersAwaited'
    BY <1>1, <1>4 DEF Inv, TypeOK, CallersOK, HeldInTime, HeldOnce, PoolUnheld,
                      BuffersAwaited
  <1>9. \A d \in Clients, v \in Workers, x \in Channels :
          Awaits(d, v, x) => Awaits(d, v, x)' /\ asked'[d] = asked[d]
    BY <1>4 DEF Inv, TypeOK, CallersOK, Awaits
  <1>10. \A d \in Clients : pc[d] = "wait" => held[d] # ch
    BY <1>1, <1>2, ShardedAssumption DEF Inv, HeldOnce
  <1>11. Awaits(c, w, ch)'
    <2>1. buffer[ch] = <<>>
      BY <1>10 DEF Inv, BuffersAwaited
    <2> QED
      BY <1>1, <1>2, <1>4, <2>1 DEF Inv, TypeOK, CallersOK, Awaits
  <1>12. \A v \in Workers : \A i \in 1..Len(queue[v]) : queue[v][i].ch # ch
    BY <1>10 DEF Inv, QueuesAwaited, Awaits
  <1>13. QueuesAwaited'
    <2> SUFFICES ASSUME NEW v \in Workers, NEW i \in 1..Len(queue[v]),
                        NEW x \in Channels, x = queue[v][i].ch
                 PROVE  \E d \in Clients : Awaits(d, v, x)'
                                             /\ queue[v][i].req = asked'[d]
      <3>1. \A v \in Workers : \A i \in 1..Len(queue[v]) : queue[v][i].ch \in Channels
        BY QueuedType DEF Inv
      <3> QED BY <1>4, <3>1 DEF QueuesAwaited, Awaits
    <2>1. PICK d \in Clients : Awaits(d, v, x) /\ queue[v][i].req = asked[d]
      BY DEF Inv, QueuesAwaited
    <2> QED BY <1>9, <2>1
  <1>14. QueuedOnce'
    BY <1>4 DEF Inv, QueuedOnce
  <1>15. SendingAwaited'
    <2> SUFFICES ASSUME NEW v \in Workers, sending'[v] # Nothing,
                        NEW x \in Channels, x = sending'[v].ch
                 PROVE  \E d \in Clients : Awaits(d, v, x)'
      <3>1. \A v \in Workers : sending'[v] # Nothing => sending'[v].ch \in Channels
        BY <1>5
      <3> QED BY <3>1 DEF SendingAwaited, Awaits
    <2>1. CASE v = w
      BY <1>5, <1>11, <2>1
    <2>2. CASE v # w
      <3>1. PICK d \in Clients : Awaits(d, v, x)
        BY <1>5, <2>2 DEF Inv, SendingAwaited
      <3> QED BY <1>9, <3>1
    <2> QED BY <2>1, <2>2
  <1>16. SendingUnqueued'
    BY <1>4, <1>5, <1>12 DEF Inv, SendingUnqueued
  <1> QED
    BY <1>6, <1>7, <1>8, <1>13, <1>14, <1>15, <1>16 DEF Inv, TypeOK

\* A channel is given a response by the worker its caller waits for, and by
\* nobody else: no other request in flight has it.
LEMMA RespondInv ==
  ASSUME Inv, NEW w \in Workers, Respond(w)
  PROVE  Inv'
  <1>1. /\ sending[w] # Nothing
        /\ sending[w] \in [ch : Channels, resp : Replies]
    BY DEF Respond, Inv, TypeOK, WorkersOK
  <1>2. PICK ch \in Channels, y \in Replies : sending[w].ch = ch /\ sending[w].resp = y
    BY <1>1
  <1>3. /\ buffer' = [buffer EXCEPT ![ch] = <<y>>]
        /\ sending' = [sending EXCEPT ![w] = Nothing]
        /\ UNCHANGED <<callers, pool, queue, shard, stopped, closing>>
    BY <1>2 DEF Respond
  <1>4. PICK c \in Clients : Awaits(c, w, ch)
    BY <1>1, <1>2 DEF Inv, SendingAwaited
  <1>5. /\ buffer'[ch] = <<y>>
        /\ \A x \in Channels : x # ch => buffer'[x] = buffer[x]
        /\ sending'[w] = Nothing
        /\ \A v \in Workers : v # w => sending'[v] = sending[v]
    BY <1>3 DEF Inv, TypeOK, ChannelsOK, WorkersOK
  <1>6. CallersOK' /\ ChannelsOK'
    <2>1. <<y>> \in Seq(Replies)
      OBVIOUS
    <2> QED BY <1>3, <2>1 DEF Inv, TypeOK, CallersOK, ChannelsOK, callers
  <1>7. WorkersOK'
    BY <1>3 DEF Inv, TypeOK, WorkersOK
  <1>8. HeldInTime' /\ HeldOnce' /\ PoolUnheld'
    BY <1>3 DEF Inv, HeldInTime, HeldOnce, PoolUnheld, callers
  <1>9. BuffersAwaited'
    <2> SUFFICES ASSUME NEW x \in Channels
                 PROVE  /\ Len(buffer'[x]) <= 1
                        /\ buffer'[x] # <<>> =>
                             \E d \in Clients : pc[d] = "wait" /\ held[d] = x
      BY <1>3 DEF BuffersAwaited, callers
    <2>1. CASE x = ch
      <3>1. Len(buffer'[x]) <= 1
        <4>1. Len(<<y>>) <= 1
          OBVIOUS
        <4>2. buffer'[x] = <<y>>
          BY <1>5, <2>1
        <4> QED BY <4>1, <4>2, Zenon
      <3>2. pc[c] = "wait" /\ held[c] = x
        BY <1>4, <2>1 DEF Awaits
      <3> QED BY <3>1, <3>2
    <2>2. CASE x # ch
      BY <1>5, <2>2 DEF Inv, BuffersAwaited
    <2> QED BY <2>1, <2>2
  <1>10. \A d \in Clients, v \in Workers, x \in Channels :
           Awaits(d, v, x) /\ x # ch => Awaits(d, v, x)' /\ asked'[d] = asked[d]
    BY <1>3, <1>5 DEF Awaits, callers
  \* Nobody waits for another worker on this channel.
  <1>11. \A d \in Clients, v \in Workers : Awaits(d, v, ch) => v = w
    BY <1>4, ShardedAssumption DEF Inv, HeldOnce, Awaits
  <1>12. \A v \in Workers : \A i \in 1..Len(queue[v]) : queue[v][i].ch # ch
    BY <1>1, <1>2, <1>11 DEF Inv, QueuesAwaited, SendingUnqueued
  <1>13. QueuesAwaited'
    <2> SUFFICES ASSUME NEW v \in Workers, NEW i \in 1..Len(queue[v]),
                        NEW x \in Channels, x = queue[v][i].ch
                 PROVE  \E d \in Clients : Awaits(d, v, x)'
                                             /\ queue[v][i].req = asked'[d]
      <3>1. \A v \in Workers : \A i \in 1..Len(queue[v]) : queue[v][i].ch \in Channels
        BY QueuedType DEF Inv
      <3> QED BY <1>3, <3>1 DEF QueuesAwaited, Awaits
    <2>1. PICK d \in Clients : Awaits(d, v, x) /\ queue[v][i].req = asked[d]
      BY DEF Inv, QueuesAwaited
    <2> QED BY <1>10, <1>12, <2>1
  <1>14. QueuedOnce'
    BY <1>3 DEF Inv, QueuedOnce
  <1>15. SendingAwaited'
    <2> SUFFICES ASSUME NEW v \in Workers, sending'[v] # Nothing,
                        NEW x \in Channels, x = sending'[v].ch
                 PROVE  \E d \in Clients : Awaits(d, v, x)'
      <3>1. WorkersOK'
        BY <1>7
      <3>2. \A v \in Workers : sending'[v] # Nothing => sending'[v].ch \in Channels
        BY <3>1 DEF WorkersOK
      <3> QED BY <3>2 DEF SendingAwaited, Awaits
    <2>1. v # w
      BY <1>5
    <2>2. PICK d \in Clients : Awaits(d, v, x)
      BY <1>5, <2>1 DEF Inv, SendingAwaited
    <2> QED BY <1>10, <1>11, <2>1, <2>2
  <1>16. SendingUnqueued'
    BY <1>3, <1>5 DEF Inv, SendingUnqueued
  <1> QED
    BY <1>6, <1>7, <1>8, <1>9, <1>13, <1>14, <1>15, <1>16 DEF Inv, TypeOK

\* Maintenance and shutdown leave callers and channels alone.
LEMMA OtherInv ==
  ASSUME Inv,
         \/ \E w \in Workers : Maintain(w) \/ StopWorker(w)
         \/ Close
  PROVE  Inv'
  <1>1. UNCHANGED <<callers, pool, buffer, queue, sending>>
    BY DEF Maintain, StopWorker, Close, workers
  <1>2. CallersOK' /\ ChannelsOK'
    BY <1>1 DEF Inv, TypeOK, CallersOK, ChannelsOK, callers
  <1>3. WorkersOK'
    <2>1. ASSUME NEW w \in Workers, Maintain(w) PROVE WorkersOK'
      <3>1. PICK s \in States : shard' = [shard EXCEPT ![w] = s]
        BY <2>1, ShardsAssumption DEF Maintain, Inv, TypeOK, WorkersOK
      <3> QED BY <2>1, <3>1 DEF Maintain, Inv, TypeOK, WorkersOK
    <2>2. ASSUME NEW w \in Workers, StopWorker(w) PROVE WorkersOK'
      BY <2>2 DEF StopWorker, Inv, TypeOK, WorkersOK
    <2>3. ASSUME Close PROVE WorkersOK'
      <3>1. closing' \in 0..WorkerCount
        BY <2>3, ShardsAssumption DEF Close, Inv, TypeOK, WorkersOK
      <3>2. UNCHANGED <<queue, sending, shard, stopped>>
        BY <2>3 DEF Close, workers
      <3> QED BY <3>1, <3>2 DEF Inv, TypeOK, WorkersOK
    <2> QED BY <2>1, <2>2, <2>3
  <1>4. HeldInTime' /\ HeldOnce' /\ PoolUnheld' /\ BuffersAwaited'
    BY <1>1 DEF Inv, HeldInTime, HeldOnce, PoolUnheld, BuffersAwaited, callers
  <1>5. QueuesAwaited' /\ QueuedOnce' /\ SendingAwaited' /\ SendingUnqueued'
    BY <1>1, Undisturbed DEF Awaits, callers
  <1> QED
    BY <1>2, <1>3, <1>4, <1>5 DEF Inv, TypeOK

LEMMA NextInv == Inv /\ [Next]_vars => Inv'
  <1> SUFFICES ASSUME Inv, [Next]_vars PROVE Inv'
    OBVIOUS
  <1>1. ASSUME NEW c \in Clients, Caller(c) PROVE Inv'
    BY <1>1, CallInv, GetChannelInv, SendInv, ReceiveInv, PutChannelInv DEF Caller
  <1>2. ASSUME NEW w \in Workers, WorkerStep(w) PROVE Inv'
    BY <1>2, ServeInv, HandoverInv, RespondInv, OtherInv
    DEF WorkerStep, TakeRequest
  <1>3. CASE UNCHANGED vars
    <2>1. UNCHANGED <<callers, pool, buffer, workers, closing>>
      BY <1>3 DEF vars
    <2>2. TypeOK'
      BY <2>1 DEF Inv, TypeOK, CallersOK, ChannelsOK, WorkersOK, callers, workers
    <2>3. HeldInTime' /\ HeldOnce' /\ PoolUnheld' /\ BuffersAwaited'
      BY <2>1 DEF Inv, HeldInTime, HeldOnce, PoolUnheld, BuffersAwaited, callers
    <2>4. QueuesAwaited' /\ QueuedOnce' /\ SendingAwaited' /\ SendingUnqueued'
      BY <2>1, Undisturbed DEF Awaits, callers, workers
    <2> QED BY <2>2, <2>3, <2>4 DEF Inv
  <1> QED
    BY <1>1, <1>2, <1>3, OtherInv DEF Next

LEMMA SpecInv == Spec => []Inv
  BY InitInv, NextInv, PTL DEF Spec

-----------------------------------------------------------------------------

\* The state of callers, channels and workers keeps its type, in particular
\* the FlushAll loop never leaves the slice of workers.
THEOREM TypeCorrect == Spec => []TypeOK
  <1>1. Inv => TypeOK
    BY DEF Inv
  <1> QED
    BY <1>1, SpecInv, PTL

\* A response channel belongs to one caller at a time and is empty while it is
\* in the pool, so no caller is given the response to another one's request.
THEOREM ChannelsStayExclusive == Spec => []ChannelsExclusive
  <1>1. Inv => ChannelsExclusive
    <2> SUFFICES ASSUME Inv, NEW ch \in pool PROVE buffer[ch] = <<>>
      BY DEF Inv, ChannelsExclusive, HeldOnce, PoolUnheld
    <2>1. ch \in Channels
      BY DEF Inv, TypeOK, ChannelsOK
    <2> QED BY <2>1 DEF Inv, BuffersAwaited, PoolUnheld
  <1> QED
    BY <1>1, SpecInv, PTL

\* A worker that has a response to send can send it at once, so it comes back
\* to its select whatever its callers do.
THEOREM WorkersDoNotBlock == Spec => []WorkersNeverBlock
  <1>1. Inv => WorkersNeverBlock
    <2> SUFFICES ASSUME Inv, NEW w \in Workers, sending[w] # Nothing
                 PROVE  /\ buffer[sending[w].ch] = <<>>
                        /\ \E c \in Clients : pc[c] = "wait" /\ held[c] = sending[w].ch
                        /\ \A v \in Workers :
                             /\ \A i \in DOMAIN queue[v] :
                                  queue[v][i].ch # sending[w].ch
                             /\ v # w => sending[v].ch # sending[w].ch
      BY DEF WorkersNeverBlock
    <2> DEFINE ch == sending[w].ch
    <2>0. ch \in Channels
      BY DEF Inv, TypeOK, WorkersOK
    <2>1. PICK c \in Clients : Awaits(c, w, ch)
      BY DEF Inv, SendingAwaited
    <2>2. \A d \in Clients, v \in Workers : Awaits(d, v, ch) => v = w
      <3> HIDE DEF ch
      <3> QED BY <2>0, <2>1, ShardedAssumption DEF Inv, HeldOnce, Awaits
    <2>3. ASSUME NEW v \in Workers, NEW i \in DOMAIN queue[v], queue[v][i].ch = ch
          PROVE  FALSE
      <3>1. i \in 1..Len(queue[v])
        BY DEF Inv, TypeOK, WorkersOK
      <3>2. PICK d \in Clients : Awaits(d, v, ch)
        BY <2>3, <3>1 DEF Inv, QueuesAwaited
      <3> QED BY <2>2, <2>3, <3>1, <3>2 DEF Inv, SendingUnqueued
    <2>4. ASSUME NEW v \in Workers, v # w PROVE sending[v].ch # ch
      <3>1. CASE sending[v] = Nothing
        BY <2>0, <3>1, ShardedAssumption DEF Nothing
      <3>2. CASE sending[v] # Nothing
        <4>1. PICK d \in Clients : Awaits(d, v, sending[v].ch)
          BY <3>2 DEF Inv, SendingAwaited
        <4> QED BY <2>2, <2>4, <4>1
      <3> QED BY <3>1, <3>2
    <2> QED BY <2>1, <2>3, <2>4 DEF Awaits
  <1> QED
    BY <1>1, SpecInv, PTL

-----------------------------------------------------------------------------
(* What callers see of a request: whether it has taken effect *)

\* The worker that handled caller c's request is about to send the response.
Sent(c) == sending[turn[c]] # Nothing /\ sending[turn[c]].ch = held[c]

Pending(c) ==
  [phase |-> IF pc[c] = "idle" THEN "idle" ELSE "asked",
   req |-> asked[c], at |-> turn[c], reply |-> answer[c]]
Done(c, y) ==
  [phase |-> IF LastWorker(asked[c], turn[c]) THEN "answered" ELSE "asked",
   req |-> asked[c],
   at |-> IF LastWorker(asked[c], turn[c]) THEN turn[c] ELSE turn[c] + 1,
   reply |-> y]

\* The response is in one of three places, in this order, or has not been made.
CallSeen(c) ==
  IF pc[c] = "put" THEN Done(c, answer[c])
  ELSE IF pc[c] = "wait" /\ buffer[held[c]] # <<>> THEN Done(c, Head(buffer[held[c]]))
  ELSE IF pc[c] = "wait" /\ Sent(c) THEN Done(c, sending[turn[c]].resp)
  ELSE Pending(c)

\* Only the worker whose turn it is has a response for the caller.
LEMMA OneSends ==
  ASSUME Inv, NEW c \in Clients, pc[c] = "wait"
  PROVE  OnItsWay(c) = IF Sent(c) THEN {turn[c]} ELSE {}
  <1>1. turn[c] \in Workers /\ held[c] # NoChannel
    BY DEF Inv, TypeOK, CallersOK, HeldInTime
  <1>2. ASSUME NEW w \in Workers, sending[w] # Nothing, sending[w].ch = held[c]
        PROVE  w = turn[c]
    <2>1. PICK d \in Clients : Awaits(d, w, held[c])
      BY <1>2 DEF Inv, SendingAwaited
    <2> QED BY <1>1, <2>1 DEF Awaits, Inv, HeldOnce
  <1> QED BY <1>1, <1>2 DEF OnItsWay, Sent

Seen == \A c \in Clients : CallOf(c) = CallSeen(c)

LEMMA InvSeen == Inv => Seen
  <1> SUFFICES ASSUME Inv, NEW c \in Clients PROVE CallOf(c) = CallSeen(c)
    BY DEF Seen
  <1> USE DEF CallOf, CallSeen, Performed, Phase, At
  <1>1. CASE pc[c] = "put"
    BY <1>1 DEF Reply, Done
  <1>2. CASE pc[c] = "wait" /\ buffer[held[c]] # <<>>
    BY <1>2 DEF Reply, Arrived, Done
  <1>3. CASE pc[c] = "wait" /\ buffer[held[c]] = <<>> /\ Sent(c)
    <2>1. OnItsWay(c) = {turn[c]}
      BY <1>3, OneSends
    <2>2. (CHOOSE w \in OnItsWay(c) : TRUE) = turn[c]
      BY <2>1
    <2> QED BY <1>3, <2>1, <2>2 DEF Reply, Arrived, Done
  <1>4. CASE pc[c] = "wait" /\ buffer[held[c]] = <<>> /\ ~Sent(c)
    <2>1. OnItsWay(c) = {}
      BY <1>4, OneSends
    <2> QED BY <1>4, <2>1 DEF Reply, Arrived, Pending
  <1>5. CASE pc[c] \notin {"put", "wait"}
    BY <1>5 DEF Reply, Pending
  <1> QED BY <1>1, <1>2, <1>3, <1>4, <1>5

LEMMA InvSeenNext == Inv' => Seen'
  BY InvSeen, PTL

Mapped == [c \in Clients |-> CallSeen(c)]

\* The step starts or ends no call.
Between == \A c \in Clients : pc'[c] = "idle" <=> pc[c] = "idle"

\* What has to stay for a caller to notice nothing.
Unnoticed(d) ==
  /\ pc'[d] = pc[d] /\ asked'[d] = asked[d] /\ turn'[d] = turn[d]
  /\ held'[d] = held[d] /\ answer'[d] = answer[d]
  /\ pc[d] = "wait" =>
       /\ buffer'[held[d]] = buffer[held[d]]
       /\ Sent(d)' <=> Sent(d)
       /\ Sent(d) => sending'[turn[d]].resp = sending[turn[d]].resp

LEMMA SeenSame ==
  ASSUME NEW d \in Clients, Unnoticed(d)
  PROVE  CallSeen(d)' = CallSeen(d)
  <1>1. Pending(d)' = Pending(d) /\ \A y : Done(d, y)' = Done(d, y)
    BY DEF Unnoticed, Pending, Done
  <1> QED BY <1>1 DEF Unnoticed, CallSeen

LEMMA SeenOnly ==
  ASSUME NEW c \in Clients, \A d \in Clients : d # c => Unnoticed(d)
  PROVE  Mapped' = [Mapped EXCEPT ![c] = CallSeen(c)']
  <1>1. \A d \in Clients : d # c => CallSeen(d)' = CallSeen(d)
    BY SeenSame
  <1> QED BY <1>1 DEF Mapped

LEMMA NothingSeen ==
  ASSUME NEW c \in Clients, \A d \in Clients : d # c => Unnoticed(d),
         CallSeen(c)' = CallSeen(c)
  PROVE  Mapped' = Mapped
  <1>1. \A d \in Clients : CallSeen(d)' = CallSeen(d)
    BY SeenSame
  <1> QED BY <1>1 DEF Mapped

LEMMA CallSees ==
  ASSUME Inv, NEW c \in Clients, NEW r \in Calls, Call(c, r)
  PROVE  /\ Mapped' = [Mapped EXCEPT ![c] = [phase |-> "asked", req |-> r,
                                             at |-> FirstWorker(r), reply |-> NoAnswer]]
         /\ Mapped[c].phase = "idle"
  <1>1. /\ pc[c] = "idle" /\ pc'[c] = "get" /\ asked'[c] = r
        /\ turn'[c] = FirstWorker(r) /\ answer'[c] = NoAnswer
        /\ \A d \in Clients : d # c => Unnoticed(d)
    BY DEF Call, Inv, TypeOK, CallersOK, workers, Unnoticed, Sent
  <1>2. CallSeen(c)' = [phase |-> "asked", req |-> r, at |-> FirstWorker(r),
                        reply |-> NoAnswer]
    BY <1>1 DEF CallSeen, Pending
  <1>3. Mapped[c].phase = "idle"
    BY <1>1 DEF Mapped, CallSeen, Pending
  <1> QED BY <1>1, <1>2, <1>3, SeenOnly

LEMMA GetChannelSees ==
  ASSUME Inv, NEW c \in Clients, GetChannel(c)
  PROVE  Mapped' = Mapped
  <1>1. PICK ch \in Channels :
          /\ \/ ch \in pool /\ UNCHANGED buffer
             \/ /\ ch \notin pool /\ \A d \in Clients : held[d] # ch
                /\ buffer' = [buffer EXCEPT ![ch] = <<>>]
          /\ held' = [held EXCEPT ![c] = ch]
    BY DEF GetChannel
  <1>2. /\ pc[c] = "get" /\ pc' = [pc EXCEPT ![c] = "send"]
        /\ UNCHANGED <<asked, turn, answer, sending>>
    BY DEF GetChannel, workers
  <1>3. \A x \in Channels : (\E d \in Clients : held[d] = x) => buffer'[x] = buffer[x]
    BY <1>1 DEF Inv, TypeOK, ChannelsOK
  <1>4. ASSUME NEW d \in Clients, d # c PROVE Unnoticed(d)
    <2>1. /\ pc'[d] = pc[d] /\ held'[d] = held[d] /\ asked'[d] = asked[d]
          /\ turn'[d] = turn[d] /\ answer'[d] = answer[d]
      BY <1>1, <1>2, <1>4 DEF Inv, TypeOK, CallersOK
    <2>2. pc[d] = "wait" => held[d] \in Channels
      BY DEF Inv, TypeOK, CallersOK, HeldInTime
    <2> QED BY <1>2, <1>3, <2>1, <2>2 DEF Unnoticed, Sent
  <1>5. CallSeen(c) = Pending(c) /\ CallSeen(c)' = Pending(c)' /\ Pending(c)' = Pending(c)
    BY <1>2 DEF CallSeen, Pending, Inv, TypeOK, CallersOK
  <1> QED BY <1>4, <1>5, NothingSeen

LEMMA SendSees ==
  ASSUME Inv, NEW c \in Clients, Send(c)
  PROVE  Mapped' = Mapped
  <1>1. /\ pc[c] = "send" /\ pc' = [pc EXCEPT ![c] = "wait"]
        /\ UNCHANGED <<asked, turn, held, answer, buffer, sending>>
    BY DEF Send
  <1>2. held[c] \in Channels /\ \A d \in Clients : pc[d] = "wait" => held[d] # held[c]
    BY <1>1 DEF Inv, TypeOK, CallersOK, HeldInTime, HeldOnce
  <1>3. buffer[held[c]] = <<>> /\ ~Sent(c)
    BY <1>1, <1>2 DEF Inv, BuffersAwaited, SendingAwaited, Awaits, Sent, TypeOK, CallersOK
  <1>4. \A d \in Clients : d # c => Unnoticed(d)
    BY <1>1 DEF Unnoticed, Sent, Inv, TypeOK, CallersOK
  <1>5. CallSeen(c) = Pending(c) /\ CallSeen(c)' = Pending(c)' /\ Pending(c)' = Pending(c)
    BY <1>1, <1>3 DEF CallSeen, Pending, Sent, Inv, TypeOK, CallersOK
  <1> QED BY <1>4, <1>5, NothingSeen

LEMMA ReceiveSees ==
  ASSUME Inv, NEW c \in Clients, Receive(c)
  PROVE  Mapped' = Mapped
  <1>1. /\ pc[c] = "wait" /\ buffer[held[c]] # <<>>
        /\ answer' = [answer EXCEPT ![c] = Head(buffer[held[c]])]
        /\ buffer' = [buffer EXCEPT ![held[c]] = Tail(@)]
        /\ pc' = [pc EXCEPT ![c] = "put"]
        /\ UNCHANGED <<asked, turn, held, sending>>
    BY DEF Receive, workers
  <1>2. \A d \in Clients : d # c /\ pc[d] = "wait" =>
          held[d] \in Channels /\ held[d] # held[c]
    BY <1>1 DEF Inv, TypeOK, CallersOK, HeldInTime, HeldOnce
  <1>3. \A d \in Clients : d # c => Unnoticed(d)
    BY <1>1, <1>2 DEF Unnoticed, Sent, Inv, TypeOK, CallersOK, ChannelsOK
  <1>4. CallSeen(c)' = CallSeen(c)
    <2>1. pc'[c] = "put" /\ answer'[c] = Head(buffer[held[c]])
      BY <1>1 DEF Inv, TypeOK, CallersOK
    <2>2. \A y : Done(c, y)' = Done(c, y)
      BY <1>1 DEF Done
    <2> QED BY <1>1, <2>1, <2>2 DEF CallSeen
  <1> QED BY <1>3, <1>4, NothingSeen

\* FlushAll goes on to the next worker, which nobody sees, or the call returns.
LEMMA PutChannelSees ==
  ASSUME Inv, NEW c \in Clients, PutChannel(c)
  PROVE  IF LastWorker(asked[c], turn[c])
         THEN /\ pc'[c] = "idle" /\ Mapped[c].phase = "answered"
              /\ Mapped' = [Mapped EXCEPT ![c] =
                   [phase |-> "idle", req |-> NoAnswer, at |-> 0, reply |-> @.reply]]
         ELSE pc'[c] = "get" /\ Mapped' = Mapped
  <1>1. /\ pc[c] = "put" /\ UNCHANGED <<answer, buffer, sending>>
        /\ held' = [held EXCEPT ![c] = NoChannel]
    BY DEF PutChannel, workers
  <1>2. \A d \in Clients : d # c => Unnoticed(d)
    BY <1>1 DEF PutChannel, Unnoticed, Sent, Inv, TypeOK, CallersOK
  <1>3. Mapped[c] = Done(c, answer[c])
    BY <1>1 DEF Mapped, CallSeen
  <1>4. CASE LastWorker(asked[c], turn[c])
    <2>1. pc'[c] = "idle" /\ asked'[c] = NoAnswer /\ turn'[c] = 0
      BY <1>4 DEF PutChannel, Inv, TypeOK, CallersOK
    <2>2. CallSeen(c)' = [phase |-> "idle", req |-> NoAnswer, at |-> 0,
                          reply |-> answer[c]]
      BY <1>1, <2>1 DEF CallSeen, Pending
    <2>3. Mapped[c].phase = "answered" /\ Mapped[c].reply = answer[c]
      BY <1>3, <1>4 DEF Done
    <2> QED BY <1>2, <1>4, <2>1, <2>2, <2>3, SeenOnly
  <1>5. CASE ~LastWorker(asked[c], turn[c])
    <2>1. pc'[c] = "get" /\ asked'[c] = asked[c] /\ turn'[c] = turn[c] + 1
      BY <1>5 DEF PutChannel, Inv, TypeOK, CallersOK
    <2>2. CallSeen(c)' = Done(c, answer[c])
      BY <1>1, <1>5, <2>1 DEF CallSeen, Pending, Done
    <2>3. CallSeen(c)' = CallSeen(c)
      BY <1>1, <2>2 DEF CallSeen
    <2> QED BY <1>2, <1>5, <2>1, <2>3, NothingSeen
  <1> QED BY <1>4, <1>5

\* AtomicCache is about the same workers and calls.
LEMMA AtomicSame ==
  /\ Atomic!Workers = Workers /\ Atomic!Calls = Calls
  /\ \A r : Atomic!FirstWorker(r) = FirstWorker(r)
  /\ \A r, w : Atomic!LastWorker(r, w) <=> LastWorker(r, w)
  BY DEF Atomic!Workers, Workers, Atomic!Calls, Calls, Atomic!FirstWorker, FirstWorker,
         Atomic!LastWorker, LastWorker

LEMMA MappedIs ==
  ASSUME Inv, Inv'
  PROVE  /\ [c \in Clients |-> CallOf(c)] = Mapped
         /\ [c \in Clients |-> CallOf(c)]' = Mapped'
  <1>1. Seen /\ Seen'
    BY InvSeen, InvSeenNext
  <1> QED BY <1>1 DEF Seen, Mapped

\* A worker that handles the request of caller c performs its call.
LEMMA HandledPerforms ==
  ASSUME Inv, Inv', NEW w \in Workers, NEW c \in Clients,
         NEW m \in [req : Calls, ch : Channels],
         HandleMessage(w, m), sending[w] = Nothing, ~stopped[w], UNCHANGED stopped,
         m.req = asked[c], m.ch = held[c], turn[c] = w, buffer[held[c]] = <<>>,
         \/ pc[c] = "wait" /\ pc' = pc
         \/ pc[c] = "send" /\ pc' = [pc EXCEPT ![c] = "wait"],
         UNCHANGED <<asked, turn, held, answer, buffer>>
  PROVE  Atomic!Perform(c) /\ Between
  <1>1. PICK o \in Handle(shard[w], m.req) :
          /\ shard' = [shard EXCEPT ![w] = o.state]
          /\ sending' = [sending EXCEPT ![w] = [ch |-> m.ch, resp |-> o.reply]]
    BY DEF HandleMessage
  <1>2. o.reply \in Replies
    BY ShardsAssumption DEF Inv, TypeOK, WorkersOK, Outcome, Calls
  <1>3. /\ sending'[w].ch = held[c] /\ sending'[w].resp = o.reply
        /\ sending'[w] # Nothing
        /\ \A v \in Workers : v # w => sending'[v] = sending[v]
    <2>1. [ch |-> m.ch, resp |-> o.reply] \in [ch : Channels, resp : Replies]
      BY <1>2
    <2> QED BY <1>1, <2>1, NothingIsNoResponse DEF Inv, TypeOK, WorkersOK
  <1>4. held[c] # NoChannel /\ \A d \in Clients : d # c => held[d] # held[c]
    BY DEF Inv, TypeOK, CallersOK, HeldInTime, HeldOnce
  <1>5. ASSUME NEW d \in Clients, d # c PROVE Unnoticed(d)
    <2>1. pc'[d] = pc[d] /\ turn[d] \in Workers
      BY <1>5 DEF Inv, TypeOK, CallersOK
    <2>2. CASE turn[d] = w
      BY <1>3, <1>4, <1>5, <2>1, <2>2 DEF Unnoticed, Sent
    <2>3. CASE turn[d] # w
      BY <1>3, <2>1, <2>3 DEF Unnoticed, Sent
    <2> QED BY <2>2, <2>3
  <1>6. Mapped[c] = [phase |-> "asked", req |-> asked[c], at |-> w, reply |-> answer[c]]
    BY <1>4 DEF Mapped, CallSeen, Pending, Sent
  <1>7. CallSeen(c)' = Done(c, o.reply)
    <2>1. pc'[c] = "wait" /\ Sent(c)'
      BY <1>3 DEF Sent, Inv, TypeOK, CallersOK
    <2>2. CallSeen(c)' = Done(c, sending[turn[c]].resp)'
      BY <2>1 DEF CallSeen
    <2> QED BY <1>3, <2>2 DEF Done
  <1>8. Mapped' = [Mapped EXCEPT ![c] = Done(c, o.reply)]
    BY <1>5, <1>7, SeenOnly
  <1>9. Between
    BY DEF Between, Inv, TypeOK, CallersOK
  <1>10. Atomic!Perform(c)
    <2>1. Mapped[c].req = asked[c] /\ Mapped[c].at = w /\ Mapped[c].phase = "asked"
      BY <1>6
    <2>2. Mapped' = [Mapped EXCEPT ![c] =
            [phase |-> IF LastWorker(asked[c], w) THEN "answered" ELSE "asked",
             req |-> asked[c], at |-> IF LastWorker(asked[c], w) THEN w ELSE w + 1,
             reply |-> o.reply]]
      BY <1>8 DEF Done
    <2>3. o \in Handle(shard[w], asked[c]) /\ ~stopped[w] /\ UNCHANGED stopped
      BY <1>1
    <2> DEFINE call == [d \in Clients |-> CallOf(d)]
    <2>4. /\ call[c].req = asked[c] /\ call[c].at = w /\ call[c].phase = "asked"
          /\ call' = [call EXCEPT ![c] =
               [phase |-> IF Atomic!LastWorker(asked[c], w) THEN "answered" ELSE "asked",
                req |-> asked[c],
                at |-> IF Atomic!LastWorker(asked[c], w) THEN w ELSE w + 1,
                reply |-> o.reply]]
      BY <2>1, <2>2, MappedIs, AtomicSame
    <2> HIDE DEF call
    <2>5. /\ call[c].phase = "asked" /\ ~stopped[call[c].at] /\ UNCHANGED stopped
          /\ \E x \in Handle(shard[call[c].at], call[c].req) :
               /\ shard' = [shard EXCEPT ![call[c].at] = x.state]
               /\ call' = [call EXCEPT ![c] =
                    [phase |-> IF Atomic!LastWorker(call[c].req, call[c].at)
                               THEN "answered" ELSE "asked",
                     req |-> call[c].req,
                     at |-> IF Atomic!LastWorker(call[c].req, call[c].at)
                            THEN call[c].at ELSE call[c].at + 1,
                     reply |-> x.reply]]
      BY <1>1, <2>3, <2>4
    <2> USE DEF call
    <2> QED BY <2>5 DEF Atomic!Perform
  <1> QED BY <1>9, <1>10

LEMMA ServeSees ==
  ASSUME Inv, Inv', NEW w \in Workers, Serve(w)
  PROVE  \E c \in Clients : Atomic!Perform(c) /\ Between /\ UNCHANGED callers
  <1>1. /\ sending[w] = Nothing /\ ~stopped[w]
        /\ queue[w] # <<>> /\ queue[w] \in Seq([req : Calls, ch : Channels])
        /\ UNCHANGED <<callers, buffer, stopped>>
    BY DEF Serve, AtSelect, Inv, TypeOK, WorkersOK
  <1>2. PICK m \in [req : Calls, ch : Channels] : m = Head(queue[w])
    BY <1>1, EmptySeq, HeadTailProperties
  <1>21. m = queue[w][1] /\ 1 \in 1..Len(queue[w])
    BY <1>1, <1>2, EmptySeq, HeadTailProperties, LenProperties
  <1>3. PICK c \in Clients : Awaits(c, w, m.ch) /\ m.req = asked[c]
    BY <1>21 DEF Inv, QueuesAwaited
  <1>4. HandleMessage(w, m)
    BY <1>2 DEF Serve
  <1>5. Atomic!Perform(c) /\ Between
    BY <1>1, <1>3, <1>4, HandledPerforms DEF Awaits, callers
  <1> QED BY <1>1, <1>5

LEMMA HandoverSees ==
  ASSUME Inv, Inv', NEW w \in Workers, NEW c \in Clients, Handover(w, c)
  PROVE  Atomic!Perform(c) /\ Between
  <1>1. /\ pc[c] = "send" /\ turn[c] = w /\ sending[w] = Nothing /\ ~stopped[w]
        /\ pc' = [pc EXCEPT ![c] = "wait"]
        /\ UNCHANGED <<asked, turn, held, answer, buffer, stopped>>
        /\ HandleMessage(w, Message(c))
    BY DEF Handover, AtSelect
  <1>2. held[c] \in Channels /\ asked[c] \in Calls
    BY <1>1 DEF Inv, TypeOK, CallersOK, HeldInTime
  <1>3. PICK m \in [req : Calls, ch : Channels] :
          m = Message(c) /\ m.req = asked[c] /\ m.ch = held[c]
    <2>1. PICK r \in Calls, ch \in Channels : r = asked[c] /\ ch = held[c]
      BY <1>2
    <2>2. Message(c) = [req |-> r, ch |-> ch]
      BY <2>1 DEF Message
    <2> QED BY <2>1, <2>2
  <1>4. buffer[held[c]] = <<>>
    BY <1>1, <1>2 DEF Inv, BuffersAwaited, HeldInTime, HeldOnce
  <1> QED BY <1>1, <1>3, <1>4, HandledPerforms

\* A response on its way is the one that will be received.
LEMMA RespondSees ==
  ASSUME Inv, NEW w \in Workers, Respond(w)
  PROVE  Mapped' = Mapped
  <1>1. /\ sending[w] # Nothing /\ sending[w] \in [ch : Channels, resp : Replies]
        /\ buffer[sending[w].ch] = <<>>
        /\ buffer' = [buffer EXCEPT ![sending[w].ch] = <<sending[w].resp>>]
        /\ sending' = [sending EXCEPT ![w] = Nothing]
        /\ UNCHANGED callers
    BY DEF Respond, Inv, TypeOK, WorkersOK
  <1>2. PICK c \in Clients : Awaits(c, w, sending[w].ch)
    BY <1>1 DEF Inv, SendingAwaited
  <1>3. \A d \in Clients : d # c /\ pc[d] = "wait" =>
          held[d] \in Channels /\ held[d] # sending[w].ch
    BY <1>1, <1>2 DEF Inv, TypeOK, CallersOK, HeldInTime, HeldOnce, Awaits
  <1>4. ASSUME NEW d \in Clients, d # c PROVE Unnoticed(d)
    <2>1. pc[d] = "wait" => buffer'[held[d]] = buffer[held[d]]
      BY <1>1, <1>3, <1>4 DEF Inv, TypeOK, ChannelsOK
    <2>2. turn[d] # w => sending'[turn[d]] = sending[turn[d]]
      BY <1>1 DEF Inv, TypeOK, WorkersOK, CallersOK
    <2>3. turn[d] = w => sending'[turn[d]] = Nothing
      BY <1>1 DEF Inv, TypeOK, WorkersOK, CallersOK
    <2> QED BY <1>1, <1>3, <1>4, <2>1, <2>2, <2>3 DEF Unnoticed, Sent, callers
  <1>5. CallSeen(c)' = CallSeen(c)
    <2>1. PICK y : y = sending[w].resp
      OBVIOUS
    <2>2. buffer'[held[c]] = <<y>> /\ held'[c] = held[c] /\ pc'[c] = "wait"
      BY <1>1, <1>2, <2>1 DEF Awaits, Inv, TypeOK, ChannelsOK, callers
    <2>3. <<y>> # <<>> /\ Head(<<y>>) = y
      OBVIOUS
    <2>4. CallSeen(c)' = Done(c, y)'
      BY <2>2, <2>3 DEF CallSeen
    <2>5. CallSeen(c) = Done(c, y)
      BY <1>1, <1>2, <2>1 DEF CallSeen, Awaits, Sent
    <2>6. Done(c, y)' = Done(c, y)
      BY <1>1 DEF Done, callers
    <2> QED BY <2>4, <2>5, <2>6
  <1> QED BY <1>4, <1>5, NothingSeen

\* What a step does in AtomicCache, and that only two kinds begin and end calls.
Begins == \E c \in Clients, r \in Calls : Call(c, r) /\ Atomic!Ask(c, r)
Performs == \E c \in Clients : Atomic!Perform(c) /\ Between
Returns ==
  \E c \in Clients :
    PutChannel(c) /\ LastWorker(asked[c], turn[c]) /\ Atomic!Return(c)
Maintains == \E w \in Workers : Atomic!Maintain(w) /\ UNCHANGED callers
GoesDown == \E w \in Workers : Atomic!GoDown(w) /\ UNCHANGED callers
Hidden == UNCHANGED Atomic!avars /\ Between

LEMMA StepSeen ==
  ASSUME Inv, Inv', [Next]_vars
  PROVE  Begins \/ Performs \/ Returns \/ Maintains \/ GoesDown \/ Hidden
  <1>1. ASSUME UNCHANGED <<callers, buffer, sending>> PROVE Mapped' = Mapped
    BY <1>1 DEF Mapped, CallSeen, Pending, Done, Sent, callers
  <1>2. ASSUME Mapped' = Mapped, UNCHANGED <<shard, stopped>> PROVE UNCHANGED Atomic!avars
    BY <1>2, MappedIs DEF Atomic!avars
  <1>3. ASSUME NEW c \in Clients, NEW r \in Calls, Call(c, r) PROVE Begins
    <2>1. UNCHANGED <<shard, stopped>>
      BY <1>3 DEF Call, workers
    <2>2. Atomic!Ask(c, r)
      <3>1. /\ Mapped' = [Mapped EXCEPT ![c] =
                 [phase |-> "asked", req |-> r, at |-> FirstWorker(r), reply |-> NoAnswer]]
            /\ Mapped[c].phase = "idle"
        BY <1>3, CallSees
      <3> QED BY <2>1, <3>1, MappedIs, AtomicSame DEF Atomic!Ask
    <2> QED BY <1>3, <2>2 DEF Begins
  <1>4. ASSUME NEW c \in Clients, GetChannel(c) \/ Send(c) \/ Receive(c) PROVE Hidden
    <2>1. Mapped' = Mapped
      BY <1>4, GetChannelSees, SendSees, ReceiveSees
    <2>2. UNCHANGED <<shard, stopped>> /\ Between
      BY <1>4 DEF GetChannel, Send, Receive, workers, Between, Inv, TypeOK, CallersOK
    <2> QED BY <1>2, <2>1, <2>2 DEF Hidden
  <1>5. ASSUME NEW c \in Clients, PutChannel(c) PROVE Returns \/ Hidden
    <2>1. UNCHANGED <<shard, stopped>> /\ pc[c] = "put"
      BY <1>5 DEF PutChannel, workers
    <2>2. CASE LastWorker(asked[c], turn[c])
      <3>1. /\ Mapped[c].phase = "answered"
            /\ Mapped' = [Mapped EXCEPT ![c] =
                 [phase |-> "idle", req |-> NoAnswer, at |-> 0, reply |-> @.reply]]
        BY <1>5, <2>2, PutChannelSees
      <3>2. Atomic!Return(c)
        BY <2>1, <3>1, MappedIs DEF Atomic!Return
      <3> QED BY <1>5, <2>2, <3>2 DEF Returns
    <2>3. CASE ~LastWorker(asked[c], turn[c])
      <3>1. pc'[c] = "get" /\ Mapped' = Mapped
        BY <1>5, <2>3, PutChannelSees
      <3>2. Between
        BY <1>5, <2>1, <2>3, <3>1 DEF PutChannel, Between, Inv, TypeOK, CallersOK
      <3> QED BY <1>2, <2>1, <3>1, <3>2 DEF Hidden
    <2> QED BY <2>2, <2>3
  <1>6. ASSUME NEW w \in Workers, TakeRequest(w) PROVE Performs
    BY <1>6, ServeSees, HandoverSees DEF TakeRequest, Performs
  <1>7. ASSUME NEW w \in Workers, Respond(w) PROVE Hidden
    <2>1. UNCHANGED <<shard, stopped>> /\ Between
      BY <1>7 DEF Respond, Between, callers
    <2> QED BY <1>2, <1>7, <2>1, RespondSees DEF Hidden
  <1>8. ASSUME NEW w \in Workers, Maintain(w) PROVE Maintains
    <2>1. Mapped' = Mapped
      BY <1>1, <1>8 DEF Maintain
    <2>2. Atomic!Maintain(w) /\ UNCHANGED callers
      BY <1>8, <2>1, MappedIs DEF Maintain, AtSelect, Atomic!Maintain
    <2> QED BY <2>2 DEF Maintains
  <1>9. ASSUME NEW w \in Workers, StopWorker(w) PROVE GoesDown
    <2>1. Mapped' = Mapped
      BY <1>1, <1>9 DEF StopWorker
    <2>2. Atomic!GoDown(w) /\ UNCHANGED callers
      BY <1>9, <2>1, MappedIs DEF StopWorker, Atomic!GoDown
    <2> QED BY <2>2 DEF GoesDown
  <1>10. CASE Close \/ UNCHANGED vars
    <2>1. UNCHANGED <<callers, buffer, sending, shard, stopped>>
      BY <1>10 DEF Close, vars, workers
    <2>2. Mapped' = Mapped
      BY <1>1, <2>1
    <2> QED BY <1>2, <2>1, <2>2 DEF Hidden, Between, callers
  <1>11. ASSUME NEW c \in Clients, Caller(c) PROVE Begins \/ Returns \/ Hidden
    BY <1>3, <1>4, <1>5, <1>11 DEF Caller
  <1>12. ASSUME NEW w \in Workers, WorkerStep(w)
         PROVE  Performs \/ Maintains \/ GoesDown \/ Hidden
    BY <1>6, <1>7, <1>8, <1>9, <1>12 DEF WorkerStep
  <1> QED BY <1>10, <1>11, <1>12 DEF Next

LEMMA InitSeen == Init => Atomic!Init
  <1> SUFFICES ASSUME Init PROVE Atomic!Init
    OBVIOUS
  <1>1. \A c \in Clients :
          CallOf(c) = [phase |-> "idle", req |-> NoAnswer, at |-> 0, reply |-> NoAnswer]
    BY DEF Init, CallOf, Phase, Performed, Reply, At
  <1> QED BY <1>1, AtomicSame DEF Init, Atomic!Init

\* Whatever the channels, the queues and the order of the goroutines: every call
\* takes effect on each of its shards at one instant while it is in progress, and
\* returns what it yielded there.
THEOREM ShardedImplementsAtomic == Spec => ImplementsAtomicCache
  <1>1. Inv /\ Inv' /\ [Next]_vars => [Atomic!Next]_Atomic!avars
    BY StepSeen, AtomicSame
       DEF Begins, Performs, Returns, Maintains, GoesDown, Hidden, Atomic!Next
  <1> QED BY <1>1, InitSeen, SpecInv, PTL DEF Spec, ImplementsAtomicCache, Atomic!Spec

-----------------------------------------------------------------------------
(* Shards of tokens: what has happened before, and what has been promised *)

\* A step of a shard only adds to its tokens.
Grows(s, t) ==
  /\ s.last \in Nat /\ t.last \in Nat /\ s.last <= t.last
  /\ \A k \in Keys :
       /\ s.cas[k] \in 0..s.last /\ t.cas[k] \in 0..t.last
       /\ t.cas[k] \in {s.cas[k], 0} \/ t.cas[k] > s.last

\* What worker w holds was stored after token n.
Cleared(w, n) ==
  /\ n \in Nat /\ n <= shard[w].last
  /\ \A k \in Keys : shard[w].cas[k] = 0 \/ shard[w].cas[k] > n

\* Token t of key k is neither the key's any more nor can it be again.
Spent(k, t) ==
  LET s == shard[WorkerOf(k)] IN s.cas[k] # t /\ t <= s.last

Single(c, op) == Mapped[c].req \in Requests /\ Mapped[c].req.op = op
Succeeded(c) == Mapped[c].phase = "answered" /\ Mapped[c].reply.err = "ok"

\* A cas that has taken effect and whose caller has not been told.
Untold(c, k, t) ==
  /\ pc[c] = "wait" /\ Succeeded(c) /\ Single(c, "Cas")
  /\ Mapped[c].req.key = k /\ Mapped[c].req.cas = t

ShardsOK == \A w \in Workers : Grows(shard[w], shard[w])
CallOK(c) ==
  IF Mapped[c].phase = "idle" THEN Mapped[c].req = NoAnswer
  ELSE Mapped[c].req # FlushAll => Mapped[c].at = WorkerOf(Mapped[c].req.key)
\* A flush has cleared the workers it has visited.
FlushOK(c) ==
  \A w \in Workers :
    IF Mapped[c].req = FlushAll
    THEN /\ before[c][w] \in Nat /\ before[c][w] <= shard[w].last
         /\ w < Mapped[c].at \/ Mapped[c].phase = "answered" => Cleared(w, before[c][w])
    ELSE before[c][w] = 0
FloorOK ==
  \A w \in Workers :
    /\ Cleared(w, flushed[w])
    /\ \A c \in Clients : floor[c][w] \in Nat /\ floor[c][w] <= flushed[w]
GetOK(c) ==
  Single(c, "Get") /\ Succeeded(c) => Mapped[c].reply.cas > floor[c][Mapped[c].at]
\* Of the calls that present token t of key k one has succeeded, if any, and then
\* the token is spent.
CasOK(k, t) ==
  /\ wins[<<k, t>>] \in {0, 1}
  /\ wins[<<k, t>>] = 1 => Spent(k, t)
  /\ \A c \in Clients : Untold(c, k, t) =>
       /\ wins[<<k, t>>] = 0 /\ Spent(k, t)
       /\ \A d \in Clients : Untold(d, k, t) => d = c

Promised ==
  /\ ShardsOK /\ FloorOK
  /\ \A c \in Clients : CallOK(c) /\ FlushOK(c) /\ GetOK(c)
  /\ \A k \in Keys, t \in Tokens : CasOK(k, t)

LEMMA WorkerOfType ==
  ASSUME ShardsOfTokens, NEW k \in Keys
  PROVE  WorkerOf(k) \in Workers
  <1>1. [op |-> "Get", key |-> k] \in TokenRequests
    BY DEF TokenRequests
  <1>2. Route[[op |-> "Get", key |-> k]] = WorkerOf(k)
    BY <1>1 DEF Route
  <1> QED BY <1>1, <1>2, ShardsAssumption DEF ShardsOfTokens

LEMMA StoredGrows ==
  ASSUME NEW s \in TokenShards, Grows(s, s), NEW k \in Keys, NEW o \in Stored(s, k)
  PROVE  Grows(s, o.state) /\ o.state.cas[k] = s.last + 1
  <1>1. /\ o.state.last = s.last + 1
        /\ o.state.cas = [s.cas EXCEPT ![k] = s.last + 1]
    BY DEF Stored
  <1>2. \A j \in Keys : o.state.cas[j] = IF j = k THEN s.last + 1 ELSE s.cas[j]
    BY <1>1 DEF TokenShards
  <1> QED BY <1>1, <1>2 DEF Grows

\* What handling a request does to tokens, and what it may answer.
LEMMA HandleGrows ==
  ASSUME NEW s \in TokenShards, Grows(s, s), NEW r \in TokenRequests \cup {FlushAll},
         NEW o \in HandleTokens(s, r)
  PROVE  /\ Grows(s, o.state)
         /\ r = FlushAll => \A k \in Keys : o.state.cas[k] = 0
         /\ r # FlushAll /\ o.reply.err = "ok" =>
              /\ r.op = "Get" => o.reply.cas = s.cas[r.key] /\ s.cas[r.key] # 0
              /\ r.op = "Cas" => s.cas[r.key] = r.cas /\ o.state.cas[r.key] # r.cas
  <1>1. CASE r = FlushAll
    <2>1. o.state = [s EXCEPT !.cas = [k \in Keys |-> 0]]
      BY <1>1 DEF HandleTokens, Answered
    <2>2. o.state.last = s.last /\ \A k \in Keys : o.state.cas[k] = 0
      BY <2>1 DEF TokenShards
    <2> QED BY <1>1, <2>2 DEF Grows
  <1>2. CASE r # FlushAll
    <2>1. r \in TokenRequests /\ r.key \in Keys /\ s.cas[r.key] \in 0..s.last
      BY <1>2 DEF TokenRequests, Grows
    <2>2. CASE o \in Stored(s, r.key)
      <3>1. Grows(s, o.state) /\ o.state.cas[r.key] = s.last + 1
        BY <2>1, <2>2, StoredGrows
      <3>2. r.op # "Get" /\ (r.op = "Cas" => s.cas[r.key] = r.cas)
        <4>1. ASSUME NEW e, NEW x, NEW y PROVE Answered(x, e, y).state = x
          BY DEF Answered
        <4>2. s.last \in Nat /\ o.state.last = s.last + 1
          BY <2>2 DEF Stored, Grows
        <4> QED BY <1>2, <2>1, <2>2, <4>1, <4>2 DEF HandleTokens
      <3> QED BY <1>2, <2>1, <3>1, <3>2 DEF Grows
    <2>3. CASE o.state = s /\ o = Answered(s, "ok", s.cas[r.key]) /\ s.cas[r.key] # 0
               /\ r.op = "Get"
      BY <1>2, <2>1, <2>3 DEF Answered
    <2>4. CASE o.state = s /\ o.reply.err # "ok"
      BY <1>2, <2>4
    <2>5. CASE o = Answered([s EXCEPT !.cas[r.key] = 0], "ok", 0) /\ r.op = "Delete"
      <3>1. o.state = [s EXCEPT !.cas[r.key] = 0]
        BY <2>5 DEF Answered
      <3>2. /\ o.state.last = s.last
            /\ \A k \in Keys : o.state.cas[k] = IF k = r.key THEN 0 ELSE s.cas[k]
        BY <3>1 DEF TokenShards
      <3> QED BY <1>2, <2>5, <3>2 DEF Grows
    <2>6. \/ o \in Stored(s, r.key)
          \/ /\ o = Answered(s, "ok", s.cas[r.key]) /\ s.cas[r.key] # 0 /\ r.op = "Get"
          \/ o = Answered(s, "ErrKeyNotFound", 0) \/ o = Answered(s, "ErrCasMismatch", 0)
          \/ o = Answered([s EXCEPT !.cas[r.key] = 0], "ok", 0) /\ r.op = "Delete"
      BY <1>2 DEF HandleTokens
    <2>7. \A e, x, y : Answered(x, e, y).state = x /\ Answered(x, e, y).reply.err = e
      BY DEF Answered
    <2> QED BY <2>2, <2>3, <2>4, <2>5, <2>6, <2>7
  <1> QED BY <1>1, <1>2

LEMMA LoseGrows ==
  ASSUME NEW s \in TokenShards, Grows(s, s), NEW t \in LoseTokens(s)
  PROVE  Grows(s, t)
  <1>1. PICK lost \in SUBSET Keys :
          t = [s EXCEPT !.cas = [k \in Keys |-> IF k \in lost THEN 0 ELSE @[k]]]
    BY DEF LoseTokens
  <1>2. /\ t.last = s.last
        /\ \A k \in Keys : t.cas[k] = IF k \in lost THEN 0 ELSE s.cas[k]
    BY <1>1 DEF TokenShards
  <1> QED BY <1>2 DEF Grows

ShardsGrow == \A w \in Workers : Grows(shard[w], shard'[w])

LEMMA ClearedStays ==
  ASSUME NEW w \in Workers, Grows(shard[w], shard'[w]), NEW n, Cleared(w, n)
  PROVE  Cleared(w, n)'
  BY DEF Grows, Cleared

LEMMA SpentStays ==
  ASSUME ShardsOfTokens, ShardsGrow, NEW k \in Keys, NEW t \in Tokens, Spent(k, t)
  PROVE  Spent(k, t)'
  <1>1. Grows(shard[WorkerOf(k)], shard'[WorkerOf(k)])
    BY WorkerOfType DEF ShardsGrow
  <1> QED BY <1>1 DEF Grows, Spent, Tokens

LEMMA MaxOfTwo ==
  ASSUME NEW a \in Nat, NEW b \in Nat
  PROVE  Max({a, b}) \in {a, b} /\ Max({a, b}) >= a /\ Max({a, b}) >= b
  <1>1. \E x \in {a, b} : \A y \in {a, b} : x >= y
    <2>1. CASE a >= b
      BY <2>1
    <2>2. CASE b >= a
      BY <2>2
    <2> QED BY <2>1, <2>2
  <1> QED BY <1>1 DEF Max

-----------------------------------------------------------------------------
(* The steps, as callers see them *)

LEMMA SeenType ==
  ASSUME Inv, NEW c \in Clients
  PROVE  /\ Mapped[c].at \in Workers /\ Mapped[c].req \in Calls \cup {NoAnswer}
         /\ Mapped[c].phase = "idle" <=> pc[c] = "idle"
         /\ Mapped[c].phase \in {"idle", "asked", "answered"}
         /\ Mapped[c].phase = "answered" =>
              /\ pc[c] \in {"wait", "put"}
              /\ LastWorker(Mapped[c].req, Mapped[c].at)
         /\ Mapped[c].phase # "idle" => Mapped[c].req \in Calls
  <1>1. turn[c] \in Workers /\ asked[c] \in Calls \cup {NoAnswer}
        /\ (pc[c] # "idle" => asked[c] \in Calls)
    BY DEF Inv, TypeOK, CallersOK
  <1>2. ~LastWorker(asked[c], turn[c]) => turn[c] + 1 \in Workers
    BY <1>1, ShardsAssumption DEF LastWorker, Workers
  <1>3. Mapped[c] = Pending(c) \/ (pc[c] \in {"wait", "put"} /\ \E y : Mapped[c] = Done(c, y))
    BY DEF Mapped, CallSeen
  <1>4. CASE Mapped[c] = Pending(c)
    BY <1>1, <1>4 DEF Pending
  <1>5. ASSUME pc[c] \in {"wait", "put"}, NEW y, Mapped[c] = Done(c, y)
        PROVE  /\ Mapped[c].at \in Workers /\ Mapped[c].req \in Calls
               /\ Mapped[c].phase \in {"asked", "answered"}
               /\ Mapped[c].phase = "answered" => LastWorker(Mapped[c].req, Mapped[c].at)
    BY <1>1, <1>2, <1>5 DEF Done
  <1> QED BY <1>3, <1>4, <1>5

\* A caller is told by the step that receives the response.
LEMMA ToldByReceive ==
  ASSUME Inv, [Next]_vars, NEW c \in Clients
  PROVE  /\ pc'[c] = "put" /\ pc[c] # "put" => Receive(c)
         /\ pc'[c] = "wait" => pc[c] # "put"
  <1>1. ASSUME NEW d \in Clients, Caller(d)
        PROVE  /\ pc'[c] = "put" /\ pc[c] # "put" => Receive(c)
               /\ pc'[c] = "wait" => pc[c] # "put"
    <2>1. ASSUME NEW r \in Calls, Call(d, r) \/ GetChannel(d) \/ PutChannel(d) \/ Send(d)
          PROVE  pc'[c] # "put" \/ pc[c] = "put"
      BY <2>1 DEF Call, GetChannel, PutChannel, Send, Inv, TypeOK, CallersOK
    <2>2. ASSUME NEW r \in Calls, Call(d, r) \/ GetChannel(d) \/ PutChannel(d) \/ Send(d)
          PROVE  pc'[c] = "wait" => pc[c] # "put"
      BY <2>2 DEF Call, GetChannel, PutChannel, Send, Inv, TypeOK, CallersOK
    <2>3. CASE Receive(d)
      BY <2>3 DEF Receive, Inv, TypeOK, CallersOK
    <2>4. CASE \E r \in Calls : Call(d, r)
      BY <2>1, <2>2, <2>4
    <2>5. CASE GetChannel(d) \/ PutChannel(d) \/ Send(d)
      <3>1. FlushAll \in Calls
        BY DEF Calls
      <3> QED BY <2>1, <2>2, <2>5, <3>1
    <2> QED BY <1>1, <2>3, <2>4, <2>5 DEF Caller
  <1>2. ASSUME NEW w \in Workers, NEW d \in Clients, Handover(w, d)
        PROVE  /\ pc'[c] # "put" \/ pc[c] = "put"
               /\ pc'[c] = "wait" => pc[c] # "put"
    BY <1>2 DEF Handover, Inv, TypeOK, CallersOK
  <1>3. ASSUME NEW w \in Workers, Serve(w) \/ Respond(w) \/ Maintain(w) \/ StopWorker(w)
        PROVE  pc' = pc
    BY <1>3 DEF Serve, Respond, Maintain, StopWorker, callers
  <1>4. CASE Close \/ UNCHANGED vars
    BY <1>4 DEF Close, vars, callers
  <1> QED BY <1>1, <1>2, <1>3, <1>4 DEF Next, WorkerStep, TakeRequest

Begun(c, r) ==
  /\ Call(c, r) /\ UNCHANGED shard /\ Mapped[c].phase = "idle"
  /\ Mapped' = [Mapped EXCEPT ![c] =
       [phase |-> "asked", req |-> r, at |-> FirstWorker(r), reply |-> NoAnswer]]
Taken(c, r, w) ==
  /\ Between
  /\ Mapped[c].phase = "asked" /\ Mapped[c].req = r /\ Mapped[c].at = w
  /\ \E o \in Handle(shard[w], r) :
       /\ shard' = [shard EXCEPT ![w] = o.state]
       /\ Mapped' = [Mapped EXCEPT ![c] =
            [phase |-> IF LastWorker(r, w) THEN "answered" ELSE "asked",
             req |-> r, at |-> IF LastWorker(r, w) THEN w ELSE w + 1,
             reply |-> o.reply]]
Ended(c) ==
  /\ PutChannel(c) /\ LastWorker(asked[c], turn[c]) /\ UNCHANGED shard
  /\ Mapped[c].phase = "answered"
  /\ Mapped' = [Mapped EXCEPT ![c] =
       [phase |-> "idle", req |-> NoAnswer, at |-> 0, reply |-> @.reply]]
Kept(w) ==
  /\ Between /\ Mapped' = Mapped
  /\ \E s \in Upkeep(shard[w]) : shard' = [shard EXCEPT ![w] = s]
Steady == Between /\ Mapped' = Mapped /\ UNCHANGED shard

LEMMA StepMapped ==
  ASSUME Inv, Inv', [Next]_vars
  PROVE  \/ \E c \in Clients, r \in Calls : Begun(c, r)
         \/ \E c \in Clients, r \in Calls, w \in Workers : Taken(c, r, w)
         \/ \E c \in Clients : Ended(c)
         \/ \E w \in Workers : Kept(w)
         \/ Steady
  <1>1. CASE Begins
    <2>1. PICK c \in Clients, r \in Calls : Call(c, r) /\ Atomic!Ask(c, r)
      BY <1>1 DEF Begins
    <2>2. UNCHANGED shard
      BY <2>1 DEF Call, workers
    <2>3. Begun(c, r)
      BY <2>1, <2>2, CallSees DEF Begun
    <2> QED BY <2>3
  <1>2. CASE Performs
    <2>1. PICK c \in Clients : Atomic!Perform(c) /\ Between
      BY <1>2 DEF Performs
    <2> DEFINE call == [d \in Clients |-> CallOf(d)]
               r == call[c].req
               w == call[c].at
    <2>2. /\ call[c].phase = "asked"
          /\ \E o \in Handle(shard[w], r) :
               /\ shard' = [shard EXCEPT ![w] = o.state]
               /\ call' = [call EXCEPT ![c] =
                    [phase |-> IF Atomic!LastWorker(r, w) THEN "answered" ELSE "asked",
                     req |-> r, at |-> IF Atomic!LastWorker(r, w) THEN w ELSE w + 1,
                     reply |-> o.reply]]
      BY <2>1 DEF Atomic!Perform
    <2>3. call = Mapped /\ call' = Mapped'
      BY MappedIs
    <2> HIDE DEF call
    <2>4. r \in Calls /\ w \in Workers
      BY <2>2, <2>3, SeenType
    <2>5. Taken(c, r, w)
      BY <2>1, <2>2, <2>3, AtomicSame DEF Taken
    <2> QED BY <2>4, <2>5
  <1>3. CASE Returns
    <2>1. PICK c \in Clients : PutChannel(c) /\ LastWorker(asked[c], turn[c])
      BY <1>3 DEF Returns
    <2>2. UNCHANGED shard
      BY <2>1 DEF PutChannel, workers
    <2>3. Ended(c)
      BY <2>1, <2>2, PutChannelSees DEF Ended
    <2> QED BY <2>3
  <1>4. CASE Maintains
    <2>1. PICK w \in Workers : Atomic!Maintain(w) /\ UNCHANGED callers
      BY <1>4 DEF Maintains
    <2>2. Mapped' = Mapped /\ \E s \in Upkeep(shard[w]) : shard' = [shard EXCEPT ![w] = s]
      BY <2>1, MappedIs DEF Atomic!Maintain
    <2>3. Kept(w)
      BY <2>1, <2>2 DEF Kept, Between, callers
    <2> QED BY <2>3
  <1>5. CASE GoesDown \/ Hidden
    <2>1. Between /\ Mapped' = Mapped /\ UNCHANGED shard
      BY <1>5, MappedIs DEF GoesDown, Hidden, Atomic!GoDown, Atomic!avars, Between, callers
    <2> QED BY <2>1 DEF Steady
  <1> QED BY <1>1, <1>2, <1>3, <1>4, <1>5, StepSeen

LEMMA HandlesTokens ==
  ASSUME ShardsOfTokens, NEW s \in TokenShards, NEW r \in Calls
  PROVE  Handle(s, r) = HandleTokens(s, r)
  <1>1. s \in States /\ r \in Requests \cup {FlushAll}
    BY DEF ShardsOfTokens, Calls
  <1> QED BY <1>1 DEF ShardsOfTokens

LEMMA AllGrow ==
  ASSUME ShardsOfTokens, Inv, Inv', [Next]_vars, ShardsOK
  PROVE  ShardsGrow /\ ShardsOK'
  <1>1. /\ \A w \in Workers : shard[w] \in TokenShards /\ Grows(shard[w], shard[w])
        /\ shard \in [Workers -> TokenShards]
    BY DEF Inv, TypeOK, WorkersOK, ShardsOfTokens, ShardsOK
  <1>2. ASSUME NEW w \in Workers, NEW s, Grows(shard[w], s), shard' = [shard EXCEPT ![w] = s]
        PROVE  ShardsGrow
    BY <1>1, <1>2 DEF ShardsGrow
  <1>3. ASSUME NEW c \in Clients, NEW r \in Calls, NEW w \in Workers, Taken(c, r, w)
        PROVE  ShardsGrow
    <2>1. PICK o \in Handle(shard[w], r) : shard' = [shard EXCEPT ![w] = o.state]
      BY <1>3 DEF Taken
    <2>2. o \in HandleTokens(shard[w], r)
      BY <1>1, <2>1, HandlesTokens
    <2>3. r \in TokenRequests \cup {FlushAll}
      BY DEF ShardsOfTokens, Calls
    <2>4. Grows(shard[w], o.state)
      BY <1>1, <2>2, <2>3, HandleGrows
    <2> QED BY <1>2, <2>1, <2>4
  <1>4. ASSUME NEW w \in Workers, Kept(w) PROVE ShardsGrow
    <2>1. PICK s \in LoseTokens(shard[w]) : shard' = [shard EXCEPT ![w] = s]
      BY <1>1, <1>4 DEF Kept, ShardsOfTokens
    <2> QED BY <1>1, <1>2, <2>1, LoseGrows
  <1>5. ASSUME UNCHANGED shard PROVE ShardsGrow
    BY <1>1, <1>5 DEF ShardsGrow
  <1>6. ShardsGrow
    BY <1>3, <1>4, <1>5, StepMapped DEF Begun, Ended, Steady
  <1>7. ShardsOK'
    BY <1>6 DEF ShardsGrow, ShardsOK, Grows
  <1> QED BY <1>6, <1>7

-----------------------------------------------------------------------------
(* The history of a step *)

LEMMA HistoryBetween ==
  ASSUME HNext, Between, FloorOK
  PROVE  /\ \A c \in Clients : before'[c] = before[c] /\ floor'[c] = floor[c]
         /\ \A w \in Workers : flushed'[w] = flushed[w]
  <1>1. \A c \in Clients : ~Calling(c) /\ ~Returning(c)
    BY DEF Between, Calling, Returning
  <1>2. \A c \in Clients : before'[c] = before[c] /\ floor'[c] = floor[c]
    BY <1>1 DEF HNext
  <1>3. ASSUME NEW w \in Workers PROVE flushed'[w] = flushed[w]
    <2>1. flushed'[w] =
            Max({flushed[w]} \cup {before[c][w] : c \in {d \in Clients : Returning(d)}})
      BY DEF HNext
    <2>2. {d \in Clients : Returning(d)} = {}
      BY <1>1
    <2>3. {flushed[w]} \cup {before[c][w] : c \in {}} = {flushed[w], flushed[w]}
      OBVIOUS
    <2>4. flushed[w] \in Nat
      BY DEF FloorOK, Cleared
    <2> QED BY <2>1, <2>2, <2>3, <2>4, MaxOfTwo
  <1> QED BY <1>2, <1>3

LEMMA HistoryBegun ==
  ASSUME Inv, HNext, FloorOK, NEW c \in Clients, NEW r \in Calls, Call(c, r)
  PROVE  /\ \A d \in Clients :
              /\ before'[d] = (IF d = c /\ r = FlushAll THEN LastTokens ELSE before[d])
              /\ floor'[d] = (IF d = c /\ r # FlushAll THEN flushed ELSE floor[d])
         /\ \A w \in Workers : flushed'[w] = flushed[w]
  <1>1. /\ Calling(c) /\ asked'[c] = r /\ ~Returning(c)
        /\ \A d \in Clients : d # c => ~Calling(d) /\ ~Returning(d)
    BY DEF Call, Calling, Returning, Inv, TypeOK, CallersOK
  <1>2. \A d \in Clients :
          /\ before'[d] = (IF d = c /\ r = FlushAll THEN LastTokens ELSE before[d])
          /\ floor'[d] = (IF d = c /\ r # FlushAll THEN flushed ELSE floor[d])
    BY <1>1 DEF HNext
  <1>3. ASSUME NEW w \in Workers PROVE flushed'[w] = flushed[w]
    <2>1. flushed'[w] =
            Max({flushed[w]} \cup {before[d][w] : d \in {e \in Clients : Returning(e)}})
      BY DEF HNext
    <2>2. {d \in Clients : Returning(d)} = {}
      BY <1>1
    <2>3. {flushed[w]} \cup {before[d][w] : d \in {}} = {flushed[w], flushed[w]}
      OBVIOUS
    <2>4. flushed[w] \in Nat
      BY DEF FloorOK, Cleared
    <2> QED BY <2>1, <2>2, <2>3, <2>4, MaxOfTwo
  <1> QED BY <1>2, <1>3

LEMMA HistoryEnded ==
  ASSUME Inv, HNext, NEW c \in Clients, PutChannel(c), LastWorker(asked[c], turn[c])
  PROVE  /\ before'[c] = Zeros /\ floor'[c] = Zeros
         /\ \A d \in Clients : d # c => before'[d] = before[d] /\ floor'[d] = floor[d]
         /\ \A w \in Workers : flushed'[w] = Max({flushed[w], before[c][w]})
  <1>1. /\ Returning(c) /\ ~Calling(c)
        /\ \A d \in Clients : d # c => ~Calling(d) /\ ~Returning(d)
    BY DEF PutChannel, Calling, Returning, Inv, TypeOK, CallersOK
  <1>2. /\ before'[c] = Zeros /\ floor'[c] = Zeros
        /\ \A d \in Clients : d # c => before'[d] = before[d] /\ floor'[d] = floor[d]
    BY <1>1 DEF HNext
  <1>3. ASSUME NEW w \in Workers PROVE flushed'[w] = Max({flushed[w], before[c][w]})
    <2>1. flushed'[w] =
            Max({flushed[w]} \cup {before[d][w] : d \in {e \in Clients : Returning(e)}})
      BY DEF HNext
    <2>2. {d \in Clients : Returning(d)} = {c}
      BY <1>1
    <2>3. {flushed[w]} \cup {before[d][w] : d \in {c}} = {flushed[w], before[c][w]}
      OBVIOUS
    <2> QED BY <2>1, <2>2, <2>3
  <1> QED BY <1>2, <1>3

-----------------------------------------------------------------------------
(* Flushes and gets *)

FlushPart ==
  /\ FloorOK /\ \A c \in Clients : CallOK(c) /\ FlushOK(c) /\ GetOK(c)

\* A caller of whom nothing changes keeps what is said of it.
LEMMA CallerKept ==
  ASSUME ShardsGrow, NEW c \in Clients, CallOK(c), FlushOK(c), GetOK(c),
         Mapped'[c] = Mapped[c], before'[c] = before[c], floor'[c] = floor[c]
  PROVE  CallOK(c)' /\ FlushOK(c)' /\ GetOK(c)'
  <1>1. CallOK(c)' /\ GetOK(c)'
    BY DEF CallOK, GetOK, Single, Succeeded
  <1>2. ASSUME NEW w \in Workers
        PROVE  IF Mapped[c].req = FlushAll
               THEN /\ before[c][w] \in Nat /\ before[c][w] <= shard'[w].last
                    /\ w < Mapped[c].at \/ Mapped[c].phase = "answered" =>
                         Cleared(w, before[c][w])'
               ELSE before[c][w] = 0
    <2>1. Grows(shard[w], shard'[w])
      BY DEF ShardsGrow
    <2>2. PICK n : n = before[c][w]
      OBVIOUS
    <2>3. Cleared(w, n) => Cleared(w, n)'
      BY <2>1, ClearedStays
    <2>4. Cleared(w, n)' => Cleared(w, before[c][w])'
      BY <2>2 DEF Cleared
    <2> QED BY <2>1, <2>2, <2>3, <2>4 DEF FlushOK, Grows
  <1>3. FlushOK(c)'
    BY <1>2 DEF FlushOK, Cleared
  <1> QED BY <1>1, <1>3

LEMMA FloorKept ==
  ASSUME ShardsGrow, FloorOK, \A w \in Workers : flushed'[w] = flushed[w],
         \A c \in Clients, w \in Workers :
           floor'[c][w] = floor[c][w] \/ floor'[c][w] \in {0, flushed[w]}
  PROVE  FloorOK'
  <1> SUFFICES ASSUME NEW w \in Workers
               PROVE  /\ Cleared(w, flushed[w])'
                      /\ \A c \in Clients : floor'[c][w] \in Nat /\ floor'[c][w] <= flushed'[w]
    BY DEF FloorOK
  <1>1. PICK n \in Nat : n = flushed[w] /\ n = flushed'[w] /\ Cleared(w, n)
    BY DEF FloorOK, Cleared
  <1>2. Cleared(w, n)'
    BY <1>1, ClearedStays DEF ShardsGrow
  <1>3. Cleared(w, flushed[w])'
    BY <1>1, <1>2 DEF Cleared
  <1> QED BY <1>1, <1>3 DEF FloorOK

LEMMA FlushBegun ==
  ASSUME ShardsOfTokens, Inv, ShardsOK, ShardsGrow, HNext, FlushPart,
         NEW c \in Clients, NEW r \in Calls, Begun(c, r)
  PROVE  FlushPart'
  <1>1. /\ \A d \in Clients :
             /\ before'[d] = (IF d = c /\ r = FlushAll THEN LastTokens ELSE before[d])
             /\ floor'[d] = (IF d = c /\ r # FlushAll THEN flushed ELSE floor[d])
        /\ \A w \in Workers : flushed'[w] = flushed[w]
    BY HistoryBegun DEF Begun, FlushPart
  <1>2. FloorOK'
    BY <1>1, FloorKept DEF FlushPart
  <1>3. /\ Mapped'[c] =
             [phase |-> "asked", req |-> r, at |-> FirstWorker(r), reply |-> NoAnswer]
        /\ \A d \in Clients : d # c => Mapped'[d] = Mapped[d]
    <2>1. \A d \in Clients : d \in DOMAIN Mapped
      BY DEF Mapped
    <2> QED BY <2>1 DEF Begun
  <1>4. ASSUME NEW d \in Clients, d # c PROVE CallOK(d)' /\ FlushOK(d)' /\ GetOK(d)'
    BY <1>1, <1>3, <1>4, CallerKept DEF FlushPart
  <1>5. CallOK(c)'
    <2>1. r # FlushAll => r \in Requests /\ FirstWorker(r) = WorkerOf(r.key)
      BY DEF Calls, FirstWorker, ShardsOfTokens, Route
    <2> QED BY <1>3, <2>1 DEF CallOK
  <1>6. FlushOK(c)'
    <2> SUFFICES ASSUME NEW w \in Workers
                 PROVE  IF r = FlushAll
                        THEN before'[c][w] \in Nat /\ before'[c][w] <= shard'[w].last
                        ELSE before'[c][w] = 0
      <3>1. \A w \in Workers : w >= 0
        BY ShardsAssumption DEF Workers
      <3> QED BY <1>3, <3>1, ShardsAssumption DEF FlushOK, FirstWorker, Workers
    <2>1. CASE r = FlushAll
      <3>1. before'[c][w] = shard[w].last
        BY <1>1, <2>1 DEF LastTokens
      <3> QED BY <2>1, <3>1 DEF ShardsGrow, Grows
    <2>2. CASE r # FlushAll
      <3>1. Mapped[c].req = NoAnswer /\ NoAnswer # FlushAll
        BY ShardedAssumption DEF Begun, FlushPart, CallOK, Calls
      <3> QED BY <1>1, <2>2, <3>1 DEF FlushPart, FlushOK
    <2> QED BY <2>1, <2>2
  <1>7. GetOK(c)'
    BY <1>3 DEF GetOK, Succeeded
  <1> QED BY <1>2, <1>4, <1>5, <1>6, <1>7 DEF FlushPart

LEMMA FlushTaken ==
  ASSUME ShardsOfTokens, Inv, ShardsOK, ShardsGrow, HNext, FlushPart,
         NEW c \in Clients, NEW r \in Calls, NEW w \in Workers, Taken(c, r, w)
  PROVE  FlushPart'
  <1>1. /\ \A d \in Clients : before'[d] = before[d] /\ floor'[d] = floor[d]
        /\ \A v \in Workers : flushed'[v] = flushed[v]
    BY HistoryBetween DEF Taken, FlushPart
  <1>2. FloorOK'
    BY <1>1, FloorKept DEF FlushPart
  <1>3. PICK o \in Handle(shard[w], r) :
          /\ shard' = [shard EXCEPT ![w] = o.state]
          /\ Mapped' = [Mapped EXCEPT ![c] =
               [phase |-> IF LastWorker(r, w) THEN "answered" ELSE "asked",
                req |-> r, at |-> IF LastWorker(r, w) THEN w ELSE w + 1,
                reply |-> o.reply]]
    BY DEF Taken
  <1>4. /\ Mapped'[c].phase = IF LastWorker(r, w) THEN "answered" ELSE "asked"
        /\ Mapped'[c].req = r
        /\ Mapped'[c].at = IF LastWorker(r, w) THEN w ELSE w + 1
        /\ Mapped'[c].reply = o.reply
        /\ \A d \in Clients : d # c => Mapped'[d] = Mapped[d]
    <2>1. \A d \in Clients : d \in DOMAIN Mapped
      BY DEF Mapped
    <2> QED BY <1>3, <2>1
  <1>5. /\ shard[w] \in TokenShards /\ shard \in [Workers -> TokenShards]
        /\ Grows(shard[w], shard[w]) /\ r \in TokenRequests \cup {FlushAll}
    BY DEF Inv, TypeOK, WorkersOK, ShardsOfTokens, ShardsOK, Calls
  <1>6. o \in HandleTokens(shard[w], r)
    BY <1>3, <1>5, HandlesTokens
  <1>7. /\ r = FlushAll => \A k \in Keys : o.state.cas[k] = 0
        /\ r # FlushAll /\ o.reply.err = "ok" /\ r.op = "Get" =>
             o.reply.cas = shard[w].cas[r.key] /\ shard[w].cas[r.key] # 0
    BY <1>5, <1>6, HandleGrows
  <1>8. ASSUME NEW d \in Clients, d # c PROVE CallOK(d)' /\ FlushOK(d)' /\ GetOK(d)'
    BY <1>1, <1>4, <1>8, CallerKept DEF FlushPart
  <1>9. CallOK(c)'
    BY <1>4 DEF CallOK, LastWorker, FlushPart, Taken
  <1>10. FlushOK(c)'
    <2> SUFFICES ASSUME NEW v \in Workers
                 PROVE  IF r = FlushAll
                        THEN /\ before'[c][v] \in Nat /\ before'[c][v] <= shard'[v].last
                             /\ v <= w => Cleared(v, before[c][v])'
                        ELSE before'[c][v] = 0
      <3>1. w \in Nat /\ \A v \in Workers : v \in Nat /\ v < WorkerCount
        BY ShardsAssumption DEF Workers
      <3> QED BY <1>4, <3>1, ShardsAssumption DEF FlushOK, LastWorker
    <2>1. CASE r = FlushAll
      <3>1. PICK n \in Nat :
              /\ n = before[c][v] /\ n = before'[c][v] /\ n <= shard[v].last
              /\ v < w => Cleared(v, n)
        BY <1>1, <2>1 DEF FlushPart, FlushOK, Taken
      <3>2. Grows(shard[v], shard'[v])
        BY DEF ShardsGrow
      <3>3. n <= shard'[v].last
        BY <3>1, <3>2 DEF Grows
      <3>4. CASE v < w
        <4>1. Cleared(v, n)'
          BY <3>1, <3>2, <3>4, ClearedStays
        <4> QED BY <2>1, <3>1, <3>3, <4>1 DEF Cleared
      <3>5. CASE v = w
        <4>1. shard'[v] = o.state
          BY <1>3, <1>5, <3>5
        <4>2. Cleared(v, before[c][v])'
          BY <1>7, <2>1, <3>1, <3>3, <4>1 DEF Cleared
        <4> QED BY <2>1, <3>1, <3>3, <4>2
      <3>6. v \in Nat /\ w \in Nat
        BY ShardsAssumption DEF Workers
      <3> QED BY <2>1, <3>1, <3>3, <3>4, <3>5, <3>6
    <2>2. CASE r # FlushAll
      BY <1>1, <2>2 DEF FlushPart, FlushOK, Taken
    <2> QED BY <2>1, <2>2
  <1>11. GetOK(c)'
    <2> SUFFICES ASSUME r \in Requests, r.op = "Get", o.reply.err = "ok"
                 PROVE  o.reply.cas > floor[c][w]
      BY <1>1, <1>4, ShardsAssumption DEF GetOK, Single, Succeeded, LastWorker
    <2>1. r # FlushAll /\ r.key \in Keys
      BY ShardsAssumption DEF ShardsOfTokens, TokenRequests
    <2>2. o.reply.cas = shard[w].cas[r.key] /\ shard[w].cas[r.key] # 0
      BY <1>7, <2>1
    <2>3. PICK m \in Nat : m = flushed[w] /\ Cleared(w, m)
      BY DEF FlushPart, FloorOK, Cleared
    <2>4. floor[c][w] \in Nat /\ floor[c][w] <= m
      BY <2>3 DEF FlushPart, FloorOK
    <2>5. shard[w].cas[r.key] > m /\ shard[w].cas[r.key] \in Nat
      BY <1>5, <2>1, <2>2, <2>3 DEF Cleared, Grows
    <2> QED BY <2>2, <2>4, <2>5
  <1> QED BY <1>2, <1>8, <1>9, <1>10, <1>11 DEF FlushPart

LEMMA FlushEnded ==
  ASSUME Inv, ShardsOK, ShardsGrow, HNext, FlushPart, NEW c \in Clients, Ended(c)
  PROVE  FlushPart'
  <1>1. /\ before'[c] = Zeros /\ floor'[c] = Zeros
        /\ \A d \in Clients : d # c => before'[d] = before[d] /\ floor'[d] = floor[d]
        /\ \A w \in Workers : flushed'[w] = Max({flushed[w], before[c][w]})
    BY HistoryEnded DEF Ended
  <1>2. /\ Mapped'[c].phase = "idle" /\ Mapped'[c].req = NoAnswer
        /\ \A d \in Clients : d # c => Mapped'[d] = Mapped[d]
    <2>1. \A d \in Clients : d \in DOMAIN Mapped
      BY DEF Mapped
    <2> QED BY <2>1 DEF Ended
  <1>3. FloorOK'
    <2> SUFFICES ASSUME NEW w \in Workers
                 PROVE  /\ Cleared(w, flushed[w])'
                        /\ \A d \in Clients :
                             floor'[d][w] \in Nat /\ floor'[d][w] <= flushed'[w]
      BY DEF FloorOK
    <2>1. PICK m \in Nat : m = flushed[w] /\ Cleared(w, m)
      BY DEF FlushPart, FloorOK, Cleared
    <2>2. PICK n \in Nat : n = before[c][w] /\ Cleared(w, n)
      BY DEF FlushPart, FlushOK, Ended, Cleared, ShardsOK, Grows
    <2>3. PICK f \in {m, n} : f = flushed'[w] /\ f >= m
      BY <1>1, <2>1, <2>2, MaxOfTwo
    <2>4. Cleared(w, f)'
      BY <2>1, <2>2, <2>3, ClearedStays DEF ShardsGrow
    <2>5. Cleared(w, flushed[w])'
      BY <2>3, <2>4 DEF Cleared
    <2>6. ASSUME NEW d \in Clients
          PROVE  floor'[d][w] \in Nat /\ floor'[d][w] <= m
      BY <1>1, <2>1 DEF Zeros, FlushPart, FloorOK
    <2> QED BY <2>3, <2>5, <2>6
  <1>4. ASSUME NEW d \in Clients, d # c PROVE CallOK(d)' /\ FlushOK(d)' /\ GetOK(d)'
    BY <1>1, <1>2, <1>4, CallerKept DEF FlushPart
  <1>5. CallOK(c)' /\ GetOK(c)'
    BY <1>2 DEF CallOK, GetOK, Succeeded
  <1>6. FlushOK(c)'
    <2>1. NoAnswer # FlushAll
      BY ShardedAssumption
    <2> QED BY <1>1, <1>2, <2>1 DEF FlushOK, Zeros
  <1> QED BY <1>3, <1>4, <1>5, <1>6 DEF FlushPart

LEMMA FlushUnmoved ==
  ASSUME ShardsGrow, HNext, FlushPart, Between, Mapped' = Mapped
  PROVE  FlushPart'
  <1>1. /\ \A c \in Clients : before'[c] = before[c] /\ floor'[c] = floor[c]
        /\ \A w \in Workers : flushed'[w] = flushed[w]
    BY HistoryBetween DEF FlushPart
  <1>2. FloorOK'
    BY <1>1, FloorKept DEF FlushPart
  <1>3. ASSUME NEW c \in Clients PROVE CallOK(c)' /\ FlushOK(c)' /\ GetOK(c)'
    BY <1>1, CallerKept DEF FlushPart
  <1> QED BY <1>2, <1>3 DEF FlushPart

LEMMA FlushNext ==
  ASSUME ShardsOfTokens, Inv, Inv', HNext, ShardsOK, FlushPart
  PROVE  FlushPart'
  <1>1. ShardsGrow /\ [Next]_vars
    BY AllGrow DEF HNext
  <1>2. ASSUME NEW w \in Workers, Kept(w) PROVE FlushPart'
    BY <1>1, <1>2, FlushUnmoved DEF Kept
  <1>3. ASSUME Steady PROVE FlushPart'
    BY <1>1, <1>3, FlushUnmoved DEF Steady
  <1> QED BY <1>1, <1>2, <1>3, StepMapped, FlushBegun, FlushTaken, FlushEnded

-----------------------------------------------------------------------------
(* The calls that present a token *)

CasPart == \A k \in Keys, t \in Tokens : CasOK(k, t)

\* A step in which no caller is told of a success leaves the tally alone.
LEMMA TallyKept ==
  ASSUME HNext, \A c \in Clients : Won(c) = {}
  PROVE  \A k \in Keys, t \in Tokens : wins'[<<k, t>>] = wins[<<k, t>>]
  BY DEF HNext

\* It only does so when the response is received.
LEMMA WonByReceive ==
  ASSUME Inv, [Next]_vars, NEW c \in Clients, ~Receive(c)
  PROVE  Won(c) = {}
  BY ToldByReceive DEF Won

\* A caller of whom nothing changes but where it is has nothing new to be told.
LEMMA UntoldBefore ==
  ASSUME Inv, Inv', [Next]_vars, NEW c \in Clients, Mapped'[c] = Mapped[c],
         NEW k, NEW t, Untold(c, k, t)'
  PROVE  Untold(c, k, t)
  <1>1. Succeeded(c) /\ Single(c, "Cas") /\ Mapped[c].req.key = k /\ Mapped[c].req.cas = t
    BY DEF Untold, Succeeded, Single
  <1>2. pc[c] \in {"wait", "put"}
    BY <1>1, SeenType DEF Succeeded
  <1>3. pc[c] # "put"
    BY ToldByReceive DEF Untold
  <1> QED BY <1>1, <1>2, <1>3 DEF Untold

\* Nobody is told of anything and no success is added: nothing changes.
LEMMA CasUntold ==
  ASSUME ShardsOfTokens, ShardsGrow, CasPart,
         \A k \in Keys, t \in Tokens : wins'[<<k, t>>] = wins[<<k, t>>],
         \A c \in Clients, k \in Keys, t \in Tokens : Untold(c, k, t)' => Untold(c, k, t)
  PROVE  CasPart'
  <1> SUFFICES ASSUME NEW k \in Keys, NEW t \in Tokens PROVE CasOK(k, t)'
    BY DEF CasPart
  <1>1. Spent(k, t) => Spent(k, t)'
    BY SpentStays
  <1>2. CasOK(k, t)
    BY DEF CasPart
  <1> QED BY <1>1, <1>2 DEF CasOK

\* A caller receives that its cas has succeeded.
LEMMA CasReceived ==
  ASSUME ShardsOfTokens, Inv, Inv', HNext, ShardsGrow, CasPart,
         NEW c \in Clients, Receive(c)
  PROVE  CasPart'
  <1>1. Mapped' = Mapped /\ [Next]_vars
    BY ReceiveSees DEF HNext
  <1>2. /\ pc[c] = "wait" /\ pc'[c] = "put" /\ buffer[held[c]] # <<>>
        /\ answer'[c] = Head(buffer[held[c]])
        /\ \A d \in Clients : d # c => pc'[d] = pc[d]
    BY DEF Receive, Inv, TypeOK, CallersOK
  <1>3. \A d \in Clients : d # c => Won(d) = {}
    BY <1>2 DEF Won
  <1>4. \A d \in Clients, k \in Keys, t \in Tokens :
          Untold(d, k, t)' => Untold(d, k, t) /\ d # c
    BY <1>1, <1>2, UntoldBefore DEF Untold
  <1>5. CASE Won(c) = {}
    <2>1. \A d \in Clients : Won(d) = {}
      BY <1>3, <1>5
    <2> QED BY <1>4, <2>1, CasUntold, TallyKept
  <1>6. CASE Won(c) # {}
    <2>1. PICK k \in Keys, t \in Tokens : Won(c) = {<<k, t>>} /\ Untold(c, k, t)
      <3>1. /\ asked[c] # FlushAll /\ asked[c].op = "Cas" /\ answer'[c].err = "ok"
            /\ Won(c) = {<<asked[c].key, asked[c].cas>>}
        BY <1>6 DEF Won
      <3>2. asked[c] \in Requests
        BY <1>2, <3>1 DEF Inv, TypeOK, CallersOK, Calls
      <3>3. asked[c].key \in Keys /\ asked[c].cas \in Tokens
        BY <3>1, <3>2 DEF ShardsOfTokens, TokenRequests
      <3>4. Mapped[c] = Done(c, answer'[c])
        BY <1>2 DEF Mapped, CallSeen
      <3>5. /\ Mapped[c].phase = "answered" /\ Mapped[c].req = asked[c]
            /\ Mapped[c].reply = answer'[c]
        BY <3>1, <3>4 DEF Done, LastWorker
      <3>6. Untold(c, asked[c].key, asked[c].cas)
        BY <1>2, <3>1, <3>2, <3>5 DEF Untold, Succeeded, Single
      <3> QED BY <3>1, <3>3, <3>6
    <2>2. wins[<<k, t>>] = 0 /\ Spent(k, t) /\ \A d \in Clients : Untold(d, k, t) => d = c
      BY <2>1 DEF CasPart, CasOK
    <2>3. \A j \in Keys, u \in Tokens :
            wins'[<<j, u>>] = IF j = k /\ u = t THEN 1 ELSE wins[<<j, u>>]
      <3> TAKE j \in Keys, u \in Tokens
      <3>1. wins'[<<j, u>>] = IF wins[<<j, u>>] < 2 /\ \E d \in Clients : <<j, u>> \in Won(d)
                              THEN wins[<<j, u>>] + 1 ELSE wins[<<j, u>>]
        BY DEF HNext
      <3>2. (\E d \in Clients : <<j, u>> \in Won(d)) <=> j = k /\ u = t
        BY <1>3, <2>1
      <3> QED BY <2>2, <3>1, <3>2
    <2>4. ASSUME NEW j \in Keys, NEW u \in Tokens PROVE CasOK(j, u)'
      <3>1. CasOK(j, u) /\ (Spent(j, u) => Spent(j, u)')
        BY SpentStays DEF CasPart
      <3>2. CASE j = k /\ u = t
        <4>1. wins'[<<j, u>>] = 1 /\ Spent(j, u)'
          BY <2>2, <2>3, <3>1, <3>2
        <4>2. \A d \in Clients : ~Untold(d, j, u)'
          BY <1>4, <2>2, <3>2
        <4> QED BY <4>1, <4>2 DEF CasOK
      <3>3. CASE ~(j = k /\ u = t)
        <4>1. wins'[<<j, u>>] = wins[<<j, u>>]
          BY <2>3, <3>3
        <4> QED BY <1>4, <3>1, <4>1 DEF CasOK
      <3> QED BY <3>2, <3>3
    <2> QED BY <2>4 DEF CasPart
  <1> QED BY <1>5, <1>6

\* A worker compares the token: from then on it is spent.
LEMMA CasTaken ==
  ASSUME ShardsOfTokens, Inv, Inv', HNext, ShardsOK, ShardsGrow, CasPart,
         NEW c \in Clients, CallOK(c), \A d \in Clients : Won(d) = {},
         NEW r \in Calls, NEW w \in Workers, Taken(c, r, w)
  PROVE  CasPart'
  <1>1. PICK o \in Handle(shard[w], r) :
          /\ shard' = [shard EXCEPT ![w] = o.state]
          /\ Mapped' = [Mapped EXCEPT ![c] =
               [phase |-> IF LastWorker(r, w) THEN "answered" ELSE "asked",
                req |-> r, at |-> IF LastWorker(r, w) THEN w ELSE w + 1,
                reply |-> o.reply]]
    BY DEF Taken
  <1>2. /\ Mapped'[c].req = r /\ Mapped'[c].reply = o.reply
        /\ \A d \in Clients : d # c => Mapped'[d] = Mapped[d]
    <2>1. \A d \in Clients : d \in DOMAIN Mapped
      BY DEF Mapped
    <2> QED BY <1>1, <2>1
  <1>3. /\ shard[w] \in TokenShards /\ shard \in [Workers -> TokenShards]
        /\ Grows(shard[w], shard[w]) /\ r \in TokenRequests \cup {FlushAll}
    BY DEF Inv, TypeOK, WorkersOK, ShardsOfTokens, ShardsOK, Calls
  <1>4. o \in HandleTokens(shard[w], r) /\ shard'[w] = o.state
    BY <1>1, <1>3, HandlesTokens
  <1>5. r # FlushAll /\ o.reply.err = "ok" /\ r.op = "Cas" =>
          shard[w].cas[r.key] = r.cas /\ shard'[w].cas[r.key] # r.cas
    BY <1>3, <1>4, HandleGrows
  <1>6. [Next]_vars /\ \A k \in Keys, t \in Tokens : wins'[<<k, t>>] = wins[<<k, t>>]
    BY TallyKept DEF HNext
  <1>7. ASSUME NEW d \in Clients, d # c, NEW k \in Keys, NEW t \in Tokens, Untold(d, k, t)'
        PROVE  Untold(d, k, t)
    BY <1>2, <1>6, <1>7, UntoldBefore
  <1>8. ASSUME NEW k \in Keys, NEW t \in Tokens, Untold(c, k, t)'
        PROVE  Spent(k, t)' /\ ~Spent(k, t)
    <2>1. /\ r \in Requests /\ r.op = "Cas" /\ r.key = k /\ r.cas = t
          /\ o.reply.err = "ok"
      BY <1>2, <1>8 DEF Untold, Single, Succeeded
    <2>2. r # FlushAll /\ w = WorkerOf(k)
      BY <2>1, ShardsAssumption DEF CallOK, Taken
    <2>3. shard[w].cas[k] = t /\ shard'[w].cas[k] # t
      BY <1>5, <2>1, <2>2
    <2>4. Grows(shard[w], shard'[w])
      BY DEF ShardsGrow
    <2>5. t <= shard'[w].last
      BY <2>3, <2>4 DEF Grows, Tokens
    <2> QED BY <2>2, <2>3, <2>5 DEF Spent
  <1>9. ASSUME NEW k \in Keys, NEW t \in Tokens PROVE CasOK(k, t)'
    <2>1. CasOK(k, t) /\ (Spent(k, t) => Spent(k, t)')
      BY SpentStays DEF CasPart
    <2>2. CASE Untold(c, k, t)'
      <3>1. Spent(k, t)' /\ ~Spent(k, t)
        BY <1>8, <2>2
      <3>2. wins[<<k, t>>] = 0 /\ \A d \in Clients : ~Untold(d, k, t)
        BY <2>1, <3>1 DEF CasOK
      <3>3. wins'[<<k, t>>] = 0
        BY <1>6, <3>2
      <3>4. \A d \in Clients : Untold(d, k, t)' => d = c
        BY <1>7, <3>2
      <3> QED BY <3>1, <3>3, <3>4 DEF CasOK
    <2>3. CASE ~Untold(c, k, t)'
      <3>1. \A d \in Clients : Untold(d, k, t)' => Untold(d, k, t)
        BY <1>7, <2>3
      <3> QED BY <1>6, <2>1, <3>1 DEF CasOK
    <2> QED BY <2>2, <2>3
  <1> QED BY <1>9 DEF CasPart

LEMMA CasNext ==
  ASSUME ShardsOfTokens, Inv, Inv', HNext, ShardsOK, \A c \in Clients : CallOK(c), CasPart
  PROVE  CasPart'
  <1>1. ShardsGrow /\ [Next]_vars
    BY AllGrow DEF HNext
  <1>2. CASE \E c \in Clients : Receive(c)
    BY <1>1, <1>2, CasReceived
  <1>3. CASE ~\E c \in Clients : Receive(c)
    <2>1. \A c \in Clients : Won(c) = {}
      BY <1>1, <1>3, WonByReceive
    <2>2. \A k \in Keys, t \in Tokens : wins'[<<k, t>>] = wins[<<k, t>>]
      BY <2>1, TallyKept
    <2>3. ASSUME NEW c \in Clients, NEW r \in Calls, NEW w \in Workers, Taken(c, r, w)
          PROVE  CasPart'
      BY <1>1, <2>1, <2>3, CasTaken
    <2>4. ASSUME NEW c \in Clients, \A d \in Clients : d # c => Mapped'[d] = Mapped[d],
                 Mapped'[c].phase # "answered"
          PROVE  CasPart'
      <3>1. ASSUME NEW d \in Clients, NEW k \in Keys, NEW t \in Tokens, Untold(d, k, t)'
            PROVE  Untold(d, k, t)
        <4>1. d # c
          BY <2>4, <3>1 DEF Untold, Succeeded
        <4> QED BY <1>1, <2>4, <3>1, <4>1, UntoldBefore
      <3> QED BY <1>1, <2>2, <3>1, CasUntold
    <2>5. ASSUME NEW c \in Clients, NEW r \in Calls, Begun(c, r) \/ Ended(c) PROVE CasPart'
      <3>1. \A d \in Clients : d \in DOMAIN Mapped
        BY DEF Mapped
      <3>2. /\ \A d \in Clients : d # c => Mapped'[d] = Mapped[d]
            /\ Mapped'[c].phase # "answered"
        BY <2>5, <3>1 DEF Begun, Ended
      <3> QED BY <2>4, <3>2
    <2>6. ASSUME Mapped' = Mapped PROVE CasPart'
      BY <1>1, <2>2, <2>6, CasUntold, UntoldBefore
    <2>7. ASSUME NEW c \in Clients, Ended(c) PROVE CasPart'
      <3>1. FlushAll \in Calls
        BY DEF Calls
      <3> QED BY <2>5, <2>7, <3>1
    <2> QED BY <1>1, <2>3, <2>5, <2>6, <2>7, StepMapped DEF Kept, Steady
  <1> QED BY <1>2, <1>3

-----------------------------------------------------------------------------
(* The promises that span the calls of several callers *)

LEMMA PromisedInit ==
  ASSUME ShardsOfTokens, HInit
  PROVE  Promised
  <1>1. \A w \in Workers : shard[w] = NoTokens
    BY DEF HInit, Init, ShardsOfTokens
  <1>2. /\ NoTokens.last = 0 /\ \A k \in Keys : NoTokens.cas[k] = 0
    BY DEF NoTokens
  <1>3. /\ ShardsOK /\ \A w \in Workers : Cleared(w, 0)
    BY <1>1, <1>2 DEF ShardsOK, Grows, Cleared
  <1>4. FloorOK
    BY <1>3 DEF HInit, FloorOK, Zeros, Cleared
  <1>5. ASSUME NEW c \in Clients
        PROVE  /\ Mapped[c].phase = "idle" /\ Mapped[c].req = NoAnswer /\ pc[c] = "idle"
               /\ \A w \in Workers : before[c][w] = 0
    BY DEF HInit, Init, Mapped, CallSeen, Pending, Zeros
  <1>6. NoAnswer # FlushAll
    BY ShardedAssumption
  <1>7. \A c \in Clients : CallOK(c) /\ FlushOK(c) /\ GetOK(c)
    BY <1>5, <1>6 DEF CallOK, FlushOK, GetOK, Succeeded
  <1>8. \A k \in Keys, t \in Tokens : CasOK(k, t)
    BY <1>5 DEF CasOK, Untold, HInit
  <1> QED BY <1>3, <1>4, <1>7, <1>8 DEF Promised

LEMMA PromisedNext ==
  ASSUME ShardsOfTokens, Inv, Inv', Promised, [HNext]_hvars
  PROVE  Promised'
  <1>1. CASE HNext
    BY <1>1, AllGrow, FlushNext, CasNext DEF HNext, Promised, FlushPart, CasPart
  <1>2. CASE UNCHANGED hvars
    <2>1. /\ UNCHANGED vars /\ wins' = wins /\ before' = before
          /\ flushed' = flushed /\ floor' = floor
      BY <1>2 DEF hvars
    <2>2. Mapped' = Mapped
      BY <2>1 DEF vars, callers, workers, Mapped, CallSeen, Pending, Done, Sent
    <2>3. ShardsGrow /\ ShardsOK'
      BY <2>1, AllGrow DEF Promised
    <2>4. FlushPart'
      BY <2>1, <2>2, <2>3, FloorKept, CallerKept DEF Promised, FlushPart
    <2>5. CasPart'
      BY <2>1, <2>2, <2>3, CasUntold, UntoldBefore DEF Promised, CasPart
    <2> QED BY <2>3, <2>4, <2>5 DEF Promised, FlushPart, CasPart
  <1> QED BY <1>1, <1>2

LEMMA PromisesKept == ShardsOfTokens /\ HSpec => []Promised
  <1>1. HInit => Init
    BY DEF HInit
  <1>2. [HNext]_hvars => [Next]_vars
    BY DEF HNext, hvars
  <1>3. HSpec => []Inv
    BY <1>1, <1>2, InitInv, NextInv, PTL DEF HSpec
  <1>4. ShardsOfTokens => ShardsOfTokens'
    BY DEF ShardsOfTokens
  <1>5. ShardsOfTokens /\ HInit => Promised
    BY PromisedInit
  <1>6. ShardsOfTokens /\ Inv /\ Inv' /\ Promised /\ [HNext]_hvars => Promised'
    BY PromisedNext
  <1> QED BY <1>3, <1>4, <1>5, <1>6, PTL DEF HSpec

\* No lost update: of all the calls that present one token of a key, whoever makes
\* them and on whatever shards, at most one is ever told that it has succeeded,
\* although entries may be flushed, lost and stored again in between.
THEOREM CasAlwaysWonOnce == ShardsOfTokens /\ HSpec => []CasWonOnce
  <1>1. Promised => CasWonOnce
    <2> SUFFICES ASSUME Promised, NEW kt \in Keys \X Tokens PROVE wins[kt] <= 1
      BY DEF CasWonOnce
    <2>1. PICK k \in Keys, t \in Tokens : kt = <<k, t>>
      OBVIOUS
    <2> QED BY <2>1 DEF Promised, CasOK
  <1> QED BY <1>1, PromisesKept, PTL

\* A flush hides what was stored before it: a get that starts after a flush has
\* returned never answers what a worker stored before the flush was called, although
\* the flush visits one worker at a time among the calls of others.
THEOREM FlushAlwaysHides == ShardsOfTokens /\ HSpec => []FlushHides
  <1>1. ASSUME ShardsOfTokens, Inv, Promised PROVE FlushHides
    <2> SUFFICES ASSUME NEW c \in Clients, pc[c] = "put", asked[c] # FlushAll,
                        asked[c].op = "Get", answer[c].err = "ok"
                 PROVE  answer[c].cas > floor[c][turn[c]]
      BY DEF FlushHides
    <2>1. asked[c] \in Requests
      BY <1>1 DEF Inv, TypeOK, CallersOK, Calls
    <2>2. Mapped[c] = Done(c, answer[c])
      BY DEF Mapped, CallSeen
    <2>3. /\ Mapped[c].phase = "answered" /\ Mapped[c].req = asked[c]
          /\ Mapped[c].at = turn[c] /\ Mapped[c].reply = answer[c]
      BY <2>2 DEF Done, LastWorker
    <2> QED BY <1>1, <2>1, <2>3 DEF Promised, GetOK, Single, Succeeded
  <1>2. HInit => Init
    BY DEF HInit
  <1>3. [HNext]_hvars => [Next]_vars
    BY DEF HNext, hvars
  <1>4. HSpec => []Inv
    BY <1>2, <1>3, InitInv, NextInv, PTL DEF HSpec
  <1>5. ShardsOfTokens => ShardsOfTokens'
    BY DEF ShardsOfTokens
  <1>6. ShardsOfTokens /\ Inv /\ Promised => FlushHides
    BY <1>1
  <1> QED BY <1>4, <1>5, <1>6, PromisesKept, PTL
=============================================================================
