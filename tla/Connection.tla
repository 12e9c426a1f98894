----------------------------- MODULE Connection -----------------------------
(***************************************************************************)
(* What the text and the binary protocol of pkg/server have in common: the *)
(* client at the other end of each connection, the buffered reader and     *)
(* writer (bufio), the goroutine that goes through one command after the   *)
(* other, and the cache it calls.                                          *)
(*                                                                         *)
(* A call of the cache for one key is one step: AtomicCache says that it   *)
(* takes effect at one instant.  Byte slices are shared by reference where *)
(* the code shares them: a get hands out the very slice that is stored,    *)
(* and the body of a binary message lies in a pooled buffer.               *)
(***************************************************************************)
EXTENDS Bytes, Sequences

CONSTANTS
  Conns,           \* the connections, ...
  BinaryConns,     \* ... those among them that speak the binary protocol
  Keys,
  Sessions,        \* bound: what clients may send, per connection a sequence of
                   \* commands
  Now,             \* the time, in ticks; entries that expire may be lost any time
  TicksPerSecond,
  Month,           \* the longest relative expiry, in seconds
  Texts,           \* what data blocks may look like to who reads them as lines, ...
  LinesIn,         \* ... and the lines a text connection then finds in each
  Fragments,       \* the lines that may be left of a line or data block when the
                   \* bytes before them have been taken
  Buffers,         \* the body buffers sync.Pool has made or may make
  NoBuffer, NoCommand

\* A command: its name, its keys (those of all workers, one each, for a flush),
\* its value (for a counter, the amount) and what the data block looks like, its
\* token, its expiry in seconds, what is wrong with its line if not "ok", and
\* whether it asks for no reply.
Commands ==
  {cmd \in [op : STRING, keys : Seq(Keys), value : Value, block : Texts, cas : Nat,
            exptime : Int, form : STRING, noreply : BOOLEAN] :
     /\ cmd.keys # <<>>
     /\ cmd.op \in {"INCR", "DECR", "opIncrement", "opDecrement"} =>
          cmd.value.num # NotNumeric}

\* Commands followed by a data block.
TextData == {"SET", "ADD", "REPLACE", "APPEND", "PREPEND", "CAS"}
BinaryData == {"opSet", "opAdd", "opReplace", "opAppend", "opPrepend"}
HasData(cmd) == cmd.op \in TextData \cup BinaryData

\* What the protocol of connection c can express: an expiry of the binary protocol
\* is unsigned, and noreply is looked for in some lines of the text protocol.
CommandsOf(c) ==
  {cmd \in Commands :
     /\ c \in BinaryConns => cmd.op \notin TextData /\ cmd.exptime >= 0
     /\ c \notin BinaryConns => cmd.op \notin BinaryData
     /\ cmd.noreply =>
          /\ c \notin BinaryConns
          /\ cmd.op \in TextData \cup {"INCR", "DECR", "DELETE", "TOUCH", "FLUSH_ALL"}}

ASSUME ConnectionAssumption ==
  /\ BinaryConns \subseteq Conns
  /\ Now \in Nat /\ TicksPerSecond \in Nat \ {0} /\ Month \in Nat
  /\ NoBuffer \notin Buffers /\ (Buffers \cup {NoBuffer}) \cap Nat = {}
  /\ Cardinality(Buffers) >= Cardinality(BinaryConns)
  /\ NoCommand \notin Commands
  /\ \A text \in Texts : LinesIn[text] # <<>>
  /\ \A c \in Conns \ BinaryConns :
       /\ \A text \in Texts : LinesIn[text] \in Seq(CommandsOf(c))
       /\ Fragments \subseteq Seq(CommandsOf(c))
  /\ \A session \in Sessions :
       /\ session \in [Conns -> Seq(Commands)]
       /\ \A c \in Conns : session[c] \in Seq(CommandsOf(c))

VARIABLES
  store,     \* the entries: per key in use, its slice, its token, and its TTL
             \* with the expiry and the protocol it was computed from
  casCounter, \* the last token issued
  issued,    \* history: the key and the value each token was issued for
  mem,       \* the contents of the slices: an entry's slice bears the token the
             \* entry was stored under, the others are the buffers
  pool,      \* the buffers in the pool
  client,    \* the other end of each connection: the commands it has still to
             \* send, the one whose data it has still to send, and its state
  wire,      \* bytes sent and not read from the socket
  buf,       \* bytes in the bufio.Reader
  out,       \* whether there are responses in the bufio.Writer
  proc,      \* the goroutine: where it is, and its locals
  told,      \* history: the tokens written to clients, with their key and value
  astray     \* history: the connections on which a line read out of a data block
             \* was a storage command

vars == <<store, casCounter, issued, mem, pool, client, wire, buf, out, proc, told,
          astray>>

\* The goroutine: its current or last command, the keys not yet processed, the
\* buffer of the message, slice and token of a get or a touch, and how often the
\* last command was answered (lines with a value, and items of statistics, are
\* not the answer yet).
Idle == [at |-> "read", cmd |-> NoCommand, todo |-> <<>>, buffer |-> NoBuffer,
         slice |-> NoBuffer, cas |-> 0, answers |-> 0]

\* What is sent: the line or the message of a command, or the data block of one;
\* and the lines read out of a data block, or left of something.
Item(part, cmd) == [part |-> part, of |-> cmd]
Strays(lines) == [i \in DOMAIN lines |-> Item("stray", lines[i])]

cacheVars == <<store, casCounter, issued, mem>>

-----------------------------------------------------------------------------
(* Clients *)

\* A handler is called with the first byte: a client that has sent nothing is
\* left to Server.
Send(c) ==
  /\ client[c].state # "left" /\ client[c].owes = NoCommand /\ client[c].plan # <<>>
  /\ LET cmd == Head(client[c].plan)
     IN /\ wire' = [wire EXCEPT ![c] = Append(@, Item("line", cmd))]
        /\ client' = [client EXCEPT ![c] =
             [plan |-> Tail(@.plan), state |-> "open",
              owes |-> IF HasData(cmd) THEN cmd ELSE NoCommand]]
  /\ UNCHANGED <<cacheVars, pool, buf, out, proc, told, astray>>

SendData(c) ==
  /\ client[c].state = "open" /\ client[c].owes # NoCommand
  /\ wire' = [wire EXCEPT ![c] = Append(@, Item("data", client[c].owes))]
  /\ client' = [client EXCEPT ![c].owes = NoCommand]
  /\ UNCHANGED <<cacheVars, pool, buf, out, proc, told, astray>>

\* The client closes its end, maybe in the middle of a command.
Leave(c) ==
  /\ client[c].state = "open"
  /\ client' = [client EXCEPT ![c].state = "left"]
  /\ UNCHANGED <<cacheVars, pool, wire, buf, out, proc, told, astray>>

-----------------------------------------------------------------------------
(* Reading: an empty buffer is filled with all that has arrived. *)

Input(c) == IF buf[c] # <<>> THEN buf[c] ELSE wire[c]

NoInput(c) == Input(c) = <<>>

\* What comes next is taken, but for the rest of it.
TakeLeaving(c, rest) ==
  /\ Input(c) # <<>>
  /\ buf' = [buf EXCEPT ![c] = rest \o Tail(Input(c))]
  /\ wire' = IF buf[c] # <<>> THEN wire ELSE [wire EXCEPT ![c] = <<>>]

Consume(c) == TakeLeaving(c, <<>>) /\ UNCHANGED astray

NothingRead == UNCHANGED <<client, wire, buf, astray>>

EndOfInput(c) == NoInput(c) /\ client[c].state = "left"

At(c, where) == proc[c].at = where

Cmd(c) == proc[c].cmd
Key(c) == Head(proc[c].todo)

\* The goroutine is about to call the cache for a command among ops.
Calls(c, ops) == At(c, "call") /\ Cmd(c).op \in ops

-----------------------------------------------------------------------------
(* The goroutine goes on with the command, or is done with it. *)

Continue(c, locals) ==
  /\ proc' = [proc EXCEPT ![c] = locals]
  /\ UNCHANGED <<pool, out>>

Goto(c, where) == Continue(c, [proc[c] EXCEPT !.at = where])

\* Mutant: the responses leave only after a command that has one.
FinishAnswered(c, cmd, answers) ==
  /\ pool' = pool \cup ({proc[c].buffer} \ {NoBuffer})
  /\ out' = [out EXCEPT ![c] = (@ \/ answers > 0) /\ (buf'[c] # <<>> \/ answers = 0)]
  /\ proc' = [proc EXCEPT ![c] = [Idle EXCEPT !.cmd = cmd, !.answers = answers]]

\* The end of a handler, which has written so many answers, and of the loop's
\* body: the buffer goes back into the pool, and the responses leave if no input
\* is buffered.
Finish(c, cmd, answers) ==
  /\ pool' = pool \cup ({proc[c].buffer} \ {NoBuffer})
  /\ out' = [out EXCEPT ![c] = (@ \/ answers > 0) /\ buf'[c] # <<>>]
  /\ proc' = [proc EXCEPT ![c] = [Idle EXCEPT !.cmd = cmd, !.answers = answers]]

Answer(c) == Finish(c, Cmd(c), 1)

\* The answer, unless the client wants none.
AnswerUnless(quiet, c) == Finish(c, Cmd(c), IF quiet THEN 0 ELSE 1)

Tell(c, k, value, cas) ==
  told' = told \cup {[key |-> k, value |-> value, cas |-> cas, by |-> Cmd(c).op]}

-----------------------------------------------------------------------------
(* The cache *)

With(f, x, y) == [z \in DOMAIN f \cup {x} |-> IF z = x THEN y ELSE f[z]]

Has(k) == k \in DOMAIN store
Contents(k) == mem[store[k].slice]
NewToken == casCounter + 1

\* What the handler was given as value: for the binary protocol, a part of the
\* buffer.  The text protocol makes a slice that nobody else can see.
Body(c) == IF proc[c].buffer = NoBuffer THEN proc[c].cmd.value ELSE mem[proc[c].buffer]

\* An expiry is past when it names a moment that has been.
Past(exptime) == exptime > Month /\ exptime * TicksPerSecond <= Now

Expiry(c, ttl) ==
  [ttl |-> ttl, exptime |-> Cmd(c).exptime, binary |-> c \in BinaryConns]

Enter(k, slice, v, expiry) ==
  /\ store' = With(store, k, [slice |-> slice, cas |-> NewToken, expiry |-> expiry])
  /\ casCounter' = NewToken
  /\ issued' = With(issued, NewToken, [key |-> k, value |-> v])

\* Mutants: doSet keeps the caller's slice; a new value is written into the
\* stored slice.
PutShared(c, k, v, expiry) ==
  IF proc[c].buffer # NoBuffer /\ v = Body(c)
  THEN Enter(k, proc[c].buffer, v, expiry) /\ UNCHANGED mem
  ELSE Enter(k, NewToken, v, expiry) /\ mem' = With(mem, NewToken, v)
PutInPlace(c, k, v, expiry) ==
  LET slice == IF Has(k) THEN store[k].slice ELSE NewToken
  IN Enter(k, slice, v, expiry) /\ mem' = With(mem, slice, v)

\* doSet copies the value; doAppendPrepend and doIncrDecr make a slice.
Put(c, k, v, expiry) ==
  Enter(k, NewToken, v, expiry) /\ mem' = With(mem, NewToken, v)

\* An append or a count keeps the expiry.
Change(c, k, v) == Put(c, k, v, store[k].expiry)

\* Mutant: a touch does not count its token.
RenewUncounted(k, expiry) ==
  /\ store' = [store EXCEPT ![k].cas = NewToken, ![k].expiry = expiry]
  /\ UNCHANGED <<casCounter, issued, mem>>

\* handleTouch: a new token for what is stored.
Renew(k, expiry) == Enter(k, store[k].slice, Contents(k), expiry) /\ UNCHANGED mem

Drop(k) ==
  /\ store' = [j \in DOMAIN store \ {k} |-> store[j]]
  /\ UNCHANGED <<casCounter, issued, mem>>

\* An entry expires or is evicted.
Lose(k) ==
  /\ Has(k) /\ Drop(k)
  /\ UNCHANGED <<pool, client, wire, buf, out, proc, told, astray>>

\* Whether a store of the kind finds what it asks for.
Storable(op, k) ==
  CASE op \in {"SET", "opSet"} -> TRUE
    [] op \in {"ADD", "opAdd"} -> ~Has(k)
    [] op \in {"REPLACE", "opReplace", "APPEND", "PREPEND", "opAppend", "opPrepend"} -> Has(k)

Joined(c, k, prepend) ==
  IF prepend THEN Concat(Body(c), Contents(k)) ELSE Concat(Contents(k), Body(c))

Numeric(k) == Contents(k).num # NotNumeric

Sum(op, k, delta) ==
  Counted(IF op \in {"INCR", "opIncrement"} THEN "Incr" ELSE "Decr", Contents(k).num, delta)
=============================================================================
