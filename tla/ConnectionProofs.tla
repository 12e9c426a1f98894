-------------------------- MODULE ConnectionProofs --------------------------
(***************************************************************************)
(* Proofs about Connections: for any number of connections, keys, commands *)
(* and buffers, tokens are told with the values they were issued for, a    *)
(* body buffer has one owner, commands are answered once, the reader stays *)
(* in step with the client, responses are withheld only where that is      *)
(* known, and the expiries clients ask for are kept.                       *)
(***************************************************************************)
EXTENDS Connections, BytesProofs, SequenceTheorems

Locals == [at : {"read", "data", "bytes", "call", "touch", "get", "write", "returned"},
           cmd : Commands \cup {NoCommand}, todo : Seq(Keys),
           buffer : Buffers \cup {NoBuffer}, slice : Slices \cup {NoBuffer},
           cas : 0..casCounter, answers : Nat]
Expiries == [ttl : Int, exptime : Int, binary : BOOLEAN]
Tokens == 1..casCounter

\* The cache: tokens and slices of entries have been issued, and the token of an
\* entry is on record with the contents of its slice.
Recorded(k) ==
  issued[store[k].cas] = [key |-> k, value |-> mem[store[k].slice]]
CacheOK ==
  /\ casCounter \in Nat /\ issued \in [Tokens -> [key : Keys, value : Value]]
  /\ Buffers \subseteq Slices /\ Slices \subseteq Tokens \cup Buffers
  /\ mem \in [Slices -> Value]
  /\ DOMAIN store \subseteq Keys
  /\ \A k \in DOMAIN store :
       /\ store[k] \in [slice : Tokens \cap Slices, cas : Tokens, expiry : Expiries]
       /\ Recorded(k)

\* What may be told about a value: it is on record with its token, unless the
\* binary get-and-touch has put them together; in any case it is what the token
\* stands for as long as it is the token of the entry.
Good(k, v, cas, op) ==
  /\ cas \in Tokens
  /\ op \notin BinaryGats => issued[cas] = [key |-> k, value |-> v]
  /\ Has(k) /\ store[k].cas = cas => Contents(k) = v

ToldOK ==
  /\ told \subseteq [key : Keys, value : Value, cas : Nat, by : STRING]
  /\ \A t \in told : Good(t.key, t.value, t.cas, t.by)

\* The locals of a goroutine: it has keys left where it uses one; the value of a
\* message is still in its buffer; what it is about to write may be told.
Multi == Gets \cup Gats \cup {"FLUSH_ALL", "opFlush"}
HasKey(c) ==
  /\ proc[c].at \in {"data", "bytes", "call", "touch", "get", "write"} => Cmd(c) \in Commands
  /\ proc[c].at \in {"data", "bytes", "touch", "get", "write"} => proc[c].todo # <<>>
  /\ At(c, "call") /\ Cmd(c).op \notin Multi => proc[c].todo # <<>>
TextOK(c) ==
  /\ proc[c].buffer = NoBuffer /\ ~At(c, "get")
  /\ proc[c].at \in {"touch", "write"} => Cmd(c).op \in Gets \cup Gats
BinaryOK(c) ==
  /\ ~At(c, "touch")
  /\ proc[c].at \in {"read", "returned"} => proc[c].buffer = NoBuffer
  /\ At(c, "get") => Cmd(c).op \in BinaryGats /\ proc[c].cas \in Tokens
  /\ At(c, "data") => proc[c].buffer \in Buffers
  /\ At(c, "call") /\ HasData(Cmd(c)) =>
       proc[c].buffer \in Buffers /\ mem[proc[c].buffer] = Cmd(c).value
Holds(c) ==
  proc[c].at \in {"touch", "write"} =>
    /\ proc[c].slice \in Tokens \cap Slices
    /\ Good(Key(c), mem[proc[c].slice], proc[c].cas, Cmd(c).op)
LocalsOK(c) ==
  /\ HasKey(c) /\ Holds(c)
  /\ c \in TextConns => TextOK(c)
  /\ c \in BinaryConns => BinaryOK(c)
ProcOK == proc \in [Conns -> Locals] /\ \A c \in Conns : LocalsOK(c)

PoolOK ==
  /\ pool \subseteq Buffers
  /\ \A c \in Conns : proc[c].buffer # NoBuffer =>
       /\ proc[c].buffer \notin pool
       /\ \A d \in Conns \ {c} : proc[d].buffer # proc[c].buffer

StreamsOK ==
  /\ client \in [Conns -> [plan : Seq(Commands), owes : Commands \cup {NoCommand},
                           state : {"new", "open", "left"}]]
  /\ wire \in [Conns -> Seq(Items)] /\ buf \in [Conns -> Seq(Items)]
  /\ out \in [Conns -> BOOLEAN]

Inv == CacheOK /\ ProcOK /\ PoolOK /\ StreamsOK /\ ToldOK

-----------------------------------------------------------------------------
(* The cache only adds to what is on record. *)

Advances ==
  /\ casCounter <= casCounter' /\ Slices \subseteq Slices'
  /\ \A n \in Tokens : issued'[n] = issued[n]
  /\ \A s \in Tokens \cap Slices : mem'[s] = mem[s]
  /\ \A k \in DOMAIN store' :
       store'[k].cas \in Tokens => k \in DOMAIN store /\ store'[k] = store[k]

\* The buffers are left alone.
BuffersKept == \A b \in Buffers : mem'[b] = mem[b]

LEMMA NoToken == ASSUME NEW b \in Buffers \cup {NoBuffer} PROVE b \notin Nat
  BY ConnectionAssumption

LEMMA StutterAdvances ==
  ASSUME CacheOK, UNCHANGED cacheVars
  PROVE  CacheOK' /\ Advances /\ BuffersKept
  BY DEF CacheOK, cacheVars, Advances, BuffersKept, Recorded, Slices, Tokens

LEMMA DropAdvances ==
  ASSUME CacheOK, NEW k, Drop(k)
  PROVE  CacheOK' /\ Advances /\ BuffersKept
  BY DEF CacheOK, Drop, Advances, BuffersKept, Recorded, Slices, Tokens

\* A store copies the value into a slice of its own.
LEMMA PutAdvances ==
  ASSUME CacheOK, NEW c, NEW k \in Keys, NEW v \in Value, NEW expiry \in Expiries,
         Put(c, k, v, expiry)
  PROVE  /\ CacheOK' /\ Advances /\ BuffersKept
         /\ k \in DOMAIN store' /\ casCounter' = NewToken
         /\ store'[k].cas = NewToken /\ store'[k].slice = NewToken
         /\ mem'[NewToken] = v
         /\ issued'[NewToken] = [key |-> k, value |-> v]
  <1> USE DEF Put, Enter, With, NewToken
  <1>1. casCounter \in Nat /\ casCounter' = casCounter + 1
        /\ Tokens' = Tokens \cup {NewToken} /\ NewToken \notin Tokens
    BY DEF CacheOK, Tokens
  <1>2. /\ Slices' = Slices \cup {NewToken} /\ NewToken \notin Buffers
        /\ \A s \in Slices : s # NewToken => mem'[s] = mem[s]
        /\ mem'[NewToken] = v
    BY <1>1, NoToken DEF CacheOK, Slices
  <1>3. /\ issued'[NewToken] = [key |-> k, value |-> v]
        /\ \A n \in Tokens : issued'[n] = issued[n]
        /\ issued' \in [Tokens' -> [key : Keys, value : Value]]
    BY <1>1 DEF CacheOK
  <1>4. /\ DOMAIN store' = DOMAIN store \cup {k}
        /\ store'[k] = [slice |-> NewToken, cas |-> NewToken, expiry |-> expiry]
        /\ \A j \in DOMAIN store : j # k => store'[j] = store[j]
    OBVIOUS
  <1>5. mem' \in [Slices' -> Value]
    BY <1>2 DEF CacheOK, Slices
  <1>6. ASSUME NEW j \in DOMAIN store', j # k
        PROVE  /\ store'[j] \in [slice : Tokens \cap Slices, cas : Tokens, expiry : Expiries]
               /\ issued'[store'[j].cas] = [key |-> j, value |-> mem'[store'[j].slice]]
    <2>1. j \in DOMAIN store /\ store'[j] = store[j]
      BY <1>4, <1>6
    <2> QED BY <2>1, <1>1, <1>2, <1>3 DEF CacheOK, Recorded
  <1>7. CacheOK'
    <2>1. ASSUME NEW j \in DOMAIN store'
          PROVE  /\ store'[j] \in [slice : (Tokens \cap Slices)', cas : Tokens', expiry : Expiries]
                 /\ Recorded(j)'
      <3>1. CASE j = k
        BY <3>1, <1>1, <1>2, <1>3, <1>4 DEF Recorded
      <3>2. CASE j # k
        BY <3>2, <1>1, <1>2, <1>6 DEF Recorded
      <3> QED BY <3>1, <3>2
    <2>2. DOMAIN store' \subseteq Keys
      BY <1>4 DEF CacheOK
    <2>3. Buffers \subseteq Slices' /\ Slices' \subseteq Tokens' \cup Buffers
      BY <1>1, <1>2 DEF CacheOK
    <2>4. casCounter' \in Nat
      BY <1>1
    <2> HIDE DEF Put, Enter, With, NewToken
    <2> QED BY <2>1, <2>2, <2>3, <2>4, <1>3, <1>5 DEF CacheOK
  <1>8. Advances
    <2>1. casCounter <= casCounter' /\ Slices \subseteq Slices'
      BY <1>1, <1>2
    <2>2. \A s \in Tokens \cap Slices : mem'[s] = mem[s]
      BY <1>1, <1>2
    <2>3. ASSUME NEW j \in DOMAIN store', store'[j].cas \in Tokens
          PROVE  j \in DOMAIN store /\ store'[j] = store[j]
      BY <2>3, <1>1, <1>4
    <2> HIDE DEF Put, Enter, With, NewToken
    <2> QED BY <2>1, <2>2, <2>3, <1>3 DEF Advances
  <1>9. BuffersKept
    BY <1>2 DEF BuffersKept, CacheOK
  <1> QED BY <1>1, <1>2, <1>3, <1>4, <1>7, <1>8, <1>9

\* A touch issues a token for what is stored.
LEMMA RenewAdvances ==
  ASSUME CacheOK, NEW k \in DOMAIN store, NEW expiry \in Expiries, Renew(k, expiry)
  PROVE  /\ CacheOK' /\ Advances /\ BuffersKept
         /\ casCounter' = NewToken /\ NewToken \in Tokens'
  <1> USE DEF Renew, Enter, With, NewToken
  <1>1. casCounter \in Nat /\ casCounter' = casCounter + 1
        /\ Tokens' = Tokens \cup {NewToken} /\ NewToken \notin Tokens
    BY DEF CacheOK, Tokens
  <1>2. Slices' = Slices /\ mem' = mem
    BY DEF Slices
  <1>3. /\ store[k].slice \in Tokens \cap Slices /\ Contents(k) \in Value /\ k \in Keys
    BY DEF CacheOK, Contents
  <1>4. /\ issued'[NewToken] = [key |-> k, value |-> Contents(k)]
        /\ \A n \in Tokens : issued'[n] = issued[n]
        /\ issued' \in [Tokens' -> [key : Keys, value : Value]]
    BY <1>1, <1>3 DEF CacheOK
  <1>5. /\ DOMAIN store' = DOMAIN store
        /\ store'[k] = [slice |-> store[k].slice, cas |-> NewToken, expiry |-> expiry]
        /\ \A j \in DOMAIN store : j # k => store'[j] = store[j]
    OBVIOUS
  <1>6. ASSUME NEW j \in DOMAIN store', j # k
        PROVE  /\ store'[j] \in [slice : Tokens \cap Slices, cas : Tokens, expiry : Expiries]
               /\ issued'[store'[j].cas] = [key |-> j, value |-> mem'[store'[j].slice]]
    <2>1. j \in DOMAIN store /\ store'[j] = store[j]
      BY <1>5, <1>6
    <2> QED BY <2>1, <1>1, <1>2, <1>4 DEF CacheOK, Recorded
  <1>7. CacheOK'
    <2>1. ASSUME NEW j \in DOMAIN store'
          PROVE  /\ store'[j] \in [slice : (Tokens \cap Slices)', cas : Tokens', expiry : Expiries]
                 /\ Recorded(j)'
      <3>1. CASE j = k
        BY <3>1, <1>1, <1>2, <1>3, <1>4, <1>5 DEF Recorded, Contents
      <3>2. CASE j # k
        BY <3>2, <1>1, <1>2, <1>6 DEF Recorded
      <3> QED BY <3>1, <3>2
    <2>2. DOMAIN store' \subseteq Keys /\ mem' \in [Slices' -> Value] /\ casCounter' \in Nat
      BY <1>1, <1>2, <1>5 DEF CacheOK
    <2>3. Buffers \subseteq Slices' /\ Slices' \subseteq Tokens' \cup Buffers
      BY <1>1, <1>2 DEF CacheOK
    <2> HIDE DEF Renew, Enter, With, NewToken
    <2> QED BY <2>1, <2>2, <2>3, <1>4 DEF CacheOK
  <1>8. Advances
    BY <1>1, <1>2, <1>4, <1>5, <1>6 DEF Advances
  <1> QED BY <1>1, <1>2, <1>7, <1>8 DEF BuffersKept

\* Filling a buffer does not touch the slices of the cache.
LEMMA FillAdvances ==
  ASSUME CacheOK, NEW b \in Buffers, NEW v \in Value, mem' = [mem EXCEPT ![b] = v],
         UNCHANGED <<store, casCounter, issued>>
  PROVE  /\ CacheOK' /\ Advances
         /\ mem'[b] = v /\ \A a \in Buffers \ {b} : mem'[a] = mem[a]
  <1>1. Slices' = Slices /\ mem' \in [Slices -> Value] /\ mem'[b] = v
        /\ \A s \in Slices \ {b} : mem'[s] = mem[s]
    BY DEF CacheOK, Slices
  <1>2. b \notin Tokens
    BY NoToken DEF CacheOK, Tokens
  <1>3. Tokens' = Tokens
    BY DEF Tokens
  <1>4. \A k \in DOMAIN store : Recorded(k)'
    BY <1>1, <1>2 DEF CacheOK, Recorded
  <1>5. CacheOK'
    BY <1>1, <1>3, <1>4 DEF CacheOK
  <1>6. Advances
    BY <1>1, <1>2 DEF Advances, CacheOK
  <1>7. \A a \in Buffers \ {b} : mem'[a] = mem[a]
    BY <1>1 DEF CacheOK
  <1> QED BY <1>1, <1>5, <1>6, <1>7

\* What may be told stays so, however the cache goes on.
LEMMA GoodStays ==
  ASSUME CacheOK, Advances, casCounter' \in Nat, NEW k, NEW v, NEW cas, NEW op,
         Good(k, v, cas, op)
  PROVE  /\ Good(k, v, cas, op)'
         /\ cas \in Tokens'
         /\ op \notin BinaryGats => issued'[cas] = [key |-> k, value |-> v]
         /\ k \in DOMAIN store' /\ store'[k].cas = cas => mem'[store'[k].slice] = v
  <1>1. cas \in Tokens' /\ issued'[cas] = issued[cas]
    BY DEF Good, Advances, Tokens, CacheOK
  <1>2. ASSUME k \in DOMAIN store', store'[k].cas = cas
        PROVE  mem'[store'[k].slice] = v
    <2>1. k \in DOMAIN store /\ store'[k] = store[k]
      BY <1>2 DEF Good, Advances
    <2>2. store[k].slice \in Tokens \cap Slices /\ mem[store[k].slice] = v
      BY <2>1, <1>2 DEF Good, Has, Contents, CacheOK
    <2> QED BY <2>1, <2>2 DEF Advances
  <1> QED BY <1>1, <1>2 DEF Good, Has, Contents

-----------------------------------------------------------------------------
(* Streams and locals *)

\* Whatever is read is a line, a message or a data block of a command.
LEMMA TakeKeeps ==
  ASSUME StreamsOK, NEW c \in Conns, NEW rest \in Seq(Items), TakeLeaving(c, rest)
  PROVE  /\ Head(Input(c)) \in Items
         /\ buf' \in [Conns -> Seq(Items)] /\ wire' \in [Conns -> Seq(Items)]
  <1>1. Input(c) \in Seq(Items) /\ Input(c) # <<>>
    BY DEF StreamsOK, Input, TakeLeaving
  <1>2. Head(Input(c)) \in Items /\ Tail(Input(c)) \in Seq(Items)
    BY <1>1
  <1>3. rest \o Tail(Input(c)) \in Seq(Items)
    BY <1>2, ConcatProperties
  <1>4. <<>> \in Seq(Items)
    BY EmptySeq
  <1> QED BY <1>2, <1>3, <1>4 DEF StreamsOK, TakeLeaving

LEMMA ConsumeKeeps ==
  ASSUME StreamsOK, NEW c \in Conns, Consume(c)
  PROVE  /\ Head(Input(c)) \in Items
         /\ buf' \in [Conns -> Seq(Items)] /\ wire' \in [Conns -> Seq(Items)]
  <1>1. TakeLeaving(c, <<>>) /\ <<>> \in Seq(Items)
    BY EmptySeq DEF Consume
  <1> QED BY <1>1, TakeKeeps

\* What is put back are lines.
LEMMA StraysType ==
  ASSUME NEW S, NEW T, NEW lines \in Seq(S), \A x \in S : Item("stray", x) \in T
  PROVE  /\ Strays(lines) \in Seq(T) /\ (lines = <<>> => Strays(lines) = <<>>)
         /\ \A i \in 1..Len(Strays(lines)) : Strays(lines)[i].part = "stray"
  <1>1. PICK n \in Nat : n = Len(lines) /\ DOMAIN lines = 1..n /\ lines \in [1..n -> S]
    BY LenProperties
  <1>2. Strays(lines) \in [1..n -> T]
    BY <1>1 DEF Strays
  <1>3. Strays(lines) \in Seq(T)
    BY <1>2, SeqDef
  <1>4. Len(Strays(lines)) = n
    BY <1>2, <1>3, LenProperties
  <1>5. \A i \in 1..n : Strays(lines)[i].part = "stray"
    BY <1>1 DEF Strays, Item
  <1>6. lines = <<>> => Strays(lines) = <<>>
    BY <1>1, <1>3, <1>4, EmptySeq
  <1> QED BY <1>3, <1>4, <1>5, <1>6

\* What a text connection reads as lines are commands of its protocol.
LEMMA LinesType ==
  ASSUME NEW c \in Conns \ BinaryConns, NEW S, CommandsOf(c) \subseteq S,
         NEW item, item.of \in S, item.of \in Commands
  PROVE  /\ Head(Lines(item)) \in S /\ Tail(Lines(item)) \in Seq(S)
         /\ item.part # "data" => Head(Lines(item)) = item.of /\ Tail(Lines(item)) = <<>>
  <1>1. Lines(item) \in Seq(S) /\ Lines(item) # <<>>
    <2>1. CASE item.part = "data"
      <3>1. item.of.block \in Texts
        BY DEF Commands
      <3>2. /\ LinesIn[item.of.block] \in Seq(CommandsOf(c))
            /\ LinesIn[item.of.block] # <<>>
        BY <3>1, ConnectionAssumption
      <3> QED BY <2>1, <3>2, SeqMonotonic DEF Lines
    <2>2. CASE item.part # "data"
      BY <2>2 DEF Lines
    <2> QED BY <2>1, <2>2
  <1>2. Head(Lines(item)) \in S /\ Tail(Lines(item)) \in Seq(S)
    BY <1>1, HeadTailProperties
  <1>3. item.part # "data" => Head(Lines(item)) = item.of /\ Tail(Lines(item)) = <<>>
    BY DEF Lines
  <1> QED BY <1>2, <1>3

\* A goroutine that does nothing keeps what it holds, however the cache goes on.
LEMMA AsideKeeps ==
  ASSUME Inv, CacheOK', Advances, NEW d \in Conns, proc'[d] = proc[d],
         proc[d].buffer \in Buffers => mem'[proc[d].buffer] = mem[proc[d].buffer]
  PROVE  proc[d] \in Locals' /\ LocalsOK(d)'
  <1>1. casCounter' \in Nat /\ casCounter \in Nat /\ casCounter <= casCounter'
        /\ Tokens \subseteq Tokens' /\ Slices \subseteq Slices'
    BY DEF Inv, CacheOK, Advances, Tokens
  <1>2. proc'[d] = proc[d] /\ proc[d] \in Locals /\ LocalsOK(d)
    BY DEF Inv, ProcOK
  <1>3. proc[d] \in Locals'
    BY <1>2, <1>1 DEF Locals
  <1>4. HasKey(d)'
    BY <1>2 DEF LocalsOK, HasKey, At, Cmd
  <1>5. d \in TextConns => TextOK(d)'
    BY <1>2 DEF LocalsOK, TextOK, At, Cmd
  <1>6. d \in BinaryConns => BinaryOK(d)'
    <2> SUFFICES ASSUME d \in BinaryConns PROVE BinaryOK(d)'
      OBVIOUS
    <2>1. ASSUME At(d, "call"), HasData(Cmd(d))
          PROVE  mem'[proc[d].buffer] = mem[proc[d].buffer]
      <3>1. proc[d].buffer \in Buffers
        BY <1>2, <2>1 DEF LocalsOK, BinaryOK
      <3> QED BY <3>1
    <2> QED BY <1>2, <2>1, <1>1 DEF LocalsOK, BinaryOK, At, Cmd, HasData
  <1>7. Holds(d)'
    <2> SUFFICES ASSUME proc[d].at \in {"touch", "write"}
                 PROVE  /\ proc[d].slice \in Tokens' \cap Slices'
                        /\ Good(Key(d), mem[proc[d].slice], proc[d].cas, Cmd(d).op)'
      BY <1>2 DEF Holds
    <2>1. /\ proc[d].slice \in Tokens \cap Slices
          /\ Good(Key(d), mem[proc[d].slice], proc[d].cas, Cmd(d).op)
      BY <1>2 DEF LocalsOK, Holds
    <2>2. mem'[proc[d].slice] = mem[proc[d].slice]
      BY <2>1 DEF Advances
    <2>3. Key(d)' = Key(d) /\ Cmd(d)' = Cmd(d)
      BY <1>2 DEF Key, Cmd
    <2> DEFINE k == Key(d) v == mem[proc[d].slice] n == proc[d].cas op == Cmd(d).op
    <2>4. Good(k, v, n, op)
      BY <2>1
    <2> HIDE DEF k, v, n, op
    <2>5. /\ n \in Tokens'
          /\ op \notin BinaryGats => issued'[n] = [key |-> k, value |-> v]
          /\ k \in DOMAIN store' /\ store'[k].cas = n => mem'[store'[k].slice] = v
      BY <2>4, <1>1, GoodStays DEF Inv
    <2> QED BY <1>2, <2>1, <2>2, <2>3, <2>5, <1>1 DEF k, v, n, op, Good, Has, Contents
  <1> QED BY <1>2, <1>3, <1>4, <1>5, <1>6, <1>7 DEF LocalsOK

\* One goroutine goes on, and the cache with it; the others keep what they hold.
LEMMA StepKeeps ==
  ASSUME Inv, NEW c \in Conns,
         CacheOK', Advances,
         \A b \in Buffers : b \notin pool /\ b # proc[c].buffer => mem'[b] = mem[b],
         proc' = [proc EXCEPT ![c] = proc'[c]],
         proc'[c] \in Locals', LocalsOK(c)',
         pool' \subseteq pool \cup ({proc[c].buffer} \ {NoBuffer}),
         proc'[c].buffer # NoBuffer =>
           /\ proc'[c].buffer \notin pool'
           /\ proc'[c].buffer \in pool \cup {proc[c].buffer},
         told' \subseteq [key : Keys, value : Value, cas : Nat, by : STRING],
         \A t \in told' \ told : Good(t.key, t.value, t.cas, t.by)',
         StreamsOK'
  PROVE  Inv'
  <1>1. casCounter' \in Nat /\ casCounter \in Nat /\ casCounter <= casCounter'
        /\ Tokens \subseteq Tokens' /\ Slices \subseteq Slices'
    BY DEF Inv, CacheOK, Advances, Tokens
  <1>2. ASSUME NEW d \in Conns, d # c
        PROVE  proc'[d] = proc[d] /\ proc[d] \in Locals' /\ LocalsOK(d)'
    <2>1. proc'[d] = proc[d]
      BY <1>2 DEF Inv, ProcOK
    <2>2. ASSUME proc[d].buffer \in Buffers
          PROVE  mem'[proc[d].buffer] = mem[proc[d].buffer]
      <3>1. proc[d].buffer # NoBuffer
        BY <2>2, ConnectionAssumption
      <3> QED BY <2>2, <3>1, <1>2 DEF Inv, PoolOK
    <2> QED BY <2>1, <2>2, AsideKeeps
  <1>3. ProcOK'
    <2>1. proc' \in [Conns -> Locals']
      BY <1>2 DEF Inv, ProcOK
    <2> QED BY <1>2, <2>1 DEF ProcOK
  <1>4. PoolOK'
    <2>1. pool' \subseteq Buffers
      BY DEF Inv, PoolOK, ProcOK, Locals
    <2>2. ASSUME NEW d \in Conns, proc'[d].buffer # NoBuffer
          PROVE  /\ proc'[d].buffer \notin pool'
                 /\ \A e \in Conns \ {d} : proc'[e].buffer # proc'[d].buffer
      BY <1>2, <2>2 DEF Inv, PoolOK
    <2> QED BY <2>1, <2>2 DEF PoolOK
  <1>5. ToldOK'
    <2>1. ASSUME NEW t \in told PROVE Good(t.key, t.value, t.cas, t.by)'
      <3>1. Good(t.key, t.value, t.cas, t.by)
        BY DEF Inv, ToldOK
      <3> QED BY <3>1, <1>1, GoodStays DEF Inv
    <2> QED BY <2>1 DEF ToldOK
  <1> QED BY <1>3, <1>4, <1>5 DEF Inv

\* The other goroutines' buffers are left alone, and what is told may be told.
OthersKept(c) ==
  \A b \in Buffers : b \notin pool /\ b # proc[c].buffer => mem'[b] = mem[b]
TellsGood ==
  /\ told' \subseteq [key : Keys, value : Value, cas : Nat, by : STRING]
  /\ \A t \in told' \ told : Good(t.key, t.value, t.cas, t.by)'

LEMMA NothingTold == ASSUME Inv, UNCHANGED told PROVE TellsGood
  BY DEF TellsGood, Inv, ToldOK

LEMMA KeptOthers == ASSUME BuffersKept, NEW c PROVE OthersKept(c)
  BY DEF BuffersKept, OthersKept

\* The end of a command gives the buffer back and leaves nothing behind.
LEMMA FinishKeeps ==
  ASSUME Inv, NEW c \in Conns, NEW cmd \in Commands \cup {NoCommand}, NEW n \in Nat,
         Finish(c, cmd, n), CacheOK', Advances, OthersKept(c), TellsGood,
         UNCHANGED client,
         wire' \in [Conns -> Seq(Items)], buf' \in [Conns -> Seq(Items)]
  PROVE  Inv'
  <1>1. /\ proc'[c] = [Idle EXCEPT !.cmd = cmd, !.answers = n]
        /\ proc' = [proc EXCEPT ![c] = proc'[c]]
    BY DEF Finish, Inv, ProcOK
  <1>2. /\ proc'[c].at = "read" /\ proc'[c].buffer = NoBuffer
        /\ proc'[c].cmd = cmd /\ proc'[c].answers = n /\ proc'[c].todo = <<>>
        /\ proc'[c].slice = NoBuffer /\ proc'[c].cas = 0
    BY <1>1 DEF Idle
  <1>3. proc'[c] \in Locals'
    <2>1. 0 \in 0..casCounter' /\ <<>> \in Seq(Keys)
      BY DEF CacheOK
    <2>2. proc'[c] = [at |-> "read", cmd |-> cmd, todo |-> <<>>, buffer |-> NoBuffer,
                      slice |-> NoBuffer, cas |-> 0, answers |-> n]
      BY <1>1 DEF Idle
    <2> QED BY <2>1, <2>2 DEF Locals
  <1>4. LocalsOK(c)'
    BY <1>2 DEF LocalsOK, HasKey, Holds, TextOK, BinaryOK, At, Cmd
  <1>5. StreamsOK'
    BY DEF Inv, StreamsOK, Finish
  <1>6. pool' \subseteq pool \cup ({proc[c].buffer} \ {NoBuffer})
    BY DEF Finish
  <1> QED BY <1>1, <1>2, <1>3, <1>4, <1>5, <1>6, StepKeeps DEF OthersKept, TellsGood

\* So do the answers of handlers that read nothing.
LEMMA AnswerKeeps ==
  ASSUME Inv, NEW c \in Conns, Cmd(c) \in Commands, NEW n \in {0, 1},
         Finish(c, Cmd(c), n), CacheOK', Advances, OthersKept(c), TellsGood, NothingRead
  PROVE  Inv'
  <1>1. n \in Nat /\ UNCHANGED client
        /\ wire' \in [Conns -> Seq(Items)] /\ buf' \in [Conns -> Seq(Items)]
    BY DEF NothingRead, Inv, StreamsOK
  <1> DEFINE cmd == Cmd(c)
  <1>2. cmd \in Commands \cup {NoCommand} /\ Finish(c, cmd, n)
    OBVIOUS
  <1> HIDE DEF cmd
  <1> QED BY <1>1, <1>2, FinishKeeps

\* A handler goes on, with locals that are in order.
LEMMA ContinueKeeps ==
  ASSUME Inv, NEW c \in Conns, CacheOK', Advances, OthersKept(c), TellsGood,
         proc' = [proc EXCEPT ![c] = proc'[c]], proc'[c].buffer = proc[c].buffer,
         UNCHANGED <<pool, client>>, out' \in [Conns -> BOOLEAN],
         wire' \in [Conns -> Seq(Items)], buf' \in [Conns -> Seq(Items)],
         proc'[c] \in Locals', LocalsOK(c)'
  PROVE  Inv'
  <1>1. StreamsOK'
    BY DEF Inv, StreamsOK
  <1>2. proc'[c].buffer # NoBuffer => proc'[c].buffer \notin pool'
    BY DEF Inv, PoolOK
  <1> QED BY <1>1, <1>2, StepKeeps DEF OthersKept, TellsGood

-----------------------------------------------------------------------------
(* What a handler finds *)

LEMMA CommandType ==
  ASSUME NEW cmd \in Commands
  PROVE  /\ cmd.op \in STRING /\ cmd.keys \in Seq(Keys) /\ cmd.keys # <<>>
         /\ cmd.value \in Value /\ cmd.exptime \in Int /\ cmd.noreply \in BOOLEAN
         /\ cmd.op \in Counts \cup BinaryCounts => cmd.value.num \in 0..MaxUint
  BY DEF Commands, Value, Counts, BinaryCounts

LEMMA Busy ==
  ASSUME Inv, NEW c \in Conns,
         proc[c].at \in {"data", "bytes", "call", "touch", "get", "write"}
  PROVE  /\ Cmd(c) \in Commands
         /\ proc[c] \in Locals /\ LocalsOK(c)
         /\ proc[c].todo \in Seq(Keys)
         /\ proc[c].todo # <<>> => Key(c) \in Keys /\ Tail(proc[c].todo) \in Seq(Keys)
  <1>1. proc[c] \in Locals /\ LocalsOK(c) /\ Cmd(c) \in Commands
    BY DEF Inv, ProcOK, LocalsOK, HasKey
  <1>2. proc[c].todo \in Seq(Keys)
    BY <1>1 DEF Locals
  <1>3. ASSUME proc[c].todo # <<>>
        PROVE  Head(proc[c].todo) \in Keys /\ Tail(proc[c].todo) \in Seq(Keys)
    BY <1>2, <1>3
  <1> QED BY <1>1, <1>2, <1>3 DEF Key

LEMMA BodyType ==
  ASSUME Inv, NEW c \in Conns, Cmd(c) \in Commands PROVE Body(c) \in Value
  <1>1. proc[c].cmd.value \in Value
    BY CommandType DEF Cmd
  <1>2. proc[c].buffer \in Buffers \cup {NoBuffer}
    BY DEF Inv, ProcOK, Locals
  <1> QED BY <1>1, <1>2 DEF Body, Inv, CacheOK

LEMMA ExpiryType ==
  ASSUME NEW c, Cmd(c) \in Commands
  PROVE  TextExpiry(c) \in Expiries /\ BinaryExpiry(c) \in Expiries
  <1>1. Cmd(c).exptime \in Int
    BY CommandType
  <1>2. Cmd(c).exptime * TicksPerSecond \in Int /\ Now \in Int
    BY <1>1, ConnectionAssumption
  <1>3. TextTTL(c) \in Int /\ BinaryTTL(c) \in Int
    BY <1>1, <1>2 DEF TextTTL, BinaryTTL
  <1> QED BY <1>1, <1>3 DEF TextExpiry, BinaryExpiry, Expiry, Expiries

LEMMA ContentsType ==
  ASSUME CacheOK, NEW k, Has(k)
  PROVE  /\ k \in Keys /\ Contents(k) \in Value /\ store[k].expiry \in Expiries
         /\ store[k].slice \in Tokens \cap Slices /\ store[k].cas \in Tokens
         /\ issued[store[k].cas] = [key |-> k, value |-> Contents(k)]
         /\ Numeric(k) => Contents(k).num \in 0..MaxUint
  <1>1. /\ k \in Keys /\ store[k].expiry \in Expiries
        /\ store[k].slice \in Tokens \cap Slices /\ store[k].cas \in Tokens
        /\ Recorded(k)
    BY DEF CacheOK, Has
  <1>2. mem[store[k].slice] \in Value
    BY <1>1 DEF CacheOK
  <1> QED BY <1>1, <1>2 DEF Contents, Recorded, Numeric, Value

\* A value, once counted or joined, is a value.
LEMMA SumType ==
  ASSUME CacheOK, NEW k, Has(k), Numeric(k), NEW op, NEW delta \in 0..MaxUint
  PROVE  Sum(op, k, delta) \in Value
  BY ContentsType, CountedType DEF Sum

LEMMA JoinedType ==
  ASSUME Inv, NEW c \in Conns, Cmd(c) \in Commands, NEW k, Has(k), NEW prepend
  PROVE  Joined(c, k, prepend) \in Value
  BY BodyType, ContentsType, ConcatType DEF Joined, Inv

-----------------------------------------------------------------------------
(* Steps that come back in many handlers *)

\* Locals remain in order as the cache goes on.
LEMMA LocalsGrow ==
  ASSUME CacheOK, CacheOK', Advances, NEW p \in Locals PROVE p \in Locals'
  <1>1. casCounter \in Nat /\ casCounter' \in Nat
        /\ casCounter <= casCounter' /\ Slices \subseteq Slices'
    BY DEF CacheOK, Advances
  <1>2. 0..casCounter \subseteq 0..casCounter'
    BY <1>1
  <1> QED BY <1>1, <1>2 DEF Locals

\* A handler that has called the cache answers, or is asked not to.
LEMMA Answered ==
  ASSUME Inv, NEW c \in Conns, Cmd(c) \in Commands, NEW quiet, AnswerUnless(quiet, c),
         CacheOK', Advances, BuffersKept, TellsGood, NothingRead
  PROVE  Inv'
  <1> DEFINE n == IF quiet THEN 0 ELSE 1
  <1>1. n \in {0, 1} /\ Finish(c, Cmd(c), n)
    BY DEF AnswerUnless
  <1> HIDE DEF n
  <1> QED BY <1>1, AnswerKeeps, KeptOthers

LEMMA AnsweredLoudly ==
  ASSUME Inv, NEW c \in Conns, Cmd(c) \in Commands, Answer(c),
         CacheOK', Advances, BuffersKept, TellsGood, NothingRead
  PROVE  Inv'
  <1>1. AnswerUnless(FALSE, c)
    BY DEF Answer, AnswerUnless
  <1> QED BY <1>1, Answered

\* What is told with a token that was issued for it may be told.
LEMMA TellsNew ==
  ASSUME Inv, NEW k \in Keys, NEW v \in Value, NEW n \in Nat, NEW op \in STRING,
         n \in Tokens', op \notin BinaryGats => issued'[n] = [key |-> k, value |-> v],
         k \in DOMAIN store' /\ store'[k].cas = n => mem'[store'[k].slice] = v,
         told' = told \cup {[key |-> k, value |-> v, cas |-> n, by |-> op]}
  PROVE  TellsGood
  <1> DEFINE t == [key |-> k, value |-> v, cas |-> n, by |-> op]
  <1>1. t \in [key : Keys, value : Value, cas : Nat, by : STRING]
    OBVIOUS
  <1>2. told' \subseteq [key : Keys, value : Value, cas : Nat, by : STRING]
    BY <1>1 DEF Inv, ToldOK
  <1>3. Good(k, v, n, op)'
    BY DEF Good, Has, Contents
  <1>4. ASSUME NEW s \in told' \ told PROVE Good(s.key, s.value, s.cas, s.by)'
    <2>1. s.key = k /\ s.value = v /\ s.cas = n /\ s.by = op
      OBVIOUS
    <2> QED BY <2>1, <1>3
  <1> QED BY <1>2, <1>4 DEF TellsGood

\* A touch of the cache by a handler that goes on with the next key.
LEMMA PassedOver ==
  ASSUME Inv, NEW c \in Conns, At(c, "call"), Cmd(c) \in Commands, Cmd(c).op \in Multi,
         proc[c].todo # <<>>, NothingRead,
         Continue(c, [proc[c] EXCEPT !.todo = Tail(@)]),
         CacheOK', Advances, BuffersKept, UNCHANGED told
  PROVE  Inv'
  <1>1. /\ proc[c] \in Locals /\ LocalsOK(c) /\ Tail(proc[c].todo) \in Seq(Keys)
        /\ casCounter \in Nat /\ casCounter' \in Nat
        /\ casCounter <= casCounter' /\ Slices \subseteq Slices'
    BY Busy DEF At, Inv, CacheOK, Advances
  <1>2. /\ proc' = [proc EXCEPT ![c] = proc'[c]]
        /\ proc'[c] = [proc[c] EXCEPT !.todo = Tail(@)]
    BY DEF Continue, Inv, ProcOK
  <1>3. proc'[c] \in Locals'
    <2>1. proc'[c] \in Locals
      BY <1>1, <1>2 DEF Locals
    <2> QED BY <2>1, LocalsGrow DEF Inv
  <1>4. /\ proc'[c].at = "call" /\ proc'[c].cmd = Cmd(c) /\ proc'[c].buffer = proc[c].buffer
    BY <1>1, <1>2 DEF At, Cmd, Locals
  <1>5. HasKey(c)' /\ Holds(c)' /\ (c \in TextConns => TextOK(c)')
    BY <1>1, <1>4 DEF LocalsOK, HasKey, Holds, TextOK, At, Cmd
  <1>6. ~HasData(Cmd(c))
    BY DEF Multi, Gets, Gats, HasData, TextData, BinaryData
  <1>7. BinaryOK(c)'
    BY <1>4, <1>6 DEF BinaryOK, At, Cmd, HasData
  <1>8. LocalsOK(c)'
    BY <1>5, <1>7, <1>1, <1>4 DEF LocalsOK, TextOK, HasKey, Holds, At, Cmd
  <1>9. /\ UNCHANGED <<pool, client>> /\ out' \in [Conns -> BOOLEAN]
        /\ wire' \in [Conns -> Seq(Items)] /\ buf' \in [Conns -> Seq(Items)]
    BY DEF Continue, NothingRead, Inv, StreamsOK
  <1> QED BY <1>2, <1>3, <1>4, <1>8, <1>9, ContinueKeeps, KeptOthers, NothingTold

\* What happens without a goroutine disturbs none.
LEMMA AllAside ==
  ASSUME Inv, CacheOK', Advances, BuffersKept, UNCHANGED <<pool, proc, told>>, StreamsOK'
  PROVE  Inv'
  <1>1. ASSUME NEW d \in Conns PROVE proc[d] \in Locals' /\ LocalsOK(d)'
    BY AsideKeeps DEF BuffersKept
  <1>2. ProcOK'
    <2>1. proc' \in [Conns -> Locals']
      BY <1>1 DEF Inv, ProcOK
    <2> QED BY <1>1, <2>1 DEF ProcOK
  <1>3. PoolOK'
    BY DEF Inv, PoolOK
  <1>4. ToldOK'
    <2>1. ASSUME NEW t \in told PROVE Good(t.key, t.value, t.cas, t.by)'
      <3>1. Good(t.key, t.value, t.cas, t.by) /\ casCounter' \in Nat
        BY DEF Inv, ToldOK, CacheOK
      <3> QED BY <3>1, GoodStays DEF Inv
    <2> QED BY <2>1 DEF Inv, ToldOK
  <1> QED BY <1>2, <1>3, <1>4 DEF Inv

-----------------------------------------------------------------------------
(* The text protocol *)

LEMMA TextPart ==
  ASSUME NEW c \in TextConns PROVE c \in Conns /\ c \notin BinaryConns
  BY DEF TextConns

\* What a handler that is about to call the cache for one key works with.
LEMMA TextCall ==
  ASSUME Inv, NEW c \in TextConns, NEW ops, Calls(c, ops), ops \cap Multi = {}
  PROVE  /\ c \in Conns /\ Cmd(c) \in Commands /\ Key(c) \in Keys
         /\ Cmd(c).op \in ops /\ Body(c) \in Value /\ TextExpiry(c) \in Expiries
  <1>1. c \in Conns /\ At(c, "call") /\ Cmd(c).op \in ops /\ Cmd(c).op \notin Multi
    BY TextPart DEF Calls
  <1>2. Cmd(c) \in Commands /\ LocalsOK(c) /\ (proc[c].todo # <<>> => Key(c) \in Keys)
    BY <1>1, Busy DEF At
  <1>3. proc[c].todo # <<>>
    BY <1>1, <1>2 DEF LocalsOK, HasKey
  <1> QED BY <1>1, <1>2, <1>3, BodyType, ExpiryType

LEMMA TextStorageKeeps ==
  ASSUME Inv, NEW c \in TextConns, HandleTextStorage(c) PROVE Inv'
  <1>1. Stores \cap Multi = {}
    BY DEF Stores, Multi, Gets, Gats
  <1>2. /\ c \in Conns /\ Cmd(c) \in Commands /\ Key(c) \in Keys
        /\ Body(c) \in Value /\ TextExpiry(c) \in Expiries
    BY <1>1, TextCall DEF HandleTextStorage
  <1>3. CacheOK' /\ Advances /\ BuffersKept
    BY <1>2, PutAdvances, StutterAdvances DEF HandleTextStorage, Inv
  <1> QED BY <1>2, <1>3, Answered, NothingTold DEF HandleTextStorage, Quietly

LEMMA TextAppendKeeps ==
  ASSUME Inv, NEW c \in TextConns, HandleTextAppendPrepend(c) PROVE Inv'
  <1>1. Appends \cap Multi = {}
    BY DEF Appends, Multi, Gets, Gats
  <1>2. /\ c \in Conns /\ Cmd(c) \in Commands /\ Key(c) \in Keys
        /\ Cmd(c).op \in Appends
    BY <1>1, TextCall DEF HandleTextAppendPrepend
  <1>3. CASE Storable(Cmd(c).op, Key(c))
    <2>1. Has(Key(c))
      BY <1>2, <1>3 DEF Storable, Appends
    <2> DEFINE v == Joined(c, Key(c), Cmd(c).op = "PREPEND")
    <2>2. v \in Value /\ store[Key(c)].expiry \in Expiries
      BY <1>2, <2>1, JoinedType, ContentsType DEF Inv
    <2>3. Put(c, Key(c), v, store[Key(c)].expiry)
      BY <1>3 DEF HandleTextAppendPrepend, Change
    <2> HIDE DEF v
    <2>4. CacheOK' /\ Advances /\ BuffersKept
      BY <1>2, <2>2, <2>3, PutAdvances DEF Inv
    <2> QED BY <1>2, <2>4, Answered, NothingTold DEF HandleTextAppendPrepend, Quietly
  <1>4. CASE ~Storable(Cmd(c).op, Key(c))
    <2>1. CacheOK' /\ Advances /\ BuffersKept
      BY <1>4, StutterAdvances DEF HandleTextAppendPrepend, Inv
    <2> QED BY <1>2, <2>1, Answered, NothingTold DEF HandleTextAppendPrepend, Quietly
  <1> QED BY <1>3, <1>4

LEMMA TextCasKeeps ==
  ASSUME Inv, NEW c \in TextConns, HandleTextCas(c) PROVE Inv'
  <1>1. {"CAS"} \cap Multi = {}
    BY DEF Multi, Gets, Gats
  <1>2. /\ c \in Conns /\ Cmd(c) \in Commands /\ Key(c) \in Keys
        /\ Body(c) \in Value /\ TextExpiry(c) \in Expiries
    BY <1>1, TextCall DEF HandleTextCas
  <1>3. CacheOK' /\ Advances /\ BuffersKept
    BY <1>2, PutAdvances, StutterAdvances DEF HandleTextCas, Inv
  <1> QED BY <1>2, <1>3, Answered, NothingTold DEF HandleTextCas, Quietly

LEMMA TextIncrDecrKeeps ==
  ASSUME Inv, NEW c \in TextConns, HandleTextIncrDecr(c) PROVE Inv'
  <1>1. Counts \cap Multi = {}
    BY DEF Counts, Multi, Gets, Gats
  <1>2. /\ c \in Conns /\ Cmd(c) \in Commands /\ Key(c) \in Keys
        /\ Cmd(c).op \in Counts
    BY <1>1, TextCall DEF HandleTextIncrDecr
  <1>3. CacheOK' /\ Advances /\ BuffersKept
    <2>1. CASE Has(Key(c)) /\ Numeric(Key(c))
      <3> DEFINE v == Sum(Cmd(c).op, Key(c), Cmd(c).value.num)
      <3>1. Cmd(c).value.num \in 0..MaxUint
        BY <1>2, CommandType
      <3>2. v \in Value /\ store[Key(c)].expiry \in Expiries
        BY <2>1, <3>1, SumType, ContentsType DEF Inv
      <3>3. Put(c, Key(c), v, store[Key(c)].expiry)
        BY <2>1 DEF HandleTextIncrDecr, Change
      <3> HIDE DEF v
      <3> QED BY <1>2, <3>2, <3>3, PutAdvances DEF Inv
    <2>2. CASE ~(Has(Key(c)) /\ Numeric(Key(c)))
      BY <2>2, StutterAdvances DEF HandleTextIncrDecr, Inv
    <2> QED BY <2>1, <2>2
  <1>4. UNCHANGED told /\ NothingRead /\ (Answer(c) \/ AnswerUnless(Cmd(c).noreply, c))
    BY DEF HandleTextIncrDecr, Quietly
  <1> QED BY <1>2, <1>3, <1>4, Answered, AnsweredLoudly, NothingTold

LEMMA TextDeleteKeeps ==
  ASSUME Inv, NEW c \in TextConns, HandleTextDelete(c) PROVE Inv'
  <1>1. {"DELETE"} \cap Multi = {}
    BY DEF Multi, Gets, Gats
  <1>2. c \in Conns /\ Cmd(c) \in Commands
    BY <1>1, TextCall DEF HandleTextDelete
  <1>3. CacheOK' /\ Advances /\ BuffersKept
    BY DropAdvances DEF HandleTextDelete, Inv
  <1> QED BY <1>2, <1>3, Answered, NothingTold DEF HandleTextDelete, Quietly

LEMMA TextTouchKeeps ==
  ASSUME Inv, NEW c \in TextConns, HandleTextTouch(c) PROVE Inv'
  <1>1. {"TOUCH"} \cap Multi = {}
    BY DEF Multi, Gets, Gats
  <1>2. /\ c \in Conns /\ Cmd(c) \in Commands /\ TextExpiry(c) \in Expiries
    BY <1>1, TextCall DEF HandleTextTouch
  <1>3. CacheOK' /\ Advances /\ BuffersKept
    BY <1>2, RenewAdvances, StutterAdvances DEF HandleTextTouch, Has, Inv
  <1> QED BY <1>2, <1>3, Answered, NothingTold DEF HandleTextTouch, Quietly

LEMMA TextFlushAllKeeps ==
  ASSUME Inv, NEW c \in TextConns, HandleTextFlushAll(c) PROVE Inv'
  <1>1. /\ c \in Conns /\ At(c, "call") /\ Cmd(c).op = "FLUSH_ALL"
        /\ NothingRead /\ UNCHANGED told
    BY TextPart DEF HandleTextFlushAll, Calls
  <1>2. Cmd(c) \in Commands /\ Cmd(c).op \in Multi
    BY <1>1, Busy DEF At, Multi
  <1>3. CASE proc[c].todo = <<>>
    <2>1. UNCHANGED cacheVars /\ AnswerUnless(Cmd(c).noreply, c)
      BY <1>3 DEF HandleTextFlushAll, Quietly
    <2> QED BY <1>1, <1>2, <2>1, Answered, StutterAdvances, NothingTold DEF Inv
  <1>4. CASE proc[c].todo # <<>>
    <2>1. Drop(Key(c)) /\ Continue(c, [proc[c] EXCEPT !.todo = Tail(@)])
      BY <1>4 DEF HandleTextFlushAll
    <2>2. CacheOK' /\ Advances /\ BuffersKept
      BY <2>1, DropAdvances DEF Inv
    <2> QED BY <1>1, <1>2, <1>4, <2>1, <2>2, PassedOver
  <1> QED BY <1>3, <1>4

\* A value that is found is remembered with its token.
LEMMA Found ==
  ASSUME Inv, NEW c \in Conns, proc[c] \in Locals, Has(Key(c)), NEW cas \in 0..casCounter,
         NEW at \in {"touch", "write"}
  PROVE  /\ [proc[c] EXCEPT !.slice = store[Key(c)].slice, !.cas = cas, !.at = at] \in Locals
         /\ store[Key(c)].slice \in Tokens \cap Slices
         /\ store[Key(c)].cas \in 0..casCounter
         /\ Good(Key(c), mem[store[Key(c)].slice], store[Key(c)].cas, Cmd(c).op)
  <1>1. /\ store[Key(c)].slice \in Tokens \cap Slices /\ store[Key(c)].cas \in Tokens
        /\ issued[store[Key(c)].cas] = [key |-> Key(c), value |-> Contents(Key(c))]
    BY ContentsType DEF Inv
  <1>2. store[Key(c)].cas \in 0..casCounter
    BY <1>1 DEF Tokens, Inv, CacheOK
  <1>3. [proc[c] EXCEPT !.slice = store[Key(c)].slice, !.cas = cas, !.at = at] \in Locals
    BY <1>1 DEF Locals
  <1> QED BY <1>1, <1>2, <1>3 DEF Good, Contents

LEMMA TextGetKeeps ==
  ASSUME Inv, NEW c \in TextConns, HandleTextGet(c) PROVE Inv'
  <1>1. /\ c \in Conns /\ c \notin BinaryConns /\ At(c, "call") /\ Cmd(c).op \in Gets \cup Gats
        /\ NothingRead /\ UNCHANGED told /\ UNCHANGED cacheVars
    BY TextPart DEF HandleTextGet, Calls
  <1>2. /\ Cmd(c) \in Commands /\ Cmd(c).op \in Multi /\ proc[c] \in Locals /\ LocalsOK(c)
    BY <1>1, Busy DEF At, Multi
  <1>3. CacheOK' /\ Advances /\ BuffersKept
    BY <1>1, StutterAdvances DEF Inv
  <1>4. CASE proc[c].todo = <<>>
    BY <1>1, <1>2, <1>3, <1>4, AnsweredLoudly, NothingTold DEF HandleTextGet
  <1>5. CASE proc[c].todo # <<>> /\ ~Has(Key(c))
    BY <1>1, <1>2, <1>3, <1>5, PassedOver DEF HandleTextGet
  <1>6. CASE proc[c].todo # <<>> /\ Has(Key(c))
    <2> DEFINE at == IF Cmd(c).op \in Gats THEN "touch" ELSE "write"
               slice == store[Key(c)].slice
               cas == store[Key(c)].cas
               p == [proc[c] EXCEPT !.slice = slice, !.cas = cas, !.at = at]
    <2>1. Continue(c, p)
      BY <1>6 DEF HandleTextGet
    <2>2. /\ proc' = [proc EXCEPT ![c] = proc'[c]] /\ proc'[c] = p
          /\ UNCHANGED <<pool, out>>
      <3> HIDE DEF p
      <3> QED BY <2>1, <1>1 DEF Continue, Inv, ProcOK
    <2>3. at \in {"touch", "write"} /\ cas \in 0..casCounter
      <3>1. store[Key(c)].cas \in Tokens
        BY <1>6, ContentsType DEF Inv
      <3> QED BY <3>1 DEF Tokens, Inv, CacheOK
    <2>4. /\ p \in Locals /\ slice \in Tokens \cap Slices
          /\ Good(Key(c), mem[slice], cas, Cmd(c).op)
      BY <1>1, <1>2, <1>6, <2>3, Found
    <2>5. /\ p.at = at /\ p.cmd = Cmd(c) /\ p.todo = proc[c].todo /\ p.slice = slice
          /\ p.cas = cas /\ p.buffer = proc[c].buffer
      BY <1>2 DEF Locals, Cmd
    <2> HIDE DEF at, slice, cas, p
    <2>6. HasKey(c)' /\ TextOK(c)'
      BY <1>1, <1>2, <1>6, <2>2, <2>3, <2>5 DEF HasKey, TextOK, LocalsOK, At, Cmd, TextConns
    <2>7. Holds(c)'
      <3>1. Key(c)' = Key(c) /\ Cmd(c)' = Cmd(c)
        BY <2>2, <2>5 DEF Key, Cmd
      <3>2. Good(Key(c), mem[slice], cas, Cmd(c).op)'
        BY <2>4, <3>1, <1>1, <2>2 DEF Good, Has, Contents, Tokens, cacheVars, slice, cas
      <3> QED BY <3>1, <2>2, <2>4, <2>5, <1>1 DEF Holds, cacheVars, Tokens, Slices, Good, Has, Contents
    <2>8. LocalsOK(c)'
      BY <2>6, <2>7, <1>1 DEF LocalsOK
    <2>9. p \in Locals'
      BY <2>4, <1>3, LocalsGrow DEF Inv
    <2>10. /\ UNCHANGED <<pool, client>> /\ out' \in [Conns -> BOOLEAN]
           /\ wire' \in [Conns -> Seq(Items)] /\ buf' \in [Conns -> Seq(Items)]
      BY <1>1, <2>2 DEF NothingRead, Inv, StreamsOK
    <2> QED BY <1>1, <1>3, <2>2, <2>5, <2>8, <2>9, <2>10, ContinueKeeps, KeptOthers, NothingTold
  <1> QED BY <1>4, <1>5, <1>6

LEMMA TextGatKeeps ==
  ASSUME Inv, NEW c \in TextConns, HandleTextGat(c) PROVE Inv'
  <1>1. /\ c \in Conns /\ c \notin BinaryConns /\ proc[c].at = "touch" /\ NothingRead
        /\ UNCHANGED told
    BY TextPart DEF HandleTextGat, At
  <1>2. /\ Cmd(c) \in Commands /\ proc[c] \in Locals /\ LocalsOK(c)
    BY <1>1, Busy
  <1>3. CacheOK' /\ Advances /\ BuffersKept
    BY <1>2, ExpiryType, RenewAdvances, StutterAdvances DEF HandleTextGat, Has, Inv
  <1> DEFINE p == [proc[c] EXCEPT !.at = "write"]
  <1>4. Continue(c, p)
    BY DEF HandleTextGat, Goto
  <1>5. /\ p \in Locals /\ p.at = "write" /\ p.cmd = Cmd(c) /\ p.todo = proc[c].todo
        /\ p.slice = proc[c].slice /\ p.cas = proc[c].cas /\ p.buffer = proc[c].buffer
    BY <1>2 DEF Locals, Cmd
  <1> HIDE DEF p
  <1>6. /\ proc' = [proc EXCEPT ![c] = proc'[c]] /\ proc'[c] = p /\ UNCHANGED <<pool, out>>
    BY <1>1, <1>4 DEF Continue, Inv, ProcOK
  <1>7. HasKey(c)' /\ TextOK(c)'
    BY <1>1, <1>2, <1>5, <1>6 DEF HasKey, TextOK, LocalsOK, At, Cmd, TextConns
  <1>8. Holds(c)'
    <2> DEFINE k == Key(c)
               slice == proc[c].slice
               cas == proc[c].cas
               op == Cmd(c).op
               v == mem[slice]
    <2>1. slice \in Tokens \cap Slices /\ Good(k, v, cas, op)
      BY <1>1, <1>2 DEF LocalsOK, Holds
    <2>2. mem'[slice] = v /\ slice \in (Tokens \cap Slices)'
      BY <2>1, <1>3 DEF Advances, Tokens, Inv, CacheOK
    <2>3. /\ Key(c)' = k /\ Cmd(c)' = Cmd(c) /\ proc'[c].slice = slice /\ proc'[c].cas = cas
      BY <1>5, <1>6 DEF Key, Cmd
    <2>4. /\ cas \in Tokens
          /\ op \notin BinaryGats => issued[cas] = [key |-> k, value |-> v]
          /\ k \in DOMAIN store /\ store[k].cas = cas => mem[store[k].slice] = v
      BY <2>1 DEF Good, Has, Contents
    <2> HIDE DEF k, slice, cas, op, v
    <2>5. /\ cas \in Tokens'
          /\ op \notin BinaryGats => issued'[cas] = [key |-> k, value |-> v]
          /\ k \in DOMAIN store' /\ store'[k].cas = cas => mem'[store'[k].slice] = v
      <3>1. Good(k, v, cas, op)
        BY <2>4 DEF Good, Has, Contents
      <3> QED BY <3>1, <1>3, GoodStays DEF Inv, CacheOK
    <2>6. Good(Key(c), mem[proc[c].slice], proc[c].cas, Cmd(c).op)'
      BY <2>2, <2>3, <2>5 DEF op, Good, Has, Contents
    <2> QED BY <2>2, <2>3, <2>6 DEF Holds
  <1>9. LocalsOK(c)'
    BY <1>1, <1>7, <1>8 DEF LocalsOK
  <1>10. p \in Locals'
    BY <1>3, <1>5, LocalsGrow DEF Inv
  <1>11. /\ UNCHANGED <<pool, client>> /\ out' \in [Conns -> BOOLEAN]
         /\ wire' \in [Conns -> Seq(Items)] /\ buf' \in [Conns -> Seq(Items)]
    BY <1>1, <1>6 DEF NothingRead, Inv, StreamsOK
  <1> QED BY <1>1, <1>3, <1>5, <1>6, <1>9, <1>10, <1>11, ContinueKeeps, KeptOthers, NothingTold

\* What a goroutine that writes a value tells.
LEMMA Written ==
  ASSUME Inv, NEW c \in Conns, proc[c].at = "write", UNCHANGED cacheVars,
         Tell(c, Key(c), mem[proc[c].slice], proc[c].cas)
  PROVE  TellsGood
  <1>1. /\ Cmd(c) \in Commands /\ Key(c) \in Keys /\ proc[c].slice \in Tokens \cap Slices
        /\ Good(Key(c), mem[proc[c].slice], proc[c].cas, Cmd(c).op)
    <2>1. /\ Cmd(c) \in Commands /\ LocalsOK(c) /\ proc[c].todo # <<>>
          /\ (proc[c].todo # <<>> => Key(c) \in Keys)
      BY Busy DEF LocalsOK, HasKey
    <2> QED BY <2>1 DEF LocalsOK, Holds
  <1> DEFINE k == Key(c)
             cas == proc[c].cas
             op == Cmd(c).op
             v == mem[proc[c].slice]
  <1>2. /\ v \in Value /\ cas \in Nat /\ op \in STRING /\ k \in Keys
    BY <1>1, CommandType DEF Inv, CacheOK, Good, Tokens
  <1>3. /\ cas \in Tokens'
        /\ op \notin BinaryGats => issued'[cas] = [key |-> k, value |-> v]
        /\ k \in DOMAIN store' /\ store'[k].cas = cas => mem'[store'[k].slice] = v
    BY <1>1 DEF Good, Has, Contents, cacheVars, Tokens
  <1>4. told' = told \cup {[key |-> k, value |-> v, cas |-> cas, by |-> op]}
    BY DEF Tell
  <1> HIDE DEF k, cas, op, v
  <1> QED BY <1>2, <1>3, <1>4, TellsNew

LEMMA WriteValueKeeps ==
  ASSUME Inv, NEW c \in TextConns, WriteValue(c) PROVE Inv'
  <1>1. /\ c \in Conns /\ c \notin BinaryConns /\ proc[c].at = "write" /\ NothingRead
        /\ UNCHANGED <<cacheVars, pool>> /\ out' = [out EXCEPT ![c] = TRUE]
    BY TextPart DEF WriteValue, At
  <1>2. /\ Cmd(c) \in Commands /\ proc[c] \in Locals /\ LocalsOK(c)
        /\ Tail(proc[c].todo) \in Seq(Keys)
    BY <1>1, Busy DEF LocalsOK, HasKey
  <1>3. CacheOK' /\ Advances /\ BuffersKept
    BY <1>1, StutterAdvances DEF Inv
  <1>4. TellsGood
    BY <1>1, Written, NothingTold DEF WriteValue, TellText
  <1> DEFINE p == [proc[c] EXCEPT !.at = "call", !.todo = Tail(@)]
  <1>5. proc' = [proc EXCEPT ![c] = p]
    BY DEF WriteValue
  <1>6. /\ p \in Locals /\ p.at = "call" /\ p.cmd = Cmd(c) /\ p.buffer = proc[c].buffer
    BY <1>2 DEF Locals, Cmd
  <1> HIDE DEF p
  <1>7. proc' = [proc EXCEPT ![c] = proc'[c]] /\ proc'[c] = p
    BY <1>1, <1>5 DEF Inv, ProcOK
  <1>8. LocalsOK(c)'
    BY <1>1, <1>2, <1>6, <1>7 DEF LocalsOK, HasKey, TextOK, Holds, At, Cmd, TextConns, Multi
  <1>9. p \in Locals'
    BY <1>3, <1>6, LocalsGrow DEF Inv
  <1>10. /\ UNCHANGED client /\ out' \in [Conns -> BOOLEAN]
         /\ wire' \in [Conns -> Seq(Items)] /\ buf' \in [Conns -> Seq(Items)]
    BY <1>1 DEF NothingRead, Inv, StreamsOK
  <1> QED BY <1>1, <1>3, <1>4, <1>6, <1>7, <1>8, <1>9, <1>10, ContinueKeeps, KeptOthers

LEMMA IdleType ==
  ASSUME CacheOK PROVE Idle \in Locals /\ Idle.at = "read" /\ Idle.buffer = NoBuffer
  <1>1. <<>> \in Seq(Keys) /\ 0 \in 0..casCounter
    BY DEF CacheOK
  <1> QED BY <1>1 DEF Idle, Locals

\* A goroutine that has no buffer begins a command, or leaves one aside.
LEMMA Begun ==
  ASSUME Inv, NEW c \in Conns, proc[c].buffer = NoBuffer,
         NEW p \in Locals, p.at \in {"read", "data", "bytes", "call", "returned"},
         p.at \in {"data", "bytes", "call"} =>
           p.cmd \in Commands /\ p.todo # <<>> /\ c \in TextConns,
         p.buffer = NoBuffer, Continue(c, p),
         CacheOK', Advances, OthersKept(c), UNCHANGED <<client, told>>,
         wire' \in [Conns -> Seq(Items)], buf' \in [Conns -> Seq(Items)]
  PROVE  Inv'
  <1>1. /\ proc' = [proc EXCEPT ![c] = proc'[c]] /\ proc'[c] = p /\ UNCHANGED <<pool, out>>
    BY DEF Continue, Inv, ProcOK
  <1>2. p \in Locals'
    BY LocalsGrow DEF Inv
  <1>3. HasKey(c)' /\ Holds(c)' /\ (c \in TextConns => TextOK(c)')
    BY <1>1 DEF HasKey, Holds, TextOK, At, Cmd
  <1>4. (c \in BinaryConns => BinaryOK(c)')
    BY <1>1 DEF BinaryOK, At, TextConns
  <1>5. LocalsOK(c)'
    BY <1>3, <1>4 DEF LocalsOK
  <1>6. out' \in [Conns -> BOOLEAN] /\ UNCHANGED client
    BY <1>1 DEF Inv, StreamsOK
  <1> QED BY <1>1, <1>2, <1>5, <1>6, ContinueKeeps, NothingTold

LEMMA HandleTextKeeps ==
  ASSUME Inv, NEW c \in TextConns, HandleText(c) PROVE Inv'
  <1>1. /\ c \in Conns /\ c \notin BinaryConns /\ proc[c].buffer = NoBuffer
        /\ UNCHANGED <<cacheVars, client, told>>
    BY TextPart DEF HandleText, Inv, ProcOK, LocalsOK, TextOK
  <1>2. PICK item : item = Head(Input(c))
    OBVIOUS
  <1> DEFINE cmd == Head(Lines(item))
             rest == Strays(Tail(Lines(item)))
  <1>3. TakeLeaving(c, rest)
    BY <1>2 DEF HandleText
  <1>4. item \in Items
    <2>1. Input(c) \in Seq(Items) /\ Input(c) # <<>>
      BY <1>1, <1>3 DEF Inv, StreamsOK, Input, TakeLeaving
    <2> QED BY <1>2, <2>1, HeadTailProperties
  <1>5. cmd \in Commands /\ Tail(Lines(item)) \in Seq(Commands)
    BY <1>1, <1>4, LinesType DEF Items, CommandsOf
  <1>6. rest \in Seq(Items)
    BY <1>5, StraysType DEF Items, Item
  <1>7. wire' \in [Conns -> Seq(Items)] /\ buf' \in [Conns -> Seq(Items)]
    BY <1>1, <1>3, <1>6, TakeKeeps DEF Inv
  <1>8. cmd.keys \in Seq(Keys) /\ cmd.keys # <<>>
    BY <1>5, CommandType
  <1>9. CacheOK' /\ Advances /\ OthersKept(c) /\ TellsGood
    BY <1>1, StutterAdvances, KeptOthers, NothingTold DEF Inv
  <1> DEFINE at == IF HasData(cmd) THEN WhereData(item) ELSE "call"
             blank == [Idle EXCEPT !.cmd = cmd]
             quit == [Idle EXCEPT !.cmd = cmd, !.at = "returned"]
             begun == [Idle EXCEPT !.cmd = cmd, !.at = at, !.todo = cmd.keys]
  <1>10. \/ Finish(c, cmd, 0) \/ Finish(c, cmd, 1)
         \/ Continue(c, blank) \/ Continue(c, quit) \/ Continue(c, begun)
    BY <1>2 DEF HandleText
  <1>11. /\ at \in {"data", "bytes", "call"} /\ cmd \in Commands \cup {NoCommand}
         /\ Idle \in Locals /\ Idle.at = "read" /\ Idle.buffer = NoBuffer
    BY <1>5, IdleType DEF Inv, WhereData
  <1> HIDE DEF cmd, at, rest
  <1>12. blank \in Locals /\ blank.at = "read" /\ blank.buffer = NoBuffer
    BY <1>11 DEF Locals
  <1>13. quit \in Locals /\ quit.at = "returned" /\ quit.buffer = NoBuffer
    BY <1>11 DEF Locals
  <1>14. /\ begun \in Locals /\ begun.at = at /\ begun.buffer = NoBuffer
         /\ begun.cmd = cmd /\ begun.todo = cmd.keys
    BY <1>8, <1>11 DEF Locals
  <1> HIDE DEF blank, quit, begun
  <1>15. CASE Finish(c, cmd, 0) \/ Finish(c, cmd, 1)
    <2>1. 0 \in Nat /\ 1 \in Nat
      OBVIOUS
    <2> QED BY <1>1, <1>7, <1>9, <1>11, <1>15, <2>1, FinishKeeps
  <1>16. CASE Continue(c, blank)
    BY <1>1, <1>7, <1>9, <1>12, <1>16, Begun
  <1>17. CASE Continue(c, quit)
    BY <1>1, <1>7, <1>9, <1>13, <1>17, Begun
  <1>18. CASE Continue(c, begun)
    BY <1>1, <1>5, <1>7, <1>8, <1>9, <1>11, <1>14, <1>18, Begun
  <1> QED BY <1>10, <1>15, <1>16, <1>17, <1>18

\* The data have been read, whoever sent them.
LEMMA DataReadKeeps ==
  ASSUME Inv, NEW c \in TextConns, proc[c].at \in {"data", "bytes"}, DataRead(c),
         UNCHANGED <<cacheVars, client, told>>,
         wire' \in [Conns -> Seq(Items)], buf' \in [Conns -> Seq(Items)]
  PROVE  Inv'
  <1>1. c \in Conns /\ c \notin BinaryConns
    BY TextPart
  <1>2. Cmd(c) \in Commands /\ proc[c] \in Locals /\ LocalsOK(c)
    BY <1>1, Busy
  <1>3. CacheOK' /\ Advances /\ OthersKept(c) /\ TellsGood
    BY StutterAdvances, KeptOthers, NothingTold DEF Inv
  <1>4. CASE Answer(c)
    <2> DEFINE cmd == Cmd(c)
    <2>1. cmd \in Commands \cup {NoCommand} /\ Finish(c, cmd, 1)
      BY <1>2, <1>4 DEF Answer
    <2> HIDE DEF cmd
    <2> QED BY <1>1, <1>2, <1>3, <2>1, FinishKeeps
  <1>5. CASE Goto(c, "call")
    <2> DEFINE p == [proc[c] EXCEPT !.at = "call"]
    <2>1. Continue(c, p) /\ p \in Locals
      BY <1>2, <1>5 DEF Goto, Locals
    <2>2. /\ p.at = "call" /\ p.cmd = Cmd(c) /\ p.todo = proc[c].todo
          /\ p.buffer = proc[c].buffer
      BY <1>2 DEF Locals, Cmd
    <2> HIDE DEF p
    <2>3. /\ proc' = [proc EXCEPT ![c] = proc'[c]] /\ proc'[c] = p /\ UNCHANGED <<pool, out>>
      BY <1>1, <2>1 DEF Continue, Inv, ProcOK
    <2>4. LocalsOK(c)'
      BY <1>1, <1>2, <2>2, <2>3 DEF LocalsOK, HasKey, TextOK, Holds, At, Cmd, TextConns
    <2>5. p \in Locals'
      BY <1>3, <2>1, LocalsGrow DEF Inv
    <2>6. out' \in [Conns -> BOOLEAN]
      BY <2>3 DEF Inv, StreamsOK
    <2> QED BY <1>1, <1>2, <1>3, <2>2, <2>3, <2>4, <2>5, <2>6, ContinueKeeps
  <1> QED BY <1>4, <1>5 DEF DataRead

LEMMA ReadDataKeeps ==
  ASSUME Inv, NEW c \in TextConns, ReadData(c) PROVE Inv'
  <1>1. /\ c \in Conns /\ proc[c].at = "data" /\ Consume(c) /\ DataRead(c)
        /\ UNCHANGED <<cacheVars, client, told>>
    BY TextPart DEF ReadData, At
  <1>2. wire' \in [Conns -> Seq(Items)] /\ buf' \in [Conns -> Seq(Items)]
    BY <1>1, ConsumeKeeps DEF Inv
  <1> QED BY <1>1, <1>2, DataReadKeeps

LEMMA ReadBytesKeeps ==
  ASSUME Inv, NEW c \in TextConns, ReadBytes(c) PROVE Inv'
  <1>1. /\ c \in Conns /\ c \in Conns \ BinaryConns /\ proc[c].at = "bytes"
        /\ UNCHANGED <<cacheVars, client, told>>
    BY TextPart DEF ReadBytes, At
  <1>2. CASE TakeLeaving(c, <<>>) /\ Continue(c, proc[c])
    <2>1. <<>> \in Seq(Items)
      BY EmptySeq
    <2>2. wire' \in [Conns -> Seq(Items)] /\ buf' \in [Conns -> Seq(Items)]
      BY <1>1, <1>2, <2>1, TakeKeeps DEF Inv
    <2>3. CacheOK' /\ Advances /\ BuffersKept
      BY <1>1, StutterAdvances DEF Inv
    <2>4. proc' = proc /\ UNCHANGED <<pool, out>>
      BY <1>1, <1>2 DEF Continue, Inv, ProcOK
    <2>5. StreamsOK'
      BY <1>1, <2>2, <2>4 DEF Inv, StreamsOK
    <2> QED BY <1>1, <2>3, <2>4, <2>5, AllAside
  <1>3. CASE \E rest \in Fragments : TakeLeaving(c, Strays(rest)) /\ DataRead(c)
    <2>1. PICK rest \in Fragments : TakeLeaving(c, Strays(rest)) /\ DataRead(c)
      BY <1>3
    <2>2. rest \in Seq(CommandsOf(c))
      BY <1>1, ConnectionAssumption
    <2>3. \A x \in CommandsOf(c) : Item("stray", x) \in Items
      BY DEF CommandsOf, Item, Items
    <2>4. Strays(rest) \in Seq(Items)
      BY <2>2, <2>3, StraysType
    <2>5. wire' \in [Conns -> Seq(Items)] /\ buf' \in [Conns -> Seq(Items)]
      BY <1>1, <2>1, <2>4, TakeKeeps DEF Inv
    <2> QED BY <1>1, <2>1, <2>5, DataReadKeeps
  <1> QED BY <1>2, <1>3 DEF ReadBytes

LEMMA HangUpKeeps ==
  ASSUME Inv, NEW c \in TextConns, HangUp(c) PROVE Inv'
  <1>1. /\ c \in Conns /\ c \notin BinaryConns /\ proc[c].buffer = NoBuffer
        /\ NothingRead /\ UNCHANGED <<cacheVars, told>> /\ UNCHANGED client
        /\ wire' \in [Conns -> Seq(Items)] /\ buf' \in [Conns -> Seq(Items)]
    BY TextPart DEF HangUp, NothingRead, Inv, ProcOK, LocalsOK, TextOK, StreamsOK
  <1>2. CacheOK' /\ Advances /\ BuffersKept /\ TellsGood
    BY <1>1, StutterAdvances, NothingTold DEF Inv
  <1>3. CASE proc[c].at \in {"data", "bytes"} /\ (Answer(c) \/ DataRead(c))
    <2>1. Cmd(c) \in Commands
      BY <1>1, <1>3, Busy
    <2>2. CASE Answer(c)
      BY <1>1, <1>2, <2>1, <2>2, AnsweredLoudly
    <2>3. CASE DataRead(c)
      BY <1>1, <1>3, <2>3, DataReadKeeps
    <2> QED BY <1>3, <2>2, <2>3
  <1>4. CASE At(c, "read") /\ Goto(c, "returned")
    <2> DEFINE p == [proc[c] EXCEPT !.at = "returned"]
    <2>1. Continue(c, p)
      BY <1>4 DEF Goto
    <2>2. p \in Locals /\ p.at = "returned" /\ p.buffer = NoBuffer
      BY <1>1 DEF Inv, ProcOK, Locals
    <2> HIDE DEF p
    <2>3. /\ proc' = [proc EXCEPT ![c] = proc'[c]] /\ proc'[c] = p /\ UNCHANGED <<pool, out>>
      BY <1>1, <2>1 DEF Continue, Inv, ProcOK
    <2>4. LocalsOK(c)'
      BY <1>1, <2>2, <2>3 DEF LocalsOK, HasKey, TextOK, Holds, At, Cmd
    <2>5. p \in Locals'
      BY <1>2, <2>2, LocalsGrow DEF Inv
    <2>6. out' \in [Conns -> BOOLEAN]
      BY <2>3 DEF Inv, StreamsOK
    <2> QED BY <1>1, <1>2, <2>2, <2>3, <2>4, <2>5, <2>6, ContinueKeeps, KeptOthers
  <1> QED BY <1>3, <1>4 DEF HangUp, At

LEMMA TextStepKeeps ==
  ASSUME Inv, NEW c \in TextConns, TextStep(c) PROVE Inv'
  BY HandleTextKeeps, ReadDataKeeps, ReadBytesKeeps, HangUpKeeps, TextStorageKeeps, TextAppendKeeps,
     TextCasKeeps, TextIncrDecrKeeps, TextDeleteKeeps, TextTouchKeeps, TextFlushAllKeeps,
     TextGetKeeps, TextGatKeeps, WriteValueKeeps
  DEF TextStep

-----------------------------------------------------------------------------
(* The binary protocol *)

LEMMA BinaryPart ==
  ASSUME NEW c \in BinaryConns PROVE c \in Conns /\ c \notin TextConns
  BY ConnectionAssumption DEF TextConns

LEMMA BinaryCall ==
  ASSUME Inv, NEW c \in BinaryConns, NEW ops, Calls(c, ops), ops \cap Multi = {}
  PROVE  /\ c \in Conns /\ Cmd(c) \in Commands /\ Key(c) \in Keys
         /\ Cmd(c).op \in ops /\ Body(c) \in Value /\ BinaryExpiry(c) \in Expiries
         /\ HasData(Cmd(c)) => Body(c) = Cmd(c).value
         /\ proc[c] \in Locals /\ LocalsOK(c) /\ proc[c].at = "call" /\ proc[c].todo # <<>>
  <1>1. c \in Conns /\ At(c, "call") /\ Cmd(c).op \in ops /\ Cmd(c).op \notin Multi
    BY BinaryPart DEF Calls
  <1>2. /\ Cmd(c) \in Commands /\ proc[c] \in Locals /\ LocalsOK(c)
        /\ (proc[c].todo # <<>> => Key(c) \in Keys)
    BY <1>1, Busy DEF At
  <1>3. proc[c].todo # <<>>
    BY <1>1, <1>2 DEF LocalsOK, HasKey
  <1>4. HasData(Cmd(c)) => Body(c) = Cmd(c).value
    BY <1>1, <1>2, ConnectionAssumption DEF LocalsOK, BinaryOK, Body
  <1> QED BY <1>1, <1>2, <1>3, <1>4, BodyType, ExpiryType DEF At

\* A store or a count that succeeds tells its new token.
LEMMA ToldNewToken ==
  ASSUME Inv, NEW c \in Conns, Cmd(c) \in Commands, NEW k \in Keys, NEW v \in Value,
         k \in DOMAIN store', casCounter' = NewToken, CacheOK',
         store'[k].slice = NewToken, mem'[NewToken] = v,
         issued'[NewToken] = [key |-> k, value |-> v], Tell(c, k, v, NewToken)
  PROVE  TellsGood
  <1> DEFINE op == Cmd(c).op
             n == NewToken
  <1>1. op \in STRING /\ n \in Nat /\ n \in Tokens'
    BY CommandType DEF NewToken, Inv, CacheOK, Tokens
  <1>2. told' = told \cup {[key |-> k, value |-> v, cas |-> n, by |-> op]}
    BY DEF Tell
  <1>3. /\ op \notin BinaryGats => issued'[n] = [key |-> k, value |-> v]
        /\ k \in DOMAIN store' /\ store'[k].cas = n => mem'[store'[k].slice] = v
    OBVIOUS
  <1> HIDE DEF op, n
  <1> QED BY <1>1, <1>2, <1>3, TellsNew

LEMMA BinaryStorageKeeps ==
  ASSUME Inv, NEW c \in BinaryConns, HandleBinaryStorage(c) PROVE Inv'
  <1>1. BinaryStores \cap Multi = {}
    BY DEF BinaryStores, Multi, Gets, Gats
  <1>2. /\ c \in Conns /\ Cmd(c) \in Commands /\ Key(c) \in Keys
        /\ Body(c) \in Value /\ BinaryExpiry(c) \in Expiries /\ Cmd(c).op \in BinaryStores
        /\ HasData(Cmd(c)) => Body(c) = Cmd(c).value
    BY <1>1, BinaryCall DEF HandleBinaryStorage
  <1>3. Answer(c) /\ NothingRead
    BY DEF HandleBinaryStorage
  <1>4. CASE UNCHANGED <<cacheVars, told>>
    BY <1>2, <1>3, <1>4, AnsweredLoudly, StutterAdvances, NothingTold DEF Inv
  <1>5. CASE Put(c, Key(c), Body(c), BinaryExpiry(c)) /\ Tell(c, Key(c), Cmd(c).value, NewToken)
    <2> DEFINE k == Key(c)
               v == Body(c)
               expiry == BinaryExpiry(c)
    <2>1. v = Cmd(c).value
      BY <1>2 DEF BinaryStores, HasData, TextData, BinaryData
    <2>2. k \in Keys /\ v \in Value /\ expiry \in Expiries
      BY <1>2
    <2>3. Put(c, k, v, expiry) /\ Tell(c, k, v, NewToken)
      BY <1>5, <2>1
    <2> HIDE DEF k, v, expiry
    <2>4. /\ CacheOK' /\ Advances /\ BuffersKept /\ casCounter' = NewToken
          /\ k \in DOMAIN store' /\ store'[k].slice = NewToken /\ mem'[NewToken] = v
          /\ issued'[NewToken] = [key |-> k, value |-> v]
      BY <2>2, <2>3, PutAdvances DEF Inv
    <2>5. TellsGood
      BY <1>2, <2>2, <2>3, <2>4, ToldNewToken
    <2> QED BY <1>2, <1>3, <2>4, <2>5, AnsweredLoudly
  <1> QED BY <1>4, <1>5 DEF HandleBinaryStorage

LEMMA BinaryAppendKeeps ==
  ASSUME Inv, NEW c \in BinaryConns, HandleBinaryAppendPrepend(c) PROVE Inv'
  <1>1. BinaryAppends \cap Multi = {}
    BY DEF BinaryAppends, Multi, Gets, Gats
  <1>2. /\ c \in Conns /\ Cmd(c) \in Commands /\ Key(c) \in Keys
        /\ Cmd(c).op \in BinaryAppends
    BY <1>1, BinaryCall DEF HandleBinaryAppendPrepend
  <1>3. NothingRead /\ Answer(c) /\ UNCHANGED told
    BY DEF HandleBinaryAppendPrepend
  <1>4. CacheOK' /\ Advances /\ BuffersKept
    <2>1. CASE Storable(Cmd(c).op, Key(c))
      <3>1. Has(Key(c))
        BY <1>2, <2>1 DEF Storable, BinaryAppends
      <3> DEFINE v == Joined(c, Key(c), Cmd(c).op = "opPrepend")
      <3>2. v \in Value /\ store[Key(c)].expiry \in Expiries
        BY <1>2, <3>1, JoinedType, ContentsType DEF Inv
      <3>3. Put(c, Key(c), v, store[Key(c)].expiry)
        BY <2>1 DEF HandleBinaryAppendPrepend, Change
      <3> HIDE DEF v
      <3> QED BY <1>2, <3>2, <3>3, PutAdvances DEF Inv
    <2>2. CASE ~Storable(Cmd(c).op, Key(c))
      BY <2>2, StutterAdvances DEF HandleBinaryAppendPrepend, Inv
    <2> QED BY <2>1, <2>2
  <1> QED BY <1>2, <1>3, <1>4, AnsweredLoudly, NothingTold

LEMMA BinaryIncrDecrKeeps ==
  ASSUME Inv, NEW c \in BinaryConns, HandleBinaryIncrDecr(c) PROVE Inv'
  <1>1. BinaryCounts \cap Multi = {}
    BY DEF BinaryCounts, Multi, Gets, Gats
  <1>2. /\ c \in Conns /\ Cmd(c) \in Commands /\ Key(c) \in Keys
        /\ Cmd(c).op \in BinaryCounts
    BY <1>1, BinaryCall DEF HandleBinaryIncrDecr
  <1>3. NothingRead /\ Answer(c)
    BY DEF HandleBinaryIncrDecr
  <1>4. CASE ~(Has(Key(c)) /\ Numeric(Key(c)))
    BY <1>2, <1>3, <1>4, AnsweredLoudly, StutterAdvances, NothingTold
    DEF HandleBinaryIncrDecr, Inv
  <1>5. CASE Has(Key(c)) /\ Numeric(Key(c))
    <2> DEFINE k == Key(c)
               v == Sum(Cmd(c).op, Key(c), Cmd(c).value.num)
               expiry == store[Key(c)].expiry
    <2>1. Cmd(c).value.num \in 0..MaxUint
      BY <1>2, CommandType
    <2>2. k \in Keys /\ v \in Value /\ expiry \in Expiries
      BY <1>2, <1>5, <2>1, SumType, ContentsType DEF Inv
    <2>3. Put(c, k, v, expiry) /\ Tell(c, k, v, NewToken)
      BY <1>5 DEF HandleBinaryIncrDecr, Change
    <2> HIDE DEF k, v, expiry
    <2>4. /\ CacheOK' /\ Advances /\ BuffersKept /\ casCounter' = NewToken
          /\ k \in DOMAIN store' /\ store'[k].slice = NewToken /\ mem'[NewToken] = v
          /\ issued'[NewToken] = [key |-> k, value |-> v]
      BY <2>2, <2>3, PutAdvances DEF Inv
    <2>5. TellsGood
      BY <1>2, <2>2, <2>3, <2>4, ToldNewToken
    <2> QED BY <1>2, <1>3, <2>4, <2>5, AnsweredLoudly
  <1> QED BY <1>4, <1>5

LEMMA BinaryDeleteKeeps ==
  ASSUME Inv, NEW c \in BinaryConns, HandleBinaryDelete(c) PROVE Inv'
  <1>1. {"opDelete"} \cap Multi = {}
    BY DEF Multi, Gets, Gats
  <1>2. c \in Conns /\ Cmd(c) \in Commands
    BY <1>1, BinaryCall DEF HandleBinaryDelete
  <1>3. CacheOK' /\ Advances /\ BuffersKept
    BY DropAdvances DEF HandleBinaryDelete, Inv
  <1> QED BY <1>2, <1>3, AnsweredLoudly, NothingTold DEF HandleBinaryDelete

LEMMA BinaryTouchKeeps ==
  ASSUME Inv, NEW c \in BinaryConns, HandleBinaryTouch(c) PROVE Inv'
  <1>1. {"opTouch"} \cap Multi = {}
    BY DEF Multi, Gets, Gats
  <1>2. c \in Conns /\ Cmd(c) \in Commands /\ BinaryExpiry(c) \in Expiries
    BY <1>1, BinaryCall DEF HandleBinaryTouch
  <1>3. CacheOK' /\ Advances /\ BuffersKept
    BY <1>2, RenewAdvances, StutterAdvances DEF HandleBinaryTouch, Has, Inv
  <1> QED BY <1>2, <1>3, AnsweredLoudly, NothingTold DEF HandleBinaryTouch

LEMMA BinaryFlushKeeps ==
  ASSUME Inv, NEW c \in BinaryConns, HandleBinaryFlush(c) PROVE Inv'
  <1>1. /\ c \in Conns /\ At(c, "call") /\ Cmd(c).op = "opFlush"
        /\ NothingRead /\ UNCHANGED told
    BY BinaryPart DEF HandleBinaryFlush, Calls
  <1>2. Cmd(c) \in Commands /\ Cmd(c).op \in Multi
    BY <1>1, Busy DEF At, Multi
  <1>3. CASE proc[c].todo = <<>>
    BY <1>1, <1>2, <1>3, AnsweredLoudly, StutterAdvances, NothingTold
    DEF HandleBinaryFlush, Inv
  <1>4. CASE proc[c].todo # <<>>
    <2>1. Drop(Key(c)) /\ Continue(c, [proc[c] EXCEPT !.todo = Tail(@)])
      BY <1>4 DEF HandleBinaryFlush
    <2>2. CacheOK' /\ Advances /\ BuffersKept
      BY <2>1, DropAdvances DEF Inv
    <2> QED BY <1>1, <1>2, <1>4, <2>1, <2>2, PassedOver
  <1> QED BY <1>3, <1>4

LEMMA WriteResponseKeeps ==
  ASSUME Inv, NEW c \in BinaryConns, WriteResponse(c) PROVE Inv'
  <1>1. c \in Conns /\ proc[c].at = "write" /\ NothingRead /\ UNCHANGED cacheVars
    BY BinaryPart DEF WriteResponse, At
  <1>2. Cmd(c) \in Commands
    BY <1>1, Busy
  <1>3. CacheOK' /\ Advances /\ BuffersKept
    BY <1>1, StutterAdvances DEF Inv
  <1>4. TellsGood
    BY <1>1, Written DEF WriteResponse
  <1> QED BY <1>1, <1>2, <1>3, <1>4, AnsweredLoudly DEF WriteResponse

LEMMA BinaryGetKeeps ==
  ASSUME Inv, NEW c \in BinaryConns, HandleBinaryGet(c) PROVE Inv'
  <1>1. /\ c \in Conns /\ c \notin TextConns /\ NothingRead /\ UNCHANGED <<cacheVars, told>>
    BY BinaryPart DEF HandleBinaryGet
  <1>2. /\ Cmd(c) \in Commands /\ proc[c] \in Locals /\ LocalsOK(c) /\ proc[c].todo # <<>>
        /\ At(c, "get") => Cmd(c).op \in BinaryGats /\ proc[c].cas \in Tokens
    <2>1. CASE Calls(c, BinaryGets)
      <3>1. BinaryGets \cap Multi = {}
        BY DEF BinaryGets, Multi, Gets, Gats
      <3> QED BY <2>1, <3>1, BinaryCall DEF At
    <2>2. CASE At(c, "get")
      <3>1. Cmd(c) \in Commands /\ proc[c] \in Locals /\ LocalsOK(c)
        BY <1>1, <2>2, Busy DEF At
      <3> QED BY <3>1, <2>2 DEF LocalsOK, HasKey, BinaryOK, At
    <2> QED BY <2>1, <2>2 DEF HandleBinaryGet
  <1>3. CacheOK' /\ Advances /\ BuffersKept
    BY <1>1, StutterAdvances DEF Inv
  <1>4. CASE ~Has(Key(c))
    <2>1. AnswerUnless(Cmd(c).op \in Quiet, c)
      BY <1>4 DEF HandleBinaryGet
    <2> QED BY <1>1, <1>2, <1>3, <2>1, Answered, NothingTold
  <1>5. CASE Has(Key(c))
    <2> DEFINE slice == store[Key(c)].slice
               cas == IF At(c, "get") THEN proc[c].cas ELSE store[Key(c)].cas
               p == [proc[c] EXCEPT !.slice = slice, !.cas = cas, !.at = "write"]
    <2>1. Continue(c, p)
      BY <1>5 DEF HandleBinaryGet
    <2>2. /\ proc' = [proc EXCEPT ![c] = proc'[c]] /\ proc'[c] = p
          /\ UNCHANGED <<pool, out>>
      <3> HIDE DEF p
      <3> QED BY <2>1, <1>1 DEF Continue, Inv, ProcOK
    <2>3. /\ cas \in Tokens /\ slice \in Tokens \cap Slices
          /\ Cmd(c).op \notin BinaryGats
               => issued[cas] = [key |-> Key(c), value |-> mem[slice]]
      BY <1>2, <1>5, ContentsType DEF Contents, Inv
    <2>4. Good(Key(c), mem[slice], cas, Cmd(c).op)
      BY <2>3 DEF Good, Contents
    <2>5. p \in Locals
      <3>1. cas \in 0..casCounter
        BY <2>3 DEF Tokens, Inv, CacheOK
      <3> HIDE DEF cas, slice
      <3> QED BY <1>2, <2>3, <3>1 DEF Locals
    <2>6. /\ p.at = "write" /\ p.cmd = Cmd(c) /\ p.todo = proc[c].todo /\ p.slice = slice
          /\ p.cas = cas /\ p.buffer = proc[c].buffer
      BY <1>2 DEF Locals, Cmd
    <2> HIDE DEF slice, cas, p
    <2>7. HasKey(c)' /\ BinaryOK(c)'
      BY <1>2, <2>2, <2>6 DEF HasKey, BinaryOK, At, Cmd
    <2>8. Holds(c)'
      <3> DEFINE k == Key(c)
                 op == Cmd(c).op
                 v == mem[slice]
      <3>1. Key(c)' = k /\ Cmd(c)' = Cmd(c) /\ proc'[c].slice = slice /\ proc'[c].cas = cas
        BY <2>2, <2>6 DEF Key, Cmd
      <3>2. mem'[slice] = v /\ slice \in (Tokens \cap Slices)'
        BY <2>3, <1>3 DEF Advances, Tokens, Inv, CacheOK
      <3>3. Good(k, v, cas, op)
        BY <2>4
      <3> HIDE DEF k, op, v
      <3>4. /\ cas \in Tokens'
            /\ op \notin BinaryGats => issued'[cas] = [key |-> k, value |-> v]
            /\ k \in DOMAIN store' /\ store'[k].cas = cas => mem'[store'[k].slice] = v
        BY <3>3, <1>3, GoodStays DEF Inv, CacheOK
      <3>5. Good(Key(c), mem[proc[c].slice], proc[c].cas, Cmd(c).op)'
        BY <3>1, <3>2, <3>4 DEF op, Good, Has, Contents
      <3> QED BY <3>1, <3>2, <3>5 DEF Holds
    <2>9. LocalsOK(c)'
      BY <1>1, <2>7, <2>8 DEF LocalsOK
    <2>10. p \in Locals'
      BY <1>3, <2>5, LocalsGrow DEF Inv
    <2>11. /\ UNCHANGED <<pool, client>> /\ out' \in [Conns -> BOOLEAN]
           /\ wire' \in [Conns -> Seq(Items)] /\ buf' \in [Conns -> Seq(Items)]
      BY <1>1, <2>2 DEF NothingRead, Inv, StreamsOK
    <2> QED BY <1>1, <1>3, <2>2, <2>6, <2>9, <2>10, <2>11, ContinueKeeps, KeptOthers,
               NothingTold
  <1> QED BY <1>4, <1>5

LEMMA BinaryGATKeeps ==
  ASSUME Inv, NEW c \in BinaryConns, HandleBinaryGAT(c) PROVE Inv'
  <1>1. BinaryGats \cap Multi = {}
    BY DEF BinaryGats, Multi, Gets, Gats
  <1>2. /\ c \in Conns /\ c \notin TextConns /\ Cmd(c) \in Commands /\ Cmd(c).op \in BinaryGats
        /\ BinaryExpiry(c) \in Expiries /\ proc[c] \in Locals
        /\ proc[c].at = "call" /\ proc[c].todo # <<>>
    BY <1>1, BinaryCall, BinaryPart DEF HandleBinaryGAT
  <1>3. NothingRead /\ UNCHANGED told
    BY DEF HandleBinaryGAT
  <1>4. CASE ~Has(Key(c))
    BY <1>2, <1>3, <1>4, AnsweredLoudly, StutterAdvances, NothingTold DEF HandleBinaryGAT, Inv
  <1>5. CASE Has(Key(c))
    <2>1. Renew(Key(c), BinaryExpiry(c)) /\ Key(c) \in DOMAIN store
      BY <1>5 DEF HandleBinaryGAT, Has
    <2>2. /\ CacheOK' /\ Advances /\ BuffersKept
          /\ casCounter' = NewToken /\ NewToken \in Tokens'
      BY <1>2, <2>1, RenewAdvances DEF Inv
    <2> DEFINE cas == NewToken
               p == [proc[c] EXCEPT !.cas = cas, !.at = "get"]
    <2>3. Continue(c, p)
      BY <1>5 DEF HandleBinaryGAT
    <2>4. /\ p.at = "get" /\ p.cmd = Cmd(c) /\ p.todo = proc[c].todo
          /\ p.cas = cas /\ p.buffer = proc[c].buffer
      BY <1>2 DEF Locals, Cmd
    <2>5. p \in Locals'
      <3>1. cas \in 0..casCounter'
        BY <2>2 DEF CacheOK
      <3>2. proc[c] \in Locals'
        BY <1>2, <2>2, LocalsGrow DEF Inv
      <3> HIDE DEF cas
      <3> QED BY <3>1, <3>2 DEF Locals
    <2> HIDE DEF p, cas
    <2>6. /\ proc' = [proc EXCEPT ![c] = proc'[c]] /\ proc'[c] = p /\ UNCHANGED <<pool, out>>
      BY <1>2, <2>3 DEF Continue, Inv, ProcOK
    <2>7. HasKey(c)' /\ BinaryOK(c)' /\ Holds(c)'
      BY <1>2, <2>2, <2>4, <2>6 DEF HasKey, BinaryOK, Holds, At, Cmd, cas
    <2>8. LocalsOK(c)'
      BY <1>2, <2>7 DEF LocalsOK
    <2>9. /\ UNCHANGED <<pool, client>> /\ out' \in [Conns -> BOOLEAN]
          /\ wire' \in [Conns -> Seq(Items)] /\ buf' \in [Conns -> Seq(Items)]
      BY <1>3, <2>6 DEF NothingRead, Inv, StreamsOK
    <2> QED BY <1>2, <1>3, <2>2, <2>4, <2>5, <2>6, <2>8, <2>9, ContinueKeeps, KeptOthers,
               NothingTold
  <1> QED BY <1>4, <1>5

LEMMA HangUpBinaryKeeps ==
  ASSUME Inv, NEW c \in BinaryConns, HangUpBinary(c) PROVE Inv'
  <1>1. c \in Conns /\ c \notin TextConns /\ NothingRead /\ UNCHANGED <<cacheVars, told, out>>
    BY BinaryPart DEF HangUpBinary
  <1>2. CacheOK' /\ Advances /\ BuffersKept /\ TellsGood
    BY <1>1, StutterAdvances, NothingTold DEF Inv
  <1> DEFINE p == [proc[c] EXCEPT !.at = "returned", !.buffer = NoBuffer]
  <1>3. p \in Locals /\ p.at = "returned" /\ p.buffer = NoBuffer
    BY <1>1 DEF Inv, ProcOK, Locals
  <1>4. proc' = [proc EXCEPT ![c] = p]
    BY DEF HangUpBinary
  <1> HIDE DEF p
  <1>5. proc' = [proc EXCEPT ![c] = proc'[c]] /\ proc'[c] = p
    BY <1>1, <1>4 DEF Inv, ProcOK
  <1>6. LocalsOK(c)'
    BY <1>1, <1>3, <1>5 DEF LocalsOK, HasKey, BinaryOK, Holds, At
  <1>7. p \in Locals'
    BY <1>2, <1>3, LocalsGrow DEF Inv
  <1>8. pool' \subseteq pool \cup ({proc[c].buffer} \ {NoBuffer})
    BY DEF HangUpBinary
  <1>9. StreamsOK'
    BY <1>1 DEF NothingRead, Inv, StreamsOK
  <1> QED BY <1>1, <1>2, <1>3, <1>5, <1>6, <1>7, <1>8, <1>9, StepKeeps DEF BuffersKept, TellsGood

LEMMA ReadBodyKeeps ==
  ASSUME Inv, NEW c \in BinaryConns, ReadBody(c) PROVE Inv'
  <1>1. /\ c \in Conns /\ c \notin TextConns /\ proc[c].at = "data"
        /\ Consume(c) /\ UNCHANGED <<store, casCounter, issued, client, told>>
        /\ mem' = [mem EXCEPT ![proc[c].buffer] = Cmd(c).value]
    BY BinaryPart DEF ReadBody, At
  <1>2. /\ Cmd(c) \in Commands /\ proc[c] \in Locals /\ LocalsOK(c)
        /\ wire' \in [Conns -> Seq(Items)] /\ buf' \in [Conns -> Seq(Items)]
    BY <1>1, Busy, ConsumeKeeps DEF Inv
  <1>3. /\ proc[c].buffer \in Buffers /\ Cmd(c).value \in Value /\ proc[c].todo # <<>>
    BY <1>1, <1>2, CommandType DEF LocalsOK, BinaryOK, HasKey, At
  <1> DEFINE b == proc[c].buffer
             v == Cmd(c).value
  <1>4. b \in Buffers /\ v \in Value /\ mem' = [mem EXCEPT ![b] = v]
    BY <1>1, <1>3
  <1> HIDE DEF b, v
  <1>5. /\ CacheOK' /\ Advances
        /\ mem'[b] = v /\ \A a \in Buffers \ {b} : mem'[a] = mem[a]
    BY <1>1, <1>4, FillAdvances DEF Inv
  <1>6. OthersKept(c) /\ TellsGood
    BY <1>1, <1>5, NothingTold DEF OthersKept, b
  <1>7. CASE Answer(c)
    <2> DEFINE cmd == Cmd(c)
    <2>1. cmd \in Commands \cup {NoCommand} /\ Finish(c, cmd, 1)
      BY <1>2, <1>7 DEF Answer
    <2> HIDE DEF cmd
    <2> QED BY <1>1, <1>2, <1>5, <1>6, <2>1, FinishKeeps
  <1>8. CASE Goto(c, "call")
    <2> DEFINE p == [proc[c] EXCEPT !.at = "call"]
    <2>1. Continue(c, p) /\ p \in Locals
      BY <1>2, <1>8 DEF Goto, Locals
    <2>2. /\ p.at = "call" /\ p.cmd = Cmd(c) /\ p.todo = proc[c].todo
          /\ p.buffer = proc[c].buffer
      BY <1>2 DEF Locals, Cmd
    <2> HIDE DEF p
    <2>3. /\ proc' = [proc EXCEPT ![c] = proc'[c]] /\ proc'[c] = p /\ UNCHANGED <<pool, out>>
      BY <1>1, <2>1 DEF Continue, Inv, ProcOK
    <2>4. HasKey(c)' /\ Holds(c)'
      BY <1>2, <1>3, <2>2, <2>3 DEF HasKey, Holds, At, Cmd
    <2>5. BinaryOK(c)'
      BY <1>3, <1>5, <2>2, <2>3 DEF BinaryOK, At, Cmd, b, v, HasData
    <2>6. LocalsOK(c)' /\ p \in Locals'
      BY <1>1, <1>5, <2>1, <2>4, <2>5, LocalsGrow DEF LocalsOK, Inv
    <2>7. out' \in [Conns -> BOOLEAN]
      BY <2>3 DEF Inv, StreamsOK
    <2> QED BY <1>1, <1>2, <1>5, <1>6, <2>2, <2>3, <2>6, <2>7, ContinueKeeps
  <1> QED BY <1>7, <1>8 DEF ReadBody

LEMMA HandleBinaryKeeps ==
  ASSUME Inv, NEW c \in BinaryConns, HandleBinary(c) PROVE Inv'
  <1>1. /\ c \in Conns /\ c \notin TextConns /\ proc[c].buffer = NoBuffer
        /\ Consume(c) /\ UNCHANGED <<store, casCounter, issued, client, told>>
    BY BinaryPart DEF HandleBinary, Inv, ProcOK, LocalsOK, BinaryOK, At
  <1> DEFINE cmd == Head(Input(c)).of
             at == IF HasData(cmd) THEN "data" ELSE "call"
             quit == [Idle EXCEPT !.cmd = cmd, !.at = "returned"]
             begun(b) == [quit EXCEPT !.at = at, !.todo = cmd.keys, !.buffer = b]
  <1>2. /\ cmd \in Commands
        /\ wire' \in [Conns -> Seq(Items)] /\ buf' \in [Conns -> Seq(Items)]
    BY <1>1, ConsumeKeeps DEF Items, Inv
  <1>3. /\ cmd.keys \in Seq(Keys) /\ cmd.keys # <<>>
        /\ cmd \in Commands \cup {NoCommand} /\ at \in {"data", "call"}
        /\ Idle \in Locals /\ Idle.at = "read" /\ Idle.buffer = NoBuffer
    BY <1>2, CommandType, IdleType DEF Inv
  <1>4. \/ Continue(c, quit) /\ UNCHANGED mem
        \/ \E b \in pool :
             /\ mem' = [mem EXCEPT ![b] = NoValue]
             /\ \/ Continue(c, quit)
                \/ Finish(c, cmd, 1)
                \/ /\ proc' = [proc EXCEPT ![c] = begun(b)]
                   /\ pool' = pool \ {b} /\ UNCHANGED out
    BY DEF HandleBinary
  <1>5. at = "data" \/ ~HasData(cmd)
    OBVIOUS
  <1> HIDE DEF cmd, at
  <1>6. quit \in Locals /\ quit.at = "returned" /\ quit.buffer = NoBuffer /\ quit.cmd = cmd
    BY <1>3 DEF Locals
  <1> HIDE DEF quit
  <1>7. CASE Continue(c, quit) /\ UNCHANGED mem
    <2>1. CacheOK' /\ Advances /\ OthersKept(c)
      BY <1>1, <1>7, StutterAdvances, KeptOthers DEF Inv, cacheVars
    <2> QED BY <1>1, <1>2, <1>6, <1>7, <2>1, Begun
  <1>8. ASSUME NEW b \in pool, mem' = [mem EXCEPT ![b] = NoValue]
        PROVE  /\ CacheOK' /\ Advances /\ OthersKept(c) /\ TellsGood
               /\ b \in Buffers /\ b # NoBuffer
               /\ \A a \in Buffers : a \notin pool => mem'[a] = mem[a]
    <2>1. b \in Buffers /\ b # NoBuffer
      BY ConnectionAssumption DEF Inv, PoolOK
    <2>2. NoValue \in Value
      BY DEF NoValue, Value
    <2>3. CacheOK' /\ Advances /\ \A a \in Buffers \ {b} : mem'[a] = mem[a]
      BY <1>1, <1>8, <2>1, <2>2, FillAdvances DEF Inv
    <2> QED BY <1>1, <2>1, <2>3, NothingTold DEF OthersKept
  <1>9. ASSUME NEW b \in pool, mem' = [mem EXCEPT ![b] = NoValue], Continue(c, quit)
        PROVE  Inv'
    BY <1>1, <1>2, <1>6, <1>8, <1>9, Begun
  <1>10. ASSUME NEW b \in pool, mem' = [mem EXCEPT ![b] = NoValue], Finish(c, cmd, 1)
         PROVE  Inv'
    BY <1>1, <1>2, <1>3, <1>8, <1>10, FinishKeeps
  <1>11. ASSUME NEW b \in pool, mem' = [mem EXCEPT ![b] = NoValue],
                proc' = [proc EXCEPT ![c] = begun(b)], pool' = pool \ {b}, UNCHANGED out
         PROVE  Inv'
    <2>1. /\ CacheOK' /\ Advances /\ OthersKept(c) /\ TellsGood
          /\ b \in Buffers /\ b # NoBuffer
      BY <1>8, <1>11
    <2> DEFINE p == begun(b)
    <2>2. /\ p \in Locals /\ p.at = at /\ p.cmd = cmd /\ p.todo = cmd.keys /\ p.buffer = b
      BY <1>3, <1>6, <2>1 DEF Locals
    <2> HIDE DEF p, begun
    <2>3. proc' = [proc EXCEPT ![c] = proc'[c]] /\ proc'[c] = p
      BY <1>1, <1>11 DEF Inv, ProcOK, p
    <2>4. HasKey(c)' /\ Holds(c)'
      BY <1>2, <1>3, <2>2, <2>3 DEF HasKey, Holds, At, Cmd
    <2>5. BinaryOK(c)'
      BY <1>3, <1>5, <2>1, <2>2, <2>3 DEF BinaryOK, At, Cmd, HasData
    <2>6. LocalsOK(c)' /\ p \in Locals'
      BY <1>1, <2>1, <2>2, <2>4, <2>5, LocalsGrow DEF LocalsOK, Inv
    <2>7. StreamsOK'
      BY <1>1, <1>2, <1>11 DEF Inv, StreamsOK
    <2>8. /\ pool' \subseteq pool \cup ({proc[c].buffer} \ {NoBuffer})
          /\ proc'[c].buffer \notin pool' /\ proc'[c].buffer \in pool
      BY <1>11, <2>2, <2>3
    <2> QED BY <1>1, <2>1, <2>3, <2>6, <2>7, <2>8, StepKeeps DEF OthersKept, TellsGood
  <1> QED BY <1>4, <1>7, <1>9, <1>10, <1>11

LEMMA BinaryStepKeeps ==
  ASSUME Inv, NEW c \in BinaryConns, BinaryStep(c) PROVE Inv'
  BY HandleBinaryKeeps, ReadBodyKeeps, HangUpBinaryKeeps, BinaryStorageKeeps,
     BinaryAppendKeeps, BinaryIncrDecrKeeps, BinaryDeleteKeeps, BinaryTouchKeeps,
     BinaryFlushKeeps, BinaryGetKeeps, BinaryGATKeeps, WriteResponseKeeps
  DEF BinaryStep

-----------------------------------------------------------------------------
(* Clients, entries that are lost, and the whole *)

LEMMA ClientKeeps ==
  ASSUME Inv, NEW c \in Conns, Send(c) \/ SendData(c) \/ Leave(c) PROVE Inv'
  <1>1. /\ UNCHANGED <<cacheVars, pool, buf, out, proc, told>>
    BY DEF Send, SendData, Leave
  <1>2. CacheOK' /\ Advances /\ BuffersKept
    BY <1>1, StutterAdvances DEF Inv
  <1>3. /\ client[c] \in [plan : Seq(Commands), owes : Commands \cup {NoCommand},
                          state : {"new", "open", "left"}]
        /\ wire[c] \in Seq(Items)
    BY DEF Inv, StreamsOK
  <1>4. CASE Send(c)
    <2> DEFINE cmd == Head(client[c].plan)
    <2>1. cmd \in Commands /\ Tail(client[c].plan) \in Seq(Commands)
      BY <1>3, <1>4 DEF Send
    <2>2. Item("line", cmd) \in Items
      BY <2>1 DEF Item, Items
    <2>3. wire' \in [Conns -> Seq(Items)]
      BY <1>3, <1>4, <2>2 DEF Send, Inv, StreamsOK
    <2>4. client' \in [Conns -> [plan : Seq(Commands), owes : Commands \cup {NoCommand},
                                 state : {"new", "open", "left"}]]
      BY <1>4, <2>1 DEF Send, Inv, StreamsOK
    <2>5. StreamsOK'
      BY <1>1, <2>3, <2>4 DEF Inv, StreamsOK
    <2> QED BY <1>1, <1>2, <2>5, AllAside
  <1>5. CASE SendData(c)
    <2>1. Item("data", client[c].owes) \in Items
      BY <1>3, <1>5 DEF SendData, Item, Items
    <2>2. wire' \in [Conns -> Seq(Items)]
      BY <1>3, <1>5, <2>1 DEF SendData, Inv, StreamsOK
    <2>3. client' \in [Conns -> [plan : Seq(Commands), owes : Commands \cup {NoCommand},
                                 state : {"new", "open", "left"}]]
      BY <1>3, <1>5 DEF SendData, Inv, StreamsOK
    <2>4. StreamsOK'
      BY <1>1, <2>2, <2>3 DEF Inv, StreamsOK
    <2> QED BY <1>1, <1>2, <2>4, AllAside
  <1>6. CASE Leave(c)
    <2>1. StreamsOK'
      BY <1>1, <1>3, <1>6 DEF Leave, Inv, StreamsOK
    <2> QED BY <1>1, <1>2, <2>1, AllAside
  <1> QED BY <1>4, <1>5, <1>6

LEMMA LoseKeeps ==
  ASSUME Inv, NEW k \in Keys, Lose(k) PROVE Inv'
  <1>1. CacheOK' /\ Advances /\ BuffersKept
    BY DropAdvances DEF Lose, Inv
  <1>2. StreamsOK'
    BY DEF Lose, Inv, StreamsOK
  <1> QED BY <1>1, <1>2, AllAside DEF Lose

LEMMA InitInv == Init => Inv
  <1> SUFFICES ASSUME Init PROVE Inv
    OBVIOUS
  <1>1. PICK session \in Sessions :
          client = [c \in Conns |-> [plan |-> session[c], owes |-> NoCommand, state |-> "new"]]
    BY DEF Init
  <1>2. session \in [Conns -> Seq(Commands)]
    BY ConnectionAssumption
  <1>3. CacheOK
    BY DEF Init, CacheOK, Slices, Tokens, NoValue, Value
  <1>4. ProcOK
    <2>1. Idle \in Locals /\ Idle.at = "read" /\ Idle.buffer = NoBuffer
      BY <1>3, IdleType
    <2>2. proc = [c \in Conns |-> Idle]
      BY DEF Init
    <2> QED BY <2>1, <2>2
            DEF ProcOK, LocalsOK, HasKey, TextOK, BinaryOK, Holds, At, TextConns
  <1>5. PoolOK
    BY DEF Init, PoolOK, Idle
  <1>6. StreamsOK
    <2>1. client \in [Conns -> [plan : Seq(Commands), owes : Commands \cup {NoCommand},
                                state : {"new", "open", "left"}]]
      BY <1>1, <1>2
    <2>2. <<>> \in Seq(Items)
      OBVIOUS
    <2> QED BY <2>1, <2>2 DEF Init, StreamsOK
  <1>7. ToldOK
    BY DEF Init, ToldOK
  <1> QED BY <1>3, <1>4, <1>5, <1>6, <1>7 DEF Inv

LEMMA NextInv == Inv /\ [Next]_vars => Inv'
  <1> SUFFICES ASSUME Inv, [Next]_vars PROVE Inv'
    OBVIOUS
  <1>1. CASE UNCHANGED vars
    <2>1. CacheOK' /\ Advances /\ BuffersKept
      BY <1>1, StutterAdvances DEF Inv, vars, cacheVars
    <2>2. StreamsOK' /\ UNCHANGED <<pool, proc, told>>
      BY <1>1 DEF Inv, StreamsOK, vars
    <2> QED BY <2>1, <2>2, AllAside
  <1>2. CASE Next
    BY <1>2, ClientKeeps, TextStepKeeps, BinaryStepKeeps, LoseKeeps DEF Next
  <1> QED BY <1>1, <1>2

LEMMA SpecInv == Spec => []Inv
  BY InitInv, NextInv, PTL DEF Spec

-----------------------------------------------------------------------------
(* Clients and handlers in step *)

\* Only a text connection reads lines out of what is none.
ItemsOf(c) ==
  [part : {"line", "data"} \cup (IF c \in TextConns THEN {"stray"} ELSE {}),
   of : CommandsOf(c)]
Working == {"call", "touch", "get", "write"}

\* All that has been sent on the connection and not been consumed.
Stream(c) == buf[c] \o wire[c]

\* The command whose data come next after the first i items of the stream s, where
\* its client still has to send the data of the command owes.
Ahead(s, owes, i) ==
  IF i = Len(s) THEN owes
  ELSE IF s[i + 1].part = "data" THEN s[i + 1].of ELSE NoCommand

\* ... and the command whose data should come.
Asks(item) ==
  IF item.part = "line" /\ HasData(item.of) THEN item.of ELSE NoCommand

\* What clients have sent is in order, and so are, on a connection that has not
\* gone astray, the lines read out of a data block.
Paired(s, owes, strays) ==
  \A i \in 1..Len(s) : strays \/ s[i].part # "stray" => Ahead(s, owes, i) = Asks(s[i])

DataAhead(c) == Ahead(Stream(c), client[c].owes, 0)
InOrder(c) == Paired(Stream(c), client[c].owes, c \notin astray)

\* Nothing will come any more.
Over(c) == Stream(c) = <<>> /\ client[c].state = "left"

\* What one connection carries are commands of its protocol.
Spoken(c) ==
  /\ client[c].plan \in Seq(CommandsOf(c))
  /\ client[c].owes \in CommandsOf(c) \cup {NoCommand}
  /\ wire[c] \in Seq(ItemsOf(c)) /\ buf[c] \in Seq(ItemsOf(c))
  /\ Cmd(c) \in CommandsOf(c) \cup {NoCommand}
  /\ c \in astray => c \in TextConns

\* The lines whose data a text handler does not read.
Skips(cmd) == cmd.form = "short" \/ (cmd.form = "malformed" /\ cmd.op \notin Appends)

\* A handler that waits for the data of a line has them before it, as what clients
\* send is in order.  On a connection that has not gone astray nobody else has data
\* before it, but a text handler that has refused the line, or when nothing will
\* come any more.
Synced(c) ==
  /\ InOrder(c)
  /\ At(c, "data") => DataAhead(c) = Cmd(c) /\ HasData(Cmd(c))
  /\ At(c, "bytes") => c \in astray
  /\ proc[c].at \in Working /\ c \notin astray => DataAhead(c) = NoCommand \/ Over(c)
  /\ At(c, "read") /\ c \notin astray =>
       \/ DataAhead(c) = NoCommand \/ Over(c)
       \/ c \in TextConns /\ DataAhead(c) = Cmd(c) /\ Skips(Cmd(c))

\* What the last command has been answered with.
AnswersDue(c, cmd, n) ==
  /\ n <= 1
  /\ Solicits(cmd) => n = 1
  /\ cmd.noreply /\ cmd.form = "ok" /\ n = 1 =>
       \/ cmd.op \in Counts
       \/ Over(c) /\ (client[c].owes = cmd \/ c \in astray)
Replied(c) == At(c, "read") /\ Cmd(c) # NoCommand => AnswersDue(c, Cmd(c), proc[c].answers)

\* What stays behind in the writer.
Flushed(c) ==
  /\ out[c] /\ At(c, "read") /\ Stream(c) = <<>> => Cmd(c).op = "blank"
  /\ out[c] /\ At(c, "returned") =>
       \/ Cmd(c).op \in {"blank", "QUIT", "opQuit", "magic"}
       \/ HasData(Cmd(c)) /\ client[c].owes = Cmd(c) /\ client[c].state = "left"

ConnOK(c) == Spoken(c) /\ Synced(c) /\ Replied(c) /\ Flushed(c)

-----------------------------------------------------------------------------
(* Streams *)

LEMMA StreamTail ==
  ASSUME NEW S, NEW b \in Seq(S), NEW w \in Seq(S)
  PROVE  /\ b # <<>> => /\ b \o w # <<>> /\ Head(b \o w) = Head(b)
                        /\ Tail(b) \o w = Tail(b \o w)
         /\ b = <<>> /\ w # <<>> => /\ b \o w # <<>> /\ Head(b \o w) = Head(w)
                                    /\ Tail(w) \o <<>> = Tail(b \o w)
         /\ b \o w = <<>> <=> b = <<>> /\ w = <<>>
  <1>1. b \o w = <<>> <=> b = <<>> /\ w = <<>>
    BY ConcatEqualIffEmpty
  <1>2. ASSUME b # <<>>
        PROVE  /\ b \o w # <<>> /\ Head(b \o w) = Head(b) /\ Tail(b) \o w = Tail(b \o w)
    <2>1. /\ b \o w \in Seq(S) /\ b \o w # <<>> /\ Len(b) \in Nat /\ Len(w) \in Nat
          /\ Len(b) # 0
      BY <1>2, ConcatProperties, ConcatEqualIffEmpty
    <2>2. /\ Tail(b) \in Seq(S) /\ Len(Tail(b)) = Len(b) - 1
          /\ \A i \in 1..(Len(b) - 1) : Tail(b)[i] = b[i + 1]
      BY <1>2, HeadTailProperties
    <2>3. Head(b \o w) = Head(b)
      <3>1. (b \o w)[1] = b[1]
        BY <2>1, ConcatProperties
      <3>2. Head(b) = b[1] /\ Head(b \o w) = (b \o w)[1]
        BY <2>1
      <3> QED BY <3>1, <3>2
    <2>4. /\ Tail(b) \o w \in Seq(S) /\ Len(Tail(b) \o w) = Len(b) + Len(w) - 1
          /\ Tail(b \o w) \in Seq(S) /\ Len(Tail(b \o w)) = Len(b) + Len(w) - 1
      BY <2>1, <2>2, ConcatProperties, HeadTailProperties
    <2>5. ASSUME NEW i \in 1..(Len(b) + Len(w) - 1)
          PROVE  (Tail(b) \o w)[i] = Tail(b \o w)[i]
      <3>1. Tail(b \o w)[i] = (b \o w)[i + 1]
        BY <2>1, <2>4, HeadTailProperties
      <3>2. (b \o w)[i + 1] = IF i + 1 <= Len(b) THEN b[i + 1] ELSE w[i + 1 - Len(b)]
        BY <2>1, ConcatProperties
      <3>3. (Tail(b) \o w)[i] = IF i <= Len(b) - 1 THEN Tail(b)[i] ELSE w[i - (Len(b) - 1)]
        BY <2>1, <2>2, ConcatProperties
      <3>4. i - (Len(b) - 1) = i + 1 - Len(b)
        BY <2>1
      <3> QED BY <2>1, <2>2, <3>1, <3>2, <3>3, <3>4
    <2>6. Tail(b) \o w = Tail(b \o w)
      BY <2>4, <2>5, SeqEqual
    <2> QED BY <2>1, <2>3, <2>6
  <1>3. ASSUME b = <<>>, w # <<>>
        PROVE  /\ b \o w # <<>> /\ Head(b \o w) = Head(w) /\ Tail(w) \o <<>> = Tail(b \o w)
    <2>1. b \o w = w /\ Tail(w) \in Seq(S)
      BY <1>3, ConcatEmptySeq, HeadTailProperties
    <2>2. Tail(w) \o <<>> = Tail(w)
      BY <2>1, ConcatEmptySeq
    <2> QED BY <1>3, <2>1, <2>2
  <1> QED BY <1>1, <1>2, <1>3

LEMMA PairedTail ==
  ASSUME NEW S, NEW s \in Seq(S), s # <<>>, NEW owes, NEW strays, Paired(s, owes, strays)
  PROVE  /\ Paired(Tail(s), owes, strays)
         /\ strays \/ Head(s).part # "stray" => Ahead(Tail(s), owes, 0) = Asks(Head(s))
  <1>1. PICK n \in Nat : n = Len(s) - 1 /\ n + 1 = Len(s)
    BY EmptySeq
  <1>2. PICK t : t = Tail(s) /\ Len(t) = n /\ \A i \in 1..n : t[i] = s[i + 1]
    <2>1. Len(Tail(s)) = n /\ \A i \in 1..n : Tail(s)[i] = s[i + 1]
      BY <1>1, HeadTailProperties
    <2> QED BY <2>1
  <1>3. ASSUME NEW i \in 0..n
        PROVE  Ahead(t, owes, i) = Ahead(s, owes, i + 1)
    <2>1. CASE i = n
      BY <1>1, <1>2, <2>1 DEF Ahead
    <2>2. CASE i # n
      <3>1. i + 1 \in 1..n /\ t[i + 1] = s[i + 2] /\ i + 1 # n + 1 /\ (i + 1) + 1 = i + 2
        BY <1>2, <2>2
      <3> QED BY <1>1, <1>2, <2>2, <3>1 DEF Ahead
    <2> QED BY <2>1, <2>2
  <1>4. ASSUME NEW i \in 1..n, strays \/ t[i].part # "stray"
        PROVE  Ahead(t, owes, i) = Asks(t[i])
    <2>1. t[i] = s[i + 1] /\ i + 1 \in 1..Len(s) /\ i \in 0..n
      BY <1>1, <1>2
    <2>2. Ahead(s, owes, i + 1) = Asks(s[i + 1])
      BY <1>4, <2>1 DEF Paired
    <2> QED BY <1>3, <2>1, <2>2
  <1>5. strays \/ s[1].part # "stray" => Ahead(t, owes, 0) = Asks(s[1])
    <2>1. strays \/ s[1].part # "stray" => Ahead(s, owes, 1) = Asks(s[1])
      BY <1>1 DEF Paired
    <2> QED BY <1>3, <2>1
  <1> QED BY <1>1, <1>2, <1>4, <1>5 DEF Paired

\* A client that adds what it owes, or something else when it owes nothing.
LEMMA PairedAppend ==
  ASSUME NEW S, NEW s \in Seq(S), NEW owes, NEW x \in S, NEW strays,
         Paired(s, owes, strays), owes = IF x.part = "data" THEN x.of ELSE NoCommand
  PROVE  /\ Paired(Append(s, x), Asks(x), strays)
         /\ Ahead(Append(s, x), Asks(x), 0) = Ahead(s, owes, 0)
  <1>1. PICK n \in Nat : n = Len(s)
    BY LenProperties
  <1>2. PICK t : /\ t = Append(s, x) /\ Len(t) = n + 1 /\ t[n + 1] = x
                 /\ \A i \in 1..n : t[i] = s[i]
    <2>1. /\ Len(Append(s, x)) = n + 1 /\ Append(s, x)[n + 1] = x
          /\ \A i \in 1..n : Append(s, x)[i] = s[i]
      BY <1>1, AppendProperties
    <2> QED BY <2>1
  <1>3. ASSUME NEW i \in 0..n
        PROVE  Ahead(t, Asks(x), i) = Ahead(s, owes, i)
    <2>1. CASE i = n
      BY <1>1, <1>2, <2>1 DEF Ahead
    <2>2. CASE i # n
      <3>1. i + 1 \in 1..n /\ t[i + 1] = s[i + 1] /\ i # n + 1
        BY <1>2, <2>2
      <3> QED BY <1>1, <1>2, <2>2, <3>1 DEF Ahead
    <2> QED BY <2>1, <2>2
  <1>4. ASSUME NEW i \in 1..(n + 1), strays \/ t[i].part # "stray"
        PROVE  Ahead(t, Asks(x), i) = Asks(t[i])
    <2>1. CASE i = n + 1
      BY <1>2, <2>1 DEF Ahead
    <2>2. CASE i # n + 1
      <3>1. i \in 1..n /\ i \in 0..n /\ t[i] = s[i]
        BY <1>2, <2>2
      <3>2. Ahead(s, owes, i) = Asks(s[i])
        BY <1>1, <1>4, <3>1 DEF Paired
      <3> QED BY <1>3, <3>1, <3>2
    <2> QED BY <2>1, <2>2
  <1> QED BY <1>2, <1>3, <1>4 DEF Paired

\* Lines that are put back before what follows.
LEMMA PairedPrefix ==
  ASSUME NEW S, NEW r \in Seq(S), NEW t \in Seq(S), NEW owes, NEW strays,
         Paired(t, owes, strays), \A i \in 1..Len(r) : r[i].part = "stray",
         strays /\ r # <<>> => Ahead(t, owes, 0) = NoCommand
  PROVE  /\ Paired(r \o t, owes, strays)
         /\ Ahead(r \o t, owes, 0) = IF r = <<>> THEN Ahead(t, owes, 0) ELSE NoCommand
  <1>1. PICK m \in Nat, n \in Nat : m = Len(r) /\ n = Len(t) /\ (r # <<>> => m # 0)
    BY LenProperties, EmptySeq
  <1>2. PICK s : /\ s = r \o t /\ Len(s) = m + n
                 /\ \A i \in 1..(m + n) : s[i] = IF i <= m THEN r[i] ELSE t[i - m]
    <2>1. /\ Len(r \o t) = m + n
          /\ \A i \in 1..(m + n) : (r \o t)[i] = IF i <= m THEN r[i] ELSE t[i - m]
      BY <1>1, ConcatProperties
    <2> QED BY <2>1
  <1>3. ASSUME NEW i \in 0..n
        PROVE  Ahead(s, owes, m + i) = Ahead(t, owes, i)
    <2>1. CASE i = n
      BY <1>1, <1>2, <2>1 DEF Ahead
    <2>2. CASE i # n
      <3>1. /\ (m + i) + 1 \in 1..(m + n) /\ ~((m + i) + 1 <= m)
            /\ ((m + i) + 1) - m = i + 1 /\ m + i # m + n
        BY <2>2
      <3>2. s[(m + i) + 1] = t[i + 1]
        BY <1>2, <3>1
      <3> QED BY <1>1, <1>2, <2>2, <3>1, <3>2 DEF Ahead
    <2> QED BY <2>1, <2>2
  <1>4. ASSUME NEW i \in 0..m, i # m
        PROVE  Ahead(s, owes, i) = NoCommand
    <2>1. i + 1 \in 1..(m + n) /\ i + 1 <= m /\ i + 1 \in 1..m /\ i # m + n
      BY <1>4
    <2>2. s[i + 1] = r[i + 1] /\ r[i + 1].part = "stray"
      BY <1>1, <1>2, <2>1
    <2> QED BY <1>2, <2>1, <2>2 DEF Ahead
  <1>5. ASSUME NEW i \in 1..(m + n), strays \/ s[i].part # "stray"
        PROVE  Ahead(s, owes, i) = Asks(s[i])
    <2>1. CASE i <= m
      <3>1. i \in 1..m /\ s[i] = r[i] /\ r[i].part = "stray"
        BY <1>1, <1>2, <2>1
      <3>2. Asks(s[i]) = NoCommand /\ strays
        BY <1>5, <3>1 DEF Asks
      <3>3. CASE i = m
        <4>1. r # <<>>
          BY <1>1, <3>1, EmptySeq
        <4>2. Ahead(s, owes, m + 0) = Ahead(t, owes, 0)
          BY <1>3
        <4> QED BY <3>2, <3>3, <4>1, <4>2
      <3> QED BY <1>4, <3>1, <3>2, <3>3
    <2>2. CASE ~(i <= m)
      <3>1. PICK j \in 1..n : i = m + j /\ j = i - m
        <4>1. i - m \in 1..n /\ i = m + (i - m)
          BY <2>2
        <4> QED BY <4>1
      <3>2. s[i] = t[j] /\ Ahead(s, owes, i) = Ahead(t, owes, j)
        BY <1>2, <1>3, <2>2, <3>1
      <3>3. Ahead(t, owes, j) = Asks(t[j])
        BY <1>1, <1>5, <3>1, <3>2 DEF Paired
      <3> QED BY <3>2, <3>3
    <2> QED BY <2>1, <2>2
  <1>6. Ahead(s, owes, 0) = IF r = <<>> THEN Ahead(t, owes, 0) ELSE NoCommand
    <2>1. CASE r = <<>>
      BY <1>2, <2>1, ConcatEmptySeq
    <2>2. CASE r # <<>>
      BY <1>1, <1>4, <2>2
    <2> QED BY <2>1, <2>2
  <1> QED BY <1>2, <1>5, <1>6 DEF Paired

\* What a client sends when.
LEMMA Taken ==
  ASSUME Inv, NEW c \in Conns, ConnOK(c), NEW rest \in Seq(ItemsOf(c)),
         \A i \in 1..Len(rest) : rest[i].part = "stray",
         TakeLeaving(c, rest), UNCHANGED client
  PROVE  \E item, next :
         /\ item \in ItemsOf(c) /\ item = Head(Input(c)) /\ Stream(c) # <<>>
         /\ DataAhead(c) = (IF item.part = "data" THEN item.of ELSE NoCommand)
         /\ wire'[c] \in Seq(ItemsOf(c)) /\ buf'[c] \in Seq(ItemsOf(c))
         /\ c \notin astray \/ item.part # "stray" => next = Asks(item)
         /\ DataAhead(c)' = IF rest = <<>> THEN next ELSE NoCommand
         /\ Paired(Stream(c)', client'[c].owes, FALSE)
         /\ c \notin astray /\ (rest = <<>> \/ next = NoCommand) =>
              Paired(Stream(c)', client'[c].owes, TRUE)
  <1>1. PICK b, w : /\ b = buf[c] /\ w = wire[c]
                    /\ b \in Seq(ItemsOf(c)) /\ w \in Seq(ItemsOf(c))
    BY DEF ConnOK, Spoken
  <1>2. b # <<>> \/ w # <<>>
    BY <1>1 DEF TakeLeaving, Input
  <1>3. PICK s \in Seq(ItemsOf(c)) : s = Stream(c) /\ s = b \o w
    BY <1>1, ConcatProperties DEF Stream
  <1>4. /\ s # <<>> /\ Head(Input(c)) = Head(s)
        /\ b # <<>> => Tail(b) \o w = Tail(s)
        /\ b = <<>> => Tail(w) \o <<>> = Tail(s)
    <2>1. Input(c) = IF b # <<>> THEN b ELSE w
      BY <1>1 DEF Input
    <2>2. CASE b # <<>>
      <3>1. b \o w # <<>> /\ Head(b \o w) = Head(b) /\ Tail(b) \o w = Tail(b \o w)
        BY <1>1, <2>2, StreamTail
      <3> QED BY <1>3, <2>1, <2>2, <3>1
    <2>3. CASE b = <<>>
      <3>1. b \o w # <<>> /\ Head(b \o w) = Head(w) /\ Tail(w) \o <<>> = Tail(b \o w)
        BY <1>1, <1>2, <2>3, StreamTail
      <3> QED BY <1>3, <2>1, <2>3, <3>1
    <2> QED BY <2>2, <2>3
  <1>5. /\ buf'[c] \in Seq(ItemsOf(c)) /\ wire'[c] \in Seq(ItemsOf(c))
        /\ Stream(c)' = rest \o Tail(s)
    <2> DEFINE S == ItemsOf(c)
    <2>1. b \in Seq(S) /\ w \in Seq(S) /\ rest \in Seq(S) /\ <<>> \in Seq(S)
      BY <1>1, EmptySeq
    <2>2. CASE b # <<>>
      <3>1. buf'[c] = rest \o Tail(b) /\ wire'[c] = w
        BY <1>1, <2>2 DEF TakeLeaving, Input, Inv, StreamsOK
      <3> HIDE DEF S
      <3>2. Tail(b) \in Seq(S)
        BY <2>1, <2>2, HeadTailProperties
      <3>3. /\ rest \o Tail(b) \in Seq(S)
            /\ (rest \o Tail(b)) \o w = rest \o (Tail(b) \o w)
        BY <2>1, <3>2, ConcatProperties, ConcatAssociative
      <3> QED BY <1>4, <2>1, <2>2, <3>1, <3>3 DEF Stream, S
    <2>3. CASE b = <<>>
      <3>1. buf'[c] = rest \o Tail(w) /\ wire'[c] = <<>>
        BY <1>1, <2>3 DEF TakeLeaving, Input, Inv, StreamsOK
      <3> HIDE DEF S
      <3>2. Tail(w) \in Seq(S)
        BY <1>2, <2>1, <2>3, HeadTailProperties
      <3>3. /\ rest \o Tail(w) \in Seq(S)
            /\ (rest \o Tail(w)) \o <<>> = rest \o (Tail(w) \o <<>>)
        BY <2>1, <3>2, ConcatProperties, ConcatAssociative
      <3> QED BY <1>4, <2>1, <2>3, <3>1, <3>3 DEF Stream, S
    <2> QED BY <2>2, <2>3
  <1>6. PICK owes : owes = client[c].owes /\ Paired(s, owes, c \notin astray)
    BY <1>3 DEF ConnOK, Synced, InOrder
  <1>7. Head(s) = s[1] /\ Len(s) # 0 /\ s[1] \in ItemsOf(c) /\ Tail(s) \in Seq(ItemsOf(c))
    <2>1. /\ Head(s) \in ItemsOf(c) /\ Len(s) \in Nat \ {0}
          /\ Tail(s) \in Seq(ItemsOf(c))
      BY <1>4, HeadTailProperties, EmptySeq
    <2> QED BY <2>1
  <1>8. DataAhead(c) = IF s[1].part = "data" THEN s[1].of ELSE NoCommand
    BY <1>3, <1>7 DEF DataAhead, Ahead
  <1>9. PICK t, next : /\ t = Tail(s) /\ t \in Seq(ItemsOf(c)) /\ next = Ahead(t, owes, 0)
    BY <1>7
  <1>10. /\ Paired(t, owes, FALSE)
         /\ c \notin astray => Paired(t, owes, TRUE)
         /\ c \notin astray \/ Head(s).part # "stray" => next = Asks(Head(s))
    <2>1. Paired(s, owes, FALSE)
      BY <1>6 DEF Paired
    <2>2. /\ Paired(t, owes, FALSE)
          /\ Head(s).part # "stray" => next = Asks(Head(s))
      BY <1>4, <1>9, <2>1, PairedTail
    <2>3. ASSUME c \notin astray
          PROVE  Paired(t, owes, TRUE) /\ next = Asks(Head(s))
      <3>1. Paired(s, owes, TRUE)
        BY <1>6, <2>3 DEF Paired
      <3> QED BY <1>4, <1>9, <3>1, PairedTail
    <2> QED BY <2>2, <2>3
  <1>11. /\ Paired(rest \o t, owes, FALSE)
         /\ Ahead(rest \o t, owes, 0) = IF rest = <<>> THEN next ELSE NoCommand
         /\ c \notin astray /\ (rest = <<>> \/ next = NoCommand) =>
              Paired(rest \o t, owes, TRUE)
    <2> DEFINE S == ItemsOf(c)
    <2>1. rest \in Seq(S) /\ t \in Seq(S)
      BY <1>9
    <2> HIDE DEF S
    <2>2. /\ Paired(rest \o t, owes, FALSE)
          /\ Ahead(rest \o t, owes, 0) = IF rest = <<>> THEN next ELSE NoCommand
      BY <1>9, <1>10, <2>1, PairedPrefix
    <2>3. ASSUME c \notin astray, rest = <<>> \/ next = NoCommand
          PROVE  Paired(rest \o t, owes, TRUE)
      BY <1>9, <1>10, <2>1, <2>3, PairedPrefix
    <2> QED BY <2>2, <2>3
  <1> QED BY <1>3, <1>4, <1>5, <1>6, <1>7, <1>8, <1>9, <1>10, <1>11 DEF DataAhead

\* Nothing is put back when a client's line, message or data block is taken.
LEMMA Consumed ==
  ASSUME Inv, NEW c \in Conns, ConnOK(c), Consume(c), UNCHANGED client
  PROVE  LET item == Head(Input(c)) IN
         /\ item \in ItemsOf(c) /\ Stream(c) # <<>>
         /\ DataAhead(c) = (IF item.part = "data" THEN item.of ELSE NoCommand)
         /\ wire'[c] \in Seq(ItemsOf(c)) /\ buf'[c] \in Seq(ItemsOf(c))
         /\ InOrder(c)' /\ astray' = astray
         /\ c \notin astray \/ item.part # "stray" => DataAhead(c)' = Asks(item)
  <1>1. /\ <<>> \in Seq(ItemsOf(c)) /\ TakeLeaving(c, <<>>) /\ astray' = astray
        /\ \A i \in 1..Len(<<>>) : <<>>[i].part = "stray"
    BY EmptySeq DEF Consume
  <1>2. PICK item, next :
         /\ item \in ItemsOf(c) /\ item = Head(Input(c)) /\ Stream(c) # <<>>
         /\ DataAhead(c) = (IF item.part = "data" THEN item.of ELSE NoCommand)
         /\ wire'[c] \in Seq(ItemsOf(c)) /\ buf'[c] \in Seq(ItemsOf(c))
         /\ c \notin astray \/ item.part # "stray" => next = Asks(item)
         /\ DataAhead(c)' = next
         /\ Paired(Stream(c)', client'[c].owes, FALSE)
         /\ c \notin astray => Paired(Stream(c)', client'[c].owes, TRUE)
    BY <1>1, Taken
  <1>3. InOrder(c)'
    BY <1>1, <1>2 DEF InOrder, Paired
  <1> QED BY <1>1, <1>2, <1>3

\* The first of the items that have arrived is the first of all under way.
LEMMA FirstItem ==
  ASSUME NEW c \in Conns, ConnOK(c), ~NoInput(c)
  PROVE  LET item == Head(Input(c)) IN
         /\ item \in ItemsOf(c) /\ Stream(c) # <<>>
         /\ DataAhead(c) = IF item.part = "data" THEN item.of ELSE NoCommand
  <1>1. PICK b, w : /\ b = buf[c] /\ w = wire[c]
                    /\ b \in Seq(ItemsOf(c)) /\ w \in Seq(ItemsOf(c))
    BY DEF ConnOK, Spoken
  <1>2. PICK s \in Seq(ItemsOf(c)) : s = Stream(c) /\ s = b \o w
    BY <1>1, ConcatProperties DEF Stream
  <1>3. s # <<>> /\ Head(Input(c)) = Head(s)
    <2>1. CASE b # <<>>
      <3>1. b \o w # <<>> /\ Head(b \o w) = Head(b)
        BY <1>1, <2>1, StreamTail
      <3> QED BY <1>1, <1>2, <2>1, <3>1 DEF Input
    <2>2. CASE b = <<>>
      <3>1. w # <<>>
        BY <1>1, <2>2 DEF NoInput, Input
      <3>2. b \o w # <<>> /\ Head(b \o w) = Head(w)
        BY <1>1, <2>2, <3>1, StreamTail
      <3> QED BY <1>1, <1>2, <2>2, <3>2 DEF Input
    <2> QED BY <2>1, <2>2
  <1>4. Head(s) = s[1] /\ Len(s) # 0 /\ s[1] \in ItemsOf(c)
    <2>1. Head(s) \in ItemsOf(c) /\ Len(s) \in Nat \ {0}
      BY <1>3, HeadTailProperties, EmptySeq
    <2> QED BY <2>1
  <1>5. DataAhead(c) = IF s[1].part = "data" THEN s[1].of ELSE NoCommand
    BY <1>2, <1>4 DEF DataAhead, Ahead
  <1> QED BY <1>2, <1>3, <1>4, <1>5

LEMMA StreamSame ==
  ASSUME NEW c, NothingRead
  PROVE  /\ Stream(c)' = Stream(c) /\ DataAhead(c)' = DataAhead(c) /\ astray' = astray
         /\ client' = client /\ wire' = wire /\ buf' = buf
         /\ InOrder(c) => InOrder(c)'
         /\ Over(c) => Over(c)'
  <1>1. /\ Stream(c)' = Stream(c) /\ DataAhead(c)' = DataAhead(c) /\ astray' = astray
        /\ client' = client /\ wire' = wire /\ buf' = buf
    BY DEF NothingRead, Stream, DataAhead
  <1> QED BY <1>1 DEF InOrder, Paired, Over

-----------------------------------------------------------------------------
(* What keeps a connection in step *)

OnlyHere(c) ==
  \A d \in Conns \ {c} :
    /\ proc'[d] = proc[d] /\ client'[d] = client[d] /\ out'[d] = out[d]
    /\ wire'[d] = wire[d] /\ buf'[d] = buf[d] /\ (d \in astray' <=> d \in astray)

LEMMA ConnSame ==
  ASSUME NEW d, ConnOK(d), proc'[d] = proc[d], client'[d] = client[d], out'[d] = out[d],
         wire'[d] = wire[d], buf'[d] = buf[d], d \in astray' <=> d \in astray
  PROVE  ConnOK(d)'
  <1>1. Cmd(d)' = Cmd(d) /\ Stream(d)' = Stream(d) /\ DataAhead(d)' = DataAhead(d)
    BY DEF Cmd, Stream, DataAhead
  <1>2. (InOrder(d) => InOrder(d)') /\ (Over(d) => Over(d)')
    BY <1>1 DEF InOrder, Paired, Over
  <1>3. Spoken(d)'
    BY <1>1 DEF ConnOK, Spoken
  <1>4. Synced(d)'
    BY <1>1, <1>2 DEF ConnOK, Synced, At
  <1>5. Replied(d)'
    BY <1>1, <1>2 DEF ConnOK, Replied, AnswersDue, At
  <1>6. Flushed(d)'
    BY <1>1 DEF ConnOK, Flushed, At
  <1> QED BY <1>3, <1>4, <1>5, <1>6 DEF ConnOK

\* A handler finishes a command: what is in the writer stays only if there is more
\* to read.
LEMMA Finished ==
  ASSUME Inv, NEW c \in Conns, ConnOK(c), NEW cmd \in CommandsOf(c), NEW n \in {0, 1},
         Finish(c, cmd, n), client'[c] = client[c],
         wire'[c] \in Seq(ItemsOf(c)), buf'[c] \in Seq(ItemsOf(c)), InOrder(c)',
         c \in astray' => c \in TextConns,
         \/ c \in astray' \/ DataAhead(c)' = NoCommand \/ Over(c)'
         \/ c \in TextConns /\ DataAhead(c)' = cmd /\ Skips(cmd),
         AnswersDue(c, cmd, n)'
  PROVE  ConnOK(c)'
  <1>1. /\ proc'[c].at = "read" /\ proc'[c].cmd = cmd /\ proc'[c].answers = n
    <2>1. proc'[c] = [Idle EXCEPT !.cmd = cmd, !.answers = n]
      BY DEF Finish, Inv, ProcOK
    <2> QED BY <2>1 DEF Idle
  <1>2. out'[c] => Stream(c)' # <<>>
    <2>1. out'[c] => buf'[c] # <<>>
      BY DEF Finish, Inv, StreamsOK
    <2> QED BY <2>1, StreamTail DEF Stream
  <1>3. Spoken(c)'
    BY <1>1 DEF ConnOK, Spoken, Cmd
  <1>4. Synced(c)'
    BY <1>1 DEF Synced, At, Cmd, Working
  <1>5. Replied(c)'
    BY <1>1 DEF Replied, AnswersDue, Cmd
  <1>6. Flushed(c)'
    BY <1>1, <1>2 DEF Flushed, At
  <1> QED BY <1>3, <1>4, <1>5, <1>6 DEF ConnOK

\* The two ways a handler that has all its input can go on.
Concludes(c) ==
  /\ NothingRead
  /\ \E n \in {0, 1} :
       /\ Finish(c, Cmd(c), n)
       /\ n = 0 => ~Solicits(Cmd(c))
       /\ n = 1 => ~Cmd(c).noreply \/ Cmd(c).op \in Counts
Proceeds(c) ==
  /\ NothingRead
  /\ out' = [out EXCEPT ![c] = out'[c]] /\ proc' = [proc EXCEPT ![c] = proc'[c]]
  /\ proc'[c].at \in Working /\ proc'[c].cmd = Cmd(c)

LEMMA WorkOK ==
  ASSUME Inv, NEW c \in Conns, ConnOK(c), proc[c].at \in Working,
         Concludes(c) \/ Proceeds(c)
  PROVE  ConnOK(c)' /\ OnlyHere(c)
  <1>1. OnlyHere(c)
    BY DEF Concludes, Proceeds, Finish, NothingRead, OnlyHere, Inv, ProcOK, StreamsOK
  <1>2. /\ NothingRead /\ Stream(c)' = Stream(c) /\ InOrder(c)'
        /\ client' = client /\ wire' = wire /\ buf' = buf /\ astray' = astray
        /\ c \in astray' \/ DataAhead(c)' = NoCommand \/ Over(c)'
        /\ c \in astray' => c \in TextConns
        /\ wire[c] \in Seq(ItemsOf(c)) /\ buf[c] \in Seq(ItemsOf(c))
    <2>1. NothingRead
      BY DEF Concludes, Proceeds
    <2> QED BY <2>1, StreamSame DEF ConnOK, Synced, Spoken
  <1>3. Cmd(c) \in CommandsOf(c)
    <2>1. Cmd(c) \in Commands
      BY Busy DEF Working
    <2> QED BY <2>1, ConnectionAssumption DEF ConnOK, Spoken
  <1>4. CASE Concludes(c)
    <2>1. PICK n \in {0, 1} : /\ Finish(c, Cmd(c), n)
                              /\ n = 0 => ~Solicits(Cmd(c))
                              /\ n = 1 => ~Cmd(c).noreply \/ Cmd(c).op \in Counts
      BY <1>4 DEF Concludes
    <2>2. PICK cmd \in CommandsOf(c) : cmd = Cmd(c)
      BY <1>3
    <2>3. AnswersDue(c, cmd, n)' /\ Finish(c, cmd, n)
      BY <2>1, <2>2 DEF AnswersDue
    <2> QED BY <1>1, <1>2, <2>3, Finished
  <1>5. CASE Proceeds(c)
    <2>1. proc'[c].at \in Working /\ proc'[c].cmd = Cmd(c)
      BY <1>5 DEF Proceeds
    <2>2. Spoken(c)'
      BY <1>2, <1>3, <2>1 DEF ConnOK, Spoken, Cmd
    <2>3. Synced(c)' /\ Replied(c)' /\ Flushed(c)'
      BY <1>2, <2>1 DEF Synced, Replied, Flushed, At, Working
    <2> QED BY <1>1, <2>2, <2>3 DEF ConnOK
  <1> QED BY <1>4, <1>5

LEMMA Speaks ==
  ASSUME NEW c \in Conns, NEW cmd \in CommandsOf(c)
  PROVE  /\ cmd \in Commands /\ cmd # NoCommand /\ cmd.noreply \in BOOLEAN
         /\ c \in BinaryConns => cmd.exptime \in Nat /\ ~cmd.noreply
         /\ c \in TextConns => cmd.op \notin BinaryData
         /\ cmd.noreply =>
              cmd.op \in TextData \cup {"INCR", "DECR", "DELETE", "TOUCH", "FLUSH_ALL"}
  BY CommandType, ConnectionAssumption DEF CommandsOf, TextConns

\* A line or a message that is not the end of the connection's answer yet.
LEMMA Started ==
  ASSUME Inv, NEW c \in Conns, ConnOK(c), UNCHANGED client,
         wire'[c] \in Seq(ItemsOf(c)), buf'[c] \in Seq(ItemsOf(c)), InOrder(c)',
         c \in astray' => c \in TextConns,
         NEW cmd \in CommandsOf(c), proc'[c].cmd = cmd, proc'[c].answers = 0,
         \/ proc'[c].at = "returned" /\ cmd.op \in {"QUIT", "opQuit", "magic"}
         \/ /\ proc'[c].at = "read" /\ cmd.op = "blank"
            /\ c \in astray' \/ DataAhead(c)' = NoCommand
         \/ proc'[c].at = "data" /\ HasData(cmd) /\ DataAhead(c)' = cmd
         \/ proc'[c].at = "bytes" /\ c \in astray'
         \/ proc'[c].at = "call" /\ (c \in astray' \/ DataAhead(c)' = NoCommand)
  PROVE  ConnOK(c)'
  <1>1. Spoken(c)'
    BY DEF ConnOK, Spoken, Cmd
  <1>2. Synced(c)'
    BY DEF Synced, At, Cmd, Working
  <1>3. Replied(c)'
    BY Speaks DEF Replied, AnswersDue, At, Cmd, Solicits
  <1>4. Flushed(c)'
    BY DEF Flushed, At, Cmd
  <1> QED BY <1>1, <1>2, <1>3, <1>4 DEF ConnOK

\* What stands before a handler that begins: a client's line or message, or, for a
\* text handler, what it reads out of a data block.
LEMMA Beginning ==
  ASSUME NEW c \in Conns, ConnOK(c), At(c, "read"), ~NoInput(c)
  PROVE  LET item == Head(Input(c)) IN
         /\ item \in ItemsOf(c) /\ item.of \in CommandsOf(c) /\ item.of \in Commands
         /\ c \notin TextConns => item = Item("line", item.of)
  <1>1. PICK item \in ItemsOf(c) :
          /\ item = Head(Input(c)) /\ Stream(c) # <<>>
          /\ DataAhead(c) = IF item.part = "data" THEN item.of ELSE NoCommand
    BY FirstItem
  <1>2. item.of \in CommandsOf(c) /\ item.of \in Commands /\ item.of # NoCommand
    BY Speaks DEF ItemsOf
  <1>3. ASSUME c \notin TextConns
        PROVE  item = Item("line", item.of)
    <2>1. item.part # "data"
      BY <1>1, <1>2, <1>3 DEF ConnOK, Synced, Spoken, Over
    <2> QED BY <1>3, <2>1 DEF ItemsOf, Item
  <1> QED BY <1>1, <1>2, <1>3

LEMMA TakenHere ==
  ASSUME Inv, NEW c \in Conns, NEW rest, TakeLeaving(c, rest), UNCHANGED client,
         proc' = [proc EXCEPT ![c] = proc'[c]], out' = [out EXCEPT ![c] = out'[c]],
         astray' \in {astray, astray \cup {c}}
  PROVE  OnlyHere(c)
  BY DEF TakeLeaving, OnlyHere, Inv, ProcOK, StreamsOK

LEMMA FinishHere ==
  ASSUME Inv, NEW c \in Conns, NEW cmd, NEW n, Finish(c, cmd, n)
  PROVE  proc' = [proc EXCEPT ![c] = proc'[c]] /\ out' = [out EXCEPT ![c] = out'[c]]
  BY DEF Finish, Inv, ProcOK, StreamsOK

LEMMA ContinueHere ==
  ASSUME Inv, NEW c \in Conns, NEW p, Continue(c, p)
  PROVE  /\ proc' = [proc EXCEPT ![c] = proc'[c]] /\ out' = [out EXCEPT ![c] = out'[c]]
         /\ proc'[c] = p /\ out' = out
  BY DEF Continue, Inv, ProcOK, StreamsOK

\* What a text handler finds before it when it has taken a line.
LEMMA LineTaken ==
  ASSUME Inv, NEW c \in TextConns, ConnOK(c), HandleText(c)
  PROVE  LET item == Head(Input(c))
             cmd == Head(Lines(item)) IN
         /\ cmd \in CommandsOf(c)
         /\ wire'[c] \in Seq(ItemsOf(c)) /\ buf'[c] \in Seq(ItemsOf(c)) /\ InOrder(c)'
         /\ \E rest : TakeLeaving(c, rest)
         /\ item.part = "line" => DataAhead(c)' = IF HasData(cmd) THEN cmd ELSE NoCommand
         /\ item.part # "line" /\ c \notin astray => DataAhead(c)' = NoCommand
  <1>1. /\ c \in Conns /\ c \in Conns \ BinaryConns /\ At(c, "read") /\ ~NoInput(c)
        /\ client' = client /\ astray' \in {astray, astray \cup {c}}
    BY TextPart DEF HandleText, TakeLeaving, NoInput, TextConns
  <1>2. PICK item \in ItemsOf(c) :
          item = Head(Input(c)) /\ item.of \in CommandsOf(c) /\ item.of \in Commands
    BY <1>1, Beginning
  <1>3. PICK cmd \in CommandsOf(c), lines \in Seq(CommandsOf(c)) :
          /\ cmd = Head(Lines(item)) /\ lines = Tail(Lines(item))
          /\ item.part # "data" => cmd = item.of /\ lines = <<>>
    BY <1>1, <1>2, LinesType
  <1>4. PICK rest \in Seq(ItemsOf(c)) :
          /\ rest = Strays(lines) /\ (lines = <<>> => rest = <<>>)
          /\ \A i \in 1..Len(rest) : rest[i].part = "stray"
    <2>1. \A x \in CommandsOf(c) : Item("stray", x) \in ItemsOf(c)
      BY DEF ItemsOf, Item
    <2> QED BY <2>1, StraysType
  <1>5. TakeLeaving(c, rest)
    BY <1>2, <1>3, <1>4 DEF HandleText
  <1>6. PICK next :
         /\ wire'[c] \in Seq(ItemsOf(c)) /\ buf'[c] \in Seq(ItemsOf(c))
         /\ c \notin astray \/ item.part # "stray" => next = Asks(item)
         /\ DataAhead(c)' = IF rest = <<>> THEN next ELSE NoCommand
         /\ Paired(Stream(c)', client'[c].owes, FALSE)
         /\ c \notin astray /\ (rest = <<>> \/ next = NoCommand) =>
              Paired(Stream(c)', client'[c].owes, TRUE)
    BY <1>1, <1>2, <1>4, <1>5, Taken
  <1>7. item.part = "line" => DataAhead(c)' = IF HasData(cmd) THEN cmd ELSE NoCommand
    BY <1>3, <1>4, <1>6 DEF Asks
  <1>8. item.part # "line" /\ c \notin astray => next = NoCommand
    BY <1>6 DEF Asks
  <1>9. InOrder(c)'
    <2>1. CASE c \in astray'
      BY <1>6, <2>1 DEF InOrder, Paired
    <2>2. CASE c \notin astray'
      <3>1. c \notin astray /\ (rest = <<>> \/ next = NoCommand)
        BY <1>1, <1>3, <1>4, <1>8, <2>2
      <3> QED BY <1>6, <2>2, <3>1 DEF InOrder, Paired
    <2> QED BY <2>1, <2>2
  <1> QED BY <1>2, <1>3, <1>5, <1>6, <1>7, <1>8, <1>9

LEMMA HandleTextOK ==
  ASSUME Inv, NEW c \in TextConns, ConnOK(c), HandleText(c)
  PROVE  ConnOK(c)' /\ OnlyHere(c)
  <1>1. c \in Conns /\ UNCHANGED client
    BY TextPart DEF HandleText
  <1>2. PICK item, cmd, rest :
          /\ item = Head(Input(c)) /\ cmd = Head(Lines(item)) /\ cmd \in CommandsOf(c)
          /\ TakeLeaving(c, rest)
          /\ wire'[c] \in Seq(ItemsOf(c)) /\ buf'[c] \in Seq(ItemsOf(c)) /\ InOrder(c)'
          /\ item.part = "line" => DataAhead(c)' = IF HasData(cmd) THEN cmd ELSE NoCommand
          /\ item.part # "line" /\ c \notin astray => DataAhead(c)' = NoCommand
    BY LineTaken
  <1> DEFINE served == cmd.op \in Handled /\ ~Refused(cmd)
             begun == [Idle EXCEPT !.cmd = cmd]
             at == IF HasData(cmd) THEN WhereData(item) ELSE "call"
             taken == [begun EXCEPT !.at = at, !.todo = cmd.keys]
             gone == [begun EXCEPT !.at = "returned"]
  <1>3. /\ \/ cmd.op = "blank" /\ Continue(c, begun)
           \/ cmd.op = "QUIT" /\ Continue(c, gone)
           \/ cmd.op = "VERBOSITY" /\ Finish(c, cmd, 0)
           \/ ~served /\ Finish(c, cmd, 1)
           \/ served /\ Continue(c, taken)
        /\ astray' = IF served /\ HasData(cmd) /\ item.part # "line"
                     THEN astray \cup {c} ELSE astray
    BY <1>2 DEF HandleText
  <1>4. /\ begun.at = "read" /\ begun.cmd = cmd /\ begun.answers = 0
        /\ gone.at = "returned" /\ gone.cmd = cmd /\ gone.answers = 0
        /\ taken.at = at /\ taken.cmd = cmd /\ taken.answers = 0
    BY DEF Idle
  <1> HIDE DEF begun, taken, gone, served
  <1>5. OnlyHere(c)
    BY <1>1, <1>2, <1>3, TakenHere, FinishHere, ContinueHere
  <1>6. HasData(cmd) => cmd.op \in TextData
    BY <1>1, <1>2, Speaks DEF HasData
  <1>7. ~HasData(cmd) => c \in astray' \/ DataAhead(c)' = NoCommand
    BY <1>2, <1>3
  <1>8. CASE \/ cmd.op = "blank" /\ Continue(c, begun)
             \/ cmd.op = "QUIT" /\ Continue(c, gone)
             \/ served /\ Continue(c, taken)
    <2>1. \/ proc'[c] = begun /\ cmd.op = "blank"
          \/ proc'[c] = gone /\ cmd.op = "QUIT"
          \/ proc'[c] = taken /\ served
      BY <1>1, <1>8, ContinueHere
    <2>2. cmd.op = "blank" => ~HasData(cmd)
      BY DEF HasData, TextData, BinaryData
    <2>3. served =>
            \/ at = "data" /\ HasData(cmd) /\ DataAhead(c)' = cmd
            \/ at = "bytes" /\ c \in astray'
            \/ at = "call" /\ (c \in astray' \/ DataAhead(c)' = NoCommand)
      BY <1>2, <1>3, <1>7 DEF WhereData
    <2> HIDE DEF at
    <2>4. /\ proc'[c].cmd = cmd /\ proc'[c].answers = 0
          /\ \/ proc'[c].at = "returned" /\ cmd.op \in {"QUIT", "opQuit", "magic"}
             \/ /\ proc'[c].at = "read" /\ cmd.op = "blank"
                /\ c \in astray' \/ DataAhead(c)' = NoCommand
             \/ proc'[c].at = "data" /\ HasData(cmd) /\ DataAhead(c)' = cmd
             \/ proc'[c].at = "bytes" /\ c \in astray'
             \/ proc'[c].at = "call" /\ (c \in astray' \/ DataAhead(c)' = NoCommand)
      BY <1>4, <1>7, <2>1, <2>2, <2>3
    <2> QED BY <1>1, <1>2, <1>5, <2>4, Started
  <1>9. CASE cmd.op = "VERBOSITY" /\ Finish(c, cmd, 0)
    <2>1. ~HasData(cmd)
      BY <1>9 DEF HasData, TextData, BinaryData
    <2>2. AnswersDue(c, cmd, 0)'
      BY <1>9 DEF AnswersDue, Solicits
    <2> QED BY <1>1, <1>2, <1>5, <1>7, <1>9, <2>1, <2>2, Finished
  <1>10. CASE ~served /\ Finish(c, cmd, 1)
    <2>1. cmd.op \in TextData \cup {"INCR", "DECR", "DELETE", "TOUCH", "FLUSH_ALL"}
            => Refused(cmd)
      BY <1>10 DEF TextData, Handled, Stores, Appends, Counts, served
    <2>2. AnswersDue(c, cmd, 1)'
      BY <1>1, <1>2, <2>1, Speaks DEF AnswersDue, Refused
    <2>3. HasData(cmd) => Skips(cmd)
      BY <1>6, <2>1 DEF Refused, Skips, TextData
    <2>4. \/ c \in astray' \/ DataAhead(c)' = NoCommand
          \/ DataAhead(c)' = cmd /\ Skips(cmd)
      BY <1>2, <1>3, <1>7, <2>3
    <2> QED BY <1>1, <1>2, <1>5, <1>10, <2>2, <2>4, Finished
  <1> QED BY <1>3, <1>8, <1>9, <1>10

\* What stands before a handler that waits for data: the data, or nothing yet.
LEMMA Waiting ==
  ASSUME Inv, NEW c \in Conns, ConnOK(c), At(c, "data")
  PROVE  /\ Cmd(c) \in CommandsOf(c) /\ HasData(Cmd(c)) /\ DataAhead(c) = Cmd(c)
         /\ NoInput(c) => Stream(c) = <<>> /\ client[c].owes = Cmd(c)
         /\ Consume(c) /\ UNCHANGED client =>
              /\ Head(Input(c)) = Item("data", Cmd(c))
              /\ DataAhead(c)' = NoCommand /\ InOrder(c)' /\ astray' = astray
              /\ wire'[c] \in Seq(ItemsOf(c)) /\ buf'[c] \in Seq(ItemsOf(c))
  <1>1. /\ Cmd(c) \in CommandsOf(c) /\ Cmd(c) # NoCommand /\ HasData(Cmd(c))
        /\ DataAhead(c) = Cmd(c)
    <2>1. Cmd(c) \in Commands
      BY Busy DEF At
    <2> QED BY <2>1, ConnectionAssumption DEF ConnOK, Synced, Spoken
  <1>2. ASSUME NoInput(c)
        PROVE  Stream(c) = <<>> /\ client[c].owes = Cmd(c)
    <2>1. buf[c] = <<>> /\ wire[c] = <<>>
      BY <1>2 DEF NoInput, Input
    <2>2. Stream(c) = <<>>
      BY <2>1, StreamTail DEF Stream, ConnOK, Spoken
    <2> QED BY <1>1, <2>2 DEF DataAhead, Ahead
  <1>3. ASSUME Consume(c), UNCHANGED client
        PROVE  /\ Head(Input(c)) = Item("data", Cmd(c))
               /\ DataAhead(c)' = NoCommand /\ InOrder(c)' /\ astray' = astray
               /\ wire'[c] \in Seq(ItemsOf(c)) /\ buf'[c] \in Seq(ItemsOf(c))
    <2>1. PICK item \in ItemsOf(c) :
            /\ item = Head(Input(c))
            /\ DataAhead(c) = IF item.part = "data" THEN item.of ELSE NoCommand
            /\ item.part # "stray" => DataAhead(c)' = Asks(item)
            /\ InOrder(c)' /\ astray' = astray
            /\ wire'[c] \in Seq(ItemsOf(c)) /\ buf'[c] \in Seq(ItemsOf(c))
      BY <1>3, Consumed
    <2>2. item.part = "data" /\ item.of = Cmd(c)
      BY <1>1, <2>1
    <2>3. item = Item("data", Cmd(c)) /\ Asks(item) = NoCommand
      BY <2>2 DEF ItemsOf, Item, Asks
    <2> QED BY <2>1, <2>2, <2>3
  <1> QED BY <1>1, <1>2, <1>3

\* A handler that is done with reading calls the cache.
LEMMA Called ==
  ASSUME Inv, NEW c \in Conns, ConnOK(c), Cmd(c) \in CommandsOf(c), UNCHANGED client,
         Goto(c, "call"), wire'[c] \in Seq(ItemsOf(c)), buf'[c] \in Seq(ItemsOf(c)),
         InOrder(c)', astray' = astray,
         c \in astray \/ DataAhead(c)' = NoCommand \/ Over(c)'
  PROVE  /\ ConnOK(c)'
         /\ proc' = [proc EXCEPT ![c] = proc'[c]] /\ out' = [out EXCEPT ![c] = out'[c]]
  <1> DEFINE p == [proc[c] EXCEPT !.at = "call"]
  <1>1. Continue(c, p)
    BY DEF Goto
  <1>2. p.at = "call" /\ p.cmd = Cmd(c)
    BY DEF Cmd, Inv, ProcOK, Locals
  <1> HIDE DEF p
  <1>3. /\ proc' = [proc EXCEPT ![c] = proc'[c]] /\ out' = [out EXCEPT ![c] = out'[c]]
        /\ proc'[c].at = "call" /\ proc'[c].cmd = Cmd(c)
    BY <1>1, <1>2, ContinueHere
  <1>4. Spoken(c)'
    BY <1>3 DEF ConnOK, Spoken, Cmd
  <1>5. Synced(c)' /\ Replied(c)' /\ Flushed(c)'
    BY <1>3 DEF Synced, Replied, Flushed, At, Working
  <1> QED BY <1>3, <1>4, <1>5 DEF ConnOK

\* ... unless the text handler finds something wrong.
LEMMA DataReadOK ==
  ASSUME Inv, NEW c \in TextConns, ConnOK(c), Cmd(c) \in CommandsOf(c), UNCHANGED client,
         DataRead(c), wire'[c] \in Seq(ItemsOf(c)), buf'[c] \in Seq(ItemsOf(c)),
         InOrder(c)', astray' = astray,
         c \in astray \/ DataAhead(c)' = NoCommand \/ Over(c)'
  PROVE  /\ ConnOK(c)'
         /\ proc' = [proc EXCEPT ![c] = proc'[c]] /\ out' = [out EXCEPT ![c] = out'[c]]
  <1>1. c \in Conns
    BY TextPart
  <1>2. PICK cmd \in CommandsOf(c) : cmd = Cmd(c)
    OBVIOUS
  <1>3. CASE cmd.form \in {"large", "token"} /\ Finish(c, cmd, 1)
    <2>1. AnswersDue(c, cmd, 1)'
      BY <1>3 DEF AnswersDue
    <2> QED BY <1>1, <1>3, <2>1, Finished, FinishHere
  <1>4. CASE Goto(c, "call")
    BY <1>1, <1>4, Called
  <1> QED BY <1>2, <1>3, <1>4 DEF DataRead, Answer

LEMMA ReadDataOK ==
  ASSUME Inv, NEW c \in TextConns, ConnOK(c), ReadData(c)
  PROVE  ConnOK(c)' /\ OnlyHere(c)
  <1>1. /\ c \in Conns /\ At(c, "data") /\ Consume(c) /\ UNCHANGED client
        /\ TakeLeaving(c, <<>>)
    BY TextPart DEF ReadData, Consume
  <1>2. /\ Cmd(c) \in CommandsOf(c)
        /\ DataAhead(c)' = NoCommand /\ InOrder(c)' /\ astray' = astray
        /\ wire'[c] \in Seq(ItemsOf(c)) /\ buf'[c] \in Seq(ItemsOf(c))
    BY <1>1, Waiting
  <1> QED BY <1>1, <1>2, DataReadOK, TakenHere DEF ReadData

\* A connection that has gone astray needs no more than commands of its protocol.
LEMMA ReadBytesOK ==
  ASSUME Inv, NEW c \in TextConns, ConnOK(c), ReadBytes(c)
  PROVE  ConnOK(c)' /\ OnlyHere(c)
  <1>1. /\ c \in Conns /\ c \in Conns \ BinaryConns /\ At(c, "bytes") /\ UNCHANGED client
        /\ astray' = astray /\ c \in astray
    BY TextPart DEF ReadBytes, TextConns, ConnOK, Synced
  <1>2. Cmd(c) \in CommandsOf(c)
    <2>1. Cmd(c) \in Commands
      BY <1>1, Busy DEF At
    <2> QED BY <2>1, ConnectionAssumption DEF ConnOK, Spoken
  <1>3. CASE TakeLeaving(c, <<>>) /\ Continue(c, proc[c])
    <2>1. /\ wire'[c] \in Seq(ItemsOf(c)) /\ buf'[c] \in Seq(ItemsOf(c)) /\ InOrder(c)'
      BY <1>1, <1>3, Consumed DEF Consume
    <2>2. /\ proc' = [proc EXCEPT ![c] = proc'[c]] /\ out' = [out EXCEPT ![c] = out'[c]]
          /\ proc'[c] = proc[c]
      <3>1. PICK p : p = proc[c] /\ Continue(c, p)
        BY <1>3
      <3> QED BY <1>1, <3>1, ContinueHere
    <2>3. OnlyHere(c)
      BY <1>1, <1>3, <2>2, TakenHere
    <2>4. Spoken(c)'
      BY <1>1, <2>1, <2>2 DEF ConnOK, Spoken, Cmd
    <2>5. Synced(c)' /\ Replied(c)' /\ Flushed(c)'
      BY <1>1, <2>1, <2>2 DEF Synced, Replied, Flushed, At, Working
    <2> QED BY <2>3, <2>4, <2>5 DEF ConnOK
  <1>4. CASE \E rest \in Fragments : TakeLeaving(c, Strays(rest)) /\ DataRead(c)
    <2>1. PICK lines \in Seq(CommandsOf(c)) : TakeLeaving(c, Strays(lines)) /\ DataRead(c)
      BY <1>1, <1>4, ConnectionAssumption
    <2>2. PICK rest \in Seq(ItemsOf(c)) :
            /\ rest = Strays(lines)
            /\ \A i \in 1..Len(rest) : rest[i].part = "stray"
      <3>1. \A x \in CommandsOf(c) : Item("stray", x) \in ItemsOf(c)
        BY DEF ItemsOf, Item
      <3> QED BY <3>1, StraysType
    <2>3. TakeLeaving(c, rest)
      BY <2>1, <2>2
    <2>4. /\ wire'[c] \in Seq(ItemsOf(c)) /\ buf'[c] \in Seq(ItemsOf(c))
          /\ Paired(Stream(c)', client'[c].owes, FALSE)
      BY <1>1, <2>2, <2>3, Taken
    <2>5. InOrder(c)'
      BY <1>1, <2>4 DEF InOrder, Paired
    <2> QED BY <1>1, <1>2, <2>1, <2>3, <2>4, <2>5, DataReadOK, TakenHere
  <1> QED BY <1>3, <1>4 DEF ReadBytes

\* A handler that returns for want of input leaves nothing in the writer that the
\* client could still be waiting for.
LEMMA ReturnedOK ==
  ASSUME Inv, NEW c \in Conns, ConnOK(c), EndOfInput(c), NothingRead,
         At(c, "read") \/ (At(c, "data") /\ c \in BinaryConns),
         proc'[c].at = "returned", proc'[c].cmd = Cmd(c), out' = out
  PROVE  ConnOK(c)'
  <1>1. /\ client' = client /\ wire' = wire /\ buf' = buf /\ astray' = astray
        /\ Stream(c)' = Stream(c) /\ InOrder(c)'
    BY StreamSame DEF ConnOK, Synced
  <1>2. Stream(c) = <<>> /\ client[c].state = "left"
    <2>1. buf[c] = <<>> /\ wire[c] = <<>>
      BY DEF EndOfInput, NoInput, Input
    <2> QED BY <2>1, StreamTail DEF Stream, ConnOK, Spoken, EndOfInput
  <1>3. At(c, "data") => HasData(Cmd(c)) /\ client[c].owes = Cmd(c)
    BY Waiting DEF EndOfInput
  <1>4. Spoken(c)' /\ Synced(c)' /\ Replied(c)'
    BY <1>1 DEF ConnOK, Spoken, Synced, Replied, At, Cmd, Working
  <1>5. Flushed(c)'
    BY <1>1, <1>2, <1>3 DEF ConnOK, Flushed, At, Cmd
  <1> QED BY <1>4, <1>5 DEF ConnOK

LEMMA HangUpOK ==
  ASSUME Inv, NEW c \in TextConns, ConnOK(c), HangUp(c)
  PROVE  ConnOK(c)' /\ OnlyHere(c)
  <1>1. /\ c \in Conns /\ EndOfInput(c) /\ NothingRead
        /\ client' = client /\ wire' = wire /\ buf' = buf /\ astray' = astray
    BY TextPart DEF HangUp, NothingRead
  <1>2. ASSUME /\ proc' = [proc EXCEPT ![c] = proc'[c]]
               /\ out' = [out EXCEPT ![c] = out'[c]]
        PROVE  OnlyHere(c)
    BY <1>1, <1>2 DEF OnlyHere, Inv, ProcOK, StreamsOK
  <1>3. CASE At(c, "read") /\ Goto(c, "returned")
    <2> DEFINE p == [proc[c] EXCEPT !.at = "returned"]
    <2>1. Continue(c, p)
      BY <1>3 DEF Goto
    <2>2. p.at = "returned" /\ p.cmd = Cmd(c)
      BY <1>1 DEF Cmd, Inv, ProcOK, Locals
    <2> HIDE DEF p
    <2>3. /\ proc'[c] = p /\ out' = out /\ proc' = [proc EXCEPT ![c] = proc'[c]]
          /\ out' = [out EXCEPT ![c] = out'[c]]
      BY <1>1, <2>1, ContinueHere
    <2> QED BY <1>1, <1>2, <1>3, <2>2, <2>3, ReturnedOK
  <1>4. CASE (At(c, "data") \/ At(c, "bytes")) /\ (Answer(c) \/ DataRead(c))
    <2>1. PICK cmd \in CommandsOf(c) : cmd = Cmd(c)
      <3>1. Cmd(c) \in Commands
        BY <1>1, <1>4, Busy DEF At
      <3> QED BY <3>1, ConnectionAssumption DEF ConnOK, Spoken
    <2>2. /\ Over(c) /\ Over(c)' /\ InOrder(c)'
          /\ wire'[c] \in Seq(ItemsOf(c)) /\ buf'[c] \in Seq(ItemsOf(c))
          /\ c \in astray' => c \in TextConns
      <3>1. buf[c] = <<>> /\ wire[c] = <<>>
        BY <1>1 DEF EndOfInput, NoInput, Input
      <3>2. Over(c)
        BY <1>1, <3>1, StreamTail DEF Over, Stream, ConnOK, Spoken, EndOfInput
      <3> QED BY <1>1, <3>2, StreamSame DEF ConnOK, Synced, Spoken
    <2>3. client[c].owes = cmd \/ c \in astray
      BY <1>1, <1>4, <2>1, Waiting DEF ConnOK, Synced, EndOfInput
    <2>4. CASE Answer(c)
      <3>1. Finish(c, cmd, 1) /\ AnswersDue(c, cmd, 1)'
        BY <1>1, <2>1, <2>2, <2>3, <2>4 DEF Answer, AnswersDue
      <3> QED BY <1>1, <1>2, <2>2, <3>1, Finished, FinishHere
    <2>5. CASE DataRead(c)
      BY <1>1, <1>2, <2>1, <2>2, <2>5, DataReadOK
    <2> QED BY <1>4, <2>4, <2>5
  <1> QED BY <1>3, <1>4 DEF HangUp

LEMMA AnswerConcludes ==
  ASSUME NEW c \in Conns, NEW quiet \in BOOLEAN, NothingRead, AnswerUnless(quiet, c),
         quiet => ~Solicits(Cmd(c)),
         ~quiet => ~Cmd(c).noreply \/ Cmd(c).op \in Counts
  PROVE  Concludes(c)
  <1>1. CASE quiet
    <2>1. Finish(c, Cmd(c), 0)
      BY <1>1 DEF AnswerUnless
    <2> QED BY <1>1, <2>1 DEF Concludes
  <1>2. CASE ~quiet
    <2>1. Finish(c, Cmd(c), 1)
      BY <1>2 DEF AnswerUnless
    <2> QED BY <1>2, <2>1 DEF Concludes
  <1> QED BY <1>1, <1>2

LEMMA ContinueProceeds ==
  ASSUME Inv, NEW c \in Conns, NEW p, NothingRead, Continue(c, p),
         p.at \in Working, p.cmd = Cmd(c)
  PROVE  Proceeds(c)
  BY ContinueHere DEF Proceeds

LEMMA TextWorks ==
  ASSUME Inv, NEW c \in TextConns, ConnOK(c),
         \/ HandleTextStorage(c) \/ HandleTextAppendPrepend(c) \/ HandleTextCas(c)
         \/ HandleTextIncrDecr(c) \/ HandleTextDelete(c) \/ HandleTextTouch(c)
         \/ HandleTextFlushAll(c) \/ HandleTextGet(c) \/ HandleTextGat(c) \/ WriteValue(c)
  PROVE  proc[c].at \in Working /\ (Concludes(c) \/ Proceeds(c))
  <1>1. /\ c \in Conns /\ proc[c].at \in Working /\ NothingRead
    BY TextPart
       DEF Working, Calls, At, HandleTextStorage, HandleTextAppendPrepend, HandleTextCas,
           HandleTextIncrDecr, HandleTextDelete, HandleTextTouch, HandleTextFlushAll,
           HandleTextGet, HandleTextGat, WriteValue
  <1>2. Cmd(c) \in CommandsOf(c) /\ proc[c] \in Locals
    <2>1. Cmd(c) \in Commands /\ proc[c] \in Locals
      BY <1>1, Busy DEF Working
    <2> QED BY <2>1, ConnectionAssumption DEF ConnOK, Spoken
  <1>3. Quietly(c) => Concludes(c)
    <2>1. Cmd(c).noreply => ~Solicits(Cmd(c))
      BY DEF Solicits
    <2>2. Cmd(c).noreply \in BOOLEAN
      BY <1>1, <1>2, Speaks
    <2> QED BY <1>1, <2>1, <2>2, AnswerConcludes DEF Quietly
  <1>4. Answer(c) /\ (~Cmd(c).noreply \/ Cmd(c).op \in Counts) => Concludes(c)
    BY <1>1 DEF Answer, Concludes
  <1>5. \A p : Continue(c, p) /\ p.at \in Working /\ p.cmd = Cmd(c) => Proceeds(c)
    BY <1>1, ContinueProceeds
  <1>6. CASE \/ HandleTextStorage(c) \/ HandleTextAppendPrepend(c) \/ HandleTextCas(c)
             \/ HandleTextDelete(c) \/ HandleTextTouch(c)
    BY <1>1, <1>3, <1>6
       DEF HandleTextStorage, HandleTextAppendPrepend, HandleTextCas, HandleTextDelete,
           HandleTextTouch
  <1>7. CASE HandleTextIncrDecr(c)
    <2>1. Cmd(c).op \in Counts /\ (Answer(c) \/ Quietly(c))
      BY <1>7 DEF HandleTextIncrDecr, Calls
    <2> QED BY <1>1, <1>3, <1>4, <2>1
  <1>8. CASE HandleTextFlushAll(c)
    <2> DEFINE p == [proc[c] EXCEPT !.todo = Tail(@)]
    <2>1. p.at = proc[c].at /\ p.cmd = Cmd(c)
      BY <1>2 DEF Locals, Cmd
    <2>2. Quietly(c) \/ Continue(c, p)
      BY <1>8 DEF HandleTextFlushAll
    <2> HIDE DEF p
    <2> QED BY <1>1, <1>3, <1>5, <2>1, <2>2
  <1>9. CASE HandleTextGet(c)
    <2> DEFINE p == [proc[c] EXCEPT !.todo = Tail(@)]
               at == IF Cmd(c).op \in Gats THEN "touch" ELSE "write"
               q == [proc[c] EXCEPT
                       !.slice = store[Key(c)].slice, !.cas = store[Key(c)].cas, !.at = at]
    <2>1. /\ p.at = proc[c].at /\ p.cmd = Cmd(c)
          /\ q.at = at /\ q.cmd = Cmd(c)
      BY <1>2 DEF Locals, Cmd
    <2>2. /\ Cmd(c).op \in Gets \cup Gats
          /\ Answer(c) \/ Continue(c, p) \/ Continue(c, q)
      BY <1>9 DEF HandleTextGet, Calls
    <2>3. ~Cmd(c).noreply
      <3>1. Cmd(c).op \notin TextData \cup {"INCR", "DECR", "DELETE", "TOUCH", "FLUSH_ALL"}
        BY <2>2 DEF Gets, Gats, TextData
      <3> QED BY <1>1, <1>2, <3>1, Speaks
    <2>4. at \in Working
      BY DEF Working
    <2> HIDE DEF p, q, at
    <2> QED BY <1>1, <1>4, <1>5, <2>1, <2>2, <2>3, <2>4
  <1>10. CASE HandleTextGat(c)
    <2> DEFINE p == [proc[c] EXCEPT !.at = "write"]
    <2>1. p.at = "write" /\ p.cmd = Cmd(c)
      BY <1>2 DEF Locals, Cmd
    <2>2. Continue(c, p)
      BY <1>10 DEF HandleTextGat, Goto
    <2> HIDE DEF p
    <2> QED BY <1>1, <1>5, <2>1, <2>2 DEF Working
  <1>11. CASE WriteValue(c)
    <2>1. /\ proc' = [proc EXCEPT ![c].at = "call", ![c].todo = Tail(@)]
          /\ out' = [out EXCEPT ![c] = TRUE]
      BY <1>11 DEF WriteValue
    <2>2. proc'[c].at = "call" /\ proc'[c].cmd = Cmd(c) /\ proc' = [proc EXCEPT ![c] = proc'[c]]
      BY <1>1, <1>2, <2>1 DEF Locals, Cmd, Inv, ProcOK
    <2>3. out' = [out EXCEPT ![c] = out'[c]]
      BY <1>1, <2>1 DEF Inv, StreamsOK
    <2> QED BY <1>1, <2>2, <2>3 DEF Proceeds, Working
  <1> QED BY <1>1, <1>6, <1>7, <1>8, <1>9, <1>10, <1>11

LEMMA BinaryWorks ==
  ASSUME Inv, NEW c \in BinaryConns, ConnOK(c),
         \/ HandleBinaryStorage(c) \/ HandleBinaryAppendPrepend(c) \/ HandleBinaryIncrDecr(c)
         \/ HandleBinaryDelete(c) \/ HandleBinaryTouch(c) \/ HandleBinaryFlush(c)
         \/ HandleBinaryGet(c) \/ HandleBinaryGAT(c) \/ WriteResponse(c)
  PROVE  proc[c].at \in Working /\ (Concludes(c) \/ Proceeds(c))
  <1>1. /\ c \in Conns /\ proc[c].at \in Working /\ NothingRead
    BY BinaryPart
       DEF Working, Calls, At, HandleBinaryStorage, HandleBinaryAppendPrepend,
           HandleBinaryIncrDecr, HandleBinaryDelete, HandleBinaryTouch, HandleBinaryFlush,
           HandleBinaryGet, HandleBinaryGAT, WriteResponse
  <1>2. Cmd(c) \in CommandsOf(c) /\ proc[c] \in Locals
    <2>1. Cmd(c) \in Commands /\ proc[c] \in Locals
      BY <1>1, Busy DEF Working
    <2> QED BY <2>1, ConnectionAssumption DEF ConnOK, Spoken
  <1>3. ~Cmd(c).noreply
    BY <1>1, <1>2, Speaks
  <1>4. Answer(c) => Concludes(c)
    BY <1>1, <1>3 DEF Answer, Concludes
  <1>5. \A p : Continue(c, p) /\ p.at \in Working /\ p.cmd = Cmd(c) => Proceeds(c)
    BY <1>1, ContinueProceeds
  <1>6. CASE \/ HandleBinaryStorage(c) \/ HandleBinaryAppendPrepend(c)
             \/ HandleBinaryIncrDecr(c) \/ HandleBinaryDelete(c) \/ HandleBinaryTouch(c)
             \/ WriteResponse(c)
    BY <1>1, <1>4, <1>6
       DEF HandleBinaryStorage, HandleBinaryAppendPrepend, HandleBinaryIncrDecr,
           HandleBinaryDelete, HandleBinaryTouch, WriteResponse
  <1>7. CASE HandleBinaryFlush(c)
    <2> DEFINE p == [proc[c] EXCEPT !.todo = Tail(@)]
    <2>1. p.at = proc[c].at /\ p.cmd = Cmd(c)
      BY <1>2 DEF Locals, Cmd
    <2>2. Answer(c) \/ Continue(c, p)
      BY <1>7 DEF HandleBinaryFlush
    <2> HIDE DEF p
    <2> QED BY <1>1, <1>4, <1>5, <2>1, <2>2
  <1>8. CASE HandleBinaryGet(c)
    <2> DEFINE cas == IF At(c, "get") THEN proc[c].cas ELSE store[Key(c)].cas
               p == [proc[c] EXCEPT
                       !.slice = store[Key(c)].slice, !.cas = cas, !.at = "write"]
    <2>1. p.at = "write" /\ p.cmd = Cmd(c)
      BY <1>2 DEF Locals, Cmd
    <2>2. Continue(c, p) \/ AnswerUnless(Cmd(c).op \in Quiet, c)
      BY <1>8 DEF HandleBinaryGet
    <2> HIDE DEF p
    <2> DEFINE quiet == Cmd(c).op \in Quiet
    <2>3. quiet \in BOOLEAN /\ (quiet => ~Solicits(Cmd(c)))
      BY <1>1 DEF Solicits
    <2>4. AnswerUnless(quiet, c) \/ Continue(c, p)
      BY <2>2
    <2> HIDE DEF quiet
    <2>5. AnswerUnless(quiet, c) => Concludes(c)
      BY <1>1, <1>3, <2>3, AnswerConcludes
    <2> QED BY <1>1, <1>5, <2>1, <2>4, <2>5 DEF Working
  <1>9. CASE HandleBinaryGAT(c)
    <2> DEFINE p == [proc[c] EXCEPT !.cas = NewToken, !.at = "get"]
    <2>1. p.at = "get" /\ p.cmd = Cmd(c)
      BY <1>2 DEF Locals, Cmd
    <2>2. Answer(c) \/ Continue(c, p)
      BY <1>9 DEF HandleBinaryGAT
    <2> HIDE DEF p
    <2> QED BY <1>1, <1>4, <1>5, <2>1, <2>2 DEF Working
  <1> QED BY <1>1, <1>6, <1>7, <1>8, <1>9

LEMMA HandleBinaryOK ==
  ASSUME Inv, NEW c \in BinaryConns, ConnOK(c), HandleBinary(c)
  PROVE  ConnOK(c)' /\ OnlyHere(c)
  <1>1. /\ c \in Conns /\ c \notin TextConns /\ At(c, "read") /\ ~NoInput(c)
        /\ Consume(c) /\ TakeLeaving(c, <<>>) /\ UNCHANGED client
    BY BinaryPart DEF HandleBinary, TextConns, Consume, TakeLeaving, NoInput
  <1>2. PICK cmd \in CommandsOf(c) : Head(Input(c)) = Item("line", cmd) /\ cmd = Head(Input(c)).of
    BY <1>1, Beginning
  <1>3. /\ wire'[c] \in Seq(ItemsOf(c)) /\ buf'[c] \in Seq(ItemsOf(c)) /\ InOrder(c)'
        /\ DataAhead(c)' = IF HasData(cmd) THEN cmd ELSE NoCommand
        /\ astray' = astray /\ client'[c] = client[c] /\ (c \in astray' => c \in TextConns)
    BY <1>1, <1>2, Consumed DEF Asks, Item, ConnOK, Spoken
  <1> DEFINE begun == [Idle EXCEPT !.cmd = cmd, !.at = "returned"]
             at == IF HasData(cmd) THEN "data" ELSE "call"
             taken(b) == [begun EXCEPT !.at = at, !.todo = cmd.keys, !.buffer = b]
  <1>4. \/ cmd.op \in {"magic", "opQuit"} /\ Continue(c, begun)
        \/ AtOnce(cmd) /\ ~HasData(cmd) /\ Finish(c, cmd, 1)
        \/ \E b \in pool : proc' = [proc EXCEPT ![c] = taken(b)] /\ out' = out
    BY <1>2 DEF HandleBinary
  <1>5. /\ begun.at = "returned" /\ begun.cmd = cmd /\ begun.answers = 0
        /\ \A b : taken(b).at = at /\ taken(b).cmd = cmd /\ taken(b).answers = 0
    BY DEF Idle
  <1> HIDE DEF begun, taken
  <1>6. CASE cmd.op \in {"magic", "opQuit"} /\ Continue(c, begun)
    <2>1. /\ proc' = [proc EXCEPT ![c] = proc'[c]] /\ out' = [out EXCEPT ![c] = out'[c]]
          /\ proc'[c] = begun
      BY <1>1, <1>6, ContinueHere
    <2>2. OnlyHere(c)
      BY <1>1, <1>3, <2>1, TakenHere
    <2> QED BY <1>1, <1>5, <1>6, <1>3, <2>1, <2>2, Started
  <1>7. CASE AtOnce(cmd) /\ ~HasData(cmd) /\ Finish(c, cmd, 1)
    <2>1. AnswersDue(c, cmd, 1)'
      BY <1>1, Speaks DEF AnswersDue
    <2> QED BY <1>1, <1>7, <1>3, <2>1, Finished, FinishHere, TakenHere
  <1>8. CASE \E b \in pool : proc' = [proc EXCEPT ![c] = taken(b)] /\ out' = out
    <2>1. PICK b \in pool : proc' = [proc EXCEPT ![c] = taken(b)] /\ out' = out
      BY <1>8
    <2>2. /\ proc'[c] = taken(b) /\ proc' = [proc EXCEPT ![c] = proc'[c]]
          /\ out' = [out EXCEPT ![c] = out'[c]]
      BY <1>1, <2>1 DEF Inv, ProcOK, StreamsOK
    <2>3. /\ proc'[c].cmd = cmd /\ proc'[c].answers = 0
          /\ \/ proc'[c].at = "data" /\ HasData(cmd)
             \/ proc'[c].at = "call" /\ ~HasData(cmd)
      BY <1>5, <2>2
    <2>4. OnlyHere(c)
      BY <1>1, <1>3, <2>2, TakenHere
    <2> QED BY <1>1, <1>3, <2>3, <2>4, Started
  <1> QED BY <1>4, <1>6, <1>7, <1>8

LEMMA ReadBodyOK ==
  ASSUME Inv, NEW c \in BinaryConns, ConnOK(c), ReadBody(c)
  PROVE  ConnOK(c)' /\ OnlyHere(c)
  <1>1. /\ c \in Conns /\ At(c, "data") /\ Consume(c) /\ UNCHANGED client
        /\ TakeLeaving(c, <<>>)
    BY BinaryPart DEF ReadBody, Consume
  <1>2. /\ Cmd(c) \in CommandsOf(c)
        /\ DataAhead(c)' = NoCommand /\ InOrder(c)' /\ astray' = astray
        /\ c \in astray' => c \in TextConns
        /\ wire'[c] \in Seq(ItemsOf(c)) /\ buf'[c] \in Seq(ItemsOf(c))
    BY <1>1, Waiting DEF ConnOK, Spoken
  <1>3. PICK cmd \in CommandsOf(c) : cmd = Cmd(c)
    BY <1>2
  <1>4. CASE Finish(c, cmd, 1)
    <2>1. AnswersDue(c, cmd, 1)'
      BY <1>1, Speaks DEF AnswersDue
    <2> QED BY <1>1, <1>2, <1>4, <2>1, Finished, FinishHere, TakenHere
  <1>5. CASE Goto(c, "call")
    BY <1>1, <1>2, <1>5, Called, TakenHere
  <1> QED BY <1>3, <1>4, <1>5 DEF ReadBody, Answer

LEMMA HangUpBinaryOK ==
  ASSUME Inv, NEW c \in BinaryConns, ConnOK(c), HangUpBinary(c)
  PROVE  ConnOK(c)' /\ OnlyHere(c)
  <1>1. /\ c \in Conns /\ EndOfInput(c) /\ NothingRead /\ out' = out
        /\ client' = client /\ wire' = wire /\ buf' = buf /\ astray' = astray
        /\ At(c, "read") \/ At(c, "data")
        /\ proc' = [proc EXCEPT ![c].at = "returned", ![c].buffer = NoBuffer]
    BY BinaryPart DEF HangUpBinary, NothingRead
  <1>2. proc'[c].at = "returned" /\ proc'[c].cmd = Cmd(c)
    BY <1>1 DEF Cmd, Inv, ProcOK, Locals
  <1>3. OnlyHere(c)
    BY <1>1 DEF OnlyHere, Inv, ProcOK
  <1> QED BY <1>1, <1>2, <1>3, ReturnedOK

LEMMA StepOK ==
  ASSUME Inv, NEW c \in Conns, ConnOK(c),
         \/ c \in TextConns /\ TextStep(c)
         \/ c \in BinaryConns /\ BinaryStep(c)
  PROVE  ConnOK(c)' /\ OnlyHere(c)
  <1>1. CASE c \in TextConns /\ TextStep(c)
    BY <1>1, HandleTextOK, ReadDataOK, ReadBytesOK, HangUpOK, TextWorks, WorkOK DEF TextStep
  <1>2. CASE c \in BinaryConns /\ BinaryStep(c)
    BY <1>2, HandleBinaryOK, ReadBodyOK, HangUpBinaryOK, BinaryWorks, WorkOK DEF BinaryStep
  <1> QED BY <1>1, <1>2

\* What is appended to the second of two sequences is appended to both.
LEMMA AppendRight ==
  ASSUME NEW S, NEW b \in Seq(S), NEW w \in Seq(S), NEW x \in S
  PROVE  b \o Append(w, x) = Append(b \o w, x)
  <1>1. b \o w \in Seq(S)
    BY ConcatProperties
  <1>2. <<x>> \in Seq(S)
    OBVIOUS
  <1>3. Append(w, x) = w \o <<x>> /\ Append(b \o w, x) = (b \o w) \o <<x>>
    BY <1>1, AppendIsConcat
  <1>4. (b \o w) \o <<x>> = b \o (w \o <<x>>)
    BY <1>2, ConcatAssociative
  <1> QED BY <1>1, <1>3, <1>4

\* A client sends a line, or the data it owes.
LEMMA Sent ==
  ASSUME Inv, NEW c \in Conns, ConnOK(c), NEW x \in ItemsOf(c),
         wire' = [wire EXCEPT ![c] = Append(@, x)], UNCHANGED <<buf, out, proc, astray>>,
         client[c].owes = IF x.part = "data" THEN x.of ELSE NoCommand,
         client'[c].owes = Asks(x),
         client'[c].plan \in Seq(CommandsOf(c)), client[c].state # "left"
  PROVE  ConnOK(c)'
  <1>1. /\ buf[c] \in Seq(ItemsOf(c)) /\ wire[c] \in Seq(ItemsOf(c))
        /\ buf'[c] = buf[c] /\ wire'[c] = Append(wire[c], x)
    BY DEF ConnOK, Spoken, Inv, StreamsOK
  <1>2. wire'[c] \in Seq(ItemsOf(c)) /\ wire'[c] # <<>>
    BY <1>1, AppendProperties
  <1>3. PICK s \in Seq(ItemsOf(c)) : s = Stream(c) /\ Stream(c)' = Append(s, x)
    <2>1. PICK b, w : /\ b = buf[c] /\ w = wire[c]
                      /\ b \in Seq(ItemsOf(c)) /\ w \in Seq(ItemsOf(c))
      BY <1>1
    <2>2. b \o w \in Seq(ItemsOf(c))
      BY <2>1, ConcatProperties
    <2>3. b \o Append(w, x) = Append(b \o w, x)
      <3>1. b \in Seq(ItemsOf(c)) /\ w \in Seq(ItemsOf(c)) /\ x \in ItemsOf(c)
        BY <2>1
      <3> DEFINE S == ItemsOf(c)
      <3>2. b \in Seq(S) /\ w \in Seq(S) /\ x \in S
        BY <3>1
      <3> HIDE DEF S
      <3> QED BY ONLY <3>2, AppendRight
    <2> QED BY <1>1, <2>1, <2>2, <2>3 DEF Stream
  <1>4. Stream(c)' # <<>>
    BY <1>3, AppendProperties
  <1>5. InOrder(c)' /\ DataAhead(c)' = DataAhead(c) /\ ~Over(c)
    <2>1. PICK owes, strays :
            /\ owes = client[c].owes /\ strays = (c \notin astray)
            /\ Paired(s, owes, strays)
      BY <1>3 DEF ConnOK, Synced, InOrder
    <2>2. /\ Paired(Append(s, x), Asks(x), strays)
          /\ Ahead(Append(s, x), Asks(x), 0) = Ahead(s, owes, 0)
      BY <2>1, PairedAppend
    <2>3. strays <=> c \notin astray'
      BY <2>1
    <2> QED BY <1>3, <2>1, <2>2, <2>3 DEF InOrder, Paired, DataAhead, Over
  <1>6. Spoken(c)'
    BY <1>1, <1>2 DEF ConnOK, Spoken, Cmd, Asks, ItemsOf
  <1>7. Synced(c)'
    BY <1>5 DEF ConnOK, Synced, At, Cmd
  <1>8. Replied(c)' /\ Flushed(c)'
    BY <1>4, <1>5 DEF ConnOK, Replied, AnswersDue, Flushed, At, Cmd
  <1> QED BY <1>6, <1>7, <1>8 DEF ConnOK

LEMMA ClientOK ==
  ASSUME Inv, NEW c \in Conns, ConnOK(c), Send(c) \/ SendData(c) \/ Leave(c)
  PROVE  ConnOK(c)' /\ OnlyHere(c)
  <1>1. client \in [Conns -> [plan : Seq(Commands), owes : Commands \cup {NoCommand},
                              state : {"new", "open", "left"}]]
    BY DEF Inv, StreamsOK
  <1>2. CASE Send(c)
    <2>1. PICK plan : plan = client[c].plan /\ plan \in Seq(CommandsOf(c)) /\ plan # <<>>
      BY <1>2 DEF Send, ConnOK, Spoken
    <2>2. Head(plan) \in CommandsOf(c) /\ Tail(plan) \in Seq(CommandsOf(c))
      BY <2>1, HeadTailProperties
    <2>3. PICK cmd \in CommandsOf(c) : cmd = Head(plan)
      BY <2>2
    <2> DEFINE x == Item("line", cmd)
               owes == IF HasData(cmd) THEN cmd ELSE NoCommand
               next == [plan |-> Tail(client[c].plan), state |-> "open", owes |-> owes]
    <2>4. /\ wire' = [wire EXCEPT ![c] = Append(@, x)]
          /\ client' = [client EXCEPT ![c] = next]
          /\ UNCHANGED <<buf, out, proc, astray>>
          /\ client[c].owes = NoCommand /\ client[c].state # "left"
      BY <1>2, <2>1, <2>3 DEF Send
    <2>5. client'[c].owes = owes /\ client'[c].plan = Tail(plan)
      BY <1>1, <2>1, <2>4
    <2>6. x \in ItemsOf(c) /\ x.part = "line" /\ Asks(x) = owes
      BY DEF ItemsOf, Item, Asks
    <2>7. OnlyHere(c)
      BY <1>1, <2>4 DEF OnlyHere, Inv, StreamsOK
    <2> HIDE DEF x, owes, next
    <2> QED BY <2>2, <2>4, <2>5, <2>6, <2>7, Sent
  <1>3. CASE SendData(c)
    <2>1. PICK cmd \in CommandsOf(c) : cmd = client[c].owes /\ client[c].state = "open"
      BY <1>3 DEF SendData, ConnOK, Spoken
    <2> DEFINE x == Item("data", cmd)
    <2>2. /\ wire' = [wire EXCEPT ![c] = Append(@, x)]
          /\ client' = [client EXCEPT ![c].owes = NoCommand]
          /\ UNCHANGED <<buf, out, proc, astray>>
      BY <1>3, <2>1 DEF SendData
    <2>3. client'[c].owes = NoCommand /\ client'[c].plan = client[c].plan
      BY <1>1, <2>2
    <2>4. x \in ItemsOf(c) /\ x.part = "data" /\ x.of = cmd /\ Asks(x) = NoCommand
      BY DEF ItemsOf, Item, Asks
    <2>5. OnlyHere(c)
      BY <1>1, <2>2 DEF OnlyHere, Inv, StreamsOK
    <2>6. client'[c].plan \in Seq(CommandsOf(c))
      BY <2>3 DEF ConnOK, Spoken
    <2> HIDE DEF x
    <2> QED BY <2>1, <2>2, <2>3, <2>4, <2>5, <2>6, Sent
  <1>4. CASE Leave(c)
    <2>1. /\ client' = [client EXCEPT ![c].state = "left"]
          /\ UNCHANGED <<wire, buf, out, proc, astray>> /\ client[c].state = "open"
      BY <1>4 DEF Leave
    <2>2. /\ client'[c].owes = client[c].owes /\ client'[c].plan = client[c].plan
          /\ client'[c].state = "left"
      BY <1>1, <2>1
    <2>3. Stream(c)' = Stream(c) /\ DataAhead(c)' = DataAhead(c) /\ Cmd(c)' = Cmd(c)
      BY <2>1, <2>2 DEF Stream, DataAhead, Cmd
    <2>4. InOrder(c)' /\ ~Over(c)
      BY <2>1, <2>2, <2>3 DEF ConnOK, Synced, InOrder, Paired, Over
    <2>5. Spoken(c)' /\ Synced(c)'
      BY <2>1, <2>2, <2>3, <2>4 DEF ConnOK, Spoken, Synced, At
    <2>6. Replied(c)' /\ Flushed(c)'
      BY <2>1, <2>2, <2>3, <2>4 DEF ConnOK, Replied, AnswersDue, Flushed, At
    <2>7. OnlyHere(c)
      BY <1>1, <2>1 DEF OnlyHere
    <2> QED BY <2>5, <2>6, <2>7 DEF ConnOK
  <1> QED BY <1>2, <1>3, <1>4

AllOK == \A c \in Conns : ConnOK(c)

LEMMA NextAllOK == Inv /\ AllOK /\ [Next]_vars => AllOK'
  <1> SUFFICES ASSUME Inv, AllOK, [Next]_vars PROVE AllOK'
    OBVIOUS
  <1>1. \A c \in Conns : ConnOK(c)' /\ OnlyHere(c) => AllOK'
    BY ConnSame DEF AllOK, OnlyHere
  <1>2. CASE \E c \in Conns : Send(c) \/ SendData(c) \/ Leave(c)
    BY <1>1, <1>2, ClientOK DEF AllOK
  <1>3. CASE (\E c \in TextConns : TextStep(c)) \/ (\E c \in BinaryConns : BinaryStep(c))
    BY <1>1, <1>3, StepOK, TextPart, BinaryPart DEF AllOK
  <1>4. CASE UNCHANGED <<client, wire, buf, out, proc, astray>>
    BY <1>4, ConnSame DEF AllOK
  <1>5. CASE \E k \in Keys : Lose(k)
    BY <1>4, <1>5 DEF Lose
  <1>6. CASE UNCHANGED vars
    BY <1>4, <1>6 DEF vars
  <1> QED BY <1>2, <1>3, <1>5, <1>6 DEF Next

LEMMA InitAllOK == Init => AllOK
  <1> SUFFICES ASSUME Init, NEW c \in Conns PROVE ConnOK(c)
    BY DEF AllOK
  <1>1. wire[c] = <<>> /\ buf[c] = <<>> /\ ~out[c] /\ proc[c] = Idle /\ astray = {}
    BY DEF Init
  <1>2. PICK session \in Sessions :
          client[c] = [plan |-> session[c], owes |-> NoCommand, state |-> "new"]
    BY DEF Init
  <1>3. client[c].plan \in Seq(CommandsOf(c)) /\ client[c].owes = NoCommand
    BY <1>2, ConnectionAssumption
  <1>4. Cmd(c) = NoCommand /\ At(c, "read")
    BY <1>1 DEF Cmd, At, Idle
  <1>5. Stream(c) = <<>> /\ Len(Stream(c)) = 0
    <2>1. <<>> \in Seq(ItemsOf(c))
      OBVIOUS
    <2>2. Stream(c) = <<>>
      BY <1>1, <2>1, StreamTail DEF Stream
    <2> QED BY <2>2
  <1>6. Spoken(c)
    BY <1>1, <1>3, <1>4, EmptySeq DEF Spoken
  <1>7. Synced(c) /\ Replied(c) /\ Flushed(c)
    BY <1>1, <1>3, <1>4, <1>5
       DEF Synced, InOrder, Paired, DataAhead, Ahead, Replied, Flushed, At, Working
  <1> QED BY <1>6, <1>7 DEF ConnOK

LEMMA SpecAllOK == Spec => []AllOK
  BY InitAllOK, NextAllOK, SpecInv, PTL DEF Spec

-----------------------------------------------------------------------------
(* Expiries: every entry's is one that its client asked for. *)

\* Whoever asks for an expiry is given one, but for a moment in the past asked for
\* in the binary protocol.
Lasts(e) == e.exptime # 0 => e.ttl > 0 \/ (e.binary /\ Past(e.exptime))

LEMMA Later ==
  ASSUME NEW exptime \in Nat \ {0}, ~Past(exptime)
  PROVE  exptime * TicksPerSecond - (IF exptime > Month THEN Now ELSE 0) > 0
  <1>1. PICK ticks : ticks = exptime * TicksPerSecond /\ ticks \in Nat \ {0}
    BY ConnectionAssumption
  <1> QED BY <1>1, ConnectionAssumption DEF Past

LEMMA TextLasts ==
  ASSUME NEW c, Cmd(c) \in Commands
  PROVE  Lasts(TextExpiry(c))
  <1>1. PICK exptime \in Int : exptime = Cmd(c).exptime
    BY CommandType
  <1>2. exptime # 0 => TextTTL(c) > 0
    BY <1>1, Later DEF TextTTL
  <1> QED BY <1>1, <1>2 DEF Lasts, TextExpiry, Expiry

LEMMA BinaryLasts ==
  ASSUME NEW c \in BinaryConns, Cmd(c) \in CommandsOf(c)
  PROVE  Lasts(BinaryExpiry(c))
  <1>1. PICK exptime \in Nat : exptime = Cmd(c).exptime
    BY BinaryPart, Speaks
  <1>2. exptime # 0 => BinaryTTL(c) > 0 \/ Past(exptime)
    BY <1>1, Later DEF BinaryTTL
  <1> QED BY <1>1, <1>2 DEF Lasts, BinaryExpiry, Expiry

\* What the calls of the cache do to the expiries.
LEMMA EnterLasts ==
  ASSUME ExpiryKept, NEW k, NEW slice, NEW v, NEW e, Lasts(e), Enter(k, slice, v, e)
  PROVE  ExpiryKept'
  <1> SUFFICES ASSUME NEW j \in DOMAIN store' PROVE Lasts(store'[j].expiry)
    BY DEF ExpiryKept, Lasts, Past
  <1>1. /\ DOMAIN store' = DOMAIN store \cup {k} /\ store'[k].expiry = e
        /\ \A i \in DOMAIN store : i # k => store'[i] = store[i]
    BY DEF Enter, With
  <1>2. CASE j = k
    BY <1>1, <1>2
  <1>3. CASE j # k
    <2>1. j \in DOMAIN store /\ store'[j] = store[j]
      BY <1>1, <1>3
    <2> QED BY <2>1 DEF ExpiryKept, Lasts, Past
  <1> QED BY <1>2, <1>3

LEMMA PutLasts ==
  ASSUME ExpiryKept, NEW c, NEW k, NEW v, NEW e, Lasts(e), Put(c, k, v, e)
  PROVE  ExpiryKept'
  BY EnterLasts DEF Put

LEMMA ChangeLasts ==
  ASSUME ExpiryKept, NEW c, NEW k, NEW v, Has(k), Change(c, k, v)
  PROVE  ExpiryKept'
  <1>1. PICK e : e = store[k].expiry
    OBVIOUS
  <1>2. Lasts(e)
    BY <1>1 DEF ExpiryKept, Lasts, Past, Has
  <1> QED BY <1>1, <1>2, PutLasts DEF Change

LEMMA RenewLasts ==
  ASSUME ExpiryKept, NEW k, NEW e, Lasts(e), Renew(k, e)
  PROVE  ExpiryKept'
  BY EnterLasts DEF Renew

LEMMA DropLasts == ASSUME ExpiryKept, NEW k, Drop(k) PROVE ExpiryKept'
  BY DEF ExpiryKept, Drop, Past

LEMMA UnchangedLasts == ASSUME ExpiryKept, UNCHANGED store PROVE ExpiryKept'
  BY DEF ExpiryKept, Past

LEMMA TextStepLasts ==
  ASSUME Inv, ExpiryKept, NEW c \in TextConns, TextStep(c)
  PROVE  ExpiryKept'
  <1>1. proc[c].at \in {"call", "touch"} => Lasts(TextExpiry(c))
    BY TextPart, Busy, TextLasts
  <1>2. CASE UNCHANGED store
    BY <1>2, UnchangedLasts
  <1>3. CASE HandleTextStorage(c)
    BY <1>1, <1>2, <1>3, PutLasts DEF HandleTextStorage, Calls, At, cacheVars
  <1>4. CASE HandleTextAppendPrepend(c)
    <2>1. Storable(Cmd(c).op, Key(c)) => Has(Key(c))
      BY <1>4 DEF HandleTextAppendPrepend, Calls, Storable, Appends
    <2> QED BY <1>2, <1>4, <2>1, ChangeLasts DEF HandleTextAppendPrepend, cacheVars
  <1>5. CASE HandleTextCas(c)
    BY <1>1, <1>2, <1>5, PutLasts DEF HandleTextCas, Calls, At, cacheVars
  <1>6. CASE HandleTextIncrDecr(c)
    BY <1>2, <1>6, ChangeLasts DEF HandleTextIncrDecr, cacheVars
  <1>7. CASE HandleTextDelete(c) \/ HandleTextFlushAll(c)
    BY <1>2, <1>7, DropLasts DEF HandleTextDelete, HandleTextFlushAll, cacheVars
  <1>8. CASE HandleTextTouch(c) \/ HandleTextGat(c)
    BY <1>1, <1>2, <1>8, RenewLasts
       DEF HandleTextTouch, HandleTextGat, Calls, At, cacheVars
  <1>9. CASE \/ HandleText(c) \/ ReadData(c) \/ ReadBytes(c) \/ HangUp(c)
             \/ HandleTextGet(c) \/ WriteValue(c)
    BY <1>2, <1>9
       DEF HandleText, ReadData, ReadBytes, HangUp, HandleTextGet, WriteValue, cacheVars
  <1> QED BY <1>3, <1>4, <1>5, <1>6, <1>7, <1>8, <1>9 DEF TextStep

LEMMA BinaryStepLasts ==
  ASSUME Inv, AllOK, ExpiryKept, NEW c \in BinaryConns, BinaryStep(c)
  PROVE  ExpiryKept'
  <1>1. At(c, "call") => Lasts(BinaryExpiry(c))
    <2>1. At(c, "call") => Cmd(c) \in CommandsOf(c)
      BY BinaryPart, Busy, ConnectionAssumption DEF AllOK, ConnOK, Spoken, At
    <2> QED BY <2>1, BinaryLasts
  <1>2. CASE UNCHANGED store
    BY <1>2, UnchangedLasts
  <1>3. CASE HandleBinaryStorage(c)
    BY <1>1, <1>2, <1>3, PutLasts DEF HandleBinaryStorage, Calls, cacheVars
  <1>4. CASE HandleBinaryAppendPrepend(c)
    <2>1. Storable(Cmd(c).op, Key(c)) => Has(Key(c))
      BY <1>4 DEF HandleBinaryAppendPrepend, Calls, Storable, BinaryAppends
    <2> QED BY <1>2, <1>4, <2>1, ChangeLasts DEF HandleBinaryAppendPrepend, cacheVars
  <1>5. CASE HandleBinaryIncrDecr(c)
    BY <1>2, <1>5, ChangeLasts DEF HandleBinaryIncrDecr, cacheVars
  <1>6. CASE HandleBinaryDelete(c) \/ HandleBinaryFlush(c)
    BY <1>2, <1>6, DropLasts DEF HandleBinaryDelete, HandleBinaryFlush, cacheVars
  <1>7. CASE HandleBinaryTouch(c) \/ HandleBinaryGAT(c)
    BY <1>1, <1>2, <1>7, RenewLasts
       DEF HandleBinaryTouch, HandleBinaryGAT, Calls, cacheVars
  <1>8. CASE \/ HandleBinary(c) \/ ReadBody(c) \/ HangUpBinary(c)
             \/ HandleBinaryGet(c) \/ WriteResponse(c)
    BY <1>2, <1>8
       DEF HandleBinary, ReadBody, HangUpBinary, HandleBinaryGet, WriteResponse, cacheVars
  <1> QED BY <1>3, <1>4, <1>5, <1>6, <1>7, <1>8 DEF BinaryStep

LEMMA NextLasts == Inv /\ AllOK /\ ExpiryKept /\ [Next]_vars => ExpiryKept'
  <1> SUFFICES ASSUME Inv, AllOK, ExpiryKept, [Next]_vars PROVE ExpiryKept'
    OBVIOUS
  <1>1. CASE UNCHANGED vars
    BY <1>1, UnchangedLasts DEF vars
  <1>2. CASE \E c \in Conns : Send(c) \/ SendData(c) \/ Leave(c)
    BY <1>2, UnchangedLasts DEF Send, SendData, Leave, cacheVars
  <1>3. CASE \E k \in Keys : Lose(k)
    BY <1>3, DropLasts DEF Lose
  <1> QED BY <1>1, <1>2, <1>3, TextStepLasts, BinaryStepLasts DEF Next

-----------------------------------------------------------------------------
(* The theorems *)

\* An item whose client asked for an expiry has one, through appends, counts,
\* touches and stores of both protocols, whatever the time and the longest relative
\* expiry; only the binary protocol gives none for a moment in the past.
THEOREM ExpiryAlwaysKept == Spec => []ExpiryKept
  <1>1. Init => ExpiryKept
    BY DEF Init, ExpiryKept
  <1> QED BY <1>1, NextLasts, SpecInv, SpecAllOK, PTL DEF Spec

\* Where nothing is under way there is no input, and the other way round.
LEMMA NothingUnderWay ==
  ASSUME NEW c, Spoken(c)
  PROVE  NoInput(c) <=> Stream(c) = <<>>
  BY StreamTail DEF NoInput, Input, Stream, Spoken

\* A command that asks for a response gets exactly one, on every path through the
\* handlers of both protocols, and one that wants none gets none but an error, or
\* none but for want of data.
THEOREM AnsweredOnceEver == Spec => []AnsweredOnce
  <1>1. ASSUME AllOK PROVE AnsweredOnce
    <2> SUFFICES ASSUME NEW c \in Conns, At(c, "read"), Cmd(c) # NoCommand
                 PROVE  /\ proc[c].answers <= 1
                        /\ Solicits(Cmd(c)) => proc[c].answers = 1
                        /\ Cmd(c).noreply /\ Cmd(c).form = "ok" /\ proc[c].answers = 1
                             => \/ Cmd(c).op \in Counts \/ client[c].owes = Cmd(c)
                                \/ c \in astray /\ EndOfInput(c)
      BY DEF AnsweredOnce
    <2>1. AnswersDue(c, Cmd(c), proc[c].answers) /\ Spoken(c)
      BY <1>1 DEF AllOK, ConnOK, Replied
    <2>2. Over(c) => EndOfInput(c)
      BY <2>1, NothingUnderWay DEF Over, EndOfInput
    <2> QED BY <2>1, <2>2 DEF AnswersDue
  <1> QED BY <1>1, SpecAllOK, PTL

\* A goroutine that waits for the data of a line its client has sent takes these and
\* nothing else, whatever lines were refused before and whatever was read out of
\* their data; and until a storage command is among what it reads there, it takes
\* nobody's data for lines but those of a line it has refused for its fields.
THEOREM InStepAlways == Spec => []InStep
  <1>1. ASSUME Inv, AllOK PROVE InStep
    <2> SUFFICES ASSUME NEW c \in Conns, ~NoInput(c)
                 PROVE  LET item == Head(Input(c)) IN
                        /\ At(c, "data") => item.part = "data" /\ item.of = Cmd(c)
                        /\ At(c, "read") /\ item.part = "data" /\ c \notin astray =>
                             /\ c \in TextConns /\ item.of = Cmd(c)
                             /\ Skips(Cmd(c))
      BY DEF InStep, Skips
    <2>1. ConnOK(c)
      BY <1>1 DEF AllOK
    <2>2. PICK item \in ItemsOf(c) :
            /\ item = Head(Input(c)) /\ Stream(c) # <<>>
            /\ DataAhead(c) = IF item.part = "data" THEN item.of ELSE NoCommand
      BY <2>1, FirstItem
    <2>3. item.of # NoCommand
      BY <2>2, Speaks DEF ItemsOf
    <2>4. At(c, "data") => Cmd(c) # NoCommand
      BY <1>1, Busy, ConnectionAssumption DEF At
    <2> QED BY <2>1, <2>2, <2>3, <2>4 DEF ConnOK, Synced, Over
  <1> QED BY <1>1, SpecInv, SpecAllOK, PTL

\* Responses stay behind in a writer only after an empty line, be it the empty data
\* block of a refused line, before the end of the connection, in the middle of a
\* command that the client does not finish, or while a storage command that was read
\* out of a data block waits for data of its own.
THEOREM WithheldAlwaysKnown == Spec => []WithheldKnown
  <1>1. ASSUME Inv, AllOK PROVE WithheldKnown
    <2> SUFFICES ASSUME NEW c \in Conns, out[c],
                        \/ At(c, "returned")
                        \/ NoInput(c) /\ (At(c, "read") \/ At(c, "data"))
                 PROVE  \/ Cmd(c).op \in {"blank", "QUIT", "opQuit", "magic"}
                        \/ HasData(Cmd(c)) /\ client[c].owes = Cmd(c)
      BY DEF WithheldKnown, At
    <2>1. ConnOK(c) /\ Spoken(c) /\ Flushed(c)
      BY <1>1 DEF AllOK, ConnOK
    <2>2. NoInput(c) => Stream(c) = <<>>
      BY <2>1, NothingUnderWay
    <2>3. CASE At(c, "data") /\ NoInput(c)
      BY <1>1, <2>1, <2>3, Waiting
    <2> QED BY <2>1, <2>2, <2>3 DEF Flushed
  <1> QED BY <1>1, SpecInv, SpecAllOK, PTL

AstrayOK == astray \subseteq TextConns

LEMMA SpecAstray == Spec => []AstrayOK
  <1>1. Init => AstrayOK
    BY DEF Init, AstrayOK
  <1>2. AstrayOK /\ [Next]_vars => AstrayOK'
    <2> SUFFICES ASSUME AstrayOK, [Next]_vars PROVE AstrayOK'
      OBVIOUS
    <2> USE DEF AstrayOK
    <2>1. CASE UNCHANGED astray
      BY <2>1
    <2>2. CASE \E c \in TextConns : HandleText(c)
      BY <2>2 DEF HandleText
    <2>3. ASSUME NEW c \in TextConns, TextStep(c), ~HandleText(c) PROVE UNCHANGED astray
      BY <2>3
         DEF TextStep, ReadData, Consume, ReadBytes, HangUp, HandleTextStorage,
             HandleTextAppendPrepend, HandleTextCas, HandleTextIncrDecr, HandleTextDelete,
             HandleTextTouch, HandleTextFlushAll, HandleTextGet, HandleTextGat, WriteValue,
             NothingRead
    <2>4. ASSUME NEW c \in BinaryConns, BinaryStep(c) PROVE UNCHANGED astray
      BY <2>4
         DEF BinaryStep, HandleBinary, Consume, ReadBody, HangUpBinary,
             HandleBinaryStorage, HandleBinaryAppendPrepend, HandleBinaryIncrDecr,
             HandleBinaryDelete, HandleBinaryTouch, HandleBinaryFlush, HandleBinaryGet,
             HandleBinaryGAT, WriteResponse, NothingRead
    <2>5. ASSUME \/ \E c \in Conns : Send(c) \/ SendData(c) \/ Leave(c)
                 \/ \E k \in Keys : Lose(k)
                 \/ UNCHANGED vars
          PROVE  UNCHANGED astray
      BY <2>5 DEF Send, SendData, Leave, Lose, vars
    <2> QED BY <2>1, <2>2, <2>3, <2>4, <2>5 DEF Next
  <1> QED BY <1>1, <1>2, PTL DEF Spec

\* The variables of the two protocols and of the cache they share keep their types,
\* and every slice and token that a goroutine or an entry holds has been made.
THEOREM TypeCorrect == Spec => []TypeOK
  <1>1. ASSUME Inv, AstrayOK PROVE TypeOK
    <2>1. \A k \in DOMAIN store :
            store[k] \in [slice : Slices, cas : 1..casCounter,
                          expiry : [ttl : Int, exptime : Int, binary : BOOLEAN]]
      BY <1>1 DEF Inv, CacheOK, Tokens, Expiries
    <2>2. /\ Slices \subseteq 1..casCounter \cup Buffers
          /\ issued \in [1..casCounter -> [key : Keys, value : Value]]
          /\ astray \subseteq Conns
      BY <1>1, TextPart DEF Inv, CacheOK, Tokens, AstrayOK
    <2> QED BY <1>1, <2>1, <2>2
            DEF TypeOK, Inv, CacheOK, ProcOK, PoolOK, StreamsOK, ToldOK, Locals
  <1> QED BY <1>1, SpecInv, SpecAstray, PTL

\* Whatever the clients of both protocols do to a key while a value of it is on its
\* way to another client, that client is told a value with the token it was issued
\* under (but for the binary get-and-touch).
THEOREM TellsIssuedAlways == Spec => []TellsIssued
  <1>1. Inv => TellsIssued
    BY DEF Inv, ToldOK, Good, TellsIssued
  <1> QED BY <1>1, SpecInv, PTL

\* A cas with a token that a client was told overwrites the value it was told with
\* it, or fails, for all commands of both protocols.
THEOREM NoBlindCasEver == Spec => []NoBlindCas
  <1>1. Inv => NoBlindCas
    BY DEF Inv, ToldOK, Good, NoBlindCas
  <1> QED BY <1>1, SpecInv, PTL

\* A body buffer is never in the pool while a handler has it, nor with two handlers.
THEOREM BuffersAlwaysExclusive == Spec => []BuffersExclusive
  <1>1. Inv => BuffersExclusive
    BY ConnectionAssumption DEF Inv, PoolOK, BuffersExclusive
  <1> QED BY <1>1, SpecInv, PTL
=============================================================================
