--------------------------- MODULE BinaryProtocol ---------------------------
(***************************************************************************)
(* handleBinary and the handlers of the opcodes, pkg/server/binary.go.     *)
(* Opcodes bear the names of the constants, other than those of Opcodes    *)
(* are answered without calling the cache (noop, version, statistics,      *)
(* unknown ones); "magic" is a message that does not begin with 0x80.      *)
(***************************************************************************)
EXTENDS Connection

BinaryStores == {"opSet", "opAdd", "opReplace"}
BinaryAppends == {"opAppend", "opPrepend"}
BinaryCounts == {"opIncrement", "opDecrement"}
BinaryGets == {"opGet", "opGetQ", "opGetK", "opGetKQ"}
BinaryGats == {"opGAT", "opGATK"}
Opcodes == BinaryStores \cup BinaryAppends \cup BinaryCounts \cup BinaryGets
             \cup BinaryGats \cup {"opDelete", "opTouch", "opFlush"}

Quiet == {"opGetQ", "opGetKQ"}

-----------------------------------------------------------------------------
(* Messages *)

\* Opcodes whose handlers look at the length of the extras; append and prepend
\* want none.
ChecksExtras == Opcodes \ (BinaryGets \cup {"opDelete", "opFlush"})

\* Answered without calling the cache.
AtOnce(cmd) ==
  cmd.op \notin Opcodes \/ (cmd.op \in ChecksExtras /\ cmd.form = "extras")

\* The header, with the rest of the message unless that has still to come: a
\* buffer is taken from the pool and filled.  (If nothing else happens in between,
\* it is given back in the same step.)
HandleBinary(c) ==
  /\ At(c, "read") /\ Consume(c)
  /\ LET cmd == Head(Input(c)).of
         begun == [Idle EXCEPT !.cmd = cmd, !.at = "returned"]
     IN IF cmd.op = "magic" THEN Continue(c, begun) /\ UNCHANGED mem
        ELSE \E b \in pool :
          /\ mem' = [mem EXCEPT ![b] = NoValue]
          /\ IF cmd.op = "opQuit" THEN Continue(c, begun)
             ELSE IF AtOnce(cmd) /\ ~HasData(cmd) THEN Finish(c, cmd, 1)
             ELSE /\ proc' = [proc EXCEPT ![c] = [begun EXCEPT
                       !.at = IF HasData(cmd) THEN "data" ELSE "call",
                       !.todo = cmd.keys, !.buffer = b]]
                  /\ pool' = pool \ {b} /\ UNCHANGED out
  /\ UNCHANGED <<store, casCounter, issued, client, told>>

\* Mutant: the buffer is given back before the handler runs.
ReadBodyReleased(c) ==
  /\ At(c, "data") /\ Consume(c)
  /\ mem' = [mem EXCEPT ![proc[c].buffer] = Cmd(c).value]
  /\ pool' = pool \cup {proc[c].buffer}
  /\ proc' = [proc EXCEPT ![c].at = "call"]
  /\ UNCHANGED <<store, casCounter, issued, client, out, told>>

\* The rest of a message with a value.
ReadBody(c) ==
  /\ At(c, "data") /\ Consume(c)
  /\ mem' = [mem EXCEPT ![proc[c].buffer] = Cmd(c).value]
  /\ IF AtOnce(Cmd(c)) THEN Answer(c) ELSE Goto(c, "call")
  /\ UNCHANGED <<store, casCounter, issued, client, told>>

\* The client has left, maybe in the middle of a message.
HangUpBinary(c) ==
  /\ EndOfInput(c) /\ NothingRead
  /\ At(c, "read") \/ At(c, "data")
  /\ pool' = pool \cup ({proc[c].buffer} \ {NoBuffer})
  /\ proc' = [proc EXCEPT ![c].at = "returned", ![c].buffer = NoBuffer]
  /\ UNCHANGED <<cacheVars, out, told>>

-----------------------------------------------------------------------------
(* The handlers call the cache and write what it answers. *)

\* No expiry, a duration, or a moment; the TTL of a moment in the past is not
\* positive, and the worker gives no expiry to an entry with such a TTL.
BinaryTTL(c) ==
  LET expiry == Cmd(c).exptime
  IN expiry * TicksPerSecond - IF expiry > Month THEN Now ELSE 0

BinaryExpiry(c) == Expiry(c, BinaryTTL(c))

\* A token makes any store a cas.  Whatever the reason, a store that is refused
\* is answered as not stored: the cache has errors of its own, and those the
\* handler compares with are never returned.
HandleBinaryStorage(c) ==
  /\ Calls(c, BinaryStores) /\ NothingRead
  /\ IF IF Cmd(c).cas > 0 THEN Has(Key(c)) /\ store[Key(c)].cas = Cmd(c).cas
                          ELSE Storable(Cmd(c).op, Key(c))
     THEN /\ Put(c, Key(c), Body(c), BinaryExpiry(c))
          /\ Tell(c, Key(c), Cmd(c).value, NewToken)
     ELSE UNCHANGED <<cacheVars, told>>
  /\ Answer(c)

HandleBinaryAppendPrepend(c) ==
  /\ Calls(c, BinaryAppends) /\ NothingRead
  /\ IF Storable(Cmd(c).op, Key(c))
     THEN Change(c, Key(c), Joined(c, Key(c), Cmd(c).op = "opPrepend"))
     ELSE UNCHANGED cacheVars
  /\ Answer(c) /\ UNCHANGED told

\* The branch that would create a missing counter is never taken.
HandleBinaryIncrDecr(c) ==
  /\ Calls(c, BinaryCounts) /\ NothingRead
  /\ IF Has(Key(c)) /\ Numeric(Key(c))
     THEN LET v == Sum(Cmd(c).op, Key(c), Cmd(c).value.num)
          IN Change(c, Key(c), v) /\ Tell(c, Key(c), v, NewToken)
     ELSE UNCHANGED <<cacheVars, told>>
  /\ Answer(c)

HandleBinaryDelete(c) ==
  /\ Calls(c, {"opDelete"}) /\ NothingRead
  /\ Drop(Key(c))
  /\ Answer(c) /\ UNCHANGED told

HandleBinaryTouch(c) ==
  /\ Calls(c, {"opTouch"}) /\ NothingRead
  /\ IF Has(Key(c)) THEN Renew(Key(c), BinaryExpiry(c)) ELSE UNCHANGED cacheVars
  /\ Answer(c) /\ UNCHANGED told

HandleBinaryFlush(c) ==
  /\ Calls(c, {"opFlush"}) /\ NothingRead
  /\ IF proc[c].todo = <<>> THEN UNCHANGED cacheVars /\ Answer(c)
     ELSE Drop(Key(c)) /\ Continue(c, [proc[c] EXCEPT !.todo = Tail(@)])
  /\ UNCHANGED told

\* handleBinaryGet and handleBinaryGetK up to the response; the second call of
\* handleBinaryGATCommon, which keeps the token of the first.
HandleBinaryGet(c) ==
  /\ Calls(c, BinaryGets) \/ At(c, "get")
  /\ NothingRead
  /\ IF Has(Key(c))
     THEN Continue(c, [proc[c] EXCEPT
            !.slice = store[Key(c)].slice,
            !.cas = IF At(c, "get") THEN @ ELSE store[Key(c)].cas,
            !.at = "write"])
     ELSE AnswerUnless(Cmd(c).op \in Quiet, c)
  /\ UNCHANGED <<cacheVars, told>>

\* handleBinaryGATCommon begins with the touch.
HandleBinaryGAT(c) ==
  /\ Calls(c, BinaryGats) /\ NothingRead
  /\ IF Has(Key(c))
     THEN /\ Renew(Key(c), BinaryExpiry(c))
          /\ Continue(c, [proc[c] EXCEPT !.cas = NewToken, !.at = "get"])
     ELSE UNCHANGED cacheVars /\ Answer(c)
  /\ UNCHANGED told

\* sendBinaryResponse with a value
WriteResponse(c) ==
  /\ At(c, "write") /\ NothingRead
  /\ Tell(c, Key(c), mem[proc[c].slice], proc[c].cas)
  /\ Answer(c) /\ UNCHANGED cacheVars

BinaryStep(c) ==
  \/ HandleBinary(c) \/ ReadBody(c) \/ HangUpBinary(c)
  \/ HandleBinaryStorage(c) \/ HandleBinaryAppendPrepend(c) \/ HandleBinaryIncrDecr(c)
  \/ HandleBinaryDelete(c) \/ HandleBinaryTouch(c) \/ HandleBinaryFlush(c)
  \/ HandleBinaryGet(c) \/ HandleBinaryGAT(c) \/ WriteResponse(c)
=============================================================================
