---------------------------- MODULE TextProtocol ----------------------------
(***************************************************************************)
(* handleText and the handlers of the commands, pkg/server/text.go.  The   *)
(* commands bear their names, "blank" is an empty line, anything else is   *)
(* an unknown command.                                                     *)
(***************************************************************************)
EXTENDS Connection

Stores == {"SET", "ADD", "REPLACE"}
Appends == {"APPEND", "PREPEND"}
Counts == {"INCR", "DECR"}
Gets == {"GET", "GETS"}
Gats == {"GAT", "GATS"}
Handled == Stores \cup Appends \cup Counts \cup Gets \cup Gats
             \cup {"CAS", "DELETE", "TOUCH", "FLUSH_ALL"}

-----------------------------------------------------------------------------
(* Lines and data blocks *)

\* Mutant: a large value is refused without reading it.
RefusedEarly(cmd) ==
  \/ cmd.form = "short"
  \/ cmd.form = "malformed" /\ cmd.op \notin Appends \cup {"TOUCH"}
  \/ cmd.form = "large" /\ cmd.op \in Stores

\* Lines that are refused before anything else is read or done: short ones miss a
\* field or give no number for the length, malformed ones give none where flags,
\* an expiry or an amount should be.  Append and prepend do not look at flags and
\* expiry, touch takes anything for an expiry, and the token of a cas is looked at
\* after its data.
Refused(cmd) ==
  \/ cmd.form = "short"
  \/ cmd.form = "malformed" /\ cmd.op \notin Appends \cup {"TOUCH"}

\* What is next, as lines: the loop that meets the data block of a line it has
\* refused reads the first line of it, and the others in turn.
Lines(item) == IF item.part = "data" THEN LinesIn[item.of.block] ELSE <<item.of>>

\* A storage command whose line the client sent finds its data next; one that was
\* read out of a data block finds whatever was sent next, be it commands.
WhereData(item) == IF item.part = "line" THEN "data" ELSE "bytes"

\* A line, wherever it comes from: nothing happens for an empty one, and the loop
\* goes on without the flush.
HandleText(c) ==
  /\ At(c, "read")
  /\ LET item == Head(Input(c))
         cmd == Head(Lines(item))
         begun == [Idle EXCEPT !.cmd = cmd]
         served == cmd.op \in Handled /\ ~Refused(cmd)
     IN /\ TakeLeaving(c, Strays(Tail(Lines(item))))
        /\ IF cmd.op = "blank" THEN Continue(c, begun)
           ELSE IF cmd.op = "QUIT" THEN Continue(c, [begun EXCEPT !.at = "returned"])
           ELSE IF cmd.op = "VERBOSITY" THEN Finish(c, cmd, 0)
           ELSE IF ~served THEN Finish(c, cmd, 1)
           ELSE Continue(c, [begun EXCEPT
                  !.at = IF HasData(cmd) THEN WhereData(item) ELSE "call",
                  !.todo = cmd.keys])
        /\ astray' = IF served /\ HasData(cmd) /\ item.part # "line"
                     THEN astray \cup {c} ELSE astray
  /\ UNCHANGED <<cacheVars, client, told>>

\* The data are there.  A value that is too large is thrown away; a cas without a
\* proper token is refused only now.
DataRead(c) ==
  IF (Cmd(c).form = "large" /\ Cmd(c).op \in Stores) \/ Cmd(c).form = "token"
  THEN Answer(c) ELSE Goto(c, "call")

\* The data block of a command.
ReadData(c) ==
  /\ At(c, "data") /\ Consume(c) /\ DataRead(c)
  /\ UNCHANGED <<cacheVars, client, told>>

\* As many bytes as the line read out of a data block says, and one or two more
\* in place of the line's end, whatever they are: all of what is next and more of
\* what follows, or with something left of it.
ReadBytes(c) ==
  /\ At(c, "bytes")
  /\ \/ TakeLeaving(c, <<>>) /\ Continue(c, proc[c])
     \/ \E rest \in Fragments : TakeLeaving(c, Strays(rest)) /\ DataRead(c)
  /\ UNCHANGED <<cacheVars, client, told, astray>>

\* Mutant: a handler whose data does not come waits for them.
HangUpWaiting(c) ==
  /\ EndOfInput(c) /\ NothingRead
  /\ At(c, "read") /\ Goto(c, "returned")
  /\ UNCHANGED <<cacheVars, told>>

\* The client has left: between two commands, or before the end of the data.  The
\* handler does not mind if it misses nothing but the end of the line.
HangUp(c) ==
  /\ EndOfInput(c) /\ NothingRead
  /\ \/ At(c, "read") /\ Goto(c, "returned")
     \/ /\ At(c, "data") \/ At(c, "bytes")
        /\ (Cmd(c).value.len > 0 /\ Answer(c)) \/ DataRead(c)
  /\ UNCHANGED <<cacheVars, told>>

-----------------------------------------------------------------------------
(* The handlers call the cache and write what it answers. *)

Quietly(c) == AnswerUnless(Cmd(c).noreply, c)

\* Mutant: a moment in the past is taken for a duration.
TextTTLUnchecked(c) ==
  LET exptime == Cmd(c).exptime
  IN IF exptime < 0 THEN 1
     ELSE exptime * TicksPerSecond - IF exptime > Month THEN Now ELSE 0

\* No expiry, a duration, or a moment; what has expired already is given a TTL of
\* a nanosecond.
TextTTL(c) ==
  LET exptime == Cmd(c).exptime
  IN IF exptime < 0 \/ Past(exptime) THEN 1
     ELSE exptime * TicksPerSecond - IF exptime > Month THEN Now ELSE 0

TextExpiry(c) == Expiry(c, TextTTL(c))

\* Mutant: NOT_STORED is not the end of it.
HandleTextStorageTwice(c) ==
  /\ Calls(c, Stores) /\ NothingRead
  /\ IF Storable(Cmd(c).op, Key(c))
     THEN Put(c, Key(c), Body(c), TextExpiry(c)) /\ Quietly(c)
     ELSE UNCHANGED cacheVars /\ Finish(c, Cmd(c), 2)
  /\ UNCHANGED told

HandleTextStorage(c) ==
  /\ Calls(c, Stores) /\ NothingRead
  /\ IF Storable(Cmd(c).op, Key(c))
     THEN Put(c, Key(c), Body(c), TextExpiry(c)) ELSE UNCHANGED cacheVars
  /\ Quietly(c) /\ UNCHANGED told

HandleTextAppendPrepend(c) ==
  /\ Calls(c, Appends) /\ NothingRead
  /\ IF Storable(Cmd(c).op, Key(c))
     THEN Change(c, Key(c), Joined(c, Key(c), Cmd(c).op = "PREPEND"))
     ELSE UNCHANGED cacheVars
  /\ Quietly(c) /\ UNCHANGED told

HandleTextCas(c) ==
  /\ Calls(c, {"CAS"}) /\ NothingRead
  /\ IF Has(Key(c)) /\ store[Key(c)].cas = Cmd(c).cas
     THEN Put(c, Key(c), Body(c), TextExpiry(c))
     ELSE UNCHANGED cacheVars
  /\ Quietly(c) /\ UNCHANGED told

\* A counter that is not a number is reported whether or not a reply is wanted.
HandleTextIncrDecr(c) ==
  /\ Calls(c, Counts) /\ NothingRead
  /\ IF Has(Key(c)) /\ Numeric(Key(c))
     THEN Change(c, Key(c), Sum(Cmd(c).op, Key(c), Cmd(c).value.num))
     ELSE UNCHANGED cacheVars
  /\ IF Has(Key(c)) /\ ~Numeric(Key(c)) THEN Answer(c) ELSE Quietly(c)
  /\ UNCHANGED told

HandleTextDelete(c) ==
  /\ Calls(c, {"DELETE"}) /\ NothingRead
  /\ Drop(Key(c))
  /\ Quietly(c) /\ UNCHANGED told

HandleTextTouch(c) ==
  /\ Calls(c, {"TOUCH"}) /\ NothingRead
  /\ IF Has(Key(c)) THEN Renew(Key(c), TextExpiry(c)) ELSE UNCHANGED cacheVars
  /\ Quietly(c) /\ UNCHANGED told

\* FlushAll asks one worker after the other; each key is on a worker of its own.
HandleTextFlushAll(c) ==
  /\ Calls(c, {"FLUSH_ALL"}) /\ NothingRead
  /\ IF proc[c].todo = <<>> THEN UNCHANGED cacheVars /\ Quietly(c)
     ELSE Drop(Key(c)) /\ Continue(c, [proc[c] EXCEPT !.todo = Tail(@)])
  /\ UNCHANGED told

\* Mutant: the loop does not get past a key that is not found.
HandleTextGetStuck(c) ==
  /\ Calls(c, Gets \cup Gats) /\ NothingRead
  /\ IF proc[c].todo = <<>> THEN Answer(c)
     ELSE IF ~Has(Key(c)) THEN Continue(c, proc[c])
     ELSE Continue(c, [proc[c] EXCEPT
            !.slice = store[Key(c)].slice, !.cas = store[Key(c)].cas,
            !.at = IF Cmd(c).op \in Gats THEN "touch" ELSE "write"])
  /\ UNCHANGED <<cacheVars, told>>

\* Get and get-and-touch go from key to key and pass over those not found.
HandleTextGet(c) ==
  /\ Calls(c, Gets \cup Gats) /\ NothingRead
  /\ IF proc[c].todo = <<>> THEN Answer(c)
     ELSE IF ~Has(Key(c)) THEN Continue(c, [proc[c] EXCEPT !.todo = Tail(@)])
     ELSE Continue(c, [proc[c] EXCEPT
            !.slice = store[Key(c)].slice, !.cas = store[Key(c)].cas,
            !.at = IF Cmd(c).op \in Gats THEN "touch" ELSE "write"])
  /\ UNCHANGED <<cacheVars, told>>

\* The answer to the touch, and its new token, are ignored.
HandleTextGat(c) ==
  /\ At(c, "touch") /\ NothingRead
  /\ IF Has(Key(c)) THEN Renew(Key(c), TextExpiry(c)) ELSE UNCHANGED cacheVars
  /\ Goto(c, "write") /\ UNCHANGED told

TellText(c) ==
  IF Cmd(c).op \in {"GETS", "GATS"}
  THEN Tell(c, Key(c), mem[proc[c].slice], proc[c].cas) ELSE UNCHANGED told

\* A value is written; gets and gats tell its token.
WriteValue(c) ==
  /\ At(c, "write") /\ TellText(c) /\ NothingRead
  /\ out' = [out EXCEPT ![c] = TRUE]
  /\ proc' = [proc EXCEPT ![c].at = "call", ![c].todo = Tail(@)]
  /\ UNCHANGED <<cacheVars, pool>>

TextStep(c) ==
  \/ HandleText(c) \/ ReadData(c) \/ ReadBytes(c) \/ HangUp(c)
  \/ HandleTextStorage(c) \/ HandleTextAppendPrepend(c) \/ HandleTextCas(c)
  \/ HandleTextIncrDecr(c) \/ HandleTextDelete(c) \/ HandleTextTouch(c)
  \/ HandleTextFlushAll(c) \/ HandleTextGet(c) \/ HandleTextGat(c) \/ WriteValue(c)
=============================================================================
