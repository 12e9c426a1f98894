--------------------------- MODULE MCConnections ---------------------------
(* Constants for TLC. *)
EXTENDS Connections

CONSTANTS t, b, d, x, y, k1

Num(n) == [len |-> 1, num |-> n]
Word == [len |-> 1, num |-> NotNumeric]

Command(op, value, cas, form) ==
  [op |-> op, keys |-> <<k1>>, value |-> value, block |-> "word", cas |-> cas,
   exptime |-> 0, form |-> form, noreply |-> FALSE]
Plain(op) == Command(op, NoValue, 0, "ok")
Until(exptime, cmd) == [cmd EXCEPT !.exptime = exptime]
NoReply(cmd) == [cmd EXCEPT !.noreply = TRUE]

Block(text, cmd) ==
  [cmd EXCEPT !.block = text, !.value = IF text = "empty" THEN NoValue ELSE @]

\* A data block may be one word, empty, or lines: a storage command that then takes
\* what follows for its data, one that is refused and one that is too large, some
\* commands, or the end of the session.
MCLinesIn ==
  [word |-> <<Plain("unknown")>>, empty |-> <<Plain("blank")>>,
   set |-> <<NoReply(Command("SET", Num(4), 0, "ok"))>>,
   large |-> <<Command("SET", Num(4), 0, "large"), Plain("VERSION")>>,
   lines |-> <<Command("ADD", Num(4), 0, "short"), Plain("GET")>>,
   quit |-> <<Plain("VERSION"), Plain("QUIT")>>]
MCTexts == DOMAIN MCLinesIn
MCFragments == {<<>>, <<Plain("blank")>>, <<Plain("unknown")>>}

\* What is wrong with a line and how a batch of commands ends matters to one
\* connection alone: all pairs of commands, with the other clients silent.
TextCommands ==
  {Command("SET", Word, 0, form) : form \in {"ok", "short", "malformed", "large"}} \cup
  {Command("APPEND", Num(1), 0, form) : form \in {"short", "malformed"}} \cup
  {Command("CAS", Num(2), 1, form) : form \in {"ok", "malformed", "token"}} \cup
  {Command("ADD", Num(1), 0, "ok"), Command("PREPEND", Num(1), 0, "ok"),
   NoReply(Command("REPLACE", Num(1), 0, "ok")), NoReply(Command("INCR", Num(1), 0, "ok")),
   Command("DECR", Num(1), 0, "malformed"), [Plain("GET") EXCEPT !.keys = <<k1, k1>>],
   Plain("DELETE"), NoReply(Until(-1, Plain("TOUCH"))), Plain("FLUSH_ALL"), Plain("GATS"),
   Until(4, Command("SET", Num(2), 0, "ok")), Until(2, Plain("GAT")),
   Plain("VERSION"), Plain("VERBOSITY"), Plain("blank"), Plain("QUIT")} \cup
  {Block(text, Command("CAS", Num(2), 1, "malformed")) : text \in MCTexts} \cup
  {Block("empty", Command("SET", Word, 0, form)) : form \in {"ok", "short"}}

BinaryCommands ==
  {Command("opSet", Num(1), 0, form) : form \in {"ok", "extras"}} \cup
  {Command("opReplace", Num(2), 0, "ok"), Command("opSet", Num(2), 1, "ok"),
   Command("opPrepend", Num(1), 0, "ok"), Command("opDecrement", Num(1), 0, "ok"),
   Plain("opGetK"), Plain("opGetKQ"), Until(4, Plain("opGATK")),
   Until(6, Command("opAdd", Num(3), 0, "ok")), Command("opTouch", NoValue, 0, "extras"),
   Plain("opDelete"), Plain("opFlush"), Plain("opNoop"), Plain("opQuit"), Plain("magic")}

Pairs(S) == {<<first, second>> : first \in S, second \in S}

\* Tokens matter between connections: a text client that stores and then asks,
\* compares or changes, against one or two commands of a binary client.
Stored == Command("SET", Num(1), 0, "ok")
TextUpdates ==
  {Plain("GATS"), [Plain("GETS") EXCEPT !.keys = <<k1, k1>>],
   Command("CAS", Num(2), 1, "ok"), Command("SET", Num(3), 0, "ok"),
   Command("INCR", Num(2), 0, "ok")}
BinaryUpdates ==
  {Plain("opGAT"), Plain("opGetQ"), Command("opSet", Num(2), 2, "ok"),
   Command("opSet", Num(4), 0, "ok"), Command("opAppend", Num(1), 0, "ok"),
   Command("opIncrement", Num(1), 0, "ok"), Plain("opTouch")}

\* Buffers matter between binary connections.
BinaryStore == Command("opSet", Num(1), 0, "ok")
BinaryOthers == {Command("opAppend", Num(2), 0, "ok"), Command("opAdd", Num(3), 0, "ok")}

Session(forT, forB, forD) ==
  [c \in Conns |-> IF c = t THEN forT ELSE IF c = b THEN forB ELSE forD]

MCSessions ==
  {Session(s, <<>>, <<>>) : s \in Pairs(TextCommands)} \cup
  {Session(<<>>, s, <<>>) : s \in Pairs(BinaryCommands)} \cup
  {Session(<<Stored, u>>, <<v>>, <<>>) : u \in TextUpdates, v \in BinaryUpdates} \cup
  {Session(<<Stored>>, <<u, v>>, <<>>) :
     u \in BinaryUpdates, v \in {Plain("opGAT"), Command("opSet", Num(2), 2, "ok")}} \cup
  {Session(<<>>, <<BinaryStore, Plain("opGet")>>, <<v>>) : v \in BinaryOthers}

\* Text commands of one client, with nobody else.
MCAlone == {Session(<<Stored>> \o s, <<>>, <<>>) : s \in Pairs(TextCommands)}
=============================================================================
