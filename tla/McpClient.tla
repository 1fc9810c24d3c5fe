------------------------------ MODULE McpClient ------------------------------
(***************************************************************************)
(* The client of one MCP server (crates/mcp): `StdioMcpClient` over a      *)
(* `ChildTransport`, from its start in `connect_mcp_server` to its drop    *)
(* with the assistant.  The thread that asks, the reader thread of the     *)
(* child process and the server interleave.  A server may answer in any    *)
(* order, late or not at all; it may write notifications, requests of its  *)
(* own (whose ids are not the client's), blank lines and lines that are no *)
(* JSON; it may close its output.                                          *)
(*                                                                         *)
(* A line is the id it carries (0 for none), what it holds and, for the    *)
(* properties, the request it was written to answer (0 for none).          *)
(***************************************************************************)
EXTENDS Naturals, Sequences

CONSTANTS
  MaxId,    \* bound: the last request id
  MaxLines  \* bound: lines of the server not yet read

ASSUME BoundsAssumption == MaxId \in Nat \ {0} /\ MaxLines \in Nat \ {0}

VARIABLES
  client,   \* "listing" until tools/list returns, then "connected", then "gone"
  nextId,   \* StdioMcpClient.next_id
  awaited,  \* the id of the request under way, 0 when none
  sent,     \* its line has been written, and request() waits for the answer
  answer,   \* what the last request returned
  owed,     \* the requests the server has read and not answered
  stdout,   \* lines written by the server and not yet read
  ended,    \* the server's output has ended
  reader,   \* the reader thread: "reading" or "stopped"
  lines     \* the channel from the reader thread

asker == <<client, nextId, awaited, sent, answer>>
server == <<owed, stdout, ended>>
mcpVars == <<asker, server, reader, lines>>

Line(id, kind, for) == [id |-> id, kind |-> kind, for |-> for]
Eof == Line(0, "eof", 0)

\* What answers a request: a result, one that reports a failed tool, one of the
\* wrong shape, or an error.
Answers == {"result", "tool_failed", "misshapen", "error"}

\* What a server may write without being asked: a notification, a request of its
\* own (an id, and neither result nor error), a line that is no JSON, an empty one.
Chatter == {Line(i, "empty", 0) : i \in 0..MaxId} \cup {Line(0, "noise", 0), Line(0, "blank", 0)}

-----------------------------------------------------------------------------
\* request(): takes the next id.
Ask == nextId <= MaxId /\ nextId' = nextId + 1 /\ awaited' = nextId /\ sent' = FALSE

\* connect_mcp_server: the process and its reader thread run, and tools/list has
\* its id.
McpInit ==
  /\ client = "listing" /\ nextId = 2 /\ awaited = 1 /\ sent = FALSE
  /\ answer = [kind |-> "none", id |-> 0, for |-> 0]
  /\ owed = {} /\ stdout = <<>> /\ ended = FALSE /\ reader = "reading" /\ lines = <<>>

\* McpToolset::call
CallTool ==
  /\ client = "connected" /\ awaited = 0 /\ Ask
  /\ UNCHANGED <<client, answer, server, reader, lines>>

\* Drop of the transport: the child is killed and waited for.
Kill == owed' = {} /\ ended' = TRUE

\* request() returns.  McpToolset::connect fails with its first request, and the
\* client is dropped; the receiver of the channel goes with it.
Return(kind, for) ==
  /\ awaited' = 0 /\ sent' = FALSE /\ answer' = [kind |-> kind, id |-> awaited, for |-> for]
  /\ UNCHANGED <<nextId, stdout, reader>>
  /\ \/ /\ client = "listing" /\ kind # "ok"
        /\ client' = "gone" /\ lines' = <<>> /\ Kill
     \/ /\ client = "connected" \/ kind = "ok"
        /\ client' = "connected" /\ UNCHANGED <<owed, ended>>

\* send_line: a write to the server's input that waits for as long as a full pipe
\* is not read, and that fails, or is read by nobody, once the server is gone.
SendLine ==
  /\ awaited # 0 /\ ~sent
  /\ \/ /\ sent' = TRUE /\ owed' = (IF ended THEN owed ELSE owed \cup {awaited})
        /\ UNCHANGED <<client, nextId, awaited, answer, stdout, ended, reader, lines>>
     \/ /\ ended /\ Return("Transport", 0)
        /\ lines' = IF client' = "gone" THEN <<>> ELSE lines

\* The loop of request(): lines with another id are skipped.
NoIdCheck(l) == TRUE
IsMine(l) == l.id = awaited

Outcome(l) ==
  CASE l.kind = "result" -> "ok"
    [] l.kind = "tool_failed" -> IF client = "connected" THEN "ToolFailed" ELSE "Protocol"
    [] l.kind \in {"misshapen", "error", "empty"} -> "Protocol"

ReadResponse ==
  /\ sent /\ lines # <<>>
  /\ LET l == Head(lines) IN
       /\ \/ l.kind = "eof" /\ Return("Transport", 0)
          \/ l.kind = "noise" /\ Return("Protocol", 0)
          \/ l.kind \notin {"eof", "noise"} /\ IsMine(l) /\ Return(Outcome(l), l.for)
          \/ l.kind \notin {"eof", "noise"} /\ ~IsMine(l) /\ UNCHANGED <<asker, server, reader>>
       /\ lines' = IF client' = "gone" THEN <<>> ELSE Tail(lines)

\* read_line's wait ends without a line: its timeout, which every line starts
\* anew, or at once when the reader thread has stopped.
OnlyIfStopped == reader = "stopped"
WaitMayEnd == TRUE

ReadTimesOut ==
  /\ sent /\ lines = <<>> /\ WaitMayEnd
  /\ Return("Transport", 0) /\ UNCHANGED lines

\* The reader thread: one line from the pipe to the channel, blank ones skipped,
\* and the end of the output as an error.  It stops after that, or when nobody
\* listens any more.
ReadLine ==
  /\ reader = "reading"
  /\ \/ /\ stdout # <<>> /\ stdout' = Tail(stdout)
        /\ LET l == Head(stdout)
               heard == l.kind # "blank" /\ client # "gone"
           IN  /\ lines' = IF heard THEN Append(lines, l) ELSE lines
               /\ reader' = IF heard \/ l.kind = "blank" THEN reader ELSE "stopped"
     \/ /\ stdout = <<>> /\ ended /\ reader' = "stopped" /\ UNCHANGED stdout
        /\ lines' = IF client = "gone" THEN lines ELSE Append(lines, Eof)
  /\ UNCHANGED <<asker, owed, ended>>

\* The assistant is dropped at the end of its connection.
DropClient ==
  /\ client = "connected" /\ awaited = 0
  /\ client' = "gone" /\ lines' = <<>> /\ Kill
  /\ UNCHANGED <<nextId, awaited, sent, answer, stdout, reader>>

-----------------------------------------------------------------------------
\* External: the server.
Writes(l) ==
  /\ ~ended /\ Len(stdout) + Len(lines) < MaxLines /\ stdout' = Append(stdout, l)

ServerAnswers ==
  /\ \E i \in owed, k \in Answers : Writes(Line(i, k, i)) /\ owed' = owed \ {i}
  /\ UNCHANGED <<asker, ended, reader, lines>>

ServerChatters ==
  /\ \E l \in Chatter : Writes(l)
  /\ UNCHANGED <<asker, owed, ended, reader, lines>>

ServerCloses ==
  /\ ~ended /\ ended' = TRUE /\ owed' = {}
  /\ UNCHANGED <<asker, stdout, reader, lines>>

ServerStep == ServerAnswers \/ ServerChatters \/ ServerCloses
ClientStep == ReadResponse \/ ReadTimesOut
McpNext == CallTool \/ SendLine \/ ClientStep \/ DropClient \/ ReadLine \/ ServerStep

McpSpec == McpInit /\ [][McpNext]_mcpVars

\* The waiting thread runs, its wait ends after 30 s without a line, and the
\* reader thread reads what there is.  Nothing is assumed of the server, and so
\* nothing of the write to its input.
FairMcpSpec == McpSpec /\ WF_mcpVars(ClientStep) /\ WF_mcpVars(ReadLine)

-----------------------------------------------------------------------------
\* What a request returns as its result was written by the server to answer that
\* very request, however many requests timed out before it and were answered
\* late (request: the check of the id, ids that are never used again).
AnswersAreOwn ==
  answer.kind \in {"ok", "ToolFailed"} => answer.for = answer.id /\ answer.id > 0

\* A request that was written returns if its server stops writing, whether it
\* answered, closed its output or is stuck; a server that never stops can keep one
\* waiting, since every line starts the wait anew (read_line, request).
RequestEnds ==
  <>[][~ServerStep]_mcpVars => (sent ~> ~sent)

\* bootstrap.rs:52-54: the wait is "Bounded so a wedged MCP server doesn't hang the
\* turn forever".  TLC refutes it (README, disagreements): a server that does not
\* read its input holds the write before the wait.  No run checks it.
WedgedServerIsBounded ==
  <>[][~ServerStep]_mcpVars => ((awaited # 0) ~> (awaited = 0))
=============================================================================
