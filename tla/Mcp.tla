-------------------------------- MODULE Mcp ---------------------------------
(***************************************************************************)
(* An MCP client and an MCP server of this platform on the two ends of a   *)
(* wire: one of the client's configured servers, Own, is a runtime's       *)
(* POST /mcp, the others are foreign.  A request is delivered at any time  *)
(* after it was sent, also when its sender has given up on it, and its     *)
(* answer may never arrive.                                                *)
(***************************************************************************)
EXTENDS McpClient, McpServer

CONSTANTS Own,        \* the configured server that is a runtime
          Strangers   \* requests of other callers of its POST /mcp

ASSUME McpAssumption ==
  /\ Own \in Servers
  /\ Tools \subseteq Capabilities \union OtherNames
  /\ Requests = (Calls \X {"init", "op"}) \union Strangers
  /\ Strangers \intersect (Calls \X {"init", "op"}) = {}

vars == <<clientVars, serverVars>>

Init == ClientInit /\ ServerInit

-----------------------------------------------------------------------------
\* The handshake and then the request itself, each with the bearer token of
\* the client's environment (makeSafeFetch reads it anew for every request);
\* the SDK asks for a revision the server pins.
SentBody(c, part) ==
  LET method == IF part = "init" THEN "initialize"
                ELSE IF op[c].kind = "call" THEN "tools/call" ELSE "tools/list"
  IN [bearer |-> "session", supported |-> TRUE, method |-> method,
      name |-> IF method = "tools/call" THEN op[c].tool ELSE "none"]

Sent(c, part) == /\ op[c].server = Own
                 /\ IF part = "init" THEN connState[c] # "none" ELSE conn[c] # NoOne

\* Bound: requests of strangers share nothing with the client's calls but the
\* life of a token: a behaviour has the one or the other.
ClientQuiet == \A c \in Calls : pc[c] = "idle"

Receive(r, b) == Unauthenticated(r, b) \/ Dispatch(r, b)

ServerNext ==
  /\ \/ \E c \in Calls, part \in {"init", "op"} :
          Sent(c, part) /\ Receive(<<c, part>>, SentBody(c, part))
     \/ ClientQuiet /\ \E r \in Strangers, b \in Bodies : Receive(r, b)
     \/ \E r \in Requests : ServerStep(r)
     \/ TokenExpires
  /\ UNCHANGED clientVars

\* What ends the connect of c: from Own the answer to the handshake, from a
\* foreign server anything; a failure at any time.
ConnectEnds(c) ==
  \/ /\ op[c].server = Own => reply[<<c, "init">>] = "initialized"
     /\ Connected(c)
  \/ op[c].server # Own /\ ConnectRefused(c)
  \/ /\ op[c].server = Own => reply[<<c, "init">>] = "ERR_MCP_PROTOCOL"
     /\ ConnectFails(c, "ERR_MCP_PROTOCOL")
  \/ ConnectFails(c, "ERR_MCP_UPSTREAM")

WireEnds(c) ==
  \/ /\ op[c].server = Own =>
          reply[<<c, "op">>] = (IF op[c].kind = "call" THEN "result" ELSE "listed")
     /\ Answered(c, "ok")
  \/ Answered(c, "ERR_MCP_UPSTREAM")

CallStep(c) == AuditCallFails(c) \/ AuditCall(c) \/ ConnectEnds(c) \/ WireEnds(c) \/ AuditResult(c)

ClientNext ==
  /\ \/ \E c \in Calls : \/ /\ \A r \in Strangers : spc[r] = "none"
                            /\ \E o \in Ops : CallTool(c, o) \/ ListTools(c, o)
                         \/ CallStep(c)
                         \/ Dropped(c)
     \/ StartClose \/ CloseOne \/ CloseDone
  /\ UNCHANGED serverVars

Next == ClientNext \/ ServerNext

\* A started invocation goes on: each await settles (the database answers or
\* errs, the SDK has a timer on every request), and close() goes round its loop.
Spec == /\ Init /\ [][Next]_vars
        /\ \A c \in Calls : WF_vars(CallStep(c) /\ UNCHANGED serverVars)
        /\ WF_vars((CloseOne \/ CloseDone) /\ UNCHANGED serverVars)

-----------------------------------------------------------------------------
TypeOK == ClientTypeOK

\* The code an invocation of callTool returns is the truth about the far end,
\* whatever was lost, delayed or not recorded: after ok the capability has run
\* and both ends have its allow record; after a refusal, or an audit log that
\* was not there, it has not run and no late request will make it run.
CodesTellTruth ==
  \A c \in Calls : (pc[c] = "done" /\ op[c].kind = "call") =>
     /\ (result[c] = "ok" /\ op[c].server = Own) =>
          /\ outcome[<<c, "op">>] = "ok"
          /\ ToolCall(c) \in audited
          /\ Record(<<c, "op">>, "allow") \in serveLog
     /\ result[c] \notin {"ok", "ERR_MCP_PROTOCOL", "ERR_MCP_UPSTREAM"} =>
          /\ outcome[<<c, "op">>] = "none"
          /\ ~Sent(c, "op")

\* Every invocation returns, and close() does, although connections are cached
\* behind its iterator, drop, and finish connecting after it has begun.
CallAnswered == /\ \A c \in Calls : pc[c] # "idle" ~> pc[c] = "done"
                /\ closer = "closing" ~> closer = "closed"
=============================================================================
