----------------------------- MODULE McpClient ------------------------------
(***************************************************************************)
(* The MCP client (packages/mcp/src/client.ts): callTool, listTools and    *)
(* close over one cache of connections.  A call yields the thread at every *)
(* await (the audit appends, the connect, the request on the wire), so     *)
(* calls and close() interleave there and only there.                      *)
(***************************************************************************)
EXTENDS Naturals, Sequences, FiniteSets

CONSTANTS Calls,         \* invocations of callTool and listTools
          Names,         \* server names a caller may ask for
          Servers,       \* ... the ones of McpClientConfig
          Tools,
          AllowedTools,  \* allowedTools of each configured server
          PolicyAllows,  \* <<server, tool>> pairs the policy engine allows
          NoOne

ASSUME McpClientAssumption ==
  /\ Servers \subseteq Names
  /\ AllowedTools \in [Servers -> SUBSET Tools]
  /\ PolicyAllows \subseteq Servers \X Tools
  /\ NoOne \notin Calls

VARIABLES pc,           \* where each invocation is
          op,           \* what it asks for
          result,       \* its outcome, "none" until it has one
          conn,         \* the connection it uses, named by the call that opened it
          connState,    \* state of the connection each call opened
          connections,  \* the Map: <<server, connection>> in insertion order
          closer,       \* close(): "idle" | "closing" | "closed"
          cursor,       \* ... the Map entry its loop is at
          audited,      \* the mcp.tool_call records of the audit log
          wired,        \* history: tool calls put on the wire
          raced         \* history: servers whose cache slot two connects, or a
                        \* connect and close(), wanted at once

clientVars == <<pc, op, result, conn, connState, connections, closer, cursor,
                audited, wired, raced>>

Ops == [kind : {"call"}, server : Names, tool : Tools]
         \union [kind : {"list"}, server : Names, tool : {NoOne}]
AnyOp == CHOOSE o \in Ops : TRUE
Entry == Servers \X Calls

Results == {"none", "ok", "ERR_MCP_SERVER_UNKNOWN", "ERR_MCP_TOOL_NOT_ALLOWED",
            "ERR_MCP_POLICY_DENIED", "ERR_MCP_AUDIT_UNAVAILABLE",
            "ERR_MCP_PROTOCOL", "ERR_MCP_UPSTREAM"}

ClientInit == /\ pc = [c \in Calls |-> "idle"]
              /\ op = [c \in Calls |-> AnyOp]
              /\ result = [c \in Calls |-> "none"]
              /\ conn = [c \in Calls |-> NoOne]
              /\ connState = [c \in Calls |-> "none"]
              /\ connections = <<>>
              /\ closer = "idle"
              /\ cursor = 0
              /\ audited = {}
              /\ wired = {}
              /\ raced = {}

-----------------------------------------------------------------------------
\* Why callTool refuses an op, "none" when it does not: the server allowlist,
\* the tool allowlist, then the policy engine.
Refusal(o) == IF o.server \notin Servers THEN "ERR_MCP_SERVER_UNKNOWN"
              ELSE IF o.tool \notin AllowedTools[o.server] THEN "ERR_MCP_TOOL_NOT_ALLOWED"
              ELSE IF <<o.server, o.tool>> \notin PolicyAllows THEN "ERR_MCP_POLICY_DENIED"
              ELSE "none"

ToolCall(c) == [call |-> c, decision |-> IF Refusal(op[c]) = "none" THEN "allow" ELSE "deny"]

Slots(server) == {i \in 1..Len(connections) : connections[i][1] = server}

\* connections.set: a name already in the Map keeps its place.
MapSet(server, k) ==
  IF Slots(server) = {} THEN Append(connections, <<server, k>>)
  ELSE [connections EXCEPT ![CHOOSE i \in Slots(server) : TRUE] = <<server, k>>]

\* With its connection in hand the invocation sends its request.
Send(c, o) == /\ pc' = [pc EXCEPT ![c] = "wire"]
              /\ wired' = IF o.kind = "call" THEN wired \union {c} ELSE wired

\* The first half of getConnection, up to the await: the cached connection, or
\* a transport of its own and the start of a connect.
GetConnection(c, o) ==
  \/ /\ Slots(o.server) # {}
     /\ conn' = [conn EXCEPT ![c] = connections[CHOOSE i \in Slots(o.server) : TRUE][2]]
     /\ Send(c, o)
     /\ UNCHANGED connState
  \/ /\ Slots(o.server) = {}
     /\ connState' = [connState EXCEPT ![c] = "opening"]
     /\ pc' = [pc EXCEPT ![c] = "connecting"]
     /\ UNCHANGED <<conn, wired>>

\* The invocation has its outcome.  callTool records it, listTools throws or
\* returns.
Settle(c, code) ==
  /\ result' = [result EXCEPT ![c] = code]
  /\ pc' = [pc EXCEPT ![c] = IF op[c].kind = "call" THEN "append_result" ELSE "done"]

-----------------------------------------------------------------------------
\* callTool up to its first audit append.
CallTool(c, o) ==
  /\ pc[c] = "idle" /\ o.kind = "call"
  /\ op' = [op EXCEPT ![c] = o]
  /\ pc' = [pc EXCEPT ![c] = "append_call"]
  /\ UNCHANGED <<result, conn, connState, connections, closer, cursor, audited, wired, raced>>

\* Mutant: an append that fails is logged and the call goes on.
AuditCallFails_BestEffort(c) ==
  /\ pc[c] = "append_call" /\ Refusal(op[c]) = "none"
  /\ GetConnection(c, op[c])
  /\ UNCHANGED <<op, result, connections, closer, cursor, audited, raced>>

\* The append of mcp.tool_call throws, its record committed or not: the call is
\* not made.
AuditCallFails(c) ==
  /\ pc[c] = "append_call"
  /\ audited' \in {audited, audited \union {ToolCall(c)}}
  /\ result' = [result EXCEPT ![c] = "ERR_MCP_AUDIT_UNAVAILABLE"]
  /\ pc' = [pc EXCEPT ![c] = "done"]
  /\ UNCHANGED <<op, conn, connState, connections, closer, cursor, wired, raced>>

\* mcp.tool_call is durable: a denied call returns, an allowed one goes on.
AuditCall(c) ==
  /\ pc[c] = "append_call"
  /\ audited' = audited \union {ToolCall(c)}
  /\ \/ /\ Refusal(op[c]) # "none"
        /\ result' = [result EXCEPT ![c] = Refusal(op[c])]
        /\ pc' = [pc EXCEPT ![c] = "done"]
        /\ UNCHANGED <<conn, connState, wired>>
     \/ /\ Refusal(op[c]) = "none"
        /\ GetConnection(c, op[c])
        /\ UNCHANGED result
  /\ UNCHANGED <<op, connections, closer, cursor, raced>>

\* listTools: no policy and no audit; an unknown server throws.
ListTools(c, o) ==
  /\ pc[c] = "idle" /\ o.kind = "list"
  /\ op' = [op EXCEPT ![c] = o]
  /\ \/ /\ o.server \notin Servers
        /\ result' = [result EXCEPT ![c] = "ERR_MCP_SERVER_UNKNOWN"]
        /\ pc' = [pc EXCEPT ![c] = "done"]
        /\ UNCHANGED <<conn, connState, wired>>
     \/ /\ o.server \in Servers
        /\ GetConnection(c, o)
        /\ UNCHANGED result
  /\ UNCHANGED <<connections, closer, cursor, audited, raced>>

\* connectServer resolves with a pinned revision: the connection is cached,
\* over whatever another connect put there meanwhile, and used at once.
Connected(c) ==
  /\ pc[c] = "connecting"
  /\ connState' = [connState EXCEPT ![c] = "open"]
  /\ connections' = MapSet(op[c].server, c)
  /\ raced' = IF Slots(op[c].server) # {} \/ closer # "idle"
              THEN raced \union {op[c].server} ELSE raced
  /\ conn' = [conn EXCEPT ![c] = c]
  /\ Send(c, op[c])
  /\ UNCHANGED <<op, result, closer, cursor, audited>>

\* Mutant: the unsupported revision is reported and the connection forgotten.
ConnectRefused_NotClosed(c) ==
  /\ pc[c] = "connecting"
  /\ connState' = [connState EXCEPT ![c] = "open"]
  /\ Settle(c, "ERR_MCP_PROTOCOL")
  /\ UNCHANGED <<op, conn, connections, closer, cursor, audited, wired, raced>>

\* The handshake ends on a revision outside SUPPORTED_MCP_REVISIONS: the
\* connection is closed.
ConnectRefused(c) ==
  /\ pc[c] = "connecting"
  /\ connState' = [connState EXCEPT ![c] = "closed"]
  /\ Settle(c, "ERR_MCP_PROTOCOL")
  /\ UNCHANGED <<op, conn, connections, closer, cursor, audited, wired, raced>>

\* client.connect throws (the SDK closes what it opened); the code tells a
\* negotiation error from any other by its message.
ConnectFails(c, code) ==
  /\ pc[c] = "connecting"
  /\ code \in {"ERR_MCP_PROTOCOL", "ERR_MCP_UPSTREAM"}
  /\ connState' = [connState EXCEPT ![c] = "closed"]
  /\ Settle(c, code)
  /\ UNCHANGED <<op, conn, connections, closer, cursor, audited, wired, raced>>

\* The request on the wire is answered: with content, with an error result, or
\* not at all (the transport is gone, the SDK's timer runs out).
Answered(c, code) ==
  /\ pc[c] = "wire"
  /\ code \in {"ok", "ERR_MCP_UPSTREAM"}
  /\ code = "ok" => connState[conn[c]] = "open"
  /\ Settle(c, code)
  /\ UNCHANGED <<op, conn, connState, connections, closer, cursor, audited, wired, raced>>

\* Mutant: a result that cannot be recorded is withheld.
AuditResult_FailClosed(c) ==
  /\ pc[c] = "append_result"
  /\ pc' = [pc EXCEPT ![c] = "done"]
  /\ result' \in {result, [result EXCEPT ![c] = "ERR_MCP_AUDIT_UNAVAILABLE"]}
  /\ UNCHANGED <<op, conn, connState, connections, closer, cursor, audited, wired, raced>>

\* mcp.tool_result, best effort: whether or not it was appended, the outcome is
\* returned.
AuditResult(c) ==
  /\ pc[c] = "append_result"
  /\ pc' = [pc EXCEPT ![c] = "done"]
  /\ UNCHANGED <<op, result, conn, connState, connections, closer, cursor, audited, wired, raced>>

\* The far end goes away.  Nothing tells the cache, which keeps the entry.
Dropped(k) ==
  /\ connState[k] = "open"
  /\ connState' = [connState EXCEPT ![k] = "closed"]
  /\ UNCHANGED <<pc, op, result, conn, connections, closer, cursor, audited, wired, raced>>

-----------------------------------------------------------------------------
StartClose == /\ closer = "idle"
              /\ closer' = "closing"
              /\ cursor' = 1
              /\ UNCHANGED <<pc, op, result, conn, connState, connections, audited, wired, raced>>

\* Mutant: the loop takes the first entry of the Map until there is none.
CloseOne_First ==
  /\ closer = "closing"
  /\ Len(connections) > 0
  /\ connState' = [connState EXCEPT ![connections[1][2]] = "closed"]
  /\ cursor' = 1
  /\ UNCHANGED <<pc, op, result, conn, connections, closer, audited, wired, raced>>

\* One turn of close()'s loop.  The iterator is live: it sees entries added
\* behind it, not a new value under a name it has passed.
CloseOne == /\ closer = "closing"
            /\ cursor <= Len(connections)
            /\ connState' = [connState EXCEPT ![connections[cursor][2]] = "closed"]
            /\ cursor' = cursor + 1
            /\ UNCHANGED <<pc, op, result, conn, connections, closer, audited, wired, raced>>

CloseDone == /\ closer = "closing"
             /\ cursor > Len(connections)
             /\ connections' = <<>>
             /\ closer' = "closed"
             /\ UNCHANGED <<pc, op, result, conn, connState, cursor, audited, wired, raced>>

-----------------------------------------------------------------------------
ClientTypeOK ==
  /\ pc \in [Calls -> {"idle", "append_call", "connecting", "wire", "append_result", "done"}]
  /\ op \in [Calls -> Ops]
  /\ result \in [Calls -> Results]
  /\ conn \in [Calls -> Calls \union {NoOne}]
  /\ connState \in [Calls -> {"none", "opening", "open", "closed"}]
  /\ connections \in Seq(Entry)
  /\ closer \in {"idle", "closing", "closed"}
  /\ cursor \in Nat
  /\ wired \subseteq Calls

\* The egress order, fail closed: whatever else fails or runs in between, a
\* tool call is on the wire only when its server is configured, its tool
\* allowed there, the policy allowed it, and an allow record says so.
AuditedBeforeWire ==
  \A c \in wired : /\ op[c].server \in Servers
                   /\ op[c].tool \in AllowedTools[op[c].server]
                   /\ <<op[c].server, op[c].tool>> \in PolicyAllows
                   /\ [call |-> c, decision |-> "allow"] \in audited

Cached(k) == \E i \in 1..Len(connections) : connections[i][2] = k
InUse(k) == \E c \in Calls : conn[c] = k /\ pc[c] = "wire"

\* Connections are accounted for: one that is open, in nobody's hands and not
\* in the cache (so that close() cannot reach it) has lost a race for its cache
\* slot, to a second connect or to close(); no single call leaves one behind.
OrphansOnlyByRace ==
  \A k \in Calls : (connState[k] = "open" /\ ~Cached(k) /\ ~InUse(k))
                      => op[k].server \in raced
=============================================================================
