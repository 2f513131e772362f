----------------------------- MODULE McpProofs ------------------------------
(***************************************************************************)
(* What the MCP client, the MCP server and the two of them together        *)
(* promise for any servers, tools, policies and numbers of concurrent      *)
(* calls.                                                                  *)
(***************************************************************************)
EXTENDS Mcp, TLAPS

-----------------------------------------------------------------------------
(* The client.                                                             *)

\* An invocation that has not begun has left no trace.
Untouched(c) == /\ c \notin wired /\ connState[c] = "none"
                /\ conn[c] = NoOne /\ result[c] = "none"

FarEnd == {"ok", "ERR_MCP_PROTOCOL", "ERR_MCP_UPSTREAM"}

\* What is known of invocation c at each step.
CallPhase(c) ==
  /\ pc[c] = "idle" => Untouched(c)
  /\ pc[c] \in {"connecting", "wire"} => op[c].server \in Servers
  /\ (pc[c] \in {"connecting", "wire"} \/ result[c] = "ok") /\ op[c].kind = "call" =>
        Refusal(op[c]) = "none" /\ [call |-> c, decision |-> "allow"] \in audited
  /\ pc[c] \in {"append_call", "connecting"} => conn[c] = NoOne
  /\ pc[c] = "append_result" => result[c] \in FarEnd
  /\ pc[c] = "done" /\ result[c] \notin FarEnd => conn[c] = NoOne

\* An entry of the cache is for the server its connection was opened to.
CacheTrue == \A i \in 1..Len(connections) :
  LET k == connections[i][2] IN pc[k] # "idle" /\ op[k].server = connections[i][1]

\* Open connections are in the cache or have lost a race for it, and close()
\* leaves none open behind its cursor.
OpenAreKnown ==
  /\ \A k \in Calls : connState[k] = "open" => Cached(k) \/ op[k].server \in raced
  /\ closer = "closing" => cursor > 0 /\ \A i \in 1..Len(connections) :
        i < cursor => \/ connState[connections[i][2]] # "open"
                      \/ connections[i][1] \in raced

ClientInv == /\ ClientTypeOK
             /\ \A c \in Calls : CallPhase(c)
             /\ AuditedBeforeWire
             /\ CacheTrue
             /\ OpenAreKnown

-----------------------------------------------------------------------------
(* The server.                                                             *)

Replies == {"none", "400", "401", "202", "initialized", "listed", "-32601", "-32602",
            "ERR_MCP_PROTOCOL", "ERR_MCP_AUDIT_UNAVAILABLE", "ERR_MCP_POLICY_DENIED",
            "result", "error_result"}

ServerTypes ==
  /\ spc \in [Requests -> {"none", "append_rejected", "append_version", "append_list",
                           "append_unknown", "append_call", "handler", "append_result", "replied"}]
  /\ body \in [Requests -> [bearer : {"session", "bad", "missing"}, method : Methods,
                            name : Capabilities \union OtherNames \union {"none"},
                            supported : BOOLEAN]]
  /\ reply \in [Requests -> Replies]
  /\ outcome \in [Requests -> {"none", "ok", "error"}]

\* What is known of request r at each step.
RequestPhase(r) ==
  /\ spc[r] \in {"append_call", "handler", "append_result"} =>
       body[r].bearer = "session" /\ body[r].method = "tools/call" /\ body[r].name \in Capabilities
  /\ spc[r] = "handler" => body[r].name \in MayServe /\ Record(r, "allow") \in serveLog
  /\ outcome[r] # "none" => spc[r] \in {"append_result", "replied"}
  /\ reply[r] # "none" => spc[r] = "replied"
  /\ reply[r] = "result" => outcome[r] = "ok"

ServerInv == /\ ServerTypes
             /\ \A r \in Requests : RequestPhase(r)
             /\ HandlerAudited

-----------------------------------------------------------------------------
(* The two together.                                                       *)

\* What the server has of a call was sent by it, and what the client has of an
\* answer was given.
BothEnds(c) ==
  /\ spc[<<c, "op">>] # "none" => conn[c] # NoOne
  /\ result[c] = "ok" /\ op[c].kind = "call" /\ op[c].server = Own => outcome[<<c, "op">>] = "ok"

McpInv == ClientInv /\ ServerInv /\ \A c \in Calls : BothEnds(c)

-----------------------------------------------------------------------------
(* Steps of the client.                                                    *)

\* A call that nothing refuses satisfies the three gates, and its record is an
\* allow.
LEMMA NotRefused ==
  ASSUME NEW o, Refusal(o) = "none"
  PROVE  o.server \in Servers /\ o.tool \in AllowedTools[o.server] /\ <<o.server, o.tool>> \in PolicyAllows
BY DEF Refusal

\* A step of the invocation c that does not touch the cache.
LEMMA OneCallStep ==
  ASSUME ClientInv, ClientTypeOK', NEW c \in Calls,
         \A d \in Calls \ {c} : /\ pc'[d] = pc[d] /\ op'[d] = op[d] /\ result'[d] = result[d]
                                 /\ conn'[d] = conn[d] /\ connState'[d] = connState[d],
         audited \subseteq audited', wired' \subseteq wired \union {c},
         UNCHANGED <<connections, closer, cursor, raced>>,
         pc'[c] # "idle", pc[c] # "idle" => op'[c] = op[c],
         connState'[c] = "open" => connState[c] = "open",
         c \in wired' => Refusal(op'[c]) = "none" /\ [call |-> c, decision |-> "allow"] \in audited',
         CallPhase(c)'
  PROVE  ClientInv'
<1>1. \A d \in Calls : CallPhase(d)'
  <2> SUFFICES ASSUME NEW d \in Calls \ {c} PROVE CallPhase(d)'
    OBVIOUS
  <2>1. CallPhase(d)
    BY DEF ClientInv
  <2> QED BY <2>1 DEF CallPhase, Untouched, Refusal
<1>2. AuditedBeforeWire'
  <2> SUFFICES ASSUME NEW d \in wired'
               PROVE  /\ op'[d].server \in Servers
                      /\ op'[d].tool \in AllowedTools[op'[d].server]
                      /\ <<op'[d].server, op'[d].tool>> \in PolicyAllows
                      /\ [call |-> d, decision |-> "allow"] \in audited'
    BY DEF AuditedBeforeWire
  <2>1. CASE d = c
    BY <2>1, NotRefused
  <2>2. CASE d # c
    BY <2>2 DEF ClientInv, AuditedBeforeWire, ClientTypeOK
  <2> QED BY <2>1, <2>2
<1>3. \A i \in 1..Len(connections) : connections[i][2] \in Calls
  BY DEF ClientInv, ClientTypeOK, Entry
<1>4. CacheTrue'
  BY <1>3 DEF ClientInv, CacheTrue
<1>5. OpenAreKnown'
  <2>1. \A k \in Calls : connState'[k] = "open" => connState[k] = "open"
    OBVIOUS
  <2>2. \A k \in Calls : connState'[k] = "open" => Cached(k)' \/ op'[k].server \in raced'
    <3> SUFFICES ASSUME NEW k \in Calls, connState'[k] = "open"
                 PROVE  Cached(k)' \/ op'[k].server \in raced'
      OBVIOUS
    <3>1. pc[k] # "idle"
      BY <2>1 DEF ClientInv, CallPhase, Untouched
    <3> QED BY <2>1, <3>1 DEF ClientInv, OpenAreKnown, Cached
  <2> QED BY <1>3, <2>1, <2>2 DEF ClientInv, OpenAreKnown
<1> QED BY <1>1, <1>2, <1>4, <1>5 DEF ClientInv

\* The first half of getConnection.
LEMMA GetConnectionStep ==
  ASSUME ClientTypeOK, NEW c \in Calls, NEW o, GetConnection(c, o)
  PROVE  /\ \/ /\ pc' = [pc EXCEPT ![c] = "wire"] /\ connState' = connState
               /\ \E k \in Calls : conn' = [conn EXCEPT ![c] = k]
               /\ wired' = IF o.kind = "call" THEN wired \union {c} ELSE wired
            \/ /\ pc' = [pc EXCEPT ![c] = "connecting"]
               /\ connState' = [connState EXCEPT ![c] = "opening"] /\ UNCHANGED <<conn, wired>>
<1>1. CASE Slots(o.server) # {}
  <2> DEFINE i == CHOOSE j \in Slots(o.server) : TRUE
  <2>1. i \in 1..Len(connections)
    BY <1>1 DEF Slots
  <2>2. connections[i][2] \in Calls
    BY <2>1 DEF ClientTypeOK, Entry
  <2> QED BY <1>1, <2>2 DEF GetConnection, Send
<1>2. CASE Slots(o.server) = {}
  BY <1>2 DEF GetConnection
<1> QED BY <1>1, <1>2

\* Every step of an invocation but the end of its connect.
LEMMA CallSteps ==
  ASSUME ClientInv, NEW c \in Calls,
         \/ \E o \in Ops : CallTool(c, o) \/ ListTools(c, o)
         \/ AuditCallFails(c) \/ AuditCall(c) \/ ConnectRefused(c)
         \/ \E code \in Results : ConnectFails(c, code) \/ Answered(c, code)
         \/ AuditResult(c)
  PROVE  ClientInv'
<1> CallPhase(c) /\ ClientTypeOK
  BY DEF ClientInv
<1> USE DEF Untouched
<1>calltool. CASE \E o \in Ops : CallTool(c, o)
  <2>1. PICK o \in Ops : CallTool(c, o)
    BY <1>calltool
  <2>2. ClientTypeOK'
    BY <2>1 DEF CallTool, ClientTypeOK
  <2>3. CallPhase(c)' /\ c \notin wired'
    BY <2>1 DEF CallTool, CallPhase, ClientTypeOK
  <2> QED BY <2>1, <2>2, <2>3, OneCallStep DEF CallTool, ClientTypeOK
<1>list. CASE \E o \in Ops : ListTools(c, o)
  <2>1. PICK o \in Ops : ListTools(c, o)
    BY <1>list
  <2>2. CASE o.server \notin Servers
    <3>1. ClientTypeOK'
      BY <2>1, <2>2 DEF ListTools, ClientTypeOK, Results
    <3>2. CallPhase(c)' /\ c \notin wired'
      BY <2>1, <2>2 DEF ListTools, CallPhase, ClientTypeOK, FarEnd
    <3> QED BY <2>1, <2>2, <3>1, <3>2, OneCallStep DEF ListTools, ClientTypeOK
  <2>3. CASE o.server \in Servers
    <3>1. /\ GetConnection(c, o) /\ op' = [op EXCEPT ![c] = o] /\ o.kind = "list" /\ pc[c] = "idle"
          /\ UNCHANGED <<result, connections, closer, cursor, audited, raced>>
      BY <2>1, <2>3 DEF ListTools
    <3>2. ClientTypeOK' /\ wired' = wired
      BY <3>1, GetConnectionStep DEF ClientTypeOK
    <3>3. CallPhase(c)' /\ c \notin wired'
      BY <2>3, <3>1, <3>2, GetConnectionStep DEF CallPhase, ClientTypeOK
    <3>4. /\ \A d \in Calls \ {c} : pc'[d] = pc[d] /\ conn'[d] = conn[d] /\ connState'[d] = connState[d]
          /\ pc'[c] # "idle" /\ connState'[c] # "open"
      BY <3>1, GetConnectionStep DEF CallPhase, ClientTypeOK
    <3> QED BY <3>1, <3>2, <3>3, <3>4, OneCallStep DEF ClientTypeOK
  <2> QED BY <2>2, <2>3
<1>auditfails. CASE AuditCallFails(c)
  <2>1. ClientTypeOK'
    BY <1>auditfails DEF AuditCallFails, ClientTypeOK, Results
  <2>2. CallPhase(c)'
    BY <1>auditfails DEF AuditCallFails, CallPhase, ClientTypeOK, FarEnd
  <2>3. c \in wired' => Refusal(op'[c]) = "none" /\ [call |-> c, decision |-> "allow"] \in audited'
    BY <1>auditfails DEF AuditCallFails, ClientInv, AuditedBeforeWire, Refusal
  <2> QED BY <1>auditfails, <2>1, <2>2, <2>3, OneCallStep DEF AuditCallFails, ClientTypeOK
<1>audit. CASE AuditCall(c)
  <2>1. /\ pc[c] = "append_call" /\ audited' = audited \union {ToolCall(c)}
        /\ UNCHANGED <<op, connections, closer, cursor, raced>>
    BY <1>audit DEF AuditCall
  <2>2. CASE Refusal(op[c]) # "none"
    <3>1. /\ result' = [result EXCEPT ![c] = Refusal(op[c])] /\ pc' = [pc EXCEPT ![c] = "done"]
          /\ UNCHANGED <<conn, connState, wired>>
      BY <1>audit, <2>2 DEF AuditCall
    <3>2. Refusal(op[c]) \in Results \ FarEnd
      BY <2>2 DEF Refusal, Results, FarEnd
    <3>3. ClientTypeOK'
      BY <2>1, <3>1, <3>2 DEF ClientTypeOK
    <3>4. CallPhase(c)'
      BY <2>1, <3>1, <3>2 DEF CallPhase, ClientTypeOK, FarEnd
    <3>5. c \notin wired
      BY <2>2 DEF ClientInv, AuditedBeforeWire, Refusal
    <3> QED BY <2>1, <3>1, <3>3, <3>4, <3>5, OneCallStep DEF ClientTypeOK
  <2>3. CASE Refusal(op[c]) = "none"
    <3>1. GetConnection(c, op[c]) /\ result' = result
      BY <1>audit, <2>3 DEF AuditCall
    <3>2. [call |-> c, decision |-> "allow"] \in audited' /\ Refusal(op'[c]) = "none" /\ op'[c].server \in Servers
      BY <2>1, <2>3, NotRefused DEF ToolCall
    <3>a. wired' \subseteq wired \union {c} /\ wired' \subseteq Calls
      <4>1. wired' = wired \/ wired' = wired \union {c}
        BY <3>1, GetConnectionStep
      <4> QED BY <4>1 DEF ClientTypeOK
    <3>3. ClientTypeOK'
      <4>1. /\ pc' \in [Calls -> {"idle", "append_call", "connecting", "wire", "append_result", "done"}]
            /\ conn' \in [Calls -> Calls \union {NoOne}]
            /\ connState' \in [Calls -> {"none", "opening", "open", "closed"}]
        BY <3>1, GetConnectionStep DEF ClientTypeOK
      <4> QED BY <2>1, <3>1, <3>a, <4>1 DEF ClientTypeOK
    <3>4. CallPhase(c)'
      BY <2>1, <3>1, <3>2, GetConnectionStep DEF CallPhase, ClientTypeOK
    <3>5. /\ \A d \in Calls \ {c} : pc'[d] = pc[d] /\ conn'[d] = conn[d] /\ connState'[d] = connState[d]
          /\ pc'[c] # "idle"
          /\ connState'[c] = "open" => connState[c] = "open"
      BY <2>1, <3>1, GetConnectionStep DEF ClientTypeOK
    <3> QED BY <2>1, <3>1, <3>2, <3>a, <3>3, <3>4, <3>5, OneCallStep
  <2> QED BY <2>2, <2>3
<1>connect. CASE ConnectRefused(c) \/ \E code \in Results : ConnectFails(c, code)
  <2>1. PICK code \in {"ERR_MCP_PROTOCOL", "ERR_MCP_UPSTREAM"} :
          /\ pc[c] = "connecting" /\ connState' = [connState EXCEPT ![c] = "closed"]
          /\ Settle(c, code)
          /\ UNCHANGED <<op, conn, connections, closer, cursor, audited, wired, raced>>
    BY <1>connect DEF ConnectRefused, ConnectFails
  <2>2. ClientTypeOK'
    BY <2>1 DEF Settle, ClientTypeOK, Results
  <2>3. CallPhase(c)'
    BY <2>1 DEF Settle, CallPhase, ClientTypeOK, FarEnd
  <2>4. c \in wired' => Refusal(op'[c]) = "none" /\ [call |-> c, decision |-> "allow"] \in audited'
    BY <2>1 DEF ClientInv, AuditedBeforeWire, Refusal
  <2> QED BY <2>1, <2>2, <2>3, <2>4, OneCallStep DEF Settle, ClientTypeOK
<1>answered. CASE \E code \in Results : Answered(c, code)
  <2>1. PICK code \in {"ok", "ERR_MCP_UPSTREAM"} :
          /\ pc[c] = "wire" /\ Settle(c, code)
          /\ UNCHANGED <<op, conn, connState, connections, closer, cursor, audited, wired, raced>>
    BY <1>answered DEF Answered
  <2>2. ClientTypeOK'
    BY <2>1 DEF Settle, ClientTypeOK, Results
  <2>3. CallPhase(c)'
    BY <2>1 DEF Settle, CallPhase, ClientTypeOK, FarEnd
  <2>4. c \in wired' => Refusal(op'[c]) = "none" /\ [call |-> c, decision |-> "allow"] \in audited'
    BY <2>1 DEF ClientInv, AuditedBeforeWire, Refusal
  <2> QED BY <2>1, <2>2, <2>3, <2>4, OneCallStep DEF Settle, ClientTypeOK
<1>result. CASE AuditResult(c)
  <2>1. ClientTypeOK'
    BY <1>result DEF AuditResult, ClientTypeOK
  <2>2. CallPhase(c)'
    BY <1>result DEF AuditResult, CallPhase, ClientTypeOK
  <2>3. c \in wired' => Refusal(op'[c]) = "none" /\ [call |-> c, decision |-> "allow"] \in audited'
    BY <1>result DEF AuditResult, ClientInv, AuditedBeforeWire, Refusal
  <2> QED BY <1>result, <2>1, <2>2, <2>3, OneCallStep DEF AuditResult, ClientTypeOK
<1> QED BY <1>calltool, <1>list, <1>auditfails, <1>audit, <1>connect, <1>answered, <1>result

\* The connect of c ends well, and its connection takes the cache slot.
LEMMA ConnectedStep == ASSUME ClientInv, NEW c \in Calls, Connected(c) PROVE ClientInv'
<1> DEFINE s == op[c].server
<1>1. /\ pc[c] = "connecting" /\ pc' = [pc EXCEPT ![c] = "wire"]
      /\ connState' = [connState EXCEPT ![c] = "open"]
      /\ conn' = [conn EXCEPT ![c] = c]
      /\ wired' = IF op[c].kind = "call" THEN wired \union {c} ELSE wired
      /\ UNCHANGED <<op, result, closer, cursor, audited>>
      /\ raced \subseteq raced' /\ raced' \subseteq raced \union {s}
      /\ Slots(s) # {} \/ closer # "idle" => s \in raced'
  BY DEF Connected, Send
<1>2. CallPhase(c) /\ ClientTypeOK /\ s \in Servers
  BY <1>1 DEF ClientInv, CallPhase
<1>3. PICK i : /\ connections' = IF i = Len(connections) + 1 THEN Append(connections, <<s, c>>)
                                  ELSE [connections EXCEPT ![i] = <<s, c>>]
               /\ i \in 1..(Len(connections) + 1)
               /\ i # Len(connections) + 1 => i \in Slots(s)
  <2>1. CASE Slots(s) = {}
    <3>1. connections' = Append(connections, <<s, c>>)
      BY <2>1 DEF Connected, MapSet
    <3>2. Len(connections) + 1 \in 1..(Len(connections) + 1)
      BY <1>2 DEF ClientTypeOK
    <3> QED BY <3>1, <3>2
  <2>2. CASE Slots(s) # {}
    <3> DEFINE j == CHOOSE n \in Slots(s) : TRUE
    <3>1. connections' = [connections EXCEPT ![j] = <<s, c>>] /\ j \in Slots(s)
      BY <2>2 DEF Connected, MapSet
    <3> HIDE DEF j
    <3>2. j \in 1..Len(connections)
      BY <3>1 DEF Slots
    <3>3. j # Len(connections) + 1 /\ j \in 1..(Len(connections) + 1)
      BY <1>2, <3>2 DEF ClientTypeOK
    <3> QED BY <3>1, <3>3
  <2> QED BY <2>1, <2>2
<1>4. /\ connections' \in Seq(Entry)
      /\ Len(connections') \in {Len(connections), Len(connections) + 1}
      /\ i \in 1..Len(connections') /\ connections'[i] = <<s, c>>
      /\ \A n \in 1..Len(connections') : n # i => n \in 1..Len(connections) /\ connections'[n] = connections[n]
      /\ \A n \in 1..Len(connections) : n \in 1..Len(connections')
  <2>0. <<s, c>> \in Entry /\ connections \in Seq(Entry)
    BY <1>2 DEF Entry, ClientTypeOK
  <2>1. CASE i = Len(connections) + 1
    BY <1>3, <2>0, <2>1
  <2>2. CASE i # Len(connections) + 1
    BY <1>3, <2>0, <2>2
  <2> QED BY <2>1, <2>2
<1>5. ClientTypeOK'
  BY <1>1, <1>2, <1>4 DEF ClientTypeOK
<1>6. \A d \in Calls : CallPhase(d)'
  <2>1. CallPhase(c)'
    BY <1>1, <1>2 DEF CallPhase, ClientTypeOK
  <2>2. \A d \in Calls \ {c} : CallPhase(d)'
    BY <1>1, <1>2 DEF ClientInv, CallPhase, Untouched, ClientTypeOK
  <2> QED BY <2>1, <2>2
<1>7. AuditedBeforeWire'
  <2>1. op[c].kind = "call" => Refusal(op[c]) = "none" /\ [call |-> c, decision |-> "allow"] \in audited
    BY <1>1, <1>2 DEF CallPhase
  <2> QED BY <1>1, <2>1, NotRefused DEF ClientInv, AuditedBeforeWire
<1>8. \A n \in 1..Len(connections) : connections[n][2] \in Calls /\ connections[n] = <<connections[n][1], connections[n][2]>>
  BY <1>2 DEF ClientTypeOK, Entry
<1>9. CacheTrue'
  <2> SUFFICES ASSUME NEW n \in 1..Len(connections')
               PROVE  pc'[connections'[n][2]] # "idle" /\ op'[connections'[n][2]].server = connections'[n][1]
    BY DEF CacheTrue
  <2>1. CASE n = i
    BY <1>1, <1>2, <1>4, <2>1 DEF ClientTypeOK
  <2>2. CASE n # i
    <3>1. n \in 1..Len(connections) /\ connections'[n] = connections[n]
      BY <1>4, <2>2
    <3>2. pc[connections[n][2]] # "idle" /\ op[connections[n][2]].server = connections[n][1]
      BY <3>1 DEF ClientInv, CacheTrue
    <3> QED BY <1>1, <1>2, <1>8, <3>1, <3>2 DEF ClientTypeOK
  <2> QED BY <2>1, <2>2
<1>10. \A k \in Calls : connState'[k] = "open" => Cached(k)' \/ op'[k].server \in raced'
  <2> SUFFICES ASSUME NEW k \in Calls, connState'[k] = "open"
               PROVE  Cached(k)' \/ op'[k].server \in raced'
    OBVIOUS
  <2>1. CASE k = c
    BY <1>4, <2>1 DEF Cached
  <2>2. CASE k # c
    <3>1. connState[k] = "open"
      BY <1>1, <1>2, <2>2 DEF ClientTypeOK
    <3>2. CASE op[k].server \in raced
      BY <1>1, <3>2
    <3>3. CASE Cached(k)
      <4>1. PICK n \in 1..Len(connections) : connections[n][2] = k
        BY <3>3 DEF Cached
      <4>2. CASE n # i
        BY <1>4, <4>1, <4>2 DEF Cached
      <4>3. CASE n = i
        <5>1. i # Len(connections) + 1
          BY <1>2, <4>3 DEF ClientTypeOK
        <5>2. i \in Slots(s)
          BY <1>3, <5>1
        <5>3. connections[i][1] = s /\ s \in raced'
          BY <1>1, <5>2 DEF Slots
        <5>4. op[k].server = s
          BY <4>1, <4>3, <5>3 DEF ClientInv, CacheTrue
        <5> QED BY <1>1, <5>3, <5>4
      <4> QED BY <4>2, <4>3
    <3> QED BY <3>1, <3>2, <3>3 DEF ClientInv, OpenAreKnown
  <2> QED BY <2>1, <2>2
<1>11. OpenAreKnown'
  <2>0. closer' = "closing" => cursor' > 0
    BY <1>1 DEF ClientInv, OpenAreKnown
  <2> SUFFICES ASSUME closer' = "closing", NEW n \in 1..Len(connections'), n < cursor'
               PROVE  connState'[connections'[n][2]] # "open" \/ connections'[n][1] \in raced'
    BY <1>10, <2>0 DEF OpenAreKnown
  <2>1. CASE n = i
    BY <1>1, <1>4, <2>1
  <2>2. CASE n # i
    <3>1. n \in 1..Len(connections) /\ connections'[n] = connections[n]
      BY <1>4, <2>2
    <3>2. connState[connections[n][2]] # "open" \/ connections[n][1] \in raced
      BY <1>1, <3>1 DEF ClientInv, OpenAreKnown
    <3>3. CASE connections[n][2] = c
      <4>1. connections[n][1] = s
        BY <3>1, <3>3 DEF ClientInv, CacheTrue
      <4> QED BY <1>1, <3>1, <4>1
    <3>4. CASE connections[n][2] # c
      <4>1. connState'[connections[n][2]] = connState[connections[n][2]]
        BY <1>1, <1>2, <1>8, <3>1, <3>4 DEF ClientTypeOK
      <4> QED BY <1>1, <3>1, <3>2, <4>1
    <3> QED BY <3>3, <3>4
  <2> QED BY <2>1, <2>2
<1> QED BY <1>5, <1>6, <1>7, <1>9, <1>11 DEF ClientInv

\* close() and a far end that goes away: connections end, none begins.
LEMMA ClosingSteps ==
  ASSUME ClientInv, (\E k \in Calls : Dropped(k)) \/ StartClose \/ CloseOne \/ CloseDone
  PROVE  ClientInv'
<1> DEFINE k == connections[cursor][2]
<1>1. CloseOne => cursor \in 1..Len(connections) /\ k \in Calls /\ pc[k] # "idle"
  BY DEF CloseOne, ClientInv, ClientTypeOK, Entry, CacheTrue, OpenAreKnown
<1>2. /\ UNCHANGED <<pc, op, result, conn, audited, wired, raced>>
      /\ connState' \in [Calls -> {"none", "opening", "open", "closed"}]
      /\ connections' = connections \/ connections' = <<>>
      /\ closer' \in {"idle", "closing", "closed"} /\ cursor' \in Nat
  <2>1. CASE \E d \in Calls : Dropped(d)
    BY <2>1 DEF Dropped, ClientInv, ClientTypeOK
  <2>2. CASE CloseOne
    BY <1>1, <2>2 DEF CloseOne, ClientInv, ClientTypeOK
  <2>3. CASE StartClose \/ CloseDone
    BY <2>3 DEF StartClose, CloseDone, ClientInv, ClientTypeOK
  <2> QED BY <2>1, <2>2, <2>3
<1>a. UNCHANGED <<pc, op, result, conn, audited, wired, raced>>
  BY <1>2
<1>b. \A d \in Calls : /\ connState'[d] = "open" => connState[d] = "open"
                       /\ pc[d] = "idle" => connState'[d] = connState[d]
  <2>1. CASE \E d \in Calls : Dropped(d)
    BY <2>1 DEF Dropped, ClientInv, ClientTypeOK, CallPhase, Untouched
  <2>2. CASE CloseOne
    BY <1>1, <2>2 DEF CloseOne, ClientInv, ClientTypeOK
  <2>3. CASE StartClose \/ CloseDone
    BY <2>3 DEF StartClose, CloseDone
  <2> QED BY <2>1, <2>2, <2>3
<1>3. ClientTypeOK'
  <2>1. connections \in Seq(Entry) /\ <<>> \in Seq(Entry)
    BY DEF ClientInv, ClientTypeOK
  <2>2. connections' \in Seq(Entry)
    BY <1>2, <2>1
  <2> QED BY <1>2, <2>2 DEF ClientInv, ClientTypeOK
<1>4. \A d \in Calls : CallPhase(d)'
  <2> SUFFICES ASSUME NEW d \in Calls PROVE CallPhase(d)'
    OBVIOUS
  <2>1. CallPhase(d)
    BY DEF ClientInv
  <2> QED BY <1>a, <1>b, <2>1 DEF CallPhase, Untouched, Refusal
<1>5. AuditedBeforeWire' /\ CacheTrue'
  BY <1>2 DEF ClientInv, AuditedBeforeWire, CacheTrue
<1>6. OpenAreKnown'
  <2> SUFFICES /\ \A d \in Calls : connState'[d] = "open" => Cached(d)' \/ op'[d].server \in raced'
               /\ closer' = "closing" =>
                    /\ cursor' > 0
                    /\ \A i \in 1..Len(connections') :
                         i < cursor' => \/ connState'[connections'[i][2]] # "open"
                                        \/ connections'[i][1] \in raced'
    BY DEF OpenAreKnown
  <2>0. \A i \in 1..Len(connections) : connections[i][2] \in Calls
    BY DEF ClientInv, ClientTypeOK, Entry
  <2>1. CASE (\E d \in Calls : Dropped(d)) \/ StartClose
    <3>1. connections' = connections /\ (closer' = "closing" => (closer = "closing" /\ cursor' = cursor) \/ cursor' = 1)
      BY <2>1 DEF Dropped, StartClose
    <3>2. \A d \in Calls : connState'[d] = "open" => Cached(d)' \/ op'[d].server \in raced'
      BY <1>a, <1>b, <3>1 DEF ClientInv, OpenAreKnown, Cached
    <3>3. CASE cursor' = 1
      BY <3>2, <3>3
    <3>4. CASE closer = "closing" /\ cursor' = cursor
      BY <1>a, <1>b, <2>0, <3>1, <3>2, <3>4 DEF ClientInv, OpenAreKnown
    <3> QED BY <3>1, <3>2, <3>3, <3>4
  <2>2. CASE CloseOne
    <3>1. connections' = connections /\ closer = "closing" /\ cursor' = cursor + 1 /\ connState'[k] = "closed"
      BY <1>1, <2>2 DEF CloseOne, ClientInv, ClientTypeOK
    <3>2. \A i \in 1..Len(connections) : i < cursor' => i = cursor \/ i < cursor
      BY <3>1 DEF ClientInv, ClientTypeOK
    <3>3. \A d \in Calls : connState'[d] = "open" => Cached(d)' \/ op'[d].server \in raced'
      BY <1>a, <1>b, <3>1 DEF ClientInv, OpenAreKnown, Cached
    <3>4. cursor' > 0
      BY <3>1 DEF ClientInv, ClientTypeOK
    <3>5. \A i \in 1..Len(connections) : i < cursor' =>
            connState'[connections[i][2]] # "open" \/ connections[i][1] \in raced
      BY <1>a, <1>b, <2>0, <3>1, <3>2 DEF ClientInv, OpenAreKnown
    <3> QED BY <1>a, <1>b, <3>1, <3>3, <3>4, <3>5
  <2>3. CASE CloseDone
    <3>1. closer = "closing" /\ cursor > Len(connections) /\ closer' = "closed" /\ connState' = connState
      BY <2>3 DEF CloseDone
    <3>2. \A d \in Calls : connState[d] = "open" => op[d].server \in raced
      <4> SUFFICES ASSUME NEW d \in Calls, connState[d] = "open", Cached(d) PROVE op[d].server \in raced
        BY DEF ClientInv, OpenAreKnown
      <4>1. PICK i \in 1..Len(connections) : connections[i][2] = d
        BY DEF Cached
      <4>2. i < cursor
        BY <3>1, <4>1 DEF ClientInv, ClientTypeOK
      <4> QED BY <3>1, <4>1, <4>2 DEF ClientInv, OpenAreKnown, CacheTrue
    <3> QED BY <1>a, <3>1, <3>2
  <2> QED BY <2>1, <2>2, <2>3
<1> QED BY <1>3, <1>4, <1>5, <1>6 DEF ClientInv

\* Every step of the client keeps its invariant.
LEMMA ClientSteps == ASSUME ClientInv, ClientNext PROVE ClientInv'
<1>1. {"ERR_MCP_PROTOCOL", "ERR_MCP_UPSTREAM", "ok"} \subseteq Results
  BY DEF Results
<1> QED BY <1>1, CallSteps, ConnectedStep, ClosingSteps DEF ClientNext, CallStep, ConnectEnds, WireEnds

-----------------------------------------------------------------------------
(* Steps of the server.                                                    *)

\* A step of the request r that changes nothing of the others.
LEMMA OneRequestStep ==
  ASSUME ServerInv, ServerTypes', NEW r \in Requests,
         \A q \in Requests \ {r} : /\ spc'[q] = spc[q] /\ body'[q] = body[q]
                                    /\ reply'[q] = reply[q] /\ outcome'[q] = outcome[q],
         serveLog \subseteq serveLog',
         RequestPhase(r)',
         outcome'[r] # "none" =>
           /\ body'[r].bearer = "session" /\ body'[r].method = "tools/call"
           /\ body'[r].name \in MayServe /\ Record(r, "allow") \in serveLog'
  PROVE  ServerInv'
<1>1. \A q \in Requests : RequestPhase(q)'
  <2> SUFFICES ASSUME NEW q \in Requests \ {r} PROVE RequestPhase(q)'
    OBVIOUS
  <2>1. RequestPhase(q)
    BY DEF ServerInv
  <2> QED BY <2>1 DEF RequestPhase, Record
<1>2. HandlerAudited'
  BY DEF ServerInv, HandlerAudited, Record
<1> QED BY <1>1, <1>2 DEF ServerInv

\* A request is taken in.
LEMMA ReceiveStep ==
  ASSUME ServerInv, NEW r \in Requests,
         NEW b \in [bearer : {"session", "bad", "missing"}, method : Methods,
                    name : Capabilities \union OtherNames \union {"none"}, supported : BOOLEAN],
         Receive(r, b)
  PROVE  ServerInv'
<1> RequestPhase(r) /\ ServerTypes
  BY DEF ServerInv
<1>1. /\ spc[r] = "none" /\ body' = [body EXCEPT ![r] = b] /\ UNCHANGED <<outcome, serveLog, tokenLive>>
      /\ \/ UNCHANGED reply
         \/ \E a \in Replies \ {"result"} :
               reply' = [reply EXCEPT ![r] = a] /\ spc' = [spc EXCEPT ![r] = "replied"]
  BY DEF Receive, Unauthenticated, Dispatch, Reply, Replies
<1>2. \E l \in {"append_rejected", "append_version", "append_list", "append_unknown", "append_call", "replied"} :
         /\ spc' = [spc EXCEPT ![r] = l]
         /\ l = "append_call" => b.bearer = "session" /\ b.method = "tools/call" /\ b.name \in Capabilities
  BY DEF Receive, Unauthenticated, Dispatch, Reply, verifyToken
<1>3. outcome[r] = "none" /\ reply[r] = "none"
  BY <1>1 DEF RequestPhase
<1>4. ServerTypes'
  <2>1. reply' \in [Requests -> Replies]
    BY <1>1 DEF ServerTypes
  <2>2. spc' \in [Requests -> {"none", "append_rejected", "append_version", "append_list",
                           "append_unknown", "append_call", "handler", "append_result", "replied"}]
    BY <1>2 DEF ServerTypes
  <2> QED BY <1>1, <2>1, <2>2 DEF ServerTypes
<1>5. RequestPhase(r)'
  <2>1. body'[r] = b /\ outcome'[r] = "none"
    BY <1>1, <1>3 DEF ServerTypes
  <2>2. reply'[r] # "none" => spc'[r] = "replied" /\ reply'[r] # "result"
    BY <1>1, <1>3 DEF ServerTypes
  <2>3. /\ spc'[r] \notin {"handler", "append_result"}
        /\ spc'[r] = "append_call" => b.bearer = "session" /\ b.method = "tools/call" /\ b.name \in Capabilities
    BY <1>2 DEF ServerTypes
  <2> QED BY <2>1, <2>2, <2>3 DEF RequestPhase, Record
<1>6. \A q \in Requests \ {r} : /\ spc'[q] = spc[q] /\ body'[q] = body[q]
                                 /\ reply'[q] = reply[q] /\ outcome'[q] = outcome[q]
  BY <1>1, <1>2 DEF ServerTypes
<1> QED BY <1>1, <1>3, <1>4, <1>5, <1>6, OneRequestStep

\* ... and goes on.
LEMMA ServerStepStep == ASSUME ServerInv, NEW r \in Requests, ServerStep(r) PROVE ServerInv'
<1> /\ RequestPhase(r) /\ ServerTypes
    /\ outcome[r] # "none" => /\ body[r].bearer = "session" /\ body[r].method = "tools/call"
                              /\ body[r].name \in MayServe /\ Record(r, "allow") \in serveLog
  BY DEF ServerInv, HandlerAudited
<1>besteffort. CASE AuditBestEffort(r)
  <2>1. PICK a \in {"401", "ERR_MCP_PROTOCOL", "listed"} :
          /\ spc[r] \in {"append_rejected", "append_version", "append_list"}
          /\ reply' = [reply EXCEPT ![r] = a] /\ spc' = [spc EXCEPT ![r] = "replied"]
          /\ UNCHANGED <<body, outcome, serveLog>>
    BY <1>besteffort DEF AuditBestEffort, Reply
  <2>a. ServerTypes'
    BY <2>1 DEF ServerTypes, Replies
  <2>b. spc'[r] = "replied" /\ reply'[r] # "result" /\ outcome'[r] = outcome[r]
    BY <2>1 DEF ServerTypes
  <2>2. ServerTypes' /\ RequestPhase(r)'
    BY <2>a, <2>b DEF RequestPhase, Record
  <2> QED BY <2>1, <2>2, OneRequestStep DEF ServerTypes
<1>unknown. CASE \E ok \in BOOLEAN : AuditUnknown(r, ok)
  <2>1. PICK a \in {"-32602", "ERR_MCP_AUDIT_UNAVAILABLE"} :
          /\ spc[r] = "append_unknown" /\ serveLog \subseteq serveLog'
          /\ reply' = [reply EXCEPT ![r] = a] /\ spc' = [spc EXCEPT ![r] = "replied"]
          /\ UNCHANGED <<body, outcome>>
    BY <1>unknown DEF AuditUnknown, Reply, Audit
  <2>a. ServerTypes'
    BY <2>1 DEF ServerTypes, Replies
  <2>b. spc'[r] = "replied" /\ reply'[r] # "result" /\ outcome'[r] = outcome[r]
    BY <2>1 DEF ServerTypes
  <2>2. ServerTypes' /\ RequestPhase(r)'
    BY <2>a, <2>b DEF RequestPhase, Record
  <2> QED BY <2>1, <2>2, OneRequestStep DEF ServerTypes
<1>call. CASE \E ok \in BOOLEAN : AuditServeCall(r, ok)
  <2>1. PICK ok \in BOOLEAN : AuditServeCall(r, ok)
    BY <1>call
  <2>2. spc[r] = "append_call" /\ serveLog \subseteq serveLog' /\ UNCHANGED <<body, outcome>>
    BY <2>1 DEF AuditServeCall, Audit
  <2>3. CASE ok /\ Decision(body[r].name) = "allow"
    <3>1. /\ spc' = [spc EXCEPT ![r] = "handler"] /\ reply' = reply
          /\ body[r].name \in MayServe /\ Record(r, "allow") \in serveLog'
      BY <2>1, <2>3 DEF AuditServeCall, Decision, Audit, Reply
    <3>2. ServerTypes' /\ RequestPhase(r)'
      BY <2>2, <3>1 DEF ServerTypes, RequestPhase
    <3> QED BY <2>2, <3>1, <3>2, OneRequestStep DEF ServerTypes, RequestPhase
  <2>4. CASE ~(ok /\ Decision(body[r].name) = "allow")
    <3>1. PICK a \in {"ERR_MCP_AUDIT_UNAVAILABLE", "ERR_MCP_POLICY_DENIED"} :
            reply' = [reply EXCEPT ![r] = a] /\ spc' = [spc EXCEPT ![r] = "replied"]
      BY <2>1, <2>4 DEF AuditServeCall, Reply
    <3>a. ServerTypes'
      BY <2>2, <3>1 DEF ServerTypes, Replies
    <3>b. spc'[r] = "replied" /\ reply'[r] # "result" /\ outcome'[r] = outcome[r]
      BY <2>2, <3>1 DEF ServerTypes
    <3>2. ServerTypes' /\ RequestPhase(r)'
      BY <3>a, <3>b DEF RequestPhase, Record
    <3> QED BY <2>2, <3>1, <3>2, OneRequestStep DEF ServerTypes
  <2> QED BY <2>3, <2>4
<1>handler. CASE \E what \in {"ok", "error"} : Handler(r, what)
  <2>1. PICK what \in {"ok", "error"} : Handler(r, what)
    BY <1>handler
  <2>2. ServerTypes' /\ RequestPhase(r)'
    BY <2>1 DEF Handler, ServerTypes, RequestPhase
  <2>3. /\ body[r].bearer = "session" /\ body[r].method = "tools/call"
        /\ body[r].name \in MayServe /\ Record(r, "allow") \in serveLog
    BY <2>1 DEF Handler, RequestPhase
  <2> QED BY <2>1, <2>2, <2>3, OneRequestStep DEF Handler, ServerTypes
<1>result. CASE AuditServeResult(r)
  <2>1. /\ spc[r] = "append_result"
        /\ reply' = [reply EXCEPT ![r] = IF outcome[r] = "ok" THEN "result" ELSE "error_result"]
        /\ spc' = [spc EXCEPT ![r] = "replied"]
        /\ UNCHANGED <<body, outcome, serveLog>>
    BY <1>result DEF AuditServeResult, Reply
  <2>a. ServerTypes'
    BY <2>1 DEF ServerTypes, Replies
  <2>b. spc'[r] = "replied" /\ (reply'[r] = "result" => outcome'[r] = "ok")
    BY <2>1 DEF ServerTypes
  <2>2. ServerTypes' /\ RequestPhase(r)'
    BY <2>a, <2>b DEF RequestPhase, Record
  <2> QED BY <2>1, <2>2, OneRequestStep DEF ServerTypes
<1> QED BY <1>besteffort, <1>unknown, <1>call, <1>handler, <1>result DEF ServerStep

\* What a call sends is a request the server can read.
LEMMA SentBodyIsBody ==
  ASSUME ClientTypeOK, NEW c \in Calls, NEW part \in {"init", "op"}
  PROVE  /\ <<c, part>> \in Requests
         /\ SentBody(c, part) \in
              [bearer : {"session", "bad", "missing"}, method : Methods,
               name : Capabilities \union OtherNames \union {"none"}, supported : BOOLEAN]
<1>1. op[c] \in Ops
  BY DEF ClientTypeOK
<1>2. op[c].kind = "call" => op[c].tool \in Capabilities \union OtherNames
  BY <1>1, McpAssumption DEF Ops
<1> QED BY <1>2, McpAssumption DEF SentBody, Methods

LEMMA ServerSteps == ASSUME ClientInv, ServerInv, ServerNext PROVE ServerInv'
<1>1. CASE \E c \in Calls, part \in {"init", "op"} :
             Sent(c, part) /\ Receive(<<c, part>>, SentBody(c, part))
  BY <1>1, SentBodyIsBody, ReceiveStep DEF ClientInv
<1>2. CASE ClientQuiet /\ \E r \in Strangers, b \in Bodies : Receive(r, b)
  BY <1>2, ReceiveStep, McpAssumption DEF Bodies
<1>3. CASE \E r \in Requests : ServerStep(r)
  BY <1>3, ServerStepStep
<1>4. CASE TokenExpires
  BY <1>4 DEF TokenExpires, ServerInv, ServerTypes, RequestPhase, HandlerAudited, Record
<1> QED BY <1>1, <1>2, <1>3, <1>4 DEF ServerNext

-----------------------------------------------------------------------------
(* Both ends.                                                              *)

\* What a step of the server does to the request q of a call.
LEMMA ServerEffect ==
  ASSUME ClientInv, ServerInv, ServerNext, NEW c \in Calls
  PROVE  LET q == <<c, "op">> IN
         /\ outcome[q] = "ok" => outcome'[q] = "ok"
         /\ spc'[q] # "none" => spc[q] # "none" \/ conn[c] # NoOne
<1> DEFINE q == <<c, "op">>
<1>q. q \in Requests /\ RequestPhase(q) /\ ServerTypes
  BY McpAssumption DEF ServerInv
<1>1. ASSUME NEW r \in Requests, NEW b, Receive(r, b)
      PROVE  outcome' = outcome /\ (r # q => spc'[q] = spc[q])
  BY <1>1, <1>q DEF Receive, Unauthenticated, Dispatch, Reply, ServerTypes
<1>2. CASE \E d \in Calls, part \in {"init", "op"} :
             Sent(d, part) /\ Receive(<<d, part>>, SentBody(d, part))
  <2>1. PICK d \in Calls, part \in {"init", "op"} :
             Sent(d, part) /\ Receive(<<d, part>>, SentBody(d, part))
    BY <1>2
  <2>2. <<d, part>> \in Requests
    BY McpAssumption
  <2>3. CASE <<d, part>> = q
    BY <1>1, <2>1, <2>2, <2>3 DEF Sent
  <2>4. CASE <<d, part>> # q
    BY <1>1, <2>1, <2>2, <2>4
  <2> QED BY <2>3, <2>4
<1>3. CASE ClientQuiet /\ \E r \in Strangers, b \in Bodies : Receive(r, b)
  <2>1. PICK r \in Strangers, b \in Bodies : Receive(r, b)
    BY <1>3
  <2>2. r \in Requests /\ r # q
    BY McpAssumption
  <2> QED BY <1>1, <2>1, <2>2
<1>4. CASE \E r \in Requests : ServerStep(r)
  <2>1. PICK r \in Requests : ServerStep(r)
    BY <1>4
  <2>2. spc[r] # "none" /\ (\A p \in Requests \ {r} : spc'[p] = spc[p])
    BY <2>1, <1>q DEF ServerStep, AuditBestEffort, AuditUnknown, AuditServeCall, Handler,
       AuditServeResult, Reply, ServerTypes
  <2>3. outcome[q] = "ok" => outcome'[q] = "ok"
    BY <2>1, <1>q DEF ServerStep, AuditBestEffort, AuditUnknown, AuditServeCall, Handler,
       AuditServeResult, ServerTypes, RequestPhase
  <2> QED BY <1>q, <2>2, <2>3
<1>5. CASE TokenExpires
  BY <1>5 DEF TokenExpires
<1> QED BY <1>2, <1>3, <1>4, <1>5 DEF ServerNext

\* What a step of the client does to the call c.
LEMMA ClientEffect ==
  ASSUME ClientInv, ServerInv, ClientNext, NEW c \in Calls
  PROVE  /\ conn[c] # NoOne => conn'[c] # NoOne
         /\ result'[c] = "ok" /\ op'[c].kind = "call" =>
              /\ op'[c] = op[c]
              /\ result[c] = "ok" \/ (op[c].server = Own => reply[<<c, "op">>] = "result")
<1> USE DEF ClientTypeOK
<1>t. ClientTypeOK /\ \A d \in Calls : CallPhase(d)
  BY DEF ClientInv
<1>1. ASSUME NEW d \in Calls,
             \/ \E o \in Ops : CallTool(d, o) \/ ListTools(d, o)
             \/ AuditCallFails(d) \/ AuditCall(d)
      PROVE  /\ conn[c] # NoOne => conn'[c] # NoOne
             /\ result'[c] = "ok" => result[c] = "ok" /\ op'[c] = op[c]
  <2>1. pc[d] \in {"idle", "append_call"} /\ conn[d] = NoOne
    BY <1>1, <1>t DEF CallTool, ListTools, AuditCallFails, AuditCall, CallPhase, Untouched
  <2>2. \A k \in Calls \ {d} : conn'[k] = conn[k] /\ result'[k] = result[k] /\ op'[k] = op[k]
    BY <1>1, <1>t DEF CallTool, ListTools, AuditCallFails, AuditCall, GetConnection
  <2>3. result'[d] = "ok" => result[d] = "ok" /\ op'[d] = op[d]
    BY <1>1, <1>t DEF CallTool, ListTools, AuditCallFails, AuditCall, Refusal, CallPhase, Untouched
  <2> QED BY <2>1, <2>2, <2>3
<1>2. ASSUME NEW d \in Calls, ConnectEnds(d)
      PROVE  /\ conn[c] # NoOne => conn'[c] # NoOne
             /\ result'[c] = "ok" => result[c] = "ok" /\ op'[c] = op[c]
  <2>1. op' = op /\ (result' = result \/ \E code \in {"ERR_MCP_PROTOCOL", "ERR_MCP_UPSTREAM"} :
                                            result' = [result EXCEPT ![d] = code])
    BY <1>2 DEF ConnectEnds, Connected, ConnectRefused, ConnectFails, Settle
  <2>2. conn' = conn \/ conn' = [conn EXCEPT ![d] = d]
    BY <1>2 DEF ConnectEnds, Connected, ConnectRefused, ConnectFails
  <2>3. d # NoOne
    BY McpClientAssumption
  <2> QED BY <1>t, <2>1, <2>2, <2>3
<1>3. ASSUME NEW d \in Calls, WireEnds(d)
      PROVE  /\ conn' = conn /\ op' = op
             /\ result'[c] = "ok" /\ op[c].kind = "call" =>
                   result[c] = "ok" \/ (op[c].server = Own => reply[<<c, "op">>] = "result")
  <2>1. conn' = conn /\ op' = op
    BY <1>3 DEF WireEnds, Answered
  <2>2. CASE Answered(d, "ERR_MCP_UPSTREAM")
    BY <1>t, <2>1, <2>2 DEF Answered, Settle
  <2>3. CASE /\ Answered(d, "ok")
             /\ op[d].server = Own =>
                  reply[<<d, "op">>] = (IF op[d].kind = "call" THEN "result" ELSE "listed")
    BY <1>t, <2>1, <2>3 DEF Answered, Settle
  <2> QED BY <1>3, <2>1, <2>2, <2>3 DEF WireEnds
<1>4. ASSUME AuditResult(c) \/ (\E d \in Calls : AuditResult(d) \/ Dropped(d))
             \/ StartClose \/ CloseOne \/ CloseDone
      PROVE  UNCHANGED <<conn, op, result>>
  BY <1>4 DEF AuditResult, Dropped, StartClose, CloseOne, CloseDone
<1>5. CASE \E d \in Calls : \/ \E o \in Ops : CallTool(d, o) \/ ListTools(d, o)
                            \/ AuditCallFails(d) \/ AuditCall(d) \/ ConnectEnds(d)
  BY <1>1, <1>2, <1>5
<1>6. CASE \E d \in Calls : WireEnds(d)
  BY <1>3, <1>6
<1>7. CASE (\E d \in Calls : AuditResult(d) \/ Dropped(d)) \/ StartClose \/ CloseOne \/ CloseDone
  BY <1>4, <1>7
<1> QED BY <1>5, <1>6, <1>7 DEF ClientNext, CallStep

\* What each side knows of the other stays true in every step.
LEMMA BothEndsSteps ==
  ASSUME McpInv, Next
  PROVE  \A c \in Calls : BothEnds(c)'
<1> SUFFICES ASSUME NEW c \in Calls PROVE BothEnds(c)'
  OBVIOUS
<1> DEFINE r == <<c, "op">>
<1>r. r \in Requests /\ BothEnds(c) /\ RequestPhase(r) /\ ClientInv /\ ServerInv
  BY McpAssumption DEF McpInv, ServerInv
<1>1. CASE ServerNext
  <2>1. UNCHANGED <<conn, op, result>>
    BY <1>1 DEF ServerNext, clientVars
  <2> QED BY <1>1, <1>r, <2>1, ServerEffect DEF BothEnds
<1>2. CASE ClientNext
  <2>1. UNCHANGED <<spc, outcome, reply>>
    BY <1>2 DEF ClientNext, serverVars
  <2>2. reply[r] = "result" => outcome[r] = "ok"
    BY <1>r DEF RequestPhase
  <2> QED BY <1>2, <1>r, <2>1, <2>2, ClientEffect DEF BothEnds
<1> QED BY <1>1, <1>2 DEF Next

-----------------------------------------------------------------------------
(* The theorems.                                                           *)

LEMMA McpInitially == Init => McpInv
<1> SUFFICES ASSUME Init PROVE McpInv
  OBVIOUS
<1> USE DEF Init, ClientInit, ServerInit
<1>1. AnyOp \in Ops
  <2>1. [kind |-> "list", server |-> Own, tool |-> NoOne] \in Ops
    BY McpAssumption, McpClientAssumption DEF Ops
  <2> QED BY <2>1 DEF AnyOp
<1>2. AnyBody \in Bodies
  <2>1. [bearer |-> "bad", method |-> "malformed", name |-> "none", supported |-> TRUE] \in Bodies
    BY DEF Bodies, Methods
  <2> QED BY <2>1 DEF AnyBody
<1>3. ClientTypeOK
  BY <1>1 DEF ClientTypeOK, Results
<1>4. \A c \in Calls : CallPhase(c)
  BY DEF CallPhase, Untouched
<1>5. AuditedBeforeWire /\ CacheTrue /\ OpenAreKnown
  BY DEF AuditedBeforeWire, CacheTrue, OpenAreKnown
<1>6. ServerTypes
  BY <1>2 DEF ServerTypes, Bodies, Replies
<1>7. (\A r \in Requests : RequestPhase(r)) /\ HandlerAudited
  BY DEF RequestPhase, HandlerAudited
<1>8. \A c \in Calls : BothEnds(c)
  BY McpAssumption DEF BothEnds
<1> QED BY <1>3, <1>4, <1>5, <1>6, <1>7, <1>8 DEF McpInv, ClientInv, ServerInv

\* The client's invariant speaks of the client's variables alone.
LEMMA ClientKept == ASSUME ClientInv, UNCHANGED clientVars PROVE ClientInv'
<1>1. UNCHANGED <<pc, op, result, conn, connState, connections, closer, cursor, audited, wired, raced>>
  BY DEF clientVars
<1>2. ClientTypeOK'
  BY <1>1 DEF ClientInv, ClientTypeOK
<1>3. \A c \in Calls : CallPhase(c)'
  <2> SUFFICES ASSUME NEW c \in Calls PROVE CallPhase(c)'
    OBVIOUS
  <2>1. CallPhase(c)
    BY DEF ClientInv
  <2> QED BY <1>1, <2>1 DEF CallPhase, Untouched, Refusal
<1>4. AuditedBeforeWire'
  BY <1>1 DEF ClientInv, AuditedBeforeWire
<1>5. CacheTrue'
  BY <1>1 DEF ClientInv, CacheTrue
<1>6. OpenAreKnown'
  BY <1>1 DEF ClientInv, OpenAreKnown, Cached
<1> QED BY <1>2, <1>3, <1>4, <1>5, <1>6 DEF ClientInv

LEMMA McpSteps == ASSUME McpInv, [Next]_vars PROVE McpInv'
<1>1. CASE ClientNext
  <2>1. UNCHANGED serverVars
    BY <1>1 DEF ClientNext
  <2>2. ServerInv'
    BY <2>1 DEF serverVars, McpInv, ServerInv, ServerTypes, RequestPhase, HandlerAudited, Record
  <2> QED BY <1>1, <2>2, ClientSteps, BothEndsSteps DEF McpInv, Next
<1>2. CASE ServerNext
  <2>1. UNCHANGED clientVars
    BY <1>2 DEF ServerNext
  <2>2. ClientInv'
    BY <2>1, ClientKept DEF McpInv
  <2> QED BY <1>2, <2>2, ServerSteps, BothEndsSteps DEF McpInv, Next
<1>3. CASE UNCHANGED vars
  <2>1. UNCHANGED clientVars /\ UNCHANGED serverVars
    BY <1>3 DEF vars
  <2>2. ClientInv'
    BY <2>1, ClientKept DEF McpInv
  <2>3. ServerInv'
    BY <2>1 DEF serverVars, McpInv, ServerInv, ServerTypes, RequestPhase, HandlerAudited, Record
  <2>4. \A c \in Calls : BothEnds(c)'
    BY <2>1 DEF clientVars, serverVars, McpInv, BothEnds
  <2> QED BY <2>2, <2>3, <2>4 DEF McpInv
<1> QED BY <1>1, <1>2, <1>3 DEF Next

\* For any servers, tools, policies and concurrent calls: the step a call and a
\* request are at tells what has been audited, sent and answered.
THEOREM McpInvariant == Spec => []McpInv
BY McpInitially, McpSteps, PTL DEF Spec

\* The client's state stays well formed and every outcome is one of its codes.
THEOREM McpTypeCorrect == Spec => []TypeOK
<1>1. McpInv => TypeOK
  BY DEF McpInv, ClientInv, TypeOK
<1> QED BY <1>1, McpInvariant, PTL

\* No tool call is on the wire without the two allowlists, the policy and a
\* durable allow record (callTool).
THEOREM AlwaysAuditedBeforeWire == Spec => []AuditedBeforeWire
<1>1. McpInv => AuditedBeforeWire
  BY DEF McpInv, ClientInv
<1> QED BY <1>1, McpInvariant, PTL

\* No capability's handler has run without a session, the policy's allow and its
\* durable record (handleToolsCall).
THEOREM AlwaysHandlerAudited == Spec => []HandlerAudited
<1>1. McpInv => HandlerAudited
  BY DEF McpInv, ServerInv
<1> QED BY <1>1, McpInvariant, PTL

\* Only a race for a cache slot leaves an open connection that nobody can close
\* (getConnection, close).
THEOREM AlwaysOrphansOnlyByRace == Spec => []OrphansOnlyByRace
<1>1. McpInv => OrphansOnlyByRace
  BY DEF McpInv, ClientInv, OpenAreKnown, OrphansOnlyByRace
<1> QED BY <1>1, McpInvariant, PTL

\* The code a caller gets is the truth about the far end, late deliveries and
\* lost answers included.
THEOREM CodesAlwaysTellTruth == Spec => []CodesTellTruth
<1>1. McpInv => CodesTellTruth
  <2> SUFFICES ASSUME McpInv, NEW c \in Calls, pc[c] = "done", op[c].kind = "call"
               PROVE  /\ (result[c] = "ok" /\ op[c].server = Own) =>
                           /\ outcome[<<c, "op">>] = "ok"
                           /\ ToolCall(c) \in audited
                           /\ Record(<<c, "op">>, "allow") \in serveLog
                      /\ result[c] \notin {"ok", "ERR_MCP_PROTOCOL", "ERR_MCP_UPSTREAM"} =>
                           outcome[<<c, "op">>] = "none" /\ ~Sent(c, "op")
    BY DEF CodesTellTruth
  <2> DEFINE r == <<c, "op">>
  <2>1. /\ r \in Requests /\ BothEnds(c) /\ CallPhase(c) /\ RequestPhase(r)
        /\ outcome[r] # "none" => Record(r, "allow") \in serveLog
    BY McpAssumption DEF McpInv, ClientInv, ServerInv, HandlerAudited
  <2>2. CASE result[c] = "ok"
    <3>1. ToolCall(c) \in audited
      BY <2>1, <2>2 DEF CallPhase, ToolCall
    <3> QED BY <2>1, <2>2, <3>1 DEF BothEnds
  <2>3. CASE result[c] \notin {"ok", "ERR_MCP_PROTOCOL", "ERR_MCP_UPSTREAM"}
    BY <2>1, <2>3 DEF CallPhase, FarEnd, BothEnds, RequestPhase, Sent
  <2> QED BY <2>2, <2>3
<1> QED BY <1>1, McpInvariant, PTL
=============================================================================
