----------------------------- MODULE McpServer ------------------------------
(***************************************************************************)
(* The MCP inbound surface, POST /mcp (packages/mcp/src/server.ts), with   *)
(* the runtime's token check (createServer's verifyToken) and its one      *)
(* capability (mcp-capabilities.ts).  Every request is authenticated anew; *)
(* the token is the platform's session token and expires while requests    *)
(* come in.                                                                *)
(***************************************************************************)
EXTENDS Naturals, FiniteSets

CONSTANTS Requests,      \* POST /mcp requests
          Capabilities,  \* names of the exposed capabilities
          OtherNames,    \* names that are no capability
          MayServe       \* capabilities the policy allows the subject

ASSUME McpServerAssumption == /\ MayServe \subseteq Capabilities
                              /\ OtherNames \intersect Capabilities = {}

Methods == {"malformed", "initialize", "notifications/initialized",
            "tools/list", "tools/call", "other"}

\* What the dispatcher tells apart in a request: its Authorization header, its
\* method, the name of a tools/call, and whether the protocol version of an
\* initialize is pinned.
Bodies == {b \in [bearer : {"session", "bad", "missing"}, method : Methods,
                  name : Capabilities \union OtherNames \union {"none"},
                  supported : BOOLEAN] :
             /\ b.method = "tools/call" <=> b.name # "none"
             /\ b.supported \/ b.method = "initialize"}

VARIABLES spc,        \* where each request is
          body,       \* the request itself
          reply,      \* the JSON-RPC answer, "none" until sent
          outcome,    \* what the capability's handler did
          serveLog,   \* the mcp.serve_call records of the audit log
          tokenLive   \* the session token has not expired

serverVars == <<spc, body, reply, outcome, serveLog, tokenLive>>

AnyBody == CHOOSE b \in Bodies : TRUE

ServerInit == /\ spc = [r \in Requests |-> "none"]
              /\ body = [r \in Requests |-> AnyBody]
              /\ reply = [r \in Requests |-> "none"]
              /\ outcome = [r \in Requests |-> "none"]
              /\ serveLog = {}
              /\ tokenLive = TRUE

-----------------------------------------------------------------------------
\* extractBearer and verifyToken: the caller's identity is known.
verifyToken(b) == b.bearer = "session" /\ tokenLive

Record(r, decision) == [request |-> r, decision |-> decision]

Reply(r, answer) == /\ reply' = [reply EXCEPT ![r] = answer]
                    /\ spc' = [spc EXCEPT ![r] = "replied"]

\* safeAudit of mcp.serve_call: the append is durable, or it threw.
Audit(r, decision, ok) ==
  serveLog' = IF ok THEN serveLog \union {Record(r, decision)} ELSE serveLog

Decision(name) == IF name \in MayServe THEN "allow" ELSE "deny"

\* The session token runs out.
TokenExpires == /\ tokenLive
                /\ tokenLive' = FALSE
                /\ UNCHANGED <<spc, body, reply, outcome, serveLog>>

\* A request no subject is found for: the limiter decides whether an append
\* comes before the 401.
Unauthenticated(r, b) ==
  /\ spc[r] = "none" /\ ~verifyToken(b)
  /\ body' = [body EXCEPT ![r] = b]
  /\ \/ spc' = [spc EXCEPT ![r] = "append_rejected"] /\ UNCHANGED reply
     \/ Reply(r, "401")
  /\ UNCHANGED <<outcome, serveLog, tokenLive>>

\* Dispatch of an authenticated request, up to its answer or its first append.
Dispatch(r, b) ==
  /\ spc[r] = "none" /\ verifyToken(b)
  /\ body' = [body EXCEPT ![r] = b]
  /\ \/ b.method = "malformed" /\ Reply(r, "400")
     \/ b.method = "initialize" /\ b.supported /\ Reply(r, "initialized")
     \/ /\ b.method = "initialize" /\ ~b.supported
        /\ spc' = [spc EXCEPT ![r] = "append_version"] /\ UNCHANGED reply
     \/ b.method = "notifications/initialized" /\ Reply(r, "202")
     \/ b.method = "tools/list" /\ spc' = [spc EXCEPT ![r] = "append_list"] /\ UNCHANGED reply
     \/ /\ b.method = "tools/call"
        /\ spc' = [spc EXCEPT ![r] =
                     IF b.name \in Capabilities THEN "append_call" ELSE "append_unknown"]
        /\ UNCHANGED reply
     \/ b.method = "other" /\ Reply(r, "-32601")
  /\ UNCHANGED <<outcome, serveLog, tokenLive>>

\* mcp.serve_rejected and mcp.serve_list, best effort: the answer is the same
\* whether or not the append succeeds.
AuditBestEffort(r) ==
  /\ \/ spc[r] = "append_rejected" /\ Reply(r, "401")
     \/ spc[r] = "append_version" /\ Reply(r, "ERR_MCP_PROTOCOL")
     \/ spc[r] = "append_list" /\ Reply(r, "listed")
  /\ UNCHANGED <<body, outcome, serveLog, tokenLive>>

\* mcp.serve_call with decision deny for a name that is no capability.
AuditUnknown(r, ok) ==
  /\ spc[r] = "append_unknown"
  /\ Audit(r, "deny", ok)
  /\ Reply(r, IF ok THEN "-32602" ELSE "ERR_MCP_AUDIT_UNAVAILABLE")
  /\ UNCHANGED <<body, outcome, tokenLive>>

\* Mutant: the handler runs although its record could not be written.
AuditServeCall_BestEffort(r, ok) ==
  /\ spc[r] = "append_call"
  /\ Audit(r, Decision(body[r].name), ok)
  /\ \/ Decision(body[r].name) = "deny" /\ Reply(r, "ERR_MCP_POLICY_DENIED")
     \/ /\ Decision(body[r].name) = "allow"
        /\ spc' = [spc EXCEPT ![r] = "handler"] /\ UNCHANGED reply
  /\ UNCHANGED <<body, outcome, tokenLive>>

\* mcp.serve_call, fail closed: no record, no handler.
AuditServeCall(r, ok) ==
  /\ spc[r] = "append_call"
  /\ Audit(r, Decision(body[r].name), ok)
  /\ \/ ~ok /\ Reply(r, "ERR_MCP_AUDIT_UNAVAILABLE")
     \/ ok /\ Decision(body[r].name) = "deny" /\ Reply(r, "ERR_MCP_POLICY_DENIED")
     \/ /\ ok /\ Decision(body[r].name) = "allow"
        /\ spc' = [spc EXCEPT ![r] = "handler"] /\ UNCHANGED reply
  /\ UNCHANGED <<body, outcome, tokenLive>>

\* The capability's handler: the record's state, or an error (no such table,
\* no such record, the query failed).
Handler(r, what) ==
  /\ spc[r] = "handler"
  /\ outcome' = [outcome EXCEPT ![r] = what]
  /\ spc' = [spc EXCEPT ![r] = "append_result"]
  /\ UNCHANGED <<body, reply, serveLog, tokenLive>>

\* mcp.serve_result, best effort: the handler's outcome is sent either way.
AuditServeResult(r) ==
  /\ spc[r] = "append_result"
  /\ Reply(r, IF outcome[r] = "ok" THEN "result" ELSE "error_result")
  /\ UNCHANGED <<body, outcome, serveLog, tokenLive>>

ServerStep(r) ==
  \/ AuditBestEffort(r)
  \/ \E ok \in BOOLEAN : AuditUnknown(r, ok) \/ AuditServeCall(r, ok)
  \/ AuditServeResult(r)
  \/ \E what \in {"ok", "error"} : Handler(r, what)

-----------------------------------------------------------------------------
\* A capability's handler has run only for a request that carried a session
\* token, for a capability the policy allows its subject, and with the allow
\* record already in the log, whatever became of the other appends.
HandlerAudited ==
  \A r \in Requests : outcome[r] # "none" =>
     /\ body[r].bearer = "session"
     /\ body[r].method = "tools/call"
     /\ body[r].name \in MayServe
     /\ Record(r, "allow") \in serveLog
=============================================================================
