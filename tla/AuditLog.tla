------------------------------ MODULE AuditLog ------------------------------
(***************************************************************************)
(* What the audit store promises its callers, independent of how Postgres  *)
(* locks are used: one append-only log, shared by every process of the     *)
(* system.  A call of append() puts its record in the log at most once, at *)
(* the end; a call that reports success has its record in the log; a call  *)
(* that reports failure may or may not have (the COMMIT may have taken     *)
(* effect before the connection was lost).                                 *)
(***************************************************************************)
EXTENDS Naturals, Sequences

CONSTANT Calls      \* the append calls, each with a record of its own

VARIABLES log,      \* the sequence of calls whose record is in the log
          status    \* what is known of each call

vars == <<log, status>>

Init == /\ log = <<>>
        /\ status = [c \in Calls |-> "idle"]

Start(c) == /\ status[c] = "idle"
            /\ status' = [status EXCEPT ![c] = "running"]
            /\ UNCHANGED log

Record(c) == /\ status[c] = "running"
             /\ log' = Append(log, c)
             /\ status' = [status EXCEPT ![c] = "logged"]

Succeed(c) == /\ status[c] = "logged"
              /\ status' = [status EXCEPT ![c] = "ok"]
              /\ UNCHANGED log

Fail(c) == /\ status[c] \in {"running", "logged"}
           /\ status' = [status EXCEPT ![c] = "error"]
           /\ UNCHANGED log

Next == \E c \in Calls : Start(c) \/ Record(c) \/ Succeed(c) \/ Fail(c)

Spec == Init /\ [][Next]_vars
=============================================================================
