-------------------------- MODULE MCSandboxServer ---------------------------
(* Four requests with two run ids: every run id is used twice.             *)
EXTENDS SandboxServer, TLC

CONSTANTS q1, q2, q3, q4, a, b

MCRunIdOf == q1 :> a @@ q2 :> a @@ q3 :> b @@ q4 :> b
=============================================================================
