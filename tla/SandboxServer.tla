--------------------------- MODULE SandboxServer ----------------------------
(***************************************************************************)
(* The sandbox supervisor's POST /v1/execute (sandbox/src/server.ts) with  *)
(* its concurrency gate (concurrency.ts) and the per-run workspaces        *)
(* (workspace.ts).  The supervisor may crash and restart; its jails die    *)
(* with it (--die-with-parent), the workspace directories stay on disk.    *)
(*                                                                         *)
(* The program counter of a request:                                       *)
(*   "new"       not received                                              *)
(*   "queued"    waits in the semaphore's queue                            *)
(*   "granted"   has a slot; createWorkspace is next                       *)
(*   "input"     owns its workspace; writeToolInput is next                *)
(*   "jail"      runJail is running                                        *)
(*   "cleanup"   cleanupWorkspace is next                                  *)
(*   "release"   the inner finally is over; release() is next              *)
(*   "done"      the handler ended   "lost"  a crash ended it              *)
(***************************************************************************)
EXTENDS Naturals, Sequences, FiniteSets

CONSTANTS Requests,
          RunIds,
          RunIdOf,        \* RunIdOf[q]: the runId in the body of q
          MaxConcurrent,
          MaxQueueDepth,
          MaxCrashes      \* bound: crashes in a run

ASSUME SandboxAssumption ==
  /\ RunIdOf \in [Requests -> RunIds]
  /\ MaxConcurrent \in Nat \ {0}
  /\ MaxQueueDepth \in Nat
  /\ MaxCrashes \in Nat

VARIABLES active,   \* ExecutionSemaphore.active
          queue,    \* ExecutionSemaphore.queue: the waiting requests
          pc,
          reply,    \* reply[q]: the status sent, or "none"
          dirs,     \* run ids whose workspace directory exists
          files,    \* files[id]: the requests with files in that directory
          crashes

disk == <<dirs, files>>
vars == <<active, queue, pc, reply, disk, crashes>>

Init == /\ active = 0
        /\ queue = <<>>
        /\ pc = [q \in Requests |-> "new"]
        /\ reply = [q \in Requests |-> "none"]
        /\ dirs = {}
        /\ files = [id \in RunIds |-> {}]
        /\ crashes = 0

Goto(q, step) == pc' = [pc EXCEPT ![q] = step]
Send(q, status) == reply' = [reply EXCEPT ![q] = status]

-----------------------------------------------------------------------------
\* 401, 503 while the canary failed, or 400 for a bad run id, tool or limits:
\* before the gate is reached.
Refuse(q) == /\ pc[q] = "new"
             /\ Goto(q, "done")
             /\ Send(q, "refused")
             /\ UNCHANGED <<active, queue, disk, crashes>>

\* Mutant: off by one, one jail more than the cap.
SlotFree_OneMore == active <= MaxConcurrent

SlotFree == active < MaxConcurrent

QueueHasRoom == Len(queue) < MaxQueueDepth

\* acquire() with a slot free.
AcquireFree(q) == /\ pc[q] = "new"
                  /\ SlotFree
                  /\ active' = active + 1
                  /\ Goto(q, "granted")
                  /\ UNCHANGED <<queue, reply, disk, crashes>>

\* acquire() that has to wait.
Enqueue(q) == /\ pc[q] = "new"
              /\ ~SlotFree
              /\ QueueHasRoom
              /\ queue' = Append(queue, q)
              /\ Goto(q, "queued")
              /\ UNCHANGED <<active, reply, disk, crashes>>

\* SandboxAtCapacityError: 503.
AtCapacity(q) == /\ pc[q] = "new"
                 /\ ~SlotFree
                 /\ ~QueueHasRoom
                 /\ Goto(q, "done")
                 /\ Send(q, "503")
                 /\ UNCHANGED <<active, queue, disk, crashes>>

\* Mutant: a slot freed and the queue left for later.
ReleaseSlot_NoHandOff(q) == /\ active' = active - 1
                            /\ Goto(q, "done")
                            /\ UNCHANGED queue

\* release(): the slot goes to the first waiter, or becomes free.  The handler
\* of q ends with it.
ReleaseSlot(q) ==
  IF queue # <<>>
  THEN /\ queue' = Tail(queue)
       /\ pc' = [pc EXCEPT ![q] = "done", ![Head(queue)] = "granted"]
       /\ UNCHANGED active
  ELSE /\ active' = active - 1
       /\ Goto(q, "done")
       /\ UNCHANGED queue

-----------------------------------------------------------------------------
\* mkdir (not recursive) of a new directory.
CreateWorkspace(q) == /\ pc[q] = "granted"
                      /\ RunIdOf[q] \notin dirs
                      /\ dirs' = dirs \cup {RunIdOf[q]}
                      /\ files' = [files EXCEPT ![RunIdOf[q]] = {}]
                      /\ Goto(q, "input")
                      /\ UNCHANGED <<active, queue, reply, crashes>>

\* Mutant: the cleanup runs for the 409 as well.
RunIdInUse_Cleanup(q) == /\ pc[q] = "granted"
                         /\ RunIdOf[q] \in dirs
                         /\ Send(q, "409")
                         /\ Goto(q, "cleanup")
                         /\ UNCHANGED <<active, queue, disk, crashes>>

\* EEXIST: 409, and the directory is left to its owner.
RunIdInUse(q) == /\ pc[q] = "granted"
                 /\ RunIdOf[q] \in dirs
                 /\ Send(q, "409")
                 /\ ReleaseSlot(q)
                 /\ UNCHANGED <<disk, crashes>>

\* mkdir fails for another reason: the handler throws, Fastify answers 500.
MkdirFails(q) == /\ pc[q] = "granted"
                 /\ Send(q, "500")
                 /\ ReleaseSlot(q)
                 /\ UNCHANGED <<disk, crashes>>

WriteInput(q) == /\ pc[q] = "input"
                 /\ files' = [files EXCEPT ![RunIdOf[q]] = @ \cup {q}]
                 /\ Goto(q, "jail")
                 /\ UNCHANGED <<active, queue, reply, dirs, crashes>>

\* ERR_SANDBOX_INPUT_WRITE: 500, with whatever was written by then.
WriteInputFails(q) ==
  /\ pc[q] = "input"
  /\ files' \in {files, [files EXCEPT ![RunIdOf[q]] = @ \cup {q}]}
  /\ Send(q, "500")
  /\ Goto(q, "cleanup")
  /\ UNCHANGED <<active, queue, dirs, crashes>>

\* runJail settled: the outcome is sent before the finally blocks run.
JailEnds(q) == /\ pc[q] = "jail"
               /\ Send(q, "200")
               /\ Goto(q, "cleanup")
               /\ UNCHANGED <<active, queue, disk, crashes>>

\* runJail throws (the seccomp filter cannot be opened): the finally blocks
\* run first, then Fastify answers.
JailThrows(q) == /\ pc[q] = "jail"
                 /\ Goto(q, "cleanup")
                 /\ UNCHANGED <<active, queue, reply, disk, crashes>>

Cleanup(q) == /\ pc[q] = "cleanup"
              /\ dirs' = dirs \ {RunIdOf[q]}
              /\ files' = [files EXCEPT ![RunIdOf[q]] = {}]
              /\ Goto(q, "release")
              /\ UNCHANGED <<active, queue, reply, crashes>>

\* cleanupWorkspace never throws: what it cannot delete stays.
CleanupFails(q) == /\ pc[q] = "cleanup"
                   /\ Goto(q, "release")
                   /\ UNCHANGED <<active, queue, reply, disk, crashes>>

Release(q) == /\ pc[q] = "release"
              /\ Send(q, IF reply[q] = "none" THEN "500" ELSE reply[q])
              /\ ReleaseSlot(q)
              /\ UNCHANGED <<disk, crashes>>

\* The supervisor dies and is started again.
Crash == /\ crashes < MaxCrashes
         /\ crashes' = crashes + 1
         /\ active' = 0
         /\ queue' = <<>>
         /\ pc' = [q \in Requests |-> IF pc[q] \in {"new", "done"} THEN pc[q] ELSE "lost"]
         /\ UNCHANGED <<reply, disk>>

Proceed(q) == \/ CreateWorkspace(q) \/ RunIdInUse(q) \/ WriteInput(q) \/ JailEnds(q)
              \/ Cleanup(q) \/ Release(q)

Next == \/ \E q \in Requests :
              \/ Refuse(q) \/ AcquireFree(q) \/ Enqueue(q) \/ AtCapacity(q)
              \/ Proceed(q) \/ MkdirFails(q) \/ WriteInputFails(q)
              \/ JailThrows(q) \/ CleanupFails(q)
        \/ Crash

\* File operations end, and every jail does: the wall-clock timer kills it
\* (JailExecutor).
Fairness == \A q \in Requests : WF_vars(Proceed(q))

Spec == Init /\ [][Next]_vars /\ Fairness

-----------------------------------------------------------------------------
HasSlot == {"granted", "input", "jail", "cleanup", "release"}
OwnsDir == {"input", "jail", "cleanup"}

Holding == {q \in Requests : pc[q] \in HasSlot}

\* Every variable keeps its type.
TypeOK ==
  /\ active \in Nat
  /\ queue \in Seq(Requests)
  /\ pc \in [Requests -> {"new", "queued", "done", "lost"} \cup HasSlot]
  /\ reply \in [Requests -> {"none", "refused", "503", "409", "500", "200"}]
  /\ dirs \subseteq RunIds
  /\ files \in [RunIds -> SUBSET Requests]
  /\ crashes \in 0..MaxCrashes

\* No slot is leaked or counted twice on any path through the handler: the
\* counter is the number of requests that have a slot, it stays within the
\* cap, and nobody waits while a slot is free.
SlotsCounted ==
  /\ active = Cardinality(Holding)
  /\ active <= MaxConcurrent
  /\ queue # <<>> => active = MaxConcurrent

\* A request is in the queue exactly once while it waits, and not otherwise.
QueueExact ==
  /\ Len(queue) <= MaxQueueDepth
  /\ \A q \in Requests :
        (pc[q] = "queued") <=> (\E i \in 1..Len(queue) : queue[i] = q)
  /\ \A i, j \in 1..Len(queue) : queue[i] = queue[j] => i = j

\* "A duplicate concurrent runId must never let request B delete request A's
\* still-active jail workspace": the workspace of a running jail exists, has
\* one owner, and holds nothing of another run, not even of one that ended in
\* a crash or a failed cleanup.
JailIsolated ==
  \A q \in Requests : pc[q] \in OwnsDir =>
    /\ RunIdOf[q] \in dirs
    /\ files[RunIdOf[q]] \subseteq {q}
    /\ \A p \in Requests : pc[p] \in OwnsDir /\ RunIdOf[p] = RunIdOf[q] => p = q

\* FIFO: a new request never gets a slot while an older one waits.
NoBarging ==
  [][\A q \in Requests : (pc[q] = "new" /\ pc'[q] = "granted") => queue = <<>>]_vars

\* A request that waits is answered, unless the supervisor crashes.
WaiterServed == \A q \in Requests : pc[q] = "queued" ~> pc[q] \in {"done", "lost"}
=============================================================================
