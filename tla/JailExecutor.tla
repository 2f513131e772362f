---------------------------- MODULE JailExecutor ----------------------------
(***************************************************************************)
(* runJail (sandbox/src/jail-executor.ts): one jail process, its two       *)
(* pipes, the wall-clock timer and the event handlers of the supervisor.   *)
(*                                                                         *)
(* Node delivers "exit" when the process has ended, "data" when bytes have *)
(* come through a pipe; the two are not ordered.  Bytes are counted, not   *)
(* represented.                                                            *)
(***************************************************************************)
EXTENDS Naturals

CONSTANTS MaxOutputBytes,  \* limits.maxOutputBytes
          MaxWritten       \* bound: bytes a tool writes to stdout

ASSUME JailAssumption == MaxOutputBytes \in Nat \ {0} /\ MaxWritten \in Nat

VARIABLES child,      \* "running", "unspawned", or how the process ended
          written,    \* bytes the tool has written to stdout
          delivered,  \* bytes passed to the stdout handler
          stdoutLen,  \* stdoutBytes.length
          diagnosis,  \* what the tool says on stderr
          heard,      \* what the stderr handler has received of it
          outputCapped,
          timer,      \* "armed" | "fired" | "cleared"
          timedOut,
          settled,
          outcome     \* what the promise was resolved with

pipes == <<written, delivered, stdoutLen, diagnosis, heard, outputCapped>>
vars == <<child, pipes, timer, timedOut, settled, outcome>>

\* How bwrap ends: an exit code, or a signal that reaches bwrap itself.  A
\* signal n that kills the tool shows as the exit code 128 + n.
Codes == {"0", "1", "128+SIGSYS", "128+SIGXCPU", "128+SIGXFSZ"}
Signals == {"SIGSYS", "SIGKILL"}
Diagnoses == {"", "MemoryError", "EROFS"}

Init == /\ child \in {"running", "unspawned"}
        /\ written = 0 /\ delivered = 0 /\ stdoutLen = 0
        /\ diagnosis \in Diagnoses /\ heard = ""
        /\ outputCapped = FALSE
        /\ timer = "armed" /\ timedOut = FALSE
        /\ settled = FALSE /\ outcome = "none"

-----------------------------------------------------------------------------
(* The process and the kernel.                                             *)

Write(n) == /\ child = "running"
            /\ written + n <= MaxWritten
            /\ written' = written + n
            /\ UNCHANGED <<child, delivered, stdoutLen, diagnosis, heard, outputCapped,
                           timer, timedOut, settled, outcome>>

\* The process ends, by itself or by a signal that is not the supervisor's.
End(how) == /\ child = "running"
            /\ child' = how
            /\ UNCHANGED <<pipes, timer, timedOut, settled, outcome>>

-----------------------------------------------------------------------------
(* The handlers of the supervisor.                                         *)

\* setTimeout: SIGKILL, which does nothing to a process that has ended.
TimerFires == /\ timer = "armed"
              /\ timer' = "fired"
              /\ timedOut' = TRUE
              /\ child' = IF child = "running" THEN "SIGKILL" ELSE child
              /\ UNCHANGED <<pipes, settled, outcome>>

\* stdoutBytes.length after concat and subarray.
Kept(n) == IF stdoutLen + n <= MaxOutputBytes THEN stdoutLen + n ELSE MaxOutputBytes

\* Mutant: only a chunk that finds the buffer full counts as over the cap.
Capped_NextChunk(n) == stdoutLen >= MaxOutputBytes

\* A chunk that finds the buffer full, or fills it.
Capped(n) == stdoutLen >= MaxOutputBytes \/ Kept(n) >= MaxOutputBytes

\* stdout "data": a chunk of n bytes, kept up to the cap.
OnStdout(n) ==
  /\ child # "unspawned"
  /\ n <= written - delivered
  /\ delivered' = delivered + n
  /\ stdoutLen' = IF stdoutLen >= MaxOutputBytes THEN stdoutLen ELSE Kept(n)
  /\ outputCapped' = (outputCapped \/ Capped(n))
  /\ UNCHANGED <<child, written, diagnosis, heard, timer, timedOut, settled, outcome>>

\* stderr "data".
OnStderr == /\ child # "unspawned"
            /\ heard # diagnosis
            /\ heard' = diagnosis
            /\ UNCHANGED <<child, written, delivered, stdoutLen, diagnosis, outputCapped,
                           timer, timedOut, settled, outcome>>

\* Mutant: the soft limits are looked at first.
Classify_SoftLimitsFirst(how) ==
  IF timedOut THEN "limit:wall_clock"
  ELSE IF outputCapped THEN "limit:output_size"
  ELSE IF how \in {"SIGSYS", "128+SIGSYS"} THEN "violation:network_egress"
  ELSE IF how = "0" THEN "ok"
  ELSE "tool_error"

\* The classification in the exit handler, in its order.
Classify(how) ==
  IF how \in {"SIGSYS", "128+SIGSYS"} THEN "violation:network_egress"
  ELSE IF how = "128+SIGXCPU" THEN "limit:wall_clock"
  ELSE IF how = "128+SIGXFSZ" THEN "limit:output_size"
  ELSE IF timedOut THEN "limit:wall_clock"
  ELSE IF outputCapped THEN "limit:output_size"
  ELSE IF how = "SIGKILL" THEN "tool_error"
  ELSE IF how = "0" THEN "ok"
  ELSE IF heard = "MemoryError" THEN "limit:memory"
  ELSE IF heard = "EROFS" THEN "violation:fs_escape"
  ELSE "tool_error"

OnExit == /\ child \in Codes \cup Signals
          /\ ~settled
          /\ settled' = TRUE
          /\ timer' = IF timer = "armed" THEN "cleared" ELSE timer
          /\ outcome' = Classify(child)
          /\ UNCHANGED <<child, pipes, timedOut>>

\* Mutant: no "error" handler.
OnError_Missing == FALSE /\ UNCHANGED vars

\* "error": the process could not be spawned, and "exit" will never come.
OnError == /\ child = "unspawned"
           /\ ~settled
           /\ settled' = TRUE
           /\ timer' = IF timer = "armed" THEN "cleared" ELSE timer
           /\ outcome' = "tool_error"
           /\ UNCHANGED <<child, pipes, timedOut>>

Next == \/ \E n \in 1..MaxWritten : Write(n) \/ OnStdout(n)
        \/ \E how \in Codes \cup Signals : End(how)
        \/ TimerFires \/ OnStderr \/ OnExit \/ OnError

\* The event loop runs the timer and delivers the child's events; nothing
\* makes the tool end by itself.
Fairness == WF_vars(TimerFires) /\ WF_vars(OnExit) /\ WF_vars(OnError)

Spec == Init /\ [][Next]_vars /\ Fairness

-----------------------------------------------------------------------------
\* Every variable keeps its type.
TypeOK == /\ child \in {"running", "unspawned"} \cup Codes \cup Signals
          /\ written \in 0..MaxWritten /\ delivered \in 0..written
          /\ stdoutLen \in 0..MaxOutputBytes
          /\ diagnosis \in Diagnoses /\ heard \in {"", diagnosis}
          /\ outputCapped \in BOOLEAN /\ timedOut \in BOOLEAN /\ settled \in BOOLEAN
          /\ timer \in {"armed", "fired", "cleared"}

\* "a kernel kill for a disallowed syscall must never be masked as just a
\* benign output or time cap", whatever the timer and the pipes do meanwhile,
\* and the other way round nothing else is called a network violation.
ViolationNeverMasked ==
  settled => (outcome = "violation:network_egress" <=> child \in {"SIGSYS", "128+SIGSYS"})

\* The captured output is never cut without the cap being noticed: what was
\* delivered is what is kept, or the run is marked as capped.
CutIsNoticed == stdoutLen = delivered \/ outputCapped

\* The promise settles, so the slot of the semaphore comes back, also for a
\* tool that never ends and for a jail that cannot be spawned.
JailSettles == <>settled

\* The test "returns ok:true with parsed stdout on a clean exit 0": a success
\* carries everything the tool wrote.
OkHasWholeOutput == [][(outcome # "ok" /\ outcome' = "ok") => stdoutLen = written]_vars
=============================================================================
