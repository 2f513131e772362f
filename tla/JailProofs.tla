----------------------------- MODULE JailProofs -----------------------------
(***************************************************************************)
(* The safety of runJail for any output cap and any amount of output.      *)
(***************************************************************************)
EXTENDS JailExecutor, TLAPS

\* A promise that is settled belongs to a process that has ended or never was.
EndedWhenSettled == settled => child # "running"

JailInv == TypeOK /\ EndedWhenSettled /\ ViolationNeverMasked /\ CutIsNoticed

\* Nothing but a kill for a forbidden system call is classified as one.
LEMMA ClassifyKills ==
  ASSUME NEW how
  PROVE  Classify(how) = "violation:network_egress" <=> how \in {"SIGSYS", "128+SIGSYS"}
BY DEF Classify

\* The counters of TypeOK, apart from its flags.
Counters == /\ written \in 0..MaxWritten /\ delivered \in 0..written
            /\ stdoutLen \in 0..MaxOutputBytes

Flags == /\ child \in {"running", "unspawned"} \cup Codes \cup Signals
         /\ diagnosis \in Diagnoses /\ heard \in {"", diagnosis}
         /\ outputCapped \in BOOLEAN /\ timedOut \in BOOLEAN /\ settled \in BOOLEAN
         /\ timer \in {"armed", "fired", "cleared"}

LEMMA TypeParts == TypeOK <=> Counters /\ Flags
BY Zenon DEF TypeOK, Counters, Flags

LEMMA JailInitially == Init => JailInv
<1> SUFFICES ASSUME Init PROVE JailInv
  OBVIOUS
<1>1. Counters
  <2>1. written = 0 /\ delivered = 0 /\ stdoutLen = 0
    BY Zenon DEF Init
  <2> QED BY <2>1, JailAssumption DEF Counters
<1>2. Flags
  BY Zenon DEF Init, Flags
<1>3. EndedWhenSettled /\ ViolationNeverMasked /\ CutIsNoticed
  BY DEF Init, EndedWhenSettled, ViolationNeverMasked, CutIsNoticed
<1> QED BY <1>1, <1>2, <1>3, TypeParts DEF JailInv

LEMMA JailSteps == ASSUME JailInv, [Next]_vars PROVE JailInv'
<1> USE JailAssumption
<1> TypeOK /\ EndedWhenSettled /\ ViolationNeverMasked /\ CutIsNoticed
  BY DEF JailInv
<1>parts. Counters /\ Flags
  BY TypeParts
<1>write. ASSUME NEW n \in 1..MaxWritten, Write(n) PROVE JailInv'
  <2>1. Counters'
    BY <1>write, <1>parts DEF Write, Counters
  <2>2. Flags'
    BY <1>write, <1>parts DEF Write, Flags
  <2>3. TypeOK'
    BY <2>1, <2>2 DEF TypeOK, Counters, Flags
  <2>4. EndedWhenSettled' /\ ViolationNeverMasked' /\ CutIsNoticed'
    BY <1>write DEF Write, EndedWhenSettled, ViolationNeverMasked, CutIsNoticed
  <2> QED BY <2>3, <2>4 DEF JailInv
<1>stdout. ASSUME NEW n \in 1..MaxWritten, OnStdout(n) PROVE JailInv'
  <2> USE <1>stdout DEF OnStdout
  <2>1. Kept(n) \in 0..MaxOutputBytes /\ (Kept(n) < MaxOutputBytes => Kept(n) = stdoutLen + n)
    BY <1>parts DEF Kept, Counters
  <2>2. Counters'
    <3>1. delivered' \in 0..written'
      BY <1>parts DEF Counters
    <3>2. stdoutLen' \in 0..MaxOutputBytes
      BY <1>parts, <2>1 DEF Counters
    <3> QED BY <1>parts, <3>1, <3>2 DEF Counters
  <2>t. TypeOK'
    <3>1. outputCapped' \in BOOLEAN
      OBVIOUS
    <3>2. Flags'
      BY <1>parts, <3>1 DEF Flags
    <3> QED BY <2>2, <3>2 DEF TypeOK, Counters, Flags
  <2>3. CutIsNoticed'
    <3>1. CASE Capped(n)
      BY <3>1 DEF CutIsNoticed
    <3>2. CASE ~Capped(n)
      <4>1. ~(stdoutLen >= MaxOutputBytes) /\ Kept(n) < MaxOutputBytes
        BY <1>parts, <2>1, <3>2 DEF Capped, Counters
      <4>2. stdoutLen' = stdoutLen + n /\ delivered' = delivered + n
        BY <2>1, <4>1
      <4>3. outputCapped => outputCapped'
        OBVIOUS
      <4> QED BY <4>2, <4>3 DEF CutIsNoticed
    <3> QED BY <3>1, <3>2
  <2>4. EndedWhenSettled' /\ ViolationNeverMasked'
    BY DEF EndedWhenSettled, ViolationNeverMasked
  <2> QED BY <2>t, <2>3, <2>4 DEF JailInv
<1>end. ASSUME NEW how \in Codes \cup Signals, End(how) PROVE JailInv'
  <2>1. ~settled /\ how # "running"
    BY <1>end DEF End, EndedWhenSettled, Codes, Signals
  <2> QED BY <1>end, <2>1 DEF End, pipes, JailInv, TypeOK, EndedWhenSettled, ViolationNeverMasked,
       CutIsNoticed
<1>timer. ASSUME TimerFires PROVE JailInv'
  <2>1. settled => child' = child
    BY <1>timer DEF TimerFires, EndedWhenSettled
  <2>2. child' \in {"running", "unspawned"} \cup Codes \cup Signals
    BY <1>timer DEF TimerFires, TypeOK, Signals
  <2> QED BY <1>timer, <2>1, <2>2 DEF TimerFires, pipes, JailInv, TypeOK, EndedWhenSettled,
       ViolationNeverMasked, CutIsNoticed
<1>stderr. ASSUME OnStderr PROVE JailInv'
  BY <1>stderr DEF OnStderr, JailInv, TypeOK, EndedWhenSettled, ViolationNeverMasked, CutIsNoticed
<1>exit. ASSUME OnExit PROVE JailInv'
  <2>1. outcome' = "violation:network_egress" <=> child' \in {"SIGSYS", "128+SIGSYS"}
    BY <1>exit, ClassifyKills DEF OnExit
  <2>2. child' # "running"
    BY <1>exit DEF OnExit, Codes, Signals
  <2> QED BY <1>exit, <2>1, <2>2 DEF OnExit, pipes, JailInv, TypeOK, EndedWhenSettled,
       ViolationNeverMasked, CutIsNoticed
<1>error. ASSUME OnError PROVE JailInv'
  BY <1>error DEF OnError, pipes, JailInv, TypeOK, EndedWhenSettled, ViolationNeverMasked, CutIsNoticed
<1>stutter. CASE UNCHANGED vars
  BY <1>stutter DEF vars, pipes, JailInv, TypeOK, EndedWhenSettled, ViolationNeverMasked, CutIsNoticed
<1> QED BY <1>write, <1>stdout, <1>end, <1>timer, <1>stderr, <1>exit, <1>error, <1>stutter DEF Next

\* For any cap and any amount of output, the state of runJail stays well formed
\* and what its handlers have concluded stays true of the process.
THEOREM JailInvariant == Spec => []JailInv
BY JailInitially, JailSteps, PTL DEF Spec

\* A kill for a forbidden system call is reported as such and nothing else is,
\* in every order of the timer, the pipes and the exit.
THEOREM NeverMasked == Spec => []ViolationNeverMasked
<1>1. JailInv => ViolationNeverMasked
  BY DEF JailInv
<1> QED BY <1>1, JailInvariant, PTL

\* Output is never cut without the cap being noticed.
THEOREM AlwaysCutIsNoticed == Spec => []CutIsNoticed
<1>1. JailInv => CutIsNoticed
  BY DEF JailInv
<1> QED BY <1>1, JailInvariant, PTL

\* A result that is called ok holds every byte the "data" handler received: it
\* falls short of what the tool wrote only where "exit" came before the rest.
THEOREM OkHasAllReceived ==
  Spec => [][(outcome # "ok" /\ outcome' = "ok") => stdoutLen = delivered]_vars
<1> DEFINE Uncut == (outcome # "ok" /\ outcome' = "ok") => stdoutLen = delivered
<1>1. CutIsNoticed /\ [Next]_vars => Uncut
  <2> SUFFICES ASSUME CutIsNoticed, [Next]_vars, outcome # "ok", outcome' = "ok"
               PROVE  stdoutLen = delivered
    OBVIOUS
  <2>1. OnExit
    BY DEF Next, Write, OnStdout, End, TimerFires, OnStderr, OnError, vars
  <2>2. Classify(child) = "ok"
    BY <2>1 DEF OnExit
  <2>3. ~outputCapped
    BY <2>2 DEF Classify
  <2> QED
    BY <2>3 DEF CutIsNoticed
<1> QED
  BY <1>1, AlwaysCutIsNoticed, PTL DEF Spec
=============================================================================
