--------------------------- MODULE SandboxProofs ----------------------------
(***************************************************************************)
(* The supervisor's gate and its workspaces, for any number of requests,   *)
(* run ids, slots, queue places and crashes.                               *)
(***************************************************************************)
EXTENDS SandboxServer, FiniteSetTheorems, TLAPS

Steps == {"new", "queued", "done", "lost"} \cup HasSlot

\* The variables the gate and the workspaces are made of.
Shape == /\ queue \in Seq(Requests)
         /\ pc \in [Requests -> Steps]
         /\ dirs \subseteq RunIds
         /\ files \in [RunIds -> SUBSET Requests]

IsolationInv == Shape /\ JailIsolated

\* A finite holding set keeps the counter meaningful.
GateInv == /\ Shape /\ QueueExact
           /\ active \in Nat
           /\ IsFiniteSet(Holding)
           /\ SlotsCounted

-----------------------------------------------------------------------------
\* The first waiter is a request, and what is left is still a queue.
LEMMA QueueFacts ==
  ASSUME queue \in Seq(Requests), queue # <<>>
  PROVE  /\ Head(queue) \in Requests /\ Head(queue) = queue[1]
         /\ Tail(queue) \in Seq(Requests)
         /\ Len(queue) \in Nat \ {0} /\ Len(Tail(queue)) = Len(queue) - 1
         /\ \A i \in 1..Len(Tail(queue)) : Tail(queue)[i] = queue[i + 1]
OBVIOUS

LEMMA AppendFacts ==
  ASSUME queue \in Seq(Requests), NEW q \in Requests
  PROVE  /\ Append(queue, q) \in Seq(Requests)
         /\ Len(queue) \in Nat /\ Len(Append(queue, q)) = Len(queue) + 1
         /\ \A i \in 1..Len(queue) : Append(queue, q)[i] = queue[i]
         /\ Append(queue, q)[Len(queue) + 1] = q
OBVIOUS

\* Where release() leaves the requests.
LEMMA ReleasePc ==
  ASSUME Shape, NEW q \in Requests, ReleaseSlot(q)
  PROVE  /\ queue' \in Seq(Requests)
         /\ pc' \in [Requests -> Steps]
         /\ \A p \in Requests : pc'[p] = pc[p] \/ pc'[p] \in {"done", "granted"}
         /\ pc[q] # "queued" => pc'[q] \in {"done", "granted"}
<1>1. CASE queue # <<>>
  BY <1>1, QueueFacts DEF ReleaseSlot, Shape, Steps, HasSlot
<1>2. CASE queue = <<>>
  BY <1>2 DEF ReleaseSlot, Goto, Shape, Steps, HasSlot
<1> QED
  BY <1>1, <1>2

\* Every step keeps the shape of the variables.
LEMMA ShapeStep ==
  ASSUME Shape, [Next]_vars
  PROVE  Shape'
<1> USE SandboxAssumption DEF Goto, Send, Steps, HasSlot, disk
<1>1. ASSUME NEW q \in Requests, Refuse(q) \/ AcquireFree(q) \/ AtCapacity(q) \/ JailEnds(q)
                                  \/ JailThrows(q) \/ CleanupFails(q)
      PROVE  Shape'
  BY <1>1 DEF Shape, Refuse, AcquireFree, AtCapacity, JailEnds, JailThrows, CleanupFails
<1>2. ASSUME NEW q \in Requests, Enqueue(q) PROVE Shape'
  BY <1>2, AppendFacts DEF Shape, Enqueue
<1>3. ASSUME NEW q \in Requests, CreateWorkspace(q) \/ WriteInput(q) \/ WriteInputFails(q)
                                  \/ Cleanup(q)
      PROVE  Shape'
  <2>1. queue' = queue /\ pc' \in [Requests -> Steps]
    BY <1>3 DEF Shape, CreateWorkspace, WriteInput, WriteInputFails, Cleanup
  <2>2. RunIdOf[q] \in RunIds /\ dirs' \subseteq RunIds
    BY <1>3 DEF Shape, CreateWorkspace, WriteInput, WriteInputFails, Cleanup
  <2>3. files' = files \/ \E S \in SUBSET Requests : files' = [files EXCEPT ![RunIdOf[q]] = S]
    BY <1>3, <2>2 DEF Shape, CreateWorkspace, WriteInput, WriteInputFails, Cleanup
  <2>4. files' \in [RunIds -> SUBSET Requests]
    BY <2>3 DEF Shape
  <2> QED
    BY <2>1, <2>2, <2>4 DEF Shape
<1>4. ASSUME NEW q \in Requests, RunIdInUse(q) \/ MkdirFails(q) \/ Release(q)
      PROVE  Shape'
  <2>1. ReleaseSlot(q) /\ UNCHANGED disk
    BY <1>4 DEF RunIdInUse, MkdirFails, Release
  <2> QED
    BY <2>1, ReleasePc DEF Shape
<1>5. CASE Crash
  BY <1>5 DEF Crash, Shape
<1>6. CASE UNCHANGED vars
  BY <1>6 DEF vars, Shape
<1> QED
  BY <1>1, <1>2, <1>3, <1>4, <1>5, <1>6 DEF Next, Proceed

-----------------------------------------------------------------------------
\* What mkdir without recursive buys: between the mkdir of a request and its
\* rm nobody else creates, removes or writes into that directory.
THEOREM WorkspaceIsolation == Spec => []JailIsolated
<1>1. Init => IsolationInv
  BY DEF Init, IsolationInv, Shape, JailIsolated, OwnsDir, Steps, HasSlot
<1>2. IsolationInv /\ [Next]_vars => IsolationInv'
  <2> SUFFICES ASSUME IsolationInv, [Next]_vars PROVE JailIsolated'
    BY ShapeStep DEF IsolationInv
  <2> USE SandboxAssumption DEF IsolationInv
  <2>1. ASSUME UNCHANGED disk,
               \A p \in Requests : pc'[p] \in OwnsDir => pc[p] \in OwnsDir
        PROVE  JailIsolated'
    BY <2>1 DEF JailIsolated, disk
  <2>2. ASSUME NEW q \in Requests, Refuse(q) \/ AcquireFree(q) \/ Enqueue(q) \/ AtCapacity(q)
                                    \/ JailEnds(q) \/ JailThrows(q) \/ CleanupFails(q)
        PROVE  JailIsolated'
    <3>1. UNCHANGED disk /\ \A p \in Requests : pc'[p] \in OwnsDir => pc[p] \in OwnsDir
      BY <2>2 DEF Refuse, AcquireFree, Enqueue, AtCapacity, JailEnds, JailThrows,
                  CleanupFails, Goto, Shape, OwnsDir
    <3> QED
      BY <3>1, <2>1
  <2>3. ASSUME NEW q \in Requests, RunIdInUse(q) \/ MkdirFails(q) \/ Release(q)
        PROVE  JailIsolated'
    <3>1. ReleaseSlot(q) /\ UNCHANGED disk
      BY <2>3 DEF RunIdInUse, MkdirFails, Release
    <3>2. \A p \in Requests : pc'[p] = pc[p] \/ pc'[p] \in {"done", "granted"}
      BY <3>1, ReleasePc
    <3> QED
      BY <2>1, <3>1, <3>2 DEF OwnsDir
  <2>4. ASSUME NEW q \in Requests, CreateWorkspace(q) PROVE JailIsolated'
    <3>1. \A p \in Requests : pc[p] \in OwnsDir => RunIdOf[p] # RunIdOf[q]
      BY <2>4 DEF CreateWorkspace, JailIsolated
    <3>2. \A p \in Requests : pc'[p] \in OwnsDir => p = q \/ pc[p] \in OwnsDir
      BY <2>4 DEF CreateWorkspace, Goto, Shape, OwnsDir
    <3>3. /\ files'[RunIdOf[q]] = {} /\ dirs' = dirs \cup {RunIdOf[q]}
          /\ \A id \in RunIds : id # RunIdOf[q] => files'[id] = files[id]
      BY <2>4 DEF CreateWorkspace, Shape
    <3> QED
      BY <3>1, <3>2, <3>3 DEF JailIsolated
  <2>5. ASSUME NEW q \in Requests, WriteInput(q) \/ WriteInputFails(q) PROVE JailIsolated'
    <3>1. pc[q] \in OwnsDir /\ \A p \in Requests : pc'[p] \in OwnsDir => pc[p] \in OwnsDir
      BY <2>5 DEF WriteInput, WriteInputFails, Goto, Shape, OwnsDir
    <3>2. /\ files'[RunIdOf[q]] \in {files[RunIdOf[q]], files[RunIdOf[q]] \cup {q}}
          /\ dirs' = dirs
          /\ \A id \in RunIds : id # RunIdOf[q] => files'[id] = files[id]
      BY <2>5 DEF WriteInput, WriteInputFails, Shape
    <3>3. \A p \in Requests : pc'[p] \in OwnsDir /\ p # q => RunIdOf[p] # RunIdOf[q]
      BY <3>1 DEF JailIsolated
    <3> QED
      BY <3>1, <3>2, <3>3 DEF JailIsolated
  <2>6. ASSUME NEW q \in Requests, Cleanup(q) PROVE JailIsolated'
    <3>1. /\ pc[q] \in OwnsDir
          /\ \A p \in Requests : pc'[p] \in OwnsDir => pc[p] \in OwnsDir /\ p # q
          /\ dirs' = dirs \ {RunIdOf[q]}
          /\ \A id \in RunIds : id # RunIdOf[q] => files'[id] = files[id]
      BY <2>6 DEF Cleanup, Goto, Shape, OwnsDir
    <3>2. \A p \in Requests : pc'[p] \in OwnsDir => RunIdOf[p] # RunIdOf[q]
      BY <3>1 DEF JailIsolated
    <3> QED
      BY <3>1, <3>2 DEF JailIsolated
  <2>7. CASE Crash
    BY <2>7, <2>1 DEF Crash, OwnsDir
  <2>8. CASE UNCHANGED vars
    BY <2>8, <2>1 DEF vars
  <2> QED
    BY <2>2, <2>3, <2>4, <2>5, <2>6, <2>7, <2>8 DEF Next, Proceed
<1>3. IsolationInv => JailIsolated
  BY DEF IsolationInv
<1> QED
  BY <1>1, <1>2, <1>3, PTL DEF Spec

-----------------------------------------------------------------------------
(* The gate: slots and queue.                                              *)

\* The number of holders changes with the holders.
LEMMA OneMore ==
  ASSUME IsFiniteSet(Holding), NEW q \in Requests, q \notin Holding,
         Holding' = Holding \cup {q}
  PROVE  IsFiniteSet(Holding') /\ Cardinality(Holding') = Cardinality(Holding) + 1
BY FS_AddElement

LEMMA OneLess ==
  ASSUME IsFiniteSet(Holding), NEW q \in Holding, Holding' = Holding \ {q}
  PROVE  IsFiniteSet(Holding') /\ Cardinality(Holding') = Cardinality(Holding) - 1
BY FS_RemoveElement

LEMMA Swapped ==
  ASSUME IsFiniteSet(Holding), NEW q \in Holding, NEW h \in Requests, h \notin Holding,
         Holding' = (Holding \ {q}) \cup {h}
  PROVE  IsFiniteSet(Holding') /\ Cardinality(Holding') = Cardinality(Holding)
<1> DEFINE rest == Holding \ {q}
<1>1. IsFiniteSet(rest) /\ Cardinality(rest) = Cardinality(Holding) - 1
  BY FS_RemoveElement
<1>2. Cardinality(Holding) \in Nat
  BY FS_CardinalityType
<1>3. h \notin rest /\ Holding' = rest \cup {h}
  OBVIOUS
<1> HIDE DEF rest
<1>4. IsFiniteSet(rest \cup {h}) /\ Cardinality(rest \cup {h}) = Cardinality(rest) + 1
  BY <1>1, <1>3, FS_AddElement
<1> QED
  BY <1>1, <1>2, <1>3, <1>4

\* release() by a holder: the slot moves to the first waiter, or is free.
LEMMA ReleaseGate ==
  ASSUME GateInv, Shape', NEW q \in Requests, pc[q] \in HasSlot, ReleaseSlot(q)
  PROVE  GateInv'
<1> USE SandboxAssumption
<1>0. Shape /\ QueueExact /\ active \in Nat /\ IsFiniteSet(Holding) /\ SlotsCounted
  BY DEF GateInv
<1>1. q \in Holding /\ pc[q] # "queued"
  BY DEF Holding, HasSlot
<1>2. CASE queue # <<>>
  <2> DEFINE h == Head(queue)
  <2>1. /\ h \in Requests /\ h = queue[1] /\ Len(queue) \in Nat \ {0}
        /\ Len(Tail(queue)) = Len(queue) - 1
        /\ \A i \in 1..Len(Tail(queue)) : Tail(queue)[i] = queue[i + 1]
    BY <1>0, <1>2, QueueFacts DEF Shape
  <2>2. pc[h] = "queued" /\ h # q
    BY <1>0, <1>1, <2>1 DEF QueueExact
  <2>3. /\ queue' = Tail(queue) /\ active' = active
        /\ pc' = [pc EXCEPT ![q] = "done", ![h] = "granted"]
    BY <1>2 DEF ReleaseSlot
  <2> HIDE DEF h
  <2>4. \A p \in Requests : pc'[p] = IF p = h THEN "granted" ELSE IF p = q THEN "done" ELSE pc[p]
    BY <1>0, <2>1, <2>2, <2>3 DEF Shape
  <2>5. h \notin Holding /\ Holding' = (Holding \ {q}) \cup {h}
    BY <2>1, <2>2, <2>4 DEF Holding, HasSlot
  <2>6. IsFiniteSet(Holding') /\ Cardinality(Holding') = Cardinality(Holding)
    BY <1>0, <1>1, <2>1, <2>5, Swapped
  <2>7. SlotsCounted'
    BY <1>0, <1>2, <2>3, <2>6 DEF SlotsCounted
  <2>8. QueueExact'
    <3>1. \A i, j \in 1..Len(queue') : queue'[i] = queue'[j] => i = j
      BY <1>0, <2>1, <2>3 DEF QueueExact
    <3>2. \A i \in 1..Len(queue') : queue'[i] # h
      BY <1>0, <2>1, <2>3 DEF QueueExact
    <3>3. ASSUME NEW p \in Requests, pc'[p] = "queued"
          PROVE  \E i \in 1..Len(queue') : queue'[i] = p
      <4>1. pc[p] = "queued" /\ p # h
        BY <2>4, <3>3
      <4>2. PICK i \in 1..Len(queue) : queue[i] = p
        BY <1>0, <4>1 DEF QueueExact
      <4>3. i # 1 /\ i - 1 \in 1..Len(queue')
        BY <2>1, <2>3, <4>1, <4>2
      <4>4. queue'[i - 1] = queue[(i - 1) + 1] /\ (i - 1) + 1 = i
        BY <2>1, <2>3, <4>3
      <4> QED
        BY <4>2, <4>3, <4>4
    <3>4. ASSUME NEW p \in Requests, NEW i \in 1..Len(queue'), queue'[i] = p
          PROVE  pc'[p] = "queued"
      <4>1. queue[i + 1] = p /\ i + 1 \in 1..Len(queue)
        BY <2>1, <2>3, <3>4
      <4>2. pc[p] = "queued" /\ p # h
        BY <1>0, <3>2, <3>4, <4>1 DEF QueueExact
      <4> QED
        BY <1>1, <2>4, <4>2
    <3>5. Len(queue') <= MaxQueueDepth
      BY <1>0, <2>1, <2>3 DEF QueueExact
    <3> QED
      BY <3>1, <3>3, <3>4, <3>5 DEF QueueExact
  <2> QED
    BY <1>0, <2>3, <2>6, <2>7, <2>8 DEF GateInv
<1>3. CASE queue = <<>>
  <2>1. queue' = queue /\ active' = active - 1 /\ pc' = [pc EXCEPT ![q] = "done"]
    BY <1>3 DEF ReleaseSlot, Goto
  <2>2. Holding' = Holding \ {q}
    BY <1>0, <2>1 DEF Holding, HasSlot, Shape
  <2>3. IsFiniteSet(Holding') /\ Cardinality(Holding') = Cardinality(Holding) - 1
    BY <1>0, <1>1, <2>2, OneLess
  <2>4. Cardinality(Holding') \in Nat
    BY <2>3, FS_CardinalityType
  <2>5. SlotsCounted' /\ active' \in Nat
    BY <1>0, <1>3, <2>1, <2>3, <2>4 DEF SlotsCounted
  <2>6. QueueExact'
    BY <1>0, <1>1, <2>1 DEF QueueExact, Shape
  <2> QED
    BY <2>3, <2>5, <2>6 DEF GateInv
<1> QED
  BY <1>2, <1>3

\* A step that moves no request into or out of the gate.
LEMMA GateFrame ==
  ASSUME GateInv, Shape', UNCHANGED <<active, queue>>,
         \A p \in Requests : /\ pc'[p] \in HasSlot <=> pc[p] \in HasSlot
                             /\ pc'[p] = "queued" <=> pc[p] = "queued"
  PROVE  GateInv'
<1>1. Holding' = Holding
  BY DEF Holding
<1>2. SlotsCounted' /\ IsFiniteSet(Holding') /\ active' \in Nat
  BY <1>1 DEF GateInv, SlotsCounted
<1>3. QueueExact'
  BY DEF GateInv, QueueExact
<1> QED
  BY <1>2, <1>3 DEF GateInv

LEMMA GateStep == GateInv /\ [Next]_vars => GateInv'
<1> SUFFICES ASSUME GateInv, [Next]_vars PROVE GateInv'
  OBVIOUS
<1> USE SandboxAssumption
<1>0. Shape /\ QueueExact /\ active \in Nat /\ IsFiniteSet(Holding) /\ SlotsCounted /\ Shape'
  BY ShapeStep DEF GateInv
<1>1. ASSUME NEW q \in Requests, Refuse(q) \/ AtCapacity(q) \/ CreateWorkspace(q) \/ WriteInput(q)
                \/ WriteInputFails(q) \/ JailEnds(q) \/ JailThrows(q) \/ Cleanup(q)
                \/ CleanupFails(q)
      PROVE  GateInv'
  <2>1. /\ UNCHANGED <<active, queue>>
        /\ \A p \in Requests : /\ pc'[p] \in HasSlot <=> pc[p] \in HasSlot
                               /\ pc'[p] = "queued" <=> pc[p] = "queued"
    BY <1>0, <1>1 DEF Refuse, AtCapacity, CreateWorkspace, WriteInput, WriteInputFails,
         JailEnds, JailThrows, Cleanup, CleanupFails, Goto, Shape, HasSlot
  <2> QED
    BY <1>0, <2>1, GateFrame
<1>2. ASSUME NEW q \in Requests, AcquireFree(q) PROVE GateInv'
  <2>1. /\ active' = active + 1 /\ queue' = queue /\ pc' = [pc EXCEPT ![q] = "granted"]
        /\ pc[q] = "new" /\ active < MaxConcurrent
    BY <1>2 DEF AcquireFree, Goto, SlotFree
  <2>2. q \notin Holding /\ Holding' = Holding \cup {q}
    BY <1>0, <2>1 DEF Holding, HasSlot, Shape
  <2>3. IsFiniteSet(Holding') /\ Cardinality(Holding') = Cardinality(Holding) + 1
    BY <1>0, <2>2, OneMore
  <2>4. SlotsCounted' /\ active' \in Nat
    BY <1>0, <2>1, <2>3 DEF SlotsCounted
  <2>5. QueueExact'
    BY <1>0, <2>1 DEF QueueExact, Shape
  <2> QED
    BY <1>0, <2>3, <2>4, <2>5 DEF GateInv
<1>3. ASSUME NEW q \in Requests, Enqueue(q) PROVE GateInv'
  <2>1. /\ queue' = Append(queue, q) /\ active' = active /\ pc' = [pc EXCEPT ![q] = "queued"]
        /\ pc[q] = "new" /\ ~(active < MaxConcurrent) /\ Len(queue) < MaxQueueDepth
    BY <1>3 DEF Enqueue, Goto, SlotFree, QueueHasRoom
  <2>2. Holding' = Holding
    BY <1>0, <2>1 DEF Holding, HasSlot, Shape
  <2>3. SlotsCounted' /\ active' \in Nat
    BY <1>0, <2>1, <2>2 DEF SlotsCounted
  <2>4. /\ Len(queue) \in Nat /\ Len(queue') = Len(queue) + 1
        /\ \A i \in 1..Len(queue) : queue'[i] = queue[i] /\ queue[i] # q
        /\ queue'[Len(queue) + 1] = q
    BY <1>0, <2>1, AppendFacts DEF Shape, QueueExact
  <2>5. \A i, j \in 1..Len(queue') : queue'[i] = queue'[j] => i = j
    BY <1>0, <2>4 DEF QueueExact
  <2>6. \A p \in Requests : (pc'[p] = "queued") <=> (\E i \in 1..Len(queue') : queue'[i] = p)
    <3>1. \A p \in Requests : pc'[p] = "queued" <=> (p = q \/ pc[p] = "queued")
      BY <1>0, <2>1 DEF Shape
    <3>2. \A p : (\E i \in 1..Len(queue') : queue'[i] = p)
                   <=> (p = q \/ \E i \in 1..Len(queue) : queue[i] = p)
      BY <2>4
    <3> QED
      BY <1>0, <3>1, <3>2 DEF QueueExact
  <2>7. QueueExact'
    BY <2>1, <2>4, <2>5, <2>6 DEF QueueExact
  <2> QED
    BY <1>0, <2>2, <2>3, <2>7 DEF GateInv
<1>4. ASSUME NEW q \in Requests, RunIdInUse(q) \/ MkdirFails(q) \/ Release(q) PROVE GateInv'
  <2>1. pc[q] \in HasSlot /\ ReleaseSlot(q)
    BY <1>4 DEF RunIdInUse, MkdirFails, Release, HasSlot
  <2> QED
    BY <1>0, <2>1, ReleaseGate
<1>5. CASE Crash
  <2>1. /\ active' = 0 /\ queue' = <<>>
        /\ \A p \in Requests : pc'[p] \in {"new", "done", "lost"}
    BY <1>5 DEF Crash
  <2>2. Holding' = {}
    BY <2>1 DEF Holding, HasSlot
  <2>3. IsFiniteSet({}) /\ Cardinality({}) = 0
    BY FS_EmptySet
  <2>4. SlotsCounted' /\ active' \in Nat /\ IsFiniteSet(Holding')
    BY <2>1, <2>2, <2>3 DEF SlotsCounted
  <2>5. QueueExact'
    BY <2>1 DEF QueueExact
  <2> QED
    BY <1>0, <2>4, <2>5 DEF GateInv
<1>6. CASE UNCHANGED vars
  BY <1>0, <1>6, GateFrame DEF vars
<1> QED
  BY <1>1, <1>2, <1>3, <1>4, <1>5, <1>6 DEF Next, Proceed

LEMMA GateInvariant == Spec => []GateInv
<1>1. Init => GateInv
  <2> SUFFICES ASSUME Init PROVE GateInv
    OBVIOUS
  <2>1. Shape /\ QueueExact /\ active \in Nat
    BY SandboxAssumption DEF Init, Shape, QueueExact, Steps
  <2>2. Holding = {}
    BY DEF Init, Holding, HasSlot
  <2>3. IsFiniteSet({}) /\ Cardinality({}) = 0
    BY FS_EmptySet
  <2>4. SlotsCounted
    BY <2>2, <2>3, SandboxAssumption DEF Init, SlotsCounted
  <2> QED
    BY <2>1, <2>2, <2>3, <2>4 DEF GateInv
<1> QED
  BY <1>1, GateStep, PTL DEF Spec

\* No path through the handler leaks a slot, runs more jails than the cap, or
\* lets a waiter sit beside a free slot.
THEOREM NoSlotLeak == Spec => []SlotsCounted
<1>1. GateInv => SlotsCounted
  BY DEF GateInv
<1> QED
  BY <1>1, GateInvariant, PTL

\* The queue is bounded, and holds exactly the requests that wait, once each.
THEOREM QueueIsExact == Spec => []QueueExact
<1>1. GateInv => QueueExact
  BY DEF GateInv
<1> QED
  BY <1>1, GateInvariant, PTL

\* A free slot is only ever given to a newcomer when nobody waits.
THEOREM FirstComeFirstServed == Spec => NoBarging
<1> DEFINE A == \A q \in Requests : (pc[q] = "new" /\ pc'[q] = "granted") => queue = <<>>
<1>1. GateInv /\ [Next]_vars => [A]_vars
  <2> SUFFICES ASSUME GateInv, [Next]_vars, NEW q \in Requests, pc[q] = "new", pc'[q] = "granted"
               PROVE  queue = <<>>
    OBVIOUS
  <2>0. Shape /\ QueueExact /\ SlotsCounted /\ active \in Nat
    BY DEF GateInv
  <2>1. ASSUME NEW p \in Requests, ReleaseSlot(p), queue # <<>> PROVE FALSE
    <3>1. Head(queue) \in Requests /\ Head(queue) = queue[1] /\ Len(queue) \in Nat \ {0}
      BY <2>0, <2>1, QueueFacts DEF Shape
    <3>2. pc[Head(queue)] = "queued"
      BY <2>0, <3>1 DEF QueueExact
    <3>3. pc'[q] \in {pc[q], "done"} \/ q = Head(queue)
      BY <2>0, <2>1, <3>1 DEF ReleaseSlot, Shape
    <3> QED
      BY <3>2, <3>3
  <2>2. ASSUME NEW p \in Requests, RunIdInUse(p) \/ MkdirFails(p) \/ Release(p)
        PROVE  queue = <<>>
    BY <2>1, <2>2 DEF RunIdInUse, MkdirFails, Release
  <2>3. ASSUME NEW p \in Requests, AcquireFree(p) PROVE queue = <<>>
    BY <2>0, <2>3, SandboxAssumption DEF AcquireFree, SlotFree, SlotsCounted
  <2>4. ASSUME NEW p \in Requests, Refuse(p) \/ AtCapacity(p) \/ Enqueue(p) \/ CreateWorkspace(p)
                 \/ WriteInput(p) \/ WriteInputFails(p) \/ JailEnds(p) \/ JailThrows(p)
                 \/ Cleanup(p) \/ CleanupFails(p)
        PROVE  FALSE
    BY <2>0, <2>4 DEF Refuse, AtCapacity, Enqueue, CreateWorkspace, WriteInput, WriteInputFails,
         JailEnds, JailThrows, Cleanup, CleanupFails, Goto, Shape
  <2>5. CASE Crash \/ UNCHANGED vars
    BY <2>0, <2>5 DEF Crash, vars, Shape
  <2> QED
    BY <2>2, <2>3, <2>4, <2>5 DEF Next, Proceed
<1> QED
  BY <1>1, GateInvariant, PTL DEF Spec, NoBarging
=============================================================================
