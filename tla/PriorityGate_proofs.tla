---- MODULE PriorityGate_proofs ----
(***************************************************************************)
(* The serial gate keeps its promises for every set of tasks, finite or    *)
(* not, and every set of class numbers: proofs of the invariants that      *)
(* PriorityGate.cfg checks on four tasks, and of the refinement of         *)
(* AdmissionQueue.  The second half is about BrokerRequest, whose requests *)
(* pass this gate: that they use it as it has to be used, and what follows.*)
(***************************************************************************)
EXTENDS BrokerRequest, TLAPS

\* Arrival numbers are handed out once: a queued token is older than the
\* next one.  Needed for the heap to hold distinct tokens.
QueuedBeforeCounter == \A r \in Queued : token[r].seq < counter

\* The inductive invariant.  HeapIsTheQueue alone is not inductive (a fresh
\* token has to be new), nor is OneGeneration (a gate marked free while a
\* task runs would admit a second one), nor HeadIsAwake (it speaks of the
\* tasks through the tokens in the heap).
IInv == /\ TypeOK
        /\ OneGeneration
        /\ BusyMeansRunning
        /\ HeapIsTheQueue
        /\ QueuedBeforeCounter
        /\ HeadIsAwake

LEMMA InitIInv == Init => IInv
<1> SUFFICES ASSUME Init PROVE IInv
  OBVIOUS
<1>1. TypeOK
  BY DEF Init, TypeOK, Places, Token
<1>2. Queued = {} /\ Running = {} /\ heap = {} /\ ~busy
  BY DEF Init, Queued, Running
<1>3. QED
  BY <1>1, <1>2 DEF IInv, OneGeneration, BusyMeansRunning, HeapIsTheQueue,
                    QueuedBeforeCounter, HeadIsAwake

\* Types are preserved by each step.
LEMMA TypeStep ==
  ASSUME TypeOK, [Next]_vars
  PROVE  TypeOK'
<1> USE PrioritiesAreNat DEF TypeOK, Places, Token, Queued, Notified
<1>1. ASSUME NEW r \in Requests, NEW p \in Priorities, AcquireAtOnce(r, p)
      PROVE  TypeOK'
  BY <1>1 DEF AcquireAtOnce, Push
<1>2. ASSUME NEW r \in Requests, NEW p \in Priorities, AcquireWaits(r, p)
      PROVE  TypeOK'
  BY <1>2 DEF AcquireWaits, Push
<1>3. ASSUME NEW r \in Requests, WakeAndRun(r) PROVE TypeOK'
  BY <1>3 DEF WakeAndRun
<1>4. ASSUME NEW r \in Requests, WakeAndWait(r) PROVE TypeOK'
  BY <1>4 DEF WakeAndWait
<1>5. ASSUME NEW r \in Requests, Cancel(r) PROVE TypeOK'
  BY <1>5 DEF Cancel
<1>6. ASSUME NEW r \in Requests, Release(r) PROVE TypeOK'
  BY <1>6 DEF Release
<1>7. CASE UNCHANGED vars
  BY <1>7 DEF vars
<1>8. QED
  BY <1>1, <1>2, <1>3, <1>4, <1>5, <1>6, <1>7 DEF Next

\* The flag speaks for the one running task.
LEMMA FlagStep ==
  ASSUME IInv, [Next]_vars
  PROVE  OneGeneration' /\ BusyMeansRunning'
<1> USE DEF IInv, TypeOK, Places, OneGeneration, BusyMeansRunning, Running
<1>1. ASSUME NEW r \in Requests, NEW p \in Priorities, AcquireAtOnce(r, p)
      PROVE  OneGeneration' /\ BusyMeansRunning'
  BY <1>1 DEF AcquireAtOnce, Push
<1>2. ASSUME NEW r \in Requests, NEW p \in Priorities, AcquireWaits(r, p)
      PROVE  OneGeneration' /\ BusyMeansRunning'
  BY <1>2 DEF AcquireWaits, Push
<1>3. ASSUME NEW r \in Requests, WakeAndRun(r)
      PROVE  OneGeneration' /\ BusyMeansRunning'
  BY <1>3 DEF WakeAndRun
<1>4. ASSUME NEW r \in Requests, WakeAndWait(r)
      PROVE  OneGeneration' /\ BusyMeansRunning'
  BY <1>4 DEF WakeAndWait
<1>5. ASSUME NEW r \in Requests, Cancel(r)
      PROVE  OneGeneration' /\ BusyMeansRunning'
  BY <1>5 DEF Cancel, Notified, Queued
<1>6. ASSUME NEW r \in Requests, Release(r)
      PROVE  OneGeneration' /\ BusyMeansRunning'
  BY <1>6 DEF Release, Notified
<1>7. CASE UNCHANGED vars
  BY <1>7 DEF vars
<1>8. QED
  BY <1>1, <1>2, <1>3, <1>4, <1>5, <1>6, <1>7 DEF Next

\* The heap keeps exactly the tokens of the queued tasks, all distinct.
LEMMA HeapStep ==
  ASSUME IInv, [Next]_vars
  PROVE  HeapIsTheQueue' /\ QueuedBeforeCounter'
<1> USE DEF IInv, TypeOK, Places, Token, HeapIsTheQueue, QueuedBeforeCounter,
            Queued
<1>1. ASSUME NEW r \in Requests, NEW p \in Priorities, AcquireAtOnce(r, p)
      PROVE  HeapIsTheQueue' /\ QueuedBeforeCounter'
  BY <1>1 DEF AcquireAtOnce, Push
<1>2. ASSUME NEW r \in Requests, NEW p \in Priorities, AcquireWaits(r, p)
      PROVE  HeapIsTheQueue' /\ QueuedBeforeCounter'
  <2>1. Queued' = Queued \cup {r}
    BY <1>2 DEF AcquireWaits, Push
  <2>2. /\ token'[r].seq = counter
        /\ \A q \in Queued : q # r /\ token'[q] = token[q]
        /\ counter' = counter + 1
    BY <1>2, PrioritiesAreNat DEF AcquireWaits, Push
  <2>3. heap' = heap \cup {token'[r]}
    BY <1>2 DEF AcquireWaits
  <2>4. heap' = {token'[q] : q \in Queued'}
    BY <2>1, <2>2, <2>3
  <2>5. \A q \in Queued' : token'[q].seq < counter'
    BY <2>1, <2>2
  <2>6. \A q, s \in Queued' : token'[q].seq = token'[s].seq => q = s
    BY <2>1, <2>2
  <2>7. QED
    BY <2>4, <2>5, <2>6
<1>3. ASSUME NEW r \in Requests, r \in Queued, heap' = heap \ {token[r]},
             Queued' = Queued \ {r}, token' = token, counter' = counter
      PROVE  HeapIsTheQueue' /\ QueuedBeforeCounter'
  <2>1. \A q \in Queued \ {r} : token[q] # token[r]
    BY <1>3
  <2>2. heap' = {token'[q] : q \in Queued'}
    BY <1>3, <2>1
  <2>3. QED
    BY <1>3, <2>2
<1>4. ASSUME NEW r \in Requests, WakeAndRun(r)
      PROVE  HeapIsTheQueue' /\ QueuedBeforeCounter'
  <2>1. r \in Queued /\ Queued' = Queued \ {r}
    BY <1>4 DEF WakeAndRun
  <2>2. QED
    BY <1>3, <1>4, <2>1 DEF WakeAndRun
<1>5. ASSUME NEW r \in Requests, WakeAndWait(r)
      PROVE  HeapIsTheQueue' /\ QueuedBeforeCounter'
  <2>1. Queued' = Queued
    BY <1>5 DEF WakeAndWait
  <2>2. QED
    BY <1>5, <2>1 DEF WakeAndWait
<1>6. ASSUME NEW r \in Requests, Cancel(r)
      PROVE  HeapIsTheQueue' /\ QueuedBeforeCounter'
  <2>1. r \in Queued /\ Queued' = Queued \ {r}
    BY <1>6 DEF Cancel, Notified
  <2>2. QED
    BY <1>3, <1>6, <2>1 DEF Cancel
<1>7. ASSUME NEW r \in Requests, Release(r)
      PROVE  HeapIsTheQueue' /\ QueuedBeforeCounter'
  <2>1. Queued' = Queued
    BY <1>7 DEF Release, Notified
  <2>2. UNCHANGED <<token, heap, counter>>
    BY <1>7 DEF Release
  <2>3. QED
    BY <2>1, <2>2
<1>8. CASE UNCHANGED vars
  BY <1>8 DEF vars
<1>9. QED
  BY <1>1, <1>2, <1>4, <1>5, <1>6, <1>7, <1>8 DEF Next

\* When the gate is free, the head of the queue is awake.
LEMMA HeadStep ==
  ASSUME IInv, [Next]_vars
  PROVE  HeadIsAwake'
<1> USE DEF HeadIsAwake
<1>1. ASSUME NEW r \in Requests, NEW p \in Priorities, AcquireAtOnce(r, p)
      PROVE  HeadIsAwake'
  BY <1>1 DEF AcquireAtOnce
<1>2. ASSUME NEW r \in Requests, NEW p \in Priorities, AcquireWaits(r, p)
      PROVE  HeadIsAwake'
  <2> SUFFICES ASSUME ~busy', NEW q \in Queued', IsHead(token'[q], heap')
               PROVE  pc'[q] = "awake"
    OBVIOUS
  <2>1. q # r /\ ~busy
    BY <1>2 DEF AcquireWaits
  <2>2. q \in Queued /\ token'[q] = token[q] /\ pc'[q] = pc[q]
    BY <1>2, <2>1 DEF AcquireWaits, Push, Queued, IInv, TypeOK
  <2>3. token[q] \in heap
    BY <2>2 DEF IInv, HeapIsTheQueue
  <2>4. IsHead(token[q], heap)
    BY <1>2, <2>2, <2>3 DEF AcquireWaits, IsHead
  <2>5. QED
    BY <2>1, <2>2, <2>4 DEF IInv
<1>3. ASSUME NEW r \in Requests, WakeAndRun(r) PROVE HeadIsAwake'
  BY <1>3 DEF WakeAndRun
<1>4. ASSUME NEW r \in Requests, WakeAndWait(r) PROVE HeadIsAwake'
  <2> SUFFICES ASSUME ~busy', NEW q \in Queued', IsHead(token'[q], heap')
               PROVE  pc'[q] = "awake"
    OBVIOUS
  <2>1. ~busy /\ IsHead(token[q], heap)
    BY <1>4 DEF WakeAndWait
  <2>2. q # r
    BY <1>4, <2>1 DEF WakeAndWait
  <2>3. q \in Queued /\ pc'[q] = pc[q]
    BY <1>4, <2>2 DEF WakeAndWait, Queued, IInv, TypeOK
  <2>4. QED
    BY <2>1, <2>3 DEF IInv
<1>5. ASSUME NEW r \in Requests, Cancel(r) PROVE HeadIsAwake'
  BY <1>5 DEF Cancel, Notified, Queued
<1>6. ASSUME NEW r \in Requests, Release(r) PROVE HeadIsAwake'
  BY <1>6 DEF Release, Notified, Queued
<1>7. CASE UNCHANGED vars
  BY <1>7 DEF vars, IInv, Queued, IsHead
<1>8. QED
  BY <1>1, <1>2, <1>3, <1>4, <1>5, <1>6, <1>7 DEF Next

\* Every reachable state of the gate satisfies the inductive invariant.
THEOREM Invariance == Spec => []IInv
<1>1. IInv /\ [Next]_vars => IInv'
  BY TypeStep, FlagStep, HeapStep, HeadStep DEF IInv
<1>2. QED
  BY InitIInv, <1>1, PTL DEF Spec

\* The types of the gate's state (gates.py, PriorityGate.__init__).
THEOREM TypeCorrect == Spec => []TypeOK
  BY Invariance, PTL DEF IInv

\* One generation at a time, whatever tasks come, wait and are cancelled.
THEOREM Serial == Spec => []OneGeneration
  BY Invariance, PTL DEF IInv

\* No ghost token: the heap is the queue.
THEOREM NoGhostToken == Spec => []HeapIsTheQueue
  BY Invariance, PTL DEF IInv

\* No lost wakeup: a free gate's next task has been notified.
THEOREM NoLostWakeup == Spec => []HeadIsAwake
  BY Invariance, PTL DEF IInv
-----------------------------------------------------------------------------
\* Each step of the gate is a step of the admission queue, or none.
LEMMA RefinementStep ==
  ASSUME IInv, [Next]_vars
  PROVE  [Admission!ANext]_Admission!avars
<1> USE DEF Queued, Running
<1>1. ASSUME NEW r \in Requests, NEW p \in Priorities, Push(r, p)
      PROVE  Admission!TakeTicket(r)
  <2>1. r \notin Queued \cup Running
    BY <1>1 DEF Push
  <2>2. /\ token'[r] = [prio |-> p, seq |-> counter]
        /\ token' = [token EXCEPT ![r] = token'[r]]
        /\ token'[r] \in Token
    BY <1>1, PrioritiesAreNat DEF Push, IInv, TypeOK, Token
  <2>3. \A w \in Queued : token[w].seq < token'[r].seq
    BY <2>2 DEF IInv, QueuedBeforeCounter
  <2>4. QED
    BY <2>1, <2>2, <2>3 DEF Admission!TakeTicket, Admission!Ticket, Token
<1>2. ASSUME NEW r \in Requests, NEW p \in Priorities, AcquireAtOnce(r, p)
      PROVE  Admission!ArriveAndStart(r)
  <2>1. Admission!TakeTicket(r)
    BY <1>1, <1>2 DEF AcquireAtOnce
  <2>2. Running = {} /\ Running' = {r} /\ Queued' = Queued
    BY <1>2 DEF AcquireAtOnce, Push, IInv, TypeOK, BusyMeansRunning
  <2>3. Admission!FirstAmong(token'[r], Queued)
    BY <1>2 DEF AcquireAtOnce, IsHead, Before, Admission!FirstAmong,
                Admission!Before, IInv, HeapIsTheQueue
  <2>4. QED
    BY <2>1, <2>2, <2>3 DEF Admission!ArriveAndStart
<1>3. ASSUME NEW r \in Requests, NEW p \in Priorities, AcquireWaits(r, p)
      PROVE  Admission!Arrive(r)
  <2>1. Admission!TakeTicket(r)
    BY <1>1, <1>3 DEF AcquireWaits
  <2>2. Running' = Running /\ Queued' = Queued \cup {r}
    BY <1>3 DEF AcquireWaits, Push, IInv, TypeOK
  <2>3. QED
    BY <2>1, <2>2 DEF Admission!Arrive
<1>4. ASSUME NEW r \in Requests, WakeAndRun(r)
      PROVE  Admission!Start(r)
  <2>1. r \in Queued /\ Queued' = Queued \ {r}
    BY <1>4 DEF WakeAndRun, IInv, TypeOK
  <2>2. Running = {} /\ Running' = {r}
    BY <1>4 DEF WakeAndRun, IInv, TypeOK, BusyMeansRunning
  <2>3. Admission!FirstAmong(token[r], Queued)
    BY <1>4 DEF WakeAndRun, IsHead, Before, Admission!FirstAmong,
                Admission!Before, IInv, HeapIsTheQueue
  <2>4. token' = token
    BY <1>4 DEF WakeAndRun
  <2>5. QED
    BY <2>1, <2>2, <2>3, <2>4 DEF Admission!Start
<1>5. ASSUME NEW r \in Requests, WakeAndWait(r)
      PROVE  UNCHANGED Admission!avars
  BY <1>5 DEF WakeAndWait, Admission!avars, IInv, TypeOK
<1>6. ASSUME NEW r \in Requests, Cancel(r)
      PROVE  Admission!Leave(r)
  <2>1. r \in Queued /\ Queued' = Queued \ {r}
    BY <1>6 DEF Cancel, Notified, IInv, TypeOK
  <2>2. Running' = Running
    BY <1>6 DEF Cancel, Notified, IInv, TypeOK
  <2>3. token' = token
    BY <1>6 DEF Cancel
  <2>4. QED
    BY <2>1, <2>2, <2>3 DEF Admission!Leave
<1>7. ASSUME NEW r \in Requests, Release(r)
      PROVE  Admission!Finish(r)
  <2>1. Queued' = Queued
    BY <1>7 DEF Release, Notified, IInv, TypeOK
  <2>2. r \in Running /\ Running' = Running \ {r}
    BY <1>7 DEF Release, Notified, IInv, TypeOK
  <2>3. token' = token
    BY <1>7 DEF Release
  <2>4. QED
    BY <2>1, <2>2, <2>3 DEF Admission!Finish
<1>8. CASE UNCHANGED vars
  BY <1>8 DEF vars, Admission!avars
<1>9. QED
  BY <1>2, <1>3, <1>4, <1>5, <1>6, <1>7, <1>8 DEF Next, Admission!ANext

\* The gate's heap, flag and notifications implement the admission queue:
\* turns go by class, then by arrival, one at a time.
THEOREM Refinement == Spec => ImplementsAdmission
<1>1. Init => Admission!AInit
  <2> SUFFICES ASSUME Init PROVE Admission!AInit
    OBVIOUS
  <2>1. Queued = {} /\ Running = {}
    BY DEF Init, Queued, Running
  <2>2. token \in [Requests -> Token]
    BY InitIInv DEF IInv, TypeOK
  <2>3. QED
    BY <2>1, <2>2 DEF Admission!AInit, Admission!Ticket, Token
<1>2. IInv /\ [Next]_vars => [Admission!ANext]_Admission!avars
  BY RefinementStep
<1>3. QED
  BY Invariance, <1>1, <1>2, PTL
  DEF Spec, ImplementsAdmission, Admission!ASpec
-----------------------------------------------------------------------------
(***************************************************************************)
(* The requests of the broker, which share the gate.                       *)
(***************************************************************************)
\* Where a request is, its task in the gate, its worker thread, its generator
\* and its flag agree: until it is released, and while its release is under
\* way, a request that went through the gate holds it.
Linked(r) ==
    /\ step[r] = "new" => pc[r] = "idle"
    /\ pc[r] = "idle" => step[r] \in {"new", "answered"}
    /\ step[r] = "queued" <=> pc[r] \in {"asleep", "awake"}
    /\ step[r] \in {"new", "queued"} =>
         ~released[r] /\ thread[r] = "none" /\ gen[r] = "none"
    /\ step[r] \in {"capacity", "prepare", "post", "handed"} =>
         ~released[r] /\ gen[r] = "none"
    /\ step[r] \in {"post", "handed", "stream"} => thread[r] = "none"
    /\ gen[r] # "none" => step[r] \in {"stream", "answered"}
    /\ gen[r] = "open" => (released[r] <=> step[r] = "answered")
    /\ ~released[r] /\ step[r] \notin {"new", "queued", "answered"} => pc[r] = "running"
    /\ r \in releasing => pc[r] = "running"

RequestInv == BrokerTypeOK /\ \A r \in Requests : Linked(r)

\* Every release is that of the request that holds the gate: each step of the
\* broker is a step of the gate, or leaves it alone.
LEMMA RequestStepsGate ==
  ASSUME RequestInv, [BrokerNext]_brokervars
  PROVE  [Next]_vars
<1> DEFINE Kept == UNCHANGED vars
<1>1. ASSUME NEW r \in Requests, NEW p \in Priorities, Arrive(r, p)
      PROVE  Next
  BY <1>1 DEF Arrive, Next
<1>2. ASSUME NEW r \in Requests, Resume(r)
      PROVE  Next
  BY <1>2 DEF Resume, Next
<1>3. ASSUME NEW r \in Requests, CancelQueued(r)
      PROVE  Next
  BY <1>3 DEF CancelQueued, Next
<1>4. ASSUME NEW r \in Requests, ReleaseRuns(r)
      PROVE  Release(r)
  <2>1. pc[r] = "running"
    BY <1>4 DEF ReleaseRuns, RequestInv, Linked
  <2>2. QED
    BY <1>4, <2>1 DEF ReleaseRuns, Release, Notified
<1>5. ASSUME NEW r \in Requests, InsideStep(r)
      PROVE  Kept
  BY <1>5 DEF InsideStep, CapacityOk, PreparationFails,
              BackendReady, BackendNotLocal, PostEnds,
              AnswerAndRelease, vars
<1>6. ASSUME NEW r \in Requests,
             \/ Reject(r) \/ CancelInside(r) \/ OrphanThreadEnds(r)
             \/ StreamStarts(r) \/ GeneratorEnds(r) \/ ResponseEnds(r)
      PROVE  Kept
  BY <1>6 DEF Reject, CancelInside, OrphanThreadEnds,
              StreamStarts, GeneratorEnds, ResponseEnds,
              AnswerAndRelease, vars
<1>7. CASE UNCHANGED brokervars
  BY <1>7 DEF brokervars, vars
<1>8. QED
  BY <1>1, <1>2, <1>3, <1>4, <1>5, <1>6, <1>7 DEF BrokerNext, Next

\* A request whose own part of the state is left alone stays linked.
LEMMA OtherStaysLinked ==
  ASSUME RequestInv, NEW s \in Requests,
         pc'[s] = pc[s] \/ (pc[s] = "asleep" /\ pc'[s] = "awake"),
         step'[s] = step[s], thread'[s] = thread[s], gen'[s] = gen[s],
         released'[s] = released[s],
         s \in releasing' => s \in releasing
  PROVE  Linked(s)'
  BY DEF RequestInv, Linked

\* A step inside the gate, of a handler, a thread, a stream or a response.
LEMMA InsideKeeps ==
  ASSUME RequestInv, NEW r \in Requests,
         \/ InsideStep(r)
         \/ Reject(r) \/ CancelInside(r) \/ OrphanThreadEnds(r)
         \/ StreamStarts(r) \/ GeneratorEnds(r) \/ ResponseEnds(r)
  PROVE  RequestInv'
<1> USE DEF Goto
<1>1. /\ pc \in [Requests -> Places] /\ BrokerTypeOK
      /\ step \in [Requests -> Steps]
      /\ thread \in [Requests -> {"none", "capacity", "prepare"}]
      /\ gen \in [Requests -> {"none", "open", "closed"}]
      /\ released \in [Requests -> BOOLEAN]
      /\ releasing \subseteq {q \in Requests : released[q]}
  BY DEF RequestInv, BrokerTypeOK, TypeOK
<1>2. /\ UNCHANGED <<pc, token, heap, counter, busy>>
      /\ Linked(r)
      /\ step' \in [Requests -> Steps]
      /\ thread' \in [Requests -> {"none", "capacity", "prepare"}]
      /\ gen' \in [Requests -> {"none", "open", "closed"}]
      /\ released' \in [Requests -> BOOLEAN]
      /\ \A s \in Requests \ {r} :
           /\ step'[s] = step[s] /\ thread'[s] = thread[s] /\ gen'[s] = gen[s]
           /\ released'[s] = released[s]
           /\ s \in releasing' => s \in releasing
  <2>1. Linked(r)
    BY DEF RequestInv
  <2>2. CASE CapacityOk(r)
    BY <1>1, <2>1, <2>2 DEF CapacityOk, vars, Steps
  <2>3. CASE PreparationFails(r)
    BY <1>1, <2>1, <2>3 DEF PreparationFails, AnswerAndRelease,
          ReleaseOnce, vars, Steps
  <2>4. CASE BackendReady(r)
    BY <1>1, <2>1, <2>4 DEF BackendReady, vars, Steps
  <2>5. CASE BackendNotLocal(r)
    BY <1>1, <2>1, <2>5 DEF BackendNotLocal, AnswerAndRelease,
          ReleaseOnce, vars, Steps
  <2>6. CASE PostEnds(r)
    BY <1>1, <2>1, <2>6 DEF PostEnds, AnswerAndRelease,
          ReleaseOnce, vars, Steps
  <2>7. CASE Reject(r)
    BY <1>1, <2>1, <2>7 DEF Reject, vars, Steps
  <2>8. CASE CancelInside(r)
    BY <1>1, <2>1, <2>8 DEF CancelInside, AnswerAndRelease,
          ReleaseOnce, vars, Steps
  <2>9. CASE OrphanThreadEnds(r)
    BY <1>1, <2>1, <2>9 DEF OrphanThreadEnds, vars
  <2>10. CASE StreamStarts(r)
    BY <1>1, <2>1, <2>10 DEF StreamStarts, vars, Steps
  <2>11. CASE GeneratorEnds(r)
    BY <1>1, <2>1, <2>11 DEF GeneratorEnds, ReleaseOnce, vars
  <2>12. CASE ResponseEnds(r)
    BY <1>1, <2>1, <2>12 DEF ResponseEnds, ReleaseOnce,
          vars, Steps
  <2>13. QED
    BY <2>2, <2>3, <2>4, <2>5, <2>6, <2>7, <2>8, <2>9, <2>10, <2>11, <2>12
       DEF InsideStep
<1>3. /\ Linked(r)'
      /\ releasing' \subseteq {q \in Requests : released'[q]}
  <2> USE DEF Linked
  <2>2. CASE CapacityOk(r)
    BY <1>1, <1>2, <2>2 DEF CapacityOk
  <2>3. CASE PreparationFails(r)
    BY <1>1, <1>2, <2>3 DEF PreparationFails, AnswerAndRelease,
          ReleaseOnce
  <2>4. CASE BackendReady(r)
    BY <1>1, <1>2, <2>4 DEF BackendReady
  <2>5. CASE BackendNotLocal(r)
    BY <1>1, <1>2, <2>5 DEF BackendNotLocal, AnswerAndRelease,
          ReleaseOnce
  <2>6. CASE PostEnds(r)
    BY <1>1, <1>2, <2>6 DEF PostEnds, AnswerAndRelease, ReleaseOnce
  <2>7. CASE Reject(r)
    BY <1>1, <1>2, <2>7 DEF Reject
  <2>8. CASE CancelInside(r)
    BY <1>1, <1>2, <2>8 DEF CancelInside, AnswerAndRelease,
          ReleaseOnce
  <2>9. CASE OrphanThreadEnds(r)
    BY <1>1, <1>2, <2>9 DEF OrphanThreadEnds
  <2>10. CASE StreamStarts(r)
    BY <1>1, <1>2, <2>10 DEF StreamStarts
  <2>11. CASE GeneratorEnds(r)
    BY <1>1, <1>2, <2>11 DEF GeneratorEnds, ReleaseOnce
  <2>12. CASE ResponseEnds(r)
    BY <1>1, <1>2, <2>12 DEF ResponseEnds, ReleaseOnce
  <2>13. QED
    BY <2>2, <2>3, <2>4, <2>5, <2>6, <2>7, <2>8, <2>9, <2>10, <2>11, <2>12
       DEF InsideStep
<1>4. \A s \in Requests \ {r} : Linked(s)'
  BY <1>2, OtherStaysLinked
<1>5. BrokerTypeOK'
  BY <1>1, <1>2, <1>3 DEF BrokerTypeOK, TypeOK, Places, Token
<1>6. QED
  BY <1>3, <1>4, <1>5 DEF RequestInv

\* A step through the gate: an arrival, a turn, a withdrawal, a release.
LEMMA GateKeeps ==
  ASSUME RequestInv, NEW r \in Requests,
         \/ \E p \in Priorities : Arrive(r, p)
         \/ Resume(r) \/ CancelQueued(r) \/ ReleaseRuns(r),
         TypeOK'
  PROVE  RequestInv'
<1> USE DEF Goto
<1>1. /\ pc \in [Requests -> Places] /\ BrokerTypeOK
      /\ step \in [Requests -> Steps]
      /\ thread \in [Requests -> {"none", "capacity", "prepare"}]
      /\ gen \in [Requests -> {"none", "open", "closed"}]
      /\ released \in [Requests -> BOOLEAN]
      /\ releasing \subseteq {q \in Requests : released[q]}
      /\ Linked(r)
  BY DEF RequestInv, BrokerTypeOK, TypeOK
<1> DEFINE Others == \A s \in Requests \ {r} :
             /\ pc'[s] = pc[s] \/ (pc[s] = "asleep" /\ pc'[s] = "awake")
             /\ step'[s] = step[s] /\ thread'[s] = thread[s] /\ gen'[s] = gen[s]
             /\ released'[s] = released[s]
             /\ s \in releasing' => s \in releasing
           Types == /\ step' \in [Requests -> Steps]
                    /\ thread' \in [Requests -> {"none", "capacity", "prepare"}]
                    /\ gen' = gen /\ released' = released
                    /\ releasing' \subseteq releasing
           Good == Others /\ Types /\ Linked(r)'
<1>2. ASSUME NEW p \in Priorities, Arrive(r, p) PROVE Good
  <2>1. CASE AcquireAtOnce(r, p) /\ Enter(r)
    <3>1. step[r] = "new" /\ pc' = [pc EXCEPT ![r] = "running"]
      BY <1>2, <2>1 DEF Arrive, AcquireAtOnce
    <3>2. /\ step' = [step EXCEPT ![r] = "capacity"]
          /\ thread' = [thread EXCEPT ![r] = "capacity"]
          /\ UNCHANGED <<gen, released, releasing>>
      BY <2>1 DEF Enter
    <3>3. Others /\ Types
      BY <1>1, <3>1, <3>2 DEF Steps
    <3>4. QED
      BY <1>1, <3>1, <3>2, <3>3 DEF Linked, Places
  <2>2. CASE /\ AcquireWaits(r, p) /\ step' = [step EXCEPT ![r] = "queued"]
             /\ UNCHANGED <<thread, gen, released, releasing>>
    <3>1. step[r] = "new" /\ pc' = [pc EXCEPT ![r] = "asleep"]
      BY <1>2, <2>2 DEF Arrive, AcquireWaits
    <3>2. Others /\ Types
      BY <1>1, <2>2, <3>1 DEF Steps
    <3>3. QED
      BY <1>1, <2>2, <3>1, <3>2 DEF Linked, Places
  <2>3. \/ AcquireAtOnce(r, p) /\ Enter(r)
        \/ /\ AcquireWaits(r, p) /\ step' = [step EXCEPT ![r] = "queued"]
           /\ UNCHANGED <<thread, gen, released, releasing>>
    BY <1>2 DEF Arrive
  <2>4. QED
    BY <2>1, <2>2, <2>3
<1>3. ASSUME Resume(r) PROVE Good
  <2>1. CASE WakeAndRun(r) /\ Enter(r)
    <3>1. pc[r] = "awake" /\ pc' = [pc EXCEPT ![r] = "running"]
      BY <2>1 DEF WakeAndRun
    <3>2. /\ step' = [step EXCEPT ![r] = "capacity"]
          /\ thread' = [thread EXCEPT ![r] = "capacity"]
          /\ UNCHANGED <<gen, released, releasing>>
      BY <2>1 DEF Enter
    <3>3. Others /\ Types
      BY <1>1, <3>1, <3>2 DEF Steps
    <3>4. QED
      BY <1>1, <3>1, <3>2, <3>3 DEF Linked, Places
  <2>2. CASE WakeAndWait(r) /\ UNCHANGED <<step, thread, gen, released, releasing>>
    <3>1. pc[r] = "awake" /\ pc' = [pc EXCEPT ![r] = "asleep"]
      BY <2>2 DEF WakeAndWait
    <3>2. Others /\ Types
      BY <1>1, <2>2, <3>1 DEF Steps
    <3>3. QED
      BY <1>1, <2>2, <3>1, <3>2 DEF Linked, Places
  <2>3. QED
    BY <1>3, <2>1, <2>2 DEF Resume
<1>4. ASSUME CancelQueued(r) PROVE Good
  <2>1. Cancel(r)
    BY <1>4 DEF CancelQueued
  <2>2. r \in Queued /\ pc' = Notified([pc EXCEPT ![r] = "gone"])
    BY <2>1 DEF Cancel
  <2>3. /\ step' = [step EXCEPT ![r] = "answered"]
        /\ UNCHANGED <<thread, gen, released, releasing>>
    BY <1>4 DEF CancelQueued
  <2>4. Others /\ Types
    BY <1>1, <2>2, <2>3 DEF Steps, Notified, Places
  <2>5. QED
    BY <1>1, <2>2, <2>3, <2>4 DEF Linked, Places, Notified, Queued
<1>5. ASSUME ReleaseRuns(r) PROVE Good
  <2>1. /\ r \in releasing /\ releasing' = releasing \ {r}
        /\ pc' = Notified([pc EXCEPT ![r] = "gone"])
        /\ UNCHANGED <<step, thread, gen, released>>
    BY <1>5 DEF ReleaseRuns, Notified
  <2>2. Others /\ Types
    BY <1>1, <2>1 DEF Notified, Places
  <2>3. pc'[r] = "gone" /\ released[r]
    BY <1>1, <2>1 DEF Notified, Places
  <2>4. QED
    BY <1>1, <2>1, <2>2, <2>3 DEF Linked
<1>6. Good
  BY <1>2, <1>3, <1>4, <1>5
<1>7. \A s \in Requests \ {r} : Linked(s)'
  BY <1>6, OtherStaysLinked
<1>8. BrokerTypeOK'
  BY <1>1, <1>6 DEF BrokerTypeOK, TypeOK, Places, Token
<1>9. QED
  BY <1>6, <1>7, <1>8 DEF RequestInv

\* Every reachable state of the broker satisfies it.
THEOREM RequestInvariance == BrokerSpec => []RequestInv
<1>1. BrokerInit => RequestInv
  <2> SUFFICES ASSUME BrokerInit PROVE RequestInv
    OBVIOUS
  <2>1. Init
    BY DEF BrokerInit
  <2>2. TypeOK
    BY <2>1, InitIInv DEF IInv
  <2>3. BrokerTypeOK
    BY <2>2 DEF BrokerInit, BrokerTypeOK, Steps
  <2>4. \A r \in Requests : pc[r] = "idle"
    BY <2>1 DEF Init
  <2>5. QED
    BY <2>3, <2>4 DEF BrokerInit, RequestInv, Linked
<1>2. RequestInv /\ [BrokerNext]_brokervars => RequestInv'
  <2> SUFFICES ASSUME RequestInv, [BrokerNext]_brokervars PROVE RequestInv'
    OBVIOUS
  <2>1. TypeOK'
    <3>1. TypeOK
      BY DEF RequestInv, BrokerTypeOK
    <3>2. QED
      BY <3>1, RequestStepsGate, TypeStep
  <2>2. CASE UNCHANGED brokervars
    <3>1. BrokerTypeOK'
      BY <2>2 DEF brokervars, vars, RequestInv, BrokerTypeOK, TypeOK
    <3>2. \A r \in Requests : Linked(r)'
      BY <2>2, OtherStaysLinked DEF brokervars, vars
    <3>3. QED
      BY <3>1, <3>2 DEF RequestInv
  <2>3. CASE BrokerNext
    BY <2>1, <2>3, InsideKeeps, GateKeeps DEF BrokerNext
  <2>4. QED
    BY <2>2, <2>3
<1>3. QED
  BY <1>1, <1>2, PTL DEF BrokerSpec

\* The broker uses the gate as its callers have to: it waits for its turn, and
\* releases what it holds, once.
THEOREM RequestsUseGateRight == BrokerSpec => UsesGateRight
<1>1. BrokerInit => Init
  BY DEF BrokerInit
<1>2. RequestInv /\ [BrokerNext]_brokervars => [Next]_vars
  BY RequestStepsGate
<1>3. QED
  BY <1>1, <1>2, RequestInvariance, PTL
  DEF BrokerSpec, UsesGateRight, Spec

\* No two requests that still have their client are at work at a time.
THEOREM LiveRequestsOneAtATime == BrokerSpec => []LiveRequestsSerialised
<1>1. BrokerSpec => []OneGeneration
  BY RequestsUseGateRight, Serial, PTL DEF UsesGateRight
<1>2. RequestInv /\ OneGeneration => LiveRequestsSerialised
  <2> SUFFICES ASSUME RequestInv, OneGeneration,
                      NEW r \in Requests, NEW s \in Requests, r # s,
                      AtWork(r), AtWork(s),
                      step[r] # "answered", step[s] # "answered"
               PROVE  FALSE
    BY DEF LiveRequestsSerialised
  <2>1. \A q \in {r, s} : Linked(q) /\ step[q] \in Steps
    BY DEF RequestInv, BrokerTypeOK
  <2>2. \A q \in {r, s} : pc[q] = "running"
    BY <2>1 DEF Linked, AtWork, Steps
  <2>3. QED
    BY <2>2 DEF OneGeneration, Running
<1>3. QED
  BY <1>1, <1>2, RequestInvariance, PTL

\* The types of the broker's state.
THEOREM RequestsTypeCorrect == BrokerSpec => []BrokerTypeOK
<1>1. RequestInv => BrokerTypeOK
  BY DEF RequestInv
<1>2. QED
  BY <1>1, RequestInvariance, PTL
====
