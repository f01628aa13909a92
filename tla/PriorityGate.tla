---- MODULE PriorityGate ----
(***************************************************************************)
(* The serial gate of the broker (broker/gates.py, PriorityGate): an       *)
(* asyncio condition, a heap of (class, arrival) tokens and a busy flag.   *)
(*                                                                         *)
(* One event loop runs every task, so the code between two awaits is one   *)
(* step.  The only await inside the gate is the condition's wait: a task   *)
(* is asleep there until a notify_all, then awake until the loop resumes   *)
(* it, in any order.  The condition's own lock is held only inside a step  *)
(* and so is never contended: it is not modelled.                          *)
(***************************************************************************)
EXTENDS Integers

CONSTANTS Requests,     \* the tasks; each calls acquire once
          Priorities    \* the class numbers of CLASS_PRIORITY

ASSUME PrioritiesAreNat == Priorities \subseteq Nat

VARIABLES pc,           \* where each task is
          token,        \* token[r]: the (priority, seq) pair r pushed
          heap,         \* the tokens in the heap
          counter,      \* the next arrival number
          busy          \* the gate's flag: a generation is running

vars == <<pc, token, heap, counter, busy>>

Token == [prio : Nat, seq : Nat]
Places == {"idle", "asleep", "awake", "running", "gone"}
Queued == {r \in Requests : pc[r] \in {"asleep", "awake"}}

\* Python compares the pairs lexicographically.
Before(a, b) == \/ a.prio < b.prio
                \/ a.prio = b.prio /\ a.seq < b.seq

\* heap[0] = t: no token of h is smaller.
IsHead(t, h) == t \in h /\ \A u \in h : ~Before(u, t)

\* notify_all: every task asleep on the condition will be resumed.
Notified(places) == [r \in Requests |->
                       IF places[r] = "asleep" THEN "awake" ELSE places[r]]

Init == /\ pc = [r \in Requests |-> "idle"]
        /\ token = [r \in Requests |-> [prio |-> 0, seq |-> 0]]
        /\ heap = {}
        /\ counter = 0
        /\ busy = FALSE
-----------------------------------------------------------------------------
\* The entry of acquire: push a token of class p.
PushCountingDown(r, p) ==
    /\ pc[r] = "idle"
    /\ token' = [token EXCEPT ![r] = [prio |-> p, seq |-> counter]]
    /\ counter' = counter - 1

Push(r, p) == /\ pc[r] = "idle"
              /\ token' = [token EXCEPT ![r] = [prio |-> p, seq |-> counter]]
              /\ counter' = counter + 1

\* acquire finds the gate free and its own token at the head: no wait, the
\* token is pushed and popped within the step.
AcquireAtOnce(r, p) ==
    /\ Push(r, p)
    /\ ~busy
    /\ IsHead(token'[r], heap \cup {token'[r]})
    /\ busy' = TRUE
    /\ pc' = [pc EXCEPT ![r] = "running"]
    /\ UNCHANGED heap

\* acquire has to wait.
AcquireWaits(r, p) ==
    /\ Push(r, p)
    /\ heap' = heap \cup {token'[r]}
    /\ busy \/ ~IsHead(token'[r], heap')
    /\ pc' = [pc EXCEPT ![r] = "asleep"]
    /\ UNCHANGED busy

\* A notified task is resumed and it is its turn: pop and run.
WakeInArrivalOrder(r) ==
    /\ pc[r] = "awake"
    /\ ~busy
    /\ \A u \in heap : u.seq >= token[r].seq
    /\ heap' = heap \ {token[r]}
    /\ busy' = TRUE
    /\ pc' = [pc EXCEPT ![r] = "running"]
    /\ UNCHANGED <<token, counter>>

WakeAndRun(r) ==
    /\ pc[r] = "awake"
    /\ ~busy
    /\ IsHead(token[r], heap)
    /\ heap' = heap \ {token[r]}
    /\ busy' = TRUE
    /\ pc' = [pc EXCEPT ![r] = "running"]
    /\ UNCHANGED <<token, counter>>

\* A notified task is resumed and it is not its turn: wait again.
WakeAndWait(r) ==
    /\ pc[r] = "awake"
    /\ busy \/ ~IsHead(token[r], heap)
    /\ pc' = [pc EXCEPT ![r] = "asleep"]
    /\ UNCHANGED <<token, heap, counter, busy>>

\* The client is gone while its task is queued, asleep or already notified:
\* the token leaves the heap and the others are told.
CancelKeepsToken(r) ==
    /\ r \in Queued
    /\ pc' = Notified([pc EXCEPT ![r] = "gone"])
    /\ UNCHANGED <<heap, token, counter, busy>>

CancelSilently(r) ==
    /\ r \in Queued
    /\ heap' = heap \ {token[r]}
    /\ pc' = [pc EXCEPT ![r] = "gone"]
    /\ UNCHANGED <<token, counter, busy>>

Cancel(r) ==
    /\ r \in Queued
    /\ heap' = heap \ {token[r]}
    /\ pc' = Notified([pc EXCEPT ![r] = "gone"])
    /\ UNCHANGED <<token, counter, busy>>

\* The generation of r ends, in whatever way; its caller releases the gate.
ReleaseSilently(r) ==
    /\ pc[r] = "running"
    /\ busy' = FALSE
    /\ pc' = [pc EXCEPT ![r] = "gone"]
    /\ UNCHANGED <<token, heap, counter>>

Release(r) ==
    /\ pc[r] = "running"
    /\ busy' = FALSE
    /\ pc' = Notified([pc EXCEPT ![r] = "gone"])
    /\ UNCHANGED <<token, heap, counter>>
-----------------------------------------------------------------------------
Next == \E r \in Requests :
          \/ \E p \in Priorities : AcquireAtOnce(r, p) \/ AcquireWaits(r, p)
          \/ WakeAndRun(r)
          \/ WakeAndWait(r)
          \/ Cancel(r)
          \/ Release(r)

Spec == Init /\ [][Next]_vars

\* The event loop resumes every task that was notified, and a generation
\* ends: its stream is finished, fails or is closed.  Nobody has to cancel.
Fairness == \A r \in Requests : /\ WF_vars(WakeAndRun(r) \/ WakeAndWait(r))
                                /\ WF_vars(Release(r))

FairSpec == Spec /\ Fairness
-----------------------------------------------------------------------------
\* The type invariant.
TypeOK == /\ pc \in [Requests -> Places]
          /\ token \in [Requests -> Token]
          /\ heap \subseteq Token
          /\ counter \in Nat
          /\ busy \in BOOLEAN

Running == {r \in Requests : pc[r] = "running"}

\* One generation at a time, the floor the memory safety of the machine
\* stands on: two tasks past acquire are the same task.
OneGeneration == \A r, s \in Running : r = s

\* The flag that admits and the tasks it speaks for never disagree: a gate
\* left busy with nobody running would admit nobody ever again.
BusyMeansRunning == busy <=> Running # {}

\* The heap holds the token of each queued task and no other: a token whose
\* task is gone would reach the head and wedge the queue.
HeapIsTheQueue ==
    /\ heap = {token[r] : r \in Queued}
    /\ \A r, s \in Queued : token[r].seq = token[s].seq => r = s

\* No lost wakeup: when the gate is free, the task whose turn it is has been
\* notified and will run; it does not sleep through its own turn.
HeadIsAwake ==
    ~busy => \A r \in Queued : IsHead(token[r], heap) => pc[r] = "awake"

\* Every task that queues runs or goes away: neither cancellations nor
\* overtaking tasks leave it behind (a finite number of tasks competes).
EveryCallSettles ==
    \A r \in Requests : r \in Queued ~> pc[r] \in {"running", "gone"}

\* The gate implements the admission queue.
Admission == INSTANCE AdmissionQueue
               WITH waiting <- Queued, running <- Running, ticket <- token
ImplementsAdmission == Admission!ASpec
====
