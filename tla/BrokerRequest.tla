---- MODULE BrokerRequest ----
(***************************************************************************)
(* The life of the requests a broker serves (broker/app.py,                *)
(* _proxy_generation), on top of the serial gate of PriorityGate, whose    *)
(* state and actions are part of theirs.                                   *)
(*                                                                         *)
(* A request's handler is a task of the event loop.  Inside the gate it    *)
(* hands the capacity check and the preparation of the backend to worker   *)
(* threads and awaits them; a thread cannot be cancelled, so it may        *)
(* outlive its handler.  A streamed answer outlives the handler on         *)
(* purpose: the body generator and the response's background task then     *)
(* share the duty to release the gate.  gate.release() runs as a task of   *)
(* its own, shielded from the cancellation of whoever asked for it.        *)
(***************************************************************************)
EXTENDS PriorityGate

CONSTANT Private        \* the requests that are never_cloud

ASSUME PrivateRequests == Private \subseteq Requests

VARIABLES step,         \* where the handler of each request is
          thread,       \* the worker thread that runs for it
          gen,          \* the body generator of its streamed answer
          released,     \* its `released` flag
          releasing     \* requests whose gate.release() task has not run yet

brokervars == <<vars, step, thread, gen, released, releasing>>

Steps == {"new", "queued", "capacity", "prepare", "post", "handed", "stream",
          "answered"}

BrokerInit ==
    /\ Init
    /\ step = [r \in Requests |-> "new"]
    /\ thread = [r \in Requests |-> "none"]
    /\ gen = [r \in Requests |-> "none"]
    /\ released = [r \in Requests |-> FALSE]
    /\ releasing = {}

Goto(r, s) == step' = [step EXCEPT ![r] = s]

\* _release: idempotent by the flag; the release itself is left to a task.
ReleaseNotIdempotent(r) ==
    /\ released' = [released EXCEPT ![r] = TRUE]
    /\ releasing' = releasing \cup {r}

ReleaseOnce(r) ==
    /\ released' = [released EXCEPT ![r] = TRUE]
    /\ releasing' = IF released[r] THEN releasing ELSE releasing \cup {r}

\* The shielded gate.release() runs.  It does not ask who holds the gate.
ReleaseRuns(r) ==
    /\ r \in releasing
    /\ releasing' = releasing \ {r}
    /\ busy' = FALSE
    /\ pc' = Notified([pc EXCEPT ![r] = "gone"])
    /\ UNCHANGED <<token, heap, counter, step, thread, gen, released>>
-----------------------------------------------------------------------------
(***************************************************************************)
(* Up to the gate.                                                         *)
(***************************************************************************)

\* No key, bad JSON, unknown model, or never_cloud for a spec that is not
\* local: answered before the gate.
Reject(r) ==
    /\ step[r] = "new"
    /\ Goto(r, "answered")
    /\ UNCHANGED <<vars, thread, gen, released, releasing>>

\* Through the gate, into enforce_capacity on a thread, with no await between.
Enter(r) ==
    /\ Goto(r, "capacity")
    /\ thread' = [thread EXCEPT ![r] = "capacity"]
    /\ UNCHANGED <<gen, released, releasing>>

Arrive(r, p) ==
    /\ step[r] = "new"
    /\ \/ AcquireAtOnce(r, p) /\ Enter(r)
       \/ /\ AcquireWaits(r, p)
          /\ Goto(r, "queued")
          /\ UNCHANGED <<thread, gen, released, releasing>>

Resume(r) ==
    \/ WakeAndRun(r) /\ Enter(r)
    \/ /\ WakeAndWait(r)
       /\ UNCHANGED <<step, thread, gen, released, releasing>>
-----------------------------------------------------------------------------
(***************************************************************************)
(* Inside the gate.                                                        *)
(***************************************************************************)

\* The handler ends here, its finally releases the gate.
AnswerAndRelease(r) ==
    /\ Goto(r, "answered")
    /\ ReleaseOnce(r)
    /\ UNCHANGED <<vars, gen>>

\* enforce_capacity returns: prepare_backend starts on a thread.
CapacityOkReleasing(r) ==
    /\ step[r] = "capacity"
    /\ Goto(r, "prepare")
    /\ thread' = [thread EXCEPT ![r] = "prepare"]
    /\ ReleaseOnce(r)
    /\ UNCHANGED <<vars, gen>>

CapacityOk(r) ==
    /\ step[r] = "capacity"
    /\ Goto(r, "prepare")
    /\ thread' = [thread EXCEPT ![r] = "prepare"]
    /\ UNCHANGED <<vars, gen, released, releasing>>

\* enforce_capacity or prepare_backend raises: 503, or 502.
PreparationFails(r) ==
    /\ step[r] \in {"capacity", "prepare"}
    /\ thread' = [thread EXCEPT ![r] = "none"]
    /\ AnswerAndRelease(r)

\* prepare_backend returns a base URL: the request goes to it, or its stream
\* is handed to the server.
BackendReady(r) ==
    /\ step[r] = "prepare"
    /\ thread' = [thread EXCEPT ![r] = "none"]
    /\ step' \in {[step EXCEPT ![r] = s] : s \in {"post", "handed"}}
    /\ UNCHANGED <<vars, gen, released, releasing>>

\* prepare_backend resolved the model again, and may disagree with the spec
\* the early check saw: a never_cloud request goes on only to a local URL.
BackendNotLocal(r) ==
    /\ step[r] = "prepare"
    /\ r \in Private
    /\ thread' = [thread EXCEPT ![r] = "none"]
    /\ AnswerAndRelease(r)

\* The plain request to the backend returns or fails.
PostEnds(r) ==
    /\ step[r] = "post"
    /\ AnswerAndRelease(r)
    /\ UNCHANGED thread

\* The handler is cancelled at one of its awaits.  Queued, it leaves the
\* gate's heap; inside, its finally releases the gate.  Its thread runs on.
CancelQueued(r) ==
    /\ Cancel(r)
    /\ Goto(r, "answered")
    /\ UNCHANGED <<thread, gen, released, releasing>>

CancelInside(r) ==
    /\ step[r] \in {"capacity", "prepare", "post"}
    /\ AnswerAndRelease(r)
    /\ UNCHANGED thread

\* The thread of a cancelled handler ends.
OrphanThreadEnds(r) ==
    /\ step[r] = "answered"
    /\ thread[r] # "none"
    /\ thread' = [thread EXCEPT ![r] = "none"]
    /\ UNCHANGED <<vars, step, gen, released, releasing>>
-----------------------------------------------------------------------------
(***************************************************************************)
(* A streamed answer, after the handler has handed the release off.        *)
(***************************************************************************)

\* The server starts to iterate the body: the request goes to the backend.
StreamStarts(r) ==
    /\ step[r] = "handed"
    /\ Goto(r, "stream")
    /\ gen' = [gen EXCEPT ![r] = "open"]
    /\ UNCHANGED <<vars, thread, released, releasing>>

\* The generator ends: the backend is done or fails, the cancellation reaches
\* it, or it is collected after its response is gone.  Its finally releases.
GeneratorEnds(r) ==
    /\ gen[r] = "open"
    /\ gen' = [gen EXCEPT ![r] = "closed"]
    /\ ReleaseOnce(r)
    /\ UNCHANGED <<vars, step, thread>>

\* The response ends, its body sent to the end or its client gone, maybe
\* before the first byte or between two chunks: the background task releases.
ResponseEndsSkipping(r) ==
    /\ step[r] \in {"handed", "stream"}
    /\ Goto(r, "answered")
    /\ IF gen[r] = "closed" THEN ReleaseOnce(r)
                            ELSE UNCHANGED <<released, releasing>>
    /\ UNCHANGED <<vars, thread, gen>>

ResponseEnds(r) ==
    /\ step[r] \in {"handed", "stream"}
    /\ Goto(r, "answered")
    /\ ReleaseOnce(r)
    /\ UNCHANGED <<vars, thread, gen>>
-----------------------------------------------------------------------------
InsideStep(r) == \/ CapacityOk(r)
                 \/ PreparationFails(r)
                 \/ BackendReady(r)
                 \/ BackendNotLocal(r)
                 \/ PostEnds(r)

BrokerNext ==
    \E r \in Requests :
        \/ Reject(r)
        \/ \E p \in Priorities : Arrive(r, p)
        \/ Resume(r)
        \/ InsideStep(r)
        \/ CancelQueued(r)
        \/ CancelInside(r)
        \/ OrphanThreadEnds(r)
        \/ StreamStarts(r)
        \/ GeneratorEnds(r)
        \/ ResponseEnds(r)
        \/ ReleaseRuns(r)

BrokerSpec == BrokerInit /\ [][BrokerNext]_brokervars

\* The loop resumes notified tasks and runs the release tasks; threads and
\* backend calls end (every one has a timeout); a response ends, and so does
\* the generator, by its finally or by the collector.
BrokerFairness ==
    \A r \in Requests :
        /\ WF_brokervars(Resume(r))
        /\ WF_brokervars(InsideStep(r))
        /\ WF_brokervars(OrphanThreadEnds(r))
        /\ WF_brokervars(ResponseEnds(r))
        /\ WF_brokervars(GeneratorEnds(r))
        /\ WF_brokervars(ReleaseRuns(r))

FairBrokerSpec == BrokerSpec /\ BrokerFairness
-----------------------------------------------------------------------------
\* The type invariant.
BrokerTypeOK ==
    /\ TypeOK
    /\ step \in [Requests -> Steps]
    /\ thread \in [Requests -> {"none", "capacity", "prepare"}]
    /\ gen \in [Requests -> {"none", "open", "closed"}]
    /\ released \in [Requests -> BOOLEAN]
    /\ releasing \subseteq {r \in Requests : released[r]}

\* The broker uses the gate as the gate has to be used: every release is that
\* of the task that holds it, so nobody's turn is ended by another request.
\* (The release itself, ReleaseRuns, looks at no guard.)
UsesGateRight == Spec

\* Something of r is at work on the machine's models: a thread that checks
\* or loads, a plain call, an open stream.
AtWork(r) == thread[r] # "none" \/ step[r] = "post" \/ gen[r] = "open"

\* Requests that still have their client are served one at a time: two are at
\* work only if one of them has already been answered or cancelled.
LiveRequestsSerialised ==
    \A r, s \in Requests :
        AtWork(r) /\ AtWork(s) /\ r # s => "answered" \in {step[r], step[s]}

\* No leak: whoever gets the gate gives it back, whichever way it ends.
GateIsFreed == \A r \in Requests : pc[r] = "running" ~> pc[r] = "gone"
====
