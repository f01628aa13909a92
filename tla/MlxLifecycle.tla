---- MODULE MlxLifecycle ----
(***************************************************************************)
(* Loading a model into the MLX server (backends/mlx.py).  Calls of        *)
(* ensure_mlx, from any process of the machine, serialize on a lock file;  *)
(* the state file names the server that is ours; processes start, load,    *)
(* exit and are killed by themselves; a caller may be killed anywhere.     *)
(*                                                                         *)
(* A server process is named by the call that launched it.  Foreign are    *)
(* the MLX servers somebody else may start.                                *)
(*                                                                         *)
(* What the code swallows may fail: the process probe, which then lists    *)
(* nothing; the read of the state file, which then is empty; the kill, or  *)
(* a killed process that has not gone when the code goes on; the writes of *)
(* the state file, which leave the old one, or a torn one that reads as    *)
(* empty.  A server of ours that a call so fails to see, to stop or to put *)
(* on record is one that the call has missed.                              *)
(***************************************************************************)
EXTENDS Naturals, FiniteSets

CONSTANTS Calls,        \* calls of ensure_mlx
          Releasers,    \* calls of preflight.release, which stops the server
          Foreign,      \* servers that are not ours
          Models,
          None

ASSUME MlxAssumption == /\ Calls \cap Releasers = {}
                        /\ (Calls \cup Releasers) \cap Foreign = {}
                        /\ None \notin Calls \cup Foreign

VARIABLES pc,           \* where each call is
          want,         \* the model each call of ensure_mlx asks for, once inside
          srv,          \* the server processes
          recorded,     \* the pid in the state file (its model: want of it)
          lock,         \* the holder of the lock file, or None
          missed        \* history: the servers of ours, still alive, each call missed

vars == <<pc, want, srv, recorded, lock, missed>>

Servers == Calls \cup Foreign
Alive == {p \in Servers : srv[p] \in {"loading", "ready"}}
Ours == Alive \cap Calls

\* The places of ensure_mlx between taking and dropping the lock.
Critical == {"check", "evict", "decide", "kill", "clear", "launch", "poll",
             "killLate", "clearLate"}
Ended == {"served", "failed"}

Init == /\ pc = [c \in Calls \cup Releasers |-> "idle"]
        /\ want = [c \in Calls |-> None]
        /\ srv = [p \in Servers |-> "none"]
        /\ recorded = None
        /\ lock = None
        /\ missed = [c \in Calls \cup Releasers |-> {}]

Goto(c, place) == pc' = [pc EXCEPT ![c] = place]

Miss(c, S) == missed' = [missed EXCEPT ![c] = @ \cup S]

Gone(p) == /\ srv' = [srv EXCEPT ![p] = "dead"]
           /\ missed' = [c \in DOMAIN missed |-> missed[c] \ {p}]

\* The with-block of the lock is left.
ReturnHolding(c, how) == Goto(c, how) /\ UNCHANGED lock

Return(c, how) == Goto(c, how) /\ lock' = None
-----------------------------------------------------------------------------
(***************************************************************************)
(* ensure_mlx                                                              *)
(***************************************************************************)

\* Too big for the budget or no server binary: refused before the lock.
Refuse(c) == /\ pc[c] = "idle"
             /\ Goto(c, "failed")
             /\ UNCHANGED <<want, srv, recorded, lock, missed>>

\* flock(LOCK_EX).
LockIgnored(c, m) ==
    /\ pc[c] = "idle"
    /\ lock' = c
    /\ want' = [want EXCEPT ![c] = m]
    /\ Goto(c, "check")
    /\ UNCHANGED <<srv, recorded, missed>>

Lock(c, m) ==
    /\ pc[c] = "idle"
    /\ lock = None
    /\ lock' = c
    /\ want' = [want EXCEPT ![c] = m]
    /\ Goto(c, "check")
    /\ UNCHANGED <<srv, recorded, missed>>

\* assert_no_foreign_mlx: a live server that is not in the state file.
NoForeign(c) ==
    /\ pc[c] = "check"
    /\ Alive \subseteq {recorded}
    /\ Goto(c, "evict")
    /\ UNCHANGED <<want, srv, recorded, lock, missed>>

\* _pgrep_mlx failed: no process is listed, and none is foreign.
ProbeFails(c) ==
    /\ pc[c] = "check"
    /\ Miss(c, Ours \ {recorded})
    /\ Goto(c, "evict")
    /\ UNCHANGED <<want, srv, recorded, lock>>

\* The recorded server counts as foreign too if the state file is not read.
ForeignFound(c) ==
    /\ pc[c] = "check"
    /\ Alive # {}
    /\ Return(c, "failed")
    /\ UNCHANGED <<want, srv, recorded, missed>>

\* evict_coresidents makes room in the other runtimes, or raises.
Evict(c) ==
    /\ pc[c] = "evict"
    /\ \/ Goto(c, "decide") /\ UNCHANGED lock
       \/ Return(c, "failed")
    /\ UNCHANGED <<want, srv, recorded, missed>>

\* _pid_alive and mlx_health together say yes to p.  The probe asks the port
\* and not the process, and an exited child is a pid until it is reaped: any
\* server that is up may be the one that answers.
Answers(p) == srv[p] # "none" /\ \E q \in Servers : srv[q] = "ready"

\* The recorded server serves the model, and answers.
Reuse(c) ==
    /\ pc[c] = "decide"
    /\ recorded \in Calls
    /\ Answers(recorded)
    /\ want[recorded] = want[c]
    /\ Return(c, "served")
    /\ UNCHANGED <<want, srv, recorded, missed>>

\* Another model, a dead server, or one that did not answer in time or not on
\* the requested port: stop it first.  No record: nothing to stop.
Decide(c) ==
    /\ pc[c] = "decide"
    /\ Goto(c, IF recorded = None THEN "launch" ELSE "kill")
    /\ UNCHANGED <<want, srv, recorded, lock, missed>>

\* The state file could not be read: as if there were no record.
ReadFails(c) ==
    /\ pc[c] = "decide"
    /\ Miss(c, Ours \cap {recorded})
    /\ Goto(c, "launch")
    /\ UNCHANGED <<want, srv, recorded, lock>>

\* stop_mlx, first half: read the state file, kill what it names, or fail to.
KillRecorded(c) ==
    \/ recorded \in Ours /\ Gone(recorded)
    \/ recorded \notin Ours /\ UNCHANGED <<srv, missed>>
    \/ /\ recorded \in Ours
       /\ Miss(c, {recorded})
       /\ UNCHANGED srv

\* stop_mlx, second half: the state file is emptied, or is as it was.
Stop(c, kill, clear, next) ==
    \/ /\ pc[c] = kill
       /\ KillRecorded(c)
       /\ Goto(c, clear)
       /\ UNCHANGED <<want, recorded, lock>>
    \/ /\ pc[c] = clear
       /\ recorded' \in {None, recorded}
       /\ next
       /\ UNCHANGED <<want, srv, missed>>

StopFirst(c) ==
    Stop(c, "kill", "clear", Goto(c, "launch") /\ UNCHANGED lock)

\* The port is taken by some service, and so is the default one.  Roles have
\* ports of their own, so a server of ours need not be what is found there.
PortBusy(c) ==
    /\ pc[c] = "launch"
    /\ Return(c, "failed")
    /\ UNCHANGED <<want, srv, recorded, missed>>

Launch(c) ==
    /\ pc[c] = "launch"
    /\ srv' = [srv EXCEPT ![c] = "loading"]
    /\ Goto(c, "poll")
    /\ UNCHANGED <<want, recorded, lock, missed>>

\* The readiness loop sees the server answer: it is recorded as ours.
ReadyUnrecorded(c) ==
    /\ pc[c] = "poll"
    /\ Answers(c)
    /\ Return(c, "served")
    /\ UNCHANGED <<want, srv, recorded, missed>>

Ready(c) ==
    /\ pc[c] = "poll"
    /\ Answers(c)
    /\ recorded' = c
    /\ Return(c, "served")
    /\ UNCHANGED <<want, srv, missed>>

\* The record was not written, which ensure_mlx does not notice.
WriteFails(c) ==
    /\ pc[c] = "poll"
    /\ Answers(c)
    /\ recorded' \in {None, recorded}
    /\ Miss(c, {c})
    /\ Return(c, "served")
    /\ UNCHANGED <<want, srv>>

\* The loop sees the server gone (once the child is reaped).
Exited(c) ==
    /\ pc[c] = "poll"
    /\ srv[c] = "dead"
    /\ Return(c, "failed")
    /\ UNCHANGED <<want, srv, recorded, missed>>

\* The load timeout: stop_mlx once more, then give up.
TimeOutOnceHealthy(c) ==
    /\ pc[c] = "poll"
    /\ srv[c] = "ready"
    /\ Goto(c, "killLate")
    /\ UNCHANGED <<want, srv, recorded, lock, missed>>

TimeOut(c) ==
    /\ pc[c] = "poll"
    /\ Goto(c, "killLate")
    /\ UNCHANGED <<want, srv, recorded, lock, missed>>

StopLate(c) == Stop(c, "killLate", "clearLate", Return(c, "failed"))

\* The process of the call is killed; the system drops its lock.
Crash(c) ==
    /\ pc[c] \in Critical
    /\ Return(c, "failed")
    /\ UNCHANGED <<want, srv, recorded, missed>>
-----------------------------------------------------------------------------
(***************************************************************************)
(* preflight.release: stop_mlx without the lock.                           *)
(***************************************************************************)
BeginRelease(c) ==
    /\ pc[c] = "idle"
    /\ Goto(c, "kill")
    /\ UNCHANGED <<want, srv, recorded, lock, missed>>

StopUnlocked(c) == Stop(c, "kill", "clear", Goto(c, "served") /\ UNCHANGED lock)
-----------------------------------------------------------------------------
(***************************************************************************)
(* The processes themselves.                                               *)
(***************************************************************************)
Loaded(p) == /\ srv[p] = "loading"
             /\ srv' = [srv EXCEPT ![p] = "ready"]
             /\ UNCHANGED <<pc, want, recorded, lock, missed>>

Dies(p) == /\ p \in Alive
           /\ Gone(p)
           /\ UNCHANGED <<pc, want, recorded, lock>>

ForeignStarts(p) == /\ srv[p] = "none"
                    /\ srv' = [srv EXCEPT ![p] = "loading"]
                    /\ UNCHANGED <<pc, want, recorded, lock, missed>>

EnsureStep(c) == \/ \E m \in Models : Lock(c, m)
                 \/ NoForeign(c) \/ ProbeFails(c) \/ ForeignFound(c)
                 \/ Evict(c) \/ Reuse(c) \/ Decide(c) \/ ReadFails(c)
                 \/ StopFirst(c) \/ PortBusy(c) \/ Launch(c)
                 \/ Ready(c) \/ WriteFails(c) \/ Exited(c) \/ TimeOut(c) \/ StopLate(c)

Next == \/ \E c \in Calls : EnsureStep(c) \/ Refuse(c) \/ Crash(c)
        \/ \E p \in Servers : Loaded(p) \/ Dies(p)
        \/ \E p \in Foreign : ForeignStarts(p)

\* Calls of ensure_mlx only.
Spec == Init /\ [][Next]_vars

\* Every call moves on: the probes, the evictions and the polls are bounded
\* by timeouts, and flock is granted when it is free.
FairSpec == Spec /\ \A c \in Calls : WF_vars(EnsureStep(c))

\* With callers that release the server while others load.
NextRelease == \/ Next
               \/ \E c \in Releasers : BeginRelease(c) \/ StopUnlocked(c)

ReleaseSpec == Init /\ [][NextRelease]_vars
-----------------------------------------------------------------------------
\* The type invariant.
TypeOK ==
    /\ pc \in [Calls \cup Releasers -> Critical \cup Ended \cup {"idle"}]
    /\ want \in [Calls -> Models \cup {None}]
    /\ srv \in [Servers -> {"none", "loading", "ready", "dead"}]
    /\ recorded \in Calls \cup {None}
    /\ lock \in {None} \cup {c \in Calls : pc[c] \in Critical}
    /\ missed \in [Calls \cup Releasers -> SUBSET Calls]

\* One large model at a time: two servers of ours are never resident together,
\* though callers race, die in the middle, time out, and leave a stale record,
\* a wrong one or none; unless the call that launched the one had failed to see
\* or to stop the other.  A lost record alone does not double a server.
AtMostOneServer ==
    \A p, q \in Ours : p = q \/ p \in missed[q] \/ q \in missed[p]

\* A server that a call has handed out stays the recorded one as long as it
\* lives, unless a call has missed that very server: unrecorded it counts as
\* foreign and blocks every later load.
ServedIsRecorded ==
    \A p \in Ours :
        pc[p] = "served" =>
            recorded = p \/ \E c \in Calls \cup Releasers : p \in missed[c]

\* Every call returns, with an endpoint or an error: those that wait for the
\* lock too, though its holders time out or die.
EveryCallReturns ==
    \A c \in Calls : pc[c] = "idle" ~> pc[c] \in Ended
====
