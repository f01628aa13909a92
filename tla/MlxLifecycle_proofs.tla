---- MODULE MlxLifecycle_proofs ----
(***************************************************************************)
(* The lock and the state file of the MLX server do what they are for, for *)
(* every set of calls, models and foreign servers: proofs of the           *)
(* invariants that MlxLifecycle.cfg checks on three calls.                 *)
(***************************************************************************)
EXTENDS MlxLifecycle, TLAPS

\* Two calls are never both between taking and dropping the lock.
CriticalHolds == \A c \in Calls : pc[c] \in Critical => lock = c

\* Before its Popen a call has no server.
Early == {"idle", "check", "evict", "decide", "kill", "clear", "launch"}
NoServerYet == \A c \in Calls : pc[c] \in Early => srv[c] = "none"

\* What the holder of the lock knows at each place, of the servers it has not
\* missed: after the check none is ours but the recorded one, after stop_mlx
\* there is none, and from its own Popen on there is none but its own.
HolderKnows ==
    \A c \in Calls :
        /\ pc[c] \in {"evict", "decide", "kill"} => Ours \subseteq {recorded} \cup missed[c]
        /\ pc[c] \in {"clear", "launch"} => Ours \subseteq missed[c]
        /\ pc[c] \in {"poll", "killLate", "clearLate"} => Ours \subseteq {c} \cup missed[c]

\* The inductive invariant.  AtMostOneServer is not inductive: a launch is safe
\* only because of what its caller has found out since it took the lock, and
\* that stays true only because nobody else is in the critical section.
IInv == /\ TypeOK
        /\ CriticalHolds
        /\ NoServerYet
        /\ HolderKnows
        /\ AtMostOneServer
        /\ ServedIsRecorded

LEMMA InitIInv == Init => IInv
<1> SUFFICES ASSUME Init PROVE IInv
  OBVIOUS
<1>1. TypeOK
  BY DEF Init, TypeOK
<1>2. Ours = {}
  BY DEF Init, Ours, Alive, Servers
<1>3. \A c \in Calls : pc[c] = "idle" /\ srv[c] = "none"
  BY DEF Init, Servers
<1>. QED
  BY <1>1, <1>2, <1>3 DEF IInv, CriticalHolds, NoServerYet, HolderKnows,
     AtMostOneServer, ServedIsRecorded, Critical

\* Types are preserved by each step.
LEMMA TypeStep ==
  ASSUME IInv, [Next]_vars
  PROVE  TypeOK'
<1> USE MlxAssumption DEF IInv, CriticalHolds, TypeOK, Critical, Ended, Goto, Return, Servers, Alive, Ours
<1>1. ASSUME NEW c \in Calls, NEW m \in Models, Lock(c, m) PROVE TypeOK'
  BY <1>1 DEF Lock
<1>2. ASSUME NEW c \in Calls, NoForeign(c) PROVE TypeOK'
  BY <1>2 DEF NoForeign
<1>3. ASSUME NEW c \in Calls, ForeignFound(c) PROVE TypeOK'
  BY <1>3 DEF ForeignFound
<1>4. ASSUME NEW c \in Calls, Evict(c) PROVE TypeOK'
  BY <1>4 DEF Evict
<1>5. ASSUME NEW c \in Calls, Reuse(c) PROVE TypeOK'
  BY <1>5 DEF Reuse
<1>6. ASSUME NEW c \in Calls, Decide(c) PROVE TypeOK'
  BY <1>6 DEF Decide
<1>7. ASSUME NEW c \in Calls, StopFirst(c) PROVE TypeOK'
  BY <1>7 DEF StopFirst, Stop, KillRecorded, Miss, Gone
<1>8. ASSUME NEW c \in Calls, PortBusy(c) PROVE TypeOK'
  BY <1>8 DEF PortBusy
<1>9. ASSUME NEW c \in Calls, Launch(c) PROVE TypeOK'
  BY <1>9 DEF Launch
<1>10. ASSUME NEW c \in Calls, Ready(c) PROVE TypeOK'
  BY <1>10 DEF Ready
<1>11. ASSUME NEW c \in Calls, Exited(c) PROVE TypeOK'
  BY <1>11 DEF Exited
<1>12. ASSUME NEW c \in Calls, TimeOut(c) PROVE TypeOK'
  BY <1>12 DEF TimeOut
<1>13. ASSUME NEW c \in Calls, StopLate(c) PROVE TypeOK'
  BY <1>13 DEF StopLate, Stop, KillRecorded, Miss, Gone
<1>14. ASSUME NEW c \in Calls, Refuse(c) PROVE TypeOK'
  BY <1>14 DEF Refuse
<1>15. ASSUME NEW c \in Calls, Crash(c) PROVE TypeOK'
  BY <1>15 DEF Crash
<1>16. ASSUME NEW p \in Servers, Loaded(p) PROVE TypeOK'
  BY <1>16 DEF Loaded
<1>17. ASSUME NEW p \in Servers, Dies(p) PROVE TypeOK'
  BY <1>17 DEF Dies, Gone
<1>18. ASSUME NEW p \in Foreign, ForeignStarts(p) PROVE TypeOK'
  BY <1>18 DEF ForeignStarts
<1>19. ASSUME NEW c \in Calls, ProbeFails(c) PROVE TypeOK'
  BY <1>19 DEF ProbeFails, Miss
<1>20. ASSUME NEW c \in Calls, ReadFails(c) PROVE TypeOK'
  BY <1>20 DEF ReadFails, Miss
<1>21. ASSUME NEW c \in Calls, WriteFails(c) PROVE TypeOK'
  BY <1>21 DEF WriteFails, Miss
<1>22. CASE UNCHANGED vars
  BY <1>22 DEF vars
<1>. QED
  BY <1>1, <1>2, <1>3, <1>4, <1>5, <1>6, <1>7, <1>8, <1>9, <1>10,
     <1>11, <1>12, <1>13, <1>14, <1>15, <1>16, <1>17, <1>18, <1>19, <1>20,
     <1>21, <1>22 DEF Next, EnsureStep

\* The lock keeps others out: only its holder is inside, and to enter a call
\* has to find it free.
LEMMA LockStep ==
  ASSUME IInv, [Next]_vars
  PROVE  CriticalHolds'
<1> USE MlxAssumption DEF IInv, CriticalHolds, TypeOK, Critical, Goto, Return
<1>1. ASSUME NEW c \in Calls, NEW m \in Models, Lock(c, m) PROVE CriticalHolds'
  BY <1>1 DEF Lock
<1>2. ASSUME NEW c \in Calls, NoForeign(c) PROVE CriticalHolds'
  BY <1>2 DEF NoForeign
<1>3. ASSUME NEW c \in Calls, ForeignFound(c) PROVE CriticalHolds'
  BY <1>3 DEF ForeignFound
<1>4. ASSUME NEW c \in Calls, Evict(c) PROVE CriticalHolds'
  BY <1>4 DEF Evict
<1>5. ASSUME NEW c \in Calls, Reuse(c) PROVE CriticalHolds'
  BY <1>5 DEF Reuse
<1>6. ASSUME NEW c \in Calls, Decide(c) PROVE CriticalHolds'
  BY <1>6 DEF Decide
<1>7. ASSUME NEW c \in Calls, StopFirst(c) PROVE CriticalHolds'
  BY <1>7 DEF StopFirst, Stop, KillRecorded, Miss, Gone
<1>8. ASSUME NEW c \in Calls, PortBusy(c) PROVE CriticalHolds'
  BY <1>8 DEF PortBusy
<1>9. ASSUME NEW c \in Calls, Launch(c) PROVE CriticalHolds'
  BY <1>9 DEF Launch
<1>10. ASSUME NEW c \in Calls, Ready(c) PROVE CriticalHolds'
  BY <1>10 DEF Ready
<1>11. ASSUME NEW c \in Calls, Exited(c) PROVE CriticalHolds'
  BY <1>11 DEF Exited
<1>12. ASSUME NEW c \in Calls, TimeOut(c) PROVE CriticalHolds'
  BY <1>12 DEF TimeOut
<1>13. ASSUME NEW c \in Calls, StopLate(c) PROVE CriticalHolds'
  BY <1>13 DEF StopLate, Stop, KillRecorded, Miss, Gone
<1>14. ASSUME NEW c \in Calls, Refuse(c) PROVE CriticalHolds'
  BY <1>14 DEF Refuse
<1>15. ASSUME NEW c \in Calls, Crash(c) PROVE CriticalHolds'
  BY <1>15 DEF Crash
<1>16. ASSUME NEW p \in Servers, Loaded(p) PROVE CriticalHolds'
  BY <1>16 DEF Loaded
<1>17. ASSUME NEW p \in Servers, Dies(p) PROVE CriticalHolds'
  BY <1>17 DEF Dies, Gone
<1>18. ASSUME NEW p \in Foreign, ForeignStarts(p) PROVE CriticalHolds'
  BY <1>18 DEF ForeignStarts
<1>19. ASSUME NEW c \in Calls, ProbeFails(c) PROVE CriticalHolds'
  BY <1>19 DEF ProbeFails, Miss
<1>20. ASSUME NEW c \in Calls, ReadFails(c) PROVE CriticalHolds'
  BY <1>20 DEF ReadFails, Miss
<1>21. ASSUME NEW c \in Calls, WriteFails(c) PROVE CriticalHolds'
  BY <1>21 DEF WriteFails, Miss
<1>22. CASE UNCHANGED vars
  BY <1>22 DEF vars
<1>. QED
  BY <1>1, <1>2, <1>3, <1>4, <1>5, <1>6, <1>7, <1>8, <1>9, <1>10,
     <1>11, <1>12, <1>13, <1>14, <1>15, <1>16, <1>17, <1>18, <1>19, <1>20,
     <1>21, <1>22 DEF Next, EnsureStep

\* A call has no server before its own Popen.
LEMMA FreshStep ==
  ASSUME IInv, [Next]_vars
  PROVE  NoServerYet'
<1> USE MlxAssumption DEF IInv, NoServerYet, CriticalHolds, TypeOK, Critical, Early, Servers, Alive, Ours, Goto, Return
<1>1. ASSUME NEW c \in Calls, NEW m \in Models, Lock(c, m) PROVE NoServerYet'
  BY <1>1 DEF Lock
<1>2. ASSUME NEW c \in Calls, NoForeign(c) PROVE NoServerYet'
  BY <1>2 DEF NoForeign
<1>3. ASSUME NEW c \in Calls, ForeignFound(c) PROVE NoServerYet'
  BY <1>3 DEF ForeignFound
<1>4. ASSUME NEW c \in Calls, Evict(c) PROVE NoServerYet'
  BY <1>4 DEF Evict
<1>5. ASSUME NEW c \in Calls, Reuse(c) PROVE NoServerYet'
  BY <1>5 DEF Reuse
<1>6. ASSUME NEW c \in Calls, Decide(c) PROVE NoServerYet'
  BY <1>6 DEF Decide
<1>7. ASSUME NEW c \in Calls, StopFirst(c) PROVE NoServerYet'
  BY <1>7 DEF StopFirst, Stop, KillRecorded, Miss, Gone
<1>8. ASSUME NEW c \in Calls, PortBusy(c) PROVE NoServerYet'
  BY <1>8 DEF PortBusy
<1>9. ASSUME NEW c \in Calls, Launch(c) PROVE NoServerYet'
  BY <1>9 DEF Launch
<1>10. ASSUME NEW c \in Calls, Ready(c) PROVE NoServerYet'
  BY <1>10 DEF Ready
<1>11. ASSUME NEW c \in Calls, Exited(c) PROVE NoServerYet'
  BY <1>11 DEF Exited
<1>12. ASSUME NEW c \in Calls, TimeOut(c) PROVE NoServerYet'
  BY <1>12 DEF TimeOut
<1>13. ASSUME NEW c \in Calls, StopLate(c) PROVE NoServerYet'
  BY <1>13 DEF StopLate, Stop, KillRecorded, Miss, Gone
<1>14. ASSUME NEW c \in Calls, Refuse(c) PROVE NoServerYet'
  BY <1>14 DEF Refuse
<1>15. ASSUME NEW c \in Calls, Crash(c) PROVE NoServerYet'
  BY <1>15 DEF Crash
<1>16. ASSUME NEW p \in Servers, Loaded(p) PROVE NoServerYet'
  BY <1>16 DEF Loaded
<1>17. ASSUME NEW p \in Servers, Dies(p) PROVE NoServerYet'
  BY <1>17 DEF Dies, Gone
<1>18. ASSUME NEW p \in Foreign, ForeignStarts(p) PROVE NoServerYet'
  BY <1>18 DEF ForeignStarts
<1>19. ASSUME NEW c \in Calls, ProbeFails(c) PROVE NoServerYet'
  BY <1>19 DEF ProbeFails, Miss
<1>20. ASSUME NEW c \in Calls, ReadFails(c) PROVE NoServerYet'
  BY <1>20 DEF ReadFails, Miss
<1>21. ASSUME NEW c \in Calls, WriteFails(c) PROVE NoServerYet'
  BY <1>21 DEF WriteFails, Miss
<1>22. CASE UNCHANGED vars
  BY <1>22 DEF vars
<1>. QED
  BY <1>1, <1>2, <1>3, <1>4, <1>5, <1>6, <1>7, <1>8, <1>9, <1>10,
     <1>11, <1>12, <1>13, <1>14, <1>15, <1>16, <1>17, <1>18, <1>19, <1>20,
     <1>21, <1>22 DEF Next, EnsureStep

\* What the holder knows stays true until it acts on it.
LEMMA HolderStep ==
  ASSUME IInv, [Next]_vars
  PROVE  HolderKnows'
<1> USE MlxAssumption DEF IInv, HolderKnows, CriticalHolds, NoServerYet, Early, TypeOK, Critical, Servers, Alive, Ours, Goto, Return
<1>1. ASSUME NEW c \in Calls, NEW m \in Models, Lock(c, m) PROVE HolderKnows'
  BY <1>1 DEF Lock
<1>2. ASSUME NEW c \in Calls, NoForeign(c) PROVE HolderKnows'
  BY <1>2 DEF NoForeign
<1>3. ASSUME NEW c \in Calls, ForeignFound(c) PROVE HolderKnows'
  BY <1>3 DEF ForeignFound
<1>4. ASSUME NEW c \in Calls, Evict(c) PROVE HolderKnows'
  BY <1>4 DEF Evict
<1>5. ASSUME NEW c \in Calls, Reuse(c) PROVE HolderKnows'
  BY <1>5 DEF Reuse
<1>6. ASSUME NEW c \in Calls, Decide(c) PROVE HolderKnows'
  BY <1>6 DEF Decide
<1>7. ASSUME NEW c \in Calls, StopFirst(c) PROVE HolderKnows'
  BY <1>7 DEF StopFirst, Stop, KillRecorded, Miss, Gone
<1>8. ASSUME NEW c \in Calls, PortBusy(c) PROVE HolderKnows'
  BY <1>8 DEF PortBusy
<1>9. ASSUME NEW c \in Calls, Launch(c) PROVE HolderKnows'
  BY <1>9 DEF Launch
<1>10. ASSUME NEW c \in Calls, Ready(c) PROVE HolderKnows'
  BY <1>10 DEF Ready
<1>11. ASSUME NEW c \in Calls, Exited(c) PROVE HolderKnows'
  BY <1>11 DEF Exited
<1>12. ASSUME NEW c \in Calls, TimeOut(c) PROVE HolderKnows'
  BY <1>12 DEF TimeOut
<1>13. ASSUME NEW c \in Calls, StopLate(c) PROVE HolderKnows'
  BY <1>13 DEF StopLate, Stop, KillRecorded, Miss, Gone
<1>14. ASSUME NEW c \in Calls, Refuse(c) PROVE HolderKnows'
  BY <1>14 DEF Refuse
<1>15. ASSUME NEW c \in Calls, Crash(c) PROVE HolderKnows'
  BY <1>15 DEF Crash
<1>16. ASSUME NEW p \in Servers, Loaded(p) PROVE HolderKnows'
  BY <1>16 DEF Loaded
<1>17. ASSUME NEW p \in Servers, Dies(p) PROVE HolderKnows'
  BY <1>17 DEF Dies, Gone
<1>18. ASSUME NEW p \in Foreign, ForeignStarts(p) PROVE HolderKnows'
  BY <1>18 DEF ForeignStarts
<1>19. ASSUME NEW c \in Calls, ProbeFails(c) PROVE HolderKnows'
  BY <1>19 DEF ProbeFails, Miss
<1>20. ASSUME NEW c \in Calls, ReadFails(c) PROVE HolderKnows'
  BY <1>20 DEF ReadFails, Miss
<1>21. ASSUME NEW c \in Calls, WriteFails(c) PROVE HolderKnows'
  BY <1>21 DEF WriteFails, Miss
<1>22. CASE UNCHANGED vars
  BY <1>22 DEF vars
<1>. QED
  BY <1>1, <1>2, <1>3, <1>4, <1>5, <1>6, <1>7, <1>8, <1>9, <1>10,
     <1>11, <1>12, <1>13, <1>14, <1>15, <1>16, <1>17, <1>18, <1>19, <1>20,
     <1>21, <1>22 DEF Next, EnsureStep

\* A server is launched only when none of ours is alive.
LEMMA ServerStep ==
  ASSUME IInv, [Next]_vars
  PROVE  AtMostOneServer'
<1> USE MlxAssumption DEF IInv, AtMostOneServer, HolderKnows, TypeOK, Servers, Alive, Ours, Goto, Return
<1>1. ASSUME NEW c \in Calls, NEW m \in Models, Lock(c, m) PROVE AtMostOneServer'
  BY <1>1 DEF Lock
<1>2. ASSUME NEW c \in Calls, NoForeign(c) PROVE AtMostOneServer'
  BY <1>2 DEF NoForeign
<1>3. ASSUME NEW c \in Calls, ForeignFound(c) PROVE AtMostOneServer'
  BY <1>3 DEF ForeignFound
<1>4. ASSUME NEW c \in Calls, Evict(c) PROVE AtMostOneServer'
  BY <1>4 DEF Evict
<1>5. ASSUME NEW c \in Calls, Reuse(c) PROVE AtMostOneServer'
  BY <1>5 DEF Reuse
<1>6. ASSUME NEW c \in Calls, Decide(c) PROVE AtMostOneServer'
  BY <1>6 DEF Decide
<1>7. ASSUME NEW c \in Calls, StopFirst(c) PROVE AtMostOneServer'
  BY <1>7 DEF StopFirst, Stop, KillRecorded, Miss, Gone
<1>8. ASSUME NEW c \in Calls, PortBusy(c) PROVE AtMostOneServer'
  BY <1>8 DEF PortBusy
<1>9. ASSUME NEW c \in Calls, Launch(c) PROVE AtMostOneServer'
  BY <1>9 DEF Launch
<1>10. ASSUME NEW c \in Calls, Ready(c) PROVE AtMostOneServer'
  BY <1>10 DEF Ready
<1>11. ASSUME NEW c \in Calls, Exited(c) PROVE AtMostOneServer'
  BY <1>11 DEF Exited
<1>12. ASSUME NEW c \in Calls, TimeOut(c) PROVE AtMostOneServer'
  BY <1>12 DEF TimeOut
<1>13. ASSUME NEW c \in Calls, StopLate(c) PROVE AtMostOneServer'
  BY <1>13 DEF StopLate, Stop, KillRecorded, Miss, Gone
<1>14. ASSUME NEW c \in Calls, Refuse(c) PROVE AtMostOneServer'
  BY <1>14 DEF Refuse
<1>15. ASSUME NEW c \in Calls, Crash(c) PROVE AtMostOneServer'
  BY <1>15 DEF Crash
<1>16. ASSUME NEW p \in Servers, Loaded(p) PROVE AtMostOneServer'
  BY <1>16 DEF Loaded
<1>17. ASSUME NEW p \in Servers, Dies(p) PROVE AtMostOneServer'
  BY <1>17 DEF Dies, Gone
<1>18. ASSUME NEW p \in Foreign, ForeignStarts(p) PROVE AtMostOneServer'
  BY <1>18 DEF ForeignStarts
<1>19. ASSUME NEW c \in Calls, ProbeFails(c) PROVE AtMostOneServer'
  BY <1>19 DEF ProbeFails, Miss
<1>20. ASSUME NEW c \in Calls, ReadFails(c) PROVE AtMostOneServer'
  BY <1>20 DEF ReadFails, Miss
<1>21. ASSUME NEW c \in Calls, WriteFails(c) PROVE AtMostOneServer'
  BY <1>21 DEF WriteFails, Miss
<1>22. CASE UNCHANGED vars
  BY <1>22 DEF vars
<1>. QED
  BY <1>1, <1>2, <1>3, <1>4, <1>5, <1>6, <1>7, <1>8, <1>9, <1>10,
     <1>11, <1>12, <1>13, <1>14, <1>15, <1>16, <1>17, <1>18, <1>19, <1>20,
     <1>21, <1>22 DEF Next, EnsureStep

\* The record of a server that was handed out is only dropped with it.
LEMMA RecordStep ==
  ASSUME IInv, [Next]_vars
  PROVE  ServedIsRecorded'
<1> USE MlxAssumption DEF IInv, ServedIsRecorded, HolderKnows, NoServerYet, Early, CriticalHolds, Critical, TypeOK, Servers, Alive, Ours, Goto, Return
<1>1. ASSUME NEW c \in Calls, NEW m \in Models, Lock(c, m) PROVE ServedIsRecorded'
  BY <1>1 DEF Lock
<1>2. ASSUME NEW c \in Calls, NoForeign(c) PROVE ServedIsRecorded'
  BY <1>2 DEF NoForeign
<1>3. ASSUME NEW c \in Calls, ForeignFound(c) PROVE ServedIsRecorded'
  BY <1>3 DEF ForeignFound
<1>4. ASSUME NEW c \in Calls, Evict(c) PROVE ServedIsRecorded'
  BY <1>4 DEF Evict
<1>5. ASSUME NEW c \in Calls, Reuse(c) PROVE ServedIsRecorded'
  BY <1>5 DEF Reuse
<1>6. ASSUME NEW c \in Calls, Decide(c) PROVE ServedIsRecorded'
  BY <1>6 DEF Decide
<1>7. ASSUME NEW c \in Calls, StopFirst(c) PROVE ServedIsRecorded'
  BY <1>7 DEF StopFirst, Stop, KillRecorded, Miss, Gone
<1>8. ASSUME NEW c \in Calls, PortBusy(c) PROVE ServedIsRecorded'
  BY <1>8 DEF PortBusy
<1>9. ASSUME NEW c \in Calls, Launch(c) PROVE ServedIsRecorded'
  BY <1>9 DEF Launch
<1>10. ASSUME NEW c \in Calls, Ready(c) PROVE ServedIsRecorded'
  BY <1>10 DEF Ready
<1>11. ASSUME NEW c \in Calls, Exited(c) PROVE ServedIsRecorded'
  BY <1>11 DEF Exited
<1>12. ASSUME NEW c \in Calls, TimeOut(c) PROVE ServedIsRecorded'
  BY <1>12 DEF TimeOut
<1>13. ASSUME NEW c \in Calls, StopLate(c) PROVE ServedIsRecorded'
  BY <1>13 DEF StopLate, Stop, KillRecorded, Miss, Gone
<1>14. ASSUME NEW c \in Calls, Refuse(c) PROVE ServedIsRecorded'
  BY <1>14 DEF Refuse
<1>15. ASSUME NEW c \in Calls, Crash(c) PROVE ServedIsRecorded'
  BY <1>15 DEF Crash
<1>16. ASSUME NEW p \in Servers, Loaded(p) PROVE ServedIsRecorded'
  BY <1>16 DEF Loaded
<1>17. ASSUME NEW p \in Servers, Dies(p) PROVE ServedIsRecorded'
  BY <1>17 DEF Dies, Gone
<1>18. ASSUME NEW p \in Foreign, ForeignStarts(p) PROVE ServedIsRecorded'
  BY <1>18 DEF ForeignStarts
<1>19. ASSUME NEW c \in Calls, ProbeFails(c) PROVE ServedIsRecorded'
  BY <1>19 DEF ProbeFails, Miss
<1>20. ASSUME NEW c \in Calls, ReadFails(c) PROVE ServedIsRecorded'
  BY <1>20 DEF ReadFails, Miss
<1>21. ASSUME NEW c \in Calls, WriteFails(c) PROVE ServedIsRecorded'
  BY <1>21 DEF WriteFails, Miss
<1>22. CASE UNCHANGED vars
  BY <1>22 DEF vars
<1>. QED
  BY <1>1, <1>2, <1>3, <1>4, <1>5, <1>6, <1>7, <1>8, <1>9, <1>10,
     <1>11, <1>12, <1>13, <1>14, <1>15, <1>16, <1>17, <1>18, <1>19, <1>20,
     <1>21, <1>22 DEF Next, EnsureStep

LEMMA StepIInv == IInv /\ [Next]_vars => IInv'
BY TypeStep, LockStep, FreshStep, HolderStep, ServerStep, RecordStep DEF IInv

\* IInv holds in every state of every behaviour.
THEOREM Invariance == Spec => []IInv
BY InitIInv, StepIInv, PTL DEF Spec

\* Types of the variables, and the lock belongs to a call inside it.
THEOREM TypeCorrect == Spec => []TypeOK
BY Invariance, PTL DEF IInv

\* Whatever callers, crashes, timeouts, lost records and foreign servers do, no
\* two servers of ours are alive together, unless the call that launched the one
\* had failed to see or to stop the other.
THEOREM OneServer == Spec => []AtMostOneServer
BY Invariance, PTL DEF IInv

\* A server that was handed out is on record while it lives and is not missed.
THEOREM NoOrphan == Spec => []ServedIsRecorded
BY Invariance, PTL DEF IInv
====
