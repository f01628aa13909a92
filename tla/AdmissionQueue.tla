---- MODULE AdmissionQueue ----
(***************************************************************************)
(* What the broker's serial gate promises its callers, with no word on how *)
(* it keeps the promise: at most one generation runs, and a caller that    *)
(* starts is the most urgent of those waiting, the earliest arrival first  *)
(* among equally urgent ones.  A caller that leaves the queue leaves       *)
(* nothing behind.  PriorityGate implements this.                          *)
(***************************************************************************)
EXTENDS Naturals

CONSTANTS Requests,     \* the tasks that ask for a generation, once each
          Priorities    \* class numbers; a smaller one is more urgent

Ticket == [prio : Nat, seq : Nat]

VARIABLES waiting,      \* the tasks that wait for their turn
          running,      \* the tasks inside a generation
          ticket        \* ticket[r]: class and arrival number of r's call

avars == <<waiting, running, ticket>>

\* The order of turns: by class, then by arrival.
Before(a, b) == \/ a.prio < b.prio
                \/ a.prio = b.prio /\ a.seq < b.seq

\* Nobody of W has to be served before a caller with ticket t.
FirstAmong(t, W) == \A w \in W : ~Before(ticket[w], t)

AInit == /\ waiting = {}
         /\ running = {}
         /\ ticket \in [Requests -> Ticket]

\* r, who neither waits nor runs, takes a ticket of some class, numbered
\* after every ticket still waiting.
TakeTicket(r) ==
    /\ r \notin waiting \cup running
    /\ ticket' = [ticket EXCEPT ![r] = ticket'[r]]
    /\ ticket'[r] \in Ticket
    /\ ticket'[r].prio \in Priorities
    /\ \A w \in waiting : ticket[w].seq < ticket'[r].seq

\* r has to wait for its turn.
Arrive(r) ==
    /\ TakeTicket(r)
    /\ waiting' = waiting \cup {r}
    /\ UNCHANGED running

\* r is served at once: nobody runs and nobody waiting is more urgent.
ArriveAndStart(r) ==
    /\ TakeTicket(r)
    /\ running = {}
    /\ FirstAmong(ticket'[r], waiting)
    /\ running' = {r}
    /\ UNCHANGED waiting

\* The turn of r comes.
Start(r) ==
    /\ r \in waiting
    /\ running = {}
    /\ FirstAmong(ticket[r], waiting)
    /\ waiting' = waiting \ {r}
    /\ running' = {r}
    /\ UNCHANGED ticket

\* r gives up while it waits.
Leave(r) ==
    /\ r \in waiting
    /\ waiting' = waiting \ {r}
    /\ UNCHANGED <<running, ticket>>

\* r's generation is over.
Finish(r) ==
    /\ r \in running
    /\ running' = running \ {r}
    /\ UNCHANGED <<waiting, ticket>>

ANext == \E r \in Requests : \/ Arrive(r)
                             \/ ArriveAndStart(r)
                             \/ Start(r)
                             \/ Leave(r)
                             \/ Finish(r)

ASpec == AInit /\ [][ANext]_avars
====
