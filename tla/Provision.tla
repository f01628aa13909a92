---- MODULE Provision ----
(***************************************************************************)
(* What a model is let into: the disk and the memory of the machine.       *)
(*                                                                         *)
(* A load of an Ollama model is decided by enforce_capacity                *)
(* (broker/app.py, broker/capacity.py), which may unload the secondary     *)
(* runtime (LM Studio), and then by ensure_role (backends/preflight.py),   *)
(* which pulls an absent model if it fits.  A load of an MLX model makes   *)
(* room in both runtimes first (evict_coresidents); MlxLifecycle has the   *)
(* life of its server.  Loads run in worker threads of the broker, under a *)
(* gate that admits several of them, and in other processes.               *)
(*                                                                         *)
(* Sizes are in units of memory and disk.  A probe of a runtime that fails *)
(* is read as "nothing loaded" (backends/ollama.py).                       *)
(***************************************************************************)
EXTENDS Integers, FiniteSetsExt

CONSTANTS Loads,
          Ollama, Mlx,       \* the models of either backend
          Size,              \* of each model
          Sized,             \* the models whose approx_gb is configured
          Budget,            \* the RAM budget of loads, 0 if unknown
          Headroom,          \* of the disk
          MaxDownload, AutoPull,
          Disks, Footprints, \* how much may be free, and held by LM Studio
          None

ASSUME ProvisionAssumption ==
    /\ IsFiniteSet(Ollama) /\ Ollama \cap Mlx = {} /\ None \notin Ollama \cup Mlx
    /\ Size \in [Ollama \cup Mlx -> Nat \ {0}] /\ Sized \subseteq Ollama \cup Mlx
    /\ {Budget, Headroom, MaxDownload} \cup Disks \cup Footprints \subseteq Nat
    /\ AutoPull \in BOOLEAN

VARIABLES free,        \* the free disk
          present,     \* the Ollama models on disk
          resident,    \* those of them in memory
          lms,         \* what LM Studio holds
          mlx,         \* the model of the MLX server
          load,        \* where each load is, and for which model
          alone,       \* the loads nobody has interfered with, and that were
                       \* not deceived by a probe or a runtime
          overlapped   \* a model was measured for a pull during another pull

vars == <<free, present, resident, lms, mlx, load, alone, overlapped>>

Needed(m) == IF m \in Sized THEN Size[m] ELSE 0
Held(models) == MapThenSumSet(LAMBDA m : Size[m], models)

Ended == {"done", "refused"}
Places == {"idle", "unload", "prepare", "pull", "serve", "room", "preempt",
           "recheck", "stop", "refit", "launch"} \cup Ended
Locked == {"room", "preempt", "recheck", "stop", "refit", "launch"}

Init == /\ free \in {d \in Disks : d >= Headroom}
        /\ present \in SUBSET Ollama
        /\ resident \in SUBSET {m \in present \cap Sized : Size[m] <= Budget}
        /\ lms \in Footprints
        /\ mlx \in {None} \cup {m \in Mlx \cap Sized : Size[m] <= Budget}
        /\ load = [r \in Loads |-> [pc |-> "idle", model |-> None]]
        /\ alone = {}
        /\ overlapped = FALSE

Goto(r, place) == load' = [load EXCEPT ![r].pc = place]

InPlace == UNCHANGED <<free, present, resident, lms, mlx, overlapped>>
Memory == <<resident, lms, mlx>>
Disk == <<free, present, overlapped>>

Active == {r \in Loads : load[r].pc \notin Ended \cup {"idle"}}

\* A load has begun, or r has changed what the others have measured.
Interferes(r) == alone' = alone \cap {r}

Trusts(r, sincere) == alone' = IF sincere THEN alone ELSE alone \ {r}
-----------------------------------------------------------------------------
\* What a probe may say, and whether it is so.
Probes(actual) == {actual, 0}

\* capacity_decision
DecisionWithoutRefusal(m, warm, held, hot, lmsHeld) ==
    IF warm \/ Needed(m) = 0 THEN "ok"
    ELSE IF hot /\ (lmsHeld = 0 \/ Needed(m) + held + lmsHeld > Budget)
    THEN "evict-lms"
    ELSE "ok"

Decision(m, warm, held, hot, lmsHeld) ==
    IF warm \/ Needed(m) = 0 THEN "ok"
    ELSE IF Needed(m) > Budget THEN "503"
    ELSE IF hot /\ (lmsHeld = 0 \/ Needed(m) + held + lmsHeld > Budget)
    THEN "evict-lms"
    ELSE "ok"

\* enforce_capacity of an Ollama model.
After(decision) == CASE decision = "503" -> "refused"
                     [] decision = "ok"  -> "prepare"
                     [] OTHER            -> "unload"

Check(r) ==
    /\ load[r].pc = "idle"
    /\ \E m \in Ollama :
         \E warm, hot \in BOOLEAN,
            held \in Probes(Held(resident)), lmsHeld \in Probes(lms) :
           LET decision == Decision(m, warm, held, hot, lmsHeld)
           IN  /\ warm => m \in resident
               /\ hot => lms > 0
               /\ load' = [load EXCEPT ![r] = [pc |-> After(decision), model |-> m]]
               /\ alone' = IF /\ Active = {} /\ m \in Sized
                              /\ <<warm, held, hot, lmsHeld>>
                                   = <<m \in resident, Held(resident), lms > 0, lms>>
                           THEN {r} ELSE {}
    /\ InPlace

\* lms_unload_all, whose failure nobody looks at.
Unload(r, from, to) ==
    /\ load[r].pc = from
    /\ Goto(r, to)
    /\ lms' \in {0, lms}
    /\ alone' = IF lms' = 0 THEN alone \cap {r} ELSE alone \ {r}
    /\ UNCHANGED <<free, present, resident, mlx, overlapped>>

UnloadLms(r) == Unload(r, "unload", "prepare")
-----------------------------------------------------------------------------
\* candidate_fits of an absent model, of a disk that has that much free.
FitsWithoutHeadroom(m, disk) ==
    /\ m \in Sized
    /\ Size[m] <= MaxDownload
    /\ disk >= Size[m]
    /\ Budget # 0 /\ Size[m] <= Budget

Fits(m, disk) ==
    /\ m \in Sized
    /\ Size[m] <= MaxDownload
    /\ disk - Size[m] >= Headroom
    /\ Budget # 0 /\ Size[m] <= Budget

\* ensure_role and _auto_pull_ollama.
Prepare(r) ==
    /\ load[r].pc = "prepare"
    /\ LET m == load[r].model
       IN  \E found \in BOOLEAN :
           /\ found => m \in present
           /\ IF found THEN Goto(r, "serve") /\ UNCHANGED overlapped
              ELSE IF AutoPull /\ Fits(m, free)
              THEN /\ Goto(r, "pull")
                   /\ overlapped' = (overlapped \/ \E q \in Loads : load[q].pc = "pull")
              ELSE Goto(r, "refused") /\ UNCHANGED overlapped
    /\ UNCHANGED <<free, present, resident, lms, mlx, alone>>

\* ollama pull, of the model that somebody else may have pulled by now; the
\* probe that looks for it afterwards may fail.
Pulled(r) ==
    /\ load[r].pc = "pull"
    /\ LET m == load[r].model
           room == IF m \in present THEN 0 ELSE Size[m]
       IN  /\ free >= room
           /\ free' = free - room
           /\ present' = present \cup {m}
    /\ \E place \in {"serve", "refused"} : Goto(r, place)
    /\ UNCHANGED <<Memory, alone, overlapped>>

PullFails(r) ==
    /\ load[r].pc = "pull"
    /\ Goto(r, "refused")
    /\ InPlace
    /\ UNCHANGED alone

\* The Ollama daemon loads the model for the request that is posted next, and
\* evicts others of its own as it likes: it does not know the budget.
Serve(r) ==
    /\ load[r].pc = "serve"
    /\ resident' \in {S \cup {load[r].model} : S \in SUBSET resident}
    /\ Goto(r, "done")
    /\ Interferes(r)
    /\ UNCHANGED <<Disk, lms, mlx>>
-----------------------------------------------------------------------------
\* ensure_mlx up to evict_coresidents: too large is refused, then its lock.
LockIgnored(r) ==
    /\ load[r].pc = "idle"
    /\ \E m \in Mlx :
         /\ load' = [load EXCEPT ![r] =
               [pc |-> IF Needed(m) > Budget THEN "refused" ELSE "room", model |-> m]]
         /\ alone' = IF Active = {} /\ m \in Sized THEN {r} ELSE {}
    /\ InPlace

Lock(r) ==
    /\ load[r].pc = "idle"
    /\ \A q \in Loads : load[q].pc \notin Locked
    /\ \E m \in Mlx :
         /\ load' = [load EXCEPT ![r] =
               [pc |-> IF Needed(m) > Budget THEN "refused" ELSE "room", model |-> m]]
         /\ alone' = IF Active = {} /\ m \in Sized THEN {r} ELSE {}
    /\ InPlace

\* evict_coresidents: everything is measured, then Ollama alone, before and
\* after it may have been stopped.
Over(r, held) == Needed(load[r].model) + held > Budget

Measure(r) ==
    /\ load[r].pc = "room"
    /\ \E hot \in BOOLEAN, held \in Probes(Held(resident)), lmsHeld \in Probes(lms) :
         LET extra == IF hot THEN lmsHeld ELSE 0
         IN  /\ hot => lms > 0
             /\ Goto(r, IF ~Over(r, held + extra) THEN "launch"
                        ELSE IF hot THEN "preempt" ELSE "recheck")
             /\ Trusts(r, held = Held(resident) /\ extra = lms)
    /\ InPlace

Preempt(r) == Unload(r, "preempt", "recheck")

Recheck(r) ==
    /\ load[r].pc = "recheck"
    /\ \E held \in Probes(Held(resident)) :
         /\ Goto(r, IF Over(r, held) THEN "stop" ELSE "refit")
         /\ Trusts(r, held = Held(resident))
    /\ InPlace

\* ollama_stop_all, and the wait for the models to be gone, or not.
StopOllama(r) ==
    /\ load[r].pc = "stop"
    /\ resident' \in SUBSET resident
    /\ Goto(r, "refit")
    /\ Interferes(r)
    /\ UNCHANGED <<Disk, lms, mlx>>

RefitUnchecked(r) ==
    /\ load[r].pc = "refit"
    /\ Goto(r, "launch")
    /\ InPlace
    /\ UNCHANGED alone

Refit(r) ==
    /\ load[r].pc = "refit"
    /\ \E held \in Probes(Held(resident)) :
         /\ Goto(r, IF Over(r, held) THEN "refused" ELSE "launch")
         /\ Trusts(r, held = Held(resident))
    /\ InPlace

\* The old server is stopped and the new one launched, or is the same.
Launch(r) ==
    /\ load[r].pc = "launch"
    /\ \/ mlx' = load[r].model /\ Goto(r, "done")
       \/ mlx' = None /\ Goto(r, "refused")
    /\ Interferes(r)
    /\ UNCHANGED <<Disk, resident, lms>>
-----------------------------------------------------------------------------
\* The user loads models into LM Studio or unloads them.
LmsChanges ==
    /\ Active # {}
    /\ lms' \in Footprints \ {lms}
    /\ alone' = {}
    /\ UNCHANGED <<Disk, resident, mlx, load>>

Step(r) == \/ Check(r) \/ UnloadLms(r) \/ Prepare(r) \/ Pulled(r) \/ PullFails(r)
           \/ Serve(r) \/ Lock(r) \/ Measure(r) \/ Preempt(r) \/ Recheck(r)
           \/ StopOllama(r) \/ Refit(r) \/ Launch(r)

AllEnded == (\A r \in Loads : load[r].pc \in Ended) /\ UNCHANGED vars

Next == (\E r \in Loads : Step(r)) \/ LmsChanges \/ AllEnded

Spec == Init /\ [][Next]_vars
-----------------------------------------------------------------------------
\* What the variables may hold.
TypeOK ==
    /\ free \in Nat
    /\ resident \subseteq present /\ present \subseteq Ollama
    /\ lms \in Footprints \cup {0}
    /\ mlx \in Mlx \cup {None}
    /\ load \in [Loads -> [pc : Places, model : Ollama \cup Mlx \cup {None}]]
    /\ alone \subseteq Loads
    /\ \A q, r \in Loads : {load[q].pc, load[r].pc} \subseteq Locked => q = r

\* The pull on demand keeps the disk's headroom (preflight.py:205), unless the
\* disk was measured for one pull while another was still downloading: then
\* each has counted the same free space.
HeadroomKept == free >= Headroom \/ overlapped

\* A model known to be larger than the whole budget is never loaded, in any
\* runtime, by any order of loads, evictions and failed probes.
NothingOversized ==
    \A m \in (resident \cup {mlx}) \cap Sized : Size[m] <= Budget

\* A load that nothing disturbed ends within the budget: an Ollama model beside
\* LM Studio, an MLX model beside both.  An Ollama model that does not fit beside
\* what the daemon holds finds LM Studio gone, and the rest is the daemon's
\* (capacity.py:41).  Undisturbed is a load that no other load and no user ran
\* into, whose probes told the truth, whose model has a known size and for which
\* LM Studio unloaded when told to.  A resident MLX server is not counted when an
\* Ollama model is loaded (capacity.py:47).
LoadFits ==
    [][\A r \in alone :
         load[r].pc # "done" /\ load'[r].pc = "done" =>
           LET m == load[r].model
           IN  IF m \in Mlx THEN Held(resident') + lms' + Size[m] <= Budget
               ELSE \/ m \in resident
                    \/ Held(resident') + lms' <= Budget
                    \/ Held(resident) + Size[m] > Budget /\ lms' = 0]_vars
====
