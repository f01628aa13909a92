---- MODULE Provision_proofs ----
(***************************************************************************)
(* For any models, sizes, budget, disk and loads: the types, that nothing  *)
(* known to be larger than the budget is in memory, that the pulls leave   *)
(* the disk its headroom (IInv), and that an undisturbed load ends within  *)
(* the budget (AInv).                                                      *)
(***************************************************************************)
EXTENDS Provision, FoldLemmas

\* A load that will use its model, past the checks of its size.
Admitted == {"unload", "prepare", "pull", "serve", "room", "preempt", "recheck",
             "stop", "refit", "launch"}

AdmittedFits ==
    \A r \in Loads : (load[r].pc \in Admitted /\ load[r].model \in Sized) =>
        Size[load[r].model] <= Budget

\* Which models a load of either kind is for.
RightBackend ==
    \A r \in Loads :
        /\ load[r].pc \in Locked => load[r].model \in Mlx
        /\ load[r].pc \in Admitted \ Locked => load[r].model \in Ollama

\* What is served next was found on the disk.
ServesPresent ==
    \A r \in Loads : load[r].pc = "serve" => load[r].model \in present

\* While no pull was measured during another, there is at most one, and what
\* it will take is still free beside the headroom.
OnePull ==
    overlapped \/ \A q, r \in Loads :
        load[q].pc = "pull" /\ load[r].pc = "pull" => q = r

PullLeavesRoom ==
    overlapped \/ \A r \in Loads :
        load[r].pc = "pull" => free - Size[load[r].model] >= Headroom

IInv == /\ TypeOK /\ RightBackend /\ ServesPresent /\ AdmittedFits
        /\ NothingOversized /\ OnePull /\ PullLeavesRoom /\ HeadroomKept

USE DEF Admitted, Locked, Ended, Places

-----------------------------------------------------------------------------
LEMMA InitIInv == Init => IInv
<1> SUFFICES ASSUME Init PROVE IInv
    OBVIOUS
<1> USE ProvisionAssumption DEF Init
<1>1. TypeOK
    BY DEF TypeOK
<1>2. /\ RightBackend /\ ServesPresent /\ AdmittedFits
      /\ OnePull /\ PullLeavesRoom
    BY DEF RightBackend, ServesPresent, AdmittedFits, OnePull, PullLeavesRoom
<1>3. NothingOversized
    BY DEF NothingOversized
<1>4. HeadroomKept
    BY DEF HeadroomKept
<1> QED BY <1>1, <1>2, <1>3, <1>4 DEF IInv

\* A step that leaves the disk and the memory alone keeps what is said of them.
LEMMA Goes ==
    ASSUME IInv, NEW r \in Loads, NEW place \in Places, Goto(r, place),
           place \in Admitted => /\ load[r].pc \in Admitted
                                 /\ load[r].pc \in Locked <=> place \in Locked,
           place = "pull" => load[r].pc = "pull",
           place = "serve" => load[r].model \in present',
           present \subseteq present'
    PROVE  /\ load' \in [Loads -> [pc : Places, model : Ollama \cup Mlx \cup {None}]]
           /\ \A q, p \in Loads : {load'[q].pc, load'[p].pc} \subseteq Locked => q = p
           /\ RightBackend' /\ ServesPresent' /\ AdmittedFits'
           /\ \A q \in Loads : load'[q].pc = "pull" => /\ load[q].pc = "pull"
                                                       /\ load'[q] = load[q]
<1>1. load' \in [Loads -> [pc : Places, model : Ollama \cup Mlx \cup {None}]]
    BY DEF IInv, TypeOK, Goto
<1>2. /\ load'[r].pc = place /\ load'[r].model = load[r].model
      /\ \A q \in Loads \ {r} : load'[q] = load[q]
    BY DEF IInv, TypeOK, Goto
<1>3. \A q, p \in Loads : {load'[q].pc, load'[p].pc} \subseteq Locked => q = p
    BY <1>2 DEF IInv, TypeOK
<1>4. RightBackend'
    BY <1>2 DEF IInv, RightBackend
<1>5. AdmittedFits'
    BY <1>2 DEF IInv, AdmittedFits
<1>6. \A q \in Loads : load'[q].pc = "pull" => /\ load[q].pc = "pull"
                                               /\ load'[q] = load[q]
    BY <1>2, ProvisionAssumption DEF IInv, TypeOK, Goto
<1>7. ServesPresent'
    BY <1>2 DEF IInv, ServesPresent
<1> QED BY <1>1, <1>3, <1>4, <1>5, <1>6, <1>7

\* Begins at a place, for a model that fits there.
LEMMA Begins ==
    ASSUME IInv, NEW r \in Loads, NEW m \in Ollama \cup Mlx,
           NEW place \in {"refused", "prepare", "unload", "room"},
           load' = [load EXCEPT ![r] = [pc |-> place, model |-> m]],
           place # "refused" => /\ m \in Sized => Size[m] <= Budget
                                /\ place = "room" <=> m \in Mlx,
           place = "room" => \A q \in Loads : load[q].pc \notin Locked,
           InPlace, alone' \subseteq Loads
    PROVE  IInv'
<1> USE ProvisionAssumption
<1>1. /\ load'[r] = [pc |-> place, model |-> m]
      /\ \A q \in Loads \ {r} : load'[q] = load[q]
    BY DEF IInv, TypeOK
<1>2. load' \in [Loads -> [pc : Places, model : Ollama \cup Mlx \cup {None}]]
    BY DEF IInv, TypeOK
<1>3. \A q, p \in Loads : {load'[q].pc, load'[p].pc} \subseteq Locked => q = p
    BY <1>1 DEF IInv, TypeOK
<1>4. TypeOK'
    BY <1>2, <1>3 DEF IInv, TypeOK, InPlace
<1>5. RightBackend' /\ ServesPresent'
    BY <1>1 DEF IInv, RightBackend, ServesPresent, InPlace
<1>6. AdmittedFits'
    BY <1>1 DEF IInv, AdmittedFits
<1>7. NothingOversized' /\ HeadroomKept'
    BY DEF IInv, NothingOversized, HeadroomKept, InPlace
<1>8. OnePull'
    BY <1>1 DEF IInv, OnePull, InPlace
<1>9. PullLeavesRoom'
    BY <1>1 DEF IInv, PullLeavesRoom, InPlace
<1> QED BY <1>4, <1>5, <1>6, <1>7, <1>8, <1>9 DEF IInv

\* A step that changes neither the disk nor which pulls are on, and puts only
\* what fits into memory.
LEMMA Moves ==
    ASSUME IInv, NEW r \in Loads, NEW place \in Places, Goto(r, place),
           place \in Admitted => /\ load[r].pc \in Admitted
                                 /\ load[r].pc \in Locked <=> place \in Locked,
           place # "pull", place = "serve" => load[r].model \in present,
           UNCHANGED Disk,
           resident' \subseteq present,
           \A m \in resident' \cap Sized : m \in resident \/ Size[m] <= Budget,
           mlx' \in Mlx \cup {None},
           mlx' = mlx \/ (mlx' \in Sized => Size[mlx'] <= Budget),
           lms' \in Footprints \cup {0},
           alone' \subseteq Loads
    PROVE  IInv'
<1> USE ProvisionAssumption
<1> DEFINE Kept(q) == load'[q].pc = "pull" => load[q].pc = "pull" /\ load'[q] = load[q]
<1>1. /\ load' \in [Loads -> [pc : Places, model : Ollama \cup Mlx \cup {None}]]
      /\ \A q, p \in Loads : {load'[q].pc, load'[p].pc} \subseteq Locked => q = p
      /\ RightBackend' /\ ServesPresent' /\ AdmittedFits'
      /\ \A q \in Loads : Kept(q)
    BY Goes DEF Disk
<1> HIDE DEF Kept
<1>2. TypeOK'
    BY <1>1 DEF IInv, TypeOK, Disk
<1>3. NothingOversized'
    BY DEF IInv, NothingOversized
<1>4. HeadroomKept'
    BY DEF IInv, HeadroomKept, Disk
<1>5. OnePull'
    BY <1>1 DEF IInv, OnePull, Disk, Kept
<1>6. PullLeavesRoom'
    BY <1>1 DEF IInv, PullLeavesRoom, Disk, Kept
<1> QED BY <1>1, <1>2, <1>3, <1>4, <1>5, <1>6 DEF IInv
-----------------------------------------------------------------------------
\* A model that is not refused is in memory already, or not known to be too big.
LEMMA DecisionFits ==
    ASSUME NEW m \in Ollama \cup Mlx, NEW warm \in BOOLEAN, NEW held,
           NEW hot \in BOOLEAN, NEW lmsHeld, m \in Sized,
           Decision(m, warm, held, hot, lmsHeld) # "503"
    PROVE  warm \/ Size[m] <= Budget
  BY ProvisionAssumption DEF Decision, Needed

LEMMA CheckIInv == ASSUME IInv, NEW r \in Loads, Check(r) PROVE IInv'
<1> USE ProvisionAssumption
<1>1. PICK m \in Ollama : \E warm, hot \in BOOLEAN,
        held \in Probes(Held(resident)), lmsHeld \in Probes(lms) :
          /\ warm => m \in resident
          /\ load' = [load EXCEPT ![r] =
                 [pc |-> After(Decision(m, warm, held, hot, lmsHeld)), model |-> m]]
    BY DEF Check
<1>2. PICK warm, hot \in BOOLEAN, held \in Probes(Held(resident)), lmsHeld \in Probes(lms) :
        /\ warm => m \in resident
        /\ load' = [load EXCEPT ![r] =
               [pc |-> After(Decision(m, warm, held, hot, lmsHeld)), model |-> m]]
    BY <1>1
<1> DEFINE decision == Decision(m, warm, held, hot, lmsHeld)
<1>3. decision # "503" /\ m \in Sized => Size[m] <= Budget
    BY <1>2, DecisionFits DEF IInv, NothingOversized
<1>4. /\ After(decision) \in {"refused", "prepare", "unload"}
      /\ After(decision) # "refused" => decision # "503"
    BY DEF After
<1>5. InPlace /\ alone' \subseteq Loads
    BY DEF Check
<1> HIDE DEF decision
<1>6. load' = [load EXCEPT ![r] = [pc |-> After(decision), model |-> m]]
    BY <1>2 DEF decision
<1> QED BY <1>3, <1>4, <1>5, <1>6, Begins

LEMMA LockIInv == ASSUME IInv, NEW r \in Loads, Lock(r) PROVE IInv'
<1> USE ProvisionAssumption
<1>1. PICK m \in Mlx :
        /\ load' = [load EXCEPT ![r] =
             [pc |-> IF Needed(m) > Budget THEN "refused" ELSE "room", model |-> m]]
        /\ alone' \in {{r}, {}}
    BY DEF Lock
<1> DEFINE place == IF Needed(m) > Budget THEN "refused" ELSE "room"
<1>2. place # "refused" /\ m \in Sized => Size[m] <= Budget
    BY DEF Needed
<1>3. place \in {"refused", "prepare", "unload", "room"} /\ place \in {"refused", "room"}
    OBVIOUS
<1>4. load' = [load EXCEPT ![r] = [pc |-> place, model |-> m]]
    BY <1>1
<1>5. /\ \A q \in Loads : load[q].pc \notin Locked
      /\ InPlace /\ alone' \subseteq Loads
    BY <1>1 DEF Lock
<1> HIDE DEF place
<1> QED BY <1>2, <1>3, <1>4, <1>5, Begins

LEMMA UnloadIInv ==
    ASSUME IInv, NEW r \in Loads, UnloadLms(r) \/ Preempt(r) PROVE IInv'
<1> USE ProvisionAssumption DEF IInv, TypeOK, NothingOversized, Disk
<1>1. CASE UnloadLms(r)
    BY <1>1, Moves DEF UnloadLms, Unload
<1>2. CASE Preempt(r)
    BY <1>2, Moves DEF Preempt, Unload
<1> QED BY <1>1, <1>2

LEMMA PrepareIInv == ASSUME IInv, NEW r \in Loads, Prepare(r) PROVE IInv'
<1> USE ProvisionAssumption
<1> DEFINE m == load[r].model
<1>1. /\ load[r].pc = "prepare" /\ m \in Ollama
      /\ UNCHANGED <<free, present, resident, lms, mlx, alone>>
    BY DEF Prepare, IInv, RightBackend
<1>2. CASE /\ Goto(r, "refused") \/ (Goto(r, "serve") /\ m \in present)
           /\ UNCHANGED overlapped
    BY <1>1, <1>2, Moves DEF IInv, TypeOK, NothingOversized, Disk
<1>3. CASE /\ Goto(r, "pull") /\ Fits(m, free)
           /\ overlapped' = (overlapped \/ \E q \in Loads : load[q].pc = "pull")
    <2>1. /\ load'[r].pc = "pull" /\ load'[r].model = m
          /\ \A q \in Loads \ {r} : load'[q] = load[q]
          /\ load' \in [Loads -> [pc : Places, model : Ollama \cup Mlx \cup {None}]]
        BY <1>1, <1>3 DEF IInv, TypeOK, Goto
    <2>2. TypeOK'
        BY <1>1, <2>1 DEF IInv, TypeOK
    <2>3. RightBackend' /\ ServesPresent' /\ NothingOversized'
        BY <1>1, <2>1 DEF IInv, RightBackend, ServesPresent, NothingOversized
    <2>4. AdmittedFits'
        BY <1>1, <2>1 DEF IInv, AdmittedFits
    <2>5. OnePull'
        BY <1>3, <2>1 DEF IInv, OnePull
    <2>6. free - Size[m] >= Headroom
        BY <1>3 DEF Fits
    <2>7. PullLeavesRoom'
        BY <1>1, <1>3, <2>1, <2>6 DEF IInv, PullLeavesRoom
    <2>8. HeadroomKept'
        BY <1>1, <1>3 DEF IInv, HeadroomKept
    <2> QED BY <2>2, <2>3, <2>4, <2>5, <2>7, <2>8 DEF IInv
<1> QED BY <1>2, <1>3 DEF Prepare

\* The one step that takes from the disk.
LEMMA PulledIInv == ASSUME IInv, NEW r \in Loads, Pulled(r) PROVE IInv'
<1> USE ProvisionAssumption
<1> DEFINE m == load[r].model
           room == IF m \in present THEN 0 ELSE Size[m]
<1>1. PICK place \in {"serve", "refused"} : Goto(r, place)
    BY DEF Pulled
<1>2. /\ load[r].pc = "pull" /\ m \in Ollama
      /\ free >= room /\ free' = free - room /\ present' = present \cup {m}
      /\ UNCHANGED <<resident, lms, mlx, alone, overlapped>>
    BY DEF Pulled, Memory, IInv, RightBackend
<1>3. room \in Nat
    BY <1>2
<1>4. /\ load' \in [Loads -> [pc : Places, model : Ollama \cup Mlx \cup {None}]]
      /\ \A q, p \in Loads : {load'[q].pc, load'[p].pc} \subseteq Locked => q = p
      /\ RightBackend' /\ ServesPresent' /\ AdmittedFits'
      /\ \A q \in Loads : load'[q].pc = "pull" => /\ load[q].pc = "pull"
                                                  /\ load'[q] = load[q]
    BY <1>1, <1>2, Goes
<1>5. load'[r].pc # "pull"
    BY <1>1 DEF IInv, TypeOK, Goto
<1>6. TypeOK'
    BY <1>2, <1>3, <1>4 DEF IInv, TypeOK
<1>7. NothingOversized'
    BY <1>2 DEF IInv, NothingOversized
<1>8. OnePull'
    BY <1>2, <1>4 DEF IInv, OnePull
<1>9. PullLeavesRoom'
    BY <1>2, <1>4, <1>5 DEF IInv, PullLeavesRoom, OnePull
<1>10. HeadroomKept'
    <2>1. ~overlapped => free - Size[m] >= Headroom /\ free >= Headroom
        BY <1>2 DEF IInv, HeadroomKept, PullLeavesRoom
    <2> QED BY <1>2, <2>1 DEF IInv, TypeOK, HeadroomKept
<1> QED BY <1>4, <1>6, <1>7, <1>8, <1>9, <1>10 DEF IInv

LEMMA ServeIInv == ASSUME IInv, NEW r \in Loads, Serve(r) PROVE IInv'
<1> USE ProvisionAssumption
<1>1. /\ load[r].model \in present
      /\ load[r].model \in Sized => Size[load[r].model] <= Budget
    BY DEF Serve, IInv, ServesPresent, AdmittedFits
<1>2. resident' \subseteq resident \cup {load[r].model}
    BY DEF Serve
<1> QED BY <1>1, <1>2, Moves
        DEF Serve, Interferes, IInv, TypeOK, NothingOversized, Disk

\* The steps of an MLX load, and a pull that fails.
LEMMA RestIInv ==
    ASSUME IInv, NEW r \in Loads,
           \/ PullFails(r) \/ Measure(r) \/ Recheck(r) \/ StopOllama(r)
           \/ Refit(r) \/ Launch(r)
    PROVE  IInv'
<1> USE ProvisionAssumption DEF IInv, TypeOK, NothingOversized, Disk
<1>1. CASE PullFails(r)
    BY <1>1, Moves DEF PullFails, InPlace
<1>2. CASE Measure(r)
    <2>1. PICK place \in {"launch", "preempt", "recheck"} : Goto(r, place)
        BY <1>2 DEF Measure
    <2> QED BY <1>2, <2>1, Moves DEF Measure, InPlace, Trusts
<1>3. CASE Recheck(r)
    <2>1. PICK place \in {"stop", "refit"} : Goto(r, place)
        BY <1>3 DEF Recheck
    <2> QED BY <1>3, <2>1, Moves DEF Recheck, InPlace, Trusts
<1>4. CASE StopOllama(r)
    BY <1>4, Moves DEF StopOllama, Interferes
<1>5. CASE Refit(r)
    <2>1. PICK place \in {"refused", "launch"} : Goto(r, place)
        BY <1>5 DEF Refit
    <2> QED BY <1>5, <2>1, Moves DEF Refit, InPlace, Trusts
<1>6. CASE Launch(r)
    <2>1. PICK place \in {"done", "refused"} : Goto(r, place)
        BY <1>6 DEF Launch
    <2>2. /\ mlx' \in {None, load[r].model} /\ load[r].model \in Mlx
          /\ load[r].model \in Sized => Size[load[r].model] <= Budget
        BY <1>6 DEF Launch, RightBackend, AdmittedFits
    <2> QED BY <1>6, <2>1, <2>2, Moves DEF Launch, Interferes
<1> QED BY <1>1, <1>2, <1>3, <1>4, <1>5, <1>6

LEMMA NextIInv == IInv /\ [Next]_vars => IInv'
<1> SUFFICES ASSUME IInv, [Next]_vars PROVE IInv'
    OBVIOUS
<1>1. CASE UNCHANGED vars
    BY <1>1 DEF vars, IInv, TypeOK, RightBackend, ServesPresent, AdmittedFits,
                NothingOversized, OnePull, PullLeavesRoom, HeadroomKept
<1>2. ASSUME NEW r \in Loads, Step(r) PROVE IInv'
    BY <1>2, CheckIInv, UnloadIInv, PrepareIInv, PulledIInv, ServeIInv, LockIInv,
       RestIInv DEF Step
<1>3. CASE LmsChanges
    BY <1>3 DEF LmsChanges, Disk, IInv, TypeOK, RightBackend, ServesPresent,
                AdmittedFits, NothingOversized, OnePull, PullLeavesRoom, HeadroomKept
<1> QED BY <1>1, <1>2, <1>3 DEF Next, AllEnded

\* The inductive invariant holds in every reachable state.
THEOREM Invariance == Spec => []IInv
BY InitIInv, NextIInv, PTL DEF Spec

\* Types, and that one load at a time is inside the MLX lifecycle's lock.
THEOREM TypeCorrect == Spec => []TypeOK
<1>1. IInv => TypeOK
    BY DEF IInv
<1> QED BY Invariance, <1>1, PTL

\* No model known to be larger than the RAM budget is ever in memory, by any
\* order of loads, pulls and evictions and whatever the probes say
\* (capacity.py:48, currency.py:231).
THEOREM OversizedKeptOut == Spec => []NothingOversized
<1>1. IInv => NothingOversized
    BY DEF IInv
<1> QED BY Invariance, <1>1, PTL

\* Pulls leave the disk its headroom while none was measured during another
\* (preflight.py:205).
THEOREM Headroomed == Spec => []HeadroomKept
<1>1. IInv => HeadroomKept
    BY DEF IInv
<1> QED BY Invariance, <1>1, PTL
-----------------------------------------------------------------------------
(***************************************************************************)
(* The budget.                                                             *)
(***************************************************************************)

\* What an undisturbed load knows at each place: that LM Studio is out of the
\* way, or that there is room for its model beside what is loaded.
Beside(r) == Held(resident) + lms + Size[load[r].model] <= Budget

Knows(r) ==
    /\ load[r].pc # "idle"
    /\ load[r].pc \notin Ended => load[r].model \in Sized
    /\ load[r].pc \in {"prepare", "pull", "serve"} =>
         load[r].model \in resident \/ lms = 0 \/ Beside(r)
    /\ load[r].pc \in {"recheck", "stop", "refit"} => lms = 0
    /\ load[r].pc = "launch" => Beside(r)

\* It is the only one.
AInv == \A r \in alone : Knows(r) /\ Active \subseteq {r} /\ alone = {r}

\* The sum of sizes.
LEMMA HeldIsTotal ==
    ASSUME NEW S \in SUBSET Ollama
    PROVE  /\ Held(S) \in Nat
           /\ \A T \in SUBSET S : Held(T) <= Held(S)
           /\ \A m \in Ollama \ S : Held(S \cup {m}) = Size[m] + Held(S)
<1>1. \A T : Held(T) = Total(Size, T)
    BY DEF Held, Total
<1>2. IsFiniteSet(S) /\ \A x \in Ollama : Size[x] \in Nat
    BY ProvisionAssumption, FS_Subset
<1>3. Held(S) \in Nat
    BY <1>1, <1>2, TotalIsNat
<1>4. ASSUME NEW T \in SUBSET S PROVE Held(T) <= Held(S)
    BY <1>1, <1>2, TotalGrows
<1>5. ASSUME NEW m \in Ollama \ S PROVE Held(S \cup {m}) = Size[m] + Held(S)
    <2>1. IsFiniteSet(S \cup {m}) /\ m \in S \cup {m} /\ (S \cup {m}) \ {m} = S
        BY <1>2, FS_AddElement
    <2>2. \A x \in S \cup {m} : Size[x] \in Nat
        BY <1>2
    <2> QED BY <1>1, <2>1, <2>2, TotalOfOneMore
<1> QED BY <1>3, <1>4, <1>5

LEMMA SizesAreNat ==
    ASSUME IInv
    PROVE  /\ Held(resident) \in Nat /\ lms \in Nat /\ Budget \in Nat
           /\ \A m \in Ollama \cup Mlx : Size[m] \in Nat \ {0}
<1>1. resident \in SUBSET Ollama /\ lms \in Footprints \cup {0}
    BY DEF IInv, TypeOK
<1> QED BY <1>1, HeldIsTotal, ProvisionAssumption

\* A load moves that nobody else is beside, or that disturbs the others.
LEMMA Alone ==
    ASSUME IInv, AInv, NEW r \in Loads,
           \A q \in Loads \ {r} : load'[q] = load[q],
           alone' \subseteq {r} \/ (alone' \subseteq alone /\ load[r].pc \in Admitted),
           r \in alone' => Active \subseteq {r} /\ Knows(r)'
    PROVE  AInv'
<1>1. ASSUME NEW q \in alone', q # r PROVE FALSE
    <2>1. q \in alone /\ load[r].pc \in Admitted
        BY <1>1
    <2>2. r \in Active /\ Active \subseteq {q}
        BY <2>1 DEF AInv, Active
    <2> QED BY <1>1, <2>2
<1>2. r \in alone' => Active' \subseteq {r}
    BY DEF Active
<1> QED BY <1>1, <1>2 DEF AInv

LEMMA InitAInv == Init => AInv
  BY DEF Init, AInv

LEMMA Moved ==
    ASSUME IInv, NEW r \in Loads, NEW place, Goto(r, place)
    PROVE  /\ load'[r].pc = place /\ load'[r].model = load[r].model
           /\ \A q \in Loads \ {r} : load'[q] = load[q]
  BY DEF IInv, TypeOK, Goto

LEMMA CheckAInv == ASSUME IInv, AInv, NEW r \in Loads, Check(r) PROVE AInv'
<1> USE ProvisionAssumption
<1>1. PICK m \in Ollama :
         \E warm, hot \in BOOLEAN,
            held \in Probes(Held(resident)), lmsHeld \in Probes(lms) :
           LET decision == Decision(m, warm, held, hot, lmsHeld)
           IN  /\ warm => m \in resident
               /\ hot => lms > 0
               /\ load' = [load EXCEPT ![r] = [pc |-> After(decision), model |-> m]]
               /\ alone' = IF /\ Active = {} /\ m \in Sized
                              /\ <<warm, held, hot, lmsHeld>>
                                   = <<m \in resident, Held(resident), lms > 0, lms>>
                           THEN {r} ELSE {}
    BY Zenon DEF Check
<1>2. PICK warm, hot \in BOOLEAN,
           held \in Probes(Held(resident)), lmsHeld \in Probes(lms) :
           LET decision == Decision(m, warm, held, hot, lmsHeld)
           IN  /\ warm => m \in resident
               /\ hot => lms > 0
               /\ load' = [load EXCEPT ![r] = [pc |-> After(decision), model |-> m]]
               /\ alone' = IF /\ Active = {} /\ m \in Sized
                              /\ <<warm, held, hot, lmsHeld>>
                                   = <<m \in resident, Held(resident), lms > 0, lms>>
                           THEN {r} ELSE {}
    BY <1>1, Zenon
<1> DEFINE decision == Decision(m, warm, held, hot, lmsHeld)
<1>3. /\ load'[r] = [pc |-> After(decision), model |-> m]
      /\ \A q \in Loads \ {r} : load'[q] = load[q]
    BY <1>2 DEF IInv, TypeOK
<1>4. UNCHANGED <<resident, lms>>
    BY DEF Check, InPlace
<1>5. ASSUME r \in alone' PROVE Active \subseteq {r} /\ Knows(r)'
    <2>1. /\ Active = {} /\ m \in Sized /\ warm = (m \in resident)
          /\ held = Held(resident) /\ hot = (lms > 0) /\ lmsHeld = lms
        BY <1>2, <1>5
    <2>2. After(decision) \in {"refused", "prepare", "unload"}
        BY DEF After
    <2>3. After(decision) = "prepare" => decision = "ok"
        BY DEF After, Decision
    <2>4. decision = "ok" => m \in resident \/ lms = 0 \/ Held(resident) + lms + Size[m] <= Budget
        <3> DEFINE a == Held(resident)
                   s == Size[m]
        <3>1. a \in Nat /\ lms \in Nat /\ Budget \in Nat /\ s \in Nat /\ s # 0
            BY SizesAreNat
        <3>2. decision = Decision(m, m \in resident, a, lms > 0, lms) /\ Needed(m) = s
            BY <2>1 DEF Needed
        <3> HIDE DEF a, s, decision
        <3>3. decision = "ok" /\ m \notin resident /\ lms # 0 => ~(s + a + lms > Budget)
            BY <3>1, <3>2 DEF Decision
        <3>4. ~(s + a + lms > Budget) => a + lms + s <= Budget
            BY <3>1
        <3> QED BY <3>3, <3>4 DEF a, s
    <2> HIDE DEF decision
    <2> QED BY <1>3, <1>4, <2>1, <2>2, <2>3, <2>4 DEF Knows, Beside
<1> QED BY <1>2, <1>3, <1>5, Alone

LEMMA LockAInv == ASSUME IInv, AInv, NEW r \in Loads, Lock(r) PROVE AInv'
<1>1. PICK m \in Mlx :
        /\ load' = [load EXCEPT ![r] =
             [pc |-> IF Needed(m) > Budget THEN "refused" ELSE "room", model |-> m]]
        /\ alone' = IF Active = {} /\ m \in Sized THEN {r} ELSE {}
    BY DEF Lock
<1>2. /\ load'[r].model = m /\ load'[r].pc \in {"refused", "room"}
      /\ \A q \in Loads \ {r} : load'[q] = load[q]
    BY <1>1 DEF IInv, TypeOK
<1>3. r \in alone' => Active \subseteq {r} /\ Knows(r)'
    BY <1>1, <1>2 DEF Knows
<1> QED BY <1>1, <1>2, <1>3, Alone

LEMMA UnloadAInv ==
    ASSUME IInv, AInv, NEW r \in Loads, UnloadLms(r) \/ Preempt(r) PROVE AInv'
<1>1. PICK to \in {"prepare", "recheck"} : Goto(r, to)
    BY DEF UnloadLms, Preempt, Unload
<1>2. /\ load[r].pc \in {"unload", "preempt"} /\ lms' \in {0, lms}
      /\ alone' = IF lms' = 0 THEN alone \cap {r} ELSE alone \ {r}
    BY DEF UnloadLms, Preempt, Unload
<1>3. r \in alone' => Active \subseteq {r} /\ Knows(r)'
    BY <1>1, <1>2, Moved DEF AInv, Knows
<1> QED BY <1>1, <1>2, <1>3, Moved, Alone

LEMMA PrepareAInv ==
    ASSUME IInv, AInv, NEW r \in Loads, Prepare(r) \/ Pulled(r) \/ PullFails(r)
    PROVE  AInv'
<1>1. PICK to \in {"serve", "pull", "refused"} : Goto(r, to)
    BY DEF Prepare, Pulled, PullFails
<1>2. /\ load[r].pc \in {"prepare", "pull"} /\ UNCHANGED <<resident, lms, alone>>
    BY DEF Prepare, Pulled, PullFails, InPlace, Memory
<1>3. r \in alone' => Active \subseteq {r} /\ Knows(r)'
    BY <1>1, <1>2, Moved DEF AInv, Knows, Beside
<1> QED BY <1>1, <1>2, <1>3, Moved, Alone

LEMMA MlxAInv ==
    ASSUME IInv, AInv, NEW r \in Loads,
           Measure(r) \/ Recheck(r) \/ StopOllama(r) \/ Refit(r)
    PROVE  AInv'
<1> USE ProvisionAssumption
<1> DEFINE m == load[r].model
<1>1. /\ load[r].pc \in {"room", "recheck", "stop", "refit"} /\ lms' = lms
      /\ m \in Mlx
    BY DEF Measure, Recheck, StopOllama, Refit, InPlace, IInv, RightBackend
<1>2. r \in alone => m \in Sized /\ Needed(m) = Size[m]
    BY <1>1 DEF AInv, Knows, Needed
<1>3. CASE Measure(r)
    <2>1. PICK hot \in BOOLEAN, held \in Probes(Held(resident)), lmsHeld \in Probes(lms) :
            LET extra == IF hot THEN lmsHeld ELSE 0
            IN  /\ Goto(r, IF ~Over(r, held + extra) THEN "launch"
                           ELSE IF hot THEN "preempt" ELSE "recheck")
                /\ Trusts(r, held = Held(resident) /\ extra = lms)
        BY <1>3 DEF Measure
    <2> DEFINE extra == IF hot THEN lmsHeld ELSE 0
               place == IF ~Over(r, held + extra) THEN "launch"
                        ELSE IF hot THEN "preempt" ELSE "recheck"
    <2>2. /\ Goto(r, place) /\ alone' \subseteq alone
          /\ r \in alone' => held = Held(resident) /\ extra = lms
        BY <2>1 DEF Trusts
    <2>3. ASSUME r \in alone'
          PROVE  /\ place \in {"launch", "preempt", "recheck"}
                 /\ place = "recheck" => lms = 0
                 /\ place = "launch" => Beside(r)
        BY <1>1, <1>2, <2>2, <2>3, SizesAreNat DEF Over, Beside
    <2> HIDE DEF place, extra
    <2>4. r \in alone' => Active \subseteq {r} /\ Knows(r)'
        BY <1>1, <1>2, <1>3, <2>2, <2>3, Moved DEF AInv, Knows, Beside, Measure, InPlace
    <2> QED BY <1>1, <2>2, <2>4, Moved, Alone
<1>4. CASE Recheck(r)
    <2>1. PICK place \in {"stop", "refit"} : Goto(r, place)
        BY <1>4 DEF Recheck
    <2>2. alone' \subseteq alone
        BY <1>4 DEF Recheck, Trusts
    <2>3. r \in alone' => Active \subseteq {r} /\ Knows(r)'
        BY <1>1, <1>2, <1>4, <2>1, <2>2, Moved DEF AInv, Knows, Recheck
    <2> QED BY <1>1, <2>1, <2>2, <2>3, Moved, Alone
<1>5. CASE StopOllama(r)
    <2>1. Goto(r, "refit") /\ alone' = alone \cap {r} /\ load[r].pc = "stop"
        BY <1>5 DEF StopOllama, Interferes
    <2>2. r \in alone' => Active \subseteq {r} /\ Knows(r)'
        BY <1>1, <1>2, <2>1, Moved DEF AInv, Knows
    <2> QED BY <2>1, <2>2, Moved, Alone
<1>6. CASE Refit(r)
    <2>1. PICK held \in Probes(Held(resident)) :
            /\ Goto(r, IF Over(r, held) THEN "refused" ELSE "launch")
            /\ Trusts(r, held = Held(resident))
        BY <1>6 DEF Refit
    <2> DEFINE place == IF Over(r, held) THEN "refused" ELSE "launch"
    <2>2. /\ Goto(r, place) /\ alone' \subseteq alone
          /\ r \in alone' => held = Held(resident)
        BY <2>1 DEF Trusts
    <2>3. load[r].pc = "refit" /\ UNCHANGED <<resident, lms>>
        BY <1>6 DEF Refit, InPlace
    <2>4. ASSUME r \in alone'
          PROVE  place \in {"refused", "launch"} /\ (place = "launch" => Beside(r))
        <3>1. lms = 0
            BY <2>2, <2>3, <2>4 DEF AInv, Knows
        <3> QED BY <1>1, <1>2, <2>2, <2>4, <3>1, SizesAreNat DEF Over, Beside
    <2> HIDE DEF place
    <2>5. r \in alone' => Active \subseteq {r} /\ Knows(r)'
        BY <1>1, <1>2, <2>2, <2>3, <2>4, Moved DEF AInv, Knows, Beside
    <2> QED BY <1>1, <2>2, <2>5, Moved, Alone
<1> QED BY <1>3, <1>4, <1>5, <1>6

LEMMA EndAInv ==
    ASSUME IInv, AInv, NEW r \in Loads, Serve(r) \/ Launch(r) PROVE AInv'
<1>1. PICK to \in {"done", "refused"} : Goto(r, to)
    BY DEF Serve, Launch
<1>2. alone' = alone \cap {r} /\ load[r].pc \in {"serve", "launch"}
    BY DEF Serve, Launch, Interferes
<1>3. r \in alone' => Active \subseteq {r} /\ Knows(r)'
    BY <1>1, <1>2, Moved DEF AInv, Knows
<1> QED BY <1>1, <1>2, <1>3, Moved, Alone

LEMMA NextAInv == IInv /\ AInv /\ [Next]_vars => AInv'
<1> SUFFICES ASSUME IInv, AInv, [Next]_vars PROVE AInv'
    OBVIOUS
<1>1. CASE UNCHANGED vars
    BY <1>1 DEF vars, AInv, Active, Knows, Beside
<1>2. ASSUME NEW r \in Loads, Step(r) PROVE AInv'
    BY <1>2, CheckAInv, LockAInv, UnloadAInv, PrepareAInv, MlxAInv, EndAInv DEF Step
<1>3. CASE LmsChanges
    BY <1>3 DEF LmsChanges, AInv
<1> QED BY <1>1, <1>2, <1>3 DEF Next, AllEnded

\* The Ollama daemon has the model it serves beside LM Studio, or alone.
LEMMA ServeFits ==
    ASSUME IInv, AInv, NEW r \in alone, r \in Loads, Serve(r),
           load[r].model \notin resident
    PROVE  \/ Held(resident') + lms' <= Budget
           \/ Held(resident) + Size[load[r].model] > Budget /\ lms' = 0
<1> DEFINE m == load[r].model
<1>1. /\ load[r].pc = "serve" /\ lms' = lms /\ m \in Ollama /\ resident \in SUBSET Ollama
      /\ lms = 0 \/ Held(resident) + lms + Size[m] <= Budget
    BY DEF Serve, IInv, TypeOK, RightBackend, AInv, Knows, Beside
<1>2. PICK S \in SUBSET resident : resident' = S \cup {m}
    BY DEF Serve
<1>3. /\ Held(resident) \in Nat /\ lms \in Nat /\ Budget \in Nat /\ Size[m] \in Nat
    BY <1>1, SizesAreNat
<1>4. resident \cup {m} \in SUBSET Ollama /\ resident' \in SUBSET (resident \cup {m})
    BY <1>1, <1>2
<1>5. /\ Held(resident') \in Nat /\ Held(resident') <= Held(resident \cup {m})
      /\ Held(resident \cup {m}) = Size[m] + Held(resident)
    BY <1>1, <1>4, HeldIsTotal
<1> HIDE DEF m
<1> QED BY <1>1, <1>3, <1>5 DEF m

\* A load's steps change no other load, and two of them end it.
LEMMA OnlyItsOwn ==
    ASSUME IInv, NEW q \in Loads, Step(q)
    PROVE  \A r \in Loads \ {q} : load'[r] = load[r]
<1>1. \E place : \/ Goto(q, place)
                 \/ \E m : load' = [load EXCEPT ![q] = [pc |-> place, model |-> m]]
    BY DEF Step, Check, UnloadLms, Unload, Prepare, Pulled, PullFails, Serve, Lock,
           Measure, Preempt, Recheck, StopOllama, Refit, Launch
<1> QED BY <1>1 DEF IInv, TypeOK, Goto

LEMMA EndsByServing ==
    ASSUME IInv, NEW r \in Loads, Step(r), load'[r].pc = "done", load[r].pc # "done"
    PROVE  Serve(r) \/ Launch(r)
<1>1. ~Check(r)
    <2>1. Check(r) => \E m : \E decision : load' = [load EXCEPT ![r] =
                                 [pc |-> After(decision), model |-> m]]
        BY DEF Check
    <2> QED BY <2>1 DEF IInv, TypeOK, After
<1>2. ~Lock(r)
    BY DEF Lock, IInv, TypeOK
<1>3. ~(UnloadLms(r) \/ Preempt(r) \/ Prepare(r) \/ Pulled(r) \/ PullFails(r)
        \/ Measure(r) \/ Recheck(r) \/ StopOllama(r) \/ Refit(r))
    <2>1. \A place \in Places : Goto(r, place) => place = "done"
        BY Moved
    <2> QED BY <2>1 DEF UnloadLms, Unload, Preempt, Prepare, Pulled, PullFails, Measure,
            Recheck, StopOllama, Refit
<1> QED BY <1>1, <1>2, <1>3 DEF Step

\* An undisturbed load ends within the budget (capacity.py:48, preflight.py:64), by
\* whatever order of unloading, pulling, stopping and launching it came there; an
\* Ollama model too large for what its daemon holds, with LM Studio out of the way.
THEOREM LoadsFit == Spec => LoadFits
<1>1. IInv /\ AInv /\ [Next]_vars =>
        [\A r \in alone :
           load[r].pc # "done" /\ load'[r].pc = "done" =>
             LET m == load[r].model
             IN  IF m \in Mlx THEN Held(resident') + lms' + Size[m] <= Budget
                 ELSE \/ m \in resident
                      \/ Held(resident') + lms' <= Budget
                      \/ Held(resident) + Size[m] > Budget /\ lms' = 0]_vars
    <2> SUFFICES ASSUME IInv, AInv, Next, NEW r \in alone,
                        load[r].pc # "done", load'[r].pc = "done"
                 PROVE  LET m == load[r].model
                        IN  IF m \in Mlx THEN Held(resident') + lms' + Size[m] <= Budget
                            ELSE \/ m \in resident
                                 \/ Held(resident') + lms' <= Budget
                                 \/ Held(resident) + Size[m] > Budget /\ lms' = 0
        OBVIOUS
    <2>1. r \in Loads /\ Active \subseteq {r}
        BY DEF IInv, TypeOK, AInv
    <2>2. Serve(r) \/ Launch(r)
        <3>1. PICK q \in Loads : Step(q)
            BY DEF Next, LmsChanges, AllEnded, vars
        <3>2. q = r
            BY <2>1, <3>1, OnlyItsOwn
        <3> QED BY <3>1, <3>2, EndsByServing
    <2>3. CASE Serve(r)
        BY <2>1, <2>3, ServeFits, ProvisionAssumption DEF IInv, RightBackend, Serve
    <2>4. CASE Launch(r)
        <3>1. mlx' = load[r].model \/ load'[r].pc = "refused"
            BY <2>1, <2>4, Moved DEF Launch
        <3> QED BY <2>1, <2>4, <3>1 DEF Launch, IInv, RightBackend, AInv, Knows, Beside
    <2> QED BY <2>2, <2>3, <2>4
<1> QED BY Invariance, InitAInv, NextAInv, <1>1, PTL DEF Spec, LoadFits
====
