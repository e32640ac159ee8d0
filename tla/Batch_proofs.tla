---------------------------- MODULE Batch_proofs ----------------------------
(***************************************************************************)
(* Theorems of Batch and of BatchRefinement for any number of items and     *)
(* workers, any arguments and any callbacks.  What the properties say of a  *)
(* call is not inductive; the parts of IInv say, beyond the types, where    *)
(* the threads can be (Places), which items they have taken (Claims), what  *)
(* the array holds meanwhile (Contents) and what the caller may conclude    *)
(* from the counters (Verdicts).                                            *)
(***************************************************************************)
EXTENDS BatchRefinement, FiniteSetTheorems, TLAPS

\* Between the announcement of a context and the decision to leave.
Active == Working \cup {"check", "ask", "claim", "count", "notify"}

\* Workers exist only while the caller spawns and joins them; a context belongs to a
\* thread that has made it and not yet freed it.
Places ==
    /\ pc[Caller] \notin {"unborn", "announce", "check", "stopping", "claim", "exited"}
    /\ \A w \in Workers :
        /\ pc[w] \notin {"validate", "alloc", "spawn", "returned"}
        /\ pc[w] # "unborn" <=> w \in spawned
    /\ spawned # {} => pc[Caller] \in {"spawn", "returned"} /\ idx[Caller] = 0
    /\ spawned = {} => next = 0
    /\ \A w \in spawned : w < slot
    /\ pc[Caller] \in {"validate", "alloc", "spawn", "create"} => idx[Caller] = 0
    /\ pc[Caller] = "validate" => slot = 1
    /\ \A a \in contexts : pc[a] \in Active \cup {"announce", "stopping", "free"}
    /\ Returned => \A w \in Workers : pc[w] \in {"unborn", "exited"}
    /\ Returned <=> result # "none"
    /\ pc[Caller] \in {"validate", "returned"} \/ args.n > 0

\* The items a thread can be working on.
InRange ==
    /\ idx[Caller] <= args.n
    /\ pc[Caller] = "count" => idx[Caller] < args.n
    /\ \A a \in Agents : pc[a] \in Working => idx[a] < args.n
    /\ \A w \in Workers : pc[w] \in Working => idx[w] < next

\* No two workers hold the same item.
Apart == \A v, w \in Workers :
            (v # w /\ pc[v] \in Working /\ pc[w] \in Working) => idx[v] # idx[w]

\* An item is started once, by the thread that took it: it lies below `next` or below
\* the sequential loop's counter, or the sequential loop has it in hand.
StartedOnce ==
    /\ \A i \in Items : starts[i] \in {0, 1}
    /\ \A i \in Items : starts[i] = 1 =>
          \/ i < next
          \/ i < idx[Caller]
          \/ pc[Caller] \in {"compute", "clear", "count"} /\ i = idx[Caller]
    /\ \A a \in Agents : pc[a] = "load" => starts[idx[a]] = 0
    /\ \A a \in Agents : pc[a] \in {"compute", "clear"} => starts[idx[a]] = 1

\* And no item below is skipped.
NoGap ==
    /\ \A i \in Items : i < idx[Caller] => starts[i] = 1
    /\ pc[Caller] = "count" => starts[idx[Caller]] = 1
    /\ \A i \in Items : (i < next /\ i < args.n) =>
          starts[i] = 1 \/ \E w \in Workers : pc[w] = "load" /\ idx[w] = i

Claims == InRange /\ Apart /\ StartedOnce /\ NoGap

\* As the caller passed it.
Pristine(i) == starts[i] = 0 /\ status[i] = "STALE" /\ hashes[i] = "stale"

\* What the reset, or the cancellation, leaves in an item that was not started.
Rest == IF result = "CANCELLED" THEN "CANCELLED" ELSE "ALLOCATION_FAILED"

\* Nothing past n is written, and nothing at all before the reset.
Spared ==
    /\ \A i \in Items : i \notin InCall => Pristine(i)
    /\ pc[Caller] = "validate" \/ result = "INVALID_ARGUMENT" => \A i \in Items : Pristine(i)

Unstarted ==
    pc[Caller] # "validate" /\ result # "INVALID_ARGUMENT" =>
        \A i \in InCall : starts[i] = 0 => Untouched(i, Rest)

Halfway ==
    /\ \A a \in Agents : pc[a] = "compute" => hashes[idx[a]] = "zero"
    /\ \A a \in Agents : pc[a] = "clear" => status[idx[a]] = ComputeError

\* What a finished item shows.
Agrees(i) ==
    /\ status[i] \notin {"STALE", "CANCELLED"}
    /\ hashes[i] = IF status[i] = "SUCCESS" THEN "real" ELSE "zero"

Settled == \A i \in Finished : Agrees(i)

Contents == Spared /\ Unstarted /\ Halfway /\ Settled

\* Nobody stops unless a callback refused.
Refusals ==
    /\ stop => refused
    /\ \A w \in Workers : pc[w] = "stopping" => refused
    /\ (pc[Caller] = "free" /\ idx[Caller] < args.n) => refused

\* While no context was announced, nothing was claimed; later somebody is still at
\* work unless there is a reason to have left.
Readiness ==
    /\ ready = 0 => /\ next = 0
                    /\ \A w \in Workers : pc[w] \in {"unborn", "create", "announce", "exited"}
    /\ ready > 0 => refused \/ next >= args.n \/ \E w \in Workers : pc[w] \in Active

\* What the result says of the items that were started.
Told ==
    /\ result = "SUCCESS" => \A i \in InCall : starts[i] = 1
    /\ result = "ALLOCATION_FAILED" => \A i \in InCall : starts[i] = 0
    /\ result = "CANCELLED" =>
          refused /\ \E k \in InCall : \A i \in InCall : starts[i] = 1 <=> i < k

Verdicts == Refusals /\ Readiness /\ Told

IInv == TypeOK /\ Places /\ Claims /\ Contents /\ Verdicts

-----------------------------------------------------------------------------
\* The caller is thread 0; the workers are the others.
LEMMA AgentFacts ==
    /\ Caller \in Agents /\ Caller \notin Workers
    /\ \A w \in Workers : w \in Agents /\ w # Caller
    /\ \A a \in Agents : a = Caller \/ a \in Workers
BY BatchAssumption DEF Caller, Agents, Workers

\* The items of a call are a prefix of the array, worked on by at least one thread.
LEMMA CallFacts ==
    ASSUME args \in Calls
    PROVE  /\ args.n \in Nat /\ args.n <= MaxItems
           /\ args.threads \in Int
           /\ nthreads \in Int /\ nthreads <= MaxThreads
           /\ \A i : i \in Items <=> i \in Nat /\ i < MaxItems
           /\ \A i : i \in InCall <=> i \in Nat /\ i < args.n
           /\ \A i \in InCall : i \in Items
<1> USE BatchAssumption DEF AllCalls
<1>1. args \in AllCalls
  OBVIOUS
<1>2. args.n \in 0..MaxItems /\ args.threads \in Int /\ args.threads <= MaxThreads
  BY <1>1
<1>3. nthreads \in Int /\ nthreads <= MaxThreads
  BY <1>2 DEF nthreads, ResolveThreadCount
<1> QED
  BY <1>2, <1>3 DEF Items, InCall

\* The worker that is created next has not been created before.
LEMMA SpawnTakes ==
    ASSUME TypeOK, Places, NEW created \in BOOLEAN, Spawn(created)
    PROVE  slot \in Workers /\ slot \notin spawned /\ pc[slot] = "unborn"
<1>1. args \in Calls /\ slot \in 1..(MaxThreads + 1) /\ slot <= nthreads
  BY DEF TypeOK, Spawn
<1>2. nthreads \in Int /\ nthreads <= MaxThreads
  BY <1>1, CallFacts
<1>3. slot \in Workers
  BY ONLY <1>1, <1>2, BatchAssumption DEF Workers
<1>4. slot \notin spawned
  <2>1. slot \in Int /\ \A w \in spawned : w < slot
    BY <1>1, BatchAssumption DEF Places
  <2> QED
    BY <2>1
<1> QED
  BY <1>3, <1>4 DEF Places

\* A counter of a family of counters is incremented.
LEMMA IncrementOne ==
    ASSUME NEW S, NEW f \in [S -> Nat], NEW x
    PROVE  [f EXCEPT ![x] = @ + 1] \in [S -> Nat]
<1>1. CASE x \in S
  <2>1. f[x] + 1 \in Nat
    BY <1>1
  <2> QED
    BY <2>1
<1>2. CASE x \notin S
  <2>1. [f EXCEPT ![x] = @ + 1] = f
    BY <1>2
  <2> QED
    BY <2>1
<1> QED
  BY <1>1, <1>2

\* What processing an item writes.
LEMMA ProcessWrites ==
    ASSUME TypeOK, NEW a \in Agents, Process(a), idx[a] \in Items
    PROVE  /\ pc' \in [Agents -> Labels]
           /\ starts' \in [Items -> Nat]
           /\ status' \in [Items -> Statuses]
           /\ hashes' \in [Items -> Slots]
           /\ UNCHANGED <<args, sharedvars, idx, seen, contexts, callervars, history>>
<1> USE DEF TypeOK, Labels, Working, Statuses, Slots, ComputeError, Goto
<1>1. ASSUME NEW error \in LoadErrors, LoadFails(a, error)
      PROVE  /\ pc' \in [Agents -> Labels] /\ starts' \in [Items -> Nat]
             /\ status' \in [Items -> Statuses] /\ hashes' \in [Items -> Slots]
  BY <1>1, IncrementOne DEF LoadFails
<1>2. ASSUME Load(a)
      PROVE  /\ pc' \in [Agents -> Labels] /\ starts' \in [Items -> Nat]
             /\ status' \in [Items -> Statuses] /\ hashes' \in [Items -> Slots]
  BY <1>2, IncrementOne DEF Load
<1>3. ASSUME Compute(a) \/ ClearHashes(a)
      PROVE  /\ pc' \in [Agents -> Labels] /\ starts' \in [Items -> Nat]
             /\ status' \in [Items -> Statuses] /\ hashes' \in [Items -> Slots]
  BY <1>3 DEF Compute, ClearHashes
<1>4. ASSUME ComputeFails(a)
      PROVE  /\ pc' \in [Agents -> Labels] /\ starts' \in [Items -> Nat]
             /\ status' \in [Items -> Statuses] /\ hashes' \in [Items -> Slots]
  BY <1>4 DEF ComputeFails, ComputeFailsThen
<1>5. UNCHANGED <<args, sharedvars, idx, seen, contexts, callervars, history>>
  BY DEF Process, LoadFails, Load, Compute, ComputeFails, ComputeFailsThen, ClearHashes,
         sharedvars, callervars, history
<1> QED
  BY <1>1, <1>2, <1>3, <1>4, <1>5 DEF Process

\* Every step keeps the types.
LEMMA StepTyping == IInv /\ [Next]_vars => TypeOK'
<1> SUFFICES ASSUME IInv, [Next]_vars PROVE TypeOK'
  OBVIOUS
<1>0. TypeOK /\ Places /\ Claims
  BY DEF IInv
<1> USE <1>0, AgentFacts, CallFacts
    DEF TypeOK, Labels, Working, Results, Statuses, Slots, ComputeError,
        itemvars, sharedvars, callervars, history, Goto, Return
<1>1. ASSUME RejectCall \/ EmptyCall \/ AllocThreads \/ LoopEnds PROVE TypeOK'
  BY <1>1 DEF RejectCall, EmptyCall, AllocThreads, LoopEnds
<1>2. ASSUME BeginBatch PROVE TypeOK'
  BY <1>2 DEF BeginBatch, Reset
<1>3. ASSUME NEW created \in BOOLEAN, Spawn(created) PROVE TypeOK'
  <2>1. slot \in Workers /\ slot + 1 \in 1..(MaxThreads + 1)
    BY <1>3, BatchAssumption DEF Spawn, Workers
  <2>2. pc' \in [Agents -> Labels]
    BY <1>3, <2>1 DEF Spawn
  <2>3. spawned' \in SUBSET Workers /\ slot' \in 1..(MaxThreads + 1)
    BY <1>3, <2>1 DEF Spawn
  <2> QED
    BY <1>3, <2>2, <2>3 DEF Spawn
<1>4. ASSUME JoinWorkers PROVE TypeOK'
  <2>1. pc' \in [Agents -> Labels] /\ result' \in Results
    BY <1>4 DEF JoinWorkers, JoinAs, Finish
  <2>2. status' \in [Items -> Statuses] /\ hashes' \in [Items -> Slots]
    BY <1>4 DEF JoinWorkers, JoinAs, Finish, Reset
  <2> QED
    BY <1>4, <2>1, <2>2 DEF JoinWorkers, JoinAs
<1>5. ASSUME NEW a \in Agents, CreateContextFails(a) \/ CreateContext(a) PROVE TypeOK'
  <2>1. pc' \in [Agents -> Labels]
    BY <1>5 DEF CreateContextFails, CreateContext
  <2>2. result' \in Results /\ contexts' \in SUBSET Agents
    BY <1>5 DEF CreateContextFails, CreateContext
  <2> QED
    BY <1>5, <2>1, <2>2 DEF CreateContextFails, CreateContext
<1>6. ASSUME NEW a \in Agents, MayContinue(a) \/ Refuse(a) PROVE TypeOK'
  <2>1. pc' \in [Agents -> Labels]
    BY <1>6 DEF MayContinue, ContinueIf, Refuse
  <2>2. refused' \in BOOLEAN
    BY <1>6 DEF MayContinue, ContinueIf, Refuse
  <2> QED
    BY <1>6, <2>1, <2>2 DEF MayContinue, ContinueIf, Refuse
<1>7. ASSUME NEW a \in Agents, Process(a) PROVE TypeOK'
  <2>1. idx[a] \in Items
    BY <1>7 DEF Process, LoadFails, Load, Compute, ComputeFails, ComputeFailsThen, ClearHashes,
           Claims, InRange
  <2> QED
    BY <1>7, <2>1, ProcessWrites
<1>8. ASSUME CountStarted PROVE TypeOK'
  <2>1. pc' \in [Agents -> Labels]
    BY <1>8 DEF CountStarted
  <2>2. idx' \in [Agents -> Nat] /\ seen' \in [Agents -> Nat]
    BY <1>8 DEF CountStarted
  <2> QED
    BY <1>8, <2>1, <2>2 DEF CountStarted
<1>9. ASSUME FinishSequential PROVE TypeOK'
  <2>1. pc' \in [Agents -> Labels] /\ result' \in Results /\ contexts' \in SUBSET Agents
    BY <1>9 DEF FinishSequential, Finish
  <2>2. status' \in [Items -> Statuses] /\ hashes' \in [Items -> Slots]
    BY <1>9 DEF FinishSequential, Finish, Reset
  <2> QED
    BY <1>9, <2>1, <2>2 DEF FinishSequential
<1>10. ASSUME NEW a \in Agents, Notify(a) PROVE TypeOK'
  <2>1. pc' \in [Agents -> Labels]
    BY <1>10 DEF Notify
  <2>2. reported' \in [1..MaxItems -> Nat]
    BY <1>10, IncrementOne DEF Notify
  <2> QED
    BY <1>10, <2>1, <2>2 DEF Notify
<1>11. ASSUME NEW w \in Workers, Announce(w) \/ CheckStop(w) \/ StoreStop(w) \/ FreeContext(w)
       PROVE  TypeOK'
  <2>1. pc' \in [Agents -> Labels]
    BY <1>11 DEF Announce, CheckStop, CheckStopThen, StoreStop, FreeContext
  <2>2. ready' \in Nat
    BY <1>11 DEF Announce, CheckStop, CheckStopThen, StoreStop, FreeContext
  <2>3. stop' \in BOOLEAN
    BY <1>11 DEF Announce, CheckStop, CheckStopThen, StoreStop, FreeContext
  <2>4. contexts' \in SUBSET Agents
    BY <1>11 DEF Announce, CheckStop, CheckStopThen, StoreStop, FreeContext
  <2> QED
    BY <1>11, <2>1, <2>2, <2>3, <2>4 DEF Announce, CheckStop, CheckStopThen, StoreStop, FreeContext
<1>12. ASSUME NEW w \in Workers, Claim(w) PROVE TypeOK'
  <2>1. pc' \in [Agents -> Labels] /\ idx' \in [Agents -> Nat]
    <3>1. PICK label \in Labels : pc' = [pc EXCEPT ![w] = label]
      BY <1>12 DEF Claim, ClaimLeaving
    <3>2. PICK i \in Nat : idx' = [idx EXCEPT ![w] = i]
      BY <1>12 DEF Claim, ClaimLeaving
    <3> QED
      BY <3>1, <3>2
  <2>2. next' \in Nat /\ late' \in Nat /\ afterStop' \in Nat
    BY <1>12 DEF Claim, ClaimLeaving
  <2> QED
    BY <1>12, <2>1, <2>2 DEF Claim, ClaimLeaving
<1>13. ASSUME NEW w \in Workers, CountDone(w) PROVE TypeOK'
  <2>1. pc' \in [Agents -> Labels]
    BY <1>13 DEF CountDone, CountLeaving
  <2>2. done' \in Nat
    BY <1>13 DEF CountDone, CountLeaving
  <2>3. seen' \in [Agents -> Nat]
    <3>1. done + 1 \in Nat
      OBVIOUS
    <3>2. seen' = [seen EXCEPT ![w] = done + 1] \/ seen' = seen
      BY <1>13 DEF CountDone, CountLeaving
    <3> QED
      BY <3>1, <3>2
  <2> QED
    BY <1>13, <2>1, <2>2, <2>3 DEF CountDone, CountLeaving
<1>14. CASE UNCHANGED vars
  BY <1>14 DEF vars
<1> QED
  BY <1>1, <1>2, <1>3, <1>4, <1>5, <1>6, <1>7, <1>8, <1>9, <1>10, <1>11, <1>12, <1>13, <1>14
  DEF Next, CallerStep, Worker, Over

\* A thread that goes on working, and leaves alone what only the caller writes, keeps
\* the places.
LEMMA GoesOn ==
    ASSUME TypeOK, Places, NEW a \in Agents, NEW label, pc' = [pc EXCEPT ![a] = label],
           \/ a = Caller /\ pc[a] \in Working /\ label \in Working \cup {"count"}
           \/ a \in Workers /\ pc[a] \notin {"unborn", "exited"}
              /\ label \in Active \cup {"free"}
           \/ a \in Workers /\ pc[a] = "ask" /\ label = "stopping",
           idx'[Caller] = idx[Caller], spawned = {} => next' = next,
           UNCHANGED <<args, result, spawned, slot, contexts>>
    PROVE  Places'
<1> USE AgentFacts DEF TypeOK, Active, Working
<1>1. \A b \in Agents : pc'[b] = IF b = a THEN label ELSE pc[b]
  OBVIOUS
<1>2. ~Returned /\ pc[Caller] # "validate" /\ (a = Caller => spawned = {})
  BY DEF Places, Returned
<1>3. pc'[Caller] \in {"validate", "alloc", "spawn", "create", "returned"}
         => pc'[Caller] = pc[Caller]
  BY <1>1
<1>4. pc'[Caller] \notin {"unborn", "announce", "check", "stopping", "claim", "exited"}
  BY <1>1 DEF Places
<1>5. \A v \in Workers : /\ pc'[v] \notin {"validate", "alloc", "spawn", "returned"}
                         /\ pc'[v] # "unborn" <=> v \in spawned'
  BY <1>1 DEF Places
<1>6. \A b \in contexts' : pc'[b] \in Active \cup {"announce", "stopping", "free"}
  BY <1>1 DEF Places
<1>7. ~Returned' /\ pc'[Caller] # "validate"
  BY <1>1, <1>2 DEF Returned
<1>8. spawned' # {} => pc'[Caller] \in {"spawn", "returned"} /\ idx'[Caller] = 0
  BY <1>1, <1>2 DEF Places
<1> QED
  BY <1>2, <1>3, <1>4, <1>5, <1>6, <1>7, <1>8 DEF Places, Returned

\* Every step keeps the places.
LEMMA StepPlaces == IInv /\ [Next]_vars => Places'
<1> SUFFICES ASSUME IInv, [Next]_vars PROVE Places'
  OBVIOUS
<1>0. TypeOK /\ Places /\ args.n \in Nat /\ nthreads \in Int
  BY CallFacts DEF IInv, TypeOK
<1> USE <1>0, AgentFacts
    DEF TypeOK, Places, Returned, Active, Working,
        itemvars, sharedvars, callervars, history, Goto, Return
<1>1. ASSUME RejectCall \/ EmptyCall PROVE Places'
  BY <1>1 DEF RejectCall, EmptyCall
<1>2. ASSUME BeginBatch PROVE Places'
  BY <1>2 DEF BeginBatch
<1>3. ASSUME AllocThreads PROVE Places'
  BY <1>3 DEF AllocThreads
<1>4. ASSUME NEW created \in BOOLEAN, Spawn(created) PROVE Places'
  <2>1. slot \in Workers /\ slot \notin spawned /\ slot' = slot + 1
    BY <1>4, BatchAssumption, CallFacts DEF Spawn, Workers
  <2>2. CASE created
    <3>1. spawned' = spawned \cup {slot} /\ pc' = [pc EXCEPT ![slot] = "create"]
      BY <1>4, <2>2 DEF Spawn
    <3> QED
      BY <1>4, <2>1, <3>1 DEF Spawn
  <2>3. CASE ~created
    BY <1>4, <2>1, <2>3 DEF Spawn
  <2> QED
    BY <2>2, <2>3
<1>5. ASSUME JoinWorkers PROVE Places'
  <2>1. /\ pc[Caller] = "spawn" /\ (\A w \in spawned : pc[w] = "exited")
        /\ UNCHANGED <<args, spawned, slot, idx, next, contexts>>
    BY <1>5 DEF JoinWorkers, JoinAs
  <2>2. pc' = [pc EXCEPT ![Caller] = "returned"] /\ result' # "none"
    BY <1>5 DEF JoinWorkers, JoinAs, Finish
  <2> QED
    BY <2>1, <2>2
<1>6. ASSUME NEW a \in Agents, CreateContextFails(a) PROVE Places'
  <2>1. pc[a] = "create" /\ UNCHANGED <<args, spawned, slot, idx, next, contexts>>
    BY <1>6 DEF CreateContextFails
  <2>2. CASE a = Caller
    <3>1. pc' = [pc EXCEPT ![Caller] = "returned"] /\ result' # "none"
      BY <1>6, <2>2 DEF CreateContextFails
    <3> QED
      BY <2>1, <2>2, <3>1
  <2>3. CASE a # Caller
    <3>1. pc' = [pc EXCEPT ![a] = "exited"] /\ result' = result
      BY <1>6, <2>3 DEF CreateContextFails
    <3> QED
      BY <2>1, <2>3, <3>1
  <2> QED
    BY <2>2, <2>3
<1>7. ASSUME NEW a \in Agents, CreateContext(a) PROVE Places'
  BY <1>7 DEF CreateContext
<1>8. ASSUME NEW a \in Agents, MayContinue(a) \/ Refuse(a) PROVE Places'
  <2>1. CASE MayContinue(a)
    BY <2>1 DEF MayContinue, ContinueIf
  <2>2. CASE Refuse(a)
    BY <2>2 DEF Refuse
  <2> QED
    BY <1>8, <2>1, <2>2
<1>9. ASSUME LoopEnds PROVE Places'
  BY <1>9 DEF LoopEnds
<1>10. ASSUME NEW a \in Agents, Process(a) PROVE Places'
  <2>1. pc[a] \in Working /\ UNCHANGED <<args, result, spawned, slot, contexts, idx, next>>
    BY <1>10 DEF Process, LoadFails, Load, Compute, ComputeFails, ComputeFailsThen, ClearHashes
  <2>2. PICK label \in Working \cup {"count"} : pc' = [pc EXCEPT ![a] = label]
    BY <1>10 DEF Process, LoadFails, Load, Compute, ComputeFails, ComputeFailsThen, ClearHashes
  <2> QED
    BY <2>1, <2>2, GoesOn
<1>11. ASSUME CountStarted PROVE Places'
  BY <1>11 DEF CountStarted
<1>12. ASSUME NEW a \in Agents, Notify(a) PROVE Places'
  BY <1>12 DEF Notify
<1>13. ASSUME FinishSequential PROVE Places'
  BY <1>13 DEF FinishSequential, Finish
<1>14. ASSUME NEW w \in Workers, Announce(w) \/ CheckStop(w) \/ StoreStop(w) PROVE Places'
  <2>1. pc[w] \in {"announce", "check", "stopping"}
        /\ UNCHANGED <<args, result, spawned, slot, contexts, idx, next>>
    BY <1>14 DEF Announce, CheckStop, CheckStopThen, StoreStop
  <2>2. PICK label \in {"check", "free", "ask"} : pc' = [pc EXCEPT ![w] = label]
    BY <1>14 DEF Announce, CheckStop, CheckStopThen, StoreStop
  <2> QED
    BY <2>1, <2>2, GoesOn
<1>15. ASSUME NEW w \in Workers, Claim(w) PROVE Places'
  <2>1. pc[w] = "claim" /\ UNCHANGED <<args, result, spawned, slot, contexts>>
    BY <1>15 DEF Claim, ClaimLeaving
  <2>2. idx'[Caller] = idx[Caller] /\ spawned # {}
    BY <1>15 DEF Claim, ClaimLeaving
  <2>3. PICK label \in {"load", "free"} : pc' = [pc EXCEPT ![w] = label]
    BY <1>15 DEF Claim, ClaimLeaving
  <2> QED
    BY <2>1, <2>2, <2>3, GoesOn
<1>16. ASSUME NEW w \in Workers, CountDone(w) PROVE Places'
  <2>1. pc[w] = "count" /\ UNCHANGED <<args, result, spawned, slot, contexts, idx, next>>
    BY <1>16 DEF CountDone, CountLeaving
  <2>2. PICK label \in {"notify", "check"} : pc' = [pc EXCEPT ![w] = label]
    BY <1>16 DEF CountDone, CountLeaving
  <2> QED
    BY <2>1, <2>2, GoesOn
<1>17. ASSUME NEW w \in Workers, FreeContext(w) PROVE Places'
  BY <1>17 DEF FreeContext
<1>18. CASE UNCHANGED vars
  BY <1>18 DEF vars
<1> QED
  BY <1>1, <1>2, <1>3, <1>4, <1>5, <1>6, <1>7, <1>8, <1>9, <1>10, <1>11, <1>12, <1>13, <1>14,
     <1>15, <1>16, <1>17, <1>18
  DEF Next, CallerStep, Worker, Over

\* No two threads, the caller included, work on the same item, and every item worked
\* on is one of the call.
LEMMA HeldApart ==
    ASSUME TypeOK, Places, InRange, Apart, NEW a \in Agents, pc[a] \in Working
    PROVE  /\ idx[a] \in Items
           /\ \A b \in Agents : (b # a /\ pc[b] \in Working) => idx[b] # idx[a]
           /\ a = Caller => next = 0 /\ \A w \in Workers : pc[w] = "unborn"
<1> USE AgentFacts DEF TypeOK, Places, InRange, Apart, Working
<1>1. idx[a] \in Items
  BY CallFacts
<1>2. a = Caller => spawned = {}
  OBVIOUS
<1>3. a = Caller => next = 0 /\ \A w \in Workers : pc[w] = "unborn"
  BY <1>2
<1> QED
  BY <1>1, <1>3

\* A step in which nobody takes, starts or finishes an item keeps the claims.
LEMMA OtherSteps ==
    ASSUME TypeOK, Claims, UNCHANGED <<args, next, idx, starts>>,
           NEW a \in Agents, NEW label, pc' = [pc EXCEPT ![a] = label],
           pc[a] \notin Working, a = Caller => pc[a] # "count",
           label \notin Working \cup {"count"}
    PROVE  Claims'
<1> USE AgentFacts DEF TypeOK, Claims, Working
<1>1. \A b \in Agents : pc'[b] = pc[b] \/ (b = a /\ pc'[b] = label)
  OBVIOUS
<1>2. InRange'
  BY <1>1 DEF InRange
<1>3. Apart'
  BY <1>1 DEF Apart
<1>4. StartedOnce'
  BY <1>1 DEF StartedOnce
<1>5. NoGap'
  BY <1>1 DEF NoGap
<1> QED
  BY <1>2, <1>3, <1>4, <1>5

\* Every step keeps what is known of the items that are taken.
LEMMA StepClaims == IInv /\ [Next]_vars => Claims'
<1> SUFFICES ASSUME IInv, [Next]_vars PROVE Claims'
  OBVIOUS
<1>0. TypeOK /\ Places /\ Claims /\ InRange /\ Apart /\ StartedOnce /\ NoGap
  BY DEF IInv, Claims
<1>t. /\ args.n \in Nat /\ MaxItems \in Nat /\ args.n <= MaxItems /\ next \in Nat
      /\ pc \in [Agents -> Labels] /\ idx \in [Agents -> Nat] /\ starts \in [Items -> Nat]
  BY <1>0, CallFacts, BatchAssumption DEF TypeOK
<1>u. /\ next' \in Nat
      /\ pc' \in [Agents -> Labels] /\ idx' \in [Agents -> Nat] /\ starts' \in [Items -> Nat]
  BY StepTyping DEF TypeOK
<1>a. \A i : i \in Items <=> i \in Nat /\ i < MaxItems
  BY <1>0, CallFacts DEF TypeOK
<1> USE <1>0, <1>t, AgentFacts
    DEF Working, itemvars, sharedvars, callervars, history, Goto, Return
<1>1. ASSUME RejectCall \/ EmptyCall \/ JoinWorkers \/ FinishSequential PROVE Claims'
  <2>1. pc' = [pc EXCEPT ![Caller] = "returned"] /\ UNCHANGED <<args, next, idx, starts>>
    BY <1>1 DEF RejectCall, EmptyCall, JoinWorkers, JoinAs, Finish, FinishSequential
  <2>2. pc[Caller] \in {"validate", "spawn", "free"}
    BY <1>1 DEF RejectCall, EmptyCall, JoinWorkers, JoinAs, FinishSequential
  <2> QED
    BY <2>1, <2>2, OtherSteps
<1>2. ASSUME BeginBatch \/ AllocThreads \/ LoopEnds PROVE Claims'
  <2>1. /\ UNCHANGED <<args, next, idx, starts>>
        /\ \E label \in {"alloc", "create", "returned", "spawn", "free"} :
                pc' = [pc EXCEPT ![Caller] = label]
    BY <1>2 DEF BeginBatch, AllocThreads, LoopEnds
  <2>2. pc[Caller] \in {"validate", "alloc", "ask"}
    BY <1>2 DEF BeginBatch, AllocThreads, LoopEnds
  <2> QED
    BY <2>1, <2>2, OtherSteps
<1>3. ASSUME NEW created \in BOOLEAN, Spawn(created) PROVE Claims'
  <2>1. UNCHANGED <<args, next, idx, starts>>
    BY <1>3 DEF Spawn
  <2>2. slot \in Workers /\ slot \notin spawned
    BY <1>3, SpawnTakes
  <2>3. pc' = [pc EXCEPT ![slot] = IF created THEN "create" ELSE "unborn"]
    BY <1>3, <2>2 DEF Spawn, TypeOK, Places
  <2>4. pc[slot] = "unborn"
    BY <2>2 DEF Places
  <2> QED
    BY <2>1, <2>2, <2>3, <2>4, OtherSteps
<1>4. ASSUME NEW a \in Agents, CreateContextFails(a) \/ CreateContext(a) \/ Refuse(a) PROVE Claims'
  <2>1. /\ UNCHANGED <<args, next, idx, starts>>
        /\ \E label \in {"returned", "exited", "ask", "announce", "free", "stopping"} :
                pc' = [pc EXCEPT ![a] = label]
    BY <1>4 DEF CreateContextFails, CreateContext, Refuse
  <2>2. pc[a] \in {"create", "ask"}
    BY <1>4 DEF CreateContextFails, CreateContext, Refuse
  <2> QED
    BY <2>1, <2>2, OtherSteps
<1>5. ASSUME NEW a \in Agents, Notify(a) PROVE Claims'
  <2>1. /\ UNCHANGED <<args, next, idx, starts>> /\ pc[a] = "notify"
        /\ \E label \in {"ask", "check"} : pc' = [pc EXCEPT ![a] = label]
    BY <1>5 DEF Notify
  <2> QED
    BY <2>1, OtherSteps
<1>6. ASSUME NEW w \in Workers, Announce(w) \/ CheckStop(w) \/ StoreStop(w) \/ FreeContext(w)
      PROVE  Claims'
  <2>1. /\ UNCHANGED <<args, next, idx, starts>>
        /\ \E label \in {"check", "free", "ask", "exited"} : pc' = [pc EXCEPT ![w] = label]
    BY <1>6 DEF Announce, CheckStop, CheckStopThen, StoreStop, FreeContext
  <2>2. pc[w] \in {"announce", "check", "stopping", "free"}
    BY <1>6 DEF Announce, CheckStop, CheckStopThen, StoreStop, FreeContext
  <2> QED
    BY <2>1, <2>2, OtherSteps
<1>7. ASSUME NEW w \in Workers, CountDone(w) PROVE Claims'
  <2>1. /\ UNCHANGED <<args, next, idx, starts>> /\ pc[w] = "count"
        /\ \E label \in {"check", "notify"} : pc' = [pc EXCEPT ![w] = label]
    BY <1>7 DEF CountDone, CountLeaving
  <2> QED
    BY <2>1, OtherSteps
\* The sequential loop takes its next item; a worker is only about to claim one.
<1>8. ASSUME NEW a \in Agents, MayContinue(a) PROVE Claims'
  <2>0. UNCHANGED <<args, next, idx, starts>> /\ pc[a] = "ask"
    BY <1>8 DEF MayContinue, ContinueIf
  <2>1. CASE a # Caller
    <3>1. pc' = [pc EXCEPT ![a] = "claim"]
      BY <1>8, <2>1 DEF MayContinue, ContinueIf
    <3> QED
      BY <2>0, <2>1, <3>1, OtherSteps
  <2>2. CASE a = Caller
    <3>1. pc' = [pc EXCEPT ![Caller] = "load"] /\ idx[Caller] < args.n
      BY <1>8, <2>2 DEF MayContinue, ContinueIf
    <3>2. next = 0 /\ \A w \in Workers : pc'[w] = "unborn" /\ pc[w] = "unborn"
      BY <2>0, <2>2, <3>1 DEF Places
    <3>3. idx[Caller] \in Items
      BY <3>1, CallFacts DEF TypeOK
    <3>4. InRange' /\ Apart'
      BY <2>0, <2>2, <3>1, <3>2 DEF InRange, Apart
    <3>5. StartedOnce'
      BY <2>0, <2>2, <3>1, <3>2, <3>3, <1>a DEF StartedOnce
    <3>6. NoGap'
      BY <2>0, <2>2, <3>1, <3>2 DEF NoGap
    <3> QED
      BY <3>4, <3>5, <3>6 DEF Claims
  <2> QED
    BY <2>1, <2>2
<1>9. ASSUME NEW a \in Agents, Process(a) PROVE Claims'
  <2>0. /\ UNCHANGED <<args, next, idx>>
        /\ pc[a] \in Working /\ pc'[a] \in {"compute", "clear", "count"}
        /\ \A b \in Agents : b # a => pc'[b] = pc[b]
    BY <1>9
    DEF Process, LoadFails, Load, Compute, ComputeFails, ComputeFailsThen, ClearHashes
  <2>1. /\ idx[a] \in Items
        /\ \A b \in Agents : (b # a /\ pc[b] \in Working) => idx[b] # idx[a]
        /\ a = Caller => next = 0 /\ \A w \in Workers : pc[w] = "unborn"
    BY <2>0, HeldApart
  <2>2. starts'[idx[a]] = 1 /\ \A i \in Items : i # idx[a] => starts'[i] = starts[i]
    BY <1>9, <2>1
    DEF Process, LoadFails, Load, Compute, ComputeFails, ComputeFailsThen, ClearHashes, StartedOnce
  <2>3. InRange' /\ Apart'
    BY <2>0, <2>1 DEF InRange, Apart
  <2>4. StartedOnce'
    <3>1. \A b \in Agents : pc[b] \in Working => idx[b] \in Items
      BY <1>a DEF InRange
    <3>2. \A i \in Items : starts'[i] \in {0, 1}
      BY <2>2 DEF StartedOnce
    <3>3. \A i \in Items : starts'[i] = 1 =>
             \/ i < next
             \/ i < idx[Caller]
             \/ pc'[Caller] \in {"compute", "clear", "count"} /\ i = idx[Caller]
      <4> SUFFICES ASSUME NEW i \in Items, starts'[i] = 1, ~(i < next), ~(i < idx[Caller])
                   PROVE  pc'[Caller] \in {"compute", "clear", "count"} /\ i = idx[Caller]
        OBVIOUS
      <4>1. CASE i = idx[a]
        BY <2>0, <4>1 DEF InRange
      <4>2. CASE i # idx[a]
        BY <2>0, <2>2, <4>2 DEF StartedOnce
      <4> QED
        BY <4>1, <4>2
    <3>4. \A b \in Agents : pc'[b] = "load" => starts'[idx[b]] = 0
      BY <2>0, <2>1, <2>2, <3>1 DEF StartedOnce
    <3>5. \A b \in Agents : pc'[b] \in {"compute", "clear"} => starts'[idx[b]] = 1
      BY <2>0, <2>1, <2>2, <3>1 DEF StartedOnce
    <3> QED
      BY <2>0, <3>2, <3>3, <3>4, <3>5 DEF StartedOnce
  <2>5. NoGap'
    <3>1. \A i \in Items : starts[i] = 1 => starts'[i] = 1
      BY <2>2
    <3>2. pc'[Caller] = "count" => starts'[idx[Caller]] = 1
      BY <2>0, <2>1, <2>2, <3>1, <1>a DEF NoGap, InRange
    <3>3. \A i \in Items : (i < next /\ i < args.n) =>
             starts'[i] = 1 \/ \E w \in Workers : pc'[w] = "load" /\ idx[w] = i
      BY <2>0, <2>1, <2>2, <3>1 DEF NoGap
    <3> QED
      BY <2>0, <3>1, <3>2, <3>3 DEF NoGap
  <2> QED
    BY <2>3, <2>4, <2>5 DEF Claims
<1>10. ASSUME CountStarted PROVE Claims'
  <2>1. /\ UNCHANGED <<args, next, starts>> /\ pc[Caller] = "count"
        /\ idx'[Caller] = idx[Caller] + 1 /\ pc'[Caller] \in {"notify", "ask"}
        /\ \A w \in Workers : idx'[w] = idx[w] /\ pc'[w] = pc[w]
    BY <1>10 DEF CountStarted
  <2>2. next = 0 /\ \A w \in Workers : pc[w] = "unborn"
    BY <2>1 DEF Places
  <2>3. InRange' /\ Apart'
    BY <2>1, <2>2 DEF InRange, Apart
  <2>4. StartedOnce'
    BY <2>1, <2>2, <1>a DEF StartedOnce
  <2>5. NoGap'
    BY <2>1, <2>2, <1>a DEF NoGap
  <2> QED
    BY <2>3, <2>4, <2>5 DEF Claims
<1>11. ASSUME NEW w \in Workers, Claim(w) PROVE Claims'
  <2>0. /\ UNCHANGED <<args, starts>> /\ pc[w] = "claim" /\ next' = next + 1
        /\ idx[Caller] = 0 /\ idx'[Caller] = 0
        /\ pc[Caller] \in {"spawn", "returned"} /\ pc'[Caller] = pc[Caller]
        /\ \A v \in Workers : v # w => idx'[v] = idx[v] /\ pc'[v] = pc[v]
    BY <1>11 DEF Claim, ClaimLeaving, Places
  <2>1. CASE next >= args.n
    <3>1. pc'[w] = "free" /\ idx' = idx
      BY <1>11, <2>1 DEF Claim, ClaimLeaving
    <3>2. InRange' /\ Apart'
      BY <2>0, <3>1 DEF InRange, Apart
    <3>3. StartedOnce'
      BY <2>0, <3>1, <1>a DEF StartedOnce
    <3>4. NoGap'
      BY <2>0, <2>1, <3>1, <1>a DEF NoGap
    <3> QED
      BY <3>2, <3>3, <3>4 DEF Claims
  <2>2. CASE next < args.n
    <3>1. pc'[w] = "load" /\ idx'[w] = next
      BY <1>11, <2>2 DEF Claim, ClaimLeaving
    <3>2. next \in Items /\ starts[next] = 0
      <4>1. next \in Items
        BY <2>2, <1>a
      <4>2. starts[next] # 1
        BY <2>0, <4>1 DEF StartedOnce
      <4> QED
        BY <4>1, <4>2 DEF StartedOnce
    <3>3. InRange' /\ Apart'
      BY <2>0, <2>2, <3>1 DEF InRange, Apart
    <3>4. StartedOnce'
      BY <2>0, <3>1, <3>2, <1>a DEF StartedOnce
    <3>5. NoGap'
      BY <2>0, <2>2, <3>1, <3>2, <1>a DEF NoGap
    <3> QED
      BY <3>3, <3>4, <3>5 DEF Claims
  <2> QED
    BY <2>1, <2>2
<1>12. CASE UNCHANGED vars
  BY <1>12 DEF vars, Claims, InRange, Apart, StartedOnce, NoGap
<1> QED
  BY <1>1, <1>2, <1>3, <1>4, <1>5, <1>6, <1>7, <1>8, <1>9, <1>10, <1>11, <1>12
  DEF Next, CallerStep, Worker, Over

-----------------------------------------------------------------------------
\* Whoever makes a step, the call has not returned.
LEMMA CallIsRunning ==
    ASSUME TypeOK, Places, NEW a \in Agents, pc[a] \notin {"unborn", "exited", "returned"}
    PROVE  result = "none" /\ pc[Caller] # "returned"
BY AgentFacts DEF TypeOK, Places, Returned

\* A step that writes no item and finishes none keeps the contents.
LEMMA ContentsKept ==
    ASSUME TypeOK, Contents, UNCHANGED <<args, status, hashes, starts>>,
           pc[Caller] = "validate" <=> pc'[Caller] = "validate",
           \/ result' = result
           \/ (result = "none" /\ result' \in {"SUCCESS", "ALLOCATION_FAILED"}),
           \A a \in Agents : pc[a] \in Working => pc'[a] = pc[a] /\ idx'[a] = idx[a],
           \A a \in Agents : pc'[a] \in {"compute", "clear"} => pc[a] = pc'[a]
    PROVE  Contents'
<1>1. InCall' = InCall /\ Finished' \subseteq Finished
  BY DEF InCall, Finished
<1>2. Rest' = Rest /\ (result' = "INVALID_ARGUMENT" <=> result = "INVALID_ARGUMENT")
  BY DEF Rest
<1>3. Spared'
  BY <1>1, <1>2 DEF Contents, Spared, Pristine
<1>4. Unstarted'
  BY <1>1, <1>2 DEF Contents, Unstarted, Untouched
<1>5. Halfway'
  BY DEF Contents, Halfway, Working
<1>6. Settled'
  BY <1>1 DEF Contents, Settled, Agrees
<1> QED
  BY <1>3, <1>4, <1>5, <1>6 DEF Contents

\* Such a step of one thread.
LEMMA ContentsKeptBy ==
    ASSUME TypeOK, Contents, UNCHANGED <<args, status, hashes, starts>>,
           NEW a \in Agents, NEW label, pc' = [pc EXCEPT ![a] = label],
           pc[a] \notin Working \cup {"validate"}, label \notin {"compute", "clear", "validate"},
           \A b \in Agents : b # a => idx'[b] = idx[b],
           \/ result' = result
           \/ (result = "none" /\ result' \in {"SUCCESS", "ALLOCATION_FAILED"})
    PROVE  Contents'
<1>1. \A b \in Agents : pc'[b] = IF b = a THEN label ELSE pc[b]
  BY DEF TypeOK
<1>2. pc[Caller] = "validate" <=> pc'[Caller] = "validate"
  BY <1>1, AgentFacts
<1>3. \A b \in Agents : pc[b] \in Working => pc'[b] = pc[b] /\ idx'[b] = idx[b]
  BY <1>1
<1>4. \A b \in Agents : pc'[b] \in {"compute", "clear"} => pc[b] = pc'[b]
  BY <1>1
<1> QED
  BY <1>2, <1>3, <1>4, ContentsKept

\* The verdict writes only items that were not started.
LEMMA ContentsFinished ==
    ASSUME TypeOK, StartedOnce, Contents, NEW k \in Nat, Finish(k), k <= args.n,
           UNCHANGED <<args, starts, idx>>, result = "none", pc[Caller] # "validate",
           \A a \in Agents : pc[a] \notin Working,
           \A i \in InCall : starts[i] = 1 <=> i < k
    PROVE  Contents'
<1> USE AgentFacts
<1>1. pc'[Caller] = "returned" /\ \A a \in Agents : pc'[a] \notin Working
  BY DEF Finish, Return, Goto, TypeOK, Working
<1>2. CASE k = args.n
  <2>1. UNCHANGED <<status, hashes>> /\ result' = "SUCCESS"
    BY <1>2 DEF Finish, Return
  <2> QED
    BY <1>1, <2>1, ContentsKept DEF Working
<1>3. CASE k # args.n
  <2>1. /\ result' = "CANCELLED"
        /\ \A i \in Items : i \in k..(args.n - 1) => status'[i] = "CANCELLED" /\ hashes'[i] = "zero"
        /\ \A i \in Items : i \notin k..(args.n - 1) => status'[i] = status[i] /\ hashes'[i] = hashes[i]
    BY <1>3 DEF Finish, Return, Reset
  <2>2. InCall' = InCall /\ Finished' \subseteq Finished
    BY DEF InCall, Finished, Working
  <2>3. \A i \in Items : i \in InCall \/ i \notin k..(args.n - 1)
    BY CallFacts DEF TypeOK, InCall
  <2>4. \A i \in InCall : i \in k..(args.n - 1) <=> starts[i] # 1
    BY CallFacts DEF TypeOK, InCall
  <2>5. Spared'
    BY <1>1, <2>1, <2>2 DEF Contents, Spared, Pristine, InCall
  <2>6. Unstarted'
    BY <2>1, <2>2, <2>4, CallFacts DEF Unstarted, Untouched, Rest, TypeOK
  <2>7. Halfway'
    BY <1>1 DEF Halfway, Working
  <2>8. Settled'
    <3> SUFFICES ASSUME NEW i \in Finished PROVE Agrees(i)'
      BY <2>2 DEF Settled
    <3>1. i \in Items /\ starts[i] = 1
      BY DEF Finished, StartedOnce
    <3>2. i \notin k..(args.n - 1)
      BY <2>3, <2>4, <3>1
    <3> QED
      BY <2>1, <3>1, <3>2 DEF Contents, Settled, Agrees
  <2> QED
    BY <2>5, <2>6, <2>7, <2>8 DEF Contents
<1> QED
  BY <1>2, <1>3

\* The started items are those below the first index not taken, once every thread
\* that could work has left.
LEMMA StartedPrefix ==
    ASSUME TypeOK, Places, Claims, \A a \in Agents : pc[a] \notin Working \cup {"count"}
    PROVE  /\ spawned # {} => \A i \in InCall : starts[i] = 1 <=> i < next
           /\ spawned = {} => \A i \in InCall : starts[i] = 1 <=> i < idx[Caller]
<1>1. \A i \in InCall : i \in Items /\ i \in Nat /\ i < args.n
  BY CallFacts DEF TypeOK
<1>2. pc[Caller] \notin {"compute", "clear", "count"} /\ next \in Nat /\ idx[Caller] \in Nat
  BY AgentFacts DEF Working, TypeOK
<1>3. ASSUME spawned # {} PROVE \A i \in InCall : starts[i] = 1 <=> i < next
  <2>1. idx[Caller] = 0
    BY <1>3 DEF Places
  <2>2. \A i \in InCall : i < next => starts[i] = 1
    BY <1>1, AgentFacts DEF Claims, NoGap, Working
  <2>3. \A i \in InCall : starts[i] = 1 => i < next
    BY <1>1, <1>2, <2>1 DEF Claims, StartedOnce
  <2> QED
    BY <2>2, <2>3
<1>4. ASSUME spawned = {} PROVE \A i \in InCall : starts[i] = 1 <=> i < idx[Caller]
  <2>1. next = 0
    BY <1>4 DEF Places
  <2>2. \A i \in InCall : i < idx[Caller] => starts[i] = 1
    BY <1>1 DEF Claims, NoGap
  <2>3. \A i \in InCall : starts[i] = 1 => i < idx[Caller]
    BY <1>1, <1>2, <2>1 DEF Claims, StartedOnce
  <2> QED
    BY <2>2, <2>3
<1> QED
  BY <1>3, <1>4

\* At the join: every worker has left, and what they claimed is what was started.
LEMMA Joined ==
    ASSUME TypeOK, Places, Claims, JoinWorkers
    PROVE  /\ \A a \in Agents : pc[a] \notin Working \cup {"count"}
           /\ \A w \in Workers : pc[w] \in {"unborn", "exited"}
           /\ spawned # {} => \A i \in InCall : starts[i] = 1 <=> i < Claimed
           /\ next = 0 => \A i \in InCall : starts[i] = 0
           /\ Claimed \in Nat /\ Claimed <= args.n
<1>1. pc[Caller] = "spawn" /\ \A w \in spawned : pc[w] = "exited"
  BY DEF JoinWorkers, JoinAs
<1>2. \A w \in Workers : pc[w] \in {"unborn", "exited"}
  BY <1>1 DEF Places
<1>3. \A a \in Agents : pc[a] \notin Working \cup {"count"}
  BY <1>1, <1>2, AgentFacts DEF Working
<1>4. args.n \in Nat /\ next \in Nat /\ \A i \in InCall : i \in Items /\ i \in Nat /\ i < args.n
  BY CallFacts DEF TypeOK
<1>5. spawned # {} => \A i \in InCall : starts[i] = 1 <=> i < Claimed
  BY <1>3, <1>4, StartedPrefix DEF Claimed
<1>6. next = 0 => \A i \in InCall : starts[i] = 0
  BY <1>1, <1>4 DEF Places, Claims, StartedOnce
<1> QED
  BY <1>2, <1>3, <1>4, <1>5, <1>6 DEF Claimed

\* Processing an item touches that item alone, which it leaves started.
LEMMA ProcessTouches ==
    ASSUME TypeOK, Places, Claims, NEW a \in Agents, Process(a)
    PROVE  /\ pc[a] \in Working /\ idx[a] \in Items /\ idx[a] \in InCall
           /\ pc'[a] \in {"compute", "clear", "count"}
           /\ \A b \in Agents : b # a => pc'[b] = pc[b]
           /\ \A b \in Agents : (b # a /\ pc[b] \in Working) => idx[b] # idx[a] /\ idx[b] \in Items
           /\ UNCHANGED <<args, idx, next, result, refused>>
           /\ pc[Caller] # "validate" /\ pc'[Caller] # "validate" /\ result = "none"
           /\ starts'[idx[a]] = 1
           /\ \A i \in Items : i # idx[a] =>
                  starts'[i] = starts[i] /\ status'[i] = status[i] /\ hashes'[i] = hashes[i]
<1> USE DEF Process, LoadFails, Load, Compute, ComputeFails, ComputeFailsThen, ClearHashes,
            Goto, sharedvars, callervars, history
<1>0. /\ pc \in [Agents -> Labels] /\ idx \in [Agents -> Nat] /\ starts \in [Items -> Nat]
      /\ status \in [Items -> Statuses] /\ hashes \in [Items -> Slots]
  BY DEF TypeOK
<1>1. pc[a] \in Working /\ UNCHANGED <<args, idx, next, result, refused>>
  BY DEF Working
<1>2. pc'[a] \in {"compute", "clear", "count"} /\ \A b \in Agents : b # a => pc'[b] = pc[b]
  BY <1>0
<1>3. /\ idx[a] \in Items
      /\ \A b \in Agents : (b # a /\ pc[b] \in Working) => idx[b] # idx[a]
  BY <1>1, HeldApart DEF Claims
<1>4. \A b \in Agents : pc[b] \in Working => idx[b] \in Items /\ idx[b] \in InCall
  BY <1>0, CallFacts, BatchAssumption DEF TypeOK, Claims, InRange
<1>5. result = "none"
  BY <1>1, CallIsRunning DEF Working
<1>6. pc[Caller] # "validate" /\ pc'[Caller] # "validate"
  BY <1>1, <1>2, AgentFacts DEF Places, Working
<1>7. starts'[idx[a]] = 1
  BY <1>0, <1>3 DEF Claims, StartedOnce
<1>8. \A i \in Items : i # idx[a] =>
          starts'[i] = starts[i] /\ status'[i] = status[i] /\ hashes'[i] = hashes[i]
  BY <1>0, <1>3
<1> QED
  BY <1>1, <1>2, <1>3, <1>4, <1>5, <1>6, <1>7, <1>8

\* Processing an item keeps what is known of the array.
LEMMA ProcessContents ==
    ASSUME TypeOK, Places, Claims, Contents, NEW a \in Agents, Process(a)
    PROVE  Contents'
<1> DEFINE item == idx[a]
<1>1. /\ pc[a] \in Working /\ item \in Items /\ item \in InCall
      /\ pc'[a] \in {"compute", "clear", "count"}
      /\ \A b \in Agents : b # a => pc'[b] = pc[b]
      /\ \A b \in Agents : (b # a /\ pc[b] \in Working) => idx[b] # item /\ idx[b] \in Items
      /\ UNCHANGED <<args, idx, next, result, refused>>
      /\ pc[Caller] # "validate" /\ pc'[Caller] # "validate" /\ result = "none"
      /\ starts'[item] = 1
      /\ \A i \in Items : i # item =>
             starts'[i] = starts[i] /\ status'[i] = status[i] /\ hashes'[i] = hashes[i]
  BY ProcessTouches
<1>2. InCall' = InCall /\ \A i \in InCall : i \in Items
  BY <1>1, CallFacts DEF InCall, TypeOK
<1>3. Spared'
  BY <1>1, <1>2 DEF Contents, Spared, Pristine
<1>4. Unstarted'
  BY <1>1, <1>2 DEF Contents, Unstarted, Untouched, Rest
\* The slots are zero until the computation writes them.
<1>5. /\ pc'[a] = "compute" => hashes'[item] = "zero"
      /\ pc'[a] = "clear" => status'[item] = ComputeError
      /\ pc'[a] = "count" => Agrees(item)'
  <2> USE <1>1 DEF Goto
  <2>0. /\ pc \in [Agents -> Labels]
        /\ status \in [Items -> Statuses] /\ hashes \in [Items -> Slots]
    BY DEF TypeOK
  <2>1. ASSUME NEW error \in LoadErrors, LoadFails(a, error)
        PROVE  pc'[a] = "count" /\ Agrees(item)'
    <3>1. error \notin {"STALE", "CANCELLED", "SUCCESS"}
      BY BatchAssumption
    <3> QED
      BY <2>0, <2>1, <3>1 DEF LoadFails, Agrees
  <2>2. ASSUME Load(a) PROVE pc'[a] = "compute" /\ hashes'[item] = "zero"
    BY <2>0, <2>2 DEF Load, Claims, StartedOnce, Contents, Unstarted, Untouched
  <2>3. ASSUME Compute(a) PROVE pc'[a] = "count" /\ Agrees(item)'
    BY <2>0, <2>3 DEF Compute, Agrees
  <2>4. ASSUME ComputeFails(a) PROVE pc'[a] = "clear" /\ status'[item] = ComputeError
    BY <2>0, <2>4 DEF ComputeFails, ComputeFailsThen
  <2>5. ASSUME ClearHashes(a) PROVE pc'[a] = "count" /\ Agrees(item)'
    BY <2>0, <2>5 DEF ClearHashes, Agrees, Contents, Halfway, ComputeError
  <2> QED
    BY <2>1, <2>2, <2>3, <2>4, <2>5 DEF Process
<1>6. Halfway'
  BY <1>1, <1>5 DEF Contents, Halfway, Working
<1>7. Settled'
  <2> SUFFICES ASSUME NEW i \in Finished' PROVE Agrees(i)'
    BY DEF Settled
  <2>1. CASE i = item
    BY <1>1, <1>5, <2>1 DEF Finished, Working
  <2>2. CASE i # item
    <3>1. i \in Finished
      BY <1>1, <2>2 DEF Finished
    <3> QED
      BY <1>1, <2>2, <3>1 DEF Finished, Contents, Settled, Agrees
  <2> QED
    BY <2>1, <2>2
<1> QED
  BY <1>3, <1>4, <1>6, <1>7 DEF Contents

\* Every step keeps what is known of the array.
LEMMA StepContents == IInv /\ [Next]_vars => Contents'
<1> SUFFICES ASSUME IInv, [Next]_vars PROVE Contents'
  OBVIOUS
<1>0. TypeOK /\ Places /\ Claims /\ InRange /\ Apart /\ StartedOnce /\ NoGap /\ Contents
  BY DEF IInv, Claims
<1>t. /\ args.n \in Nat /\ MaxItems \in Nat /\ args.n <= MaxItems /\ next \in Nat
      /\ pc \in [Agents -> Labels] /\ idx \in [Agents -> Nat] /\ starts \in [Items -> Nat]
  BY <1>0, CallFacts, BatchAssumption DEF TypeOK
<1> USE <1>0, <1>t, AgentFacts
    DEF Working, itemvars, sharedvars, callervars, history, Goto, Return
<1>1. ASSUME RejectCall PROVE Contents'
  <2>1. /\ \A i \in Items : Pristine(i)
        /\ result' = "INVALID_ARGUMENT" /\ UNCHANGED <<args, status, hashes, starts, idx>>
        /\ pc' = [pc EXCEPT ![Caller] = "returned"]
    BY <1>1 DEF RejectCall, Contents, Spared
  <2>2. Finished' = {}
    BY <2>1 DEF Finished, Pristine
  <2>3. Spared' /\ Unstarted' /\ Settled'
    BY <2>1, <2>2 DEF Spared, Unstarted, Settled, Pristine
  <2>4. Halfway'
    BY <2>1 DEF Halfway, Contents
  <2> QED
    BY <2>3, <2>4 DEF Contents
<1>2. ASSUME EmptyCall PROVE Contents'
  <2>1. /\ \A i \in Items : Pristine(i)
        /\ result' = "SUCCESS" /\ UNCHANGED <<args, status, hashes, starts, idx>>
        /\ pc' = [pc EXCEPT ![Caller] = "returned"] /\ args.n = 0
    BY <1>2 DEF EmptyCall, Contents, Spared
  <2>2. Finished' = {}
    BY <2>1 DEF Finished, Pristine
  <2>3. InCall' = {}
    BY <2>1 DEF InCall
  <2>4. Spared' /\ Unstarted' /\ Settled'
    BY <2>1, <2>2, <2>3 DEF Spared, Unstarted, Settled, Pristine
  <2>5. Halfway'
    BY <2>1 DEF Halfway, Contents
  <2> QED
    BY <2>4, <2>5 DEF Contents
<1>3. ASSUME BeginBatch PROVE Contents'
  <2>1. /\ \A i \in Items : Pristine(i)
        /\ UNCHANGED <<args, starts, idx, result>> /\ result = "none"
        /\ \E label \in {"alloc", "create"} : pc' = [pc EXCEPT ![Caller] = label]
    BY <1>3, CallIsRunning DEF BeginBatch, Contents, Spared
  <2>2. \A i \in Items : /\ i \in 0..(args.n - 1) =>
                               status'[i] = "ALLOCATION_FAILED" /\ hashes'[i] = "zero"
                         /\ i \notin 0..(args.n - 1) =>
                               status'[i] = status[i] /\ hashes'[i] = hashes[i]
    BY <1>3 DEF BeginBatch, Reset
  <2>3. Finished' = {}
    BY <2>1 DEF Finished, Pristine
  <2>4. InCall = 0..(args.n - 1) /\ InCall' = InCall /\ \A i \in InCall : i \in Items
    BY <2>1, CallFacts DEF InCall, TypeOK
  <2>5. Spared'
    BY <2>1, <2>2, <2>4 DEF Spared, Pristine
  <2>6. Unstarted'
    BY <2>1, <2>2, <2>4 DEF Unstarted, Untouched, Rest
  <2>7. \A a \in Agents : pc'[a] \notin Working
    <3>1. \A w \in Workers : pc[w] = "unborn"
      BY <1>3 DEF BeginBatch, Places
    <3> QED
      BY <2>1, <3>1
  <2>8. Halfway' /\ Settled'
    BY <2>3, <2>7 DEF Halfway, Settled
  <2> QED
    BY <2>5, <2>6, <2>8 DEF Contents
<1>4. ASSUME AllocThreads PROVE Contents'
  <2>1. result = "none"
    BY <1>4, CallIsRunning DEF AllocThreads
  <2>2. /\ UNCHANGED <<args, status, hashes, starts, idx>> /\ pc[Caller] = "alloc"
        /\ result' \in {"none", "ALLOCATION_FAILED"}
        /\ \E label \in {"returned", "spawn"} : pc' = [pc EXCEPT ![Caller] = label]
    BY <1>4, <2>1 DEF AllocThreads
  <2> QED
    BY <2>1, <2>2, ContentsKeptBy
<1>5. ASSUME NEW created \in BOOLEAN, Spawn(created) PROVE Contents'
  <2>1. slot \in Workers /\ pc[slot] = "unborn"
    BY <1>5, SpawnTakes
  <2>2. /\ UNCHANGED <<args, status, hashes, starts, idx, result>>
        /\ pc' = [pc EXCEPT ![slot] = IF created THEN "create" ELSE "unborn"]
    BY <1>5, <2>1 DEF Spawn
  <2> QED
    BY <2>1, <2>2, ContentsKeptBy
<1>6. ASSUME JoinWorkers PROVE Contents'
  <2>1. /\ result = "none" /\ pc[Caller] = "spawn"
        /\ UNCHANGED <<args, starts, idx>>
    BY <1>6, CallIsRunning DEF JoinWorkers, JoinAs
  <2>2. CASE spawned = {} \/ ready = 0
    <3>1. /\ result' = "ALLOCATION_FAILED" /\ UNCHANGED <<status, hashes>>
          /\ pc' = [pc EXCEPT ![Caller] = "returned"]
      BY <1>6, <2>2 DEF JoinWorkers, JoinAs
    <3> QED
      BY <2>1, <3>1, ContentsKeptBy
  <2>3. CASE ~(spawned = {} \/ ready = 0)
    <3>1. Finish(Claimed)
      BY <1>6, <2>3 DEF JoinWorkers, JoinAs
    <3> QED
      BY <1>6, <2>1, <2>3, <3>1, Joined, ContentsFinished
  <2> QED
    BY <2>2, <2>3
<1>7. ASSUME FinishSequential PROVE Contents'
  <2>1. /\ result = "none" /\ pc[Caller] = "free" /\ Finish(idx[Caller])
        /\ UNCHANGED <<args, starts, idx>>
    BY <1>7, CallIsRunning DEF FinishSequential
  <2>2. spawned = {} /\ \A w \in Workers : pc[w] = "unborn"
    BY <2>1 DEF Places
  <2>3. \A a \in Agents : pc[a] \notin Working \cup {"count"}
    BY <2>1, <2>2
  <2>4. idx[Caller] \in Nat /\ idx[Caller] <= args.n
    BY DEF InRange
  <2> QED
    BY <2>1, <2>2, <2>3, <2>4, StartedPrefix, ContentsFinished
<1>8. ASSUME NEW a \in Agents, CreateContextFails(a) \/ CreateContext(a) PROVE Contents'
  <2>1. pc[a] = "create" /\ result = "none"
    BY <1>8, CallIsRunning DEF CreateContextFails, CreateContext
  <2>2. /\ UNCHANGED <<args, status, hashes, starts, idx>>
        /\ result' \in {"none", "ALLOCATION_FAILED"}
        /\ \E label \in {"returned", "exited", "ask", "announce"} : pc' = [pc EXCEPT ![a] = label]
    BY <1>8, <2>1 DEF CreateContextFails, CreateContext
  <2> QED
    BY <2>1, <2>2, ContentsKeptBy
<1>9. ASSUME NEW a \in Agents, MayContinue(a) \/ Refuse(a) \/ Notify(a) PROVE Contents'
  <2>1. /\ UNCHANGED <<args, status, hashes, starts, idx, result>>
        /\ pc[a] \in {"ask", "notify"}
        /\ \E label \in {"load", "claim", "free", "stopping", "ask", "check"} :
                pc' = [pc EXCEPT ![a] = label]
    BY <1>9 DEF MayContinue, ContinueIf, Refuse, Notify
  <2> QED
    BY <2>1, ContentsKeptBy
<1>10. ASSUME LoopEnds \/ CountStarted PROVE Contents'
  <2>1. /\ UNCHANGED <<args, status, hashes, starts, result>>
        /\ pc[Caller] \in {"ask", "count"}
        /\ \E label \in {"free", "notify", "ask"} : pc' = [pc EXCEPT ![Caller] = label]
        /\ \A w \in Workers : idx'[w] = idx[w]
    BY <1>10 DEF LoopEnds, CountStarted
  <2> QED
    BY <2>1, ContentsKeptBy
<1>11. ASSUME NEW w \in Workers, Announce(w) \/ CheckStop(w) \/ StoreStop(w) \/ FreeContext(w)
       PROVE  Contents'
  <2>1. /\ UNCHANGED <<args, status, hashes, starts, idx, result>>
        /\ pc[w] \in {"announce", "check", "stopping", "free"}
        /\ \E label \in {"check", "free", "ask", "exited"} : pc' = [pc EXCEPT ![w] = label]
    BY <1>11 DEF Announce, CheckStop, CheckStopThen, StoreStop, FreeContext
  <2> QED
    BY <2>1, ContentsKeptBy
<1>12. ASSUME NEW w \in Workers, Claim(w) \/ CountDone(w) PROVE Contents'
  <2>1. /\ UNCHANGED <<args, status, hashes, starts, result>>
        /\ pc[w] \in {"claim", "count"}
        /\ \E label \in {"free", "load", "notify", "check"} : pc' = [pc EXCEPT ![w] = label]
        /\ \A a \in Agents : a # w => idx'[a] = idx[a]
    BY <1>12 DEF Claim, ClaimLeaving, CountDone, CountLeaving
  <2> QED
    BY <2>1, ContentsKeptBy
<1>13. ASSUME NEW a \in Agents, Process(a) PROVE Contents'
  BY <1>13, ProcessContents
<1>14. CASE UNCHANGED vars
  BY <1>14, ContentsKept DEF vars, Working
<1> QED
  BY <1>1, <1>2, <1>3, <1>4, <1>5, <1>6, <1>7, <1>8, <1>9, <1>10, <1>11, <1>12, <1>13, <1>14
  DEF Next, CallerStep, Worker, Over

-----------------------------------------------------------------------------
\* Every step keeps the reasons to stop.
LEMMA StepRefusals == IInv /\ [Next]_vars => Refusals'
<1> SUFFICES ASSUME IInv, [Next]_vars PROVE Refusals'
  OBVIOUS
<1>0. TypeOK /\ Places /\ Claims /\ Refusals
  BY DEF IInv, Verdicts
<1>t. /\ args.n \in Nat /\ pc \in [Agents -> Labels] /\ idx \in [Agents -> Nat]
      /\ stop \in BOOLEAN /\ refused \in BOOLEAN
  BY <1>0, CallFacts DEF TypeOK
<1> USE <1>0, <1>t, AgentFacts
    DEF Refusals, itemvars, sharedvars, callervars, history, Goto, Return
<1>1. ASSUME RejectCall \/ EmptyCall \/ BeginBatch \/ AllocThreads \/ LoopEnds PROVE Refusals'
  BY <1>1 DEF RejectCall, EmptyCall, BeginBatch, AllocThreads, LoopEnds
<1>2. ASSUME NEW created \in BOOLEAN, Spawn(created) PROVE Refusals'
  <2>1. /\ UNCHANGED <<stop, refused, idx, args>>
        /\ \/ pc' = pc
           \/ pc' = [pc EXCEPT ![slot] = "create"]
    BY <1>2 DEF Spawn
  <2> QED
    BY <2>1
<1>3. ASSUME JoinWorkers \/ FinishSequential PROVE Refusals'
  <2>1. UNCHANGED <<stop, refused, idx, args>> /\ pc' = [pc EXCEPT ![Caller] = "returned"]
    BY <1>3 DEF JoinWorkers, JoinAs, FinishSequential, Finish
  <2> QED
    BY <2>1
<1>4. ASSUME NEW a \in Agents, CreateContextFails(a) \/ CreateContext(a) PROVE Refusals'
  BY <1>4 DEF CreateContextFails, CreateContext
<1>5. ASSUME NEW a \in Agents, MayContinue(a) PROVE Refusals'
  BY <1>5 DEF MayContinue, ContinueIf
<1>6. ASSUME NEW a \in Agents, Refuse(a) PROVE Refusals'
  BY <1>6 DEF Refuse
<1>7. ASSUME NEW a \in Agents, Process(a) PROVE Refusals'
  BY <1>7
  DEF Process, LoadFails, Load, Compute, ComputeFails, ComputeFailsThen, ClearHashes
<1>8. ASSUME CountStarted PROVE Refusals'
  BY <1>8 DEF CountStarted
<1>9. ASSUME NEW a \in Agents, Notify(a) PROVE Refusals'
  BY <1>9 DEF Notify
<1>10. ASSUME NEW w \in Workers, Announce(w) \/ CheckStop(w) \/ StoreStop(w) PROVE Refusals'
  BY <1>10 DEF Announce, CheckStop, CheckStopThen, StoreStop
<1>11. ASSUME NEW w \in Workers, Claim(w) PROVE Refusals'
  <2>1. /\ UNCHANGED <<stop, refused, args>> /\ idx'[Caller] = idx[Caller]
        /\ \E label \in {"free", "load"} : pc' = [pc EXCEPT ![w] = label]
    BY <1>11 DEF Claim, ClaimLeaving
  <2> QED
    BY <2>1
<1>12. ASSUME NEW w \in Workers, CountDone(w) \/ FreeContext(w) PROVE Refusals'
  BY <1>12 DEF CountDone, CountLeaving, FreeContext
<1>13. CASE UNCHANGED vars
  BY <1>13 DEF vars
<1> QED
  BY <1>1, <1>2, <1>3, <1>4, <1>5, <1>6, <1>7, <1>8, <1>9, <1>10, <1>11, <1>12, <1>13
  DEF Next, CallerStep, Worker, Over

\* Every step keeps what `workers_ready` says.
LEMMA StepReadiness == IInv /\ [Next]_vars => Readiness'
<1> SUFFICES ASSUME IInv, [Next]_vars PROVE Readiness'
  OBVIOUS
<1>0. TypeOK /\ Places /\ Refusals /\ Readiness
  BY DEF IInv, Verdicts
<1>t. /\ args.n \in Nat /\ pc \in [Agents -> Labels] /\ ready \in Nat /\ next \in Nat
      /\ stop \in BOOLEAN /\ refused \in BOOLEAN
  BY <1>0, CallFacts DEF TypeOK
<1> USE <1>0, <1>t, AgentFacts
    DEF Readiness, Active, Working, itemvars, sharedvars, callervars, history, Goto, Return
\* The caller's own steps do not count.
<1>1. ASSUME UNCHANGED <<args, ready, next>>, refused => refused',
             \A w \in Workers : pc'[w] = pc[w]
      PROVE  Readiness'
  BY <1>1
<1>2. ASSUME RejectCall \/ EmptyCall \/ BeginBatch \/ AllocThreads \/ LoopEnds \/ CountStarted
      PROVE  Readiness'
  <2>1. UNCHANGED <<args, ready, next, refused>> /\ \A w \in Workers : pc'[w] = pc[w]
    BY <1>2 DEF RejectCall, EmptyCall, BeginBatch, AllocThreads, LoopEnds, CountStarted
  <2> QED
    BY <1>1, <2>1
<1>3. ASSUME JoinWorkers \/ FinishSequential PROVE Readiness'
  <2>1. UNCHANGED <<args, ready, next, refused>> /\ pc' = [pc EXCEPT ![Caller] = "returned"]
    BY <1>3 DEF JoinWorkers, JoinAs, FinishSequential, Finish
  <2> QED
    BY <1>1, <2>1
<1>4. ASSUME NEW created \in BOOLEAN, Spawn(created) PROVE Readiness'
  <2>1. /\ UNCHANGED <<args, ready, next, refused>>
        /\ \/ pc' = pc
           \/ pc' = [pc EXCEPT ![slot] = "create"] /\ slot \notin spawned
    BY <1>4 DEF Spawn, TypeOK, Places
  <2>2. \A w \in Workers : pc'[w] = pc[w] \/ (pc[w] = "unborn" /\ pc'[w] = "create")
    BY <2>1 DEF Places
  <2> QED
    BY <2>1, <2>2
<1>5. ASSUME NEW a \in Agents, CreateContextFails(a) \/ CreateContext(a) PROVE Readiness'
  <2>1. /\ UNCHANGED <<args, ready, next, refused>> /\ pc[a] = "create"
        /\ \A w \in Workers : pc'[w] = pc[w] \/ (w = a /\ pc'[w] \in {"exited", "announce"})
    BY <1>5 DEF CreateContextFails, CreateContext
  <2> QED
    BY <2>1
<1>6. ASSUME NEW a \in Agents, MayContinue(a) PROVE Readiness'
  <2>1. /\ UNCHANGED <<args, ready, next, refused>> /\ pc[a] = "ask"
        /\ \A w \in Workers : pc'[w] = pc[w] \/ (w = a /\ pc'[w] = "claim")
    BY <1>6 DEF MayContinue, ContinueIf
  <2> QED
    BY <2>1
<1>7. ASSUME NEW a \in Agents, Refuse(a) PROVE Readiness'
  <2>1. /\ UNCHANGED <<args, ready, next>> /\ refused' /\ pc[a] = "ask"
        /\ \A w \in Workers : pc'[w] = pc[w] \/ w = a
    BY <1>7 DEF Refuse
  <2> QED
    BY <2>1
<1>8. ASSUME NEW a \in Agents, Process(a) PROVE Readiness'
  <2>1. /\ UNCHANGED <<args, ready, next, refused>> /\ pc[a] \in Working
        /\ \A w \in Workers : pc'[w] = pc[w] \/ (w = a /\ pc'[w] \in Active)
    BY <1>8
    DEF Process, LoadFails, Load, Compute, ComputeFails, ComputeFailsThen, ClearHashes
  <2> QED
    BY <2>1
<1>9. ASSUME NEW a \in Agents, Notify(a) PROVE Readiness'
  <2>1. /\ UNCHANGED <<args, ready, next, refused>> /\ pc[a] = "notify"
        /\ \A w \in Workers : pc'[w] = pc[w] \/ (w = a /\ pc'[w] = "check")
    BY <1>9 DEF Notify
  <2> QED
    BY <2>1
<1>10. ASSUME NEW w \in Workers, Announce(w) PROVE Readiness'
  <2>1. ready' = ready + 1 /\ pc'[w] = "check"
    BY <1>10 DEF Announce
  <2> QED
    BY <2>1
<1>11. ASSUME NEW w \in Workers, CheckStop(w) PROVE Readiness'
  <2>1. /\ UNCHANGED <<args, ready, next, refused>> /\ pc[w] = "check"
        /\ \A v \in Workers : pc'[v] = pc[v] \/ v = w
        /\ stop \/ pc'[w] = "ask"
    BY <1>11 DEF CheckStop, CheckStopThen
  <2> QED
    BY <2>1 DEF Refusals
<1>12. ASSUME NEW w \in Workers, StoreStop(w) \/ FreeContext(w) PROVE Readiness'
  <2>1. /\ UNCHANGED <<args, ready, next, refused>> /\ pc[w] \in {"stopping", "free"}
        /\ \A v \in Workers : v # w => pc'[v] = pc[v]
    BY <1>12 DEF StoreStop, FreeContext
  <2> QED
    BY <2>1
<1>13. ASSUME NEW w \in Workers, Claim(w) PROVE Readiness'
  <2>1. /\ UNCHANGED <<args, ready, refused>> /\ pc[w] = "claim" /\ next' = next + 1
        /\ \A v \in Workers : v # w => pc'[v] = pc[v]
        /\ next >= args.n \/ pc'[w] = "load"
    BY <1>13 DEF Claim, ClaimLeaving
  <2> QED
    BY <2>1
<1>14. ASSUME NEW w \in Workers, CountDone(w) PROVE Readiness'
  <2>1. /\ UNCHANGED <<args, ready, next, refused>> /\ pc[w] = "count"
        /\ \A v \in Workers : pc'[v] = pc[v] \/ (v = w /\ pc'[v] \in {"notify", "check"})
    BY <1>14 DEF CountDone, CountLeaving
  <2> QED
    BY <2>1
<1>15. CASE UNCHANGED vars
  BY <1>15 DEF vars
<1> QED
  BY <1>2, <1>3, <1>4, <1>5, <1>6, <1>7, <1>8, <1>9, <1>10, <1>11, <1>12, <1>13, <1>14, <1>15
  DEF Next, CallerStep, Worker, Over

\* Before anything is taken nothing is started.
LEMMA NothingStarted ==
    ASSUME TypeOK, Claims, pc[Caller] \notin {"compute", "clear", "count"},
           idx[Caller] = 0, next = 0
    PROVE  \A i \in InCall : starts[i] = 0
<1>1. \A i \in InCall : i \in Items /\ i \in Nat
  BY CallFacts DEF TypeOK
<1> QED
  BY <1>1 DEF Claims, StartedOnce

\* What the verdict of ph_hash_batch() tells, once the first k items are known to be
\* the started ones.
LEMMA FinishTells ==
    ASSUME TypeOK, NEW k \in Nat, Finish(k), k <= args.n, UNCHANGED <<args, starts>>,
           \A i \in InCall : starts[i] = 1 <=> i < k,
           k < args.n => refused, refused' = refused
    PROVE  Told'
<1>0. args.n \in Nat /\ InCall' = InCall /\ \A i : i \in InCall <=> i \in Nat /\ i < args.n
  BY CallFacts DEF TypeOK, InCall
<1>1. CASE k = args.n
  <2>1. result' = "SUCCESS"
    BY <1>1 DEF Finish, Return
  <2> QED
    BY <1>0, <1>1, <2>1 DEF Told
<1>2. CASE k # args.n
  <2>1. result' = "CANCELLED" /\ k < args.n
    BY <1>0, <1>2 DEF Finish, Return
  <2>2. k \in InCall /\ refused'
    BY <1>0, <2>1
  <2>3. \A i \in InCall : starts'[i] = 1 <=> i < k
    OBVIOUS
  <2> QED
    BY <1>0, <2>1, <2>2, <2>3 DEF Told
<1> QED
  BY <1>1, <1>2

\* Every step keeps what the result tells.
LEMMA StepTold == IInv /\ [Next]_vars => Told'
<1> SUFFICES ASSUME IInv, [Next]_vars PROVE Told'
  OBVIOUS
<1>0. TypeOK /\ Places /\ Claims /\ InRange /\ Refusals /\ Readiness /\ Told
  BY DEF IInv, Verdicts, Claims
<1> USE <1>0, AgentFacts
<1>1. ASSUME RejectCall PROVE Told'
  BY <1>1 DEF RejectCall, Return, Told
<1>2. ASSUME EmptyCall PROVE Told'
  <2>1. result' = "SUCCESS" /\ args' = args /\ args.n = 0
    BY <1>2 DEF EmptyCall, Return
  <2>2. InCall' = {}
    BY <2>1 DEF InCall
  <2> QED
    BY <2>1, <2>2 DEF Told
<1>3. ASSUME AllocThreads PROVE Told'
  <2>1. /\ pc[Caller] = "alloc" /\ idx[Caller] = 0 /\ next = 0 /\ result = "none"
        /\ UNCHANGED <<args, starts>> /\ result' \in {"none", "ALLOCATION_FAILED"}
    BY <1>3, CallIsRunning DEF AllocThreads, Return, Goto, Places, itemvars
  <2>2. InCall' = InCall /\ \A i \in InCall : starts'[i] = 0
    BY <2>1, NothingStarted DEF InCall
  <2> QED
    BY <2>1, <2>2 DEF Told
<1>4. ASSUME NEW a \in Agents, CreateContextFails(a) PROVE Told'
  <2>1. CASE a = Caller
    <3>1. /\ pc[Caller] = "create" /\ idx[Caller] = 0 /\ next = 0
          /\ UNCHANGED <<args, starts>> /\ result' = "ALLOCATION_FAILED"
      BY <1>4, <2>1 DEF CreateContextFails, Return, Places, itemvars
    <3>2. InCall' = InCall /\ \A i \in InCall : starts'[i] = 0
      BY <3>1, NothingStarted DEF InCall
    <3> QED
      BY <3>1, <3>2 DEF Told
  <2>2. CASE a # Caller
    <3>1. result = "none" /\ result' = result
      BY <1>4, <2>2, CallIsRunning DEF CreateContextFails
    <3> QED
      BY <3>1 DEF Told
  <2> QED
    BY <2>1, <2>2
<1>5. ASSUME JoinWorkers PROVE Told'
  <2>0. UNCHANGED <<args, starts, refused>>
    BY <1>5 DEF JoinWorkers, JoinAs, history
  <2>1. CASE spawned = {} \/ ready = 0
    <3>1. result' = "ALLOCATION_FAILED"
      BY <1>5, <2>1 DEF JoinWorkers, JoinAs, Return
    <3>2. next = 0
      BY <2>1 DEF Places, Readiness
    <3>3. InCall' = InCall /\ \A i \in InCall : starts'[i] = 0
      BY <1>5, <2>0, <3>2, Joined DEF InCall
    <3> QED
      BY <3>1, <3>3 DEF Told
  <2>2. CASE ~(spawned = {} \/ ready = 0)
    <3>1. Finish(Claimed)
      BY <1>5, <2>2 DEF JoinWorkers, JoinAs
    <3>2. ready > 0
      BY <2>2 DEF TypeOK
    <3>3. \A w \in Workers : pc[w] \notin Active
      BY <1>5, Joined DEF Active, Working
    <3>4. refused \/ next >= args.n
      BY <3>2, <3>3 DEF Readiness
    <3>5. args.n \in Nat /\ next \in Nat
      BY CallFacts DEF TypeOK
    <3>6. Claimed < args.n => refused
      BY <3>4, <3>5 DEF Claimed
    <3> QED
      BY <1>5, <2>0, <2>2, <3>1, <3>6, Joined, FinishTells
  <2> QED
    BY <2>1, <2>2
<1>6. ASSUME FinishSequential PROVE Told'
  <2>1. /\ pc[Caller] = "free" /\ Finish(idx[Caller]) /\ UNCHANGED <<args, starts, refused>>
    BY <1>6 DEF FinishSequential, history
  <2>2. spawned = {} /\ \A w \in Workers : pc[w] = "unborn"
    BY <2>1 DEF Places
  <2>3. \A a \in Agents : pc[a] \notin Working \cup {"count"}
    BY <2>1, <2>2 DEF Working
  <2>4. \A i \in InCall : starts[i] = 1 <=> i < idx[Caller]
    BY <2>2, <2>3, StartedPrefix
  <2>5. idx[Caller] \in Nat /\ idx[Caller] <= args.n /\ (idx[Caller] < args.n => refused)
    BY <2>1 DEF TypeOK, InRange, Refusals
  <2> QED
    BY <2>1, <2>4, <2>5, FinishTells
\* Every other step belongs to a call that goes on.
<1>7. ASSUME NEW a \in Agents, pc[a] \notin {"unborn", "exited", "returned"}, result' = result
      PROVE  Told'
  <2>1. result = "none"
    BY <1>7, CallIsRunning
  <2> QED
    BY <1>7, <2>1 DEF Told
<1>8. ASSUME BeginBatch \/ (\E created \in BOOLEAN : Spawn(created)) \/ LoopEnds \/ CountStarted
      PROVE  Told'
  <2>1. pc[Caller] \in {"validate", "spawn", "ask", "count"} /\ result' = result
    BY <1>8 DEF BeginBatch, Spawn, LoopEnds, CountStarted, callervars
  <2> QED
    BY <1>7, <2>1
<1>9. ASSUME NEW a \in Agents,
             CreateContext(a) \/ MayContinue(a) \/ Refuse(a) \/ Process(a) \/ Notify(a)
      PROVE  Told'
  <2>1. pc[a] \in Working \cup {"create", "ask", "notify"} /\ result' = result
    BY <1>9
    DEF CreateContext, MayContinue, ContinueIf, Refuse, Notify, Process, LoadFails, Load,
        Compute, ComputeFails, ComputeFailsThen, ClearHashes, callervars, Working
  <2> QED
    BY <1>7, <2>1 DEF Working
<1>10. ASSUME NEW w \in Workers,
              \/ Announce(w) \/ CheckStop(w) \/ StoreStop(w)
              \/ Claim(w) \/ CountDone(w) \/ FreeContext(w)
       PROVE  Told'
  <2>1. pc[w] \in {"announce", "check", "stopping", "claim", "count", "free"} /\ result' = result
    BY <1>10
    DEF Announce, CheckStop, CheckStopThen, StoreStop, Claim, ClaimLeaving, CountDone,
        CountLeaving, FreeContext, callervars
  <2> QED
    BY <1>7, <2>1
<1>11. CASE UNCHANGED vars
  BY <1>11 DEF vars, itemvars, callervars, history, Told, InCall
<1> QED
  BY <1>1, <1>2, <1>3, <1>4, <1>5, <1>6, <1>8, <1>9, <1>10, <1>11
  DEF Next, CallerStep, Worker, Over

-----------------------------------------------------------------------------
\* The initial states satisfy the inductive invariant.
LEMMA InitInvariant == Init => IInv
<1> SUFFICES ASSUME Init PROVE IInv
  OBVIOUS
<1> USE AgentFacts
<1>1. TypeOK
  <2>1. pc \in [Agents -> Labels]
    BY DEF Init, Labels
  <2>2. /\ status \in [Items -> Statuses] /\ hashes \in [Items -> Slots]
        /\ starts \in [Items -> Nat] /\ reported \in [1..MaxItems -> Nat]
    BY DEF Init, Statuses, Slots
  <2>3. slot \in 1..(MaxThreads + 1)
    BY BatchAssumption DEF Init
  <2> QED
    BY <2>1, <2>2, <2>3 DEF Init, TypeOK, Results
<1>2. /\ pc[Caller] = "validate" /\ \A w \in Workers : pc[w] = "unborn"
      /\ \A a \in Agents : idx[a] = 0 /\ pc[a] \notin Working
      /\ args.n \in Nat
  BY <1>1, CallFacts DEF Init, Working, TypeOK
<1>3. Places
  BY <1>2 DEF Init, Places, Returned
<1>4. Claims
  BY <1>2, CallFacts DEF Init, Claims, InRange, Apart, StartedOnce, NoGap, Working, Items
<1>5. Contents
  <2>1. Finished = {}
    BY DEF Init, Finished
  <2> QED
    BY <1>2, <2>1
    DEF Init, Contents, Spared, Unstarted, Halfway, Settled, Pristine, Working
<1>6. Verdicts
  BY <1>2 DEF Init, Verdicts, Refusals, Readiness, Told
<1> QED
  BY <1>1, <1>3, <1>4, <1>5, <1>6 DEF IInv

\* The inductive invariant holds throughout.
THEOREM InductiveInvariant == Spec => []IInv
<1>1. IInv /\ [Next]_vars => IInv'
  BY StepTyping, StepPlaces, StepClaims, StepContents, StepRefusals, StepReadiness, StepTold
  DEF IInv, Verdicts
<1> QED
  BY InitInvariant, <1>1, PTL DEF Spec

\* The atomics, the items and the places of the threads keep their types, for any
\* number of items and workers.
THEOREM TypeCorrect == Spec => []TypeOK
<1>1. IInv => TypeOK
  BY DEF IInv
<1> QED
  BY InductiveInvariant, <1>1, PTL

\* However many workers race, the fetch-and-add on `next` hands every item to one
\* thread, once.
THEOREM ItemsProcessedOnce == Spec => []EachItemOnce
<1>1. IInv => EachItemOnce
  <2> SUFFICES ASSUME IInv PROVE EachItemOnce
    OBVIOUS
  <2>1. \A i \in Items : starts[i] <= 1
    BY DEF IInv, Claims, StartedOnce
  <2>2. \A a, b \in Agents :
           (a # b /\ pc[a] \in Working /\ pc[b] \in Working) => idx[a] # idx[b]
    BY HeldApart DEF IInv, Claims
  <2> QED
    BY <2>1, <2>2 DEF EachItemOnce
<1> QED
  BY InductiveInvariant, <1>1, PTL

\* When the call has returned, every worker that was created has been waited for and
\* every context is freed.
THEOREM ReturnIsQuiet == Spec => []QuietAfterReturn
<1>1. IInv => QuietAfterReturn
  <2> SUFFICES ASSUME IInv, Returned PROVE QuietAfterReturn
    BY DEF QuietAfterReturn
  <2>1. \A w \in Workers : pc[w] \in {"unborn", "exited"}
    BY DEF IInv, Places
  <2>2. \A a \in Agents : pc[a] \notin Active \cup {"announce", "stopping", "free"}
    BY <2>1, AgentFacts DEF Returned, Active, Working
  <2>3. contexts = {}
    BY <2>2 DEF IInv, TypeOK, Places
  <2> QED
    BY <2>1, <2>3 DEF QuietAfterReturn
<1> QED
  BY InductiveInvariant, <1>1, PTL

\* What the caller is told is true of its array, whichever threads, contexts and
\* items failed and wherever the batch was cancelled.
THEOREM ResultIsTrue == Spec => []ResultTellsItems
<1>1. IInv => ResultTellsItems
  <2> SUFFICES ASSUME IInv PROVE ResultTellsItems
    OBVIOUS
  <2> USE AgentFacts DEF IInv
  <2>1. /\ args.n \in Nat
        /\ \A i \in InCall : i \in Items /\ i \in Nat /\ i < args.n
        /\ \A i : i \in InCall <=> i \in Nat /\ i < args.n
    BY CallFacts DEF TypeOK
  <2>2. ASSUME result # "none" PROVE \A a \in Agents : pc[a] \notin Working
    <3>1. Returned /\ \A w \in Workers : pc[w] \in {"unborn", "exited"}
      BY <2>2 DEF Places
    <3> QED
      BY <3>1 DEF Returned, Working
  <2>3. ASSUME result # "none", NEW i \in InCall, starts[i] = 1 PROVE Processed(i)
    <3>1. i \in Finished
      BY <2>1, <2>2, <2>3 DEF Finished
    <3> QED
      BY <2>3, <3>1 DEF Processed, Contents, Settled, Agrees
  <2>4. ASSUME result # "none", result # "INVALID_ARGUMENT", NEW i \in InCall, starts[i] = 0
        PROVE  Untouched(i, Rest)
    <3>1. pc[Caller] # "validate"
      BY <2>4 DEF Places, Returned
    <3> QED
      BY <2>4, <3>1 DEF Contents, Unstarted
  <2>5. result = "SUCCESS" => \A i \in InCall : Processed(i)
    BY <2>3 DEF Verdicts, Told
  <2>6. ASSUME result = "CANCELLED"
        PROVE  refused /\ \E k \in InCall : /\ \A i \in 0..(k - 1) : Processed(i)
                                            /\ \A i \in k..(args.n - 1) : Untouched(i, "CANCELLED")
    <3>1. PICK k \in InCall : \A i \in InCall : starts[i] = 1 <=> i < k
      BY <2>6 DEF Verdicts, Told
    <3>2. \A i \in 0..(k - 1) : i \in InCall /\ starts[i] = 1
      BY <2>1, <3>1
    <3>3. \A i \in k..(args.n - 1) : i \in InCall /\ starts[i] = 0
      BY <2>1, <3>1 DEF Claims, StartedOnce
    <3>4. \A i \in 0..(k - 1) : Processed(i)
      BY <2>3, <2>6, <3>2
    <3>5. \A i \in k..(args.n - 1) : Untouched(i, "CANCELLED")
      BY <2>4, <2>6, <3>3 DEF Rest
    <3> QED
      BY <2>6, <3>4, <3>5 DEF Verdicts, Told
  <2>7. result = "ALLOCATION_FAILED" => \A i \in InCall : Untouched(i, "ALLOCATION_FAILED")
    BY <2>4 DEF Verdicts, Told, Rest
  <2>8. \A i \in Items : (result = "INVALID_ARGUMENT" \/ i \notin InCall) =>
           starts[i] = 0 /\ status[i] = "STALE" /\ hashes[i] = "stale"
    BY DEF Contents, Spared, Pristine
  <2> QED
    BY <2>5, <2>6, <2>7, <2>8 DEF ResultTellsItems
<1> QED
  BY InductiveInvariant, <1>1, PTL

\* A caller never finds half of an item's hashes, nor a hash in an item that failed
\* or was not started.
THEOREM HashesWholeOrZero == Spec => []NoPartialHashes
<1>1. IInv => NoPartialHashes
  <2> SUFFICES ASSUME IInv, Returned, result # "INVALID_ARGUMENT", NEW i \in InCall
               PROVE  hashes[i] = (IF status[i] = "SUCCESS" THEN "real" ELSE "zero")
    BY DEF NoPartialHashes
  <2> USE AgentFacts DEF IInv
  <2>1. i \in Items
    BY CallFacts DEF TypeOK
  <2>2. CASE starts[i] = 0
    BY <2>2 DEF Contents, Unstarted, Untouched, Rest, Returned
  <2>3. CASE starts[i] = 1
    <3>1. \A a \in Agents : pc[a] \notin Working
      BY DEF Places, Returned, Working
    <3>2. i \in Finished
      BY <2>1, <2>3, <3>1 DEF Finished
    <3> QED
      BY <3>2 DEF Contents, Settled, Agrees
  <2> QED
    BY <2>1, <2>2, <2>3 DEF Claims, StartedOnce
<1> QED
  BY InductiveInvariant, <1>1, PTL

-----------------------------------------------------------------------------
\* What a step must leave alone.
FinishedKept ==
    \A i \in Items : i \in Finished =>
        (i \in Finished' /\ status'[i] = status[i] /\ hashes'[i] = hashes[i])

\* A step that starts no computation touches no finished item if it writes none.
LEMMA KeptByOthers ==
    ASSUME TypeOK, StartedOnce', starts' = starts,
           \A i \in Finished : status'[i] = status[i] /\ hashes'[i] = hashes[i],
           \A a \in Agents : pc'[a] \in {"compute", "clear"} => pc[a] = pc'[a] /\ idx'[a] = idx[a]
    PROVE  FinishedKept
<1> SUFFICES ASSUME NEW i \in Finished PROVE i \in Finished'
  BY DEF FinishedKept
<1>1. i \in Items /\ starts'[i] > 0
  BY DEF Finished
<1>2. ASSUME NEW a \in Agents, pc'[a] \in Working, idx'[a] = i PROVE FALSE
  <2>1. CASE pc'[a] = "load"
    BY <1>1, <1>2, <2>1 DEF StartedOnce
  <2>2. CASE pc'[a] \in {"compute", "clear"}
    BY <1>2, <2>2 DEF Finished, Working
  <2> QED
    BY <1>2, <2>1, <2>2 DEF Working
<1> QED
  BY <1>1, <1>2 DEF Finished

\* No step touches a finished item.
LEMMA StepKeepsFinished == IInv /\ [Next]_vars => FinishedKept
<1> SUFFICES ASSUME IInv, [Next]_vars PROVE FinishedKept
  OBVIOUS
<1>0. /\ TypeOK /\ Places /\ Claims /\ StartedOnce /\ Contents /\ StartedOnce'
      /\ pc \in [Agents -> Labels] /\ idx \in [Agents -> Nat]
  BY StepClaims DEF IInv, Claims, TypeOK
<1> USE <1>0, AgentFacts DEF itemvars, callervars, Goto, Return
<1>1. ASSUME BeginBatch PROVE FinishedKept
  <2>1. pc[Caller] = "validate"
    BY <1>1 DEF BeginBatch
  <2>2. Finished = {}
    BY <2>1 DEF Contents, Spared, Pristine, Finished
  <2> QED
    BY <2>2 DEF FinishedKept
\* The reset of a cancelled batch begins at the first item that was not started.
<1>2. ASSUME NEW k \in Nat, Finish(k), UNCHANGED <<starts, idx>>, pc[Caller] \notin Working,
             \A i \in InCall : starts[i] = 1 <=> i < k
      PROVE  FinishedKept
  <2>1. \A i \in Finished : i \notin k..(args.n - 1)
    <3> SUFFICES ASSUME NEW i \in Finished, i \in k..(args.n - 1) PROVE FALSE
      OBVIOUS
    <3>1. i \in Items /\ starts[i] = 1
      BY DEF Finished, StartedOnce
    <3>2. i \in InCall
      BY <3>1, CallFacts DEF TypeOK
    <3>3. i < k
      BY <1>2, <3>1, <3>2
    <3> QED
      BY <3>3, CallFacts DEF TypeOK
  <2>2. \A i \in Finished : status'[i] = status[i] /\ hashes'[i] = hashes[i]
    <3>1. \A i \in Finished : i \in Items
      BY DEF Finished
    <3> QED
      BY <1>2, <2>1, <3>1 DEF Finish, Reset
  <2>3. pc' = [pc EXCEPT ![Caller] = "returned"]
    BY <1>2 DEF Finish
  <2> QED
    BY <1>2, <2>2, <2>3, KeptByOthers DEF Working
<1>3. ASSUME JoinWorkers PROVE FinishedKept
  <2>1. UNCHANGED <<starts, idx>> /\ pc[Caller] = "spawn"
    BY <1>3 DEF JoinWorkers, JoinAs
  <2>2. CASE spawned = {} \/ ready = 0
    <3>1. UNCHANGED <<status, hashes>> /\ pc' = [pc EXCEPT ![Caller] = "returned"]
      BY <1>3, <2>2 DEF JoinWorkers, JoinAs
    <3> QED
      BY <2>1, <3>1, KeptByOthers
  <2>3. CASE ~(spawned = {} \/ ready = 0)
    <3>1. Finish(Claimed)
      BY <1>3, <2>3 DEF JoinWorkers, JoinAs
    <3> QED
      BY <1>2, <1>3, <2>1, <2>3, <3>1, Joined DEF Working
  <2> QED
    BY <2>2, <2>3
<1>4. ASSUME FinishSequential PROVE FinishedKept
  <2>1. /\ pc[Caller] = "free" /\ Finish(idx[Caller]) /\ UNCHANGED <<starts, idx>>
        /\ idx[Caller] \in Nat
    BY <1>4 DEF FinishSequential, TypeOK
  <2>2. spawned = {} /\ \A w \in Workers : pc[w] = "unborn"
    BY <2>1 DEF Places
  <2>3. \A a \in Agents : pc[a] \notin Working \cup {"count"}
    BY <2>1, <2>2 DEF Working
  <2>4. \A i \in InCall : starts[i] = 1 <=> i < idx[Caller]
    BY <2>2, <2>3, StartedPrefix
  <2> QED
    BY <1>2, <2>1, <2>3, <2>4
\* A thread writes the item it holds, which is not finished.
<1>5. ASSUME NEW a \in Agents, Process(a) PROVE FinishedKept
  <2>1. /\ pc[a] \in Working /\ idx' = idx
        /\ \A b \in Agents : b # a => pc'[b] = pc[b]
        /\ \A i \in Items : i # idx[a] =>
               starts'[i] = starts[i] /\ status'[i] = status[i] /\ hashes'[i] = hashes[i]
    BY <1>5, ProcessTouches
  <2> SUFFICES ASSUME NEW i \in Finished
               PROVE  i \in Finished' /\ status'[i] = status[i] /\ hashes'[i] = hashes[i]
    BY DEF FinishedKept
  <2>2. i \in Items /\ i # idx[a]
    BY <2>1 DEF Finished
  <2>3. i \in Finished'
    BY <2>1, <2>2 DEF Finished
  <2> QED
    BY <2>1, <2>2, <2>3
\* Every other step writes no item.
<1>6. ASSUME UNCHANGED itemvars,
             \A a \in Agents :
                pc'[a] \in {"compute", "clear"} => pc[a] = pc'[a] /\ idx'[a] = idx[a]
      PROVE  FinishedKept
  BY <1>6, KeptByOthers
<1>7. ASSUME RejectCall \/ EmptyCall \/ AllocThreads \/ LoopEnds \/ CountStarted
      PROVE  FinishedKept
  <2>1. /\ UNCHANGED itemvars
        /\ \E label \in {"returned", "spawn", "free", "notify", "ask"} :
                pc' = [pc EXCEPT ![Caller] = label]
    BY <1>7 DEF RejectCall, EmptyCall, AllocThreads, LoopEnds, CountStarted
  <2>2. \A w \in Workers : idx'[w] = idx[w]
    BY <1>7 DEF RejectCall, EmptyCall, AllocThreads, LoopEnds, CountStarted
  <2> QED
    BY <1>6, <2>1, <2>2
<1>8. ASSUME NEW created \in BOOLEAN, Spawn(created) PROVE FinishedKept
  <2>1. /\ UNCHANGED itemvars /\ idx' = idx
        /\ pc' = pc \/ pc' = [pc EXCEPT ![slot] = "create"]
    BY <1>8 DEF Spawn
  <2> QED
    BY <1>6, <2>1
<1>9. ASSUME NEW a \in Agents,
             \/ CreateContextFails(a) \/ CreateContext(a) \/ MayContinue(a) \/ Refuse(a)
             \/ Notify(a)
      PROVE  FinishedKept
  <2>1. /\ UNCHANGED itemvars /\ idx' = idx
        /\ \E label \in {"returned", "exited", "ask", "announce", "load", "claim", "free",
                         "stopping", "check"} : pc' = [pc EXCEPT ![a] = label]
    BY <1>9 DEF CreateContextFails, CreateContext, MayContinue, ContinueIf, Refuse, Notify
  <2> QED
    BY <1>6, <2>1
<1>10. ASSUME NEW w \in Workers,
              \/ Announce(w) \/ CheckStop(w) \/ StoreStop(w)
              \/ Claim(w) \/ CountDone(w) \/ FreeContext(w)
       PROVE  FinishedKept
  <2>1. /\ UNCHANGED itemvars
        /\ \E label \in {"check", "free", "ask", "load", "notify", "exited"} :
                pc' = [pc EXCEPT ![w] = label]
    BY <1>10
    DEF Announce, CheckStop, CheckStopThen, StoreStop, Claim, ClaimLeaving, CountDone,
        CountLeaving, FreeContext
  <2>2. \A a \in Agents : a # w => idx'[a] = idx[a]
    BY <1>10
    DEF Announce, CheckStop, CheckStopThen, StoreStop, Claim, ClaimLeaving, CountDone,
        CountLeaving, FreeContext
  <2> QED
    BY <1>6, <2>1, <2>2
<1>11. CASE UNCHANGED vars
  BY <1>6, <1>11 DEF vars
<1> QED
  BY <1>1, <1>3, <1>4, <1>5, <1>7, <1>8, <1>9, <1>10, <1>11
  DEF Next, CallerStep, Worker, Over

\* A finished item keeps its status and its hashes, whatever the other workers do and
\* wherever the reset of a cancelled batch begins.
THEOREM FinishedStaysFinished == Spec => FinishedIsFinal
<1>1. IInv /\ [Next]_vars => [FinishedKept]_vars
  BY StepKeepsFinished
<1>2. Spec => [][FinishedKept]_vars
  BY InductiveInvariant, <1>1, PTL DEF Spec
<1> QED
  BY <1>2 DEF FinishedIsFinal, FinishedKept
-----------------------------------------------------------------------------
\* The workers that have passed their look at the stop flag, or at the callback's
\* answer, and have not claimed an item since.
Past     == {w \in Workers : pc[w] \in {"ask", "claim"}}
Claiming == {w \in Workers : pc[w] = "claim"}

\* Each of them may still claim one, and the worker that was refused is not among them.
\* While no worker exists nobody claims.
Overrun ==
    /\ spawned \subseteq 1..nthreads
    /\ ~stop => afterStop = 0
    /\ stop => afterStop + Cardinality(Past) < nthreads
    /\ refused => args.cont
    /\ spawned = {} => late = 0
    /\ ~refused => late = 0
    /\ (args.latched /\ refused /\ spawned # {}) => late + Cardinality(Claiming) < nthreads

\* Sets of workers are finite and no larger than the sets they are part of.
LEMMA WorkerSets ==
    ASSUME NEW S \in SUBSET Workers
    PROVE  /\ IsFiniteSet(S) /\ Cardinality(S) \in Nat
           /\ \A T : T \subseteq S =>
                  IsFiniteSet(T) /\ Cardinality(T) \in Nat /\ Cardinality(T) <= Cardinality(S)
<1>1. IsFiniteSet(Workers)
  BY BatchAssumption, FS_Interval DEF Workers
<1>2. IsFiniteSet(S)
  BY <1>1, FS_Subset
<1> QED
  BY <1>2, FS_Subset, FS_CardinalityType

\* Some threads of a call, without one of them, are fewer than the call has.
LEMMA FewerThanAll ==
    ASSUME NEW n \in Int, NEW w \in 1..n, NEW S, S \subseteq (1..n) \ {w}
    PROVE  Cardinality(S) < n
<1>1. IsFiniteSet(1..n) /\ Cardinality(1..n) = n
  BY FS_Interval
<1>2. PICK T : T = (1..n) \ {w}
  OBVIOUS
<1>3. IsFiniteSet(T) /\ Cardinality(T) = n - 1
  BY <1>1, <1>2, FS_RemoveElement
<1>4. S \in SUBSET T
  BY <1>2
<1>5. IsFiniteSet(S) /\ Cardinality(S) <= Cardinality(T)
  BY <1>3, <1>4, FS_Subset
<1>6. Cardinality(S) \in Nat
  BY <1>5, FS_CardinalityType
<1> QED
  BY <1>3, <1>5, <1>6

\* A step that lets nobody through keeps the bounds.
LEMMA OverrunKept ==
    ASSUME TypeOK, Overrun, UNCHANGED <<args, spawned, stop, refused, late, afterStop>>,
           stop => Past' \subseteq Past,
           (args.latched /\ refused) => Claiming' \subseteq Claiming
    PROVE  Overrun'
<1>1. Past \in SUBSET Workers /\ Claiming \in SUBSET Workers
  BY DEF Past, Claiming
<1>2. nthreads' = nthreads /\ nthreads \in Int
  BY CallFacts DEF nthreads, TypeOK
<1>3. stop => Cardinality(Past') <= Cardinality(Past) /\ Cardinality(Past') \in Nat
  BY <1>1, WorkerSets
<1>4. (args.latched /\ refused) =>
          Cardinality(Claiming') <= Cardinality(Claiming) /\ Cardinality(Claiming') \in Nat
  BY <1>1, WorkerSets
<1>5. Cardinality(Past) \in Nat /\ Cardinality(Claiming) \in Nat
  BY <1>1, WorkerSets
<1>6. Cardinality(Past)' = Cardinality(Past') /\ Cardinality(Claiming)' = Cardinality(Claiming')
  OBVIOUS
<1>7. late \in Nat /\ afterStop \in Nat
  BY DEF TypeOK
<1>8. stop => afterStop + Cardinality(Past') < nthreads
  BY <1>2, <1>3, <1>5, <1>7 DEF Overrun
<1>9. (args.latched /\ refused /\ spawned # {}) => late + Cardinality(Claiming') < nthreads
  BY <1>2, <1>4, <1>5, <1>7 DEF Overrun
<1> QED
  BY <1>2, <1>8, <1>9 DEF Overrun

\* Such a step of one thread.
LEMMA OverrunKeptBy ==
    ASSUME TypeOK, Overrun, UNCHANGED <<args, spawned, stop, refused, late, afterStop>>,
           NEW a \in Agents, NEW label, pc' = [pc EXCEPT ![a] = label],
           a \in Workers => /\ stop => label \notin {"ask", "claim"} \/ a \in Past
                            /\ label = "claim" => ~(args.latched /\ refused)
    PROVE  Overrun'
<1>1. \A b \in Agents : pc'[b] = IF b = a THEN label ELSE pc[b]
  BY DEF TypeOK
<1>2. stop => Past' \subseteq Past
  BY <1>1, AgentFacts DEF Past
<1>3. (args.latched /\ refused) => Claiming' \subseteq Claiming
  BY <1>1, AgentFacts DEF Claiming
<1> QED
  BY <1>2, <1>3, OverrunKept

\* Every step keeps the bounds on the claims.
LEMMA StepOverrun == IInv /\ Overrun /\ [Next]_vars => Overrun'
<1> SUFFICES ASSUME IInv, Overrun, [Next]_vars PROVE Overrun'
  OBVIOUS
<1>0. /\ TypeOK /\ Places /\ nthreads \in Int /\ nthreads <= MaxThreads
      /\ late \in Nat /\ afterStop \in Nat /\ pc \in [Agents -> Labels]
      /\ Past \in SUBSET Workers /\ Claiming \in SUBSET Workers
  BY CallFacts DEF IInv, TypeOK, Past, Claiming
<1>a. \A w \in Workers : pc[w] # "unborn" => w \in spawned /\ w \in 1..nthreads
  BY <1>0 DEF Places, Overrun
<1>b. args' = args => nthreads' = nthreads
  BY DEF nthreads
<1> USE <1>0, AgentFacts DEF itemvars, sharedvars, callervars, history, Goto, Return
<1>1. ASSUME RejectCall \/ EmptyCall \/ BeginBatch \/ AllocThreads \/ JoinWorkers \/ LoopEnds
             \/ CountStarted \/ FinishSequential
      PROVE  Overrun'
  <2>1. /\ UNCHANGED <<args, spawned, stop, refused, late, afterStop>>
        /\ \E label \in {"returned", "alloc", "create", "spawn", "free", "notify", "ask"} :
                pc' = [pc EXCEPT ![Caller] = label]
    BY <1>1 DEF RejectCall, EmptyCall, BeginBatch, AllocThreads, JoinWorkers, JoinAs, Finish,
                LoopEnds, CountStarted, FinishSequential
  <2> QED
    BY <2>1, OverrunKeptBy
\* A new worker has passed nothing.
<1>2. ASSUME NEW created \in BOOLEAN, Spawn(created) PROVE Overrun'
  <2>1. /\ slot \in 1..nthreads /\ slot \in Workers /\ slot \notin spawned
        /\ UNCHANGED <<args, stop, refused, late, afterStop>>
    BY <1>2, BatchAssumption DEF Spawn, Workers, TypeOK, Places
  <2>2. pc[slot] = "unborn"
    BY <2>1 DEF Places
  <2>3. pc' = [pc EXCEPT ![slot] = IF created THEN "create" ELSE "unborn"]
    BY <1>2, <2>2 DEF Spawn
  <2>4. spawned' = spawned \/ spawned' = spawned \cup {slot}
    BY <1>2 DEF Spawn
  <2>5. Past' = Past /\ Claiming' = Claiming
    BY <2>2, <2>3 DEF Past, Claiming
  <2>6. spawned = {} => Claiming = {}
    BY DEF Places, Claiming
  <2>7. Cardinality({}) = 0
    BY FS_EmptySet
  <2>8. spawned = {} => late + Cardinality(Claiming) < nthreads
    <3>1. spawned = {} => late = 0 /\ Cardinality(Claiming) = 0
      BY <2>6, <2>7 DEF Overrun
    <3>2. 0 < nthreads
      BY <2>1
    <3> QED
      BY <3>1, <3>2
  <2>9. nthreads' = nthreads
    BY <1>b, <2>1
  <2>10. spawned' \subseteq 1..nthreads
    BY <2>1, <2>4 DEF Overrun
  <2> QED
    BY <2>1, <2>4, <2>5, <2>8, <2>9, <2>10 DEF Overrun
<1>3. ASSUME NEW a \in Agents,
             CreateContextFails(a) \/ CreateContext(a) \/ Process(a) \/ Notify(a)
      PROVE  Overrun'
  <2>1. /\ UNCHANGED <<args, spawned, stop, refused, late, afterStop>>
        /\ \E label \in {"returned", "exited", "ask", "announce", "count", "compute", "clear",
                         "check"} :
                pc' = [pc EXCEPT ![a] = label] /\ (a # Caller => label # "ask")
    BY <1>3
    DEF CreateContextFails, CreateContext, Process, LoadFails, Load, Compute, ComputeFails,
        ComputeFailsThen, ClearHashes, Notify
  <2> QED
    BY <2>1, OverrunKeptBy
<1>4. ASSUME NEW w \in Workers, Announce(w) \/ CheckStop(w) \/ CountDone(w) \/ FreeContext(w)
      PROVE  Overrun'
  <2>1. UNCHANGED <<args, spawned, stop, refused, late, afterStop>>
    BY <1>4 DEF Announce, CheckStop, CheckStopThen, CountDone, CountLeaving, FreeContext
  <2>2. \E label \in {"check", "free", "ask", "notify", "exited"} :
            pc' = [pc EXCEPT ![w] = label] /\ (label = "ask" => ~stop)
    BY <1>4 DEF Announce, CheckStop, CheckStopThen, CountDone, CountLeaving, FreeContext
  <2> QED
    BY <2>1, <2>2, OverrunKeptBy
<1>5. ASSUME NEW a \in Agents, MayContinue(a) PROVE Overrun'
  <2>1. /\ pc[a] = "ask" /\ UNCHANGED <<args, spawned, stop, refused, late, afterStop>>
        /\ ~(args.cont /\ args.latched /\ refused)
        /\ \E label \in {"load", "claim"} : pc' = [pc EXCEPT ![a] = label]
    BY <1>5 DEF MayContinue, ContinueIf
  <2>2. ~(args.latched /\ refused) /\ (a \in Workers => a \in Past)
    BY <2>1 DEF Overrun, Past
  <2> QED
    BY <2>1, <2>2, OverrunKeptBy
\* The worker that is refused is not about to claim, so the others are fewer than all.
<1>6. ASSUME NEW a \in Agents, Refuse(a) PROVE Overrun'
  <2>1. /\ pc[a] = "ask" /\ args.cont /\ refused'
        /\ UNCHANGED <<args, spawned, stop, late, afterStop>>
        /\ \E label \in {"free", "stopping"} : pc' = [pc EXCEPT ![a] = label]
    BY <1>6 DEF Refuse
  <2>2. Past' \subseteq Past /\ Claiming' = Claiming
    BY <2>1 DEF Past, Claiming
  <2>3. Cardinality(Past) \in Nat /\ Cardinality(Past') \in Nat
        /\ Cardinality(Past') <= Cardinality(Past)
    BY <2>2, WorkerSets
  <2>4. ASSUME spawned # {}, ~refused PROVE late + Cardinality(Claiming) < nthreads
    <3>1. a \in Workers
      BY <2>1, <2>4 DEF Places
    <3>2. a \in 1..nthreads /\ Claiming \subseteq (1..nthreads) \ {a}
      BY <1>a, <2>1, <3>1 DEF Claiming
    <3>3. Cardinality(Claiming) < nthreads /\ Cardinality(Claiming) \in Nat
      BY <3>2, FewerThanAll, WorkerSets
    <3> QED
      BY <2>4, <3>3 DEF Overrun
  <2>5. nthreads' = nthreads
    BY <1>b, <2>1
  <2>6. stop => afterStop + Cardinality(Past') < nthreads
    BY <2>3 DEF Overrun
  <2> QED
    BY <2>1, <2>2, <2>4, <2>5, <2>6 DEF Overrun
\* Nor is the worker that stores the flag.
<1>7. ASSUME NEW w \in Workers, StoreStop(w) PROVE Overrun'
  <2>1. /\ pc[w] = "stopping" /\ stop' /\ pc' = [pc EXCEPT ![w] = "free"]
        /\ UNCHANGED <<args, spawned, refused, late, afterStop>>
    BY <1>7 DEF StoreStop
  <2>2. Past' = Past /\ Claiming' = Claiming
    BY <2>1 DEF Past, Claiming
  <2>3. w \in 1..nthreads /\ Past \subseteq (1..nthreads) \ {w}
    BY <1>a, <2>1 DEF Past
  <2>4. Cardinality(Past) < nthreads /\ Cardinality(Past) \in Nat
    BY <2>3, FewerThanAll, WorkerSets
  <2>5. afterStop + Cardinality(Past) < nthreads
    BY <2>4 DEF Overrun
  <2>6. nthreads' = nthreads
    BY <1>b, <2>1
  <2> QED
    BY <2>1, <2>2, <2>5, <2>6 DEF Overrun
\* A claim uses up the worker's passage.
<1>8. ASSUME NEW w \in Workers, Claim(w) PROVE Overrun'
  <2>1. /\ pc[w] = "claim" /\ w \in Past /\ w \in Claiming /\ spawned # {}
        /\ UNCHANGED <<args, spawned, stop, refused>>
        /\ late' = late \/ (refused /\ late' = late + 1)
        /\ afterStop' = afterStop \/ (stop /\ afterStop' = afterStop + 1)
        /\ \E label \in {"free", "load"} : pc' = [pc EXCEPT ![w] = label]
    BY <1>8, <1>a DEF Claim, ClaimLeaving, Past, Claiming
  <2>2. Past' = Past \ {w} /\ Claiming' = Claiming \ {w}
    BY <2>1 DEF Past, Claiming
  <2>3. /\ Cardinality(Past') = Cardinality(Past) - 1 /\ Cardinality(Past) \in Nat
        /\ Cardinality(Claiming') = Cardinality(Claiming) - 1 /\ Cardinality(Claiming) \in Nat
    BY <2>1, <2>2, WorkerSets, FS_RemoveElement
  <2>4. nthreads' = nthreads
    BY <1>b, <2>1
  <2>5. stop => afterStop' + Cardinality(Past') < nthreads
    BY <2>1, <2>3 DEF Overrun
  <2>6. (args.latched /\ refused) => late' + Cardinality(Claiming') < nthreads
    BY <2>1, <2>3 DEF Overrun
  <2> QED
    BY <2>1, <2>4, <2>5, <2>6 DEF Overrun
<1>9. CASE UNCHANGED vars
  BY <1>9, OverrunKept DEF vars, Past, Claiming
<1> QED
  BY <1>1, <1>2, <1>3, <1>4, <1>5, <1>6, <1>7, <1>8, <1>9 DEF Next, CallerStep, Worker, Over

\* Once a callback has refused, each of the other workers starts at most the item whose
\* checks it had already passed: fewer in all than the call has workers.
THEOREM CancellationIsBounded == Spec => []CancellationBoundsClaims
<1>1. Init => Overrun
  BY DEF Init, Overrun
<1>2. IInv /\ Overrun => CancellationBoundsClaims
  <2> SUFFICES ASSUME IInv, Overrun PROVE CancellationBoundsClaims
    OBVIOUS
  <2>1. /\ Past \in SUBSET Workers /\ Claiming \in SUBSET Workers
        /\ nthreads \in Int /\ late \in Nat /\ afterStop \in Nat
    BY CallFacts DEF IInv, TypeOK, Past, Claiming
  <2>2. Cardinality(Past) \in Nat /\ Cardinality(Claiming) \in Nat
    BY <2>1, WorkerSets
  <2> QED
    BY <2>1, <2>2 DEF Overrun, CancellationBoundsClaims, IInv, TypeOK
<1> QED
  BY InductiveInvariant, <1>1, <1>2, StepOverrun, PTL DEF Spec
-----------------------------------------------------------------------------
\* The threads that have finished an item and not counted it yet.  With workers the
\* count is shared.done, without them the sequential loop's counter; the other is 0.
Uncounted == {a \in Agents : pc[a] = "count"}
Counted   == done + idx[Caller]

Tally ==
    /\ spawned = {} => done = 0
    /\ args.prog => Cardinality(Finished) = Counted + Cardinality(Uncounted)

\* Every value counted was given to one thread, which has passed it on or is about to.
Reports ==
    /\ \A a \in Agents : pc[a] = "notify" =>
          args.prog /\ seen[a] \in 1..Counted /\ reported[seen[a]] = 0
    /\ \A a, b \in Agents :
          (a # b /\ pc[a] = "notify" /\ pc[b] = "notify") => seen[a] # seen[b]
    /\ \A v \in 1..MaxItems :
          /\ reported[v] \in {0, 1}
          /\ reported[v] = 1 => args.prog /\ v <= Counted
          /\ (args.prog /\ v <= Counted) =>
                reported[v] = 1 \/ \E a \in Agents : pc[a] = "notify" /\ seen[a] = v

\* The sets counted are finite, and there are no more finished items than items.
LEMMA CountedSets ==
    /\ IsFiniteSet(Finished) /\ Cardinality(Finished) \in Nat
    /\ Cardinality(Finished) <= MaxItems
    /\ IsFiniteSet(Uncounted) /\ Cardinality(Uncounted) \in Nat
<1>1. IsFiniteSet(Items) /\ Cardinality(Items) = MaxItems
  BY BatchAssumption, FS_Interval DEF Items
<1>2. IsFiniteSet(Agents)
  BY BatchAssumption, FS_Interval DEF Agents
<1>3. Finished \in SUBSET Items /\ Uncounted \in SUBSET Agents
  BY DEF Finished, Uncounted
<1>4. IsFiniteSet(Finished) /\ Cardinality(Finished) <= Cardinality(Items)
  BY <1>1, <1>3, FS_Subset
<1>5. IsFiniteSet(Uncounted)
  BY <1>2, <1>3, FS_Subset
<1>6. Cardinality(Finished) \in Nat /\ Cardinality(Uncounted) \in Nat
  BY <1>4, <1>5, FS_CardinalityType
<1> QED
  BY <1>1, <1>4, <1>5, <1>6

\* Nothing is finished by a step in which every thread keeps the item it has in hand.
LEMMA FinishedUnchanged ==
    ASSUME FinishedKept, UNCHANGED starts,
           \A a \in Agents : pc[a] \in Working => pc'[a] \in Working /\ idx'[a] = idx[a]
    PROVE  Finished' = Finished
<1>1. Finished' \subseteq Finished
  BY DEF Finished
<1>2. Finished \subseteq Items
  BY DEF Finished
<1>3. Finished \subseteq Finished'
  BY <1>2 DEF FinishedKept
<1> QED
  BY <1>1, <1>3

\* A step in which nobody finishes, counts or reports an item keeps the counts.
LEMMA CountsKept ==
    ASSUME Tally, Reports, FinishedKept,
           UNCHANGED <<args, starts, done, seen, reported>>, idx'[Caller] = idx[Caller],
           spawned' = {} => spawned = {},
           \A a \in Agents : pc[a] \in Working => pc'[a] \in Working /\ idx'[a] = idx[a],
           \A a \in Agents : pc'[a] = "count" <=> pc[a] = "count",
           \A a \in Agents : pc'[a] = "notify" <=> pc[a] = "notify"
    PROVE  Tally' /\ Reports'
<1>1. Finished' = Finished /\ Uncounted' = Uncounted /\ Counted' = Counted
  BY FinishedUnchanged DEF Uncounted, Counted
<1>2. Tally'
  BY <1>1 DEF Tally
<1>3. Reports'
  BY <1>1 DEF Reports
<1> QED
  BY <1>2, <1>3

\* Such a step of one thread.
LEMMA CountsKeptBy ==
    ASSUME TypeOK, Tally, Reports, FinishedKept,
           UNCHANGED <<args, starts, done, seen, reported>>,
           spawned' = {} => spawned = {},
           NEW a \in Agents, NEW label, pc' = [pc EXCEPT ![a] = label],
           pc[a] \notin Working \cup {"count", "notify"}, label \notin {"count", "notify"},
           \A b \in Agents : b # a => idx'[b] = idx[b], idx'[Caller] = idx[Caller]
    PROVE  Tally' /\ Reports'
<1>1. \A b \in Agents : pc'[b] = IF b = a THEN label ELSE pc[b]
  BY DEF TypeOK
<1> QED
  BY <1>1, CountsKept

\* The thread that has an item in hand finishes it, or goes on.
LEMMA ProcessCounts ==
    ASSUME IInv, Tally, Reports, FinishedKept, NEW a \in Agents, Process(a)
    PROVE  Tally' /\ Reports'
<1>1. PICK i : i = idx[a]
  OBVIOUS
<1>2. /\ pc[a] \in Working /\ i \in Items
      /\ pc'[a] \in {"compute", "clear", "count"}
      /\ \A b \in Agents : b # a => pc'[b] = pc[b]
      /\ UNCHANGED <<args, idx>>
      /\ starts'[i] = 1
      /\ \A j \in Items : j # i => starts'[j] = starts[j]
  BY <1>1, ProcessTouches DEF IInv
<1>3. UNCHANGED <<done, seen, reported, spawned>>
  BY DEF Process, LoadFails, Load, Compute, ComputeFails, ComputeFailsThen, ClearHashes,
         sharedvars, callervars, history
<1>4. \A b \in Agents : (b # a /\ pc[b] \in Working) => idx[b] # i
  BY <1>1, <1>2, HeldApart DEF IInv, Claims
<1>5. i \notin Finished
  BY <1>1, <1>2 DEF Finished
<1>6. Finished' = IF pc'[a] = "count" THEN Finished \cup {i} ELSE Finished
  BY <1>1, <1>2, <1>4 DEF Finished, Working
<1>7. Uncounted' = IF pc'[a] = "count" THEN Uncounted \cup {a} ELSE Uncounted
  BY <1>2 DEF Uncounted, Working
<1>8. a \notin Uncounted /\ Counted' = Counted
  BY <1>2, <1>3 DEF Uncounted, Counted, Working
<1>9. Tally'
  <2>1. CASE pc'[a] = "count"
    <3>1. /\ Cardinality(Finished') = Cardinality(Finished) + 1
          /\ Cardinality(Uncounted') = Cardinality(Uncounted) + 1
      BY <1>5, <1>6, <1>7, <1>8, <2>1, CountedSets, FS_AddElement
    <3>2. Counted \in Int
      BY AgentFacts DEF IInv, TypeOK, Counted
    <3> QED
      BY <1>2, <1>3, <1>8, <3>1, <3>2, CountedSets DEF Tally
  <2>2. CASE pc'[a] # "count"
    BY <1>2, <1>3, <1>6, <1>7, <1>8, <2>2 DEF Tally
  <2> QED
    BY <2>1, <2>2
<1>10. \A b \in Agents : pc'[b] = "notify" <=> pc[b] = "notify"
  BY <1>2 DEF Working
<1>11. Reports'
  BY <1>2, <1>3, <1>8, <1>10 DEF Reports
<1> QED
  BY <1>9, <1>11

\* The thread that counts its item takes the next value to report.
LEMMA CountingCounts ==
    ASSUME TypeOK, Tally, Reports, FinishedKept, NEW a \in Agents, pc[a] = "count",
           UNCHANGED <<args, starts, reported, spawned>>,
           NEW label \in {"notify", "ask", "check"}, pc' = [pc EXCEPT ![a] = label],
           label = "notify" <=> args.prog,
           args.prog => Counted' = Counted + 1 /\ seen'[a] = Counted + 1,
           Counted' >= Counted, Counted' \in Nat,
           spawned = {} => done' = 0,
           \A b \in Agents : b # a => seen'[b] = seen[b],
           \A b \in Agents : pc[b] \in Working => idx'[b] = idx[b]
    PROVE  Tally' /\ Reports'
<1>1. \A b \in Agents : pc'[b] = IF b = a THEN label ELSE pc[b]
  BY DEF TypeOK
<1>2. Finished' = Finished
  BY <1>1, FinishedUnchanged DEF Working
<1>3. Uncounted' = Uncounted \ {a} /\ a \in Uncounted
  BY <1>1 DEF Uncounted
<1>4. Cardinality(Uncounted') = Cardinality(Uncounted) - 1
  BY <1>3, CountedSets, FS_RemoveElement
<1>5. Counted \in Nat
  BY AgentFacts DEF TypeOK, Counted
<1>6. Tally'
  <2>1. args.prog => Cardinality(Finished') = Counted' + Cardinality(Uncounted')
    BY <1>2, <1>4, <1>5, CountedSets DEF Tally
  <2> QED
    BY <2>1 DEF Tally
<1>7. CASE ~args.prog
  <2>1. \A b \in Agents : pc'[b] # "notify"
    BY <1>1, <1>7 DEF Reports
  <2> QED
    BY <1>6, <1>7, <2>1 DEF Reports
<1>8. CASE args.prog
  <2>1. \A b \in Agents : pc'[b] = "notify" <=> b = a \/ pc[b] = "notify"
    BY <1>1, <1>8
  <2>2. Counted' \in 1..MaxItems
    <3>1. Cardinality(Uncounted') \in Nat
      BY CountedSets, <1>3, FS_RemoveElement, FS_CardinalityType
    <3>2. Cardinality(Finished) = Counted' + Cardinality(Uncounted')
      BY <1>2, <1>6, <1>8 DEF Tally
    <3> QED
      BY <1>5, <1>8, <3>1, <3>2, CountedSets, BatchAssumption
  <2>3. reported[Counted'] = 0
    BY <1>5, <1>8, <2>2 DEF Reports
  <2>4. \A b \in Agents : pc[b] = "notify" => seen'[b] = seen[b] /\ seen[b] \in 1..Counted
    BY <1>8 DEF Reports
  <2>5. \A b \in Agents : pc'[b] = "notify" =>
            seen'[b] \in 1..Counted' /\ reported'[seen'[b]] = 0
    BY <1>5, <1>8, <2>1, <2>2, <2>3, <2>4 DEF Reports
  <2>6. \A b, c \in Agents :
            (b # c /\ pc'[b] = "notify" /\ pc'[c] = "notify") => seen'[b] # seen'[c]
    BY <1>5, <1>8, <2>1, <2>4 DEF Reports
  <2>7. ASSUME NEW v \in 1..MaxItems
        PROVE  /\ reported'[v] \in {0, 1}
               /\ reported'[v] = 1 => v <= Counted'
               /\ v <= Counted' =>
                     reported'[v] = 1 \/ \E b \in Agents : pc'[b] = "notify" /\ seen'[b] = v
    <3>1. reported'[v] = reported[v] /\ (reported[v] = 1 => v <= Counted)
      BY DEF Reports
    <3>2. CASE v <= Counted
      BY <1>5, <1>8, <2>1, <2>4, <3>1, <3>2 DEF Reports
    <3>3. CASE v > Counted
      BY <1>5, <1>8, <2>1, <3>1, <3>3 DEF Reports
    <3> QED
      BY <1>5, <3>2, <3>3
  <2> QED
    BY <1>6, <1>8, <2>5, <2>6, <2>7 DEF Reports
<1> QED
  BY <1>7, <1>8
\* Every step keeps the counts.
LEMMA StepCounts == IInv /\ Tally /\ Reports /\ [Next]_vars => Tally' /\ Reports'
<1> SUFFICES ASSUME IInv, Tally, Reports, [Next]_vars PROVE Tally' /\ Reports'
  OBVIOUS
<1>0. /\ TypeOK /\ Places /\ FinishedKept
      /\ pc \in [Agents -> Labels] /\ idx \in [Agents -> Nat] /\ seen \in [Agents -> Nat]
      /\ reported \in [1..MaxItems -> Nat] /\ done \in Nat /\ Counted \in Nat
  BY StepKeepsFinished, AgentFacts DEF IInv, TypeOK, Counted
<1> USE <1>0, AgentFacts DEF itemvars, sharedvars, callervars, history, Goto, Return
<1>1. ASSUME RejectCall \/ EmptyCall \/ BeginBatch \/ AllocThreads \/ JoinWorkers \/ LoopEnds
             \/ FinishSequential
      PROVE  Tally' /\ Reports'
  <2>1. /\ UNCHANGED <<args, starts, done, seen, reported, spawned, idx>>
        /\ pc[Caller] \in {"validate", "alloc", "spawn", "ask", "free"}
        /\ \E label \in {"returned", "alloc", "create", "spawn", "free"} :
                pc' = [pc EXCEPT ![Caller] = label]
    BY <1>1 DEF RejectCall, EmptyCall, BeginBatch, AllocThreads, JoinWorkers, JoinAs, Finish,
                LoopEnds, FinishSequential
  <2> QED
    BY <2>1, CountsKeptBy DEF Working
<1>2. ASSUME NEW created \in BOOLEAN, Spawn(created) PROVE Tally' /\ Reports'
  <2>1. /\ slot \in Workers /\ slot \notin spawned
        /\ UNCHANGED <<args, starts, done, seen, reported, idx>>
    BY <1>2, SpawnTakes DEF Spawn
  <2>2. pc[slot] = "unborn"
    BY <2>1 DEF Places
  <2>3. pc' = [pc EXCEPT ![slot] = IF created THEN "create" ELSE "unborn"]
    BY <1>2, <2>2 DEF Spawn
  <2>4. spawned' = {} => spawned = {}
    BY <1>2 DEF Spawn
  <2> QED
    BY <2>1, <2>2, <2>3, <2>4, CountsKeptBy DEF Working
<1>3. ASSUME NEW a \in Agents,
             CreateContextFails(a) \/ CreateContext(a) \/ MayContinue(a) \/ Refuse(a)
      PROVE  Tally' /\ Reports'
  <2>1. /\ UNCHANGED <<args, starts, done, seen, reported, spawned, idx>>
        /\ pc[a] \in {"create", "ask"}
        /\ \E label \in {"returned", "exited", "ask", "announce", "load", "claim", "free",
                         "stopping"} : pc' = [pc EXCEPT ![a] = label]
    BY <1>3 DEF CreateContextFails, CreateContext, MayContinue, ContinueIf, Refuse
  <2> QED
    BY <2>1, CountsKeptBy DEF Working
<1>4. ASSUME NEW w \in Workers, Announce(w) \/ CheckStop(w) \/ StoreStop(w) \/ FreeContext(w)
      PROVE  Tally' /\ Reports'
  <2>1. UNCHANGED <<args, starts, done, seen, reported, spawned, idx>>
    BY <1>4 DEF Announce, CheckStop, CheckStopThen, StoreStop, FreeContext
  <2>2. /\ pc[w] \in {"announce", "check", "stopping", "free"}
        /\ \E label \in {"check", "free", "ask", "exited"} : pc' = [pc EXCEPT ![w] = label]
    BY <1>4 DEF Announce, CheckStop, CheckStopThen, StoreStop, FreeContext
  <2> QED
    BY <2>1, <2>2, CountsKeptBy DEF Working
<1>5. ASSUME NEW w \in Workers, Claim(w) PROVE Tally' /\ Reports'
  <2>1. /\ UNCHANGED <<args, starts, done, seen, reported, spawned>> /\ pc[w] = "claim"
        /\ \A b \in Agents : b # w => idx'[b] = idx[b]
        /\ \E label \in {"free", "load"} : pc' = [pc EXCEPT ![w] = label]
    BY <1>5 DEF Claim, ClaimLeaving
  <2> QED
    BY <2>1, CountsKeptBy DEF Working
<1>6. ASSUME NEW a \in Agents, Process(a) PROVE Tally' /\ Reports'
  BY <1>6, ProcessCounts
<1>7. ASSUME NEW w \in Workers, CountDone(w) PROVE Tally' /\ Reports'
  <2>1. /\ pc[w] = "count" /\ UNCHANGED <<args, starts, reported, spawned, idx>>
        /\ \A b \in Agents : b # w => seen'[b] = seen[b]
    BY <1>7 DEF CountDone, CountLeaving
  <2>2. spawned # {} /\ idx[Caller] = 0
    BY <2>1 DEF Places
  <2>3. CASE args.prog
    <3>1. pc' = [pc EXCEPT ![w] = "notify"] /\ done' = done + 1 /\ seen'[w] = done + 1
      BY <1>7, <2>3 DEF CountDone, CountLeaving
    <3>2. Counted' = Counted + 1 /\ seen'[w] = Counted + 1
      BY <2>1, <2>2, <3>1 DEF Counted
    <3>3. /\ Counted' \in Nat /\ Counted' >= Counted /\ (spawned = {} => done' = 0)
          /\ \A b \in Agents : pc[b] \in Working => idx'[b] = idx[b]
      BY <2>1, <2>2, <3>2
    <3> QED
      BY <2>1, <2>3, <3>1, <3>2, <3>3, CountingCounts
  <2>4. CASE ~args.prog
    <3>1. pc' = [pc EXCEPT ![w] = "check"] /\ done' = done
      BY <1>7, <2>4 DEF CountDone, CountLeaving
    <3>2. Counted' = Counted
      BY <2>1, <3>1 DEF Counted
    <3>3. /\ Counted' \in Nat /\ Counted' >= Counted /\ (spawned = {} => done' = 0)
          /\ \A b \in Agents : pc[b] \in Working => idx'[b] = idx[b]
      BY <2>1, <2>2, <3>2
    <3>4. \A b \in Agents : b # w => seen'[b] = seen[b]
      BY <2>1
    <3> QED
      BY <2>1, <2>4, <3>1, <3>2, <3>3, <3>4, CountingCounts
  <2> QED
    BY <2>3, <2>4
<1>8. ASSUME CountStarted PROVE Tally' /\ Reports'
  <2>1. /\ pc[Caller] = "count" /\ UNCHANGED <<args, starts, reported, spawned, done>>
        /\ idx'[Caller] = idx[Caller] + 1 /\ \A b \in Agents : b # Caller => idx'[b] = idx[b]
        /\ seen'[Caller] = idx[Caller] + 1 /\ \A b \in Agents : b # Caller => seen'[b] = seen[b]
        /\ pc' = [pc EXCEPT ![Caller] = IF args.prog THEN "notify" ELSE "ask"]
    BY <1>8 DEF CountStarted
  <2>2. spawned = {} /\ done = 0
    BY <2>1 DEF Places, Tally
  <2>3. Counted' = Counted + 1 /\ seen'[Caller] = Counted + 1
    BY <2>1, <2>2 DEF Counted
  <2>4. \A b \in Agents : pc[b] \in Working => idx'[b] = idx[b]
    BY <2>1 DEF Working
  <2>5. PICK label \in {"notify", "ask"} :
            pc' = [pc EXCEPT ![Caller] = label] /\ (label = "notify" <=> args.prog)
    BY <2>1
  <2>6. Counted' \in Nat /\ Counted' >= Counted /\ (spawned = {} => done' = 0)
    BY <2>1, <2>2, <2>3
  <2> QED
    BY <2>1, <2>3, <2>4, <2>5, <2>6, CountingCounts
\* The value a thread passes on was passed on by nobody before.
<1>9. ASSUME NEW a \in Agents, Notify(a) PROVE Tally' /\ Reports'
  <2>1. /\ pc[a] = "notify" /\ UNCHANGED <<args, starts, done, seen, idx, spawned>>
        /\ reported' = [reported EXCEPT ![seen[a]] = @ + 1]
        /\ \E label \in {"ask", "check"} : pc' = [pc EXCEPT ![a] = label]
    BY <1>9 DEF Notify
  <2>2. /\ \A b \in Agents : pc'[b] = "count" <=> pc[b] = "count"
        /\ \A b \in Agents : pc[b] \in Working => pc'[b] \in Working
        /\ \A b \in Agents : pc'[b] = "notify" <=> (pc[b] = "notify" /\ b # a)
    BY <2>1 DEF Working
  <2>3. Finished' = Finished /\ Uncounted' = Uncounted /\ Counted' = Counted
    BY <2>1, <2>2, FinishedUnchanged DEF Uncounted, Counted
  <2>4. Tally'
    BY <2>1, <2>3 DEF Tally
  <2>5. args.prog /\ seen[a] \in 1..Counted /\ reported[seen[a]] = 0
    BY <2>1 DEF Reports
  <2>6. seen[a] \in 1..MaxItems
    <3>1. Counted <= Cardinality(Finished)
      BY <2>5, CountedSets DEF Tally
    <3> QED
      BY <2>5, <3>1, CountedSets, BatchAssumption
  <2>7. reported'[seen[a]] = 1 /\ \A v \in 1..MaxItems : v # seen[a] => reported'[v] = reported[v]
    BY <2>1, <2>5, <2>6
  <2>8. \A b \in Agents : pc'[b] = "notify" =>
            seen[b] \in 1..Counted /\ seen[b] # seen[a] /\ reported'[seen[b]] = 0
    <3> SUFFICES ASSUME NEW b \in Agents, pc'[b] = "notify"
                 PROVE  seen[b] \in 1..Counted /\ seen[b] # seen[a] /\ reported'[seen[b]] = 0
      OBVIOUS
    <3>1. seen[b] \in 1..Counted /\ seen[b] # seen[a] /\ reported[seen[b]] = 0
      BY <2>1, <2>2 DEF Reports
    <3> QED
      BY <2>1, <3>1
  <2>9. ASSUME NEW v \in 1..MaxItems
        PROVE  /\ reported'[v] \in {0, 1}
               /\ reported'[v] = 1 => v <= Counted
               /\ v <= Counted =>
                     reported'[v] = 1 \/ \E b \in Agents : pc'[b] = "notify" /\ seen[b] = v
    BY <2>2, <2>5, <2>7 DEF Reports
  <2> QED
    BY <2>1, <2>2, <2>3, <2>4, <2>5, <2>8, <2>9 DEF Reports
<1>10. CASE UNCHANGED vars
  BY <1>10, CountsKept DEF vars
<1> QED
  BY <1>1, <1>2, <1>3, <1>4, <1>5, <1>6, <1>7, <1>8, <1>9, <1>10
  DEF Next, CallerStep, Worker, Over

\* on_progress is given every number of finished items once, none before that many are
\* finished, and all of them by the time the call returns.
THEOREM ProgressIsExact == Spec => []ProgressExact
<1>1. Init => Tally /\ Reports
  <2> SUFFICES ASSUME Init PROVE Tally /\ Reports
    OBVIOUS
  <2>1. /\ \A a \in Agents : pc[a] \in {"validate", "unborn"}
        /\ Finished = {} /\ done = 0 /\ idx[Caller] = 0 /\ \A v \in 1..MaxItems : reported[v] = 0
    BY AgentFacts DEF Init, Finished
  <2>2. Uncounted = {} /\ Counted = 0
    BY <2>1 DEF Uncounted, Counted
  <2> QED
    BY <2>1, <2>2, FS_EmptySet DEF Tally, Reports
<1>2. IInv /\ Tally /\ Reports => ProgressExact
  <2> SUFFICES ASSUME IInv, Tally, Reports PROVE ProgressExact
    OBVIOUS
  <2>1. Counted \in Nat /\ reported \in [1..MaxItems -> Nat]
    BY AgentFacts DEF IInv, TypeOK, Counted
  <2>2. \A v \in 1..MaxItems : reported[v] \in {0, 1} /\ (reported[v] > 0 <=> reported[v] = 1)
    BY DEF Reports
  <2>3. args.prog => Counted <= Cardinality(Finished)
    BY <2>1, CountedSets DEF Tally
  <2>4. \A v \in 1..MaxItems : reported[v] > 0 => v <= Cardinality(Finished)
    BY <2>1, <2>2, <2>3, CountedSets DEF Reports
  <2>5. ASSUME Returned, args.prog
        PROVE  {v \in 1..MaxItems : reported[v] > 0} = 1..Cardinality(Finished)
    <3>1. \A a \in Agents : pc[a] \notin {"count", "notify"}
      BY <2>5, AgentFacts DEF IInv, Places, Returned
    <3>2. Uncounted = {} /\ Cardinality({}) = 0
      BY <3>1, FS_EmptySet DEF Uncounted
    <3>3. Cardinality(Finished) = Counted
      BY <2>1, <2>5, <3>2 DEF Tally
    <3>4. \A v \in 1..MaxItems : reported[v] > 0 <=> v <= Counted
      BY <2>2, <2>5, <3>1 DEF Reports
    <3> QED
      BY <2>1, <3>3, <3>4, CountedSets, BatchAssumption
  <2> QED
    BY <2>2, <2>4, <2>5 DEF ProgressExact
<1> QED
  BY InductiveInvariant, <1>1, <1>2, StepCounts, PTL DEF Spec

-----------------------------------------------------------------------------
(***************************************************************************)
(* The refinement: every step of a thread is a step of BatchContract or     *)
(* leaves its variables alone.  The steps that are not stuttering are the   *)
(* claim of an item (Start), the end of its processing (FinishItem) and     *)
(* those of the calling thread that begin or end the call.                  *)
(***************************************************************************)

\* What the mapping makes of an item, case by case.
MapsTo(i) ==
    /\ Held(i) => AbstractItem(i) = "working"
    /\ (~Held(i) /\ starts[i] > 0) => AbstractItem(i) = "real"
    /\ (~Held(i) /\ starts[i] = 0) =>
          AbstractItem(i) = CASE status[i] = "STALE" -> "callers"
                              [] status[i] = "CANCELLED" -> "cancelled"
                              [] OTHER -> "reset"

LEMMA Cases ==
    ASSUME TypeOK
    PROVE  \A i \in Items : MapsTo(i)
BY DEF MapsTo, AbstractItem, TypeOK

\* What the contract sees of an item when the call, past its validation and not refused
\* as malformed, has nobody working.
Settlement ==
    \A i \in Items :
       /\ i \notin InCall => AbstractItem(i) = "callers"
       /\ (i \in InCall /\ starts[i] = 1) => AbstractItem(i) = "real"
       /\ (i \in InCall /\ starts[i] = 0) =>
             AbstractItem(i) = IF result = "CANCELLED" THEN "cancelled" ELSE "reset"

LEMMA Settles ==
    (/\ TypeOK /\ Claims /\ Contents
     /\ pc[Caller] # "validate" /\ result # "INVALID_ARGUMENT"
     /\ \A a \in Agents : pc[a] \notin Working) => Settlement
<1> SUFFICES ASSUME TypeOK, Claims, Contents, pc[Caller] # "validate",
                    result # "INVALID_ARGUMENT", \A a \in Agents : pc[a] \notin Working,
                    NEW i \in Items
             PROVE  /\ i \notin InCall => AbstractItem(i) = "callers"
                    /\ (i \in InCall /\ starts[i] = 1) => AbstractItem(i) = "real"
                    /\ (i \in InCall /\ starts[i] = 0) =>
                          AbstractItem(i) = IF result = "CANCELLED" THEN "cancelled" ELSE "reset"
  BY DEF Settlement
<1>1. ~Held(i) /\ MapsTo(i)
  BY Cases DEF Held
<1>2. i \notin InCall => starts[i] = 0 /\ status[i] = "STALE"
  BY DEF Contents, Spared, Pristine
<1>3. (i \in InCall /\ starts[i] = 0) => status[i] = Rest
  BY DEF Contents, Unstarted, Untouched
<1> QED
  BY <1>1, <1>2, <1>3 DEF MapsTo, Rest

LEMMA SettlesNext ==
    (/\ TypeOK /\ Claims /\ Contents
     /\ pc[Caller] # "validate" /\ result # "INVALID_ARGUMENT"
     /\ \A a \in Agents : pc[a] \notin Working)' => Settlement'
BY Settles, PTL

\* A step of the contract that returns: nobody works before or after it, and the result
\* is one of those a running call gives.
LEMMA ReturnMaps ==
    ASSUME IInv, IInv', UNCHANGED <<args, starts>>,
           pc[Caller] \notin {"validate", "returned"}, pc'[Caller] = "returned",
           result' # "INVALID_ARGUMENT",
           \A a \in Agents : pc[a] \notin Working,
           \A a \in Agents : pc'[a] \notin Working
    PROVE  Contract!Next
<1>1. /\ args.n \in Nat /\ args.n > 0 /\ result = "none"
      /\ \A i : i \in InCall <=> i \in Nat /\ i < args.n
      /\ \A i \in InCall : i \in Items /\ starts[i] \in {0, 1}
      /\ InCall' = InCall
  BY CallFacts DEF IInv, TypeOK, Places, Returned, Claims, StartedOnce, InCall
<1>2. Settlement
  BY <1>1, Settles DEF IInv
<1>3. Settlement'
  BY SettlesNext DEF IInv
<1>4. AbstractPhase = "running" /\ AbstractPhase' = result'
  BY DEF AbstractPhase
<1>5. result' \in {"SUCCESS", "ALLOCATION_FAILED", "CANCELLED"}
  BY DEF IInv, TypeOK, Places, Returned, Results
<1>6. Told'
  BY DEF IInv, Verdicts
<1> USE <1>1, <1>4 DEF InCall
<1>7. CASE result' = "SUCCESS"
  <2>1. \A i \in InCall : starts[i] = 1
    BY <1>6, <1>7 DEF Told
  <2>2. \A i \in Items : AbstractItem(i)' = AbstractItem(i)
    BY <1>2, <1>3, <2>1 DEF Settlement
  <2>3. \A i \in InCall : AbstractItem(i) = "real"
    BY <1>2, <2>1 DEF Settlement
  <2> QED
    BY <1>7, <2>2, <2>3 DEF Contract!Next, Contract!Succeed, Contract!All, Contract!InCall
<1>8. CASE result' = "ALLOCATION_FAILED"
  <2>1. \A i \in InCall : starts[i] = 0
    BY <1>6, <1>8 DEF Told
  <2>2. \A i \in Items : AbstractItem(i)' = AbstractItem(i)
    BY <1>2, <1>3, <1>8, <2>1 DEF Settlement
  <2>3. \A i \in InCall : AbstractItem(i) = "reset"
    BY <1>2, <2>1 DEF Settlement
  <2> QED
    BY <1>8, <2>2, <2>3 DEF Contract!Next, Contract!NoResources, Contract!All, Contract!InCall
<1>9. CASE result' = "CANCELLED"
  <2>1. PICK k \in InCall : \A i \in InCall : starts[i] = 1 <=> i < k
    BY <1>6, <1>9 DEF Told
  <2>2. AbstractItem(k) = "reset"
    BY <1>2, <2>1 DEF Settlement
  <2>3. \A i \in InCall : AbstractItem(i) \in {"real", "reset"}
    BY <1>2 DEF Settlement
  <2>4. \A i \in Items :
           AbstractItem(i)' = IF AbstractItem(i) = "reset" THEN "cancelled" ELSE AbstractItem(i)
    BY <1>2, <1>3, <1>9 DEF Settlement
  <2> QED
    BY <1>9, <2>2, <2>3, <2>4
    DEF Contract!Next, Contract!Cancel, Contract!All, Contract!InCall, Contract!Items, Items
<1> QED
  BY <1>5, <1>7, <1>8, <1>9

\* A step that no item's state depends on.
LEMMA Stutters ==
    ASSUME UNCHANGED <<args, starts, status>>, AbstractPhase' = AbstractPhase,
           \A a \in Agents : pc'[a] \in Working <=> pc[a] \in Working,
           \A a \in Agents : pc[a] \in Working => idx'[a] = idx[a]
    PROVE  UNCHANGED Contract!vars
<1>1. \A i \in Items : Held(i)' <=> Held(i)
  BY DEF Held
<1>2. \A i \in Items : AbstractItem(i)' = AbstractItem(i)
  BY <1>1 DEF AbstractItem
<1> QED
  BY <1>2 DEF Contract!vars

\* Such a step of one thread, which the phase does not depend on either.
LEMMA StuttersBy ==
    ASSUME TypeOK, UNCHANGED <<args, starts, status>>,
           NEW a \in Agents, NEW label, pc' = [pc EXCEPT ![a] = label],
           pc[a] \notin Working, label \notin Working,
           a = Caller => {pc[a], label} \cap {"validate", "returned"} = {},
           \A b \in Agents : b # a => idx'[b] = idx[b], result' = result
    PROVE  UNCHANGED Contract!vars
<1>1. \A b \in Agents : pc'[b] = IF b = a THEN label ELSE pc[b]
  BY DEF TypeOK
<1>2. AbstractPhase' = AbstractPhase
  BY <1>1, AgentFacts DEF AbstractPhase
<1> QED
  BY <1>1, <1>2, Stutters

\* Taking the lowest item nobody has started: all below are started, so they are in
\* somebody's hands or real.
LEMMA StartMaps ==
    ASSUME IInv, UNCHANGED <<args, starts, status>>,
           NEW a \in Agents, NEW i \in InCall,
           pc[a] \notin Working, pc' = [pc EXCEPT ![a] = "load"], idx'[a] = i,
           \A b \in Agents : b # a => idx'[b] = idx[b],
           pc[Caller] \notin {"validate", "returned"},
           ~Held(i), starts[i] = 0, \A j \in 0..(i - 1) : Held(j) \/ starts[j] = 1
    PROVE  Contract!Next
<1>0. /\ TypeOK /\ args.n \in Nat
      /\ \A j : j \in InCall <=> j \in Nat /\ j < args.n
      /\ \A j \in InCall : j \in Items
  BY CallFacts DEF IInv, TypeOK
<1>1. /\ TypeOK /\ args.n \in Nat /\ i \in Nat /\ i < args.n /\ i \in Items
      /\ \A j \in 0..(i - 1) : j \in Items
  BY <1>0
<1>2. \A b \in Agents : pc'[b] = IF b = a THEN "load" ELSE pc[b]
  BY <1>1 DEF TypeOK
<1>3. result = "none"
  BY DEF IInv, Places, Returned
<1>4. AbstractPhase = "running" /\ AbstractPhase' = "running"
  BY <1>2, AgentFacts DEF AbstractPhase
<1>5. \A j \in Items : Held(j)' <=> (Held(j) \/ j = i)
  BY <1>2 DEF Held, Working
<1>6. AbstractItem(i) = "reset" /\ AbstractItem(i)' = "working"
  <2>1. status[i] = "ALLOCATION_FAILED"
    BY <1>3 DEF IInv, Contents, Unstarted, Untouched, Rest
  <2> QED
    BY <1>1, <1>5, <2>1 DEF AbstractItem
<1>7. \A j \in Items : j # i => AbstractItem(j)' = AbstractItem(j)
  BY <1>5 DEF AbstractItem
<1>8. \A j \in 0..(i - 1) : AbstractItem(j) \in {"working", "real"}
  BY <1>1 DEF AbstractItem
<1>9. [j \in Items |-> AbstractItem(j)]' =
         [[j \in Items |-> AbstractItem(j)] EXCEPT ![i] = "working"]
  BY <1>1, <1>6, <1>7
<1>10. [j \in Items |-> AbstractItem(j)][i] = "reset"
       /\ \A j \in 0..(i - 1) : [m \in Items |-> AbstractItem(m)][j] \in {"working", "real"}
  BY <1>1, <1>6, <1>8
<1>11. Contract!Start(i)
  BY <1>4, <1>9, <1>10 DEF Contract!Start
<1> QED
  BY <1>1, <1>11 DEF Contract!Next, Contract!InCall, InCall

\* Processing an item: it stays in the thread's hands, or the thread is through with it.
LEMMA ProcessMaps ==
    ASSUME IInv, NEW a \in Agents, Process(a), NEW i \in Nat, i = idx[a]
    PROVE  [Contract!Next]_Contract!vars
<1>1. /\ pc[a] \in Working /\ i \in Items /\ i \in InCall
      /\ pc'[a] \in {"compute", "clear", "count"}
      /\ \A b \in Agents : b # a => pc'[b] = pc[b]
      /\ \A b \in Agents : (b # a /\ pc[b] \in Working) => idx[b] # i /\ idx[b] \in Items
      /\ UNCHANGED <<args, idx>>
      /\ pc[Caller] # "validate" /\ pc'[Caller] # "validate" /\ result = "none"
      /\ starts'[i] = 1
      /\ \A j \in Items : j # i => starts'[j] = starts[j] /\ status'[j] = status[j]
  BY ProcessTouches DEF IInv
<1>2. pc[Caller] # "returned" /\ pc'[Caller] # "returned"
  BY <1>1, AgentFacts DEF IInv, Places, Returned
<1>3. AbstractPhase = "running" /\ AbstractPhase' = "running"
  BY <1>1, <1>2 DEF AbstractPhase
<1>4. Held(i) /\ (Held(i)' <=> pc'[a] \in Working)
  BY <1>1 DEF Held
<1>5. \A j \in Items : j # i => (Held(j)' <=> Held(j))
  BY <1>1 DEF Held
<1>6. AbstractItem(i) = "working"
  BY <1>4 DEF AbstractItem
<1>7. \A j \in Items : j # i => AbstractItem(j)' = AbstractItem(j)
  BY <1>1, <1>5 DEF AbstractItem
<1>8. CASE pc'[a] \in Working
  <2>1. AbstractItem(i)' = "working"
    BY <1>4, <1>8 DEF AbstractItem
  <2>2. \A j \in Items : AbstractItem(j)' = AbstractItem(j)
    BY <1>6, <1>7, <2>1
  <2> QED
    BY <1>1, <1>3, <2>2 DEF Contract!vars
<1>9. CASE pc'[a] \notin Working
  <2>1. AbstractItem(i)' = "real"
    BY <1>1, <1>4, <1>9 DEF AbstractItem
  <2>2. [j \in Items |-> AbstractItem(j)]' =
           [[j \in Items |-> AbstractItem(j)] EXCEPT ![i] = "real"]
    BY <1>1, <1>7, <2>1
  <2>3. [j \in Items |-> AbstractItem(j)][i] = "working"
    BY <1>1, <1>6
  <2>4. Contract!FinishItem(i)
    BY <1>1, <1>3, <2>2, <2>3 DEF Contract!FinishItem
  <2> QED
    BY <1>1, <2>4 DEF Contract!Next, Contract!InCall, InCall
<1> QED
  BY <1>8, <1>9

\* Every step of a thread is a step of the contract or a stuttering step of it.
LEMMA StepMaps == IInv /\ IInv' /\ [Next]_vars => [Contract!Next]_Contract!vars
<1> SUFFICES ASSUME IInv, IInv', [Next]_vars PROVE [Contract!Next]_Contract!vars
  OBVIOUS
<1>0. /\ TypeOK /\ Places /\ InRange /\ Apart /\ StartedOnce /\ NoGap
      /\ pc \in [Agents -> Labels] /\ idx \in [Agents -> Nat] /\ starts \in [Items -> Nat]
      /\ args.n \in Nat /\ next \in Nat
  BY CallFacts DEF IInv, Claims, TypeOK
<1>a. /\ \A i : i \in InCall <=> i \in Nat /\ i < args.n
      /\ \A i \in InCall : i \in Items
  BY CallFacts DEF IInv, TypeOK
<1> USE <1>0, AgentFacts DEF itemvars, sharedvars, callervars, history, Goto, Return
<1>1. ASSUME RejectCall \/ EmptyCall PROVE Contract!Next
  <2>1. /\ pc[Caller] = "validate" /\ UNCHANGED <<args, starts, status, idx>>
        /\ pc' = [pc EXCEPT ![Caller] = "returned"]
        /\ result' = "INVALID_ARGUMENT" \/ (result' = "SUCCESS" /\ args.n = 0)
    BY <1>1 DEF RejectCall, EmptyCall
  <2>2. \A i \in Items : Held(i)' <=> Held(i)
    BY <2>1 DEF Held, Working
  <2>3. \A i \in Items : AbstractItem(i)' = AbstractItem(i)
    BY <2>1, <2>2 DEF AbstractItem
  <2>4. AbstractPhase = "called" /\ AbstractPhase' = result'
    BY <2>1 DEF AbstractPhase
  <2> QED
    BY <2>1, <2>3, <2>4 DEF Contract!Next, Contract!Refuse, Contract!NothingToDo
<1>2. ASSUME BeginBatch PROVE Contract!Next
  <2>1. /\ pc[Caller] = "validate" /\ args.n > 0 /\ UNCHANGED <<args, starts, idx>>
        /\ pc'[Caller] \in {"alloc", "create"} /\ \A w \in Workers : pc'[w] = pc[w]
        /\ \A i \in Items : status'[i] = IF i \in InCall THEN "ALLOCATION_FAILED" ELSE status[i]
    BY <1>2 DEF BeginBatch, Reset, InCall
  <2>2. \A w \in Workers : pc[w] = "unborn"
    BY <2>1 DEF Places
  <2>3. \A i \in Items : ~Held(i) /\ ~Held(i)'
    BY <2>1, <2>2 DEF Held, Working
  <2>4. \A i \in Items : starts[i] = 0 /\ status[i] = "STALE"
    BY <2>1 DEF IInv, Contents, Spared, Pristine
  <2>5. \A i \in Items : AbstractItem(i) = "callers"
    BY <2>3, <2>4 DEF AbstractItem
  <2>6. \A i \in Items : AbstractItem(i)' = IF i \in InCall THEN "reset" ELSE "callers"
    BY <2>1, <2>3, <2>4 DEF AbstractItem
  <2>7. AbstractPhase = "called" /\ AbstractPhase' = "running"
    BY <2>1 DEF AbstractPhase
  <2> QED
    BY <2>1, <2>5, <2>6, <2>7
    DEF Contract!Next, Contract!Begin, Contract!Items, Contract!InCall, Items, InCall
<1>3. ASSUME AllocThreads PROVE [Contract!Next]_Contract!vars
  <2>1. /\ pc[Caller] = "alloc" /\ UNCHANGED <<args, starts, status, idx>>
        /\ \/ pc' = [pc EXCEPT ![Caller] = "spawn"] /\ result' = result
           \/ pc' = [pc EXCEPT ![Caller] = "returned"] /\ result' = "ALLOCATION_FAILED"
    BY <1>3 DEF AllocThreads
  <2>2. \A a \in Agents : pc[a] \notin Working
    BY <2>1 DEF Places, Working
  <2>3. CASE pc' = [pc EXCEPT ![Caller] = "spawn"] /\ result' = result
    BY <2>1, <2>2, <2>3, StuttersBy DEF Working
  <2>4. CASE pc' = [pc EXCEPT ![Caller] = "returned"] /\ result' = "ALLOCATION_FAILED"
    <3>1. pc'[Caller] = "returned" /\ \A a \in Agents : pc'[a] \notin Working
      BY <2>2, <2>4 DEF Working
    <3> QED
      BY <2>1, <2>2, <2>4, <3>1, ReturnMaps
  <2> QED
    BY <2>1, <2>3, <2>4
<1>4. ASSUME NEW created \in BOOLEAN, Spawn(created) PROVE UNCHANGED Contract!vars
  <2>1. /\ slot \in Workers /\ slot \notin spawned /\ pc[Caller] = "spawn"
        /\ UNCHANGED <<args, starts, status, idx, result>>
    BY <1>4, SpawnTakes DEF Spawn
  <2>2. pc[slot] = "unborn"
    BY <2>1 DEF Places
  <2>3. pc' = [pc EXCEPT ![slot] = IF created THEN "create" ELSE "unborn"]
    BY <1>4, <2>2 DEF Spawn
  <2> QED
    BY <2>1, <2>2, <2>3, StuttersBy DEF Working
<1>5. ASSUME JoinWorkers PROVE Contract!Next
  <2>1. /\ pc[Caller] = "spawn" /\ UNCHANGED <<args, starts>>
        /\ pc' = [pc EXCEPT ![Caller] = "returned"] /\ result' # "INVALID_ARGUMENT"
    BY <1>5 DEF JoinWorkers, JoinAs, Finish
  <2>2. \A a \in Agents : pc[a] \notin Working
    BY <1>5, Joined DEF IInv
  <2>3. pc'[Caller] = "returned" /\ \A a \in Agents : pc'[a] \notin Working
    BY <2>1, <2>2 DEF Working
  <2> QED
    BY <2>1, <2>2, <2>3, ReturnMaps
<1>6. ASSUME FinishSequential PROVE Contract!Next
  <2>1. /\ pc[Caller] = "free" /\ UNCHANGED <<args, starts>>
        /\ pc' = [pc EXCEPT ![Caller] = "returned"] /\ result' # "INVALID_ARGUMENT"
    BY <1>6 DEF FinishSequential, Finish
  <2>2. \A a \in Agents : pc[a] \notin Working
    BY <2>1 DEF Places, Working
  <2>3. pc'[Caller] = "returned" /\ \A a \in Agents : pc'[a] \notin Working
    BY <2>1, <2>2 DEF Working
  <2> QED
    BY <2>1, <2>2, <2>3, ReturnMaps
<1>7. ASSUME NEW a \in Agents, CreateContextFails(a) PROVE [Contract!Next]_Contract!vars
  <2>1. pc[a] = "create" /\ UNCHANGED <<args, starts, status, idx>>
    BY <1>7 DEF CreateContextFails
  <2>2. CASE a = Caller
    <3>1. pc' = [pc EXCEPT ![Caller] = "returned"] /\ result' # "INVALID_ARGUMENT"
      BY <1>7, <2>2 DEF CreateContextFails
    <3>2. \A b \in Agents : pc[b] \notin Working
      BY <2>1, <2>2 DEF Places, Working
    <3>3. pc'[Caller] = "returned" /\ \A b \in Agents : pc'[b] \notin Working
      BY <3>1, <3>2 DEF Working
    <3> QED
      BY <2>1, <2>2, <3>1, <3>2, <3>3, ReturnMaps
  <2>3. CASE a # Caller
    <3>1. pc' = [pc EXCEPT ![a] = "exited"] /\ result' = result
      BY <1>7, <2>3 DEF CreateContextFails
    <3> QED
      BY <2>1, <2>3, <3>1, StuttersBy DEF Working
  <2> QED
    BY <2>2, <2>3
<1>8. ASSUME NEW a \in Agents, MayContinue(a) PROVE [Contract!Next]_Contract!vars
  <2>1. pc[a] = "ask" /\ UNCHANGED <<args, starts, status, idx, result>>
    BY <1>8 DEF MayContinue, ContinueIf
  <2>2. CASE a # Caller
    <3>1. pc' = [pc EXCEPT ![a] = "claim"]
      BY <1>8, <2>2 DEF MayContinue, ContinueIf
    <3> QED
      BY <2>1, <2>2, <3>1, StuttersBy DEF Working
\* The sequential loop starts the item its counter stands at.
  <2>3. CASE a = Caller
    <3>1. pc' = [pc EXCEPT ![Caller] = "load"] /\ idx[Caller] \in InCall
      BY <1>8, <1>a, <2>3 DEF MayContinue, ContinueIf
    <3> DEFINE i == idx[Caller]
    <3>2. \A w \in Workers : pc[w] = "unborn"
      BY <2>1, <2>3 DEF Places
    <3>3. ~Held(i) /\ pc[Caller] \notin Working
      BY <2>1, <2>3, <3>2 DEF Held, Working
    <3>4. next = 0 /\ i \in Items /\ i \in Nat /\ i < args.n
      BY <1>a, <2>1, <2>3, <3>1 DEF Places
    <3>5. starts[i] = 0
      BY <2>1, <2>3, <3>4 DEF StartedOnce
    <3>6. \A j \in 0..(i - 1) : starts[j] = 1
      BY <1>a, <3>4 DEF NoGap
    <3> QED
      BY <2>1, <2>3, <3>1, <3>3, <3>5, <3>6, StartMaps
  <2> QED
    BY <2>2, <2>3
<1>9. ASSUME NEW w \in Workers, Claim(w) PROVE [Contract!Next]_Contract!vars
  <2>1. pc[w] = "claim" /\ UNCHANGED <<args, starts, status, result>>
    BY <1>9 DEF Claim, ClaimLeaving
  <2>2. \A b \in Agents : b # w => idx'[b] = idx[b]
    BY <1>9 DEF Claim, ClaimLeaving
  <2>3. CASE next >= args.n
    <3>1. pc' = [pc EXCEPT ![w] = "free"]
      BY <1>9, <2>3 DEF Claim, ClaimLeaving
    <3> QED
      BY <2>1, <2>2, <3>1, StuttersBy DEF Working
\* A worker starts the item the shared counter stands at.
  <2>4. CASE next < args.n
    <3>1. pc' = [pc EXCEPT ![w] = "load"] /\ idx'[w] = next /\ next \in InCall
      BY <1>9, <1>a, <2>4 DEF Claim, ClaimLeaving
    <3>2. /\ w \in spawned /\ pc[Caller] \in {"spawn", "returned"} /\ idx[Caller] = 0
          /\ pc[Caller] # "returned"
      BY <2>1 DEF Places, Returned
    <3>3. ~Held(next)
      BY <3>2 DEF Held, InRange, Working
    <3>4. starts[next] = 0
      BY <1>a, <3>1, <3>2 DEF StartedOnce
    <3>5. \A j \in 0..(next - 1) : Held(j) \/ starts[j] = 1
      BY <1>a, <2>4 DEF NoGap, Held, Working
    <3> QED
      BY <2>1, <2>2, <3>1, <3>2, <3>3, <3>4, <3>5, StartMaps DEF Working
  <2> QED
    BY <2>3, <2>4
<1>10. ASSUME NEW a \in Agents, Process(a) PROVE [Contract!Next]_Contract!vars
  BY <1>10, ProcessMaps
<1>11. ASSUME LoopEnds \/ CountStarted PROVE UNCHANGED Contract!vars
  <2>1. /\ pc[Caller] \in {"ask", "count"} /\ UNCHANGED <<args, starts, status, result>>
        /\ \E label \in {"free", "notify", "ask"} : pc' = [pc EXCEPT ![Caller] = label]
        /\ \A w \in Workers : idx'[w] = idx[w]
    BY <1>11 DEF LoopEnds, CountStarted
  <2>2. PICK label \in {"free", "notify", "ask"} : pc' = [pc EXCEPT ![Caller] = label]
    BY <2>1
  <2>3. /\ Caller \in Agents /\ \A b \in Agents : b # Caller => b \in Workers
        /\ pc[Caller] \notin Working /\ label \notin Working
        /\ {pc[Caller], label} \cap {"validate", "returned"} = {}
    BY <2>1, <2>2, AgentFacts DEF Working
  <2>4. UNCHANGED <<args, starts, status>> /\ result' = result
    BY <2>1
  <2>5. \A b \in Agents : b # Caller => idx'[b] = idx[b]
    BY <2>1, <2>3
  <2> QED
    BY <2>2, <2>3, <2>4, <2>5, StuttersBy
<1>12. ASSUME NEW a \in Agents, CreateContext(a) \/ Refuse(a) \/ Notify(a)
       PROVE  UNCHANGED Contract!vars
  <2>1. /\ pc[a] \in {"create", "ask", "notify"} /\ UNCHANGED <<args, starts, status, result, idx>>
        /\ \E label \in {"ask", "announce", "free", "stopping", "check"} :
                pc' = [pc EXCEPT ![a] = label]
    BY <1>12 DEF CreateContext, Refuse, Notify
  <2> QED
    BY <2>1, StuttersBy DEF Working
<1>13. ASSUME NEW w \in Workers,
              Announce(w) \/ CheckStop(w) \/ StoreStop(w) \/ CountDone(w) \/ FreeContext(w)
       PROVE  UNCHANGED Contract!vars
  <2>1. pc[w] \in {"announce", "check", "stopping", "count", "free"}
    BY <1>13 DEF Announce, CheckStop, CheckStopThen, StoreStop, CountDone, CountLeaving, FreeContext
  <2>2. UNCHANGED <<args, starts, status, result, idx>>
    BY <1>13 DEF Announce, CheckStop, CheckStopThen, StoreStop, CountDone, CountLeaving, FreeContext
  <2>3. \E label \in {"check", "free", "ask", "notify", "exited"} : pc' = [pc EXCEPT ![w] = label]
    BY <1>13 DEF Announce, CheckStop, CheckStopThen, StoreStop, CountDone, CountLeaving, FreeContext
  <2> QED
    BY <2>1, <2>2, <2>3, StuttersBy DEF Working
<1>14. CASE UNCHANGED vars
  BY <1>14, Stutters DEF vars, AbstractPhase
<1> QED
  BY <1>1, <1>2, <1>3, <1>4, <1>5, <1>6, <1>7, <1>8, <1>9, <1>10, <1>11, <1>12, <1>13, <1>14
  DEF Next, CallerStep, Worker, Over

\* The array as the caller passed it is the contract's.
LEMMA InitMaps == Init => Contract!Init
<1> SUFFICES ASSUME Init PROVE Contract!Init
  OBVIOUS
<1>1. /\ args.n \in 0..MaxItems
      /\ \A i \in Items : starts[i] = 0 /\ status[i] = "STALE"
      /\ \A a \in Agents : pc[a] \in {"validate", "unborn"}
      /\ pc[Caller] = "validate"
  BY BatchAssumption, AgentFacts DEF Init, AllCalls
<1>2. \A i \in Items : AbstractItem(i) = "callers"
  BY <1>1 DEF AbstractItem, Held, Working
<1>3. AbstractPhase = "called"
  BY <1>1 DEF AbstractPhase
<1> QED
  BY <1>1, <1>2, <1>3 DEF Contract!Init, Contract!Items, Items

\* ph_hash_files_ex() and ph_hash_buffers_ex() keep their contract with one thread or
\* many: items start in index order, end once, and the result tells which ones did.
THEOREM BatchImplementsContract == Spec => ImplementsContract
<1>1. Spec => []IInv
  BY InductiveInvariant
<1> QED
  BY <1>1, InitMaps, StepMaps, PTL DEF Spec, ImplementsContract, Contract!Spec
=============================================================================
