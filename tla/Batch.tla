------------------------------- MODULE Batch -------------------------------
(***************************************************************************)
(* One call of ph_hash_files_ex() / ph_hash_buffers_ex() (src/batch.c): the *)
(* calling thread validates, resets the items, spawns the workers (or runs  *)
(* the batch itself), joins them and turns what they left into a result.    *)
(*                                                                         *)
(* A worker's step is one access to shared memory or one callback: every    *)
(* atomic of ph_batch_shared_t is read or written by an action of its own,  *)
(* so the interleavings are those of the C program.  Decoding and hashing   *)
(* an item are a nondeterministic outcome; allocation, thread creation and  *)
(* context creation may fail whenever the code can see them fail.           *)
(***************************************************************************)
EXTENDS Integers, FiniteSets

CONSTANTS
    MaxItems,    \* length of the caller's item array; a call passes n <= MaxItems
    MaxThreads,  \* bound on the workers of a call
    Cpus,        \* what ph_available_cpus() answers
    Calls,       \* the calls the caller may make, a subset of AllCalls
    LoadErrors   \* statuses a failed load gives (and those of a missing path)

\* wellFormed: struct_size and flags are valid; items: the pointer is not NULL;
\* cont, prog: the callbacks are not NULL; latched: once should_continue has
\* answered 0 it answers 0 for ever (a flag or a deadline).
AllCalls == [n : 0..MaxItems, threads : {t \in Int : t <= MaxThreads},
             wellFormed : BOOLEAN, items : BOOLEAN,
             cont : BOOLEAN, prog : BOOLEAN, latched : BOOLEAN]

ASSUME BatchAssumption ==
    /\ MaxItems \in Nat
    /\ MaxThreads \in Nat \ {0}
    /\ Cpus \in 1..MaxThreads
    /\ Calls \subseteq AllCalls
    /\ LoadErrors \subseteq {"INVALID_ARGUMENT", "IO", "ALLOCATION_FAILED", "CORRUPT"}

Caller  == 0
Workers == 1..MaxThreads
Agents  == 0..MaxThreads     \* the threads that may process an item
Items   == 0..(MaxItems - 1)

ComputeError == "COMPUTE_ERROR"    \* any failure of ph_compute_multi()
Statuses == {"STALE", "SUCCESS", "ALLOCATION_FAILED", "CANCELLED", ComputeError}
                \cup LoadErrors
\* The hash slots of an item: whatever the caller left there, all zero, some
\* slots written by a computation that then failed, or all of them written.
Slots == {"stale", "zero", "partial", "real"}
Results == {"none", "SUCCESS", "INVALID_ARGUMENT", "ALLOCATION_FAILED", "CANCELLED"}

VARIABLES
    args,      \* the call, one of Calls
    status,    \* items[i].status
    hashes,    \* items[i].hashes, one of Slots
    starts,    \* history: how many times the processing of item i began
    next,      \* shared.next: the next index to claim
    done,      \* shared.done: items finished, for the progress callback
    stop,      \* shared.stop
    ready,     \* shared.workers_ready
    pc,        \* where each thread is
    idx,       \* the item a thread holds; the caller's loop counter when sequential
    seen,      \* the `done` value a thread is about to report
    contexts,  \* agents whose ph_context_t is allocated
    slot,      \* loop counter of the spawn loop
    spawned,   \* workers whose pthread_create() succeeded
    result,    \* what the call returned
    refused,   \* history: should_continue has answered 0
    late,      \* history: items claimed after it had answered 0
    afterStop, \* history: items claimed after shared.stop was stored
    reported   \* history: how many times each `done` value was passed on

itemvars   == <<status, hashes, starts>>
sharedvars == <<next, done, stop, ready>>
callervars == <<slot, spawned, result>>
history    == <<refused, late, afterStop, reported>>
vars == <<args, itemvars, sharedvars, pc, idx, seen, contexts, callervars, history>>

-----------------------------------------------------------------------------
\* ph_resolve_thread_count()
ResolveThreadCount(threads, n) ==
    LET wanted == IF threads = 0 THEN Cpus ELSE threads
    IN  IF wanted > n THEN n ELSE wanted

nthreads == ResolveThreadCount(args.threads, args.n)

Goto(a, label) == pc' = [pc EXCEPT ![a] = label]

Return(r) ==
    /\ result' = r
    /\ Goto(Caller, "returned")

\* The order of ph_hash_batch(): a malformed call is refused even when n = 0.
Malformed == ~args.wellFormed \/ args.threads < 0 \/ (~args.items /\ args.n > 0)

RejectCall ==
    /\ pc[Caller] = "validate"
    /\ Malformed
    /\ Return("INVALID_ARGUMENT")
    /\ UNCHANGED <<args, itemvars, sharedvars, idx, seen, contexts, slot, spawned, history>>

EmptyCall ==
    /\ pc[Caller] = "validate"
    /\ ~Malformed
    /\ args.n = 0
    /\ Return("SUCCESS")
    /\ UNCHANGED <<args, itemvars, sharedvars, idx, seen, contexts, slot, spawned, history>>

\* reset() on every index from `first` up to n - 1.
Reset(first, s) ==
    /\ status' = [i \in Items |-> IF i \in first..(args.n - 1) THEN s ELSE status[i]]
    /\ hashes' = [i \in Items |-> IF i \in first..(args.n - 1) THEN "zero" ELSE hashes[i]]

BeginBatch ==
    /\ pc[Caller] = "validate"
    /\ ~Malformed
    /\ args.n > 0
    /\ Reset(0, "ALLOCATION_FAILED")
    /\ Goto(Caller, IF nthreads > 1 THEN "alloc" ELSE "create")
    /\ UNCHANGED <<args, starts, sharedvars, idx, seen, contexts, callervars, history>>

\* malloc() of the thread array.
AllocThreads ==
    /\ pc[Caller] = "alloc"
    /\ \/ Return("ALLOCATION_FAILED")
       \/ Goto(Caller, "spawn") /\ UNCHANGED result
    /\ UNCHANGED <<args, itemvars, sharedvars, idx, seen, contexts, slot, spawned, history>>

\* One turn of the pthread_create() loop; a failed creation is skipped.
Spawn(created) ==
    /\ pc[Caller] = "spawn"
    /\ slot <= nthreads
    /\ slot' = slot + 1
    /\ spawned' = IF created THEN spawned \cup {slot} ELSE spawned
    /\ pc' = IF created THEN [pc EXCEPT ![slot] = "create"] ELSE pc
    /\ UNCHANGED <<args, itemvars, sharedvars, idx, seen, contexts, result, history>>

\* Fault: a cancelled batch leaves the unstarted items as they were reset.
FinishWithoutReset(k) ==
    /\ Return(IF k = args.n THEN "SUCCESS" ELSE "CANCELLED")
    /\ UNCHANGED <<status, hashes>>

\* Fault: the reset of the unstarted items begins at the last started one.
FinishOneEarly(k) ==
    IF k = args.n
    THEN Return("SUCCESS") /\ UNCHANGED <<status, hashes>>
    ELSE Return("CANCELLED") /\ Reset(k - 1, "CANCELLED")

\* What ph_hash_batch() does once the first k items are known to be started.
Finish(k) ==
    IF k = args.n
    THEN Return("SUCCESS") /\ UNCHANGED <<status, hashes>>
    ELSE Return("CANCELLED") /\ Reset(k, "CANCELLED")

\* The caller's verdict after the join: `joined` are the workers waited for,
\* `noWork` the condition of the error return, `claimed` the started prefix.
JoinAs(joined, noWork, claimed) ==
    /\ pc[Caller] = "spawn"
    /\ slot > nthreads
    /\ \A w \in joined : pc[w] = "exited"
    /\ IF noWork
       THEN Return("ALLOCATION_FAILED") /\ UNCHANGED <<status, hashes>>
       ELSE Finish(claimed)
    /\ UNCHANGED <<args, starts, sharedvars, idx, seen, contexts, slot, spawned, history>>

Claimed == IF next < args.n THEN next ELSE args.n

\* Faults: the last worker is not joined; the overshoot of `next` is not
\* clamped; workers_ready is not looked at; any failed thread fails the batch.
JoinMissesLast    == JoinAs(spawned \ {nthreads}, spawned = {} \/ ready = 0, Claimed)
JoinWithoutClamp  == JoinAs(spawned, spawned = {} \/ ready = 0, next)
JoinIgnoresReady  == JoinAs(spawned, spawned = {}, Claimed)
JoinWantsEveryOne == JoinAs(spawned, ready < nthreads, Claimed)

\* pthread_join() of every spawned worker, then the verdict on what they did.
JoinWorkers == JoinAs(spawned, spawned = {} \/ ready = 0, Claimed)

-----------------------------------------------------------------------------
\* ph_batch_create_context().  A worker without a context leaves at once; a
\* sequential batch without one fails as a whole.
CreateContextFails(a) ==
    /\ pc[a] = "create"
    /\ IF a = Caller THEN Return("ALLOCATION_FAILED")
                     ELSE Goto(a, "exited") /\ UNCHANGED result
    /\ UNCHANGED <<args, itemvars, sharedvars, idx, seen, contexts, slot, spawned, history>>

CreateContext(a) ==
    /\ pc[a] = "create"
    /\ contexts' = contexts \cup {a}
    /\ Goto(a, IF a = Caller THEN "ask" ELSE "announce")
    /\ UNCHANGED <<args, itemvars, sharedvars, idx, seen, callervars, history>>

\* atomic_fetch_add(&shared->workers_ready, 1)
Announce(w) ==
    /\ pc[w] = "announce"
    /\ ready' = ready + 1
    /\ Goto(w, "check")
    /\ UNCHANGED <<args, itemvars, next, done, stop, idx, seen, contexts, callervars, history>>

\* atomic_load(&shared->stop): the worker leaves or asks the callback.
\* Faults: the flag is not looked at; the worker spins on it.
CheckStopThen(w, label) ==
    /\ pc[w] = "check"
    /\ Goto(w, label)
    /\ UNCHANGED <<args, itemvars, sharedvars, idx, seen, contexts, callervars, history>>

CheckStopIgnored(w) == CheckStopThen(w, "ask")
CheckStopSpins(w)   == CheckStopThen(w, IF stop THEN "check" ELSE "ask")
CheckStop(w)        == CheckStopThen(w, IF stop THEN "free" ELSE "ask")

\* ph_batch_should_stop() lets the item start: there is no callback or it may
\* still answer 1.  The sequential loop tests its counter before it asks.
\* Fault: the answer is dropped.
ContinueIf(a, allowed) ==
    /\ pc[a] = "ask"
    /\ a = Caller => idx[a] < args.n
    /\ allowed
    /\ Goto(a, IF a = Caller THEN "load" ELSE "claim")
    /\ UNCHANGED <<args, itemvars, sharedvars, idx, seen, contexts, callervars, history>>

ContinueAnyway(a) == ContinueIf(a, TRUE)
MayContinue(a)    == ContinueIf(a, ~(args.cont /\ args.latched /\ refused))

\* should_continue answers 0.
Refuse(a) ==
    /\ pc[a] = "ask"
    /\ args.cont
    /\ a = Caller => idx[a] < args.n
    /\ refused' = TRUE
    /\ Goto(a, IF a = Caller THEN "free" ELSE "stopping")
    /\ UNCHANGED <<args, itemvars, sharedvars, idx, seen, contexts, callervars, late,
                   afterStop, reported>>

LoopEnds ==
    /\ pc[Caller] = "ask"
    /\ idx[Caller] = args.n
    /\ Goto(Caller, "free")
    /\ UNCHANGED <<args, itemvars, sharedvars, idx, seen, contexts, callervars, history>>

\* atomic_store(&shared->stop, 1)
StoreStop(w) ==
    /\ pc[w] = "stopping"
    /\ stop' = TRUE
    /\ Goto(w, "free")
    /\ UNCHANGED <<args, itemvars, next, done, ready, idx, seen, contexts, callervars, history>>

\* atomic_fetch_add(&shared->next, 1), and the exit when nothing is left.
\* Fault: the increment is not atomic and another worker's may overwrite it.
ClaimLeaving(w, nexts) ==
    /\ pc[w] = "claim"
    /\ next' \in nexts
    /\ IF next >= args.n
       THEN Goto(w, "free") /\ UNCHANGED <<idx, late, afterStop>>
       ELSE /\ idx' = [idx EXCEPT ![w] = next]
            /\ Goto(w, "load")
            /\ late' = IF refused THEN late + 1 ELSE late
            /\ afterStop' = IF stop THEN afterStop + 1 ELSE afterStop
    /\ UNCHANGED <<args, itemvars, done, stop, ready, seen, contexts, callervars,
                   refused, reported>>

ClaimNotAtomic(w) == ClaimLeaving(w, {next, next + 1})
Claim(w)          == ClaimLeaving(w, {next + 1})

-----------------------------------------------------------------------------
\* process_file_item() / process_buffer_item(): no path or buffer, or the load
\* fails: the slots are cleared and the item has its status.
LoadFails(a, error) ==
    /\ pc[a] = "load"
    /\ starts' = [starts EXCEPT ![idx[a]] = @ + 1]
    /\ status' = [status EXCEPT ![idx[a]] = error]
    /\ hashes' = [hashes EXCEPT ![idx[a]] = "zero"]
    /\ Goto(a, "count")
    /\ UNCHANGED <<args, sharedvars, idx, seen, contexts, callervars, history>>

Load(a) ==
    /\ pc[a] = "load"
    /\ starts' = [starts EXCEPT ![idx[a]] = @ + 1]
    /\ Goto(a, "compute")
    /\ UNCHANGED <<args, status, hashes, sharedvars, idx, seen, contexts, callervars, history>>

\* hash_item(), ph_compute_multi() succeeds.
Compute(a) ==
    /\ pc[a] = "compute"
    /\ status' = [status EXCEPT ![idx[a]] = "SUCCESS"]
    /\ hashes' = [hashes EXCEPT ![idx[a]] = "real"]
    /\ Goto(a, "count")
    /\ UNCHANGED <<args, starts, sharedvars, idx, seen, contexts, callervars, history>>

\* hash_item(), ph_compute_multi() fails having written some slots or none; they
\* are then cleared.  Fault: they are not.
ComputeFailsThen(a, label) ==
    /\ pc[a] = "compute"
    /\ status' = [status EXCEPT ![idx[a]] = ComputeError]
    /\ \E s \in {"partial", hashes[idx[a]]} : hashes' = [hashes EXCEPT ![idx[a]] = s]
    /\ Goto(a, label)
    /\ UNCHANGED <<args, starts, sharedvars, idx, seen, contexts, callervars, history>>

ComputeFailsUncleared(a) == ComputeFailsThen(a, "count")
ComputeFails(a)          == ComputeFailsThen(a, "clear")

ClearHashes(a) ==
    /\ pc[a] = "clear"
    /\ hashes' = [hashes EXCEPT ![idx[a]] = "zero"]
    /\ Goto(a, "count")
    /\ UNCHANGED <<args, status, starts, sharedvars, idx, seen, contexts, callervars, history>>

\* The worker's atomic_fetch_add(&shared->done, 1) + 1; without a callback the
\* counter is not touched.  Fault: a plain increment, which may be lost.
CountLeaving(w, dones) ==
    /\ pc[w] = "count"
    /\ IF args.prog
       THEN /\ seen' = [seen EXCEPT ![w] = done + 1]
            /\ done' \in dones
            /\ Goto(w, "notify")
       ELSE Goto(w, "check") /\ UNCHANGED <<seen, done>>
    /\ UNCHANGED <<args, itemvars, next, stop, ready, idx, contexts, callervars, history>>

CountNotAtomic(w) == CountLeaving(w, {done, done + 1})
CountDone(w)      == CountLeaving(w, {done + 1})

\* The sequential loop's started++.
CountStarted ==
    /\ pc[Caller] = "count"
    /\ idx' = [idx EXCEPT ![Caller] = @ + 1]
    /\ seen' = [seen EXCEPT ![Caller] = idx[Caller] + 1]
    /\ Goto(Caller, IF args.prog THEN "notify" ELSE "ask")
    /\ UNCHANGED <<args, itemvars, sharedvars, contexts, callervars, history>>

\* on_progress(done, n, user_data)
Notify(a) ==
    /\ pc[a] = "notify"
    /\ reported' = [reported EXCEPT ![seen[a]] = @ + 1]
    /\ Goto(a, IF a = Caller THEN "ask" ELSE "check")
    /\ UNCHANGED <<args, itemvars, sharedvars, idx, seen, contexts, callervars, refused, late,
                   afterStop>>

\* ph_free(ctx); the sequential batch then returns.
FreeContext(w) ==
    /\ pc[w] = "free"
    /\ contexts' = contexts \ {w}
    /\ Goto(w, "exited")
    /\ UNCHANGED <<args, itemvars, sharedvars, idx, seen, callervars, history>>

FinishSequential ==
    /\ pc[Caller] = "free"
    /\ contexts' = contexts \ {Caller}
    /\ Finish(idx[Caller])
    /\ UNCHANGED <<args, starts, sharedvars, idx, seen, slot, spawned, history>>

-----------------------------------------------------------------------------
Process(a) ==
    \/ \E error \in LoadErrors : LoadFails(a, error)
    \/ Load(a)
    \/ Compute(a)
    \/ ComputeFails(a)
    \/ ClearHashes(a)

\* ph_batch_worker_run()
Worker(w) ==
    \/ CreateContextFails(w)
    \/ CreateContext(w)
    \/ Announce(w)
    \/ CheckStop(w)
    \/ MayContinue(w)
    \/ Refuse(w)
    \/ StoreStop(w)
    \/ Claim(w)
    \/ Process(w)
    \/ CountDone(w)
    \/ Notify(w)
    \/ FreeContext(w)

\* ph_hash_batch(), ph_batch_run_threaded() and ph_batch_run_sequential()
CallerStep ==
    \/ RejectCall
    \/ EmptyCall
    \/ BeginBatch
    \/ AllocThreads
    \/ \E created \in BOOLEAN : Spawn(created)
    \/ JoinWorkers
    \/ CreateContextFails(Caller)
    \/ CreateContext(Caller)
    \/ MayContinue(Caller)
    \/ Refuse(Caller)
    \/ LoopEnds
    \/ Process(Caller)
    \/ CountStarted
    \/ Notify(Caller)
    \/ FinishSequential

Init ==
    /\ args \in Calls
    /\ status = [i \in Items |-> "STALE"]
    /\ hashes = [i \in Items |-> "stale"]
    /\ starts = [i \in Items |-> 0]
    /\ next = 0
    /\ done = 0
    /\ stop = FALSE
    /\ ready = 0
    /\ pc = [a \in Agents |-> IF a = Caller THEN "validate" ELSE "unborn"]
    /\ idx = [a \in Agents |-> 0]
    /\ seen = [a \in Agents |-> 0]
    /\ contexts = {}
    /\ slot = 1
    /\ spawned = {}
    /\ result = "none"
    /\ refused = FALSE
    /\ late = 0
    /\ afterStop = 0
    /\ reported = [v \in 1..MaxItems |-> 0]

\* The call is over; the array belongs to the caller again.
Over == pc[Caller] = "returned" /\ UNCHANGED vars

Next == CallerStep \/ (\E w \in Workers : Worker(w)) \/ Over

\* Every thread keeps running: the operating system schedules it, and neither a
\* callback nor a decoder blocks for ever.
Fairness == WF_vars(CallerStep) /\ \A w \in Workers : WF_vars(Worker(w))

Spec     == Init /\ [][Next]_vars
FairSpec == Spec /\ Fairness

-----------------------------------------------------------------------------
Returned == pc[Caller] = "returned"
Working  == {"load", "compute", "clear"}

\* Items whose processing has begun and is not in a thread's hands any more.
Finished == {i \in Items : starts[i] > 0 /\ \A a \in Agents : ~(pc[a] \in Working /\ idx[a] = i)}

Labels == {"validate", "alloc", "spawn", "returned", "unborn", "create", "announce", "check",
           "ask", "stopping", "claim", "count", "notify", "free", "exited"} \cup Working

\* Every variable keeps the type its declaration in batch.c gives it.
TypeOK ==
    /\ args \in Calls
    /\ status \in [Items -> Statuses]
    /\ hashes \in [Items -> Slots]
    /\ starts \in [Items -> Nat]
    /\ next \in Nat /\ done \in Nat /\ ready \in Nat
    /\ stop \in BOOLEAN
    /\ pc \in [Agents -> Labels]
    /\ idx \in [Agents -> Nat]
    /\ seen \in [Agents -> Nat]
    /\ contexts \in SUBSET Agents
    /\ slot \in 1..(MaxThreads + 1)
    /\ spawned \in SUBSET Workers
    /\ result \in Results
    /\ refused \in BOOLEAN
    /\ late \in Nat /\ afterStop \in Nat
    /\ reported \in [1..MaxItems -> Nat]

\* No two threads ever hold the same item, and no item is processed twice: the
\* fetch-and-add on `next` gives every index out once, and the sequential loop
\* never overlaps a worker.
EachItemOnce ==
    /\ \A i \in Items : starts[i] <= 1
    /\ \A a, b \in Agents :
          (a # b /\ pc[a] \in Working /\ pc[b] \in Working) => idx[a] # idx[b]

\* A thread is processing an item only while the call has not returned: the
\* caller gets its array back with nobody writing to it and no context left.
QuietAfterReturn ==
    Returned => /\ \A w \in Workers : pc[w] \in {"unborn", "exited"}
                /\ contexts = {}

\* The return contract of ph_hash_files_ex() (libphash.h, "@return"): SUCCESS means
\* every item was processed, CANCELLED that a callback refused, a proper prefix was
\* processed and the rest is marked and zeroed, ALLOCATION_FAILED that no item was
\* worked on (failing threads and contexts never look like a cancellation),
\* INVALID_ARGUMENT that nothing was written; what lies past n is never written.
Untouched(i, s) == starts[i] = 0 /\ status[i] = s /\ hashes[i] = "zero"
Processed(i)    == starts[i] = 1 /\ i \in Finished /\ status[i] \notin {"STALE", "CANCELLED"}
InCall          == 0..(args.n - 1)

ResultTellsItems ==
    /\ result = "SUCCESS" => \A i \in InCall : Processed(i)
    /\ result = "CANCELLED" =>
          refused /\ \E k \in InCall : /\ \A i \in 0..(k - 1) : Processed(i)
                                       /\ \A i \in k..(args.n - 1) : Untouched(i, "CANCELLED")
    /\ result = "ALLOCATION_FAILED" => \A i \in InCall : Untouched(i, "ALLOCATION_FAILED")
    /\ \A i \in Items : (result = "INVALID_ARGUMENT" \/ i \notin InCall) =>
          starts[i] = 0 /\ status[i] = "STALE" /\ hashes[i] = "stale"

\* When the call is over, an item's slots hold hashes exactly when its status is
\* SUCCESS; otherwise they are all zero, whatever a computation had written.
NoPartialHashes ==
    (Returned /\ result # "INVALID_ARGUMENT") =>
        \A i \in InCall : hashes[i] = (IF status[i] = "SUCCESS" THEN "real" ELSE "zero")

\* on_progress: no value is passed twice, none before that many items are
\* finished, and when the call returns every value up to the number of finished
\* items has been passed.
ProgressExact ==
    /\ \A v \in 1..MaxItems : reported[v] <= 1
    /\ \A v \in 1..MaxItems : reported[v] > 0 => v <= Cardinality(Finished)
    /\ (Returned /\ args.prog) =>
          {v \in 1..MaxItems : reported[v] > 0} = 1..Cardinality(Finished)

\* Once the stop flag is stored, each of the other workers starts at most the
\* one item whose checks it had already passed.  With a callback that stays at 0
\* once it answered 0, the same bound counts from the answer itself, although the
\* flag is stored some time later.
CancellationBoundsClaims ==
    /\ afterStop > 0 => afterStop < nthreads
    /\ (args.latched /\ late > 0) => late < nthreads

\* What the comment of ph_batch_continue_fn says: "After it returns 0 once, no
\* worker starts another item".
NoStartAfterRefusal == late = 0

\* A finished item keeps its status and its hashes: neither another worker nor
\* the cancellation's reset of the unstarted items writes it again.
FinishedIsFinal ==
    [][\A i \in Items : i \in Finished =>
          (i \in Finished' /\ status'[i] = status[i] /\ hashes'[i] = hashes[i])]_vars

\* The call returns, whatever fails and whatever the callbacks answer.
CallReturns == <>Returned

\* A call that was not refused and got one worker's context processes every item
\* even if all other workers could not start.
OneWorkerSuffices == (ready > 0 /\ ~args.cont) ~> (result = "SUCCESS")
=============================================================================
