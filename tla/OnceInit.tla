------------------------------ MODULE OnceInit ------------------------------
(***************************************************************************)
(* Process-wide state built on first use under a spinlock with a checked    *)
(* flag: the DCT matrix (ph_init_dct_matrix(), src/hashes/phash.c), the CRC *)
(* tables (ph_png_crc_init(), src/loader.c) and the decoder warm-up         *)
(* (ph_warm_decoder_dispatch(), src/loader.c), which makes zlib-ng fill its *)
(* own dispatch table and, unlike the others, may fail for want of memory.  *)
(***************************************************************************)
EXTENDS Integers

CONSTANTS
    Threads,    \* the threads that call into the library
    MaxFailures \* bound on the warm-ups that run out of memory

ASSUME OnceAssumption == MaxFailures \in Nat

VARIABLES
    dispatch,   \* TRUE: the table is zlib-ng's, which an early reader fills itself;
                \* FALSE: it is one of the library's own, and building it cannot fail
    lock,       \* s_dct_32_lock, s_png_crc_lock, s_warmup_lock
    inited,     \* s_dct_32_init, s_png_crc_init, s_warmup_done
    table,      \* what the flag guards: "cold", "torn" while written, "ready"
    pc,
    failures,   \* warm-ups that failed
    builds      \* history: builds begun

onceVars == <<dispatch, lock, inited, table, pc, failures, builds>>

Goto(t, label) == pc' = [pc EXCEPT ![t] = label]

\* The unlocked test of the flag.
LookFirst(t) ==
    /\ pc[t] = "idle"
    /\ Goto(t, IF inited THEN "proceed" ELSE "spin")
    /\ UNCHANGED <<dispatch, lock, inited, table, failures, builds>>

\* atomic_flag_test_and_set() finds the flag clear.
Acquire(t) ==
    /\ pc[t] = "spin"
    /\ ~lock
    /\ lock' = TRUE
    /\ Goto(t, "recheck")
    /\ UNCHANGED <<dispatch, inited, table, failures, builds>>

\* The other turns of the loop: test_and_set() stores what was stored.
Spin(t) ==
    /\ pc[t] = "spin"
    /\ lock
    /\ UNCHANGED onceVars

\* The test of the flag under the lock.  Fault: it is left out.
LookAgainFinding(t, built) ==
    /\ pc[t] = "recheck"
    /\ Goto(t, IF built THEN "unlock" ELSE "build")
    /\ UNCHANGED <<dispatch, lock, inited, table, failures, builds>>

LookAgainSkipped(t) == LookAgainFinding(t, FALSE)
LookAgain(t)        == LookAgainFinding(t, inited)

\* zlib-ng replaces its entry points only while they are the initial ones.
Torn == IF dispatch /\ table = "ready" THEN "ready" ELSE "torn"

\* The first write of the table.  Fault: the flag is stored before the table.
BuildLeaving(t, flag) ==
    /\ pc[t] = "build"
    /\ table' = Torn
    /\ builds' = builds + 1
    /\ inited' = flag
    /\ Goto(t, "building")
    /\ UNCHANGED <<dispatch, lock, failures>>

PublishFirst(t) == BuildLeaving(t, TRUE)
BeginBuild(t)   == BuildLeaving(t, inited)

FinishBuild(t) ==
    /\ pc[t] = "building"
    /\ table' = "ready"
    /\ Goto(t, "publish")
    /\ UNCHANGED <<dispatch, lock, inited, failures, builds>>

\* The warm-up decode returns NULL, before it reached zlib-ng or after it: the
\* flag stays clear and the next call tries again.  Fault: the lock is kept.
FailGoingTo(t, label) ==
    /\ dispatch
    /\ failures < MaxFailures
    /\ failures' = failures + 1
    /\ \/ pc[t] = "build" /\ UNCHANGED table
       \/ pc[t] = "building" /\ table' = "ready"
    /\ Goto(t, label)
    /\ UNCHANGED <<dispatch, lock, inited, builds>>

FailKeepingLock(t) == FailGoingTo(t, "proceed")
BuildFails(t)      == FailGoingTo(t, "unlock")

Publish(t) ==
    /\ pc[t] = "publish"
    /\ inited' = TRUE
    /\ Goto(t, "unlock")
    /\ UNCHANGED <<dispatch, lock, table, failures, builds>>

\* atomic_flag_clear()
Unlock(t) ==
    /\ pc[t] = "unlock"
    /\ lock' = FALSE
    /\ Goto(t, "proceed")
    /\ UNCHANGED <<dispatch, inited, table, failures, builds>>

\* The caller goes on: it reads the table, or, when the table is zlib-ng's and
\* the warm-up failed, its own decode fills it without the lock.
Use(t) ==
    /\ pc[t] = "proceed"
    /\ ~dispatch \/ table = "ready"
    /\ Goto(t, "use")
    /\ UNCHANGED <<dispatch, lock, inited, table, failures, builds>>

UseCold(t) ==
    /\ pc[t] = "proceed"
    /\ dispatch /\ table # "ready"
    /\ table' = "torn"
    /\ Goto(t, "fill")
    /\ UNCHANGED <<dispatch, lock, inited, failures, builds>>

Fill(t) ==
    /\ pc[t] = "fill"
    /\ table' = "ready"
    /\ Goto(t, "use")
    /\ UNCHANGED <<dispatch, lock, inited, failures, builds>>

\* The computation or the decode is over; the thread may call again.
Leave(t) ==
    /\ pc[t] = "use"
    /\ Goto(t, "idle")
    /\ UNCHANGED <<dispatch, lock, inited, table, failures, builds>>

OnceIdle ==
    /\ dispatch \in BOOLEAN
    /\ lock = FALSE
    /\ inited = FALSE
    /\ table = "cold"
    /\ pc = [t \in Threads |-> "idle"]
    /\ failures = 0
    /\ builds = 0

Locked(t) == LookAgain(t) \/ BeginBuild(t) \/ FinishBuild(t) \/ BuildFails(t) \/ Publish(t) \/ Unlock(t)
Go(t)     == Acquire(t) \/ Locked(t) \/ Use(t) \/ UseCold(t) \/ Fill(t) \/ Leave(t)

OnceNext == \E t \in Threads : LookFirst(t) \/ Spin(t) \/ Go(t)

OnceSpec == OnceIdle /\ [][OnceNext]_onceVars

\* A thread that has entered keeps running; none is obliged to call.  A spinning
\* thread is only promised the lock if it stays free.
FairSpec == OnceSpec /\ \A t \in Threads : WF_onceVars(Go(t))

-----------------------------------------------------------------------------
Inside == {"recheck", "build", "building", "publish", "unlock"}
Labels == {"idle", "spin", "proceed", "fill", "use"} \cup Inside

\* The flags are flags, every thread is at a known place, and no more is built
\* than the failures allow.
OnceTypeOK ==
    /\ dispatch \in BOOLEAN /\ lock \in BOOLEAN /\ inited \in BOOLEAN
    /\ table \in {"cold", "torn", "ready"}
    /\ pc \in [Threads -> Labels]
    /\ failures \in 0..MaxFailures /\ builds \in 0..(MaxFailures + 1)

\* At most one thread is between taking the lock and clearing it, and the flag is
\* set exactly while there is one: no path leaves with the lock held.
OneInside ==
    /\ \A t, u \in Threads : (pc[t] \in Inside /\ pc[u] \in Inside) => t = u
    /\ lock <=> \E t \in Threads : pc[t] \in Inside

\* No thread computes with a table that another is still writing: the flag is
\* stored after the last write, and nothing writes the table after that.  Where
\* the warm-up can fail this holds as long as it has not.
ReadersSeeWhole ==
    failures = 0 => \A t \in Threads : pc[t] # "fill" /\ (pc[t] = "use" => table = "ready")

\* Once the flag is set nothing is built again, however many threads were already
\* spinning; until then a build is repeated only after a failed one.
BuiltOnce ==
    /\ builds <= failures + 1
    /\ inited => \A t \in Threads : pc[t] # "build"

\* Every caller gets past the lock, also after a failed warm-up: a clear flag is
\* enough, because once the table is built nobody takes the lock any more.
CallersProceed == \A t \in Threads : pc[t] = "spin" ~> pc[t] = "use"
=============================================================================
