-------------------------- MODULE BatchRefinement --------------------------
(***************************************************************************)
(* Batch implements BatchContract.  An item is started when its index has   *)
(* been claimed, and real once its processing has ended; everything between *)
(* (contexts, the stop flag, progress, hash slots) is a stuttering step.    *)
(***************************************************************************)
EXTENDS Batch

Held(i) == \E a \in Agents : pc[a] \in Working /\ idx[a] = i

AbstractItem(i) ==
    CASE Held(i) -> "working"
      [] ~Held(i) /\ starts[i] > 0 -> "real"
      [] ~Held(i) /\ starts[i] = 0 /\ status[i] = "STALE" -> "callers"
      [] ~Held(i) /\ starts[i] = 0 /\ status[i] = "CANCELLED" -> "cancelled"
      [] OTHER -> "reset"

AbstractPhase ==
    CASE pc[Caller] = "validate" -> "called"
      [] pc[Caller] = "returned" -> result
      [] OTHER -> "running"

Contract == INSTANCE BatchContract
    WITH n <- args.n, item <- [i \in Items |-> AbstractItem(i)], phase <- AbstractPhase

\* The threaded and the sequential paths of ph_hash_batch() both keep the
\* promise of BatchContract.
ImplementsContract == Contract!Spec
=============================================================================
