--------------------------- MODULE BatchContract ---------------------------
(***************************************************************************)
(* What ph_hash_files_ex() and ph_hash_buffers_ex() promise their caller,   *)
(* whatever the number of threads: items start in index order, run in any   *)
(* overlap, finish once, and the result says which of them were processed.  *)
(***************************************************************************)
EXTENDS Naturals

CONSTANT MaxItems

Items == 0..(MaxItems - 1)

VARIABLES
    n,      \* the size of the batch
    item,   \* each item: as the caller left it, reset, working, real or cancelled
    phase   \* "called", "running", or the result of the call

vars == <<n, item, phase>>

InCall == 0..(n - 1)
All(s) == \A i \in InCall : item[i] = s

Init ==
    /\ n \in 0..MaxItems
    /\ item = [i \in Items |-> "callers"]
    /\ phase = "called"

Refuse ==
    /\ phase = "called"
    /\ phase' = "INVALID_ARGUMENT"
    /\ UNCHANGED <<n, item>>

NothingToDo ==
    /\ phase = "called"
    /\ n = 0
    /\ phase' = "SUCCESS"
    /\ UNCHANGED <<n, item>>

Begin ==
    /\ phase = "called"
    /\ n > 0
    /\ phase' = "running"
    /\ item' = [i \in Items |-> IF i \in InCall THEN "reset" ELSE item[i]]
    /\ UNCHANGED n

Start(i) ==
    /\ phase = "running"
    /\ item[i] = "reset"
    /\ \A j \in 0..(i - 1) : item[j] \in {"working", "real"}
    /\ item' = [item EXCEPT ![i] = "working"]
    /\ UNCHANGED <<n, phase>>

FinishItem(i) ==
    /\ phase = "running"
    /\ item[i] = "working"
    /\ item' = [item EXCEPT ![i] = "real"]
    /\ UNCHANGED <<n, phase>>

Succeed ==
    /\ phase = "running"
    /\ All("real")
    /\ phase' = "SUCCESS"
    /\ UNCHANGED <<n, item>>

NoResources ==
    /\ phase = "running"
    /\ All("reset")
    /\ phase' = "ALLOCATION_FAILED"
    /\ UNCHANGED <<n, item>>

Cancel ==
    /\ phase = "running"
    /\ \A i \in InCall : item[i] \in {"real", "reset"}
    /\ ~All("real")
    /\ phase' = "CANCELLED"
    /\ item' = [i \in Items |-> IF item[i] = "reset" THEN "cancelled" ELSE item[i]]
    /\ UNCHANGED n

Next ==
    \/ Refuse
    \/ NothingToDo
    \/ Begin
    \/ \E i \in InCall : Start(i) \/ FinishItem(i)
    \/ Succeed
    \/ NoResources
    \/ Cancel

Spec == Init /\ [][Next]_vars
=============================================================================
