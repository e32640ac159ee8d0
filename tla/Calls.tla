------------------------------- MODULE Calls -------------------------------
(***************************************************************************)
(* One call at a time of a function that keeps nothing between calls: what  *)
(* it was given and what it answered, until the caller has looked at it.    *)
(***************************************************************************)
VARIABLE call

NoCall == [what |-> "none"]

Answer(what, given, answer) ==
    /\ call = NoCall
    /\ call' = [what |-> what, given |-> given, answer |-> answer]

Forget == call # NoCall /\ call' = NoCall
=============================================================================
