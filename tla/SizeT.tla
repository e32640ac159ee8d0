------------------------------- MODULE SizeT -------------------------------
(***************************************************************************)
(* size_t, the type of sizes and offsets: its sums, products and           *)
(* differences wrap modulo SizeMax + 1.                                     *)
(***************************************************************************)
EXTENDS Integers

CONSTANT SizeMax        \* SIZE_MAX

ASSUME SizeAssumption == SizeMax \in Nat

Wrap(n) == n % (SizeMax + 1)
=============================================================================
