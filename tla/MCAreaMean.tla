----------------------------- MODULE MCAreaMean -----------------------------
\* A strip for TLC: an image one pixel high, of less bytes than size_t counts but
\* with more positions along its axis, as ph_load_from_pixels() takes one.
EXTENDS AreaMean

CONSTANT Width

Strip(at) == [width |-> Width, height |-> 1,
              pixel |-> [p \in (0..Width - 1) \X {0} |-> IF p[1] = at THEN 255 ELSE 0]]

Init == call = NoCall

Next ==
    \/ call = NoCall /\ \E at \in 0..Width - 1, dw \in 1..4 : Downscale(Strip(at), dw, 1)
    \/ Forget

Spec == Init /\ [][Next]_call
=============================================================================
