----------------------------- MODULE MCMessage ------------------------------
(* Three rectangles of one window, two of which are apart, and one of another *)
EXTENDS Message
CONSTANTS w1, w2

MCRedraws == {<< w1, [lo |-> 0, hi |-> 0] >>, << w1, [lo |-> 2, hi |-> 2] >>,
              << w1, [lo |-> 0, hi |-> 1] >>, << w2, [lo |-> 0, hi |-> 0] >>}
=============================================================================
