--------------------------- MODULE MCReplayGuard ----------------------------
(* ReplayGuard on a small instance.                                          *)
EXTENDS ReplayGuard, TLC

Signed(n, from, to) == [nonce |-> n, created |-> from, expires |-> to, genuine |-> TRUE]

\* Three requests with overlapping windows, the last signed by a clock one second
\* ahead, a corrupted copy of the first, and one whose window is too wide.
ThreeRequests ==
    {Signed(1, 0, 2), Signed(2, 0, 1), Signed(3, 1, 3), Signed(4, 0, 9),
     [Signed(1, 0, 2) EXCEPT !.genuine = FALSE]}

OneRequest == {Signed(1, 0, 1)}

ThreadSymmetry == Permutations(Threads)
=============================================================================
