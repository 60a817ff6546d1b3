--------------------------- MODULE MCSessionStore ---------------------------
(* SessionStore on a small instance.  Model values for handlers, sweeps and  *)
(* DIDs; tokens are numbers, because enforce_per_did_cap orders them.        *)
EXTENDS SessionStore, TLC

HandlerSymmetry == Permutations(Threads)
=============================================================================
