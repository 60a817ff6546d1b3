-------------------------- MODULE MCChallengeStore --------------------------
(* ChallengeStore on a small instance.  Model values for threads and DIDs;   *)
(* nonces are numbers, because evict_oldest orders them.                     *)
EXTENDS ChallengeStore, TLC

ThreadSymmetry == Permutations(Threads)
=============================================================================
