----------------------- MODULE MCWebauthnCredentials ------------------------
(* WebauthnCredentials on a small instance.                                  *)
EXTENDS WebauthnCredentials, TLC

Symmetry == Permutations(CredIds) \cup Permutations(Registrations) \cup Permutations(Logins)
=============================================================================
