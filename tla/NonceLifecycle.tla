--------------------------- MODULE NonceLifecycle ---------------------------
(***************************************************************************)
(* What the login half of aqua-auth promises about a challenge nonce,      *)
(* independently of how the store keeps it: a nonce is issued at most      *)
(* once, is pending until it is honoured or dropped, and is honoured at    *)
(* most once.  ChallengeStore is shown to implement this.                  *)
(***************************************************************************)
EXTENDS Naturals

CONSTANT Nonces

VARIABLES
    status,     \* status[n]: "unissued", "pending" or "spent"
    uses        \* uses[n]: how many logins the nonce n has been good for

vars == <<status, uses>>

Init ==
    /\ status = [n \in Nonces |-> "unissued"]
    /\ uses = [n \in Nonces |-> 0]

Issue(n) ==
    /\ status[n] = "unissued"
    /\ status' = [status EXCEPT ![n] = "pending"]
    /\ UNCHANGED uses

\* A pending nonce is good for exactly one login.
Honour(n) ==
    /\ status[n] = "pending"
    /\ status' = [status EXCEPT ![n] = "spent"]
    /\ uses' = [uses EXCEPT ![n] = @ + 1]

\* Expiry, eviction and a presentation that came too late: the nonces of S are
\* forgotten together and can never be used.
Drop(S) ==
    /\ \A n \in S : status[n] = "pending"
    /\ status' = [n \in Nonces |-> IF n \in S THEN "spent" ELSE status[n]]
    /\ UNCHANGED uses

Next ==
    \/ \E n \in Nonces : Issue(n) \/ Honour(n)
    \/ \E S \in SUBSET Nonces : Drop(S)

Spec == Init /\ [][Next]_vars
=============================================================================
