--------------------------- MODULE MCLoginProtocol --------------------------
(* LoginProtocol on a small instance: two groups of clients, one at a time.  *)
EXTENDS LoginProtocol

CONSTANTS c1, c2, c3, d1, d2, s1, s2, key, peer, web

\* At s1, two clients of one DID and one whose DID the server does not support; c1
\* logs in and sends, the others only log in.
AtS1 == {c1, c2, c3}

\* At s2, whose endpoint misdirects, one client for each of two DIDs that spell the
\* same public key; d1 also sends.
AtS2 == {d1, d2}

SignerOf == [c \in Clients |-> IF c = c3 THEN web ELSE IF c = d2 THEN peer ELSE key]
BaseOf == [c \in Clients |-> IF c \in AtS1 THEN s1 ELSE s2]
OpsOf == [c \in Clients |-> IF c \in {c1, d1} THEN 2 ELSE 1]
SameKey == [d \in Dids |-> "z6Mk"]

\* The groups run one without the other, which keeps the state space small.
OneGroup == \E group \in {AtS1, AtS2} : \A c \in group : ops[c] = 0
=============================================================================
