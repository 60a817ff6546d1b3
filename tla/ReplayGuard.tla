---------------------------- MODULE ReplayGuard -----------------------------
(***************************************************************************)
(* Verification of signed requests with single-use nonces: verify_request  *)
(* (src/src/http_sig/verify.rs) over a shared NonceReplayGuard             *)
(* (src/src/http_sig/replay.rs).                                           *)
(*                                                                         *)
(* A request is reduced to what decides its fate: its nonce, its window    *)
(* and whether it is genuine, that is, within the profile and correctly    *)
(* signed.  Any request may be presented any number of times.  As in the   *)
(* other stores every DashMap call is one atomic step.                     *)
(***************************************************************************)
EXTENDS Naturals, FiniteSets

CONSTANTS
    Threads,        \* handlers verifying requests
    Requests,       \* the requests that may arrive
    Capacity,       \* the capacity field, at least 1
    Skew,           \* clock_skew of the VerifyOptions
    MaxValidity,    \* MAX_VALIDITY
    MaxTime,        \* bound on the clock
    MaxPresented    \* bound on the requests presented

Request == [nonce : Nat \ {0}, created : Nat, expires : Nat, genuine : BOOLEAN]

ASSUME ReplayAssumptions ==
    /\ IsFiniteSet(Threads) /\ Threads # {}
    /\ Requests \subseteq Request
    /\ IsFiniteSet(Requests)
    /\ Capacity \in Nat \ {0}
    /\ Skew \in Nat
    /\ MaxValidity \in Nat
    /\ MaxTime \in Nat
    /\ MaxPresented \in Nat

VARIABLES
    seen,           \* the DashMap from nonce to expires, as a set of entries
    clock,          \* unix_now()
    pc,             \* where each thread is
    frame,          \* its local variables
    presented,      \* requests verified so far, for the bound alone
    \* History variables: read by the properties, by no action.
    accepted,       \* accepted[n]: requests carrying nonce n that were accepted
    until,          \* until[n]: expires of the last of them
    evicted,        \* nonces evicted since they were last accepted
    lost            \* evictions that freed no slot

vars == <<seen, clock, pc, frame, presented, accepted, until, evicted, lost>>

Nonces == {r.nonce : r \in Requests}
NoNonce == 0
NoRequest == [nonce |-> NoNonce, created |-> 0, expires |-> 0, genuine |-> FALSE]

Entry == [nonce : Nonces, expires_at : Nat]

Frame == [request : Requests \cup {NoRequest},  \* absent in a bare cleanup
          now : Nat,                            \* the clock verify_request read
          victim : Nonces \cup {NoNonce}]

NoFrame == [request |-> NoRequest, now |-> 0, victim |-> NoNonce]

Labels == {"idle", "contains", "room", "purge", "recheck", "scan", "evict", "record"}

len == Cardinality(seen)
SeenNonces == {e.nonce : e \in seen}

\* Threads past the capacity check that have yet to record their nonce.
Admitted == {t \in Threads : pc[t] = "record"}

\* The order evict_soonest_expiring takes the minimum of.
Precedes(e, f) ==
    \/ e.expires_at < f.expires_at
    \/ e.expires_at = f.expires_at /\ e.nonce <= f.nonce

Soonest(e, S) == e \in S /\ \A f \in S : Precedes(e, f)

\* check_window.
InWindow(r, now) ==
    /\ r.created < r.expires
    /\ r.expires - r.created <= MaxValidity
    /\ r.created <= now + Skew
    /\ now < r.expires

Goto(t, label) == pc' = [pc EXCEPT ![t] = label]
Return(t) == Goto(t, "idle") /\ frame' = [frame EXCEPT ![t] = NoFrame]
HistoryUnchanged == UNCHANGED <<presented, accepted, until, evicted, lost>>

-----------------------------------------------------------------------------
(* Faulty variants of the actions below, each a plausible slip in the code.
   No specification uses them; substituting one for its original shows that
   the property it is paired with can fail.                                *)

\* The expiry compared the wrong way round: the live nonces are dropped.
PurgeLive(t) ==
    /\ pc[t] = "purge"
    /\ seen' = {e \in seen : e.expires_at <= frame[t].now}
    /\ IF frame[t].request = NoRequest THEN Return(t)
       ELSE Goto(t, "recheck") /\ UNCHANGED frame
    /\ UNCHANGED clock /\ HistoryUnchanged

\* A full guard trusts the purge to have made room.
RecheckSkipped(t) ==
    /\ pc[t] = "recheck"
    /\ Goto(t, "record")
    /\ UNCHANGED <<seen, clock, frame>> /\ HistoryUnchanged

\* insert without looking at the entry first: the early contains_key is trusted.
RecordBlindly(t) ==
    LET r == frame[t].request IN
    /\ pc[t] = "record"
    /\ seen' = {e \in seen : e.nonce # r.nonce} \cup
                  {[nonce |-> r.nonce, expires_at |-> r.expires]}
    /\ accepted' = [accepted EXCEPT ![r.nonce] = @ + 1]
    /\ until' = [until EXCEPT ![r.nonce] = r.expires]
    /\ evicted' = evicted \ {r.nonce}
    /\ Return(t)
    /\ UNCHANGED <<clock, presented, lost>>

\* The remaining life remembered instead of the instant of expiry.
RecordRelative(t) ==
    LET r == frame[t].request IN
    /\ pc[t] = "record"
    /\ IF r.nonce \in SeenNonces THEN UNCHANGED <<seen, accepted, until, evicted>>
       ELSE /\ seen' = seen \cup {[nonce |-> r.nonce,
                                   expires_at |-> r.created - frame[t].now]}
            /\ accepted' = [accepted EXCEPT ![r.nonce] = @ + 1]
            /\ until' = [until EXCEPT ![r.nonce] = r.expires]
            /\ evicted' = evicted \ {r.nonce}
    /\ Return(t)
    /\ UNCHANGED <<clock, presented, lost>>

-----------------------------------------------------------------------------
Init ==
    /\ seen = {}
    /\ clock = 0
    /\ pc = [t \in Threads |-> "idle"]
    /\ frame = [t \in Threads |-> NoFrame]
    /\ presented = 0
    /\ accepted = [n \in Nonces |-> 0]
    /\ until = [n \in Nonces |-> 0]
    /\ evicted = {}
    /\ lost = 0

\* verify_request reads the clock once and runs every check that keeps no
\* state.  A request that fails one of them is refused and changes nothing.
StartVerify(t, r) ==
    /\ pc[t] = "idle"
    /\ InWindow(r, clock)
    /\ r.genuine
    /\ presented < MaxPresented
    /\ presented' = presented + 1
    /\ Goto(t, "contains")
    /\ frame' = [frame EXCEPT ![t] = [NoFrame EXCEPT !.request = r, !.now = clock]]
    /\ UNCHANGED <<seen, clock, accepted, until, evicted, lost>>

\* cleanup_expired called on its own reads the clock itself.
StartCleanup(t) ==
    /\ pc[t] = "idle"
    /\ Goto(t, "purge")
    /\ frame' = [frame EXCEPT ![t] = [NoFrame EXCEPT !.now = clock]]
    /\ UNCHANGED <<seen, clock>> /\ HistoryUnchanged

\* check_and_record_at looks for the replay first: NonceReplayed, or on.
Contains(t) ==
    /\ pc[t] = "contains"
    /\ IF frame[t].request.nonce \in SeenNonces THEN Return(t)
       ELSE Goto(t, "room") /\ UNCHANGED frame
    /\ UNCHANGED <<seen, clock>> /\ HistoryUnchanged

Room(t) ==
    /\ pc[t] = "room"
    /\ Goto(t, IF len >= Capacity THEN "purge" ELSE "record")
    /\ UNCHANGED <<seen, clock, frame>> /\ HistoryUnchanged

\* cleanup_expired_at with the clock read at the start of the call.
Purge(t) ==
    /\ pc[t] = "purge"
    /\ seen' = {e \in seen : e.expires_at > frame[t].now}
    /\ IF frame[t].request = NoRequest THEN Return(t)
       ELSE Goto(t, "recheck") /\ UNCHANGED frame
    /\ UNCHANGED clock /\ HistoryUnchanged

Recheck(t) ==
    /\ pc[t] = "recheck"
    /\ Goto(t, IF len >= Capacity THEN "scan" ELSE "record")
    /\ UNCHANGED <<seen, clock, frame>> /\ HistoryUnchanged

\* evict_soonest_expiring picks its victim, if there is one ...
Scan(t) ==
    /\ pc[t] = "scan"
    /\ Goto(t, "evict")
    /\ \/ seen = {} /\ UNCHANGED frame
       \/ \E e \in seen :
            /\ Soonest(e, seen)
            /\ frame' = [frame EXCEPT ![t].victim = e.nonce]
    /\ UNCHANGED <<seen, clock>> /\ HistoryUnchanged

\* ... and removes it, if it is still there.
Evict(t) ==
    LET present == frame[t].victim \in SeenNonces IN
    /\ pc[t] = "evict"
    /\ seen' = {e \in seen : e.nonce # frame[t].victim}
    /\ evicted' = IF present THEN evicted \cup {frame[t].victim} ELSE evicted
    /\ lost' = IF present THEN lost ELSE lost + 1
    /\ Goto(t, "record")
    /\ frame' = [frame EXCEPT ![t].victim = NoNonce]
    /\ UNCHANGED <<clock, presented, accepted, until>>

\* The entry operation, one shard-locked step: NonceReplayed if the nonce has
\* appeared since, or it is recorded and the principal returned.
Record(t) ==
    LET r == frame[t].request IN
    /\ pc[t] = "record"
    /\ IF r.nonce \in SeenNonces THEN UNCHANGED <<seen, accepted, until, evicted>>
       ELSE /\ seen' = seen \cup {[nonce |-> r.nonce, expires_at |-> r.expires]}
            /\ accepted' = [accepted EXCEPT ![r.nonce] = @ + 1]
            /\ until' = [until EXCEPT ![r.nonce] = r.expires]
            /\ evicted' = evicted \ {r.nonce}
    /\ Return(t)
    /\ UNCHANGED <<clock, presented, lost>>

Tick ==
    /\ clock < MaxTime
    /\ clock' = clock + 1
    /\ UNCHANGED <<seen, pc, frame>> /\ HistoryUnchanged

Step(t) ==
    \/ \E r \in Requests : StartVerify(t, r)
    \/ StartCleanup(t) \/ Contains(t) \/ Room(t) \/ Purge(t) \/ Recheck(t)
    \/ Scan(t) \/ Evict(t) \/ Record(t)

Next == Tick \/ \E t \in Threads : Step(t)

Spec == Init /\ [][Next]_vars

-----------------------------------------------------------------------------
(* Properties *)

\* Every variable keeps the shape the code's types give it.
TypeOK ==
    /\ seen \subseteq Entry
    /\ clock \in Nat
    /\ pc \in [Threads -> Labels]
    /\ frame \in [Threads -> Frame]
    /\ presented \in Nat
    /\ accepted \in [Nonces -> Nat]
    /\ until \in [Nonces -> Nat]
    /\ evicted \subseteq Nonces
    /\ lost \in Nat

\* A nonce that was honoured is remembered until the signature that carried it
\* expires, unless the full guard evicted it: no purge, however stale the clock
\* it uses, forgets a nonce a verifier could still accept.
RememberedWhileLive ==
    \A n \in Nonces :
        accepted[n] > 0 => \/ [nonce |-> n, expires_at |-> until[n]] \in seen
                           \/ n \in evicted
                           \/ until[n] <= clock

\* A nonce is honoured a second time only if its entry was evicted since, or the
\* signature that first carried it has expired.  The evicting thread may be the
\* one that is honoured: at a full guard the slower of two simultaneous
\* presentations evicts what the faster has just recorded, and both are honoured.
\* replay.rs:80-82 means to exclude that an eviction removes "the very entry that
\* proves this nonce is a replay", and :94-95 that "two concurrent presentations"
\* both find the nonce absent; they are right while the guard has room.
HonouredAgainOnlyIfForgotten ==
    [][\A n \in Nonces :
            accepted'[n] > accepted[n] /\ accepted[n] > 0
                => n \in evicted \/ until[n] <= clock]_vars

\* The capacity of the guard under concurrency: entries stored and about to be
\* stored exceed it by at most the number of threads less one, plus one for
\* every eviction whose victim another thread had already removed.
CapacityUpToLostEvictions ==
    len + Cardinality(Admitted) + 1 <= Capacity + Cardinality(Threads) + lost

=============================================================================
