--------------------------- MODULE ChallengeStore ---------------------------
(***************************************************************************)
(* The store of pending login challenges (src/src/challenge.rs), called    *)
(* concurrently by the request handlers and by the background sweep.       *)
(*                                                                         *)
(* Every call on the DashMap and every clock read is one atomic step; the  *)
(* handlers of different threads interleave between them.  Two things are  *)
(* coarser than the code: a scan of the map (len, iter, retain) is atomic, *)
(* where DashMap walks its shards one by one, and the message text of a    *)
(* challenge is left out, since it is a function of the other fields.      *)
(***************************************************************************)
EXTENDS Naturals, FiniteSets

CONSTANTS
    Threads,        \* callers: axum handlers and the sweep task
    Dids,           \* the DIDs callers pass to create
    WellFormed,     \* those validate_did_well_formed accepts
    Renderable,     \* those build_message can put into a message
    Nonces,         \* the nonces thread_rng can produce
    MaxChallenges,  \* the max_challenges field: the hard cap
    Ttl,            \* the ttl_secs field
    MaxTime         \* bound on the clock

ASSUME ChallengeAssumptions ==
    /\ IsFiniteSet(Threads) /\ Threads # {}
    /\ WellFormed \subseteq Dids
    /\ Renderable \subseteq Dids
    /\ Nonces \subseteq Nat \ {0}
    /\ IsFiniteSet(Nonces)
    /\ MaxChallenges \in Nat
    /\ Ttl \in Nat
    /\ MaxTime \in Nat

VARIABLES
    challenges,     \* the DashMap, as the set of its values
    clock,          \* Utc::now() in whole seconds
    pc,             \* where each thread is inside create, validate or cleanup
    frame,          \* its local variables
    \* History variables: read by the properties, by no action.
    drawn,          \* nonces drawn so far
    honoured,       \* honoured[n]: how often validate returned the nonce's challenge
    lost            \* evictions that freed no slot: the victim was already gone

vars == <<challenges, clock, pc, frame, drawn, honoured, lost>>

NoDid == "no did"
NoNonce == 0

Challenge == [did : Dids, nonce : Nonces, expires_at : Nat]

Frame == [did : Dids \cup {NoDid},          \* create's argument
          now : Nat,                        \* the clock as it was read
          nonce : Nonces \cup {NoNonce},    \* victim, drawn or presented nonce
          expires_at : Nat]                 \* of the challenge validate removed

NoFrame == [did |-> NoDid, now |-> 0, nonce |-> NoNonce, expires_at |-> 0]

Labels == {"idle", "cleanup", "retain", "recheck", "scan", "evict", "draw",
           "insert", "check"}

\* Threads that may yet draw a nonce (a sweep in retain is counted too).
BeforeDraw == {t \in Threads : pc[t] \in Labels \ {"idle", "insert", "check"}}

\* Threads in create past every capacity check, so sure to insert unless
\* build_message fails.
Admitted == {t \in Threads : pc[t] \in {"draw", "insert"}}

len == Cardinality(challenges)
StoredNonces == {c.nonce : c \in challenges}
Without(n) == {c \in challenges : c.nonce # n}

\* The order evict_oldest takes the minimum of: expiry, ties broken by nonce.
Precedes(c, d) ==
    \/ c.expires_at < d.expires_at
    \/ c.expires_at = d.expires_at /\ c.nonce <= d.nonce

Oldest(c, S) == c \in S /\ \A d \in S : Precedes(c, d)

Goto(t, label) == pc' = [pc EXCEPT ![t] = label]

-----------------------------------------------------------------------------
(* Faulty variants of the actions below, each a plausible slip in the code.
   No specification uses them; substituting one for its original shows that
   the property it is paired with can fail.                                *)

\* cleanup_expired one second early, at the strictness validate does not have.
RetainEarly(t) ==
    /\ pc[t] = "retain"
    /\ challenges' = {c \in challenges : c.expires_at > frame[t].now + 1}
    /\ Goto(t, IF frame[t].did = NoDid THEN "idle" ELSE "recheck")
    /\ frame' = [frame EXCEPT ![t].now = 0]
    /\ UNCHANGED <<clock, drawn, honoured, lost>>

\* create trusts cleanup_expired to have made room.
RecheckSkipped(t) ==
    /\ pc[t] = "recheck"
    /\ Goto(t, "draw")
    /\ UNCHANGED <<challenges, clock, frame, drawn, honoured, lost>>

\* A nonce source that repeats itself.
DrawStale(t, n) ==
    /\ pc[t] = "draw"
    /\ frame[t].did \in Renderable
    /\ Goto(t, "insert")
    /\ frame' = [frame EXCEPT ![t] = [@ EXCEPT !.nonce = n, !.now = clock]]
    /\ drawn' = drawn \cup {n}
    /\ UNCHANGED <<challenges, clock, honoured, lost>>

\* The lifetime subtracted instead of added.
InsertBackdated(t) ==
    /\ pc[t] = "insert"
    /\ challenges' = Without(frame[t].nonce) \cup
                        {[did |-> frame[t].did, nonce |-> frame[t].nonce,
                          expires_at |-> frame[t].now - Ttl]}
    /\ Goto(t, "idle")
    /\ frame' = [frame EXCEPT ![t] = NoFrame]
    /\ UNCHANGED <<clock, drawn, honoured, lost>>

\* validate looks the challenge up and leaves it in the map.
ValidatePeek(t, c) ==
    /\ pc[t] = "idle"
    /\ c \in challenges
    /\ Goto(t, "check")
    /\ frame' = [frame EXCEPT ![t] = [NoFrame EXCEPT !.nonce = c.nonce,
                                                     !.expires_at = c.expires_at]]
    /\ UNCHANGED <<challenges, clock, drawn, honoured, lost>>

-----------------------------------------------------------------------------
Init ==
    /\ challenges = {}
    /\ clock = 0
    /\ pc = [t \in Threads |-> "idle"]
    /\ frame = [t \in Threads |-> NoFrame]
    /\ drawn = {}
    /\ honoured = [n \in Nonces |-> 0]
    /\ lost = 0

\* create(did) up to the first len().  A DID that is not well formed is
\* refused before anything is read, which changes nothing.  The guard on the
\* nonces left bounds the model: the code never runs out.
StartCreate(t, d) ==
    /\ pc[t] = "idle"
    /\ d \in WellFormed
    /\ Cardinality(Nonces \ drawn) > Cardinality(BeforeDraw)
    /\ Goto(t, IF len >= MaxChallenges THEN "cleanup" ELSE "draw")
    /\ frame' = [frame EXCEPT ![t] = [NoFrame EXCEPT !.did = d]]
    /\ UNCHANGED <<challenges, clock, drawn, honoured, lost>>

\* cleanup_expired inside create reads the clock ...
ReadClock(t) ==
    /\ pc[t] = "cleanup"
    /\ Goto(t, "retain")
    /\ frame' = [frame EXCEPT ![t].now = clock]
    /\ UNCHANGED <<challenges, clock, drawn, honoured, lost>>

\* ... and so does the sweep, which enters it from the outside.
StartCleanup(t) ==
    /\ pc[t] = "idle"
    /\ Goto(t, "retain")
    /\ frame' = [frame EXCEPT ![t] = [NoFrame EXCEPT !.now = clock]]
    /\ UNCHANGED <<challenges, clock, drawn, honoured, lost>>

\* The removal half of cleanup_expired; back to create, or out.
Retain(t) ==
    /\ pc[t] = "retain"
    /\ challenges' = {c \in challenges : c.expires_at > frame[t].now}
    /\ Goto(t, IF frame[t].did = NoDid THEN "idle" ELSE "recheck")
    /\ frame' = [frame EXCEPT ![t].now = 0]
    /\ UNCHANGED <<clock, drawn, honoured, lost>>

\* The second len() of create.
Recheck(t) ==
    /\ pc[t] = "recheck"
    /\ Goto(t, IF len >= MaxChallenges THEN "scan" ELSE "draw")
    /\ UNCHANGED <<challenges, clock, frame, drawn, honoured, lost>>

\* evict_oldest picks its victim, if there is one ...
Scan(t) ==
    /\ pc[t] = "scan"
    /\ Goto(t, "evict")
    /\ \/ challenges = {} /\ UNCHANGED frame
       \/ \E c \in challenges :
            /\ Oldest(c, challenges)
            /\ frame' = [frame EXCEPT ![t].nonce = c.nonce]
    /\ UNCHANGED <<challenges, clock, drawn, honoured, lost>>

\* ... and removes it, if it is still there.
Evict(t) ==
    /\ pc[t] = "evict"
    /\ challenges' = Without(frame[t].nonce)
    /\ lost' = IF frame[t].nonce \in StoredNonces THEN lost ELSE lost + 1
    /\ Goto(t, "draw")
    /\ frame' = [frame EXCEPT ![t].nonce = NoNonce]
    /\ UNCHANGED <<clock, drawn, honoured>>

\* Draw a nonce, read the clock and build the message.  32 random bytes are
\* taken to be fresh.
Draw(t, n) ==
    /\ pc[t] = "draw"
    /\ frame[t].did \in Renderable
    /\ n \in Nonces \ drawn
    /\ Goto(t, "insert")
    /\ frame' = [frame EXCEPT ![t] = [@ EXCEPT !.nonce = n, !.now = clock]]
    /\ drawn' = drawn \cup {n}
    /\ UNCHANGED <<challenges, clock, honoured, lost>>

\* build_message fails and create returns its error; the nonce is thrown away.
FailBuild(t) ==
    /\ pc[t] = "draw"
    /\ frame[t].did \notin Renderable
    /\ Goto(t, "idle")
    /\ frame' = [frame EXCEPT ![t] = NoFrame]
    /\ UNCHANGED <<challenges, clock, drawn, honoured, lost>>

Insert(t) ==
    /\ pc[t] = "insert"
    /\ challenges' = Without(frame[t].nonce) \cup
                        {[did |-> frame[t].did, nonce |-> frame[t].nonce,
                          expires_at |-> frame[t].now + Ttl]}
    /\ Goto(t, "idle")
    /\ frame' = [frame EXCEPT ![t] = NoFrame]
    /\ UNCHANGED <<clock, drawn, honoured, lost>>

\* validate(nonce) removes the challenge before it looks at it.  A nonce that
\* is not stored is ChallengeNotFound and changes nothing.
ValidateRemove(t, c) ==
    /\ pc[t] = "idle"
    /\ c \in challenges
    /\ challenges' = Without(c.nonce)
    /\ Goto(t, "check")
    /\ frame' = [frame EXCEPT ![t] = [NoFrame EXCEPT !.nonce = c.nonce,
                                                     !.expires_at = c.expires_at]]
    /\ UNCHANGED <<clock, drawn, honoured, lost>>

\* The rest of validate: ChallengeExpired, or the challenge is returned.
ValidateCheck(t) ==
    /\ pc[t] = "check"
    /\ honoured' = IF clock >= frame[t].expires_at THEN honoured
                   ELSE [honoured EXCEPT ![frame[t].nonce] = @ + 1]
    /\ Goto(t, "idle")
    /\ frame' = [frame EXCEPT ![t] = NoFrame]
    /\ UNCHANGED <<challenges, clock, drawn, lost>>

Tick ==
    /\ clock < MaxTime
    /\ clock' = clock + 1
    /\ UNCHANGED <<challenges, pc, frame, drawn, honoured, lost>>

Step(t) ==
    \/ \E d \in Dids : StartCreate(t, d)
    \/ ReadClock(t)
    \/ StartCleanup(t)
    \/ Retain(t)
    \/ Recheck(t)
    \/ Scan(t)
    \/ Evict(t)
    \/ \E n \in Nonces : Draw(t, n)
    \/ FailBuild(t)
    \/ Insert(t)
    \/ \E c \in challenges : ValidateRemove(t, c)
    \/ ValidateCheck(t)

Next == Tick \/ \E t \in Threads : Step(t)

Spec == Init /\ [][Next]_vars

-----------------------------------------------------------------------------
(* Properties *)

\* Every variable keeps the shape the code's types give it; expires_at is a
\* u64 and never negative.
TypeOK ==
    /\ challenges \subseteq Challenge
    /\ clock \in Nat
    /\ pc \in [Threads -> Labels]
    /\ frame \in [Threads -> Frame]
    /\ drawn \subseteq Nonces
    /\ honoured \in [Nonces -> Nat]
    /\ lost \in Nat

\* validate returns the challenge of a nonce at most once, however many
\* handlers present the nonce at the same time ("The challenge is removed from
\* the store (single-use)", challenge.rs:166).
SingleUse == \A n \in Nonces : honoured[n] <= 1

\* A nonce has one owner at a time.  While a thread is about to insert its
\* challenge, or has removed it and not yet judged it, that thread alone has the
\* nonce; a nonce that was honoured has no owner any more.  This is what makes
\* the two steps of validate safe.
Holders == {t \in Threads : pc[t] \in {"insert", "check"}}
OneOwnerPerNonce ==
    /\ StoredNonces \subseteq drawn
    /\ \A c, d \in challenges : c.nonce = d.nonce => c = d
    /\ \A t \in Holders : frame[t].nonce \in drawn \ StoredNonces
    /\ \A t, u \in Holders : frame[t].nonce = frame[u].nonce => t = u
    /\ \A n \in Nonces : honoured[n] # 0 =>
            /\ n \in drawn \ StoredNonces
            /\ \A t \in Holders : frame[t].nonce # n

\* What the capacity check of create really bounds under concurrency: the
\* challenges stored and about to be stored exceed the cap by at most the
\* number of threads less one, plus one for every eviction whose victim another
\* thread had already removed.
CapacityUpToLostEvictions ==
    len + Cardinality(Admitted) + 1 <= MaxChallenges + Cardinality(Threads) + lost

\* A challenge that has not expired leaves the store only because validate
\* consumed it or because evict_oldest had picked it: cleanup_expired never
\* takes one that validate would still honour, however late it runs.
LiveLeavesOnlyIfConsumedOrEvicted ==
    [][\A c \in challenges \ challenges' :
            \/ c.expires_at <= clock
            \/ \E t \in Threads :
                 /\ pc[t] # pc'[t]
                 /\ \/ pc[t] = "evict" /\ frame[t].nonce = c.nonce
                    \/ pc'[t] = "check" /\ frame'[t].nonce = c.nonce]_vars

\* The nonce n as NonceLifecycle sees it.  Between the removal in validate and
\* its verdict the nonce is still pending: its holder alone can honour it.
Pending == StoredNonces \cup {frame[t].nonce : t \in {u \in Threads : pc[u] = "check"}}
ToInsert == {frame[t].nonce : t \in {u \in Threads : pc[u] = "insert"}}

Status == [n \in Nonces |-> IF n \in Pending THEN "pending"
                            ELSE IF n \in drawn \ ToInsert THEN "spent"
                            ELSE "unissued"]

Lifecycle == INSTANCE NonceLifecycle WITH status <- Status, uses <- honoured

\* The store implements the life cycle of a nonce: issued once, pending, then
\* honoured once or dropped, and never pending again.
ImplementsLifecycle == Lifecycle!Spec

=============================================================================
