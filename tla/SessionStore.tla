---------------------------- MODULE SessionStore ----------------------------
(***************************************************************************)
(* The store of authenticated sessions (src/src/session.rs) over its       *)
(* in-memory backend (src/src/session_backend.rs), with the background     *)
(* sweep that start_cleanup spawns.                                        *)
(*                                                                         *)
(* Every backend call and every clock read is one atomic step, and threads *)
(* interleave between them.  As in ChallengeStore, a scan of the DashMap   *)
(* is atomic.  list_sessions and active_count only read and are left out.  *)
(***************************************************************************)
EXTENDS Naturals, FiniteSets

CONSTANTS
    Threads,        \* request handlers calling the store
    Sweepers,       \* tasks start_cleanup may spawn, one per call of it
    Dids,
    Tokens,         \* the tokens thread_rng can produce
    MaxSessions,    \* the max_sessions field: the global cap
    MaxPerDid,      \* the max_sessions_per_did field
    Ttl,            \* the ttl_secs field
    MaxTime,        \* bound on the clock
    BackendFails,   \* insert may return an error (backends other than in-memory)
    OverflowChecks  \* the build panics on integer overflow (debug and test builds)

Procs == Threads \cup Sweepers

ASSUME SessionAssumptions ==
    /\ IsFiniteSet(Threads) /\ Threads # {}
    /\ IsFiniteSet(Sweepers) /\ Threads \cap Sweepers = {}
    /\ Tokens \subseteq Nat \ {0}
    /\ IsFiniteSet(Tokens)
    /\ MaxSessions \in Nat
    /\ MaxPerDid \in Nat
    /\ Ttl \in Nat
    /\ MaxTime \in Nat
    /\ BackendFails \in BOOLEAN
    /\ OverflowChecks \in BOOLEAN

VARIABLES
    sessions,       \* the backend's map, as the set of its values
    clock,          \* Utc::now() in whole seconds
    owned,          \* somebody other than a sweep still holds the Arc
    pc,             \* where each handler or sweep is
    frame,          \* its local variables
    \* History variables: read by the properties, by no action.
    drawn,          \* tokens drawn so far
    revoked,        \* tokens removed by revoke or revoke_all_for_did
    lost            \* lost[d]: per-DID evictions for d that freed no slot

vars == <<sessions, clock, owned, pc, frame, drawn, revoked, lost>>

NoDid == "no did"
NoToken == 0

Session == [did : Dids, token : Tokens, valid_until : Nat, created_at : Nat]

Frame == [did : Dids \cup {NoDid},
          now : Nat,                        \* the clock as it was read
          before : Nat,                     \* purge_expired's first len()
          token : Tokens \cup {NoToken},    \* victim, drawn or presented token
          valid_until : Nat,                \* of the session validate got
          tokens : SUBSET Tokens,           \* remove_all_for_did's snapshot
          left : SUBSET Tokens]             \* what is left of its loop

NoFrame == [did |-> NoDid, now |-> 0, before |-> 0, token |-> NoToken,
            valid_until |-> 0, tokens |-> {}, left |-> {}]

Labels == {"idle", "purge", "retain", "subtract", "recheck", "quota", "evict",
           "token", "insert", "check", "remove", "revoking",
           "off", "tick", "count", "stopped", "dead"}

len == Cardinality(sessions)
Without(k) == {s \in sessions : s.token # k}
SessionsFor(d) == {s \in sessions : s.did = d}
StoredTokens == {s.token : s \in sessions}

\* Handlers inside create and past the global capacity check.
Admitted == {t \in Threads : pc[t] \in {"quota", "evict", "token", "insert"}}

\* Handlers inside create for d and past the per-DID check as well.
AdmittedFor(d) == {t \in Threads : pc[t] \in {"token", "insert"} /\ frame[t].did = d}

\* Handlers that may yet draw a token.
BeforeDraw == {t \in Threads : pc[t] \in Labels \ {"idle", "insert"}}

\* The order enforce_per_did_cap sorts by.
Precedes(r, s) ==
    \/ r.created_at < s.created_at
    \/ r.created_at = s.created_at /\ r.token <= s.token

Oldest(r, S) == r \in S /\ \A s \in S : Precedes(r, s)

\* Arc::strong_count: the owners outside count as one, each running sweep has
\* a clone of its own.
Running == {s \in Sweepers : pc[s] \notin {"off", "stopped", "dead"}}
strong_count == Cardinality(Running) + (IF owned THEN 1 ELSE 0)

Goto(p, label) == pc' = [pc EXCEPT ![p] = label]
Return(p) == Goto(p, "idle") /\ frame' = [frame EXCEPT ![p] = NoFrame]
HistoryUnchanged == UNCHANGED <<drawn, revoked, lost>>

-----------------------------------------------------------------------------
(* Faulty variants of the actions below, each a plausible slip in the code.
   No specification uses them; substituting one for its original shows that
   the property it is paired with can fail.                                *)

\* The cap compared with > where the code has >=.
RecheckOffByOne(t) ==
    /\ pc[t] = "recheck"
    /\ IF len > MaxSessions THEN Return(t) ELSE Goto(t, "quota") /\ UNCHANGED frame
    /\ UNCHANGED <<sessions, clock, owned>> /\ HistoryUnchanged

\* The quota compared with <= where the code has <.
QuotaOffByOne(t) ==
    LET mine == SessionsFor(frame[t].did) IN
    /\ pc[t] = "quota"
    /\ IF Cardinality(mine) <= MaxPerDid
       THEN Goto(t, "token") /\ UNCHANGED frame
       ELSE /\ Goto(t, "evict")
            /\ \E s \in mine : /\ Oldest(s, mine)
                               /\ frame' = [frame EXCEPT ![t].token = s.token]
    /\ UNCHANGED <<sessions, clock, owned>> /\ HistoryUnchanged

\* The victim chosen among all sessions, as a backend without the DID filter would.
QuotaOfAll(t) ==
    /\ pc[t] = "quota"
    /\ IF Cardinality(sessions) < MaxPerDid
       THEN Goto(t, "token") /\ UNCHANGED frame
       ELSE /\ Goto(t, "evict")
            /\ \/ sessions = {} /\ UNCHANGED frame
               \/ \E s \in sessions :
                    /\ Oldest(s, sessions)
                    /\ frame' = [frame EXCEPT ![t].token = s.token]
    /\ UNCHANGED <<sessions, clock, owned>> /\ HistoryUnchanged

\* The lifetime subtracted instead of added.
InsertBackdated(t) ==
    /\ pc[t] = "insert"
    /\ sessions' = Without(frame[t].token) \cup
                      {[did |-> frame[t].did, token |-> frame[t].token,
                        valid_until |-> frame[t].now - Ttl,
                        created_at |-> frame[t].now]}
    /\ Return(t)
    /\ UNCHANGED <<clock, owned>> /\ HistoryUnchanged

\* revoke_all_for_did gives up at a token another thread removed first.
RevokeNextGivesUp(t, k) ==
    /\ pc[t] = "revoking"
    /\ k \in frame[t].left
    /\ sessions' = Without(k)
    /\ revoked' = revoked \cup {k}
    /\ frame' = [frame EXCEPT ![t].left = IF k \in StoredTokens THEN @ \ {k} ELSE {}]
    /\ UNCHANGED <<clock, owned, pc, drawn, lost>>

\* validate renews the session it found by writing it back.
ValidateRenews(t) ==
    /\ pc[t] = "check"
    /\ IF clock >= frame[t].valid_until
       THEN Goto(t, "remove") /\ UNCHANGED <<frame, sessions>>
       ELSE /\ sessions' = Without(frame[t].token) \cup
                 {[did |-> frame[t].did, token |-> frame[t].token,
                   valid_until |-> clock + Ttl, created_at |-> clock]}
            /\ Return(t)
    /\ UNCHANGED <<clock, owned>> /\ HistoryUnchanged

\* The task counts one clone too many as its own and stops early ...
SweepStopsEarly(s) ==
    /\ pc[s] = "count"
    /\ Goto(s, IF strong_count <= 2 THEN "stopped" ELSE "tick")
    /\ UNCHANGED <<sessions, clock, owned, frame>> /\ HistoryUnchanged

\* ... or, comparing with <, never.
SweepStopsLate(s) ==
    /\ pc[s] = "count"
    /\ Goto(s, IF strong_count < 1 THEN "stopped" ELSE "tick")
    /\ UNCHANGED <<sessions, clock, owned, frame>> /\ HistoryUnchanged

-----------------------------------------------------------------------------
Init ==
    /\ sessions = {}
    /\ clock = 0
    /\ owned = TRUE
    /\ pc = [p \in Procs |-> IF p \in Threads THEN "idle" ELSE "off"]
    /\ frame = [p \in Procs |-> NoFrame]
    /\ drawn = {}
    /\ revoked = {}
    /\ lost = [d \in Dids |-> 0]

(* create *)

\* create(did) up to the first len().  The guard on the tokens left bounds the
\* model: the code never runs out.
StartCreate(t, d) ==
    /\ pc[t] = "idle" /\ owned
    /\ Cardinality(Tokens \ drawn) > Cardinality(BeforeDraw)
    /\ Goto(t, IF len >= MaxSessions THEN "purge" ELSE "quota")
    /\ frame' = [frame EXCEPT ![t] = [NoFrame EXCEPT !.did = d]]
    /\ UNCHANGED <<sessions, clock, owned>> /\ HistoryUnchanged

\* The second len() of create: SessionStoreFull, or on to the quota.
Recheck(t) ==
    /\ pc[t] = "recheck"
    /\ IF len >= MaxSessions THEN Return(t) ELSE Goto(t, "quota") /\ UNCHANGED frame
    /\ UNCHANGED <<sessions, clock, owned>> /\ HistoryUnchanged

\* enforce_per_did_cap takes its snapshot and, at the quota, its victim.  A
\* quota of zero with nothing stored leaves it without one.
Quota(t) ==
    LET mine == SessionsFor(frame[t].did) IN
    /\ pc[t] = "quota"
    /\ IF Cardinality(mine) < MaxPerDid
       THEN Goto(t, "token") /\ UNCHANGED frame
       ELSE /\ Goto(t, "evict")
            /\ \/ mine = {} /\ UNCHANGED frame
               \/ \E s \in mine : /\ Oldest(s, mine)
                                  /\ frame' = [frame EXCEPT ![t].token = s.token]
    /\ UNCHANGED <<sessions, clock, owned>> /\ HistoryUnchanged

\* The removal in enforce_per_did_cap, of a victim that may be gone by now.
EvictOwn(t) ==
    /\ pc[t] = "evict"
    /\ sessions' = Without(frame[t].token)
    /\ lost' = IF frame[t].token \in StoredTokens THEN lost
               ELSE [lost EXCEPT ![frame[t].did] = @ + 1]
    /\ Goto(t, "token")
    /\ frame' = [frame EXCEPT ![t].token = NoToken]
    /\ UNCHANGED <<clock, owned, drawn, revoked>>

\* Draw the token and read the clock.  32 random bytes are taken to be fresh.
DrawToken(t, k) ==
    /\ pc[t] = "token"
    /\ k \notin drawn
    /\ Goto(t, "insert")
    /\ frame' = [frame EXCEPT ![t] = [@ EXCEPT !.token = k, !.now = clock]]
    /\ drawn' = drawn \cup {k}
    /\ UNCHANGED <<sessions, clock, owned, revoked, lost>>

Insert(t) ==
    /\ pc[t] = "insert"
    /\ sessions' = Without(frame[t].token) \cup
                      {[did |-> frame[t].did, token |-> frame[t].token,
                        valid_until |-> frame[t].now + Ttl,
                        created_at |-> frame[t].now]}
    /\ Return(t)
    /\ UNCHANGED <<clock, owned>> /\ HistoryUnchanged

\* A remote backend refuses the insert and create returns its error; whatever
\* enforce_per_did_cap evicted stays evicted.
InsertFails(t) ==
    /\ BackendFails
    /\ pc[t] = "insert"
    /\ Return(t)
    /\ UNCHANGED <<sessions, clock, owned>> /\ HistoryUnchanged

(* cleanup_expired, from create or from a sweep *)

\* cleanup_expired reads the clock, purge_expired the length.
Purge(p) ==
    /\ pc[p] = "purge"
    /\ Goto(p, "retain")
    /\ frame' = [frame EXCEPT ![p] = [@ EXCEPT !.now = clock, !.before = len]]
    /\ UNCHANGED <<sessions, clock, owned>> /\ HistoryUnchanged

Retain(p) ==
    /\ pc[p] = "retain"
    /\ sessions' = {s \in sessions : s.valid_until > frame[p].now}
    /\ Goto(p, "subtract")
    /\ frame' = [frame EXCEPT ![p].now = 0]
    /\ UNCHANGED <<clock, owned>> /\ HistoryUnchanged

\* before - len(): the subtraction underflows if other threads inserted more
\* than the purge removed.  A build with overflow checks panics, which ends the
\* sweep or fails the request; any other wraps, and the result is not used.
Subtract(p) ==
    /\ pc[p] = "subtract"
    /\ IF OverflowChecks /\ len > frame[p].before
       THEN /\ Goto(p, IF p \in Sweepers THEN "dead" ELSE "idle")
            /\ frame' = [frame EXCEPT ![p] = NoFrame]
       ELSE /\ Goto(p, IF p \in Sweepers THEN "count" ELSE "recheck")
            /\ frame' = [frame EXCEPT ![p].before = 0]
    /\ UNCHANGED <<sessions, clock, owned>> /\ HistoryUnchanged

(* revoke, revoke_all_for_did, validate *)

\* revoke(token).  An unknown token is answered false and changes nothing.
Revoke(t, k) ==
    /\ pc[t] = "idle" /\ owned
    /\ k \in StoredTokens
    /\ sessions' = Without(k)
    /\ revoked' = revoked \cup {k}
    /\ UNCHANGED <<clock, owned, pc, frame, drawn, lost>>

\* revoke_all_for_did collects the DID's tokens ...
StartRevokeAll(t, d) ==
    LET mine == {s.token : s \in SessionsFor(d)} IN
    /\ pc[t] = "idle" /\ owned
    /\ Goto(t, "revoking")
    /\ frame' = [frame EXCEPT ![t] = [NoFrame EXCEPT !.did = d, !.tokens = mine,
                                                     !.left = mine]]
    /\ UNCHANGED <<sessions, clock, owned>> /\ HistoryUnchanged

\* ... removes them one by one, in the order the map gave them ...
RevokeNext(t, k) ==
    /\ pc[t] = "revoking"
    /\ k \in frame[t].left
    /\ sessions' = Without(k)
    /\ revoked' = revoked \cup {k}
    /\ frame' = [frame EXCEPT ![t].left = @ \ {k}]
    /\ UNCHANGED <<clock, owned, pc, drawn, lost>>

\* ... and returns how many it had collected.
EndRevokeAll(t) ==
    /\ pc[t] = "revoking"
    /\ frame[t].left = {}
    /\ Return(t)
    /\ UNCHANGED <<sessions, clock, owned>> /\ HistoryUnchanged

\* validate(token) up to get().  An unknown token is SessionNotFound.
ValidateGet(t, s) ==
    /\ pc[t] = "idle" /\ owned
    /\ s \in sessions
    /\ Goto(t, "check")
    /\ frame' = [frame EXCEPT ![t] = [NoFrame EXCEPT !.did = s.did, !.token = s.token,
                                                     !.valid_until = s.valid_until]]
    /\ UNCHANGED <<sessions, clock, owned>> /\ HistoryUnchanged

\* The verdict: the DID is returned, or the expired session is to be removed.
ValidateCheck(t) ==
    /\ pc[t] = "check"
    /\ IF clock >= frame[t].valid_until THEN Goto(t, "remove") /\ UNCHANGED frame
                                        ELSE Return(t)
    /\ UNCHANGED <<sessions, clock, owned>> /\ HistoryUnchanged

ValidateRemove(t) ==
    /\ pc[t] = "remove"
    /\ sessions' = Without(frame[t].token)
    /\ Return(t)
    /\ UNCHANGED <<clock, owned>> /\ HistoryUnchanged

(* start_cleanup and its task *)

StartSweeper(s) ==
    /\ pc[s] = "off" /\ owned
    /\ Goto(s, "tick")
    /\ UNCHANGED <<sessions, clock, owned, frame>> /\ HistoryUnchanged

SweepTick(s) ==
    /\ pc[s] = "tick"
    /\ Goto(s, "purge")
    /\ UNCHANGED <<sessions, clock, owned, frame>> /\ HistoryUnchanged

\* After the challenges are swept too: stop if this clone is the last one.
SweepCount(s) ==
    /\ pc[s] = "count"
    /\ Goto(s, IF strong_count <= 1 THEN "stopped" ELSE "tick")
    /\ UNCHANGED <<sessions, clock, owned, frame>> /\ HistoryUnchanged

\* The server drops its last Arc, once no handler is using it.
DropStore ==
    /\ owned
    /\ \A t \in Threads : pc[t] = "idle"
    /\ owned' = FALSE
    /\ UNCHANGED <<sessions, clock, pc, frame>> /\ HistoryUnchanged

Tick ==
    /\ clock < MaxTime
    /\ clock' = clock + 1
    /\ UNCHANGED <<sessions, owned, pc, frame>> /\ HistoryUnchanged

\* The store is gone and no task is left: the only state with nothing to do.
Finished ==
    /\ ~owned /\ Running = {}
    /\ UNCHANGED vars

Cleanup(p) == Purge(p) \/ Retain(p) \/ Subtract(p)

Handle(t) ==
    \/ \E d \in Dids : StartCreate(t, d) \/ StartRevokeAll(t, d)
    \/ \E k \in Tokens : DrawToken(t, k) \/ Revoke(t, k) \/ RevokeNext(t, k)
    \/ \E s \in sessions : ValidateGet(t, s)
    \/ Cleanup(t) \/ Recheck(t) \/ Quota(t) \/ EvictOwn(t)
    \/ Insert(t) \/ InsertFails(t)
    \/ EndRevokeAll(t) \/ ValidateCheck(t) \/ ValidateRemove(t)

Sweep(s) == SweepTick(s) \/ Cleanup(s) \/ SweepCount(s)

Next ==
    \/ Tick \/ DropStore \/ Finished
    \/ \E t \in Threads : Handle(t)
    \/ \E s \in Sweepers : StartSweeper(s) \/ Sweep(s)

Spec == Init /\ [][Next]_vars

\* A spawned task that is ready to run is eventually polled, and the interval
\* keeps ticking; nothing is assumed of the handlers.
FairSpec == Spec /\ \A s \in Sweepers : WF_vars(Sweep(s))
-----------------------------------------------------------------------------
(* Properties *)

\* Every variable keeps the shape the code's types give it; valid_until is a
\* u64 and never negative.
TypeOK ==
    /\ sessions \subseteq Session
    /\ clock \in Nat
    /\ owned \in BOOLEAN
    /\ pc \in [Procs -> Labels]
    /\ frame \in [Procs -> Frame]
    /\ drawn \subseteq Tokens
    /\ revoked \subseteq Tokens
    /\ lost \in [Dids -> Nat]

\* The global cap (create, session.rs:110-122) under concurrency: sessions
\* stored and about to be stored exceed it by at most the number of handlers
\* less one, however long the store runs; with one handler it is exact.
GlobalCapUpToHandlers ==
    len + Cardinality(Admitted) + 1 <= MaxSessions + Cardinality(Threads)

\* The per-DID cap (enforce_per_did_cap, session.rs:146-165) under concurrency:
\* beyond the same slack, a DID gains one session for every eviction whose
\* victim was already gone.
PerDidCapUpToLostEvictions ==
    \A d \in Dids :
        Cardinality(SessionsFor(d)) + Cardinality(AdmittedFor(d)) + 1
            <= MaxPerDid + Cardinality(Threads) + lost[d]

\* A session that has not expired ends only by being revoked, by itself or with
\* all others of its DID, or by a create for the same DID evicting it ("Never
\* touches another DID's sessions", session.rs:144).
LiveEndsOnlyByItsOwnDid ==
    [][\A s \in sessions \ sessions' :
            \/ s.valid_until <= clock
            \/ /\ s.token \in revoked'
               /\ \A t \in Threads : pc[t] = "revoking" /\ frame'[t] # frame[t]
                                       => frame[t].did = s.did
            \/ \E t \in Threads : /\ pc[t] = "evict" /\ pc'[t] = "token"
                                  /\ frame[t].did = s.did
                                  /\ frame[t].token = s.token]_vars

\* A revoked session never comes back, whatever validate, create and the sweep
\* were doing when it was revoked ("Revocation removes the session outright",
\* session.rs:25).
RevokedStaysRevoked == revoked \cap StoredTokens = {}

\* When revoke_all_for_did returns, every session of the DID that existed when
\* it was called is gone, also if other threads were removing some of them.
RevokeAllIsComplete ==
    [][\A t \in Threads : pc[t] = "revoking" /\ pc'[t] = "idle"
            => \A s \in sessions' : s.token \notin frame[t].tokens]_vars

\* While the store is in use and a sweep is running, an expired session is
\* eventually removed (session.rs:3: "A background tokio task sweeps expired
\* sessions").
ExpiredIsSwept ==
    \A k \in Tokens :
        (Running # {} /\ \E s \in sessions : s.token = k /\ s.valid_until <= clock)
            ~> (k \notin StoredTokens \/ ~owned)

\* How the tasks of start_cleanup end once nobody else holds the store: the last
\* one stops, but any two of them hold the store for each other and never do,
\* where session.rs:232-233 says of every task that it "stops when the
\* `SessionStore` Arc is dropped".
OnlyTheLastSweepStops ==
    \A s \in Sweepers :
        /\ (~owned /\ Running = {s}) ~> Running = {}
        /\ \A u \in Sweepers \ {s} :
                [](~owned /\ {s, u} \subseteq Running => []({s, u} \subseteq Running))

\* What session.rs:232 says of the cleanup task: it runs until the store is
\* dropped.  It does not die in purge_expired.
SweepNeverDies == \A s \in Sweepers : pc[s] # "dead"
=============================================================================
