------------------------- MODULE SessionStoreProofs -------------------------
(* Theorems about SessionStore, for every set of handlers, sweeps, DIDs and   *)
(* tokens, every cap and lifetime, with and without backend failures and      *)
(* overflow checks.                                                           *)
EXTENDS SessionStore, FiniteSetTheorems, TLAPS

\* The frame of an idle handler is a frame.
LEMMA NoFrameType == NoFrame \in Frame
BY DEF NoFrame, Frame

\* TypeOK is not inductive: the session that Insert stores is well typed because
\* a handler that got that far has a DID and a token in its frame, and the length
\* Purge remembers is a number because the store is finite.
InCreate == {"purge", "retain", "subtract", "recheck", "quota", "evict", "token",
             "insert"}

LocalsOK ==
    /\ IsFiniteSet(sessions)
    /\ \A t \in Threads :
        /\ pc[t] \in InCreate => frame[t].did \in Dids
        /\ pc[t] = "insert" => frame[t].token \in Tokens

TypeInv == TypeOK /\ LocalsOK

\* A step of one process that gives it a label and a well typed frame keeps
\* the control state and the locals well typed.
LEMMA StepType ==
    ASSUME TypeInv, NEW p \in Procs, NEW label \in Labels, NEW r \in Frame,
           Goto(p, label),
           frame' = [frame EXCEPT ![p] = r] \/ (frame' = frame /\ r = frame[p]),
           p \in Threads /\ label \in InCreate => r.did \in Dids,
           p \in Threads /\ label = "insert" => r.token \in Tokens,
           sessions' \subseteq Session, IsFiniteSet(sessions'),
           clock' = clock, owned' = owned, drawn' \subseteq Tokens,
           revoked' \subseteq Tokens, lost' \in [Dids -> Nat]
    PROVE  TypeInv'
<1>1. pc' \in [Procs -> Labels] /\ frame' \in [Procs -> Frame]
  BY DEF Goto, TypeInv, TypeOK
<1>2. pc'[p] = label /\ frame'[p] = r
  BY DEF Goto, TypeInv, TypeOK
<1>3. \A q \in Procs \ {p} : pc'[q] = pc[q] /\ frame'[q] = frame[q]
  BY DEF Goto, TypeInv, TypeOK
<1>4. LocalsOK'
  BY <1>2, <1>3 DEF LocalsOK, TypeInv, Procs
<1> QED
  BY <1>1, <1>4 DEF TypeInv, TypeOK

\* Removing sessions leaves a well typed, finite store.
LEMMA FewerSessions ==
    ASSUME TypeInv, NEW S, S \subseteq sessions
    PROVE  S \subseteq Session /\ IsFiniteSet(S)
BY FS_Subset, FS_CardinalityType DEF TypeInv, TypeOK, LocalsOK

\* The empty store, with its handlers idle and its sweeps not yet started, is
\* well typed.
LEMMA TypeInit == Init => TypeInv
<1> SUFFICES ASSUME Init PROVE TypeInv
  OBVIOUS
<1>1. pc \in [Procs -> Labels] /\ \A p \in Procs : pc[p] \in {"idle", "off"}
  BY DEF Init, Labels
<1>2. frame \in [Procs -> Frame]
  BY NoFrameType DEF Init
<1>3. lost \in [Dids -> Nat]
  BY DEF Init
<1>4. IsFiniteSet(sessions)
  BY FS_EmptySet DEF Init
<1>5. LocalsOK
  BY <1>1, <1>4 DEF LocalsOK, InCreate, Procs
<1>6. sessions \subseteq Session /\ clock \in Nat /\ drawn \subseteq Tokens
      /\ revoked \subseteq Tokens
  BY DEF Init
<1>7. owned \in BOOLEAN
  BY DEF Init
<1> QED
  BY <1>1, <1>2, <1>3, <1>5, <1>6, <1>7 DEF TypeInv, TypeOK

\* Every step of the specification keeps the store well typed.
LEMMA TypeStep == TypeInv /\ [Next]_vars => TypeInv'
<1> SUFFICES ASSUME TypeInv, [Next]_vars PROVE TypeInv'
  OBVIOUS
<1> USE SessionAssumptions DEF HistoryUnchanged, InCreate
<1>0. /\ Threads \subseteq Procs /\ Sweepers \subseteq Procs
      /\ \A p \in Procs : frame[p] \in Frame /\ pc[p] \in Labels
      /\ sessions \subseteq Session /\ IsFiniteSet(sessions) /\ len \in Nat
      /\ clock \in Nat /\ drawn \subseteq Tokens /\ revoked \subseteq Tokens
      /\ lost \in [Dids -> Nat]
  BY FS_CardinalityType DEF Procs, TypeInv, TypeOK, LocalsOK, len
<1>1. ASSUME NEW t \in Threads, NEW d \in Dids, StartCreate(t, d) PROVE TypeInv'
  <2> DEFINE r == [NoFrame EXCEPT !.did = d]
  <2>1. r \in Frame /\ r.did \in Dids
    BY DEF NoFrame, Frame
  <2> HIDE DEF r
  <2>2. frame' = [frame EXCEPT ![t] = r]
    BY <1>1 DEF StartCreate, r
  <2>3. PICK label \in {"purge", "quota"} : Goto(t, label)
    BY <1>1 DEF StartCreate
  <2> QED
    BY <1>0, <1>1, <2>1, <2>2, <2>3, StepType DEF StartCreate, Labels
<1>2. ASSUME NEW t \in Threads, Recheck(t) PROVE TypeInv'
  <2>1. frame[t].did \in Dids
    BY <1>2 DEF Recheck, TypeInv, LocalsOK
  <2>2. CASE len >= MaxSessions
    BY <1>0, <1>2, <2>2, StepType, NoFrameType DEF Recheck, Return, Labels
  <2>3. CASE ~(len >= MaxSessions)
    BY <1>0, <1>2, <2>1, <2>3, StepType DEF Recheck, Labels
  <2> QED
    BY <2>2, <2>3
<1>3. ASSUME NEW t \in Threads, Quota(t) PROVE TypeInv'
  <2>1. frame[t].did \in Dids
    BY <1>3 DEF Quota, TypeInv, LocalsOK
  <2>2. PICK label \in {"token", "evict"} : Goto(t, label)
    BY <1>3 DEF Quota
  <2>3. CASE UNCHANGED frame
    BY <1>0, <1>3, <2>1, <2>2, <2>3, StepType DEF Quota, Labels
  <2>4. ASSUME NEW s \in sessions, frame' = [frame EXCEPT ![t].token = s.token]
        PROVE  TypeInv'
    <3> DEFINE r == [frame[t] EXCEPT !.token = s.token]
    <3>1. r \in Frame /\ r.did \in Dids
      BY <1>0, <2>1 DEF Frame, Session
    <3>2. frame' = [frame EXCEPT ![t] = r]
      BY <2>4
    <3> HIDE DEF r
    <3> QED
      BY <1>0, <1>3, <2>2, <3>1, <3>2, StepType DEF Quota, Labels
  <2> QED
    BY <1>3, <2>3, <2>4 DEF Quota, SessionsFor
<1>4. ASSUME NEW t \in Threads, EvictOwn(t) PROVE TypeInv'
  <2> DEFINE r == [frame[t] EXCEPT !.token = NoToken]
  <2>1. PICK d \in Dids : d = frame[t].did
    BY <1>4 DEF EvictOwn, TypeInv, LocalsOK
  <2>2. r \in Frame /\ r.did \in Dids
    BY <1>0, <2>1 DEF Frame
  <2>3. frame' = [frame EXCEPT ![t] = r]
    BY <1>4 DEF EvictOwn
  <2> HIDE DEF r
  <2>4. sessions' \subseteq Session /\ IsFiniteSet(sessions')
    BY <1>4, FewerSessions DEF EvictOwn, Without
  <2>5. [lost EXCEPT ![d] = @ + 1] \in [Dids -> Nat]
    BY <1>0
  <2>6. lost' \in [Dids -> Nat]
    BY <1>0, <1>4, <2>1, <2>5 DEF EvictOwn
  <2> QED
    BY <1>0, <1>4, <2>2, <2>3, <2>4, <2>6, StepType DEF EvictOwn, Labels
<1>5. ASSUME NEW t \in Threads, NEW k \in Tokens, DrawToken(t, k) PROVE TypeInv'
  <2> DEFINE r == [frame[t] EXCEPT !.token = k, !.now = clock]
  <2>1. frame[t].did \in Dids
    BY <1>5 DEF DrawToken, TypeInv, LocalsOK
  <2>2. r \in Frame /\ r.did \in Dids /\ r.token \in Tokens
    BY <1>0, <2>1 DEF Frame
  <2>3. frame' = [frame EXCEPT ![t] = r]
    BY <1>5 DEF DrawToken
  <2> HIDE DEF r
  <2>4. drawn' \subseteq Tokens /\ UNCHANGED <<sessions, clock, owned, revoked, lost>>
    BY <1>0, <1>5 DEF DrawToken
  <2>5. Goto(t, "insert")
    BY <1>5 DEF DrawToken
  <2> QED
    BY <1>0, <2>2, <2>3, <2>4, <2>5, StepType DEF Labels
<1>6. ASSUME NEW t \in Threads, Insert(t) PROVE TypeInv'
  <2> DEFINE kept == Without(frame[t].token)
             new == [did |-> frame[t].did, token |-> frame[t].token,
                     valid_until |-> frame[t].now + Ttl, created_at |-> frame[t].now]
  <2>1. frame[t].did \in Dids /\ frame[t].token \in Tokens
    BY <1>6 DEF Insert, TypeInv, LocalsOK
  <2>2. frame[t].now \in Nat
    BY <1>0 DEF Frame
  <2>3. new \in Session
    BY <2>1, <2>2 DEF Session
  <2>4. sessions' = kept \cup {new} /\ kept \subseteq sessions
    BY <1>6 DEF Insert, Without
  <2> HIDE DEF kept, new
  <2>5. sessions' \subseteq Session /\ IsFiniteSet(sessions')
    BY <1>0, <2>3, <2>4, FS_Subset, FS_AddElement, FS_CardinalityType
  <2> QED
    BY <1>0, <1>6, <2>5, StepType, NoFrameType DEF Insert, Return, Labels
<1>7. ASSUME NEW t \in Threads, InsertFails(t) PROVE TypeInv'
  BY <1>0, <1>7, StepType, NoFrameType DEF InsertFails, Return, Labels
<1>8. ASSUME NEW p \in Procs, Purge(p) PROVE TypeInv'
  <2> DEFINE r == [frame[p] EXCEPT !.now = clock, !.before = len]
  <2>1. r \in Frame /\ r.did = frame[p].did
    BY <1>0 DEF Frame
  <2>2. frame' = [frame EXCEPT ![p] = r]
    BY <1>8 DEF Purge
  <2> HIDE DEF r
  <2>3. p \in Threads => r.did \in Dids
    BY <1>8, <2>1 DEF Purge, TypeInv, LocalsOK
  <2> QED
    BY <1>0, <1>8, <2>1, <2>2, <2>3, StepType DEF Purge, Labels
<1>9. ASSUME NEW p \in Procs, Retain(p) PROVE TypeInv'
  <2> DEFINE r == [frame[p] EXCEPT !.now = 0]
  <2>1. r \in Frame /\ r.did = frame[p].did
    BY <1>0 DEF Frame
  <2>2. frame' = [frame EXCEPT ![p] = r]
    BY <1>9 DEF Retain
  <2> HIDE DEF r
  <2>3. p \in Threads => r.did \in Dids
    BY <1>9, <2>1 DEF Retain, TypeInv, LocalsOK
  <2>4. sessions' \subseteq Session /\ IsFiniteSet(sessions')
    BY <1>9, FewerSessions DEF Retain
  <2> QED
    BY <1>0, <1>9, <2>1, <2>2, <2>3, <2>4, StepType DEF Retain, Labels
<1>10. ASSUME NEW p \in Procs, Subtract(p) PROVE TypeInv'
  <2>1. CASE OverflowChecks /\ len > frame[p].before
    BY <1>0, <1>10, <2>1, StepType, NoFrameType DEF Subtract, Labels
  <2>2. CASE ~(OverflowChecks /\ len > frame[p].before)
    <3> DEFINE r == [frame[p] EXCEPT !.before = 0]
    <3>1. r \in Frame /\ r.did = frame[p].did
      BY <1>0 DEF Frame
    <3>2. frame' = [frame EXCEPT ![p] = r]
      BY <1>10, <2>2 DEF Subtract
    <3> HIDE DEF r
    <3>3. p \in Threads => r.did \in Dids
      BY <1>10, <3>1 DEF Subtract, TypeInv, LocalsOK
    <3>4. Goto(p, IF p \in Sweepers THEN "count" ELSE "recheck")
      BY <1>10, <2>2 DEF Subtract
    <3> QED
      BY <1>0, <1>10, <3>1, <3>2, <3>3, <3>4, StepType DEF Subtract, Labels
  <2> QED
    BY <2>1, <2>2
<1>11. ASSUME NEW t \in Threads, NEW k \in Tokens, Revoke(t, k) PROVE TypeInv'
  <2>1. sessions' \subseteq Session /\ IsFiniteSet(sessions')
    BY <1>11, FewerSessions DEF Revoke, Without
  <2> QED
    BY <1>0, <1>11, <2>1 DEF Revoke, TypeInv, TypeOK, LocalsOK
<1>12. ASSUME NEW t \in Threads, NEW d \in Dids, StartRevokeAll(t, d) PROVE TypeInv'
  <2> DEFINE mine == {s.token : s \in SessionsFor(d)}
             r == [NoFrame EXCEPT !.did = d, !.tokens = mine, !.left = mine]
  <2>1. mine \subseteq Tokens
    BY <1>0 DEF SessionsFor, Session
  <2> HIDE DEF mine
  <2>2. r \in Frame
    BY <2>1 DEF NoFrame, Frame
  <2>3. frame' = [frame EXCEPT ![t] = r]
    BY <1>12 DEF StartRevokeAll, mine
  <2> HIDE DEF r
  <2> QED
    BY <1>0, <1>12, <2>2, <2>3, StepType DEF StartRevokeAll, Labels
<1>13. ASSUME NEW t \in Threads, NEW k \in Tokens, RevokeNext(t, k) PROVE TypeInv'
  <2> DEFINE rest == frame[t].left \ {k}
             r == [frame[t] EXCEPT !.left = rest]
  <2>1. rest \in SUBSET Tokens
    BY <1>0 DEF Frame
  <2>2. frame' = [frame EXCEPT ![t] = r]
    BY <1>13 DEF RevokeNext
  <2> HIDE DEF rest
  <2>3. r \in Frame /\ r.did = frame[t].did
    BY <1>0, <2>1 DEF Frame
  <2> HIDE DEF r
  <2>4. sessions' \subseteq Session /\ IsFiniteSet(sessions')
    BY <1>13, FewerSessions DEF RevokeNext, Without
  <2>5. Goto(t, "revoking")
    BY <1>13 DEF RevokeNext, Goto, TypeInv, TypeOK
  <2>6. revoked' \subseteq Tokens /\ UNCHANGED <<clock, owned, drawn, lost>>
    BY <1>0, <1>13 DEF RevokeNext
  <2> QED
    BY <1>0, <2>2, <2>3, <2>4, <2>5, <2>6, StepType DEF Labels
<1>14. ASSUME NEW t \in Threads, EndRevokeAll(t) PROVE TypeInv'
  BY <1>0, <1>14, StepType, NoFrameType DEF EndRevokeAll, Return, Labels
<1>15. ASSUME NEW t \in Threads, NEW s \in sessions, ValidateGet(t, s) PROVE TypeInv'
  <2> DEFINE r == [NoFrame EXCEPT !.did = s.did, !.token = s.token,
                                  !.valid_until = s.valid_until]
  <2>1. r \in Frame
    BY <1>0 DEF NoFrame, Frame, Session
  <2>2. frame' = [frame EXCEPT ![t] = r]
    BY <1>15 DEF ValidateGet
  <2> HIDE DEF r
  <2> QED
    BY <1>0, <1>15, <2>1, <2>2, StepType DEF ValidateGet, Labels
<1>16. ASSUME NEW t \in Threads, ValidateCheck(t) PROVE TypeInv'
  <2>1. CASE clock >= frame[t].valid_until
    BY <1>0, <1>16, <2>1, StepType DEF ValidateCheck, Labels
  <2>2. CASE ~(clock >= frame[t].valid_until)
    BY <1>0, <1>16, <2>2, StepType, NoFrameType DEF ValidateCheck, Return, Labels
  <2> QED
    BY <2>1, <2>2
<1>17. ASSUME NEW t \in Threads, ValidateRemove(t) PROVE TypeInv'
  <2>1. sessions' \subseteq Session /\ IsFiniteSet(sessions')
    BY <1>17, FewerSessions DEF ValidateRemove, Without
  <2> QED
    BY <1>0, <1>17, <2>1, StepType, NoFrameType DEF ValidateRemove, Return, Labels
<1>18. ASSUME NEW w \in Sweepers, StartSweeper(w) PROVE TypeInv'
  BY <1>0, <1>18, StepType DEF StartSweeper, Labels
<1>19. ASSUME NEW w \in Sweepers, SweepTick(w) PROVE TypeInv'
  BY <1>0, <1>19, StepType DEF SweepTick, Labels
<1>20. ASSUME NEW w \in Sweepers, SweepCount(w) PROVE TypeInv'
  BY <1>0, <1>20, StepType DEF SweepCount, Labels
<1>21. CASE DropStore
  BY <1>21 DEF DropStore, TypeInv, TypeOK, LocalsOK
<1>22. CASE Tick
  BY <1>22 DEF Tick, TypeInv, TypeOK, LocalsOK
<1>23. CASE UNCHANGED vars
  BY <1>23 DEF vars, TypeInv, TypeOK, LocalsOK
<1>24. CASE Finished
  BY <1>23, <1>24 DEF Finished
<1>25. ASSUME NEW p \in Procs, Cleanup(p) PROVE TypeInv'
  BY <1>8, <1>9, <1>10, <1>25 DEF Cleanup
<1>26. ASSUME NEW t \in Threads, Handle(t) PROVE TypeInv'
  BY <1>0, <1>1, <1>2, <1>3, <1>4, <1>5, <1>6, <1>7, <1>11, <1>12, <1>13, <1>14,
     <1>15, <1>16, <1>17, <1>25, <1>26 DEF Handle
<1>27. ASSUME NEW w \in Sweepers, StartSweeper(w) \/ Sweep(w) PROVE TypeInv'
  BY <1>0, <1>18, <1>19, <1>20, <1>25, <1>27 DEF Sweep
<1> QED
  BY <1>21, <1>22, <1>23, <1>24, <1>26, <1>27 DEF Next

\* Every reachable state of the session store is well typed and the store finite.
THEOREM TypeCorrect == Spec => [](TypeOK /\ LocalsOK)
BY TypeInit, TypeStep, PTL DEF Spec, TypeInv

-----------------------------------------------------------------------------
(* The global cap.  Unlike the challenge store, create refuses where it finds *)
(* the store full, so no eviction weakens the bound: a handler is admitted    *)
(* only past a length below the cap, and an insertion uses up its admission.  *)

PastGlobal == {"quota", "evict", "token", "insert"}

\* What moving one process does to the number of admitted handlers.
LEMMA AdmittedMoves ==
    ASSUME TypeInv, NEW p \in Procs, NEW label, Goto(p, label)
    PROVE  /\ Cardinality(Admitted) \in Nat
           /\ Cardinality(Admitted') \in Nat
           /\ Cardinality(Threads) \in Nat
           /\ p \in Threads /\ pc[p] \notin PastGlobal /\ label \in PastGlobal
                => /\ Cardinality(Admitted') = Cardinality(Admitted) + 1
                   /\ Cardinality(Admitted') <= Cardinality(Threads)
           /\ p \in Threads /\ pc[p] \in PastGlobal /\ label \notin PastGlobal
                => Cardinality(Admitted') = Cardinality(Admitted) - 1
           /\ p \notin Threads \/ (pc[p] \in PastGlobal <=> label \in PastGlobal)
                => Cardinality(Admitted') = Cardinality(Admitted)
<1>1. /\ Admitted = {u \in Threads : pc[u] \in PastGlobal}
      /\ Admitted' = {u \in Threads : pc'[u] \in PastGlobal}
  BY DEF Admitted, PastGlobal
<1>2. pc'[p] = label /\ \A u \in Threads \ {p} : pc'[u] = pc[u]
  BY DEF Goto, TypeInv, TypeOK, Procs
<1>3. IsFiniteSet(Threads) /\ Cardinality(Threads) \in Nat
  BY SessionAssumptions, FS_CardinalityType
<1>4. Admitted \subseteq Threads /\ Admitted' \subseteq Threads
  BY DEF Admitted
<1>5. /\ IsFiniteSet(Admitted) /\ Cardinality(Admitted) \in Nat
      /\ IsFiniteSet(Admitted') /\ Cardinality(Admitted') \in Nat
      /\ Cardinality(Admitted') <= Cardinality(Threads)
  BY <1>3, <1>4, FS_Subset, FS_CardinalityType
<1>6. CASE p \in Threads /\ pc[p] \notin PastGlobal /\ label \in PastGlobal
  <2>1. Admitted' = Admitted \cup {p} /\ p \notin Admitted
    BY <1>1, <1>2, <1>6
  <2> QED
    BY <1>3, <1>5, <1>6, <2>1, FS_AddElement
<1>7. CASE p \in Threads /\ pc[p] \in PastGlobal /\ label \notin PastGlobal
  <2>1. Admitted' = Admitted \ {p} /\ p \in Admitted
    BY <1>1, <1>2, <1>7
  <2> QED
    BY <1>3, <1>5, <1>7, <2>1, FS_RemoveElement
<1>8. CASE p \notin Threads \/ (pc[p] \in PastGlobal <=> label \in PastGlobal)
  <2>1. Admitted' = Admitted
    BY <1>1, <1>2, <1>8
  <2> QED
    BY <1>3, <1>5, <1>8, <2>1
<1> QED
  BY <1>6, <1>7, <1>8

\* A step that admits nobody and adds no session keeps the bound.
LEMMA CapStable ==
    ASSUME TypeInv, GlobalCapUpToHandlers, NEW p \in Procs, NEW label, Goto(p, label),
           p \notin Threads \/ pc[p] \in PastGlobal \/ label \notin PastGlobal,
           sessions' \subseteq sessions
    PROVE  GlobalCapUpToHandlers'
<1>1. /\ Cardinality(sessions) \in Nat /\ Cardinality(sessions') \in Nat
      /\ Cardinality(sessions') <= Cardinality(sessions)
  BY FS_Subset, FS_CardinalityType DEF TypeInv, LocalsOK
<1>2. /\ Cardinality(Admitted) \in Nat /\ Cardinality(Admitted') \in Nat
      /\ Cardinality(Admitted') <= Cardinality(Admitted)
      /\ Cardinality(Threads) \in Nat
  BY AdmittedMoves
<1> QED
  BY <1>1, <1>2, SessionAssumptions DEF GlobalCapUpToHandlers, len

\* A handler that saw a length below the cap may be admitted.
LEMMA CapAdmit ==
    ASSUME TypeInv, GlobalCapUpToHandlers, NEW t \in Threads, Goto(t, "quota"),
           pc[t] \notin PastGlobal, sessions' = sessions, ~(len >= MaxSessions)
    PROVE  GlobalCapUpToHandlers'
<1>1. Cardinality(sessions) \in Nat
  BY FS_CardinalityType DEF TypeInv, LocalsOK
<1>2. /\ Cardinality(Admitted) \in Nat
      /\ Cardinality(Admitted') = Cardinality(Admitted) + 1
      /\ Cardinality(Admitted') <= Cardinality(Threads)
      /\ Cardinality(Threads) \in Nat
  BY AdmittedMoves DEF PastGlobal, Procs
<1> QED
  BY <1>1, <1>2, SessionAssumptions DEF GlobalCapUpToHandlers, len

\* Sessions stored and about to be stored exceed max_sessions by less than the
\* number of handlers, for any caps, handlers and sweeps (create,
\* session.rs:109-140); with a single handler the cap is exact.
THEOREM GlobalCapHolds == Spec => []GlobalCapUpToHandlers
<1>1. Init => GlobalCapUpToHandlers
  <2> SUFFICES ASSUME Init PROVE GlobalCapUpToHandlers
    OBVIOUS
  <2>1. sessions = {} /\ Admitted = {}
    BY DEF Init, Admitted, Procs
  <2>2. Cardinality({}) = 0
    BY FS_EmptySet
  <2>3. Cardinality(Threads) \in Nat /\ Cardinality(Threads) # 0
    BY SessionAssumptions, FS_CardinalityType, FS_EmptySet
  <2> QED
    BY <2>1, <2>2, <2>3, SessionAssumptions DEF GlobalCapUpToHandlers, len
<1>2. TypeInv /\ GlobalCapUpToHandlers /\ [Next]_vars => GlobalCapUpToHandlers'
  <2> SUFFICES ASSUME TypeInv, GlobalCapUpToHandlers, [Next]_vars
               PROVE  GlobalCapUpToHandlers'
    OBVIOUS
  <2> USE DEF PastGlobal
  <2>0. Threads \subseteq Procs /\ Sweepers \subseteq Procs /\ Threads \cap Sweepers = {}
    BY SessionAssumptions DEF Procs
  <2>1. ASSUME NEW t \in Threads, NEW d \in Dids, StartCreate(t, d)
        PROVE  GlobalCapUpToHandlers'
    <3>1. CASE len >= MaxSessions
      BY <2>0, <2>1, <3>1, CapStable DEF StartCreate
    <3>2. CASE ~(len >= MaxSessions)
      BY <2>1, <3>2, CapAdmit DEF StartCreate
    <3> QED
      BY <3>1, <3>2
  <2>2. ASSUME NEW t \in Threads, Recheck(t) PROVE GlobalCapUpToHandlers'
    <3>1. CASE len >= MaxSessions
      BY <2>0, <2>2, <3>1, CapStable DEF Recheck, Return
    <3>2. CASE ~(len >= MaxSessions)
      BY <2>2, <3>2, CapAdmit DEF Recheck
    <3> QED
      BY <3>1, <3>2
  <2>3. ASSUME NEW t \in Threads, Quota(t) PROVE GlobalCapUpToHandlers'
    <3>1. PICK label : Goto(t, label)
      BY <2>3 DEF Quota
    <3> QED
      BY <2>0, <2>3, <3>1, CapStable DEF Quota
  <2>4. ASSUME NEW t \in Threads, EvictOwn(t) PROVE GlobalCapUpToHandlers'
    BY <2>0, <2>4, CapStable DEF EvictOwn, Without
  <2>5. ASSUME NEW t \in Threads, NEW k \in Tokens, DrawToken(t, k)
        PROVE  GlobalCapUpToHandlers'
    BY <2>0, <2>5, CapStable DEF DrawToken
  <2>6. ASSUME NEW t \in Threads, Insert(t) PROVE GlobalCapUpToHandlers'
    <3> DEFINE kept == Without(frame[t].token)
               new == [did |-> frame[t].did, token |-> frame[t].token,
                       valid_until |-> frame[t].now + Ttl, created_at |-> frame[t].now]
    <3>1. sessions' = kept \cup {new} /\ kept \subseteq sessions
      BY <2>6 DEF Insert, Without
    <3> HIDE DEF kept, new
    <3>2. /\ Cardinality(sessions) \in Nat /\ Cardinality(sessions') \in Nat
          /\ Cardinality(sessions') <= Cardinality(sessions) + 1
      BY <3>1, FS_Subset, FS_AddElement, FS_CardinalityType DEF TypeInv, LocalsOK
    <3>3. /\ Cardinality(Admitted) \in Nat /\ Cardinality(Admitted') \in Nat
          /\ Cardinality(Admitted') = Cardinality(Admitted) - 1
          /\ Cardinality(Threads) \in Nat
      BY <2>0, <2>6, AdmittedMoves DEF Insert, Return
    <3> QED
      BY <3>2, <3>3, SessionAssumptions DEF GlobalCapUpToHandlers, len
  <2>7. ASSUME NEW t \in Threads, InsertFails(t) PROVE GlobalCapUpToHandlers'
    BY <2>0, <2>7, CapStable DEF InsertFails, Return
  <2>8. ASSUME NEW p \in Procs, Cleanup(p) PROVE GlobalCapUpToHandlers'
    <3>1. PICK label : Goto(p, label) /\ label \notin PastGlobal
      <4>1. CASE Purge(p)
        BY <4>1 DEF Purge
      <4>2. CASE Retain(p)
        BY <4>2 DEF Retain
      <4>3. CASE Subtract(p)
        BY <4>3 DEF Subtract
      <4> QED
        BY <2>8, <4>1, <4>2, <4>3 DEF Cleanup
    <3>2. sessions' \subseteq sessions
      BY <2>8 DEF Cleanup, Purge, Retain, Subtract
    <3> QED
      BY <3>1, <3>2, CapStable
  <2>9. ASSUME NEW t \in Threads, NEW k \in Tokens, Revoke(t, k) \/ RevokeNext(t, k)
        PROVE  GlobalCapUpToHandlers'
    <3>1. Goto(t, pc[t]) /\ sessions' \subseteq sessions
      BY <2>0, <2>9 DEF Revoke, RevokeNext, Goto, TypeInv, TypeOK, Without
    <3> QED
      BY <2>0, <3>1, CapStable
  <2>10. ASSUME NEW t \in Threads, NEW d \in Dids, StartRevokeAll(t, d)
         PROVE  GlobalCapUpToHandlers'
    BY <2>0, <2>10, CapStable DEF StartRevokeAll
  <2>11. ASSUME NEW t \in Threads, EndRevokeAll(t) PROVE GlobalCapUpToHandlers'
    BY <2>0, <2>11, CapStable DEF EndRevokeAll, Return
  <2>12. ASSUME NEW t \in Threads, NEW s \in sessions, ValidateGet(t, s)
         PROVE  GlobalCapUpToHandlers'
    BY <2>0, <2>12, CapStable DEF ValidateGet
  <2>13. ASSUME NEW t \in Threads, ValidateCheck(t) PROVE GlobalCapUpToHandlers'
    <3>1. PICK label \in {"remove", "idle"} : Goto(t, label)
      BY <2>13 DEF ValidateCheck, Return
    <3> QED
      BY <2>0, <2>13, <3>1, CapStable DEF ValidateCheck
  <2>14. ASSUME NEW t \in Threads, ValidateRemove(t) PROVE GlobalCapUpToHandlers'
    BY <2>0, <2>14, CapStable DEF ValidateRemove, Return, Without
  <2>15. ASSUME NEW w \in Sweepers, StartSweeper(w) \/ SweepTick(w) \/ SweepCount(w)
         PROVE  GlobalCapUpToHandlers'
    <3>1. w \notin Threads /\ sessions' = sessions /\ \E label : Goto(w, label)
      BY <2>0, <2>15 DEF StartSweeper, SweepTick, SweepCount
    <3> QED
      BY <2>0, <3>1, CapStable
  <2>16. CASE DropStore \/ Tick \/ UNCHANGED vars
    <3>1. sessions' = sessions /\ pc' = pc
      BY <2>16 DEF DropStore, Tick, vars
    <3> QED
      BY <3>1 DEF GlobalCapUpToHandlers, len, Admitted
  <2>17. CASE Finished
    BY <2>16, <2>17 DEF Finished
  <2>18. ASSUME NEW t \in Threads, Handle(t) PROVE GlobalCapUpToHandlers'
    BY <2>0, <2>1, <2>2, <2>3, <2>4, <2>5, <2>6, <2>7, <2>8, <2>9, <2>10, <2>11,
       <2>12, <2>13, <2>14, <2>18 DEF Handle
  <2> QED
    BY <2>0, <2>8, <2>15, <2>16, <2>17, <2>18 DEF Next, Sweep
<1> QED
  BY <1>1, <1>2, TypeCorrect, PTL DEF Spec, TypeInv

-----------------------------------------------------------------------------
(* Revocation is final.  That no revoked token is stored is not inductive:    *)
(* an insertion could bring one back.  It cannot, because a token about to be *)
(* inserted was drawn afresh, is in nobody's revocation list and has never    *)
(* been stored.                                                               *)

Inserting == {t \in Threads : pc[t] = "insert"}
Revoking == {t \in Threads : pc[t] = "revoking"}

TokenInv ==
    /\ StoredTokens \subseteq drawn
    /\ revoked \subseteq drawn
    /\ RevokedStaysRevoked
    /\ \A t \in Inserting : /\ frame[t].token \in drawn
                            /\ frame[t].token \notin StoredTokens
                            /\ frame[t].token \notin revoked
    /\ \A t, u \in Inserting : frame[t].token = frame[u].token => t = u
    /\ \A t \in Revoking : frame[t].left \subseteq drawn
    /\ \A t \in Revoking, u \in Inserting : frame[u].token \notin frame[t].left

\* A step that draws, revokes and stores nothing, and moves a process to a
\* label other than the two that count, keeps the token invariant.
LEMMA TokenStable ==
    ASSUME TypeInv, TokenInv, NEW p \in Procs, NEW label, Goto(p, label),
           p \notin Threads \/ label \notin {"insert", "revoking"},
           \A q \in Procs \ {p} : frame'[q] = frame[q],
           sessions' \subseteq sessions, drawn' = drawn, revoked' = revoked
    PROVE  TokenInv'
<1>1. pc'[p] = label /\ \A q \in Procs \ {p} : pc'[q] = pc[q]
  BY DEF Goto, TypeInv, TypeOK
<1>2. /\ Inserting' \subseteq Inserting \ {p} /\ Revoking' \subseteq Revoking \ {p}
  BY <1>1 DEF Inserting, Revoking, Procs
<1>3. \A t \in Inserting' \cup Revoking' : frame'[t] = frame[t]
  BY <1>2 DEF Inserting, Revoking, Procs
<1>4. StoredTokens' \subseteq StoredTokens
  BY DEF StoredTokens
<1> HIDE DEF Inserting, Revoking, StoredTokens
<1> QED
  BY <1>2, <1>3, <1>4 DEF TokenInv, RevokedStaysRevoked

\* Stored, revoked and listed tokens were drawn, and one about to be inserted is
\* none of the others.
LEMMA TokenInvHolds == Spec => []TokenInv
<1>1. Init => TokenInv
  <2> SUFFICES ASSUME Init PROVE TokenInv
    OBVIOUS
  <2>1. StoredTokens = {} /\ Inserting = {} /\ Revoking = {} /\ revoked = {}
    BY DEF Init, StoredTokens, Inserting, Revoking, Procs
  <2> QED
    BY <2>1 DEF TokenInv, RevokedStaysRevoked
<1>2. TypeInv /\ TokenInv /\ [Next]_vars => TokenInv'
  <2> SUFFICES ASSUME TypeInv, TokenInv, [Next]_vars PROVE TokenInv'
    OBVIOUS
  <2> USE DEF HistoryUnchanged
  <2>0. Threads \subseteq Procs /\ Sweepers \subseteq Procs /\ Threads \cap Sweepers = {}
    BY SessionAssumptions DEF Procs
  <2>a. ASSUME NEW p \in Procs, NEW r, frame' = [frame EXCEPT ![p] = r]
        PROVE  /\ \A q \in Procs \ {p} : frame'[q] = frame[q]
               /\ frame'[p] = r
    BY <2>a DEF TypeInv, TypeOK
  <2>1. ASSUME NEW t \in Threads, NEW d \in Dids, StartCreate(t, d) PROVE TokenInv'
    <3>1. PICK label \in {"purge", "quota"} : Goto(t, label)
      BY <2>1 DEF StartCreate
    <3>2. \A q \in Procs \ {t} : frame'[q] = frame[q]
      BY <2>0, <2>1, <2>a DEF StartCreate
    <3> QED
      BY <2>0, <2>1, <3>1, <3>2, TokenStable DEF StartCreate
  <2>2. ASSUME NEW t \in Threads, Recheck(t) PROVE TokenInv'
    <3>1. PICK label \in {"idle", "quota"} : Goto(t, label)
      BY <2>2 DEF Recheck, Return
    <3>2. \A q \in Procs \ {t} : frame'[q] = frame[q]
      BY <2>0, <2>2, <2>a DEF Recheck, Return
    <3> QED
      BY <2>0, <2>2, <3>1, <3>2, TokenStable DEF Recheck
  <2>3. ASSUME NEW t \in Threads, Quota(t) PROVE TokenInv'
    <3>1. PICK label \in {"token", "evict"} : Goto(t, label)
      BY <2>3 DEF Quota
    <3>2. \A q \in Procs \ {t} : frame'[q] = frame[q]
      BY <2>0, <2>3, <2>a DEF Quota
    <3> QED
      BY <2>0, <2>3, <3>1, <3>2, TokenStable DEF Quota
  <2>4. ASSUME NEW t \in Threads, EvictOwn(t) PROVE TokenInv'
    <3>1. \A q \in Procs \ {t} : frame'[q] = frame[q]
      BY <2>0, <2>4, <2>a DEF EvictOwn
    <3>2. sessions' \subseteq sessions
      BY <2>4 DEF EvictOwn, Without
    <3> QED
      BY <2>0, <2>4, <3>1, <3>2, TokenStable DEF EvictOwn
  <2>5. ASSUME NEW t \in Threads, NEW k \in Tokens, DrawToken(t, k) PROVE TokenInv'
    <3>1. pc'[t] = "insert" /\ \A q \in Procs \ {t} : pc'[q] = pc[q]
      BY <2>0, <2>5 DEF DrawToken, Goto, TypeInv, TypeOK
    <3>2. /\ Inserting' = Inserting \cup {t} /\ t \notin Inserting
          /\ Revoking' = Revoking /\ t \notin Revoking
      BY <2>0, <2>5, <3>1 DEF DrawToken, Inserting, Revoking
    <3>3. frame'[t].token = k /\ \A q \in Procs \ {t} : frame'[q] = frame[q]
      <4> DEFINE r == [frame[t] EXCEPT !.token = k, !.now = clock]
      <4>1. frame[t] \in Frame
        BY <2>0 DEF TypeInv, TypeOK
      <4>2. r.token = k
        BY <4>1 DEF Frame
      <4>3. frame' = [frame EXCEPT ![t] = r]
        BY <2>5 DEF DrawToken
      <4> HIDE DEF r
      <4> QED
        BY <2>0, <2>a, <4>2, <4>3
    <3>4. \A q \in Inserting \cup Revoking : frame'[q] = frame[q]
      BY <2>0, <3>2, <3>3 DEF Inserting, Revoking
    <3>5. StoredTokens' = StoredTokens /\ revoked' = revoked
          /\ drawn' = drawn \cup {k} /\ k \notin drawn
      BY <2>5 DEF DrawToken, StoredTokens
    <3> HIDE DEF Inserting, Revoking, StoredTokens
    <3> QED
      BY <3>2, <3>3, <3>4, <3>5 DEF TokenInv, RevokedStaysRevoked
  <2>6. ASSUME NEW t \in Threads, Insert(t) PROVE TokenInv'
    <3>1. pc'[t] = "idle" /\ \A q \in Procs \ {t} : pc'[q] = pc[q]
      BY <2>0, <2>6 DEF Insert, Return, Goto, TypeInv, TypeOK
    <3>2. /\ Inserting' = Inserting \ {t} /\ t \in Inserting
          /\ Revoking' = Revoking /\ t \notin Revoking
      BY <2>0, <2>6, <3>1 DEF Insert, Inserting, Revoking
    <3>3. \A q \in Inserting' \cup Revoking' : frame'[q] = frame[q]
      BY <2>0, <2>6, <2>a, <3>2 DEF Insert, Return, Inserting, Revoking
    <3>4. StoredTokens' \subseteq StoredTokens \cup {frame[t].token}
      <4> DEFINE new == [did |-> frame[t].did, token |-> frame[t].token,
                         valid_until |-> frame[t].now + Ttl,
                         created_at |-> frame[t].now]
      <4>1. sessions' \subseteq sessions \cup {new} /\ new.token = frame[t].token
        BY <2>6 DEF Insert, Without
      <4> HIDE DEF new
      <4> QED
        BY <4>1 DEF StoredTokens
    <3>5. revoked' = revoked /\ drawn' = drawn
      BY <2>6 DEF Insert
    <3> HIDE DEF Inserting, Revoking, StoredTokens
    <3> QED
      BY <3>2, <3>3, <3>4, <3>5 DEF TokenInv, RevokedStaysRevoked
  <2>7. ASSUME NEW t \in Threads, InsertFails(t) PROVE TokenInv'
    <3>1. \A q \in Procs \ {t} : frame'[q] = frame[q]
      BY <2>0, <2>7, <2>a DEF InsertFails, Return
    <3> QED
      BY <2>0, <2>7, <3>1, TokenStable DEF InsertFails, Return
  <2>8. ASSUME NEW p \in Procs, Cleanup(p) PROVE TokenInv'
    <3>1. PICK label : Goto(p, label) /\ label \notin {"insert", "revoking"}
      <4>1. CASE Purge(p)
        BY <4>1 DEF Purge
      <4>2. CASE Retain(p)
        BY <4>2 DEF Retain
      <4>3. CASE Subtract(p)
        BY <4>3 DEF Subtract
      <4> QED
        BY <2>8, <4>1, <4>2, <4>3 DEF Cleanup
    <3>2. \A q \in Procs \ {p} : frame'[q] = frame[q]
      BY <2>8, <2>a DEF Cleanup, Purge, Retain, Subtract
    <3>3. sessions' \subseteq sessions /\ drawn' = drawn /\ revoked' = revoked
      BY <2>8 DEF Cleanup, Purge, Retain, Subtract
    <3> QED
      BY <3>1, <3>2, <3>3, TokenStable
  <2>9. ASSUME NEW t \in Threads, NEW k \in Tokens, Revoke(t, k) PROVE TokenInv'
    <3>1. StoredTokens' \subseteq StoredTokens \ {k} /\ k \in StoredTokens
      BY <2>9 DEF Revoke, Without, StoredTokens
    <3>2. Inserting' = Inserting /\ Revoking' = Revoking
      BY <2>9 DEF Revoke, Inserting, Revoking
    <3>3. frame' = frame /\ drawn' = drawn /\ revoked' = revoked \cup {k}
      BY <2>9 DEF Revoke
    <3> HIDE DEF Inserting, Revoking, StoredTokens
    <3> QED
      BY <3>1, <3>2, <3>3 DEF TokenInv, RevokedStaysRevoked
  <2>10. ASSUME NEW t \in Threads, NEW d \in Dids, StartRevokeAll(t, d) PROVE TokenInv'
    <3>1. pc'[t] = "revoking" /\ \A q \in Procs \ {t} : pc'[q] = pc[q]
      BY <2>0, <2>10 DEF StartRevokeAll, Goto, TypeInv, TypeOK
    <3>2. /\ Inserting' = Inserting /\ t \notin Inserting
          /\ Revoking' = Revoking \cup {t} /\ t \notin Revoking
      BY <2>0, <2>10, <3>1 DEF StartRevokeAll, Inserting, Revoking
    <3>3. /\ frame'[t].left \subseteq StoredTokens
          /\ \A q \in Procs \ {t} : frame'[q] = frame[q]
      <4> DEFINE mine == {s.token : s \in SessionsFor(d)}
                 r == [NoFrame EXCEPT !.did = d, !.tokens = mine, !.left = mine]
      <4>1. mine \subseteq StoredTokens
        BY DEF SessionsFor, StoredTokens
      <4>2. frame' = [frame EXCEPT ![t] = r]
        BY <2>10 DEF StartRevokeAll
      <4> HIDE DEF mine
      <4>3. r.left = mine
        BY DEF NoFrame
      <4> HIDE DEF r
      <4> QED
        BY <2>0, <2>a, <4>1, <4>2, <4>3
    <3>4. \A q \in Inserting \cup Revoking : frame'[q] = frame[q]
      BY <2>0, <3>2, <3>3 DEF Inserting, Revoking
    <3>5. StoredTokens' = StoredTokens /\ revoked' = revoked /\ drawn' = drawn
      BY <2>10 DEF StartRevokeAll, StoredTokens
    <3> HIDE DEF Inserting, Revoking, StoredTokens
    <3> QED
      BY <3>2, <3>3, <3>4, <3>5 DEF TokenInv, RevokedStaysRevoked
  <2>11. ASSUME NEW t \in Threads, NEW k \in Tokens, RevokeNext(t, k) PROVE TokenInv'
    <3>1. Inserting' = Inserting /\ Revoking' = Revoking /\ t \in Revoking
      BY <2>11 DEF RevokeNext, Inserting, Revoking
    <3>2. /\ frame'[t].left = frame[t].left \ {k} /\ k \in frame[t].left
          /\ \A q \in Procs \ {t} : frame'[q] = frame[q]
      <4> DEFINE rest == frame[t].left \ {k}
                 r == [frame[t] EXCEPT !.left = rest]
      <4>1. frame' = [frame EXCEPT ![t] = r] /\ k \in frame[t].left
        BY <2>11 DEF RevokeNext
      <4>2. frame[t] \in Frame
        BY <2>0 DEF TypeInv, TypeOK
      <4>3. r.left = rest
        BY <4>2 DEF Frame
      <4> HIDE DEF r
      <4> QED
        BY <2>0, <2>a, <4>1, <4>3
    <3>3. /\ \A q \in Inserting : frame'[q] = frame[q]
          /\ \A q \in Revoking : frame'[q].left \subseteq frame[q].left
      <4>1. t \notin Inserting
        BY <2>11 DEF RevokeNext, Inserting
      <4> QED
        BY <2>0, <3>2, <4>1 DEF Inserting, Revoking
    <3>4. StoredTokens' \subseteq StoredTokens \ {k}
      BY <2>11 DEF RevokeNext, Without, StoredTokens
    <3>5. drawn' = drawn /\ revoked' = revoked \cup {k}
      BY <2>11 DEF RevokeNext
    <3> HIDE DEF Inserting, Revoking, StoredTokens
    <3> QED
      BY <3>1, <3>2, <3>3, <3>4, <3>5 DEF TokenInv, RevokedStaysRevoked
  <2>12. ASSUME NEW t \in Threads, EndRevokeAll(t) PROVE TokenInv'
    <3>1. \A q \in Procs \ {t} : frame'[q] = frame[q]
      BY <2>0, <2>12, <2>a DEF EndRevokeAll, Return
    <3> QED
      BY <2>0, <2>12, <3>1, TokenStable DEF EndRevokeAll, Return
  <2>13. ASSUME NEW t \in Threads, NEW s \in sessions, ValidateGet(t, s) PROVE TokenInv'
    <3>1. \A q \in Procs \ {t} : frame'[q] = frame[q]
      BY <2>0, <2>13, <2>a DEF ValidateGet
    <3> QED
      BY <2>0, <2>13, <3>1, TokenStable DEF ValidateGet
  <2>14. ASSUME NEW t \in Threads, ValidateCheck(t) PROVE TokenInv'
    <3>1. PICK label \in {"remove", "idle"} : Goto(t, label)
      BY <2>14 DEF ValidateCheck, Return
    <3>2. \A q \in Procs \ {t} : frame'[q] = frame[q]
      BY <2>0, <2>14, <2>a DEF ValidateCheck, Return
    <3> QED
      BY <2>0, <2>14, <3>1, <3>2, TokenStable DEF ValidateCheck
  <2>15. ASSUME NEW t \in Threads, ValidateRemove(t) PROVE TokenInv'
    <3>1. \A q \in Procs \ {t} : frame'[q] = frame[q]
      BY <2>0, <2>15, <2>a DEF ValidateRemove, Return
    <3>2. sessions' \subseteq sessions
      BY <2>15 DEF ValidateRemove, Without
    <3> QED
      BY <2>0, <2>15, <3>1, <3>2, TokenStable DEF ValidateRemove, Return
  <2>16. ASSUME NEW w \in Sweepers, StartSweeper(w) \/ SweepTick(w) \/ SweepCount(w)
         PROVE  TokenInv'
    <3>1. /\ w \notin Threads /\ \E label : Goto(w, label)
          /\ frame' = frame /\ sessions' = sessions /\ drawn' = drawn
          /\ revoked' = revoked
      BY <2>0, <2>16 DEF StartSweeper, SweepTick, SweepCount
    <3> QED
      BY <2>0, <3>1, TokenStable
  <2>17. CASE DropStore \/ Tick \/ UNCHANGED vars
    <3>1. UNCHANGED <<sessions, pc, frame, drawn, revoked>>
      BY <2>17 DEF DropStore, Tick, vars
    <3> QED
      BY <3>1 DEF TokenInv, RevokedStaysRevoked, StoredTokens, Inserting, Revoking
  <2>18. CASE Finished
    BY <2>17, <2>18 DEF Finished
  <2>19. ASSUME NEW t \in Threads, Handle(t) PROVE TokenInv'
    BY <2>0, <2>1, <2>2, <2>3, <2>4, <2>5, <2>6, <2>7, <2>8, <2>9, <2>10, <2>11,
       <2>12, <2>13, <2>14, <2>15, <2>19 DEF Handle
  <2> QED
    BY <2>0, <2>8, <2>16, <2>17, <2>18, <2>19 DEF Next, Sweep
<1> QED
  BY <1>1, <1>2, TypeCorrect, PTL DEF Spec, TypeInv

\* A session that was revoked is never stored again, for any interleaving of
\* create, validate, revoke, revoke_all_for_did and the sweep (session.rs:167-181).
THEOREM RevocationIsFinal == Spec => []RevokedStaysRevoked
BY TokenInvHolds, PTL DEF TokenInv

-----------------------------------------------------------------------------
(* Whose sessions a handler touches.  What a handler remembers of the store   *)
(* is stale by the time it is used: the victim of the quota, the session that *)
(* validate found, the list of revoke_all_for_did.  The two action properties *)
(* and the per-DID cap rest on what is left of it: a remembered token, if it  *)
(* is still stored, still belongs to the same DID and has the same expiry,    *)
(* because a token names one session and is never drawn twice.                *)

\* The tokens of stored sessions that a handler outside Inserting remembers.
Known(t) == (frame[t].tokens \cup {frame[t].token}) \ {NoToken}

\* The store is a map: a token names one session.
OneSessionPerToken == \A r, s \in sessions : r.token = s.token => r = s

\* What handler t remembers, where it is still stored, is still its DID's, with the
\* expiry read; and what revoke_all_for_did has not yet removed is on its list.
KnowsOwn(t) ==
    /\ Known(t) \subseteq drawn
    /\ \A u \in Inserting : frame[u].token \notin Known(t)
    /\ \A s \in sessions : s.token \in Known(t) => s.did = frame[t].did
    /\ pc[t] \in {"check", "remove"} =>
          \A s \in sessions : s.token = frame[t].token
                                => s.valid_until = frame[t].valid_until
    /\ pc[t] = "remove" => frame[t].valid_until <= clock
    /\ pc[t] = "revoking" =>
          \A s \in sessions : s.token \in frame[t].tokens => s.token \in frame[t].left
    /\ pc[t] = "revoking" => frame[t].left \subseteq frame[t].tokens

\* The inductive invariant: so it is for every handler that is not inserting, and
\* a clock that a purge holds lies in the past.
OwnInv ==
    /\ OneSessionPerToken
    /\ \A t \in Threads \ Inserting : KnowsOwn(t)
    /\ \A p \in Procs : pc[p] = "retain" => frame[p].now <= clock

\* A handler that remembers no token, or no more than before, keeps to its DID.
LEMMA KnowsNothing ==
    ASSUME NEW t \in Threads, frame'[t] = NoFrame, pc'[t] = "idle"
    PROVE  KnowsOwn(t)'
<1>1. Known(t)' = {}
  BY DEF Known, NoFrame
<1> QED
  BY <1>1 DEF KnowsOwn

\* See KnowsNothing; the handler is not validating or revoking.
LEMMA KnowsLess ==
    ASSUME NEW t \in Threads, KnowsOwn(t), Known(t)' \subseteq Known(t),
           frame'[t].did = frame[t].did,
           pc'[t] \notin {"check", "remove", "revoking"},
           sessions' \subseteq sessions, drawn' = drawn,
           Inserting' \subseteq Inserting, \A u \in Inserting' : frame'[u] = frame[u]
    PROVE  KnowsOwn(t)'
<1> HIDE DEF Known, Inserting
<1> QED
  BY DEF KnowsOwn

\* A step of one process that stores nothing and draws nothing disturbs what the
\* others remember only by removing sessions.
LEMMA OwnStable ==
    ASSUME TypeInv, OwnInv, NEW p \in Procs, NEW label, Goto(p, label),
           label # "insert", \A q \in Procs \ {p} : frame'[q] = frame[q],
           p \in Threads => KnowsOwn(p)',
           label = "retain" => frame'[p].now <= clock,
           sessions' \subseteq sessions, drawn' = drawn, clock' = clock
    PROVE  OwnInv'
<1>1. pc'[p] = label /\ \A q \in Procs \ {p} : pc'[q] = pc[q]
  BY DEF Goto, TypeInv, TypeOK
<1>2. /\ Inserting' = Inserting \ {p} /\ Inserting \subseteq Threads
      /\ Threads \subseteq Procs
  BY <1>1 DEF Inserting, Procs
<1>3. \A u \in Inserting' : frame'[u] = frame[u]
  BY <1>2
<1>4. ASSUME NEW t \in Threads \ Inserting' PROVE KnowsOwn(t)'
  <2>1. CASE t = p
    BY <2>1
  <2>2. CASE t # p
    <3>1. pc'[t] = pc[t] /\ frame'[t] = frame[t] /\ KnowsOwn(t)
      BY <1>1, <1>2, <1>4, <2>2 DEF OwnInv
    <3>2. Known(t)' = Known(t)
      BY <3>1 DEF Known
    <3> HIDE DEF Known, Inserting
    <3> QED
      BY <1>2, <1>3, <3>1, <3>2 DEF KnowsOwn
  <2> QED
    BY <2>1, <2>2
<1>5. OneSessionPerToken'
  BY DEF OwnInv, OneSessionPerToken
<1>6. \A q \in Procs : pc'[q] = "retain" => frame'[q].now <= clock'
  BY <1>1 DEF OwnInv
<1> HIDE DEF Inserting, KnowsOwn, OneSessionPerToken
<1> QED
  BY <1>4, <1>5, <1>6 DEF OwnInv

\* What every handler remembers stays true of the sessions still stored.
LEMMA OwnStep == TypeInv /\ TokenInv /\ OwnInv /\ [Next]_vars => OwnInv'
<1> SUFFICES ASSUME TypeInv, TokenInv, OwnInv, [Next]_vars PROVE OwnInv'
  OBVIOUS
<1> USE DEF HistoryUnchanged
<1>0. /\ Threads \subseteq Procs /\ Sweepers \subseteq Procs
      /\ Threads \cap Sweepers = {} /\ NoToken \notin Tokens
      /\ \A p \in Procs : frame[p] \in Frame /\ pc[p] \in Labels
      /\ sessions \subseteq Session /\ clock \in Nat
  BY SessionAssumptions DEF Procs, TypeInv, TypeOK, NoToken
<1>a. ASSUME NEW p \in Procs, NEW r, frame' = [frame EXCEPT ![p] = r]
      PROVE  (\A q \in Procs \ {p} : frame'[q] = frame[q]) /\ frame'[p] = r
  BY <1>a DEF TypeInv, TypeOK
<1>b. ASSUME NEW p \in Procs, NEW label, Goto(p, label)
      PROVE  pc'[p] = label /\ \A q \in Procs \ {p} : pc'[q] = pc[q]
  BY <1>b DEF Goto, TypeInv, TypeOK
<1>c. ASSUME NEW p \in Procs, NEW label, Goto(p, label), label # "insert",
             \A q \in Procs \ {p} : frame'[q] = frame[q]
      PROVE  Inserting' \subseteq Inserting /\ \A u \in Inserting' : frame'[u] = frame[u]
  <2>1. Inserting' \subseteq Inserting \ {p} /\ Inserting \subseteq Procs
    BY <1>0, <1>b, <1>c DEF Inserting
  <2> QED
    BY <1>c, <2>1
\* The handler returns.
<1>d. ASSUME NEW t \in Threads, Return(t), sessions' \subseteq sessions,
             drawn' = drawn, clock' = clock
      PROVE  OwnInv'
  <2>1. Goto(t, "idle") /\ frame'[t] = NoFrame /\ \A q \in Procs \ {t} : frame'[q] = frame[q]
    BY <1>0, <1>a, <1>d DEF Return
  <2>2. KnowsOwn(t)'
    BY <1>0, <1>b, <2>1, KnowsNothing
  <2> QED
    BY <1>0, <1>d, <2>1, <2>2, OwnStable
\* The process goes on and remembers no more tokens than it did.
<1>e. ASSUME NEW p \in Procs, NEW label \in Labels \ {"insert", "check", "remove", "revoking"},
             Goto(p, label), \A q \in Procs \ {p} : frame'[q] = frame[q],
             p \in Threads => pc[p] # "insert" /\ frame'[p].did = frame[p].did,
             p \in Threads => Known(p)' \subseteq Known(p),
             label = "retain" => frame'[p].now <= clock,
             sessions' \subseteq sessions, drawn' = drawn, clock' = clock
      PROVE  OwnInv'
  <2>1. ASSUME p \in Threads PROVE KnowsOwn(p)'
    <3>1. KnowsOwn(p) /\ pc'[p] = label
      BY <1>b, <1>e, <2>1 DEF OwnInv, Inserting
    <3> QED
      BY <1>c, <1>e, <2>1, <3>1, KnowsLess
  <2> QED
    BY <1>e, <2>1, OwnStable
<1>1. ASSUME NEW t \in Threads, NEW d \in Dids, StartCreate(t, d) PROVE OwnInv'
  <2> DEFINE r == [NoFrame EXCEPT !.did = d]
  <2>1. r.tokens = {} /\ r.token = NoToken
    BY DEF NoFrame
  <2>2. frame' = [frame EXCEPT ![t] = r]
    BY <1>1 DEF StartCreate
  <2> HIDE DEF r
  <2>3. frame'[t] = r /\ \A q \in Procs \ {t} : frame'[q] = frame[q]
    BY <1>0, <1>a, <2>2
  <2>4. PICK label \in {"purge", "quota"} : Goto(t, label)
    BY <1>1 DEF StartCreate
  <2>5. KnowsOwn(t)'
    <3>1. Known(t)' = {}
      BY <2>1, <2>3 DEF Known
    <3>2. pc'[t] = label
      BY <1>0, <1>b, <2>4
    <3> QED
      BY <2>4, <3>1, <3>2 DEF KnowsOwn
  <2> QED
    BY <1>0, <1>1, <2>3, <2>4, <2>5, OwnStable DEF StartCreate
<1>2. ASSUME NEW t \in Threads, Recheck(t) PROVE OwnInv'
  <2>1. CASE len >= MaxSessions
    BY <1>2, <1>d, <2>1 DEF Recheck
  <2>2. CASE ~(len >= MaxSessions)
    BY <1>0, <1>2, <1>e, <2>2 DEF Recheck, Known, Labels
  <2> QED
    BY <2>1, <2>2
<1>3. ASSUME NEW t \in Threads, Quota(t) PROVE OwnInv'
  <2>1. PICK label \in {"token", "evict"} : Goto(t, label)
    BY <1>3 DEF Quota
  <2>2. CASE UNCHANGED frame
    BY <1>0, <1>3, <1>e, <2>1, <2>2 DEF Quota, Known, Labels
  <2>3. ASSUME NEW s \in sessions, s.did = frame[t].did,
               frame' = [frame EXCEPT ![t].token = s.token]
        PROVE  OwnInv'
    <3> DEFINE r == [frame[t] EXCEPT !.token = s.token]
    <3>1. r.did = frame[t].did /\ r.tokens = frame[t].tokens /\ r.token = s.token
      BY <1>0 DEF Frame
    <3>2. frame' = [frame EXCEPT ![t] = r]
      BY <2>3
    <3> HIDE DEF r
    <3>3. frame'[t] = r /\ \A q \in Procs \ {t} : frame'[q] = frame[q]
      BY <1>0, <1>a, <3>2
    <3>4. Known(t)' \subseteq Known(t) \cup {s.token} /\ frame'[t].did = frame[t].did
      BY <3>1, <3>3 DEF Known
    <3>5. KnowsOwn(t)
      BY <1>3 DEF OwnInv, Quota, Inserting
    <3>6. s.token \in StoredTokens /\ \A x \in sessions : x.token = s.token => x = s
      BY DEF StoredTokens, OwnInv, OneSessionPerToken
    <3>7. Inserting' \subseteq Inserting /\ \A u \in Inserting' : frame'[u] = frame[u]
      BY <1>0, <1>c, <2>1, <3>3
    <3>8. pc'[t] \in {"token", "evict"}
      BY <1>0, <1>b, <2>1
    <3>9. sessions' = sessions /\ drawn' = drawn /\ clock' = clock
      BY <1>3 DEF Quota
    <3>10. s.token \in drawn /\ \A u \in Inserting : frame[u].token # s.token
      BY <3>6 DEF TokenInv
    <3>11. KnowsOwn(t)'
      <4> HIDE DEF Known, Inserting
      <4> QED
        BY <2>3, <3>4, <3>5, <3>6, <3>7, <3>8, <3>9, <3>10 DEF KnowsOwn
    <3> QED
      BY <1>0, <2>1, <3>3, <3>9, <3>11, OwnStable
  <2> QED
    BY <1>3, <2>2, <2>3 DEF Quota, SessionsFor
<1>4. ASSUME NEW t \in Threads, EvictOwn(t) PROVE OwnInv'
  <2> DEFINE r == [frame[t] EXCEPT !.token = NoToken]
  <2>1. r.did = frame[t].did /\ r.tokens = frame[t].tokens /\ r.token = NoToken
    BY <1>0 DEF Frame
  <2>2. frame' = [frame EXCEPT ![t] = r]
    BY <1>4 DEF EvictOwn
  <2> HIDE DEF r
  <2>3. frame'[t] = r /\ \A q \in Procs \ {t} : frame'[q] = frame[q]
    BY <1>0, <1>a, <2>2
  <2>4. Known(t)' \subseteq Known(t) /\ frame'[t].did = frame[t].did
    BY <2>1, <2>3 DEF Known
  <2>5. /\ Goto(t, "token") /\ pc[t] # "insert" /\ sessions' \subseteq sessions
        /\ drawn' = drawn /\ clock' = clock
    BY <1>4 DEF EvictOwn, Without
  <2> QED
    BY <1>0, <1>e, <2>3, <2>4, <2>5 DEF Labels
<1>5. ASSUME NEW t \in Threads, NEW k \in Tokens, DrawToken(t, k) PROVE OwnInv'
  <2>1. pc'[t] = "insert" /\ \A q \in Procs \ {t} : pc'[q] = pc[q]
    BY <1>0, <1>5, <1>b DEF DrawToken
  <2>2. frame'[t].token = k /\ \A q \in Procs \ {t} : frame'[q] = frame[q]
    <3> DEFINE r == [frame[t] EXCEPT !.token = k, !.now = clock]
    <3>1. r.token = k
      BY <1>0 DEF Frame
    <3>2. frame' = [frame EXCEPT ![t] = r]
      BY <1>5 DEF DrawToken
    <3> HIDE DEF r
    <3> QED
      BY <1>0, <1>a, <3>1, <3>2
  <2>3. Inserting' = Inserting \cup {t} /\ Inserting \subseteq Procs
    BY <1>0, <2>1 DEF Inserting
  <2>4. /\ sessions' = sessions /\ clock' = clock
        /\ drawn' = drawn \cup {k} /\ k \notin drawn
    BY <1>5 DEF DrawToken
  <2>5. ASSUME NEW u \in Threads \ Inserting' PROVE KnowsOwn(u)'
    <3>1. u # t /\ pc'[u] = pc[u] /\ frame'[u] = frame[u] /\ KnowsOwn(u)
      BY <1>0, <2>1, <2>2, <2>3, <2>5 DEF OwnInv
    <3>2. Known(u)' = Known(u)
      BY <3>1 DEF Known
    <3>3. \A v \in Inserting' : frame'[v].token = k \/ (v \in Inserting /\ frame'[v] = frame[v])
      BY <2>2, <2>3
    <3> HIDE DEF Known, Inserting
    <3> QED
      BY <2>4, <3>1, <3>2, <3>3 DEF KnowsOwn
  <2>6. OneSessionPerToken'
    BY <2>4 DEF OwnInv, OneSessionPerToken
  <2>7. \A q \in Procs : pc'[q] = "retain" => frame'[q].now <= clock'
    BY <2>1, <2>2, <2>4 DEF OwnInv
  <2> HIDE DEF Inserting, KnowsOwn, OneSessionPerToken
  <2> QED
    BY <2>5, <2>6, <2>7 DEF OwnInv
<1>6. ASSUME NEW t \in Threads, Insert(t) PROVE OwnInv'
  <2> DEFINE new == [did |-> frame[t].did, token |-> frame[t].token,
                     valid_until |-> frame[t].now + Ttl, created_at |-> frame[t].now]
  <2>1. sessions' \subseteq sessions \cup {new} /\ new.token = frame[t].token
    BY <1>6 DEF Insert, Without
  <2> HIDE DEF new
  <2>2. t \in Inserting /\ pc'[t] = "idle" /\ \A q \in Procs \ {t} : pc'[q] = pc[q]
    BY <1>0, <1>6, <1>b DEF Insert, Return, Inserting
  <2>3. frame'[t] = NoFrame /\ \A q \in Procs \ {t} : frame'[q] = frame[q]
    BY <1>0, <1>6, <1>a DEF Insert, Return
  <2>4. Inserting' = Inserting \ {t} /\ Inserting \subseteq Procs
    BY <1>0, <2>2 DEF Inserting
  <2>5. drawn' = drawn /\ clock' = clock
    BY <1>6 DEF Insert
  <2>6. ASSUME NEW u \in Threads \ Inserting' PROVE KnowsOwn(u)'
    <3>1. CASE u = t
      BY <2>2, <2>3, <3>1, KnowsNothing
    <3>2. CASE u # t
      <4>1. u \notin Inserting /\ pc'[u] = pc[u] /\ frame'[u] = frame[u] /\ KnowsOwn(u)
        BY <1>0, <2>2, <2>3, <2>4, <2>6, <3>2 DEF OwnInv
      <4>2. Known(u)' = Known(u)
        BY <4>1 DEF Known
      <4>3. new.token \notin Known(u)
        BY <2>1, <2>2, <4>1 DEF KnowsOwn
      <4>4. new.token # NoToken
        BY <1>0, <1>6, <2>1 DEF Insert, TypeInv, LocalsOK
      <4>5. frame[u].tokens \subseteq Tokens
        BY <1>0 DEF Frame
      <4>6. new.token \notin frame[u].tokens /\ new.token # frame[u].token
        BY <4>3, <4>4 DEF Known
      <4>7. \A v \in Inserting' : v \in Inserting /\ frame'[v] = frame[v]
        BY <2>3, <2>4
      <4> HIDE DEF Known, Inserting
      <4> QED
        BY <2>1, <2>5, <4>1, <4>2, <4>3, <4>6, <4>7 DEF KnowsOwn
    <3> QED
      BY <3>1, <3>2
  <2>7. OneSessionPerToken'
    <3>1. \A s \in sessions : s.token # new.token
      BY <2>1, <2>2 DEF TokenInv, StoredTokens
    <3> QED
      BY <2>1, <3>1 DEF OwnInv, OneSessionPerToken
  <2>8. \A q \in Procs : pc'[q] = "retain" => frame'[q].now <= clock'
    BY <2>2, <2>3, <2>5 DEF OwnInv
  <2> HIDE DEF Inserting, KnowsOwn, OneSessionPerToken
  <2> QED
    BY <2>6, <2>7, <2>8 DEF OwnInv
<1>7. ASSUME NEW t \in Threads, InsertFails(t) PROVE OwnInv'
  BY <1>7, <1>d DEF InsertFails
<1>8. ASSUME NEW p \in Procs, Cleanup(p) PROVE OwnInv'
  <2>1. CASE Purge(p)
    <3> DEFINE r == [frame[p] EXCEPT !.now = clock, !.before = len]
    <3>1. /\ r.did = frame[p].did /\ r.tokens = frame[p].tokens
          /\ r.token = frame[p].token /\ r.now = clock
      BY <1>0 DEF Frame
    <3>2. frame' = [frame EXCEPT ![p] = r]
      BY <2>1 DEF Purge
    <3> HIDE DEF r
    <3>3. frame'[p] = r /\ \A q \in Procs \ {p} : frame'[q] = frame[q]
      BY <1>a, <3>2
    <3>4. Known(p)' = Known(p)
      BY <3>1, <3>3 DEF Known
    <3>5. /\ Goto(p, "retain") /\ pc[p] # "insert"
          /\ sessions' = sessions /\ drawn' = drawn /\ clock' = clock
      BY <2>1 DEF Purge
    <3> QED
      BY <1>0, <1>e, <3>1, <3>3, <3>4, <3>5 DEF Labels
  <2>2. CASE Retain(p)
    <3> DEFINE r == [frame[p] EXCEPT !.now = 0]
    <3>1. r.did = frame[p].did /\ r.tokens = frame[p].tokens /\ r.token = frame[p].token
      BY <1>0 DEF Frame
    <3>2. frame' = [frame EXCEPT ![p] = r]
      BY <2>2 DEF Retain
    <3> HIDE DEF r
    <3>3. frame'[p] = r /\ \A q \in Procs \ {p} : frame'[q] = frame[q]
      BY <1>a, <3>2
    <3>4. Known(p)' = Known(p)
      BY <3>1, <3>3 DEF Known
    <3>5. /\ Goto(p, "subtract") /\ pc[p] # "insert"
          /\ sessions' \subseteq sessions /\ drawn' = drawn /\ clock' = clock
      BY <2>2 DEF Retain
    <3> QED
      BY <1>0, <1>e, <3>1, <3>3, <3>4, <3>5 DEF Labels
  <2>3. CASE Subtract(p)
    <3>0. pc[p] # "insert" /\ sessions' = sessions /\ drawn' = drawn /\ clock' = clock
      BY <2>3 DEF Subtract
    <3>1. CASE OverflowChecks /\ len > frame[p].before
      <4>1. frame'[p] = NoFrame /\ \A q \in Procs \ {p} : frame'[q] = frame[q]
        BY <1>a, <2>3, <3>1 DEF Subtract
      <4>2. PICK label \in {"dead", "idle"} :
                Goto(p, label) /\ (p \in Threads => label = "idle")
        BY <1>0, <2>3, <3>1 DEF Subtract
      <4>3. p \in Threads => KnowsOwn(p)'
        BY <1>b, <4>1, <4>2, KnowsNothing
      <4> QED
        BY <3>0, <4>1, <4>2, <4>3, OwnStable
    <3>2. CASE ~(OverflowChecks /\ len > frame[p].before)
      <4> DEFINE r == [frame[p] EXCEPT !.before = 0]
      <4>1. /\ r.did = frame[p].did /\ r.tokens = frame[p].tokens
            /\ r.token = frame[p].token
        BY <1>0 DEF Frame
      <4>2. frame' = [frame EXCEPT ![p] = r]
        BY <2>3, <3>2 DEF Subtract
      <4> HIDE DEF r
      <4>3. frame'[p] = r /\ \A q \in Procs \ {p} : frame'[q] = frame[q]
        BY <1>a, <4>2
      <4>4. Known(p)' = Known(p)
        BY <4>1, <4>3 DEF Known
      <4>5. PICK label \in {"count", "recheck"} : Goto(p, label)
        BY <2>3, <3>2 DEF Subtract
      <4> QED
        BY <1>0, <1>e, <3>0, <4>1, <4>3, <4>4, <4>5 DEF Labels
    <3> QED
      BY <3>1, <3>2
  <2> QED
    BY <1>8, <2>1, <2>2, <2>3 DEF Cleanup
<1>9. ASSUME NEW t \in Threads, NEW k \in Tokens, Revoke(t, k) PROVE OwnInv'
  <2>1. /\ Goto(t, "idle") /\ pc[t] # "insert" /\ frame' = frame
        /\ sessions' \subseteq sessions /\ drawn' = drawn /\ clock' = clock
    BY <1>0, <1>9 DEF Revoke, Goto, Without, TypeInv, TypeOK
  <2>2. Known(t)' = Known(t)
    BY <2>1 DEF Known
  <2> QED
    BY <1>0, <1>e, <2>1, <2>2 DEF Labels
<1>10. ASSUME NEW t \in Threads, NEW d \in Dids, StartRevokeAll(t, d) PROVE OwnInv'
  <2> DEFINE mine == {s.token : s \in SessionsFor(d)}
             r == [NoFrame EXCEPT !.did = d, !.tokens = mine, !.left = mine]
  <2>1. /\ mine \subseteq StoredTokens
        /\ \A s \in sessions : s.token \in mine => s.did = d
    BY DEF SessionsFor, StoredTokens, OwnInv, OneSessionPerToken
  <2>2. frame' = [frame EXCEPT ![t] = r]
    BY <1>10 DEF StartRevokeAll
  <2> HIDE DEF mine
  <2>3. r.left = mine /\ r.tokens = mine /\ r.did = d /\ r.token = NoToken
    BY DEF NoFrame
  <2> HIDE DEF r
  <2>4. frame'[t] = r /\ \A q \in Procs \ {t} : frame'[q] = frame[q]
    BY <1>0, <1>a, <2>2
  <2>5. /\ Goto(t, "revoking") /\ sessions' = sessions /\ drawn' = drawn /\ clock' = clock
    BY <1>10 DEF StartRevokeAll
  <2>6. KnowsOwn(t)'
    <3>1. Known(t)' \subseteq mine /\ pc'[t] = "revoking"
      BY <1>0, <1>b, <2>3, <2>4, <2>5 DEF Known
    <3>2. Inserting' \subseteq Inserting /\ \A u \in Inserting' : frame'[u] = frame[u]
      BY <1>0, <1>c, <2>4, <2>5
    <3>3. mine \subseteq drawn /\ \A u \in Inserting : frame[u].token \notin mine
      BY <2>1 DEF TokenInv
    <3> HIDE DEF Known, Inserting
    <3> QED
      BY <2>1, <2>3, <2>4, <2>5, <3>1, <3>2, <3>3 DEF KnowsOwn
  <2> QED
    BY <1>0, <2>4, <2>5, <2>6, OwnStable
<1>11. ASSUME NEW t \in Threads, NEW k \in Tokens, RevokeNext(t, k) PROVE OwnInv'
  <2> DEFINE rest == frame[t].left \ {k}
             r == [frame[t] EXCEPT !.left = rest]
  <2>1. frame' = [frame EXCEPT ![t] = r]
    BY <1>11 DEF RevokeNext
  <2>2. /\ r.did = frame[t].did /\ r.tokens = frame[t].tokens
        /\ r.token = frame[t].token /\ r.left = frame[t].left \ {k}
    BY <1>0 DEF Frame
  <2> HIDE DEF r
  <2>3. frame'[t] = r /\ \A q \in Procs \ {t} : frame'[q] = frame[q]
    BY <1>0, <1>a, <2>1
  <2>4. /\ Goto(t, "revoking") /\ pc[t] = "revoking" /\ drawn' = drawn /\ clock' = clock
        /\ sessions' = Without(k)
    BY <1>0, <1>11 DEF RevokeNext, Goto, TypeInv, TypeOK
  <2>5. sessions' \subseteq sessions /\ \A s \in sessions' : s.token # k
    BY <2>4 DEF Without
  <2>6. KnowsOwn(t)'
    <3>1. Known(t)' = Known(t)
      BY <2>2, <2>3 DEF Known
    <3>2. Inserting' \subseteq Inserting /\ \A u \in Inserting' : frame'[u] = frame[u]
      BY <1>0, <1>c, <2>3, <2>4
    <3>3. KnowsOwn(t) /\ pc'[t] = "revoking"
      BY <1>0, <1>b, <2>4 DEF OwnInv, Inserting
    <3> HIDE DEF Known, Inserting
    <3> QED
      BY <2>2, <2>3, <2>4, <2>5, <3>1, <3>2, <3>3 DEF KnowsOwn
  <2> QED
    BY <1>0, <2>3, <2>4, <2>5, <2>6, OwnStable
<1>12. ASSUME NEW t \in Threads, EndRevokeAll(t) PROVE OwnInv'
  BY <1>12, <1>d DEF EndRevokeAll
<1>13. ASSUME NEW t \in Threads, NEW s \in sessions, ValidateGet(t, s) PROVE OwnInv'
  <2> DEFINE r == [NoFrame EXCEPT !.did = s.did, !.token = s.token,
                                  !.valid_until = s.valid_until]
  <2>1. /\ r.did = s.did /\ r.token = s.token /\ r.valid_until = s.valid_until
        /\ r.tokens = {}
    BY DEF NoFrame
  <2>2. frame' = [frame EXCEPT ![t] = r]
    BY <1>13 DEF ValidateGet
  <2> HIDE DEF r
  <2>3. frame'[t] = r /\ \A q \in Procs \ {t} : frame'[q] = frame[q]
    BY <1>0, <1>a, <2>2
  <2>4. Goto(t, "check") /\ sessions' = sessions /\ drawn' = drawn /\ clock' = clock
    BY <1>13 DEF ValidateGet
  <2>5. s.token \in StoredTokens /\ \A x \in sessions : x.token = s.token => x = s
    BY DEF StoredTokens, OwnInv, OneSessionPerToken
  <2>6. KnowsOwn(t)'
    <3>1. Known(t)' \subseteq {s.token} /\ pc'[t] = "check"
      BY <1>0, <1>b, <2>1, <2>3, <2>4 DEF Known
    <3>2. Inserting' \subseteq Inserting /\ \A u \in Inserting' : frame'[u] = frame[u]
      BY <1>0, <1>c, <2>3, <2>4
    <3>3. s.token \in drawn /\ \A u \in Inserting : frame[u].token # s.token
      BY <2>5 DEF TokenInv
    <3> HIDE DEF Known, Inserting
    <3> QED
      BY <2>1, <2>3, <2>4, <2>5, <3>1, <3>2, <3>3 DEF KnowsOwn
  <2> QED
    BY <1>0, <2>3, <2>4, <2>6, OwnStable
<1>14. ASSUME NEW t \in Threads, ValidateCheck(t) PROVE OwnInv'
  <2>1. CASE clock >= frame[t].valid_until
    <3>1. /\ Goto(t, "remove") /\ pc[t] = "check" /\ frame' = frame
          /\ sessions' = sessions /\ drawn' = drawn /\ clock' = clock
      BY <1>14, <2>1 DEF ValidateCheck
    <3>2. KnowsOwn(t) /\ pc'[t] = "remove"
      BY <1>0, <1>b, <3>1 DEF OwnInv, Inserting
    <3>3. Inserting' \subseteq Inserting /\ \A u \in Inserting' : frame'[u] = frame[u]
      BY <1>0, <1>c, <3>1
    <3>4. frame[t].valid_until <= clock
      BY <1>0, <2>1 DEF Frame
    <3>5. Known(t)' = Known(t)
      BY <3>1 DEF Known
    <3>6. KnowsOwn(t)'
      <4> HIDE DEF Known, Inserting
      <4> QED
        BY <3>1, <3>2, <3>3, <3>4, <3>5 DEF KnowsOwn
    <3> QED
      BY <1>0, <3>1, <3>6, OwnStable
  <2>2. CASE ~(clock >= frame[t].valid_until)
    BY <1>14, <1>d, <2>2 DEF ValidateCheck
  <2> QED
    BY <2>1, <2>2
<1>15. ASSUME NEW t \in Threads, ValidateRemove(t) PROVE OwnInv'
  BY <1>15, <1>d DEF ValidateRemove, Without
<1>16. ASSUME NEW w \in Sweepers, StartSweeper(w) \/ SweepTick(w) \/ SweepCount(w)
       PROVE  OwnInv'
  <2>1. /\ w \notin Threads /\ \E label \in {"tick", "purge", "stopped"} : Goto(w, label)
        /\ frame' = frame /\ sessions' = sessions /\ drawn' = drawn /\ clock' = clock
    BY <1>0, <1>16 DEF StartSweeper, SweepTick, SweepCount
  <2> QED
    BY <1>0, <2>1, OwnStable
<1>17. CASE DropStore \/ Tick \/ UNCHANGED vars
  <2>1. UNCHANGED <<sessions, pc, frame, drawn>> /\ clock' \in Nat /\ clock <= clock'
    BY <1>0, <1>17 DEF DropStore, Tick, vars
  <2>2. /\ Inserting' = Inserting /\ OneSessionPerToken'
        /\ \A t \in Threads : Known(t)' = Known(t)
    BY <2>1 DEF Inserting, Known, OwnInv, OneSessionPerToken
  <2>3. \A p \in Procs : frame[p].now \in Nat /\ frame[p].valid_until \in Nat
    BY <1>0 DEF Frame
  <2>4. ASSUME NEW t \in Threads \ Inserting' PROVE KnowsOwn(t)'
    <3>1. KnowsOwn(t) /\ frame[t].valid_until \in Nat
      BY <1>0, <2>2, <2>3, <2>4 DEF OwnInv
    <3>2. frame[t].valid_until <= clock => frame[t].valid_until <= clock'
      BY <1>0, <2>1, <3>1
    <3> HIDE DEF Known, Inserting
    <3> QED
      BY <2>1, <2>2, <3>1, <3>2 DEF KnowsOwn
  <2>5. \A p \in Procs : pc'[p] = "retain" => frame'[p].now <= clock'
    BY <1>0, <2>1, <2>3 DEF OwnInv
  <2> HIDE DEF Inserting, KnowsOwn, OneSessionPerToken
  <2> QED
    BY <2>2, <2>4, <2>5 DEF OwnInv
<1>18. CASE Finished
  BY <1>17, <1>18 DEF Finished
<1>19. ASSUME NEW t \in Threads, Handle(t) PROVE OwnInv'
  BY <1>0, <1>1, <1>2, <1>3, <1>4, <1>5, <1>6, <1>7, <1>8, <1>9, <1>10, <1>11,
     <1>12, <1>13, <1>14, <1>15, <1>19 DEF Handle
<1> QED
  BY <1>0, <1>8, <1>16, <1>17, <1>18, <1>19 DEF Next, Sweep

\* OwnInv holds in every reachable state.
LEMMA OwnInvHolds == Spec => []OwnInv
<1>1. Init => OwnInv
  <2> SUFFICES ASSUME Init PROVE OwnInv
    OBVIOUS
  <2>1. /\ sessions = {} /\ Inserting = {} /\ Threads \subseteq Procs
        /\ \A p \in Procs : frame[p] = NoFrame /\ pc[p] \in {"idle", "off"}
    BY DEF Init, Inserting, Procs
  <2>2. \A t \in Threads : Known(t) = {}
    BY <2>1 DEF Known, NoFrame
  <2>3. \A t \in Threads : KnowsOwn(t)
    BY <2>1, <2>2 DEF KnowsOwn
  <2> QED
    BY <2>1, <2>3 DEF OwnInv, OneSessionPerToken
<1> QED
  BY <1>1, OwnStep, TypeCorrect, TokenInvHolds, PTL DEF Spec, TypeInv

\* When revoke_all_for_did returns, no session it collected is stored, whichever
\* other threads were removing or creating meanwhile (session.rs:167-181).
THEOREM RevokeAllHolds == Spec => RevokeAllIsComplete
<1> DEFINE A == \A t \in Threads : pc[t] = "revoking" /\ pc'[t] = "idle"
                    => \A s \in sessions' : s.token \notin frame[t].tokens
<1>1. TypeInv /\ OwnInv /\ [Next]_vars => [A]_vars
  <2> SUFFICES ASSUME TypeInv, OwnInv, Next,
                      NEW t \in Threads, pc[t] = "revoking", pc'[t] = "idle"
               PROVE  \A s \in sessions' : s.token \notin frame[t].tokens
    BY DEF vars
  <2>0. Threads \subseteq Procs /\ Threads \cap Sweepers = {}
    BY SessionAssumptions DEF Procs
  <2>1. ASSUME NEW p \in Procs, NEW label, Goto(p, label)
        PROVE  t = p \/ pc'[t] = pc[t]
    BY <2>0, <2>1 DEF Goto, TypeInv, TypeOK
  <2>2. ASSUME NEW w \in Sweepers, StartSweeper(w) \/ Sweep(w) PROVE FALSE
    <3>1. w \in Procs /\ w # t /\ \E label : Goto(w, label)
      BY <2>0, <2>2 DEF StartSweeper, Sweep, SweepTick, SweepCount, Cleanup, Purge,
                        Retain, Subtract, Procs
    <3> QED
      BY <2>1, <3>1
  <2>3. ~(Tick \/ DropStore \/ Finished)
    BY DEF Tick, DropStore, Finished, vars
  <2>4. PICK u \in Threads : Handle(u)
    BY <2>2, <2>3 DEF Next
  <2>5. ASSUME \E k \in Tokens : Revoke(u, k) \/ RevokeNext(u, k) PROVE FALSE
    BY <2>5 DEF Revoke, RevokeNext
  <2>6. CASE EndRevokeAll(u)
    <3>1. t = u
      BY <2>0, <2>1, <2>6 DEF EndRevokeAll, Return
    <3>2. KnowsOwn(t) /\ frame[t].left = {} /\ sessions' = sessions
      BY <2>6, <3>1 DEF EndRevokeAll, OwnInv, Inserting
    <3> QED
      BY <3>2 DEF KnowsOwn
  <2>7. CASE ~EndRevokeAll(u)
    <3>1. pc[u] # "revoking" /\ \E label : Goto(u, label)
      <4>1. CASE \E d \in Dids : StartCreate(u, d) \/ StartRevokeAll(u, d)
        BY <4>1 DEF StartCreate, StartRevokeAll
      <4>2. CASE \E k \in Tokens : DrawToken(u, k)
        BY <4>2 DEF DrawToken
      <4>3. CASE \E s \in sessions : ValidateGet(u, s)
        BY <4>3 DEF ValidateGet
      <4>4. CASE Cleanup(u)
        BY <4>4 DEF Cleanup, Purge, Retain, Subtract
      <4>5. CASE Recheck(u) \/ Quota(u) \/ EvictOwn(u) \/ Insert(u) \/ InsertFails(u)
        BY <4>5 DEF Recheck, Quota, EvictOwn, Insert, InsertFails, Return
      <4>6. CASE ValidateCheck(u) \/ ValidateRemove(u)
        BY <4>6 DEF ValidateCheck, ValidateRemove, Return
      <4> QED
        BY <2>4, <2>5, <2>7, <4>1, <4>2, <4>3, <4>4, <4>5, <4>6 DEF Handle
    <3> QED
      BY <2>0, <2>1, <3>1
  <2> QED
    BY <2>6, <2>7
<1> QED
  BY <1>1, OwnInvHolds, TypeCorrect, PTL DEF Spec, TypeInv, RevokeAllIsComplete

\* A session leaves the store before it expires only by revocation, a
\* revoke_all_for_did taking only its own DID's, or as the victim of a create for
\* its DID: purge and validate remove with a clock that is never ahead, and no
\* stale victim or list reaches into another DID (session.rs:144).
THEOREM LiveEndsHolds == Spec => LiveEndsOnlyByItsOwnDid
<1> DEFINE A == \A s \in sessions \ sessions' :
                \/ s.valid_until <= clock
                \/ /\ s.token \in revoked'
                   /\ \A t \in Threads : pc[t] = "revoking" /\ frame'[t] # frame[t]
                                           => frame[t].did = s.did
                \/ \E t \in Threads : /\ pc[t] = "evict" /\ pc'[t] = "token"
                                      /\ frame[t].did = s.did
                                      /\ frame[t].token = s.token
<1>1. TypeInv /\ TokenInv /\ OwnInv /\ [Next]_vars => [A]_vars
  <2> SUFFICES ASSUME TypeInv, TokenInv, OwnInv, Next, NEW s \in sessions \ sessions'
               PROVE  \/ s.valid_until <= clock
                      \/ /\ s.token \in revoked'
                         /\ \A t \in Threads : pc[t] = "revoking" /\ frame'[t] # frame[t]
                                                 => frame[t].did = s.did
                      \/ \E t \in Threads : /\ pc[t] = "evict" /\ pc'[t] = "token"
                                            /\ frame[t].did = s.did
                                            /\ frame[t].token = s.token
    BY DEF vars
  <2>0. /\ Threads \subseteq Procs /\ Sweepers \subseteq Procs /\ clock \in Nat
        /\ NoToken \notin Tokens /\ s \in Session
        /\ \A p \in Procs : frame[p] \in Frame
    BY SessionAssumptions DEF Procs, TypeInv, TypeOK, NoToken
  <2>1. sessions' # sessions
    OBVIOUS
  <2>2. ASSUME NEW t \in Threads, EvictOwn(t)
        PROVE  \E u \in Threads : /\ pc[u] = "evict" /\ pc'[u] = "token"
                                  /\ frame[u].did = s.did
                                  /\ frame[u].token = s.token
    <3>1. frame[t].token = s.token /\ pc[t] = "evict" /\ Goto(t, "token")
      BY <2>2 DEF EvictOwn, Without
    <3>2. pc'[t] = "token"
      BY <2>0, <3>1 DEF Goto, TypeInv, TypeOK
    <3>3. KnowsOwn(t) /\ s.token \in Known(t)
      BY <2>0, <3>1 DEF OwnInv, Inserting, Known, Session
    <3> QED
      BY <3>1, <3>2, <3>3 DEF KnowsOwn
  <2>3. ASSUME NEW t \in Threads, Insert(t) PROVE FALSE
    BY <2>3 DEF Insert, Without, TokenInv, Inserting, StoredTokens
  <2>4. ASSUME NEW p \in Procs, Retain(p) PROVE s.valid_until <= clock
    <3>1. ~(s.valid_until > frame[p].now) /\ frame[p].now <= clock
      BY <2>4 DEF Retain, OwnInv
    <3>2. frame[p].now \in Nat /\ s.valid_until \in Nat
      BY <2>0 DEF Frame, Session
    <3> QED
      BY <2>0, <3>1, <3>2
  <2>5. ASSUME NEW t \in Threads, NEW k \in Tokens, Revoke(t, k)
        PROVE  s.token \in revoked' /\ frame' = frame
    BY <2>5 DEF Revoke, Without
  <2>6. ASSUME NEW t \in Threads, NEW k \in Tokens, RevokeNext(t, k)
        PROVE  /\ s.token \in revoked'
               /\ \A u \in Threads : pc[u] = "revoking" /\ frame'[u] # frame[u]
                                       => frame[u].did = s.did
    <3>1. s.token = k /\ k \in frame[t].left /\ pc[t] = "revoking" /\ k \in revoked'
      BY <2>6 DEF RevokeNext, Without
    <3>2. \A u \in Threads : frame'[u] # frame[u] => u = t
      BY <2>0, <2>6 DEF RevokeNext, TypeInv, TypeOK
    <3>3. KnowsOwn(t)
      BY <3>1 DEF OwnInv, Inserting
    <3>4. s.token \in Known(t)
      BY <2>0, <3>1, <3>3 DEF KnowsOwn, Known, Session
    <3>5. frame[t].did = s.did
      BY <3>3, <3>4 DEF KnowsOwn
    <3> QED
      BY <3>1, <3>2, <3>5
  <2>7. ASSUME NEW t \in Threads, ValidateRemove(t) PROVE s.valid_until <= clock
    <3>1. s.token = frame[t].token /\ pc[t] = "remove"
      BY <2>7 DEF ValidateRemove, Without
    <3>2. KnowsOwn(t)
      BY <3>1 DEF OwnInv, Inserting
    <3> QED
      BY <3>1, <3>2 DEF KnowsOwn
  <2>8. ASSUME NEW w \in Sweepers, StartSweeper(w) \/ Sweep(w) PROVE Retain(w)
    BY <2>1, <2>8 DEF StartSweeper, Sweep, SweepTick, SweepCount, Cleanup, Purge, Subtract
  <2>9. ~(Tick \/ DropStore \/ Finished)
    BY <2>1 DEF Tick, DropStore, Finished, vars
  <2>10. ASSUME NEW t \in Threads, Handle(t)
         PROVE  \/ EvictOwn(t) \/ Insert(t) \/ Retain(t) \/ ValidateRemove(t)
                \/ \E k \in Tokens : Revoke(t, k) \/ RevokeNext(t, k)
    BY <2>1, <2>10 DEF Handle, StartCreate, StartRevokeAll, DrawToken, ValidateGet,
                       Cleanup, Purge, Subtract, Recheck, Quota, InsertFails,
                       EndRevokeAll, ValidateCheck
  <2> QED
    BY <2>0, <2>2, <2>3, <2>4, <2>5, <2>6, <2>7, <2>8, <2>9, <2>10 DEF Next
<1> QED
  BY <1>1, OwnInvHolds, TokenInvHolds, TypeCorrect, PTL DEF Spec, TypeInv, LiveEndsOnlyByItsOwnDid

-----------------------------------------------------------------------------
(* The per-DID cap.  A handler gets past it either below the quota or by an   *)
(* eviction; the eviction frees a slot of the same DID, by OwnInv, unless the *)
(* victim was gone, which lost counts.                                        *)

\* Where a handler is that got past enforce_per_did_cap.
PastPerDid == {"token", "insert"}

\* The bound for one DID.
DidCap(d) == Cardinality(SessionsFor(d)) + Cardinality(AdmittedFor(d)) + 1
                <= MaxPerDid + Cardinality(Threads) + lost[d]

\* The sessions of a DID and the handlers admitted for it are finite sets.
LEMMA DidFinite ==
    ASSUME TypeInv, NEW d \in Dids
    PROVE  /\ IsFiniteSet(SessionsFor(d)) /\ Cardinality(SessionsFor(d)) \in Nat
           /\ IsFiniteSet(AdmittedFor(d)) /\ Cardinality(AdmittedFor(d)) \in Nat
           /\ Cardinality(AdmittedFor(d)) <= Cardinality(Threads)
           /\ Cardinality(Threads) \in Nat /\ lost[d] \in Nat /\ MaxPerDid \in Nat
<1>1. SessionsFor(d) \subseteq sessions /\ AdmittedFor(d) \subseteq Threads
  BY DEF SessionsFor, AdmittedFor
<1>2. IsFiniteSet(sessions) /\ IsFiniteSet(Threads) /\ MaxPerDid \in Nat
  BY SessionAssumptions DEF TypeInv, LocalsOK
<1>3. lost[d] \in Nat
  BY DEF TypeInv, TypeOK
<1> QED
  BY <1>1, <1>2, <1>3, FS_Subset, FS_CardinalityType

\* With no more sessions and no more admissions the bound stays.
LEMMA DidCapStable ==
    ASSUME TypeInv, NEW d \in Dids, DidCap(d), TypeInv',
           SessionsFor(d)' \subseteq SessionsFor(d),
           AdmittedFor(d)' \subseteq AdmittedFor(d),
           lost'[d] >= lost[d]
    PROVE  DidCap(d)'
<1>1. /\ Cardinality(SessionsFor(d)') \in Nat /\ Cardinality(AdmittedFor(d)') \in Nat
      /\ Cardinality(SessionsFor(d)') <= Cardinality(SessionsFor(d))
      /\ Cardinality(AdmittedFor(d)') <= Cardinality(AdmittedFor(d))
  BY DidFinite, FS_Subset, FS_CardinalityType
<1>2. lost'[d] \in Nat
  BY DEF TypeInv, TypeOK
<1> QED
  BY <1>1, <1>2, DidFinite DEF DidCap

\* At any time a DID has at most the quota, plus the handlers less one, plus the
\* evictions that freed nothing, of sessions stored and about to be stored
\* (enforce_per_did_cap, session.rs:146-165), for any number of handlers.
THEOREM PerDidCapHolds == Spec => []PerDidCapUpToLostEvictions
<1>1. Init => PerDidCapUpToLostEvictions
  <2> SUFFICES ASSUME Init, NEW d \in Dids PROVE DidCap(d)
    BY DEF PerDidCapUpToLostEvictions, DidCap
  <2>1. SessionsFor(d) = {} /\ AdmittedFor(d) = {} /\ lost[d] = 0
    BY DEF Init, SessionsFor, AdmittedFor, Procs
  <2>2. Cardinality(SessionsFor(d)) = 0 /\ Cardinality(AdmittedFor(d)) = 0
    BY <2>1, FS_EmptySet
  <2>3. Cardinality(Threads) \in Nat /\ Cardinality(Threads) # 0
    BY SessionAssumptions, FS_CardinalityType, FS_EmptySet
  <2> QED
    BY <2>1, <2>2, <2>3, SessionAssumptions DEF DidCap
<1>2. TypeInv /\ OwnInv /\ PerDidCapUpToLostEvictions /\ [Next]_vars /\ TypeInv'
        => PerDidCapUpToLostEvictions'
  <2> SUFFICES ASSUME TypeInv, OwnInv, PerDidCapUpToLostEvictions, [Next]_vars, TypeInv',
                      NEW d \in Dids
               PROVE  DidCap(d)'
    BY DEF PerDidCapUpToLostEvictions, DidCap
  <2> USE DEF HistoryUnchanged
  <2>0. /\ Threads \subseteq Procs /\ Sweepers \subseteq Procs
        /\ Threads \cap Sweepers = {} /\ NoToken \notin Tokens
        /\ \A p \in Procs : frame[p] \in Frame /\ pc[p] \in Labels
        /\ sessions \subseteq Session
        /\ lost[d] \in Nat /\ lost[d] >= lost[d]
    BY SessionAssumptions DEF Procs, TypeInv, TypeOK, NoToken
  <2>a. DidCap(d)
    BY DEF PerDidCapUpToLostEvictions, DidCap
  <2>b. ASSUME NEW p \in Procs, NEW r, frame' = [frame EXCEPT ![p] = r]
        PROVE  (\A q \in Procs \ {p} : frame'[q] = frame[q]) /\ frame'[p] = r
    BY <2>b DEF TypeInv, TypeOK
  <2>c. ASSUME NEW p \in Procs, NEW label, Goto(p, label)
        PROVE  pc'[p] = label /\ \A q \in Procs \ {p} : pc'[q] = pc[q]
    BY <2>c DEF Goto, TypeInv, TypeOK
  \* A step that admits nobody and stores nothing.
  <2>d. ASSUME NEW p \in Procs, NEW label, Goto(p, label),
               p \notin Threads \/ label \notin PastPerDid,
               \A q \in Procs \ {p} : frame'[q] = frame[q],
               sessions' \subseteq sessions, lost' = lost
        PROVE  DidCap(d)'
    <3>1. AdmittedFor(d)' \subseteq AdmittedFor(d)
      BY <2>0, <2>c, <2>d DEF AdmittedFor, PastPerDid
    <3>2. SessionsFor(d)' \subseteq SessionsFor(d)
      BY <2>d DEF SessionsFor
    <3> QED
      BY <2>0, <2>a, <2>d, <3>1, <3>2, DidCapStable
  <2>1. ASSUME NEW t \in Threads, NEW e \in Dids, StartCreate(t, e) PROVE DidCap(d)'
    <3>1. PICK label \in {"purge", "quota"} : Goto(t, label)
      BY <2>1 DEF StartCreate
    <3>2. \A q \in Procs \ {t} : frame'[q] = frame[q]
      BY <2>0, <2>1, <2>b DEF StartCreate
    <3> QED
      BY <2>0, <2>1, <2>d, <3>1, <3>2 DEF StartCreate, PastPerDid
  <2>2. ASSUME NEW t \in Threads, Recheck(t) PROVE DidCap(d)'
    <3>1. PICK label \in {"idle", "quota"} : Goto(t, label)
      BY <2>2 DEF Recheck, Return
    <3>2. \A q \in Procs \ {t} : frame'[q] = frame[q]
      BY <2>0, <2>2, <2>b DEF Recheck, Return
    <3> QED
      BY <2>0, <2>2, <2>d, <3>1, <3>2 DEF Recheck, PastPerDid
  <2>3. ASSUME NEW t \in Threads, Quota(t) PROVE DidCap(d)'
    <3>0. sessions' = sessions /\ lost' = lost
      BY <2>3 DEF Quota
    <3>1. CASE Cardinality(SessionsFor(frame[t].did)) < MaxPerDid
      <4>1. Goto(t, "token") /\ frame' = frame
        BY <2>3, <3>1 DEF Quota
      <4>2. SessionsFor(d)' = SessionsFor(d)
        BY <3>0 DEF SessionsFor
      <4>3. CASE frame[t].did = d
        <5>1. Cardinality(SessionsFor(d)') + 1 <= MaxPerDid
          BY <3>1, <4>2, <4>3, DidFinite
        <5>2. /\ Cardinality(AdmittedFor(d)') <= Cardinality(Threads)
              /\ Cardinality(AdmittedFor(d)') \in Nat /\ Cardinality(Threads) \in Nat
          <6>1. AdmittedFor(d)' \subseteq Threads /\ IsFiniteSet(Threads)
            BY SessionAssumptions DEF AdmittedFor
          <6> QED
            BY <6>1, FS_Subset, FS_CardinalityType
        <5>3. Cardinality(SessionsFor(d)') \in Nat
          BY <4>2, DidFinite
        <5> QED
          BY <2>0, <3>0, <5>1, <5>2, <5>3, SessionAssumptions DEF DidCap
      <4>4. CASE frame[t].did # d
        <5>1. AdmittedFor(d)' \subseteq AdmittedFor(d)
          BY <2>0, <2>c, <4>1, <4>4 DEF AdmittedFor
        <5> QED
          BY <2>0, <2>a, <3>0, <4>2, <5>1, DidCapStable
      <4> QED
        BY <4>3, <4>4
    <3>2. CASE ~(Cardinality(SessionsFor(frame[t].did)) < MaxPerDid)
      <4>1. Goto(t, "evict")
        BY <2>3, <3>2 DEF Quota
      <4>2. \A q \in Procs \ {t} : frame'[q] = frame[q]
        BY <2>0, <2>3, <2>b DEF Quota
      <4> QED
        BY <2>0, <2>d, <3>0, <4>1, <4>2 DEF PastPerDid
    <3> QED
      BY <3>1, <3>2
  <2>4. ASSUME NEW t \in Threads, EvictOwn(t) PROVE DidCap(d)'
    <3> DEFINE k == frame[t].token
    <3>1. /\ pc[t] = "evict" /\ Goto(t, "token") /\ sessions' = Without(k)
          /\ lost' = IF k \in StoredTokens THEN lost
                     ELSE [lost EXCEPT ![frame[t].did] = @ + 1]
      BY <2>4 DEF EvictOwn
    <3>2. frame'[t].did = frame[t].did /\ \A q \in Procs \ {t} : frame'[q] = frame[q]
      <4> DEFINE r == [frame[t] EXCEPT !.token = NoToken]
      <4>1. r.did = frame[t].did
        BY <2>0 DEF Frame
      <4>2. frame' = [frame EXCEPT ![t] = r]
        BY <2>4 DEF EvictOwn
      <4> HIDE DEF r
      <4> QED
        BY <2>0, <2>b, <4>1, <4>2
    <3>3. SessionsFor(d)' \subseteq SessionsFor(d)
      BY <3>1 DEF SessionsFor, Without
    <3>4. lost \in [Dids -> Nat]
      BY DEF TypeInv, TypeOK
    <3>5. CASE frame[t].did # d
      <4>1. AdmittedFor(d)' \subseteq AdmittedFor(d)
        BY <2>0, <2>c, <3>1, <3>2, <3>5 DEF AdmittedFor
      <4>2. lost'[d] = lost[d]
        BY <3>1, <3>4, <3>5
      <4> QED
        BY <2>0, <2>a, <3>3, <4>1, <4>2, DidCapStable
    <3>6. CASE frame[t].did = d
      <4>1. AdmittedFor(d)' = AdmittedFor(d) \cup {t}
        BY <2>0, <2>c, <3>1, <3>2, <3>6 DEF AdmittedFor
      <4>2. /\ Cardinality(AdmittedFor(d)') <= Cardinality(AdmittedFor(d)) + 1
            /\ Cardinality(AdmittedFor(d)') \in Nat
        <5>1. IsFiniteSet(AdmittedFor(d)')
          BY <4>1, DidFinite, FS_AddElement
        <5>2. Cardinality(AdmittedFor(d)') \in
                {Cardinality(AdmittedFor(d)), Cardinality(AdmittedFor(d)) + 1}
          BY <4>1, DidFinite, FS_AddElement
        <5> QED
          BY <5>1, <5>2, DidFinite, FS_CardinalityType
      <4>3. /\ Cardinality(SessionsFor(d)') \in Nat
            /\ Cardinality(SessionsFor(d)') <= Cardinality(SessionsFor(d))
            /\ SessionsFor(d)' # SessionsFor(d)
                 => Cardinality(SessionsFor(d)') + 1 <= Cardinality(SessionsFor(d))
        BY <3>3, FS_Subset, FS_CardinalityType, DidFinite
      <4>4. CASE k \in StoredTokens
        <5>1. PICK s \in sessions : s.token = k
          BY <4>4 DEF StoredTokens
        <5>2. s.token \in Known(t) /\ KnowsOwn(t)
          BY <2>0, <3>1, <5>1 DEF Known, Session, OwnInv, Inserting
        <5>3. s \in SessionsFor(d) /\ s \notin SessionsFor(d)'
          BY <3>1, <3>6, <5>1, <5>2 DEF KnowsOwn, SessionsFor, Without
        <5>4. lost' = lost
          BY <3>1, <4>4
        <5> QED
          BY <2>a, <4>2, <4>3, <5>3, <5>4, DidFinite DEF DidCap
      <4>5. CASE k \notin StoredTokens
        <5>1. lost'[d] = lost[d] + 1
          BY <3>1, <3>4, <3>6, <4>5
        <5> QED
          BY <2>a, <4>2, <4>3, <5>1, DidFinite DEF DidCap
      <4> QED
        BY <4>4, <4>5
    <3> QED
      BY <3>5, <3>6
  <2>5. ASSUME NEW t \in Threads, NEW k \in Tokens, DrawToken(t, k) PROVE DidCap(d)'
    <3>1. frame'[t].did = frame[t].did /\ \A q \in Procs \ {t} : frame'[q] = frame[q]
      <4> DEFINE r == [frame[t] EXCEPT !.token = k, !.now = clock]
      <4>1. r.did = frame[t].did
        BY <2>0 DEF Frame
      <4>2. frame' = [frame EXCEPT ![t] = r]
        BY <2>5 DEF DrawToken
      <4> HIDE DEF r
      <4> QED
        BY <2>0, <2>b, <4>1, <4>2
    <3>2. pc[t] = "token" /\ Goto(t, "insert") /\ sessions' = sessions /\ lost' = lost
      BY <2>5 DEF DrawToken
    <3>3. AdmittedFor(d)' \subseteq AdmittedFor(d)
      BY <2>0, <2>c, <3>1, <3>2 DEF AdmittedFor
    <3>4. SessionsFor(d)' \subseteq SessionsFor(d)
      BY <3>2 DEF SessionsFor
    <3> QED
      BY <2>0, <2>a, <3>2, <3>3, <3>4, DidCapStable
  <2>6. ASSUME NEW t \in Threads, Insert(t) PROVE DidCap(d)'
    <3> DEFINE new == [did |-> frame[t].did, token |-> frame[t].token,
                       valid_until |-> frame[t].now + Ttl, created_at |-> frame[t].now]
               kept == {s \in Without(frame[t].token) : s.did = d}
    <3>1. sessions' = Without(frame[t].token) \cup {new} /\ new.did = frame[t].did
      BY <2>6 DEF Insert
    <3> HIDE DEF new
    <3>2. kept \subseteq SessionsFor(d)
      BY DEF SessionsFor, Without
    <3>3. /\ frame[t].did = d => SessionsFor(d)' = kept \cup {new}
          /\ frame[t].did # d => SessionsFor(d)' = kept
      BY <3>1 DEF SessionsFor
    <3> HIDE DEF kept
    <3>4. pc[t] = "insert" /\ pc'[t] = "idle" /\ \A q \in Procs \ {t} : pc'[q] = pc[q]
      BY <2>0, <2>6, <2>c DEF Insert, Return
    <3>5. lost' = lost /\ \A q \in Procs \ {t} : frame'[q] = frame[q]
      BY <2>0, <2>6, <2>b DEF Insert, Return
    <3>6. CASE frame[t].did # d
      <4>1. AdmittedFor(d)' \subseteq AdmittedFor(d)
        BY <2>0, <3>4, <3>5 DEF AdmittedFor
      <4> QED
        BY <2>0, <2>a, <3>2, <3>3, <3>5, <3>6, <4>1, DidCapStable
    <3>7. CASE frame[t].did = d
      <4>1. t \in AdmittedFor(d) /\ AdmittedFor(d)' = AdmittedFor(d) \ {t}
        BY <2>0, <3>4, <3>5, <3>7 DEF AdmittedFor
      <4>2. /\ Cardinality(AdmittedFor(d)') = Cardinality(AdmittedFor(d)) - 1
            /\ Cardinality(AdmittedFor(d)') \in Nat
        <5>1. IsFiniteSet(AdmittedFor(d)')
          BY <4>1, DidFinite, FS_RemoveElement
        <5> QED
          BY <4>1, <5>1, DidFinite, FS_RemoveElement, FS_CardinalityType
      <4>3. /\ Cardinality(SessionsFor(d)') <= Cardinality(SessionsFor(d)) + 1
            /\ Cardinality(SessionsFor(d)') \in Nat
        <5>1. /\ IsFiniteSet(kept) /\ Cardinality(kept) \in Nat
              /\ Cardinality(kept) <= Cardinality(SessionsFor(d))
          BY <3>2, DidFinite, FS_Subset, FS_CardinalityType
        <5>2. /\ IsFiniteSet(SessionsFor(d)')
              /\ Cardinality(SessionsFor(d)') <= Cardinality(kept) + 1
          BY <3>3, <3>7, <5>1, FS_AddElement
        <5> QED
          BY <5>1, <5>2, DidFinite, FS_CardinalityType
      <4> QED
        BY <2>a, <3>5, <4>2, <4>3, DidFinite DEF DidCap
    <3> QED
      BY <3>6, <3>7
  <2>7. ASSUME NEW t \in Threads, InsertFails(t) PROVE DidCap(d)'
    BY <2>0, <2>7, <2>b, <2>d DEF InsertFails, Return, PastPerDid
  <2>8. ASSUME NEW p \in Procs, Cleanup(p) PROVE DidCap(d)'
    <3>1. PICK label : Goto(p, label) /\ label \notin PastPerDid
      <4>1. CASE Purge(p)
        BY <4>1 DEF Purge, PastPerDid
      <4>2. CASE Retain(p)
        BY <4>2 DEF Retain, PastPerDid
      <4>3. CASE Subtract(p)
        BY <4>3 DEF Subtract, PastPerDid
      <4> QED
        BY <2>8, <4>1, <4>2, <4>3 DEF Cleanup
    <3>2. \A q \in Procs \ {p} : frame'[q] = frame[q]
      BY <2>8, <2>b DEF Cleanup, Purge, Retain, Subtract
    <3>3. sessions' \subseteq sessions /\ lost' = lost
      BY <2>8 DEF Cleanup, Purge, Retain, Subtract
    <3> QED
      BY <2>d, <3>1, <3>2, <3>3
  <2>9. ASSUME NEW t \in Threads, NEW k \in Tokens, Revoke(t, k) PROVE DidCap(d)'
    <3>1. /\ Goto(t, "idle") /\ frame' = frame /\ sessions' \subseteq sessions
          /\ lost' = lost
      BY <2>0, <2>9 DEF Revoke, Goto, Without, TypeInv, TypeOK
    <3> QED
      BY <2>0, <2>d, <3>1 DEF PastPerDid
  <2>10. ASSUME NEW t \in Threads, NEW e \in Dids, StartRevokeAll(t, e) PROVE DidCap(d)'
    <3>1. \A q \in Procs \ {t} : frame'[q] = frame[q]
      BY <2>0, <2>10, <2>b DEF StartRevokeAll
    <3> QED
      BY <2>0, <2>10, <2>d, <3>1 DEF StartRevokeAll, PastPerDid
  <2>11. ASSUME NEW t \in Threads, NEW k \in Tokens, RevokeNext(t, k) PROVE DidCap(d)'
    <3>1. Goto(t, "revoking") /\ sessions' \subseteq sessions /\ lost' = lost
      BY <2>0, <2>11 DEF RevokeNext, Goto, Without, TypeInv, TypeOK
    <3>2. \A q \in Procs \ {t} : frame'[q] = frame[q]
      BY <2>0, <2>11, <2>b DEF RevokeNext
    <3> QED
      BY <2>0, <2>d, <3>1, <3>2 DEF PastPerDid
  <2>12. ASSUME NEW t \in Threads, EndRevokeAll(t) PROVE DidCap(d)'
    BY <2>0, <2>12, <2>b, <2>d DEF EndRevokeAll, Return, PastPerDid
  <2>13. ASSUME NEW t \in Threads, NEW s \in sessions, ValidateGet(t, s) PROVE DidCap(d)'
    <3>1. \A q \in Procs \ {t} : frame'[q] = frame[q]
      BY <2>0, <2>13, <2>b DEF ValidateGet
    <3> QED
      BY <2>0, <2>13, <2>d, <3>1 DEF ValidateGet, PastPerDid
  <2>14. ASSUME NEW t \in Threads, ValidateCheck(t) PROVE DidCap(d)'
    <3>1. PICK label \in {"remove", "idle"} : Goto(t, label)
      BY <2>14 DEF ValidateCheck, Return
    <3>2. \A q \in Procs \ {t} : frame'[q] = frame[q]
      BY <2>0, <2>14, <2>b DEF ValidateCheck, Return
    <3> QED
      BY <2>0, <2>14, <2>d, <3>1, <3>2 DEF ValidateCheck, PastPerDid
  <2>15. ASSUME NEW t \in Threads, ValidateRemove(t) PROVE DidCap(d)'
    BY <2>0, <2>15, <2>b, <2>d DEF ValidateRemove, Return, Without, PastPerDid
  <2>16. ASSUME NEW w \in Sweepers, StartSweeper(w) \/ SweepTick(w) \/ SweepCount(w)
         PROVE  DidCap(d)'
    <3>1. /\ w \notin Threads /\ \E label : Goto(w, label)
          /\ frame' = frame /\ sessions' = sessions /\ lost' = lost
      BY <2>0, <2>16 DEF StartSweeper, SweepTick, SweepCount
    <3> QED
      BY <2>0, <2>d, <3>1
  <2>17. CASE DropStore \/ Tick \/ UNCHANGED vars
    <3>1. UNCHANGED <<sessions, pc, frame, lost>>
      BY <2>17 DEF DropStore, Tick, vars
    <3> QED
      BY <2>a, <3>1 DEF DidCap, SessionsFor, AdmittedFor
  <2>18. CASE Finished
    BY <2>17, <2>18 DEF Finished
  <2>19. ASSUME NEW t \in Threads, Handle(t) PROVE DidCap(d)'
    BY <2>0, <2>1, <2>2, <2>3, <2>4, <2>5, <2>6, <2>7, <2>8, <2>9, <2>10, <2>11,
       <2>12, <2>13, <2>14, <2>15, <2>19 DEF Handle
  <2> QED
    BY <2>0, <2>8, <2>16, <2>17, <2>18, <2>19 DEF Next, Sweep
<1> QED
  BY <1>1, <1>2, TypeCorrect, OwnInvHolds, PTL DEF Spec, TypeInv
=============================================================================
