------------------------- MODULE ReplayGuardProofs --------------------------
(* Theorems about ReplayGuard, for every set of threads and requests, every   *)
(* capacity, every clock skew and every validity.                             *)
EXTENDS ReplayGuard, FiniteSetTheorems, TLAPS

\* The frame of an idle thread is a frame, and the absent request none of those
\* that arrive.
LEMMA NoFrameType == NoFrame \in Frame /\ NoRequest \notin Requests
<1>1. NoFrame \in Frame
  BY DEF NoFrame, Frame
<1>2. NoRequest.nonce = 0
  BY DEF NoRequest, NoNonce
<1>3. \A r \in Requests : r.nonce # 0
  BY ReplayAssumptions DEF Request
<1> QED
  BY <1>1, <1>2, <1>3

\* A request that arrives carries a nonce and an expiry.
LEMMA RequestType ==
    ASSUME NEW r \in Requests
    PROVE  r.nonce \in Nonces /\ r.expires \in Nat
BY ReplayAssumptions DEF Nonces, Request

\* TypeOK is not inductive: what Record stores is well typed only because a
\* thread that got that far is verifying a request.
Verifying == {"contains", "room", "recheck", "scan", "evict", "record"}
LocalsOK == \A t \in Threads : pc[t] \in Verifying => frame[t].request \in Requests

\* Every step that moves a thread gives it a label and a well typed frame.
LEMMA StepType ==
    ASSUME TypeOK, LocalsOK, NEW t \in Threads, NEW label \in Labels, NEW r \in Frame,
           Goto(t, label), frame' = [frame EXCEPT ![t] = r],
           label \in Verifying => r.request \in Requests
    PROVE  /\ pc' \in [Threads -> Labels]
           /\ frame' \in [Threads -> Frame]
           /\ LocalsOK'
BY DEF TypeOK, LocalsOK, Goto

\* Every reachable state of the guard is well typed, and a thread past the
\* stateless checks is verifying a request that arrived.
THEOREM TypeCorrect == Spec => [](TypeOK /\ LocalsOK)
<1> DEFINE Control == pc' \in [Threads -> Labels] /\ frame' \in [Threads -> Frame] /\ LocalsOK'
<1>1. Init => TypeOK /\ LocalsOK
  <2> SUFFICES ASSUME Init PROVE TypeOK /\ LocalsOK
    OBVIOUS
  <2>1. pc \in [Threads -> Labels] /\ LocalsOK
    BY DEF Init, Labels, LocalsOK, Verifying
  <2>2. frame \in [Threads -> Frame]
    BY NoFrameType DEF Init
  <2>3. accepted \in [Nonces -> Nat] /\ until \in [Nonces -> Nat]
    BY DEF Init
  <2> QED
    BY <2>1, <2>2, <2>3 DEF Init, TypeOK
<1>2. TypeOK /\ LocalsOK /\ [Next]_vars => TypeOK' /\ LocalsOK'
  <2> SUFFICES ASSUME TypeOK, LocalsOK, [Next]_vars PROVE TypeOK' /\ LocalsOK'
    OBVIOUS
  <2>1. ASSUME NEW t \in Threads, NEW q \in Requests, StartVerify(t, q)
        PROVE  TypeOK' /\ LocalsOK'
    <3> DEFINE r == [NoFrame EXCEPT !.request = q, !.now = clock]
    <3>1. r \in Frame /\ r.request \in Requests
      BY DEF NoFrame, Frame, TypeOK
    <3> HIDE DEF r
    <3>2. Control
      BY <2>1, <3>1, StepType DEF StartVerify, Labels, r
    <3> QED
      BY <2>1, <3>2 DEF StartVerify, TypeOK
  <2>2. ASSUME NEW t \in Threads, StartCleanup(t) PROVE TypeOK' /\ LocalsOK'
    <3> DEFINE r == [NoFrame EXCEPT !.now = clock]
    <3>1. r \in Frame
      BY DEF NoFrame, Frame, TypeOK
    <3> HIDE DEF r
    <3>2. Control
      BY <2>2, <3>1, StepType DEF StartCleanup, Labels, Verifying, r
    <3> QED
      BY <2>2, <3>2 DEF StartCleanup, HistoryUnchanged, TypeOK
  <2>3. ASSUME NEW t \in Threads, Contains(t) PROVE TypeOK' /\ LocalsOK'
    <3>1. CASE Return(t)
      <4>1. Control
        BY <3>1, NoFrameType, StepType DEF Return, Labels, Verifying
      <4> QED
        BY <2>3, <4>1 DEF Contains, HistoryUnchanged, TypeOK
    <3>2. CASE Goto(t, "room") /\ UNCHANGED frame
      BY <2>3, <3>2
      DEF Contains, HistoryUnchanged, Goto, Labels, Verifying, TypeOK, LocalsOK
    <3> QED
      BY <2>3, <3>1, <3>2 DEF Contains
  <2>4. ASSUME NEW t \in Threads, Room(t) PROVE TypeOK' /\ LocalsOK'
    BY <2>4 DEF Room, HistoryUnchanged, Goto, Labels, Verifying, TypeOK, LocalsOK
  <2>5. ASSUME NEW t \in Threads, Purge(t) PROVE TypeOK' /\ LocalsOK'
    <3>1. seen' \subseteq Entry
      BY <2>5 DEF Purge, TypeOK
    <3>2. CASE Return(t)
      <4>1. Control
        BY <3>2, NoFrameType, StepType DEF Return, Labels, Verifying
      <4> QED
        BY <2>5, <3>1, <4>1 DEF Purge, HistoryUnchanged, TypeOK
    <3>3. CASE frame[t].request # NoRequest
      <4>1. frame[t].request \in Requests
        BY <3>3 DEF TypeOK, Frame
      <4>2. Control
        BY <2>5, <3>3, <4>1 DEF Purge, Goto, Labels, Verifying, TypeOK, LocalsOK
      <4> QED
        BY <2>5, <3>1, <4>2 DEF Purge, HistoryUnchanged, TypeOK
    <3> QED
      BY <2>5, <3>2, <3>3 DEF Purge
  <2>6. ASSUME NEW t \in Threads, Recheck(t) PROVE TypeOK' /\ LocalsOK'
    BY <2>6 DEF Recheck, HistoryUnchanged, Goto, Labels, Verifying, TypeOK, LocalsOK
  <2>7. ASSUME NEW t \in Threads, Scan(t) PROVE TypeOK' /\ LocalsOK'
    <3>1. CASE UNCHANGED frame
      BY <2>7, <3>1 DEF Scan, HistoryUnchanged, Goto, Labels, Verifying, TypeOK, LocalsOK
    <3>2. ASSUME NEW e \in seen, frame' = [frame EXCEPT ![t].victim = e.nonce]
          PROVE  TypeOK' /\ LocalsOK'
      <4> DEFINE r == [frame[t] EXCEPT !.victim = e.nonce]
      <4>1. r \in Frame /\ r.request \in Requests
        BY <2>7 DEF Scan, Frame, Entry, TypeOK, LocalsOK, Verifying
      <4>2. frame' = [frame EXCEPT ![t] = r]
        BY <3>2
      <4> HIDE DEF r
      <4>3. Control
        BY <2>7, <4>1, <4>2, StepType DEF Scan, Labels
      <4> QED
        BY <2>7, <4>3 DEF Scan, HistoryUnchanged, TypeOK
    <3> QED
      BY <2>7, <3>1, <3>2 DEF Scan
  <2>8. ASSUME NEW t \in Threads, Evict(t) PROVE TypeOK' /\ LocalsOK'
    <3> DEFINE r == [frame[t] EXCEPT !.victim = NoNonce]
    <3>1. r \in Frame /\ r.request \in Requests
      BY <2>8 DEF Evict, Frame, TypeOK, LocalsOK, Verifying
    <3>2. frame' = [frame EXCEPT ![t] = r]
      BY <2>8 DEF Evict
    <3> HIDE DEF r
    <3>3. Control
      BY <2>8, <3>1, <3>2, StepType DEF Evict, Labels
    <3>4. seen' \subseteq Entry /\ lost' \in Nat
      BY <2>8 DEF Evict, TypeOK
    <3>5. evicted' \subseteq Nonces
      BY <2>8 DEF Evict, SeenNonces, Entry, TypeOK
    <3> QED
      BY <2>8, <3>3, <3>4, <3>5 DEF Evict, TypeOK
  <2>9. ASSUME NEW t \in Threads, Record(t) PROVE TypeOK' /\ LocalsOK'
    <3>1. Control
      BY <2>9, NoFrameType, StepType DEF Record, Return, Labels, Verifying
    <3>2. PICK q \in Requests : q = frame[t].request
      BY <2>9 DEF Record, LocalsOK, Verifying
    <3>3. q.nonce \in Nonces /\ q.expires \in Nat
      BY RequestType
    <3>4. seen' \subseteq Entry
      BY <2>9, <3>2, <3>3 DEF Record, Entry, TypeOK
    <3>5. accepted' \in [Nonces -> Nat] /\ until' \in [Nonces -> Nat]
      BY <2>9, <3>2, <3>3 DEF Record, TypeOK
    <3> QED
      BY <2>9, <3>1, <3>4, <3>5 DEF Record, TypeOK
  <2>10. CASE Tick
    BY <2>10 DEF Tick, HistoryUnchanged, TypeOK, LocalsOK
  <2>11. CASE UNCHANGED vars
    BY <2>11 DEF vars, TypeOK, LocalsOK
  <2> QED
    BY <2>1, <2>2, <2>3, <2>4, <2>5, <2>6, <2>7, <2>8, <2>9, <2>10, <2>11
    DEF Next, Step
<1> QED
  BY <1>1, <1>2, PTL DEF Spec

-----------------------------------------------------------------------------
(* Single use while it matters.  A purge forgets only what has expired by the *)
(* clock it uses, and that clock was read in the past.                        *)

ClocksPast == \A t \in Threads : frame[t].now <= clock

MemoryInv == ClocksPast /\ RememberedWhileLive

\* A step that forgets nothing and honours nothing keeps what is remembered.
LEMMA MemoryStable ==
    ASSUME TypeOK, TypeOK', MemoryInv,
           \A t \in Threads : frame'[t].now \in {frame[t].now, clock, 0},
           clock' = clock, accepted' = accepted, until' = until,
           evicted \subseteq evicted',
           \A e \in seen \ seen' : e.nonce \in evicted' \/ e.expires_at <= clock
    PROVE  MemoryInv'
<1>1. ClocksPast'
  BY DEF MemoryInv, ClocksPast, TypeOK
<1>2. RememberedWhileLive'
  <2> SUFFICES ASSUME NEW n \in Nonces, accepted[n] > 0
               PROVE  \/ [nonce |-> n, expires_at |-> until[n]] \in seen'
                      \/ n \in evicted'
                      \/ until[n] <= clock
    BY DEF RememberedWhileLive
  <2> DEFINE e == [nonce |-> n, expires_at |-> until[n]]
  <2>1. e.nonce = n /\ e.expires_at = until[n]
    OBVIOUS
  <2>2. e \in seen \/ n \in evicted \/ until[n] <= clock
    BY DEF MemoryInv, RememberedWhileLive
  <2> HIDE DEF e
  <2>3. e \in seen' \/ n \in evicted' \/ until[n] <= clock
    BY <2>1, <2>2
  <2> QED
    BY <2>3 DEF e
<1> QED
  BY <1>1, <1>2 DEF MemoryInv

\* Every step keeps the clocks in the past and the honoured nonces remembered.
LEMMA MemoryStep == TypeOK /\ TypeOK' /\ LocalsOK /\ MemoryInv /\ [Next]_vars => MemoryInv'
<1> SUFFICES ASSUME TypeOK, TypeOK', LocalsOK, MemoryInv, [Next]_vars PROVE MemoryInv'
  OBVIOUS
<1> DEFINE ClockKept == \A t \in Threads : frame'[t].now \in {frame[t].now, clock, 0}
<1>0. ASSUME NEW t \in Threads, NEW r \in Frame, r.now \in {frame[t].now, clock, 0},
             frame' = [frame EXCEPT ![t] = r]
      PROVE  ClockKept
  BY <1>0 DEF TypeOK
<1>1. ASSUME NEW t \in Threads, NEW q \in Requests, StartVerify(t, q) PROVE MemoryInv'
  <2> DEFINE r == [NoFrame EXCEPT !.request = q, !.now = clock]
  <2>1. r \in Frame /\ r.now = clock
    BY DEF NoFrame, Frame, TypeOK
  <2> HIDE DEF r
  <2>2. ClockKept
    BY <1>0, <1>1, <2>1 DEF StartVerify, r
  <2> QED
    BY <1>1, <2>2, MemoryStable DEF StartVerify
<1>2. ASSUME NEW t \in Threads, StartCleanup(t) PROVE MemoryInv'
  <2> DEFINE r == [NoFrame EXCEPT !.now = clock]
  <2>1. r \in Frame /\ r.now = clock
    BY DEF NoFrame, Frame, TypeOK
  <2> HIDE DEF r
  <2>2. ClockKept
    BY <1>0, <1>2, <2>1 DEF StartCleanup, r
  <2> QED
    BY <1>2, <2>2, MemoryStable DEF StartCleanup, HistoryUnchanged
<1>3. ASSUME NEW t \in Threads, Return(t) PROVE ClockKept
  BY <1>0, <1>3, NoFrameType DEF Return, NoFrame
<1>4. ASSUME NEW t \in Threads, Contains(t) PROVE MemoryInv'
  <2>1. ClockKept
    BY <1>3, <1>4 DEF Contains
  <2> QED
    BY <1>4, <2>1, MemoryStable DEF Contains, HistoryUnchanged
<1>5. ASSUME NEW t \in Threads, Room(t) PROVE MemoryInv'
  BY <1>5, MemoryStable DEF Room, HistoryUnchanged
<1>6. ASSUME NEW t \in Threads, Purge(t) PROVE MemoryInv'
  <2>1. ClockKept
    BY <1>3, <1>6 DEF Purge
  <2>2. \A e \in seen \ seen' : e.expires_at <= clock
    <3>1. frame[t].now <= clock /\ frame[t].now \in Nat /\ clock \in Nat
      BY DEF MemoryInv, ClocksPast, TypeOK, Frame
    <3>2. \A e \in seen : e.expires_at \in Nat
      BY DEF TypeOK, Entry
    <3>3. \A e \in seen \ seen' : ~(e.expires_at > frame[t].now)
      BY <1>6 DEF Purge
    <3> QED
      BY <3>1, <3>2, <3>3
  <2> QED
    BY <1>6, <2>1, <2>2, MemoryStable DEF Purge, HistoryUnchanged
<1>7. ASSUME NEW t \in Threads, Recheck(t) PROVE MemoryInv'
  BY <1>7, MemoryStable DEF Recheck, HistoryUnchanged
<1>8. ASSUME NEW t \in Threads, Scan(t) PROVE MemoryInv'
  <2>1. ClockKept
    BY <1>8 DEF Scan, TypeOK, Frame
  <2> QED
    BY <1>8, <2>1, MemoryStable DEF Scan, HistoryUnchanged
<1>9. ASSUME NEW t \in Threads, Evict(t) PROVE MemoryInv'
  <2>1. ClockKept
    BY <1>9 DEF Evict, TypeOK, Frame
  <2>2. evicted \subseteq evicted' /\ \A e \in seen \ seen' : e.nonce \in evicted'
    BY <1>9 DEF Evict, SeenNonces
  <2> QED
    BY <1>9, <2>1, <2>2, MemoryStable DEF Evict
<1>10. ASSUME NEW t \in Threads, Record(t) PROVE MemoryInv'
  <2>1. ClockKept
    BY <1>3, <1>10 DEF Record
  <2>2. CASE UNCHANGED <<seen, accepted, until, evicted>>
    BY <1>10, <2>1, <2>2, MemoryStable DEF Record
  <2>3. CASE frame[t].request.nonce \notin SeenNonces
    <3>1. PICK q \in Requests : q = frame[t].request
      BY <1>10 DEF Record, LocalsOK, Verifying
    <3>2. PICK m \in Nonces : m = q.nonce
      BY RequestType
    <3>3. /\ seen' = seen \cup {[nonce |-> m, expires_at |-> q.expires]}
          /\ accepted' = [accepted EXCEPT ![m] = @ + 1]
          /\ until' = [until EXCEPT ![m] = q.expires]
          /\ evicted' = evicted \ {m} /\ clock' = clock
      BY <1>10, <2>3, <3>1, <3>2 DEF Record
    <3>4. ClocksPast'
      BY <2>1, <3>3 DEF MemoryInv, ClocksPast, TypeOK
    <3>5. RememberedWhileLive'
      <4> SUFFICES ASSUME NEW n \in Nonces, accepted'[n] > 0
                   PROVE  \/ [nonce |-> n, expires_at |-> until'[n]] \in seen'
                          \/ n \in evicted'
                          \/ until'[n] <= clock'
        BY DEF RememberedWhileLive
      <4>1. CASE n = m
        <5>1. until'[n] = q.expires
          BY <3>3, <4>1 DEF TypeOK
        <5> QED
          BY <3>3, <4>1, <5>1
      <4>2. CASE n # m
        <5>1. until'[n] = until[n] /\ accepted'[n] = accepted[n]
          BY <3>3, <4>2 DEF TypeOK
        <5>2. \/ [nonce |-> n, expires_at |-> until[n]] \in seen
              \/ n \in evicted
              \/ until[n] <= clock
          BY <5>1 DEF MemoryInv, RememberedWhileLive
        <5> QED
          BY <3>3, <4>2, <5>1, <5>2
      <4> QED
        BY <4>1, <4>2
    <3> QED
      BY <3>4, <3>5 DEF MemoryInv
  <2> QED
    BY <1>10, <2>2, <2>3 DEF Record
<1>11. CASE Tick
  BY <1>11 DEF Tick, HistoryUnchanged, MemoryInv, ClocksPast, RememberedWhileLive, TypeOK, Frame
<1>12. CASE UNCHANGED vars
  BY <1>12 DEF vars, MemoryInv, ClocksPast, RememberedWhileLive
<1> QED
  BY <1>1, <1>2, <1>4, <1>5, <1>6, <1>7, <1>8, <1>9, <1>10, <1>11, <1>12 DEF Next, Step

\* Before anything arrives no clock has been read and nothing honoured.
LEMMA MemoryInit == Init => MemoryInv
BY DEF Init, MemoryInv, ClocksPast, RememberedWhileLive, NoFrame

\* A nonce that was honoured is remembered until its signature expires unless
\* the full guard evicted it, for any capacity and any number of verifiers
\* (check_and_record_at, replay.rs:74-103).
THEOREM MemoryHolds == Spec => []RememberedWhileLive
BY MemoryInit, MemoryStep, TypeCorrect, PTL DEF Spec, MemoryInv

\* No interleaving of verifiers honours a nonce again unless its entry was evicted
\* since it was last honoured, by another presentation or by the one now honoured,
\* or the signature that carried it expired (check_and_record_at, replay.rs:74-103).
THEOREM NoReplay == Spec => HonouredAgainOnlyIfForgotten
<1>1. TypeOK /\ LocalsOK /\ MemoryInv /\ [Next]_vars
        => [\A n \in Nonces : accepted'[n] > accepted[n] /\ accepted[n] > 0
                => n \in evicted \/ until[n] <= clock]_vars
  <2> SUFFICES ASSUME TypeOK, LocalsOK, MemoryInv, Next,
                      NEW n \in Nonces, accepted'[n] > accepted[n], accepted[n] > 0
               PROVE  n \in evicted \/ until[n] <= clock
    OBVIOUS
  <2>1. accepted' # accepted
    BY DEF TypeOK
  <2>2. PICK t \in Threads : Record(t)
    BY <2>1 DEF Next, Tick, Step, StartVerify, StartCleanup, Contains, Room, Purge,
                Recheck, Scan, Evict, HistoryUnchanged
  <2>3. PICK q \in Requests : q = frame[t].request
    BY <2>2 DEF Record, LocalsOK, Verifying
  <2>4. q.nonce \in Nonces
    BY RequestType
  <2>5. accepted' = [accepted EXCEPT ![q.nonce] = @ + 1] /\ q.nonce \notin SeenNonces
    BY <2>1, <2>2, <2>3 DEF Record
  <2>6. n = q.nonce
    BY <2>4, <2>5 DEF TypeOK
  <2>7. [nonce |-> n, expires_at |-> until[n]] \notin seen
    BY <2>5, <2>6 DEF SeenNonces
  <2> QED
    BY <2>7 DEF MemoryInv, RememberedWhileLive
<1> QED
  BY <1>1, MemoryInit, MemoryStep, TypeCorrect, PTL DEF Spec, HonouredAgainOnlyIfForgotten

-----------------------------------------------------------------------------
(* Capacity.  As in the challenge store, a thread is admitted by a length     *)
(* below the cap, by an eviction that made room or by one counted as lost.    *)

CapacityInv == IsFiniteSet(seen) /\ CapacityUpToLostEvictions

\* What moving one thread does to the number of admitted ones.
LEMMA AdmittedMoves ==
    ASSUME TypeOK, NEW t \in Threads, NEW label, Goto(t, label)
    PROVE  /\ Cardinality(Admitted) \in Nat
           /\ Cardinality(Admitted') \in Nat
           /\ Cardinality(Threads) \in Nat
           /\ pc[t] # "record" /\ label = "record"
                => /\ Cardinality(Admitted') = Cardinality(Admitted) + 1
                   /\ Cardinality(Admitted') <= Cardinality(Threads)
           /\ pc[t] = "record" /\ label # "record"
                => Cardinality(Admitted') = Cardinality(Admitted) - 1
           /\ (pc[t] = "record" <=> label = "record")
                => Cardinality(Admitted') = Cardinality(Admitted)
<1>1. /\ Admitted = {u \in Threads : pc[u] = "record"}
      /\ Admitted' = {u \in Threads : pc'[u] = "record"}
  BY DEF Admitted
<1>2. pc'[t] = label /\ \A u \in Threads \ {t} : pc'[u] = pc[u]
  BY DEF Goto, TypeOK
<1>3. IsFiniteSet(Threads) /\ Cardinality(Threads) \in Nat
  BY ReplayAssumptions, FS_CardinalityType
<1>4. Admitted \subseteq Threads /\ Admitted' \subseteq Threads
  BY DEF Admitted
<1>5. /\ IsFiniteSet(Admitted) /\ Cardinality(Admitted) \in Nat
      /\ IsFiniteSet(Admitted') /\ Cardinality(Admitted') \in Nat
      /\ Cardinality(Admitted') <= Cardinality(Threads)
  BY <1>3, <1>4, FS_Subset, FS_CardinalityType
<1>6. CASE pc[t] # "record" /\ label = "record"
  <2>1. Admitted' = Admitted \cup {t} /\ t \notin Admitted
    BY <1>1, <1>2, <1>6
  <2> QED
    BY <1>3, <1>5, <1>6, <2>1, FS_AddElement
<1>7. CASE pc[t] = "record" /\ label # "record"
  <2>1. Admitted' = Admitted \ {t} /\ t \in Admitted
    BY <1>1, <1>2, <1>7
  <2> QED
    BY <1>3, <1>5, <1>7, <2>1, FS_RemoveElement
<1>8. CASE pc[t] = "record" <=> label = "record"
  <2>1. Admitted' = Admitted
    BY <1>1, <1>2, <1>8
  <2> QED
    BY <1>3, <1>5, <1>8, <2>1
<1> QED
  BY <1>6, <1>7, <1>8

\* A step that admits nobody and records nothing keeps the bound.
LEMMA CapacityStable ==
    ASSUME TypeOK, CapacityInv, NEW t \in Threads, NEW label, Goto(t, label),
           label # "record", seen' \subseteq seen, lost' = lost
    PROVE  CapacityInv'
<1>1. /\ IsFiniteSet(seen')
      /\ Cardinality(seen) \in Nat /\ Cardinality(seen') \in Nat
      /\ Cardinality(seen') <= Cardinality(seen)
  BY FS_Subset, FS_CardinalityType DEF CapacityInv
<1>2. /\ Cardinality(Admitted) \in Nat /\ Cardinality(Admitted') \in Nat
      /\ Cardinality(Admitted') <= Cardinality(Admitted)
      /\ Cardinality(Threads) \in Nat
  BY AdmittedMoves
<1> QED
  BY <1>1, <1>2, ReplayAssumptions DEF CapacityInv, CapacityUpToLostEvictions, len, TypeOK

\* A step that compares the length with the capacity admits only below it.
LEMMA CapacityAdmit ==
    ASSUME TypeOK, CapacityInv, NEW t \in Threads, NEW label, label # "record",
           pc[t] # "record", Goto(t, IF len >= Capacity THEN label ELSE "record"),
           seen' = seen, lost' = lost
    PROVE  CapacityInv'
<1>1. Cardinality(seen) \in Nat
  BY FS_CardinalityType DEF CapacityInv
<1>2. CASE len >= Capacity
  BY <1>2, CapacityStable
<1>3. CASE ~(len >= Capacity)
  <2>1. Goto(t, "record")
    BY <1>3
  <2>2. /\ Cardinality(Admitted) \in Nat
        /\ Cardinality(Admitted') = Cardinality(Admitted) + 1
        /\ Cardinality(Admitted') <= Cardinality(Threads)
        /\ Cardinality(Threads) \in Nat
    BY <2>1, AdmittedMoves
  <2> QED
    BY <1>1, <1>3, <2>2, ReplayAssumptions
    DEF CapacityInv, CapacityUpToLostEvictions, len, TypeOK
<1> QED
  BY <1>2, <1>3

\* Nonces remembered and about to be remembered exceed the capacity by less than
\* the number of verifiers, plus one per eviction whose victim was gone, for any
\* capacity and any number of verifiers (check_and_record_at, replay.rs:87-103).
THEOREM CapacityHolds == Spec => []CapacityUpToLostEvictions
<1>1. Init => CapacityInv
  <2> SUFFICES ASSUME Init PROVE CapacityInv
    OBVIOUS
  <2>1. seen = {} /\ Admitted = {} /\ lost = 0
    BY DEF Init, Admitted
  <2>2. IsFiniteSet({}) /\ Cardinality({}) = 0
    BY FS_EmptySet
  <2>3. Cardinality(Threads) \in Nat /\ Cardinality(Threads) # 0
    BY ReplayAssumptions, FS_CardinalityType, FS_EmptySet
  <2> QED
    BY <2>1, <2>2, <2>3, ReplayAssumptions DEF CapacityInv, CapacityUpToLostEvictions, len
<1>2. TypeOK /\ CapacityInv /\ [Next]_vars => CapacityInv'
  <2> SUFFICES ASSUME TypeOK, CapacityInv, [Next]_vars PROVE CapacityInv'
    OBVIOUS
  <2>1. ASSUME NEW t \in Threads, NEW q \in Requests, StartVerify(t, q) PROVE CapacityInv'
    BY <2>1, CapacityStable DEF StartVerify
  <2>2. ASSUME NEW t \in Threads, StartCleanup(t) PROVE CapacityInv'
    BY <2>2, CapacityStable DEF StartCleanup, HistoryUnchanged
  <2>3. ASSUME NEW t \in Threads, Contains(t) PROVE CapacityInv'
    BY <2>3, CapacityStable DEF Contains, Return, HistoryUnchanged
  <2>4. ASSUME NEW t \in Threads, Room(t) PROVE CapacityInv'
    BY <2>4, CapacityAdmit DEF Room, HistoryUnchanged
  <2>5. ASSUME NEW t \in Threads, Purge(t) PROVE CapacityInv'
    <3>1. seen' \subseteq seen
      BY <2>5 DEF Purge
    <3> QED
      BY <2>5, <3>1, CapacityStable DEF Purge, Return, HistoryUnchanged
  <2>6. ASSUME NEW t \in Threads, Recheck(t) PROVE CapacityInv'
    BY <2>6, CapacityAdmit DEF Recheck, HistoryUnchanged
  <2>7. ASSUME NEW t \in Threads, Scan(t) PROVE CapacityInv'
    BY <2>7, CapacityStable DEF Scan, HistoryUnchanged
  <2>8. ASSUME NEW t \in Threads, Evict(t) PROVE CapacityInv'
    <3>1. /\ seen' \subseteq seen
          /\ frame[t].victim \in SeenNonces => seen' # seen
      BY <2>8 DEF Evict, SeenNonces
    <3>2. /\ IsFiniteSet(seen')
          /\ Cardinality(seen) \in Nat /\ Cardinality(seen') \in Nat
          /\ Cardinality(seen') <= Cardinality(seen)
          /\ seen' # seen => Cardinality(seen') + 1 <= Cardinality(seen)
      BY <3>1, FS_Subset, FS_CardinalityType DEF CapacityInv
    <3>3. /\ Cardinality(Admitted) \in Nat
          /\ Cardinality(Admitted') = Cardinality(Admitted) + 1
          /\ Cardinality(Threads) \in Nat
      BY <2>8, AdmittedMoves DEF Evict
    <3>4. \/ Cardinality(seen') + 1 <= Cardinality(seen) /\ lost' = lost
          \/ lost' = lost + 1
      BY <2>8, <3>1, <3>2 DEF Evict
    <3> QED
      BY <3>2, <3>3, <3>4, ReplayAssumptions
      DEF CapacityInv, CapacityUpToLostEvictions, len, TypeOK
  <2>9. ASSUME NEW t \in Threads, Record(t) PROVE CapacityInv'
    <3> DEFINE new == [nonce |-> frame[t].request.nonce,
                       expires_at |-> frame[t].request.expires]
    <3>1. seen' \subseteq seen \cup {new} /\ lost' = lost
      BY <2>9 DEF Record
    <3> HIDE DEF new
    <3>2. /\ IsFiniteSet(seen \cup {new})
          /\ Cardinality(seen) \in Nat
          /\ Cardinality(seen \cup {new}) <= Cardinality(seen) + 1
      BY FS_Subset, FS_AddElement, FS_CardinalityType DEF CapacityInv
    <3>3. /\ IsFiniteSet(seen') /\ Cardinality(seen') \in Nat
          /\ Cardinality(seen \cup {new}) \in Nat
          /\ Cardinality(seen') <= Cardinality(seen \cup {new})
      BY <3>1, <3>2, FS_Subset, FS_CardinalityType
    <3>4. /\ Cardinality(Admitted) \in Nat /\ Cardinality(Admitted') \in Nat
          /\ Cardinality(Admitted') = Cardinality(Admitted) - 1
          /\ Cardinality(Threads) \in Nat
      BY <2>9, AdmittedMoves DEF Record, Return
    <3> QED
      BY <3>1, <3>2, <3>3, <3>4, ReplayAssumptions
      DEF CapacityInv, CapacityUpToLostEvictions, len, TypeOK
  <2>10. CASE Tick
    BY <2>10 DEF Tick, HistoryUnchanged, CapacityInv, CapacityUpToLostEvictions,
                 Admitted, len
  <2>11. CASE UNCHANGED vars
    BY <2>11 DEF vars, CapacityInv, CapacityUpToLostEvictions, Admitted, len
  <2> QED
    BY <2>1, <2>2, <2>3, <2>4, <2>5, <2>6, <2>7, <2>8, <2>9, <2>10, <2>11
    DEF Next, Step
<1> QED
  BY <1>1, <1>2, TypeCorrect, PTL DEF Spec, CapacityInv
=============================================================================
