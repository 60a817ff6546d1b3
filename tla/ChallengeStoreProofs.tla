------------------------ MODULE ChallengeStoreProofs ------------------------
(* Theorems about ChallengeStore, for every set of threads, DIDs and nonces,  *)
(* every capacity and every lifetime.                                         *)
EXTENDS ChallengeStore, FiniteSetTheorems, TLAPS

\* The frame of an idle thread is a frame.
LEMMA NoFrameType == NoFrame \in Frame
BY DEF NoFrame, Frame

\* TypeOK is not inductive: the challenge that Insert stores is well typed only
\* because a thread that got that far has a DID and a nonce in its frame.
LocalsOK ==
    \A t \in Threads :
        /\ pc[t] = "insert" => frame[t].did \in Dids
        /\ pc[t] \in {"insert", "check"} => frame[t].nonce \in Nonces

\* Every reachable state of the challenge store is well typed; in particular an
\* expiry is a natural number and no thread works on a nonce nobody drew.
THEOREM TypeCorrect == Spec => [](TypeOK /\ LocalsOK)
<1> USE ChallengeAssumptions DEF TypeOK, LocalsOK
<1>1. Init => TypeOK /\ LocalsOK
  <2> SUFFICES ASSUME Init PROVE TypeOK /\ LocalsOK
    OBVIOUS
  <2>1. pc \in [Threads -> Labels] /\ LocalsOK
    BY DEF Init, Labels
  <2>2. frame \in [Threads -> Frame]
    BY NoFrameType DEF Init
  <2>3. honoured \in [Nonces -> Nat]
    BY DEF Init
  <2> QED
    BY <2>1, <2>2, <2>3 DEF Init
<1>2. TypeOK /\ LocalsOK /\ [Next]_vars => TypeOK' /\ LocalsOK'
  <2> SUFFICES ASSUME TypeOK, LocalsOK, [Next]_vars PROVE TypeOK' /\ LocalsOK'
    OBVIOUS
  \* Every step that moves a thread gives it a label and a well typed frame.
  <2>0. ASSUME NEW t \in Threads, NEW label \in Labels, NEW r \in Frame,
               Goto(t, label), frame' = [frame EXCEPT ![t] = r],
               label = "insert" => r.did \in Dids,
               label \in {"insert", "check"} => r.nonce \in Nonces
        PROVE  /\ pc' \in [Threads -> Labels]
               /\ frame' \in [Threads -> Frame]
               /\ LocalsOK'
    BY <2>0 DEF Goto
  <2>1. ASSUME NEW t \in Threads, NEW d \in Dids, StartCreate(t, d)
        PROVE  TypeOK' /\ LocalsOK'
    <3>1. [NoFrame EXCEPT !.did = d] \in Frame
      BY DEF NoFrame, Frame
    <3>2. /\ pc' \in [Threads -> Labels]
          /\ frame' \in [Threads -> Frame]
          /\ LocalsOK'
      BY <2>0, <2>1, <3>1 DEF StartCreate, Labels
    <3> QED
      BY <2>1, <3>2 DEF StartCreate
  <2>2. ASSUME NEW t \in Threads, ReadClock(t) PROVE TypeOK' /\ LocalsOK'
    <3>1. [frame[t] EXCEPT !.now = clock] \in Frame
      BY DEF Frame
    <3>2. /\ pc' \in [Threads -> Labels]
          /\ frame' \in [Threads -> Frame]
          /\ LocalsOK'
      BY <2>0, <2>2, <3>1 DEF ReadClock, Labels
    <3> QED
      BY <2>2, <3>2 DEF ReadClock
  <2>3. ASSUME NEW t \in Threads, StartCleanup(t) PROVE TypeOK' /\ LocalsOK'
    <3>1. [NoFrame EXCEPT !.now = clock] \in Frame
      BY DEF NoFrame, Frame
    <3>2. /\ pc' \in [Threads -> Labels]
          /\ frame' \in [Threads -> Frame]
          /\ LocalsOK'
      BY <2>0, <2>3, <3>1 DEF StartCleanup, Labels
    <3> QED
      BY <2>3, <3>2 DEF StartCleanup
  <2>4. ASSUME NEW t \in Threads, Retain(t) PROVE TypeOK' /\ LocalsOK'
    <3>1. [frame[t] EXCEPT !.now = 0] \in Frame
      BY DEF Frame
    <3>2. /\ pc' \in [Threads -> Labels]
          /\ frame' \in [Threads -> Frame]
          /\ LocalsOK'
      BY <2>0, <2>4, <3>1 DEF Retain, Labels
    <3> QED
      BY <2>4, <3>2 DEF Retain
  <2>5. ASSUME NEW t \in Threads, Recheck(t) PROVE TypeOK' /\ LocalsOK'
    BY <2>5 DEF Recheck, Goto, Labels
  <2>6. ASSUME NEW t \in Threads, Scan(t) PROVE TypeOK' /\ LocalsOK'
    <3>1. CASE UNCHANGED frame
      BY <2>6, <3>1 DEF Scan, Goto, Labels
    <3>2. ASSUME NEW c \in challenges, frame' = [frame EXCEPT ![t].nonce = c.nonce]
          PROVE  TypeOK' /\ LocalsOK'
      <4>1. [frame[t] EXCEPT !.nonce = c.nonce] \in Frame
        BY DEF Frame, Challenge
      <4>2. /\ pc' \in [Threads -> Labels]
            /\ frame' \in [Threads -> Frame]
            /\ LocalsOK'
        BY <2>0, <2>6, <3>2, <4>1 DEF Scan, Labels
      <4> QED
        BY <2>6, <4>2 DEF Scan
    <3> QED
      BY <2>6, <3>1, <3>2 DEF Scan
  <2>7. ASSUME NEW t \in Threads, Evict(t) PROVE TypeOK' /\ LocalsOK'
    <3>1. [frame[t] EXCEPT !.nonce = NoNonce] \in Frame
      BY DEF Frame
    <3>2. /\ pc' \in [Threads -> Labels]
          /\ frame' \in [Threads -> Frame]
          /\ LocalsOK'
      BY <2>0, <2>7, <3>1 DEF Evict, Labels
    <3> QED
      BY <2>7, <3>2 DEF Evict, Without
  <2>8. ASSUME NEW t \in Threads, NEW n \in Nonces, Draw(t, n)
        PROVE  TypeOK' /\ LocalsOK'
    <3> DEFINE r == [frame[t] EXCEPT !.nonce = n, !.now = clock]
    <3>1. r \in Frame /\ r.did \in Dids /\ r.nonce \in Nonces
      BY <2>8 DEF Draw, Frame
    <3>2. /\ pc' \in [Threads -> Labels]
          /\ frame' \in [Threads -> Frame]
          /\ LocalsOK'
      BY <2>0, <2>8, <3>1 DEF Draw, Labels
    <3> QED
      BY <2>8, <3>2 DEF Draw
  <2>9. ASSUME NEW t \in Threads, FailBuild(t) PROVE TypeOK' /\ LocalsOK'
    <3>1. /\ pc' \in [Threads -> Labels]
          /\ frame' \in [Threads -> Frame]
          /\ LocalsOK'
      BY <2>0, <2>9, NoFrameType DEF FailBuild, Labels
    <3> QED
      BY <2>9, <3>1 DEF FailBuild
  <2>10. ASSUME NEW t \in Threads, Insert(t) PROVE TypeOK' /\ LocalsOK'
    <3>1. /\ pc' \in [Threads -> Labels]
          /\ frame' \in [Threads -> Frame]
          /\ LocalsOK'
      BY <2>0, <2>10, NoFrameType DEF Insert, Labels
    <3>2. frame[t].did \in Dids /\ frame[t].nonce \in Nonces /\ frame[t].now \in Nat
      BY <2>10 DEF Insert, Frame
    <3>3. challenges' \subseteq Challenge
      BY <2>10, <3>2 DEF Insert, Without, Challenge
    <3> QED
      BY <2>10, <3>1, <3>3 DEF Insert
  <2>11. ASSUME NEW t \in Threads, NEW c \in challenges, ValidateRemove(t, c)
         PROVE  TypeOK' /\ LocalsOK'
    <3> DEFINE r == [NoFrame EXCEPT !.nonce = c.nonce, !.expires_at = c.expires_at]
    <3>1. r \in Frame /\ r.nonce \in Nonces
      BY DEF NoFrame, Frame, Challenge
    <3>2. /\ pc' \in [Threads -> Labels]
          /\ frame' \in [Threads -> Frame]
          /\ LocalsOK'
      BY <2>0, <2>11, <3>1 DEF ValidateRemove, Labels
    <3> QED
      BY <2>11, <3>2 DEF ValidateRemove, Without
  <2>12. ASSUME NEW t \in Threads, ValidateCheck(t) PROVE TypeOK' /\ LocalsOK'
    <3>1. /\ pc' \in [Threads -> Labels]
          /\ frame' \in [Threads -> Frame]
          /\ LocalsOK'
      BY <2>0, <2>12, NoFrameType DEF ValidateCheck, Labels
    <3>2. PICK n \in Nonces : n = frame[t].nonce
      BY <2>12 DEF ValidateCheck
    <3>3. [honoured EXCEPT ![n] = @ + 1] \in [Nonces -> Nat]
      OBVIOUS
    <3>4. honoured' \in [Nonces -> Nat]
      BY <2>12, <3>2, <3>3 DEF ValidateCheck
    <3> QED
      BY <2>12, <3>1, <3>4 DEF ValidateCheck
  <2>13. CASE Tick
    BY <2>13 DEF Tick
  <2>14. CASE UNCHANGED vars
    BY <2>14 DEF vars
  <2> QED
    BY <2>1, <2>2, <2>3, <2>4, <2>5, <2>6, <2>7, <2>8, <2>9, <2>10, <2>11,
       <2>12, <2>13, <2>14 DEF Next, Step
<1> QED
  BY <1>1, <1>2, PTL DEF Spec

-----------------------------------------------------------------------------
(* Single use.  SingleUse is not inductive: that a nonce is honoured at most  *)
(* once rests on who may still touch it, which OneOwnerPerNonce records.      *)

OwnerInv == TypeOK /\ OneOwnerPerNonce /\ SingleUse

\* No nonce has an owner before one is drawn.
LEMMA OwnerInit == Init => OneOwnerPerNonce /\ SingleUse
BY ChallengeAssumptions DEF Init, OneOwnerPerNonce, SingleUse, Holders, StoredNonces

\* A step that leaves the map and the honoured nonces alone and moves no thread
\* into or out of Holders changes no owner.
LEMMA OwnerStable ==
    ASSUME OwnerInv, NEW t \in Threads, NEW label \in Labels \ {"insert", "check"},
           pc[t] \notin {"insert", "check"}, Goto(t, label),
           \A u \in Threads \ {t} : frame'[u] = frame[u],
           challenges' \subseteq challenges, drawn' = drawn, honoured' = honoured
    PROVE  OneOwnerPerNonce' /\ SingleUse'
<1> USE DEF OwnerInv, OneOwnerPerNonce, SingleUse, Holders, StoredNonces, TypeOK, Goto
<1>1. Holders' = Holders /\ t \notin Holders
  OBVIOUS
<1>2. \A u \in Holders : frame'[u] = frame[u]
  BY <1>1
<1> QED
  BY <1>1, <1>2

\* A challenge is honoured at most once, for any number of threads, nonces and
\* presentations of the same nonce (validate, challenge.rs:168-180).
THEOREM SingleUseHolds == Spec => [](OneOwnerPerNonce /\ SingleUse)
<1>1. OwnerInv /\ TypeOK' /\ [Next]_vars => OneOwnerPerNonce' /\ SingleUse'
  <2> SUFFICES ASSUME OwnerInv, TypeOK', [Next]_vars
               PROVE  OneOwnerPerNonce' /\ SingleUse'
    OBVIOUS
  <2> USE ChallengeAssumptions DEF OwnerInv
  <2>1. ASSUME NEW t \in Threads, NEW d \in Dids, StartCreate(t, d)
        PROVE  OneOwnerPerNonce' /\ SingleUse'
    BY <2>1, OwnerStable DEF StartCreate, Labels, Goto, TypeOK
  <2>2. ASSUME NEW t \in Threads, ReadClock(t)
        PROVE  OneOwnerPerNonce' /\ SingleUse'
    BY <2>2, OwnerStable DEF ReadClock, Labels, TypeOK
  <2>3. ASSUME NEW t \in Threads, StartCleanup(t)
        PROVE  OneOwnerPerNonce' /\ SingleUse'
    BY <2>3, OwnerStable DEF StartCleanup, Labels, TypeOK
  <2>4. ASSUME NEW t \in Threads, Retain(t)
        PROVE  OneOwnerPerNonce' /\ SingleUse'
    BY <2>4, OwnerStable DEF Retain, Labels, Goto, TypeOK
  <2>5. ASSUME NEW t \in Threads, Recheck(t)
        PROVE  OneOwnerPerNonce' /\ SingleUse'
    BY <2>5, OwnerStable DEF Recheck, Labels, Goto, TypeOK
  <2>6. ASSUME NEW t \in Threads, Scan(t)
        PROVE  OneOwnerPerNonce' /\ SingleUse'
    BY <2>6, OwnerStable DEF Scan, Labels, TypeOK
  <2>7. ASSUME NEW t \in Threads, Evict(t)
        PROVE  OneOwnerPerNonce' /\ SingleUse'
    BY <2>7, OwnerStable DEF Evict, Without, Labels, TypeOK
  <2> USE DEF OneOwnerPerNonce, SingleUse, Holders, StoredNonces, TypeOK, Goto
  <2>8. ASSUME NEW t \in Threads, NEW n \in Nonces, Draw(t, n)
        PROVE  OneOwnerPerNonce' /\ SingleUse'
    <3>1. Holders' = Holders \cup {t} /\ t \notin Holders
      BY <2>8 DEF Draw
    <3>2. frame'[t].nonce = n /\ \A u \in Holders : frame'[u] = frame[u]
      BY <2>8, <3>1 DEF Draw, Frame
    <3> QED
      BY <2>8, <3>1, <3>2 DEF Draw
  <2>9. ASSUME NEW t \in Threads, FailBuild(t)
        PROVE  OneOwnerPerNonce' /\ SingleUse'
    BY <2>9, OwnerStable DEF FailBuild, Labels, TypeOK
  <2>10. ASSUME NEW t \in Threads, Insert(t)
         PROVE  OneOwnerPerNonce' /\ SingleUse'
    <3>1. Holders' = Holders \ {t} /\ t \in Holders
      BY <2>10 DEF Insert
    <3>2. \A u \in Holders \ {t} : frame'[u] = frame[u]
      BY <2>10 DEF Insert
    <3> DEFINE new == [did |-> frame[t].did, nonce |-> frame[t].nonce,
                       expires_at |-> frame[t].now + Ttl]
    <3>3. challenges' = challenges \cup {new} /\ new.nonce = frame[t].nonce
      BY <2>10, <3>1 DEF Insert, Without
    <3> HIDE DEF new
    <3>4. StoredNonces' = StoredNonces \cup {frame[t].nonce}
      BY <3>3
    <3>5. honoured' = honoured /\ drawn' = drawn
      BY <2>10 DEF Insert
    <3>6. \A c, d \in challenges' : c.nonce = d.nonce => c = d
      BY <2>10 DEF Insert, Without
    <3> QED
      <4> HIDE DEF StoredNonces, Holders
      <4>1. StoredNonces' \subseteq drawn'
        <5>1. frame[t].nonce \in drawn /\ StoredNonces \subseteq drawn
          BY <3>1
        <5> QED
          BY <3>4, <3>5, <5>1
      <4>2. \A u \in Holders' : frame'[u].nonce \in drawn' \ StoredNonces'
        BY <3>1, <3>2, <3>4, <3>5
      <4>3. \A u, v \in Holders' : frame'[u].nonce = frame'[v].nonce => u = v
        BY <3>1, <3>2
      <4>4. \A n \in Nonces : honoured'[n] # 0 =>
                /\ n \in drawn' \ StoredNonces'
                /\ \A u \in Holders' : frame'[u].nonce # n
        BY <3>1, <3>2, <3>4, <3>5
      <4> QED
        BY <3>5, <3>6, <4>1, <4>2, <4>3, <4>4
  <2>11. ASSUME NEW t \in Threads, NEW c \in challenges, ValidateRemove(t, c)
         PROVE  OneOwnerPerNonce' /\ SingleUse'
    <3>1. Holders' = Holders \cup {t} /\ t \notin Holders
      BY <2>11 DEF ValidateRemove
    <3>2. frame'[t].nonce = c.nonce /\ \A u \in Holders : frame'[u] = frame[u]
      BY <2>11, <3>1 DEF ValidateRemove, NoFrame
    <3>3. StoredNonces' = StoredNonces \ {c.nonce} /\ c.nonce \in StoredNonces
      BY <2>11 DEF ValidateRemove, Without
    <3>4. challenges' \subseteq challenges
      BY <2>11 DEF ValidateRemove, Without
    <3>5. honoured' = honoured /\ drawn' = drawn
      BY <2>11 DEF ValidateRemove
    <3> QED
      BY <3>1, <3>2, <3>3, <3>4, <3>5
  <2>12. ASSUME NEW t \in Threads, ValidateCheck(t)
         PROVE  OneOwnerPerNonce' /\ SingleUse'
    <3>1. Holders' = Holders \ {t} /\ t \in Holders
      BY <2>12 DEF ValidateCheck
    <3>2. \A u \in Holders \ {t} : frame'[u] = frame[u]
      BY <2>12 DEF ValidateCheck
    <3>3. challenges' = challenges /\ drawn' = drawn
      BY <2>12 DEF ValidateCheck
    <3>4. PICK m \in Nonces : m = frame[t].nonce /\ honoured[m] = 0
      BY <3>1
    <3>5. \A n \in Nonces : honoured'[n] = honoured[n] \/ (n = m /\ honoured'[n] = 1)
      <4> HIDE DEF OneOwnerPerNonce, SingleUse, Holders, StoredNonces
      <4>1. CASE honoured' = honoured
        BY <4>1
      <4>2. CASE honoured' = [honoured EXCEPT ![m] = @ + 1]
        BY <3>4, <4>2
      <4> QED
        BY <2>12, <3>4, <4>1, <4>2 DEF ValidateCheck
    <3> QED
      BY <3>1, <3>2, <3>3, <3>4, <3>5
  <2>13. CASE Tick
    BY <2>13 DEF Tick
  <2>14. CASE UNCHANGED vars
    BY <2>14 DEF vars
  <2> QED
    BY <2>1, <2>2, <2>3, <2>4, <2>5, <2>6, <2>7, <2>8, <2>9, <2>10, <2>11,
       <2>12, <2>13, <2>14 DEF Next, Step
<1> QED
  BY <1>1, OwnerInit, TypeCorrect, PTL DEF Spec, OwnerInv
-----------------------------------------------------------------------------
(* Capacity.  The bound is inductive once the store is known to be finite:    *)
(* a thread is admitted only past a length below the cap, or by an eviction   *)
(* that made room or was counted as lost, and an insertion uses up its        *)
(* admission.                                                                 *)

CapacityInv == IsFiniteSet(challenges) /\ CapacityUpToLostEvictions

PastChecks == {"draw", "insert"}

\* What moving one thread does to the number of admitted ones.
LEMMA AdmittedMoves ==
    ASSUME TypeOK, NEW t \in Threads, NEW label, Goto(t, label)
    PROVE  /\ Cardinality(Admitted) \in Nat
           /\ Cardinality(Admitted') \in Nat
           /\ Cardinality(Threads) \in Nat
           /\ pc[t] \notin PastChecks /\ label \in PastChecks
                => /\ Cardinality(Admitted') = Cardinality(Admitted) + 1
                   /\ Cardinality(Admitted') <= Cardinality(Threads)
           /\ pc[t] \in PastChecks /\ label \notin PastChecks
                => Cardinality(Admitted') = Cardinality(Admitted) - 1
           /\ (pc[t] \in PastChecks <=> label \in PastChecks)
                => Cardinality(Admitted') = Cardinality(Admitted)
<1>1. /\ Admitted = {u \in Threads : pc[u] \in PastChecks}
      /\ Admitted' = {u \in Threads : pc'[u] \in PastChecks}
  BY DEF Admitted, PastChecks
<1>2. pc'[t] = label /\ \A u \in Threads \ {t} : pc'[u] = pc[u]
  BY DEF Goto, TypeOK
<1>3. IsFiniteSet(Threads) /\ Cardinality(Threads) \in Nat
  BY ChallengeAssumptions, FS_CardinalityType
<1>4. Admitted \subseteq Threads /\ Admitted' \subseteq Threads
  BY DEF Admitted
<1>5. /\ IsFiniteSet(Admitted) /\ Cardinality(Admitted) \in Nat
      /\ IsFiniteSet(Admitted') /\ Cardinality(Admitted') \in Nat
      /\ Cardinality(Admitted') <= Cardinality(Threads)
  BY <1>3, <1>4, FS_Subset, FS_CardinalityType
<1>6. CASE pc[t] \notin PastChecks /\ label \in PastChecks
  <2>1. Admitted' = Admitted \cup {t} /\ t \notin Admitted
    BY <1>1, <1>2, <1>6
  <2> QED
    BY <1>3, <1>5, <1>6, <2>1, FS_AddElement
<1>7. CASE pc[t] \in PastChecks /\ label \notin PastChecks
  <2>1. Admitted' = Admitted \ {t} /\ t \in Admitted
    BY <1>1, <1>2, <1>7
  <2> QED
    BY <1>3, <1>5, <1>7, <2>1, FS_RemoveElement
<1>8. CASE pc[t] \in PastChecks <=> label \in PastChecks
  <2>1. Admitted' = Admitted
    BY <1>1, <1>2, <1>8
  <2> QED
    BY <1>3, <1>5, <1>8, <2>1
<1> QED
  BY <1>6, <1>7, <1>8

\* A step that admits nobody and adds no challenge keeps the bound.
LEMMA CapacityStable ==
    ASSUME TypeOK, CapacityInv, NEW t \in Threads, NEW label, Goto(t, label),
           pc[t] \in PastChecks \/ label \notin PastChecks,
           challenges' \subseteq challenges, lost' = lost
    PROVE  CapacityInv'
<1>1. /\ IsFiniteSet(challenges')
      /\ Cardinality(challenges) \in Nat /\ Cardinality(challenges') \in Nat
      /\ Cardinality(challenges') <= Cardinality(challenges)
  BY FS_Subset, FS_CardinalityType DEF CapacityInv
<1>2. /\ Cardinality(Admitted) \in Nat /\ Cardinality(Admitted') \in Nat
      /\ Cardinality(Admitted') <= Cardinality(Admitted)
      /\ Cardinality(Threads) \in Nat
  BY AdmittedMoves
<1> QED
  BY <1>1, <1>2, ChallengeAssumptions
  DEF CapacityInv, CapacityUpToLostEvictions, len, TypeOK

\* A thread that saw a length below the cap may be admitted.
LEMMA CapacityAdmit ==
    ASSUME TypeOK, CapacityInv, NEW t \in Threads, Goto(t, "draw"),
           pc[t] \notin PastChecks, challenges' = challenges, lost' = lost,
           len < MaxChallenges
    PROVE  CapacityInv'
<1>1. Cardinality(challenges) \in Nat
  BY FS_CardinalityType DEF CapacityInv
<1>2. /\ Cardinality(Admitted) \in Nat
      /\ Cardinality(Admitted') = Cardinality(Admitted) + 1
      /\ Cardinality(Admitted') <= Cardinality(Threads)
      /\ Cardinality(Threads) \in Nat
  BY AdmittedMoves DEF PastChecks
<1> QED
  BY <1>1, <1>2, ChallengeAssumptions
  DEF CapacityInv, CapacityUpToLostEvictions, len, TypeOK

\* The challenges stored and about to be stored exceed max_challenges by less
\* than the number of threads, plus one per eviction whose victim was gone, for
\* any capacity and any number of threads (create, challenge.rs:97-133).
THEOREM CapacityHolds == Spec => []CapacityUpToLostEvictions
<1>1. Init => CapacityInv
  <2> SUFFICES ASSUME Init PROVE CapacityInv
    OBVIOUS
  <2>1. challenges = {} /\ Admitted = {} /\ lost = 0
    BY DEF Init, Admitted
  <2>2. IsFiniteSet({}) /\ Cardinality({}) = 0
    BY FS_EmptySet
  <2>3. Cardinality(Threads) \in Nat /\ Cardinality(Threads) # 0
    BY ChallengeAssumptions, FS_CardinalityType, FS_EmptySet
  <2> QED
    BY <2>1, <2>2, <2>3, ChallengeAssumptions
    DEF CapacityInv, CapacityUpToLostEvictions, len
<1>2. TypeOK /\ CapacityInv /\ [Next]_vars => CapacityInv'
  <2> SUFFICES ASSUME TypeOK, CapacityInv, [Next]_vars PROVE CapacityInv'
    OBVIOUS
  <2>1. ASSUME NEW t \in Threads, NEW d \in Dids, StartCreate(t, d) PROVE CapacityInv'
    <3>1. CASE len >= MaxChallenges
      BY <2>1, <3>1, CapacityStable DEF StartCreate, PastChecks
    <3>2. CASE ~(len >= MaxChallenges)
      <4>1. len < MaxChallenges
        BY <3>2, FS_CardinalityType, ChallengeAssumptions DEF len, CapacityInv
      <4> QED
        BY <2>1, <3>2, <4>1, CapacityAdmit DEF StartCreate, PastChecks
    <3> QED
      BY <3>1, <3>2
  <2>2. ASSUME NEW t \in Threads, ReadClock(t) PROVE CapacityInv'
    BY <2>2, CapacityStable DEF ReadClock, PastChecks
  <2>3. ASSUME NEW t \in Threads, StartCleanup(t) PROVE CapacityInv'
    BY <2>3, CapacityStable DEF StartCleanup, PastChecks
  <2>4. ASSUME NEW t \in Threads, Retain(t) PROVE CapacityInv'
    <3>1. challenges' \subseteq challenges
      BY <2>4 DEF Retain
    <3>2. CASE frame[t].did = NoDid
      BY <2>4, <3>1, <3>2, CapacityStable DEF Retain, PastChecks
    <3>3. CASE frame[t].did # NoDid
      BY <2>4, <3>1, <3>3, CapacityStable DEF Retain, PastChecks
    <3> QED
      BY <3>2, <3>3
  <2>5. ASSUME NEW t \in Threads, Recheck(t) PROVE CapacityInv'
    <3>1. CASE len >= MaxChallenges
      BY <2>5, <3>1, CapacityStable DEF Recheck, PastChecks
    <3>2. CASE ~(len >= MaxChallenges)
      <4>1. len < MaxChallenges
        BY <3>2, FS_CardinalityType, ChallengeAssumptions DEF len, CapacityInv
      <4> QED
        BY <2>5, <3>2, <4>1, CapacityAdmit DEF Recheck, PastChecks
    <3> QED
      BY <3>1, <3>2
  <2>6. ASSUME NEW t \in Threads, Scan(t) PROVE CapacityInv'
    BY <2>6, CapacityStable DEF Scan, PastChecks
  <2>7. ASSUME NEW t \in Threads, Evict(t) PROVE CapacityInv'
    <3>1. /\ challenges' \subseteq challenges
          /\ frame[t].nonce \in StoredNonces => challenges' # challenges
      BY <2>7 DEF Evict, Without, StoredNonces
    <3>2. /\ IsFiniteSet(challenges')
          /\ Cardinality(challenges) \in Nat /\ Cardinality(challenges') \in Nat
          /\ Cardinality(challenges') <= Cardinality(challenges)
          /\ challenges' # challenges
                => Cardinality(challenges') + 1 <= Cardinality(challenges)
      BY <3>1, FS_Subset, FS_CardinalityType DEF CapacityInv
    <3>3. /\ Cardinality(Admitted) \in Nat
          /\ Cardinality(Admitted') = Cardinality(Admitted) + 1
          /\ Cardinality(Threads) \in Nat
      BY <2>7, AdmittedMoves DEF Evict, PastChecks
    <3>4. \/ Cardinality(challenges') + 1 <= Cardinality(challenges) /\ lost' = lost
          \/ lost' = lost + 1
      BY <2>7, <3>1, <3>2 DEF Evict
    <3> QED
      BY <3>2, <3>3, <3>4, ChallengeAssumptions
      DEF CapacityInv, CapacityUpToLostEvictions, len, TypeOK
  <2>8. ASSUME NEW t \in Threads, NEW n \in Nonces, Draw(t, n) PROVE CapacityInv'
    BY <2>8, CapacityStable DEF Draw, PastChecks
  <2>9. ASSUME NEW t \in Threads, FailBuild(t) PROVE CapacityInv'
    BY <2>9, CapacityStable DEF FailBuild, PastChecks
  <2>10. ASSUME NEW t \in Threads, Insert(t) PROVE CapacityInv'
    <3> DEFINE kept == Without(frame[t].nonce)
               new == [did |-> frame[t].did, nonce |-> frame[t].nonce,
                       expires_at |-> frame[t].now + Ttl]
    <3>1. challenges' = kept \cup {new} /\ kept \subseteq challenges
      BY <2>10 DEF Insert, Without
    <3> HIDE DEF kept, new
    <3>2. /\ IsFiniteSet(challenges')
          /\ Cardinality(challenges) \in Nat /\ Cardinality(challenges') \in Nat
          /\ Cardinality(challenges') <= Cardinality(challenges) + 1
      BY <3>1, FS_Subset, FS_AddElement, FS_CardinalityType DEF CapacityInv
    <3>3. /\ Cardinality(Admitted) \in Nat /\ Cardinality(Admitted') \in Nat
          /\ Cardinality(Admitted') = Cardinality(Admitted) - 1
          /\ Cardinality(Threads) \in Nat
      BY <2>10, AdmittedMoves DEF Insert, PastChecks
    <3>4. lost' = lost
      BY <2>10 DEF Insert
    <3> QED
      BY <3>2, <3>3, <3>4, ChallengeAssumptions
      DEF CapacityInv, CapacityUpToLostEvictions, len, TypeOK
  <2>11. ASSUME NEW t \in Threads, NEW c \in challenges, ValidateRemove(t, c)
         PROVE  CapacityInv'
    <3>1. challenges' \subseteq challenges
      BY <2>11 DEF ValidateRemove, Without
    <3> QED
      BY <2>11, <3>1, CapacityStable DEF ValidateRemove, PastChecks
  <2>12. ASSUME NEW t \in Threads, ValidateCheck(t) PROVE CapacityInv'
    BY <2>12, CapacityStable DEF ValidateCheck, PastChecks
  <2>13. CASE Tick
    BY <2>13 DEF Tick, CapacityInv, CapacityUpToLostEvictions, Admitted, len
  <2>14. CASE UNCHANGED vars
    BY <2>14 DEF vars, CapacityInv, CapacityUpToLostEvictions, Admitted, len
  <2> QED
    BY <2>1, <2>2, <2>3, <2>4, <2>5, <2>6, <2>7, <2>8, <2>9, <2>10, <2>11,
       <2>12, <2>13, <2>14 DEF Next, Step
<1> QED
  BY <1>1, <1>2, TypeCorrect, PTL DEF Spec, CapacityInv

-----------------------------------------------------------------------------
(* The life cycle of a nonce.  A step of the store is a step of               *)
(* NonceLifecycle or changes neither Status nor honoured; which, follows from *)
(* what it does to the nonces that are drawn, pending and to be inserted.     *)

\* Status depends on three sets of nonces.
LEMMA StatusStutters ==
    ASSUME Pending' = Pending, drawn' \ ToInsert' = drawn \ ToInsert, honoured' = honoured
    PROVE  UNCHANGED <<Status, honoured>>
BY DEF Status

\* What the threads about to insert or to judge a challenge hold: a nonce that
\* was drawn, is not stored, and no two of them hold the same.
LEMMA PendingApart ==
    ASSUME OwnerInv, LocalsOK
    PROVE  /\ Pending \subseteq drawn /\ ToInsert \subseteq drawn
           /\ drawn \subseteq Nonces
           /\ Pending \cap ToInsert = {}
BY DEF OwnerInv, OneOwnerPerNonce, LocalsOK, Pending, ToInsert, Holders, TypeOK

\* A step of a thread that neither enters nor leaves Holders, takes some
\* challenges out of the store and draws nothing, drops their nonces.
LEMMA RemovalDrops ==
    ASSUME OwnerInv, LocalsOK, NEW t \in Threads, NEW label \in Labels \ {"insert", "check"},
           pc[t] \notin {"insert", "check"}, Goto(t, label),
           \A u \in Threads \ {t} : frame'[u] = frame[u],
           challenges' \subseteq challenges, drawn' = drawn, honoured' = honoured
    PROVE  Lifecycle!Drop(StoredNonces \ StoredNonces')
<1> DEFINE S == StoredNonces \ StoredNonces'
<1>1. ToInsert' = ToInsert
  BY DEF ToInsert, Goto, OwnerInv, TypeOK
<1>2. Pending' = Pending \ S
  <2> DEFINE held == {frame[u].nonce : u \in {v \in Threads : pc[v] = "check"}}
  <2>1. held' = held
    BY DEF Goto, OwnerInv, TypeOK
  <2>2. held \cap StoredNonces = {}
    BY DEF OwnerInv, OneOwnerPerNonce, Holders
  <2>3. StoredNonces' \subseteq StoredNonces
    BY DEF StoredNonces
  <2>4. Pending = StoredNonces \cup held /\ Pending' = StoredNonces' \cup held'
    BY DEF Pending
  <2> HIDE DEF held
  <2> QED
    BY <2>1, <2>2, <2>3, <2>4
<1>3. S \subseteq Pending /\ S \subseteq drawn \ ToInsert
  BY PendingApart DEF Pending
<1>4. \A n \in S : Status[n] = "pending"
  BY <1>3, PendingApart DEF Status
<1>5. Status' = [n \in Nonces |-> IF n \in S THEN "spent" ELSE Status[n]]
  <2> HIDE DEF S
  <2> QED
    BY <1>1, <1>2, <1>3 DEF Status
<1> QED
  BY <1>4, <1>5 DEF Lifecycle!Drop

\* A nonce that is stored is one.
LEMMA StoredAreNonces == TypeOK => StoredNonces \subseteq Nonces
BY DEF TypeOK, StoredNonces, Challenge

\* The store implements the life cycle of a nonce, for any number of threads:
\* inserting issues, the verdict of validate honours or drops, cleanup and
\* eviction drop, and nothing else shows (challenge.rs).
THEOREM LifecycleImplemented == Spec => ImplementsLifecycle
<1>1. Init => Lifecycle!Init
  BY DEF Init, Lifecycle!Init, Status, Pending, ToInsert, StoredNonces
<1>2. OwnerInv /\ LocalsOK /\ [Next]_vars => [Lifecycle!Next]_(Lifecycle!vars)
  <2> SUFFICES ASSUME OwnerInv, LocalsOK, [Next]_vars
               PROVE  Lifecycle!Next \/ UNCHANGED <<Status, honoured>>
    BY DEF Lifecycle!vars
  <2> USE ChallengeAssumptions
  <2>0. ASSUME NEW t \in Threads, NEW label \in Labels \ {"insert", "check"},
               pc[t] \notin {"insert", "check"}, Goto(t, label),
               \A u \in Threads \ {t} : frame'[u] = frame[u],
               challenges' \subseteq challenges, drawn' = drawn, honoured' = honoured
        PROVE  Lifecycle!Next
    <3>1. Lifecycle!Drop(StoredNonces \ StoredNonces')
      BY <2>0, RemovalDrops
    <3>2. (StoredNonces \ StoredNonces') \in SUBSET Nonces
      BY StoredAreNonces DEF OwnerInv
    <3> QED
      BY <3>1, <3>2 DEF Lifecycle!Next
  <2>1. ASSUME NEW t \in Threads, NEW d \in Dids, StartCreate(t, d) PROVE Lifecycle!Next
    BY <2>0, <2>1 DEF StartCreate, Labels, OwnerInv, TypeOK
  <2>2. ASSUME NEW t \in Threads, ReadClock(t) PROVE Lifecycle!Next
    BY <2>0, <2>2 DEF ReadClock, Labels, OwnerInv, TypeOK
  <2>3. ASSUME NEW t \in Threads, StartCleanup(t) PROVE Lifecycle!Next
    BY <2>0, <2>3 DEF StartCleanup, Labels, OwnerInv, TypeOK
  <2>4. ASSUME NEW t \in Threads, Retain(t) PROVE Lifecycle!Next
    BY <2>0, <2>4 DEF Retain, Labels, OwnerInv, TypeOK
  <2>5. ASSUME NEW t \in Threads, Recheck(t) PROVE Lifecycle!Next
    BY <2>0, <2>5 DEF Recheck, Labels, OwnerInv, TypeOK
  <2>6. ASSUME NEW t \in Threads, Scan(t) PROVE Lifecycle!Next
    BY <2>0, <2>6 DEF Scan, Labels, OwnerInv, TypeOK
  <2>7. ASSUME NEW t \in Threads, Evict(t) PROVE Lifecycle!Next
    BY <2>0, <2>7 DEF Evict, Without, Labels, OwnerInv, TypeOK
  <2>8. ASSUME NEW t \in Threads, NEW n \in Nonces, Draw(t, n)
        PROVE  UNCHANGED <<Status, honoured>>
    <3>1. ToInsert' = ToInsert \cup {n} /\ Pending' = Pending
      BY <2>8 DEF Draw, Goto, ToInsert, Pending, StoredNonces, OwnerInv, TypeOK, Frame
    <3>2. n \notin drawn /\ drawn' = drawn \cup {n} /\ honoured' = honoured
      BY <2>8 DEF Draw
    <3> QED
      BY <3>1, <3>2, StatusStutters, PendingApart
  <2>9. ASSUME NEW t \in Threads, FailBuild(t) PROVE Lifecycle!Next
    BY <2>0, <2>9 DEF FailBuild, Labels, OwnerInv, TypeOK
  <2>10. ASSUME NEW t \in Threads, Insert(t) PROVE Lifecycle!Next
    <3> DEFINE n == frame[t].nonce
    <3>1. n \in Nonces /\ n \in ToInsert /\ n \notin Pending
      BY <2>10, PendingApart DEF Insert, LocalsOK, ToInsert
    <3>2. ToInsert' = ToInsert \ {n}
      BY <2>10 DEF Insert, Goto, ToInsert, OwnerInv, OneOwnerPerNonce, Holders, TypeOK
    <3>3. StoredNonces' = StoredNonces \cup {n}
      <4> DEFINE new == [did |-> frame[t].did, nonce |-> frame[t].nonce,
                         expires_at |-> frame[t].now + Ttl]
      <4>1. new.nonce = n /\ challenges' = {c \in challenges : c.nonce # n} \cup {new}
        BY <2>10 DEF Insert, Without
      <4> HIDE DEF new, n
      <4>2. ASSUME NEW m \in StoredNonces' PROVE m \in StoredNonces \cup {n}
        BY <4>1, <4>2 DEF StoredNonces
      <4>3. ASSUME NEW m \in StoredNonces \cup {n} PROVE m \in StoredNonces'
        BY <4>1, <4>3 DEF StoredNonces
      <4> QED
        BY <4>2, <4>3
    <3>4. Pending' = Pending \cup {n}
      BY <2>10, <3>3 DEF Insert, Goto, Pending, OwnerInv, TypeOK
    <3>5. drawn' = drawn /\ honoured' = honoured
      BY <2>10 DEF Insert
    <3> HIDE DEF n
    <3>6. Status[n] = "unissued" /\ Status' = [Status EXCEPT ![n] = "pending"]
      BY <3>1, <3>2, <3>4, <3>5 DEF Status
    <3>7. Lifecycle!Issue(n)
      BY <3>5, <3>6 DEF Lifecycle!Issue
    <3> QED
      BY <3>1, <3>7 DEF Lifecycle!Next
  <2>11. ASSUME NEW t \in Threads, NEW c \in challenges, ValidateRemove(t, c)
         PROVE  UNCHANGED <<Status, honoured>>
    <3>1. ToInsert' = ToInsert /\ drawn' = drawn /\ honoured' = honoured
      BY <2>11 DEF ValidateRemove, Goto, ToInsert, OwnerInv, TypeOK
    <3>2. StoredNonces' = StoredNonces \ {c.nonce} /\ c.nonce \in StoredNonces
      BY <2>11 DEF ValidateRemove, Without, StoredNonces
    <3> DEFINE held == {frame[u].nonce : u \in {v \in Threads : pc[v] = "check"}}
    <3>3. held' = held \cup {c.nonce}
      BY <2>11 DEF ValidateRemove, Goto, OwnerInv, TypeOK, NoFrame
    <3>4. Pending = StoredNonces \cup held /\ Pending' = StoredNonces' \cup held'
      BY DEF Pending
    <3> HIDE DEF held
    <3>5. Pending' = Pending
      BY <3>2, <3>3, <3>4
    <3> QED
      BY <3>1, <3>5, StatusStutters
  <2>12. ASSUME NEW t \in Threads, ValidateCheck(t) PROVE Lifecycle!Next
    <3> DEFINE n == frame[t].nonce
    <3>1. n \in Nonces /\ n \in Pending /\ n \in drawn \ ToInsert
      BY <2>12, PendingApart DEF ValidateCheck, LocalsOK, Pending
    <3>2. ToInsert' = ToInsert /\ drawn' = drawn
      BY <2>12 DEF ValidateCheck, Goto, ToInsert, OwnerInv, TypeOK
    <3>3. n \notin StoredNonces /\ StoredNonces' = StoredNonces
      BY <2>12 DEF ValidateCheck, OwnerInv, OneOwnerPerNonce, Holders, StoredNonces
    <3> DEFINE held == {frame[u].nonce : u \in {v \in Threads : pc[v] = "check"}}
    <3>4. held' = held \ {n}
      BY <2>12 DEF ValidateCheck, Goto, OwnerInv, OneOwnerPerNonce, Holders, TypeOK
    <3>5. Pending = StoredNonces \cup held /\ Pending' = StoredNonces' \cup held'
      BY DEF Pending
    <3>6. \/ honoured' = honoured
          \/ honoured' = [honoured EXCEPT ![n] = @ + 1]
      BY <2>12 DEF ValidateCheck
    <3> HIDE DEF held, n
    <3>7. Pending' = Pending \ {n}
      BY <3>3, <3>4, <3>5
    <3>8. Status[n] = "pending" /\ Status' = [Status EXCEPT ![n] = "spent"]
      BY <3>1, <3>2, <3>7 DEF Status
    <3>9. Status' = [m \in Nonces |-> IF m \in {n} THEN "spent" ELSE Status[m]]
      BY <3>1, <3>8 DEF Status
    <3>10. Lifecycle!Honour(n) \/ Lifecycle!Drop({n})
      BY <3>6, <3>8, <3>9 DEF Lifecycle!Honour, Lifecycle!Drop
    <3> QED
      BY <3>1, <3>10 DEF Lifecycle!Next
  <2>13. CASE Tick
    BY <2>13, StatusStutters DEF Tick, Pending, ToInsert, StoredNonces
  <2>14. CASE UNCHANGED vars
    BY <2>14, StatusStutters DEF vars, Pending, ToInsert, StoredNonces
  <2> QED
    BY <2>1, <2>2, <2>3, <2>4, <2>5, <2>6, <2>7, <2>8, <2>9, <2>10, <2>11,
       <2>12, <2>13, <2>14 DEF Next, Step
<1> QED
  BY <1>1, <1>2, TypeCorrect, SingleUseHolds, PTL
  DEF Spec, ImplementsLifecycle, Lifecycle!Spec, OwnerInv

-----------------------------------------------------------------------------
(* Removal.                                                                   *)

\* A thread in cleanup_expired works with a clock that lies in the past.
ClockHeld == \A t \in Threads : pc[t] = "retain" => frame[t].now <= clock

\* A challenge that validate would still honour leaves the store only through
\* validate or as the victim of evict_oldest, for any number of sweeps and however
\* long they sleep between reading the clock and removing (challenge.rs:183-186).
THEOREM RemovalHolds == Spec => LiveLeavesOnlyIfConsumedOrEvicted
<1> DEFINE Leaves ==
      \A c \in challenges \ challenges' :
            \/ c.expires_at <= clock
            \/ \E t \in Threads :
                 /\ pc[t] # pc'[t]
                 /\ \/ pc[t] = "evict" /\ frame[t].nonce = c.nonce
                    \/ pc'[t] = "check" /\ frame'[t].nonce = c.nonce
<1>1. Init => ClockHeld
  BY DEF Init, ClockHeld
<1>2. TypeOK /\ ClockHeld /\ [Next]_vars => ClockHeld'
  <2> SUFFICES ASSUME TypeOK, ClockHeld, [Next]_vars PROVE ClockHeld'
    OBVIOUS
  <2> USE DEF TypeOK, ClockHeld, Goto, Frame, NoFrame
  <2>1. ASSUME NEW t \in Threads, NEW d \in Dids, StartCreate(t, d) PROVE ClockHeld'
    BY <2>1 DEF StartCreate
  <2>2. ASSUME NEW t \in Threads, ReadClock(t) \/ StartCleanup(t) PROVE ClockHeld'
    BY <2>2 DEF ReadClock, StartCleanup
  <2>3. ASSUME NEW t \in Threads, Retain(t) \/ Recheck(t) \/ Scan(t) \/ Evict(t)
        PROVE  ClockHeld'
    BY <2>3 DEF Retain, Recheck, Scan, Evict
  <2>4. ASSUME NEW t \in Threads, NEW n \in Nonces, Draw(t, n) PROVE ClockHeld'
    BY <2>4 DEF Draw
  <2>5. ASSUME NEW t \in Threads, FailBuild(t) \/ Insert(t) \/ ValidateCheck(t)
        PROVE  ClockHeld'
    BY <2>5 DEF FailBuild, Insert, ValidateCheck
  <2>6. ASSUME NEW t \in Threads, NEW c \in challenges, ValidateRemove(t, c)
        PROVE  ClockHeld'
    BY <2>6 DEF ValidateRemove
  <2>7. CASE Tick
    BY <2>7 DEF Tick
  <2>8. CASE UNCHANGED vars
    BY <2>8 DEF vars
  <2> QED
    BY <2>1, <2>2, <2>3, <2>4, <2>5, <2>6, <2>7, <2>8 DEF Next, Step
<1>3. OwnerInv /\ LocalsOK /\ ClockHeld /\ [Next]_vars => [Leaves]_vars
  <2> SUFFICES ASSUME OwnerInv, LocalsOK, ClockHeld, Next PROVE Leaves
    OBVIOUS
  <2> USE DEF OwnerInv, TypeOK, Goto
  <2>1. ASSUME NEW t \in Threads, Retain(t) PROVE Leaves
    BY <2>1 DEF Retain, ClockHeld, Challenge, Frame
  <2>2. ASSUME NEW t \in Threads, Evict(t) PROVE Leaves
    BY <2>2 DEF Evict, Without
  <2>3. ASSUME NEW t \in Threads, Insert(t) PROVE Leaves
    BY <2>3 DEF Insert, Without, OneOwnerPerNonce, Holders, StoredNonces
  <2>4. ASSUME NEW t \in Threads, NEW c \in challenges, ValidateRemove(t, c) PROVE Leaves
    BY <2>4 DEF ValidateRemove, Without, NoFrame
  <2>5. CASE challenges' = challenges
    BY <2>5
  <2> QED
    BY <2>1, <2>2, <2>3, <2>4, <2>5
    DEF Next, Step, Tick, StartCreate, ReadClock, StartCleanup, Recheck, Scan, Draw,
        FailBuild, ValidateCheck
<1> QED
  BY <1>1, <1>2, <1>3, TypeCorrect, SingleUseHolds, PTL
  DEF Spec, LiveLeavesOnlyIfConsumedOrEvicted, OwnerInv
=============================================================================
