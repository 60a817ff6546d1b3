--------------------- MODULE WebauthnCredentialsProofs ----------------------
(***************************************************************************)
(* Proofs about WebauthnCredentials, for any number of credential ids,     *)
(* keys, registrations and logins.                                         *)
(*                                                                         *)
(* BoundToItsOwner and CounterRemembersLogins are inductive once the types *)
(* are known.  CloneNeedsARace follows the counter: the check was made     *)
(* against the stored one, which is the highest spent.                     *)
(* SessionIsForTheDidAsked needs the invariant AskedInv: from the moment a *)
(* login is started until it has read the row, every passkey it may be     *)
(* answered with still belongs to the DID it was started for, unless the   *)
(* row was deleted or registered anew.                                     *)
(***************************************************************************)
EXTENDS WebauthnCredentials, TLAPS

-----------------------------------------------------------------------------
(* Types *)

\* Whatever register_finish binds a credential to is a DID the model knows.
LEMMA BoundDidIsDid ==
    ASSUME NEW w \in Wallets \cup {NoDid}, NEW v \in Wallets \cup {NoDid}, NEW k \in Keys,
           BoundDid(w, v, k) # NoDid
    PROVE  /\ BoundDid(w, v, k) \in Dids
           /\ \/ w = BoundDid(w, v, k) /\ v = BoundDid(w, v, k)
              \/ w = NoDid /\ BoundDid(w, v, k) = DidKey(k)
<1>1. CASE w # NoDid
  BY <1>1 DEF BoundDid, Dids
<1>2. CASE w = NoDid
  BY <1>2 DEF BoundDid, Dids
<1> QED
  BY <1>1, <1>2

\* A login that has been answered knows which passkey signed.
Answered == \A l \in Logins : login[l].at \in {"verified", "checked", "in"} => login[l].passkey \in Passkey

TypeInv == TypeOK /\ Answered

\* A step that replaces one login frame by another of the right type.
LEMMA FrameReplaced ==
    ASSUME TypeInv, NEW l \in Logins, NEW f \in LoginFrame, login' = [login EXCEPT ![l] = f],
           f.at \in {"verified", "checked", "in"} => f.passkey \in Passkey
    PROVE  login' \in [Logins -> LoginFrame] /\ Answered'
BY DEF TypeInv, TypeOK, Answered

\* Every step of every ceremony keeps the types.
LEMMA TypeInvHolds == Spec => []TypeInv
<1>1. Init => TypeInv
  BY CredentialAssumptions
  DEF Init, TypeInv, TypeOK, Answered, StartedRegistration, LoginFrame, NoPasskey
<1>2. TypeInv /\ [Next]_vars => TypeInv'
  <2> SUFFICES ASSUME TypeInv, [Next]_vars PROVE TypeInv'
    OBVIOUS
  <2> USE CredentialAssumptions
  <2>1. ASSUME NEW r \in Registrations, NEW w \in Wallets \cup {NoDid}, RegisterStart(r, w)
        PROVE  TypeInv'
    BY <2>1 DEF TypeInv, TypeOK, Answered, RegisterStart, StartedRegistration, list_for_did
  <2>2. ASSUME NEW r \in Registrations, NEW w \in Wallets \cup {NoDid}, NEW p \in Passkey,
               RegisterFinish(r, p, w)
        PROVE  TypeInv'
    <3> DEFINE did == BoundDid(reg[r].intended_did, w, p.key)
    <3>1. reg' \in [Registrations -> StartedRegistration] /\ login' = login
      BY <2>2 DEF TypeInv, TypeOK, RegisterFinish, StartedRegistration
    <3>2. CASE did = NoDid
      BY <2>2, <3>1, <3>2 DEF TypeInv, TypeOK, Answered, RegisterFinish
    <3>3. CASE did # NoDid
      <4>1. reg[r].intended_did \in Wallets \cup {NoDid} /\ p.key \in Keys /\ p.id \in CredIds
        BY DEF TypeInv, TypeOK, StartedRegistration, Passkey
      <4>2. did \in Dids
        BY <3>3, <4>1, BoundDidIsDid
      <4> HIDE DEF did
      <4> DEFINE row == [did |-> did, key |-> p.key, sign_count |-> 0]
      <4>3. row \in StoredCredential
        BY <4>1, <4>2 DEF StoredCredential
      <4>4. insert(p.id, row)
        BY <2>2, <3>3 DEF RegisterFinish, did
      <4> HIDE DEF row
      <4>5. creds' \in [CredIds -> StoredCredential \cup {NotFound}]
        BY <4>1, <4>3, <4>4 DEF insert, TypeInv, TypeOK
      <4>6. spent' \in [CredIds -> 0..MaxCount] /\ stale' \subseteq Logins \X CredIds
        BY <4>1, <4>4 DEF insert, TypeInv, TypeOK
      <4> QED
        BY <3>1, <4>5, <4>6 DEF TypeInv, TypeOK, Answered
    <3> QED
      BY <3>2, <3>3
  <2>3. ASSUME NEW l \in Logins, NEW did \in Dids, LoginStart(l, did) PROVE TypeInv'
    <3> DEFINE f == [login[l] EXCEPT !.at = "started", !.asked = did, !.passkeys = PasskeysOf(did)]
    <3>1. PasskeysOf(did) \subseteq Passkey
      BY DEF PasskeysOf, list_for_did, Passkey, TypeInv, TypeOK, Stored, StoredCredential
    <3>2. f \in LoginFrame /\ f.at = "started"
      BY <3>1 DEF TypeInv, TypeOK, LoginFrame
    <3>3. login' = [login EXCEPT ![l] = f]
      BY <2>3 DEF LoginStart, TypeInv, TypeOK
    <3> HIDE DEF f
    <3> QED
      BY <2>3, <3>2, <3>3, FrameReplaced DEF TypeInv, TypeOK, LoginStart
  <2>4. ASSUME NEW l \in Logins, NEW p \in Passkey, NEW n \in 0..MaxCount, LoginFinish(l, p, n)
        PROVE  TypeInv'
    <3> DEFINE f == [login[l] EXCEPT !.at = "verified", !.passkey = p, !.counter = n]
    <3>1. f \in LoginFrame /\ f.passkey \in Passkey
      BY DEF TypeInv, TypeOK, LoginFrame
    <3>2. login' = [login EXCEPT ![l] = f]
      BY <2>4 DEF LoginFinish, TypeInv, TypeOK
    <3> HIDE DEF f
    <3> QED
      BY <2>4, <3>1, <3>2, FrameReplaced DEF TypeInv, TypeOK, LoginFinish
  <2>5. ASSUME NEW l \in Logins, LookUp(l) PROVE TypeInv'
    <3> DEFINE id == login[l].passkey.id
    <3>0. login[l] \in LoginFrame /\ login[l].passkey \in Passkey /\ id \in CredIds
      BY <2>5 DEF TypeInv, TypeOK, Answered, LookUp, Passkey
    <3>1. CASE Stored(id) /\ Advances(login[l].counter, creds[id].sign_count)
      <4> DEFINE f == [login[l] EXCEPT !.at = "checked", !.did = creds[id].did, !.spentThen = spent[id]]
      <4>1. creds[id].did \in Dids /\ spent[id] \in 0..MaxCount
        BY <3>0, <3>1 DEF TypeInv, TypeOK, Stored, StoredCredential
      <4>2. f \in LoginFrame /\ f.passkey \in Passkey
        BY <3>0, <4>1 DEF LoginFrame
      <4>3. login' = [login EXCEPT ![l] = f]
        BY <2>5, <3>1 DEF LookUp, TypeInv, TypeOK
      <4> HIDE DEF f, id
      <4> QED
        BY <2>5, <4>2, <4>3, FrameReplaced DEF TypeInv, TypeOK, LookUp
    <3>2. CASE ~(Stored(id) /\ Advances(login[l].counter, creds[id].sign_count))
      <4> DEFINE f == [login[l] EXCEPT !.at = "refused"]
      <4>1. f \in LoginFrame /\ f.passkey \in Passkey
        BY <3>0 DEF LoginFrame
      <4>2. login' = [login EXCEPT ![l] = f]
        BY <2>5, <3>2 DEF LookUp, TypeInv, TypeOK
      <4> HIDE DEF f, id
      <4> QED
        BY <2>5, <4>1, <4>2, FrameReplaced DEF TypeInv, TypeOK, LookUp
    <3> QED
      BY <3>1, <3>2
  <2>6. ASSUME NEW l \in Logins, UpdateSignCount(l) PROVE TypeInv'
    <3> DEFINE id == login[l].passkey.id
               n == login[l].counter
    <3>0. /\ login[l] \in LoginFrame /\ login[l].passkey \in Passkey
          /\ id \in CredIds /\ n \in 0..MaxCount
      BY <2>6 DEF TypeInv, TypeOK, Answered, UpdateSignCount, Passkey, LoginFrame
    <3>1. PICK label \in {"in", "refused"} : login' = [login EXCEPT ![l].at = label]
      BY <2>6 DEF UpdateSignCount
    <3> DEFINE f == [login[l] EXCEPT !.at = label]
    <3>2. f \in LoginFrame /\ f.passkey \in Passkey
      BY <3>0 DEF LoginFrame
    <3>3. login' = [login EXCEPT ![l] = f]
      BY <3>1 DEF TypeInv, TypeOK
    <3>4. login' \in [Logins -> LoginFrame] /\ Answered'
      BY <3>2, <3>3, FrameReplaced
    <3>5. spent' \in [CredIds -> 0..MaxCount]
      BY <2>6, <3>0 DEF UpdateSignCount, TypeInv, TypeOK
    <3>6. creds' \in [CredIds -> StoredCredential \cup {NotFound}]
      <4>1. CASE creds' = creds
        BY <4>1 DEF TypeInv, TypeOK
      <4>2. CASE Stored(id) /\ creds' = [creds EXCEPT ![id].sign_count = n]
        <5>1. creds[id] \in StoredCredential
          BY <3>0, <4>2 DEF TypeInv, TypeOK, Stored
        <5>2. [creds[id] EXCEPT !.sign_count = n] \in StoredCredential
          BY <3>0, <5>1 DEF StoredCredential
        <5> QED
          BY <3>0, <4>2, <5>2 DEF TypeInv, TypeOK
      <4> QED
        BY <2>6, <4>1, <4>2 DEF UpdateSignCount
    <3> QED
      BY <2>6, <3>4, <3>5, <3>6 DEF UpdateSignCount, TypeInv, TypeOK
  <2>7. ASSUME NEW did \in Dids, NEW id \in CredIds, Delete(did, id) PROVE TypeInv'
    BY <2>7 DEF TypeInv, TypeOK, Answered, Delete
  <2>8. CASE UNCHANGED vars
    BY <2>8 DEF TypeInv, TypeOK, Answered, vars
  <2> QED
    BY <2>1, <2>2, <2>3, <2>4, <2>5, <2>6, <2>7, <2>8 DEF Next
<1> QED
  BY <1>1, <1>2, PTL DEF Spec

-----------------------------------------------------------------------------
(* Owners *)

\* Every stored credential is bound to the DID that registered it, whatever
\* registrations, logins and deletions run side by side (register_finish).
THEOREM OwnerHolds == Spec => []BoundToItsOwner
<1>1. Init => BoundToItsOwner
  BY DEF Init, BoundToItsOwner, Stored
<1>2. TypeInv /\ BoundToItsOwner /\ [Next]_vars => BoundToItsOwner'
  <2> SUFFICES ASSUME TypeInv, BoundToItsOwner, [Next]_vars PROVE BoundToItsOwner'
    OBVIOUS
  <2>1. ASSUME bindings' = bindings,
               \A id \in CredIds : Stored(id)' => /\ Stored(id)
                                                  /\ creds'[id].did = creds[id].did
                                                  /\ creds'[id].key = creds[id].key
        PROVE  BoundToItsOwner'
    BY <2>1 DEF BoundToItsOwner
  <2>2. ASSUME NEW r \in Registrations, NEW w \in Wallets \cup {NoDid}, NEW p \in Passkey,
               RegisterFinish(r, p, w)
        PROVE  BoundToItsOwner'
    <3> DEFINE begun == reg[r].intended_did
               did == BoundDid(begun, w, p.key)
               b == [did |-> did, key |-> p.key, begun |-> begun, ended |-> w]
    <3>1. CASE did = NoDid
      BY <2>1, <2>2, <3>1 DEF RegisterFinish, Stored
    <3>2. CASE did # NoDid
      <4>1. begun \in Wallets \cup {NoDid} /\ p.key \in Keys /\ p.id \in CredIds
        BY DEF TypeInv, TypeOK, StartedRegistration, Passkey
      <4>2. \/ begun = did /\ w = did
            \/ begun = NoDid /\ did = DidKey(p.key)
        BY <3>2, <4>1, BoundDidIsDid
      <4>3. bindings' = bindings \cup {b}
        BY <2>2, <3>2 DEF RegisterFinish
      <4>4. creds' = [creds EXCEPT ![p.id] = [did |-> did, key |-> p.key, sign_count |-> 0]]
        BY <2>2, <3>2 DEF RegisterFinish, insert
      <4> HIDE DEF did, begun
      <4>5. ASSUME NEW id \in CredIds, Stored(id)'
            PROVE  \E c \in bindings' : /\ c.did = creds'[id].did /\ c.key = creds'[id].key
                                        /\ \/ c.begun = c.did /\ c.ended = c.did
                                           \/ c.begun = NoDid /\ c.did = DidKey(c.key)
        <5>1. CASE id = p.id
          <6>1. creds'[id].did = did /\ creds'[id].key = p.key
            BY <4>1, <4>4, <5>1 DEF TypeInv, TypeOK
          <6>2. b \in bindings'
            BY <4>3
          <6> QED
            BY <4>2, <6>1, <6>2
        <5>2. CASE id # p.id
          <6>1. creds'[id] = creds[id]
            BY <4>4, <5>2 DEF TypeInv, TypeOK
          <6> QED
            BY <4>3, <4>5, <6>1 DEF BoundToItsOwner, Stored
        <5> QED
          BY <5>1, <5>2
      <4> QED
        BY <4>5 DEF BoundToItsOwner
    <3> QED
      BY <3>1, <3>2
  <2>3. ASSUME NEW l \in Logins, UpdateSignCount(l) PROVE BoundToItsOwner'
    <3> DEFINE id == login[l].passkey.id
    <3>1. id \in CredIds
      BY <2>3 DEF TypeInv, TypeOK, Answered, UpdateSignCount, Passkey
    <3>2. CASE creds' = creds
      BY <2>1, <2>3, <3>2 DEF UpdateSignCount, Stored
    <3>3. CASE Stored(id) /\ creds' = [creds EXCEPT ![id].sign_count = login[l].counter]
      <4>1. creds[id] \in StoredCredential
        BY <3>1, <3>3 DEF TypeInv, TypeOK, Stored
      <4>2. \A i \in CredIds : Stored(i)' => /\ Stored(i)
                                             /\ creds'[i].did = creds[i].did
                                             /\ creds'[i].key = creds[i].key
        BY <3>1, <3>3, <4>1 DEF TypeInv, TypeOK, Stored, StoredCredential
      <4> QED
        BY <2>1, <2>3, <4>2 DEF UpdateSignCount
    <3> QED
      BY <2>3, <3>2, <3>3 DEF UpdateSignCount
  <2>4. ASSUME NEW did \in Dids, NEW id \in CredIds, Delete(did, id) PROVE BoundToItsOwner'
    BY <2>1, <2>4 DEF Delete, Stored, TypeInv, TypeOK
  <2>5. CASE UNCHANGED <<creds, bindings>>
    BY <2>1, <2>5 DEF Stored
  <2> QED
    BY <2>2, <2>3, <2>4, <2>5
    DEF Next, vars, RegisterStart, LoginStart, LoginFinish, LookUp
<1> QED
  BY <1>1, <1>2, TypeInvHolds, PTL DEF Spec

-----------------------------------------------------------------------------
(* Counters *)

\* The stored counter is the highest a session was minted with, in whatever
\* order concurrent logins persist theirs (update_sign_count).
THEOREM CounterHolds == Spec => []CounterRemembersLogins
<1>1. Init => CounterRemembersLogins
  BY DEF Init, CounterRemembersLogins, Stored
<1>2. TypeInv /\ CounterRemembersLogins /\ [Next]_vars => CounterRemembersLogins'
  <2> SUFFICES ASSUME TypeInv, CounterRemembersLogins, [Next]_vars PROVE CounterRemembersLogins'
    OBVIOUS
  <2>1. ASSUME NEW r \in Registrations, NEW w \in Wallets \cup {NoDid}, NEW p \in Passkey,
               RegisterFinish(r, p, w)
        PROVE  CounterRemembersLogins'
    BY <2>1 DEF RegisterFinish, insert, TypeInv, TypeOK, CounterRemembersLogins, Stored
  <2>2. ASSUME NEW l \in Logins, UpdateSignCount(l) PROVE CounterRemembersLogins'
    <3> DEFINE id == login[l].passkey.id
               n == login[l].counter
    <3>1. id \in CredIds /\ n \in 0..MaxCount
      BY <2>2 DEF TypeInv, TypeOK, Answered, UpdateSignCount, Passkey, LoginFrame
    <3>2. CASE Stored(id)
      <4>1. /\ creds[id] \in StoredCredential /\ spent[id] \in Nat /\ n \in Nat
            /\ creds[id].sign_count = spent[id]
        BY <3>1, <3>2 DEF TypeInv, TypeOK, Stored, CounterRemembersLogins
      <4>2. \A i \in CredIds \ {id} : creds'[i] = creds[i] /\ spent'[i] = spent[i]
        BY <2>2, <3>2 DEF UpdateSignCount, TypeInv, TypeOK
      <4>3. creds'[id].sign_count = spent'[id]
        BY <2>2, <3>1, <3>2, <4>1 DEF UpdateSignCount, TypeInv, TypeOK, StoredCredential
      <4> QED
        BY <4>2, <4>3 DEF CounterRemembersLogins, Stored
    <3>3. CASE ~Stored(id)
      BY <2>2, <3>3 DEF UpdateSignCount, CounterRemembersLogins, Stored
    <3> QED
      BY <3>2, <3>3
  <2>3. ASSUME NEW did \in Dids, NEW id \in CredIds, Delete(did, id) PROVE CounterRemembersLogins'
    BY <2>3 DEF Delete, Stored, TypeInv, TypeOK, CounterRemembersLogins
  <2>4. CASE UNCHANGED <<creds, spent>>
    BY <2>4 DEF Stored, CounterRemembersLogins
  <2> QED
    BY <2>1, <2>2, <2>3, <2>4
    DEF Next, vars, RegisterStart, LoginStart, LoginFinish, LookUp
<1> QED
  BY <1>1, <1>2, TypeInvHolds, PTL DEF Spec

\* A login the regression check lets through reports more than every login that
\* had minted a session when its row was read, for any number of logins.
THEOREM CloneHolds == Spec => []CloneNeedsARace
<1>1. Init => CloneNeedsARace
  BY DEF Init, CloneNeedsARace
<1>2. TypeInv /\ CounterRemembersLogins /\ CloneNeedsARace /\ [Next]_vars => CloneNeedsARace'
  <2> SUFFICES ASSUME TypeInv, CounterRemembersLogins, CloneNeedsARace, [Next]_vars
               PROVE  CloneNeedsARace'
    OBVIOUS
  <2> USE DEF CloneNeedsARace
  <2>1. ASSUME NEW l \in Logins, NEW did \in Dids, LoginStart(l, did) PROVE CloneNeedsARace'
    BY <2>1 DEF LoginStart, TypeInv, TypeOK, LoginFrame
  <2>2. ASSUME NEW l \in Logins, NEW p \in Passkey, NEW n \in 0..MaxCount, LoginFinish(l, p, n)
        PROVE  CloneNeedsARace'
    BY <2>2 DEF LoginFinish, TypeInv, TypeOK, LoginFrame
  <2>3. ASSUME NEW l \in Logins, LookUp(l) PROVE CloneNeedsARace'
    <3> DEFINE id == login[l].passkey.id
    <3>1. id \in CredIds
      BY <2>3 DEF TypeInv, TypeOK, Answered, LookUp, Passkey
    <3>2. Stored(id) => creds[id].sign_count = spent[id]
      BY <3>1 DEF CounterRemembersLogins
    <3>3. \A m \in Logins \ {l} : login'[m] = login[m]
      BY <2>3 DEF LookUp, TypeInv, TypeOK
    <3>4. login'[l].at = "checked" => Advances(login'[l].counter, login'[l].spentThen)
      BY <2>3, <3>1, <3>2 DEF LookUp, TypeInv, TypeOK, LoginFrame
    <3>5. login'[l].at # "in"
      BY <2>3 DEF LookUp, TypeInv, TypeOK, LoginFrame
    <3> QED
      BY <3>3, <3>4, <3>5
  <2>4. ASSUME NEW l \in Logins, UpdateSignCount(l) PROVE CloneNeedsARace'
    BY <2>4 DEF UpdateSignCount, TypeInv, TypeOK, LoginFrame
  <2>5. CASE UNCHANGED login
    BY <2>5
  <2> QED
    BY <2>1, <2>2, <2>3, <2>4, <2>5 DEF Next, vars, RegisterStart, RegisterFinish, Delete
<1> QED
  BY <1>1, <1>2, TypeInvHolds, CounterHolds, PTL DEF Spec

-----------------------------------------------------------------------------
(* The DID a session is minted for *)

\* The row of id, if there is one, belongs to the DID login l was started for.
StillAsked(l, id) ==
    Stored(id) => creds[id].did = login[l].asked \/ <<l, id>> \in stale

\* Until login l has read the row, every passkey it may be answered with still
\* belongs to the DID asked; afterwards the DID read is that one.
AskedInv ==
    \A l \in Logins :
        /\ login[l].at = "started" => \A p \in login[l].passkeys : StillAsked(l, p.id)
        /\ login[l].at = "verified" => StillAsked(l, login[l].passkey.id)
        /\ login[l].at \in {"checked", "in"} =>
               login[l].did = login[l].asked \/ <<l, login[l].passkey.id>> \in stale

\* A session is minted for the DID its login was started for, unless the row was
\* registered anew meanwhile, however many ceremonies run (webauthn_store.rs).
THEOREM SessionDidHolds == Spec => []SessionIsForTheDidAsked
<1>1. Init => AskedInv
  BY DEF Init, AskedInv
<1>2. TypeInv /\ AskedInv /\ [Next]_vars => AskedInv'
  <2> SUFFICES ASSUME TypeInv, AskedInv, [Next]_vars PROVE AskedInv'
    OBVIOUS
  <2>0. ASSUME login' = login, stale \subseteq stale',
               \A l \in Logins, id \in CredIds :
                   login[l].at # "idle" /\ StillAsked(l, id) => StillAsked(l, id)'
        PROVE  AskedInv'
    <3>1. \A l \in Logins : \A p \in login[l].passkeys : p.id \in CredIds
      BY DEF TypeInv, TypeOK, LoginFrame, Passkey
    <3>2. \A l \in Logins : login[l].at = "verified" => login[l].passkey.id \in CredIds
      BY DEF TypeInv, Answered, Passkey
    <3> QED
      BY <2>0, <3>1, <3>2 DEF AskedInv
  <2>1. ASSUME NEW r \in Registrations, NEW w \in Wallets \cup {NoDid}, NEW p \in Passkey,
               RegisterFinish(r, p, w)
        PROVE  AskedInv'
    <3>1. login' = login /\ stale \subseteq stale'
      BY <2>1 DEF RegisterFinish, insert
    <3>2. ASSUME NEW l \in Logins, NEW id \in CredIds, login[l].at # "idle", StillAsked(l, id)
          PROVE  StillAsked(l, id)'
      BY <2>1, <3>1, <3>2 DEF RegisterFinish, insert, StillAsked, Stored, TypeInv, TypeOK
    <3> QED
      BY <2>0, <3>1, <3>2
  <2>2. ASSUME NEW l \in Logins, NEW did \in Dids, LoginStart(l, did) PROVE AskedInv'
    <3>1. creds' = creds /\ stale' = stale /\ \A m \in Logins \ {l} : login'[m] = login[m]
      BY <2>2 DEF LoginStart, TypeInv, TypeOK
    <3>2. /\ login'[l].at = "started" /\ login'[l].asked = did
          /\ login'[l].passkeys = PasskeysOf(did)
      BY <2>2 DEF LoginStart, TypeInv, TypeOK, LoginFrame
    <3>3. \A p \in PasskeysOf(did) : creds[p.id].did = did
      BY DEF PasskeysOf, list_for_did
    <3> QED
      BY <3>1, <3>2, <3>3 DEF AskedInv, StillAsked, Stored
  <2>3. ASSUME NEW l \in Logins, NEW p \in Passkey, NEW n \in 0..MaxCount, LoginFinish(l, p, n)
        PROVE  AskedInv'
    <3>1. creds' = creds /\ stale' = stale /\ \A m \in Logins \ {l} : login'[m] = login[m]
      BY <2>3 DEF LoginFinish, TypeInv, TypeOK
    <3>2. /\ login'[l].at = "verified" /\ login'[l].asked = login[l].asked
          /\ login'[l].passkey = p
      BY <2>3 DEF LoginFinish, TypeInv, TypeOK, LoginFrame
    <3>3. StillAsked(l, p.id)
      BY <2>3 DEF LoginFinish, AskedInv
    <3> QED
      BY <3>1, <3>2, <3>3 DEF AskedInv, StillAsked, Stored
  <2>4. ASSUME NEW l \in Logins, LookUp(l) PROVE AskedInv'
    <3> DEFINE id == login[l].passkey.id
    <3>1. creds' = creds /\ stale' = stale /\ \A m \in Logins \ {l} : login'[m] = login[m]
      BY <2>4 DEF LookUp, TypeInv, TypeOK
    <3>2. StillAsked(l, id)
      BY <2>4 DEF LookUp, AskedInv
    <3>3. /\ login'[l].asked = login[l].asked /\ login'[l].passkey = login[l].passkey
          /\ \/ login'[l].at = "refused"
             \/ login'[l].at = "checked" /\ Stored(id) /\ login'[l].did = creds[id].did
      BY <2>4 DEF LookUp, TypeInv, TypeOK, LoginFrame
    <3> QED
      BY <3>1, <3>2, <3>3 DEF AskedInv, StillAsked, Stored
  <2>5. ASSUME NEW l \in Logins, UpdateSignCount(l) PROVE AskedInv'
    <3> DEFINE id == login[l].passkey.id
    <3>1. stale' = stale /\ \A m \in Logins \ {l} : login'[m] = login[m]
      BY <2>5 DEF UpdateSignCount, TypeInv, TypeOK
    <3>2. /\ login'[l].asked = login[l].asked /\ login'[l].passkey = login[l].passkey
          /\ login'[l].did = login[l].did /\ login'[l].at \in {"in", "refused"}
          /\ login[l].at = "checked"
      BY <2>5 DEF UpdateSignCount, TypeInv, TypeOK, LoginFrame
    <3>3. id \in CredIds
      BY <3>2 DEF TypeInv, TypeOK, Answered, Passkey
    <3>4. \A i \in CredIds : Stored(i)' => Stored(i) /\ creds'[i].did = creds[i].did
      <4>1. CASE creds' = creds
        BY <4>1 DEF Stored
      <4>2. CASE Stored(id) /\ creds' = [creds EXCEPT ![id].sign_count = login[l].counter]
        <5>1. creds[id] \in StoredCredential
          BY <3>3, <4>2 DEF TypeInv, TypeOK, Stored
        <5> QED
          BY <3>3, <4>2, <5>1 DEF TypeInv, TypeOK, Stored, StoredCredential
      <4> QED
        BY <2>5, <4>1, <4>2 DEF UpdateSignCount
    <3>5. ASSUME NEW m \in Logins \ {l}, NEW i \in CredIds, StillAsked(m, i)
          PROVE  StillAsked(m, i)'
      BY <3>1, <3>4, <3>5 DEF StillAsked
    <3>6. \A m \in Logins : \A p \in login[m].passkeys : p.id \in CredIds
      BY DEF TypeInv, TypeOK, LoginFrame, Passkey
    <3>7. \A m \in Logins : login[m].at = "verified" => login[m].passkey.id \in CredIds
      BY DEF TypeInv, Answered, Passkey
    <3> QED
      BY <3>1, <3>2, <3>5, <3>6, <3>7 DEF AskedInv
  <2>6. ASSUME NEW did \in Dids, NEW id \in CredIds, Delete(did, id) PROVE AskedInv'
    BY <2>0, <2>6 DEF Delete, StillAsked, Stored, TypeInv, TypeOK
  <2>7. CASE UNCHANGED <<creds, login, stale>>
    BY <2>0, <2>7 DEF StillAsked, Stored
  <2> QED
    BY <2>1, <2>2, <2>3, <2>4, <2>5, <2>6, <2>7 DEF Next, vars, RegisterStart
<1>3. AskedInv => SessionIsForTheDidAsked
  BY DEF AskedInv, SessionIsForTheDidAsked
<1> QED
  BY <1>1, <1>2, <1>3, TypeInvHolds, PTL DEF Spec
=============================================================================
