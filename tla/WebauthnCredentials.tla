------------------------ MODULE WebauthnCredentials -------------------------
(***************************************************************************)
(* Passkeys kept in a credential store: InMemoryWebauthnStore              *)
(* (src/src/webauthn_store.rs) under the register and login ceremonies of  *)
(* src/src/webauthn_ceremony.rs.                                           *)
(*                                                                         *)
(* Every store method is one critical section of its Mutex, hence one      *)
(* step; the ceremonies touch no storage, so between their phases, and     *)
(* between a lookup and the update that follows it, other ceremonies run.  *)
(* The caller that joins them is the one the documentation of login_finish *)
(* describes: look the credential up, run the regression check, persist    *)
(* the counter, mint a session.  A counter is whatever the authenticator,  *)
(* or a clone of it, reports.  Labels, transports and created_at decide    *)
(* nothing here and are left out.                                          *)
(***************************************************************************)
EXTENDS Naturals, FiniteSets

CONSTANTS
    CredIds,        \* credential ids an authenticator may report
    Keys,           \* credential public keys
    P256Keys,       \* those p256_compressed_from_passkey can compress
    Wallets,        \* DIDs with a session of their own, for second factors
    Registrations,  \* registration ceremonies
    Logins,         \* login ceremonies
    MaxCount        \* bound on the signature counter

ASSUME CredentialAssumptions == P256Keys \subseteq Keys /\ MaxCount \in Nat

VARIABLES
    creds,          \* the map from credential id to StoredCredential
    reg,            \* each registration: the state register_start returned
    login,          \* each login: the state login_start returned, then its result
    \* History variables: read by the properties, by no action.
    spent,          \* spent[id]: highest counter a login minted since id was inserted
    bindings,       \* who began and who finished each registration stored
    stale           \* <<l, id>>: id was inserted anew while login l ran

vars == <<creds, reg, login, spent, bindings, stale>>

NoDid == [p256 |-> "none"]
DidKey(k) == [p256 |-> k]                               \* did:key:zDn...
Dids == Wallets \cup {DidKey(k) : k \in P256Keys}

StoredCredential == [did : Dids, key : Keys, sign_count : 0..MaxCount]
NotFound == [did |-> NoDid]
Passkey == [id : CredIds, key : Keys]
NoPasskey == [id |-> NoDid, key |-> NoDid]

StartedRegistration ==
    [at : {"idle", "started", "done"}, intended_did : Wallets \cup {NoDid}, exclude : SUBSET CredIds]
LoginFrame ==
    [at : {"idle", "started", "verified", "checked", "in", "refused"},
     asked : Dids \cup {NoDid},                 \* the DID the login was started for
     passkeys : SUBSET Passkey,                 \* the credentials in the state
     passkey : Passkey \cup {NoPasskey},        \* the one that signed
     counter : 0..MaxCount, did : Dids \cup {NoDid}, spentThen : 0..MaxCount]

Stored(id) == creds[id] # NotFound

\* The caller's regression check: zero on both sides means no counter at all.
Advances(counter, stored) == counter > stored \/ (counter = 0 /\ stored = 0)

-----------------------------------------------------------------------------
(* Faulty variants, each a plausible slip in the code.                     *)

\* The completing caller is not compared with the DID the challenge recorded.
BoundDidUnchecked(intended, completing, key) ==
    IF intended # NoDid /\ completing # NoDid THEN completing
    ELSE IF key \in P256Keys THEN DidKey(key) ELSE NoDid

\* The filter on the DID forgotten: every credential is offered to everyone.
list_everything(did) == {id \in CredIds : Stored(id) /\ did # NoDid}

\* The last writer wins, whatever the stored counter.
OverwriteCount(l) ==
    LET id == login[l].passkey.id IN
    /\ login[l].at = "checked"
    /\ Stored(id)
    /\ creds' = [creds EXCEPT ![id].sign_count = login[l].counter]
    /\ spent' = [spent EXCEPT ![id] = IF login[l].counter > @ THEN login[l].counter ELSE @]
    /\ login' = [login EXCEPT ![l].at = "in"]
    /\ UNCHANGED <<reg, bindings, stale>>

\* The comparison off by one: the next count in sequence is not stored.
SkipNextCount(l) ==
    LET id == login[l].passkey.id  n == login[l].counter IN
    /\ login[l].at = "checked"
    /\ Stored(id)
    /\ creds' = IF n > creds[id].sign_count + 1 THEN [creds EXCEPT ![id].sign_count = n] ELSE creds
    /\ spent' = [spent EXCEPT ![id] = IF n > @ THEN n ELSE @]
    /\ login' = [login EXCEPT ![l].at = "in"]
    /\ UNCHANGED <<reg, bindings, stale>>

-----------------------------------------------------------------------------
list_for_did(did) == {id \in CredIds : Stored(id) /\ creds[id].did = did}
PasskeysOf(did) == {[id |-> id, key |-> creds[id].key] : id \in list_for_did(did)}

\* The DID register_finish binds a credential to, NoDid when it refuses.
BoundDid(intended, completing, key) ==
    IF intended # NoDid THEN IF completing = intended THEN intended ELSE NoDid
    ELSE IF key \in P256Keys THEN DidKey(key) ELSE NoDid

Init ==
    /\ creds = [id \in CredIds |-> NotFound]
    /\ reg = [r \in Registrations |-> [at |-> "idle", intended_did |-> NoDid, exclude |-> {}]]
    /\ login = [l \in Logins |-> [at |-> "idle", asked |-> NoDid, passkeys |-> {},
                                  passkey |-> NoPasskey, counter |-> 0, did |-> NoDid,
                                  spentThen |-> 0]]
    /\ spent = [id \in CredIds |-> 0]
    /\ bindings = {}
    /\ stale = {}

\* register_start: a second factor for w excludes the ids w already has; NoDid
\* stands for RegisterMode::Anonymous.
RegisterStart(r, w) ==
    /\ reg[r].at = "idle"
    /\ reg' = [reg EXCEPT ![r] = [at |-> "started", intended_did |-> w, exclude |-> list_for_did(w)]]
    /\ UNCHANGED <<creds, login, spent, bindings, stale>>

\* insert: a row with the same id is replaced, owner, key and counter alike.
insert(id, row) ==
    /\ creds' = [creds EXCEPT ![id] = row]
    /\ spent' = [spent EXCEPT ![id] = 0]
    /\ stale' = stale \cup {<<l, id>> : l \in {m \in Logins : login[m].at # "idle"}}

\* register_finish on the attestation p, by the session of `completing` if any,
\* then insert.  An authenticator does not answer for an id it was told to exclude.
RegisterFinish(r, p, completing) ==
    LET did == BoundDid(reg[r].intended_did, completing, p.key) IN
    /\ reg[r].at = "started"
    /\ p.id \notin reg[r].exclude
    /\ reg' = [reg EXCEPT ![r].at = "done"]
    /\ IF did = NoDid THEN UNCHANGED <<creds, spent, bindings, stale>>
       ELSE /\ insert(p.id, [did |-> did, key |-> p.key, sign_count |-> 0])
            /\ bindings' = bindings \cup
                  {[did |-> did, key |-> p.key, begun |-> reg[r].intended_did, ended |-> completing]}
    /\ UNCHANGED login

\* login_start with the passkeys of a DID that has some.
LoginStart(l, did) ==
    /\ login[l].at = "idle"
    /\ list_for_did(did) # {}
    /\ login' = [login EXCEPT ![l].at = "started", ![l].asked = did, ![l].passkeys = PasskeysOf(did)]
    /\ UNCHANGED <<creds, reg, spent, bindings, stale>>

\* login_finish: the assertion verifies under a passkey of the state.
LoginFinish(l, p, counter) ==
    /\ login[l].at = "started"
    /\ p \in login[l].passkeys
    /\ login' = [login EXCEPT ![l].at = "verified", ![l].passkey = p, ![l].counter = counter]
    /\ UNCHANGED <<creds, reg, spent, bindings, stale>>

\* get_by_id, and the caller's regression check against the stored counter.
LookUp(l) ==
    LET id == login[l].passkey.id IN
    /\ login[l].at = "verified"
    /\ IF Stored(id) /\ Advances(login[l].counter, creds[id].sign_count)
       THEN login' = [login EXCEPT ![l].at = "checked", ![l].did = creds[id].did,
                                   ![l].spentThen = spent[id]]
       ELSE login' = [login EXCEPT ![l].at = "refused"]
    /\ UNCHANGED <<creds, reg, spent, bindings, stale>>

\* update_sign_count, then the session; NotFound ends the login.
UpdateSignCount(l) ==
    LET id == login[l].passkey.id  n == login[l].counter IN
    /\ login[l].at = "checked"
    /\ IF Stored(id)
       THEN /\ creds' = IF n > creds[id].sign_count THEN [creds EXCEPT ![id].sign_count = n] ELSE creds
            /\ spent' = [spent EXCEPT ![id] = IF n > @ THEN n ELSE @]
            /\ login' = [login EXCEPT ![l].at = "in"]
       ELSE /\ login' = [login EXCEPT ![l].at = "refused"]
            /\ UNCHANGED <<creds, spent>>
    /\ UNCHANGED <<reg, bindings, stale>>

\* delete by the session of did: only its own rows.
Delete(did, id) ==
    /\ Stored(id) /\ creds[id].did = did
    /\ creds' = [creds EXCEPT ![id] = NotFound]
    /\ UNCHANGED <<reg, login, spent, bindings, stale>>

Next ==
    \/ \E r \in Registrations, w \in Wallets \cup {NoDid} :
            \/ RegisterStart(r, w)
            \/ \E p \in Passkey : RegisterFinish(r, p, w)
    \/ \E l \in Logins :
            \/ \E did \in Dids : LoginStart(l, did)
            \/ \E p \in Passkey, n \in 0..MaxCount : LoginFinish(l, p, n)
            \/ LookUp(l) \/ UpdateSignCount(l)
    \/ \E did \in Dids, id \in CredIds : Delete(did, id)

Spec == Init /\ [][Next]_vars

-----------------------------------------------------------------------------
(* Properties *)

\* Every variable keeps the shape the code's types give it.
TypeOK ==
    /\ creds \in [CredIds -> StoredCredential \cup {NotFound}]
    /\ reg \in [Registrations -> StartedRegistration]
    /\ login \in [Logins -> LoginFrame]
    /\ spent \in [CredIds -> 0..MaxCount]
    /\ stale \subseteq Logins \X CredIds

\* A stored credential was begun and finished by the session of the very DID it
\* is stored for, or begun without a session, and then carries the key its
\* did:key names: no registration finished by one caller ends under the DID of
\* another (register_finish).
BoundToItsOwner ==
    \A id \in CredIds : Stored(id) =>
        \E b \in bindings :
            /\ b.did = creds[id].did /\ b.key = creds[id].key
            /\ \/ b.begun = b.did /\ b.ended = b.did
               \/ b.begun = NoDid /\ b.did = DidKey(b.key)

\* A login begun for one DID mints a session for no other, although the DID is
\* read from the store after the signature was verified: the only exception is a
\* row that was registered anew in between (webauthn_store.rs, insert).
SessionIsForTheDidAsked ==
    \A l \in Logins :
        login[l].at = "in" => \/ login[l].did = login[l].asked
                              \/ <<l, login[l].passkey.id>> \in stale

\* The stored counter is the highest any login has minted a session with since
\* the row was inserted, in whatever order concurrent logins persist theirs
\* (update_sign_count).
CounterRemembersLogins ==
    \A id \in CredIds : Stored(id) => creds[id].sign_count = spent[id]

\* A copied authenticator passes the regression check only in a race: a login
\* that was let through had a higher counter than every login that had minted a
\* session by the time its credential was looked up.
CloneNeedsARace ==
    \A l \in Logins :
        login[l].at \in {"checked", "in"} => Advances(login[l].counter, login[l].spentThen)
=============================================================================
