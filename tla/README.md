# TLA+ verification of aqua-auth

aqua-auth is a Rust library for logging in with decentralised identifiers. A
server hands out single-use challenges, a client signs one with the key behind
its DID, and the server answers with a bearer token; requests can also be
authenticated one by one with RFC 9421 signatures carrying single-use nonces.
A client may instead log in with a passkey, at a server that keeps a
credential store or at one that keeps none. What must be right, and is hard to
test, sits in the shared concurrent stores, in the protocols around them, and in
parsers that decide together whose signature a request carries.

This directory models the stores as interleaved steps of any number of threads,
the login protocol over an unreliable network with servers that restart, the DID
methods and the two signature surfaces built on them, both kinds of passkey
login, the published key directory with its caches, and the conformance suite
that judges other implementations. TLC checks them on small instances; TLAPS
proves the safety properties of the stores, of the login protocol, of the two
signature surfaces, of both kinds of passkey login and of the key directory for
every instance.

## 1. Inventory

Paths are relative to the repository. "Stores" are `DashMap`s shared through an
`Arc` by all request handlers.

| Component | Source | State | Operations | Correct when |
|---|---|---|---|---|
| Challenge store | `src/challenge.rs` | map nonce → challenge, capacity, TTL | `create` (with `evict_oldest`), `validate`, `cleanup_expired` | a nonce is honoured at most once and not after it expires; the store is bounded; cleanup takes nothing live |
| Session store and sweep | `src/session.rs`, `src/session_backend.rs` | backend map token → session, two caps, one task per `start_cleanup` | `create`, `revoke`, `revoke_all_for_did`, `validate`, `list_sessions`, `active_count`, `cleanup_expired`, `start_cleanup` | revocation is final and confined to its DID; both caps hold; expired sessions are swept; a task ends when it holds the last reference to the store |
| Replay guard | `src/http_sig/replay.rs` | map nonce → expiry, capacity | `check_and_record`, `cleanup_expired` | a signed request is honoured once within its validity |
| Request verification | `src/http_sig/verify.rs`, `base.rs`, `mod.rs` | none of its own; calls the guard last | `verify_request`, `check_window`, the header profile | only a request within the profile, inside its window, correctly signed and not seen before yields a principal |
| Request signing | `src/http_sig/sign.rs` | none | `sign_request` | what it emits, `verify_request` accepts |
| Login client | `src/client.rs` | an `AuthSession` (token, DID) | `authenticate`, `AuthSession::login`, `send` | signs only a challenge for its own DID and the endpoint it dialled; re-logs in once when the server forgot it |
| Reference handlers | `aqua-auth-testkit/src/lib.rs` | the stores | `challenge_handler`, `session_handler`, `whoami_handler`, `sig_whoami_handler` | a session exists only for a DID whose key signed a challenge issued to it |
| CAIP-122 message, DID helpers | `src/message.rs`, `src/did.rs` | none | build, extract identifier | the identifier read back is the one written |
| DID methods | `src/did_method.rs`, `cipher_suite.rs`, `did_format.rs`, `pkh/`, `key/`, `peer/`, `aqua/` | static registry | dispatch, well-formedness, verify | at most one method claims a DID; the presented key is bound to the DID |
| Principal | `src/principal.rs` | none | constructed by verification only | exists only after a proof of possession |
| Signers, local keys | `src/signer.rs`, `local_key.rs` | key material | `sign`, `public_key`, load, save | signs with the key its DID names |
| WebAuthn store and ceremony | `src/webauthn_store.rs`, `webauthn_ceremony.rs` | credentials by id, signature counters | insert, update, delete; begin and finish of both ceremonies | a counter never moves back unnoticed; a credential belongs to one DID |
| WebAuthn store-free login | `src/webauthn_policy.rs`, `webauthn_recover.rs`, `webauthn_select.rs`, `webauthn_hint.rs`, `login_challenge.rs` | the policy; the recovery pending between two prompts; the hint cookie | build a policy, derive a challenge, verify and recover, select, resolve | a session is for the passkey that signed, from a page of its RP ID; a page that derives the challenge signs for one node only |
| Key directory | `aqua-auth-directory/src/` | key registry | add, render, cache lifetime, thumbprint | past the floor under its lifetime a cached document lists no expired key, and misses a live one only while those it lists are live |
| Conformance suite | `aqua-auth-testkit/src/conformance/` | the report so far; nothing but answers of the server | `Target::new`, eighteen cases, `run_all` | a server is blamed for the rules it breaks and no others, and silence never passes for a refusal |
| Wire types, errors, options, fixtures | `src/wire.rs`, `auth_error.rs`, `crypto_error.rs`, `webauthn_options.rs`, `webauthn.rs`, test signers | none | formatting, parsing | no state of their own |

**How they interact.** `challenge_handler` calls `ChallengeStore::create`;
`session_handler` calls `ChallengeStore::validate`, verifies the signature and
calls `SessionStore::create`; `whoami_handler` calls `SessionStore::validate`;
`sig_whoami_handler` calls `verify_request`, which calls the guard. The task of
`start_cleanup` calls `cleanup_expired` of both stores. Nothing is persisted: a
restart empties everything, and the client answers a 401 with one new login.
Both signature surfaces end in `authenticate`, which checks the DID's shape and
dispatches to its method. The passkey ceremonies touch no storage: the service
that uses them looks credentials up and writes counters between their phases.
The conformance suite sees a server only through its two login endpoints.

**What is hard.** Every store method is a sequence of map calls, each locked on
its own, with no lock over the sequence: `len` then purge then `len` then scan
then remove then insert. Other threads act between any two. Clocks are read
once and used later. The sweep decides from a reference count whether to stop.
At capacity, entries that still matter are thrown away. What a verifier rebuilds
from parsed headers must be what was signed, byte for byte; what a DID parser
accepts must be what the well-formedness check and the verifiers accept. A
passkey assertion recovers two keys of which only one is real. A directory
document outlives the keys in it. A test harness must tell a refusal from an
answer that never came. `PROJECT.json` lists
these hazards at their lines with the properties that would notice them.

## 2. Modules and their correspondence to the code

| Module | Models | Kind |
|---|---|---|
| `NonceLifecycle` | what a challenge store promises: unissued → pending → honoured once, or dropped | abstract specification |
| `ChallengeStore` | `src/challenge.rs` | component |
| `SessionStore` | `src/session.rs`, `src/session_backend.rs` | component |
| `ReplayGuard` | `src/http_sig/replay.rs` and the checks of `verify.rs` around it | component |
| `LoginProtocol` | `src/client.rs` and the handlers of `aqua-auth-testkit/src/lib.rs`, over the promises of the stores | composition |
| `DidMethods` | `did_method.rs`, `cipher_suite.rs`, `did_format.rs`, `pkh/`, `key/`, `peer/`, `aqua/`, `principal.rs`, the DID lines of `message.rs` | operators |
| `HttpSignature` | `src/http_sig/` without the guard's concurrency, and login by signature; extends `DidMethods` | composition |
| `WebauthnCredentials` | `webauthn_store.rs`, `webauthn_ceremony.rs` and the caller they document | component |
| `PasskeyPolicy` | `webauthn_policy.rs`, `webauthn_recover.rs`, `webauthn_select.rs`, `login_challenge.rs` | operators |
| `PasskeyLogin` | store-free passkey login over `PasskeyPolicy`, with the hint cookie | composition |
| `KeyDirectory` | `aqua-auth-directory/src/` and caches of what it publishes | component |
| `Conformance` | `aqua-auth-testkit/src/conformance/` and the servers it judges; extends `DidMethods` | composition |
| `MC...` | small instances of these for TLC | model checking |
| `ChallengeStoreProofs`, `SessionStoreProofs`, `ReplayGuardProofs`, `LoginProtocolProofs`, `HttpSignatureProofs`, `WebauthnCredentialsProofs`, `PasskeyLoginProofs`, `KeyDirectoryProofs` | theorems about the module each is named after | proofs |

The three store modules are written in the same way. The map is the set of its values
(`challenges`, `sessions`, `seen`). `pc[t]` says where thread `t` is between two
map calls and `frame[t]` holds the local variables it will still use, so a value
read before other threads ran is the value it uses afterwards. One action is the
code between two such points: for `create` of the challenge store, `StartCreate`
(well-formedness and the first `len`), `ReadClock`, `Retain`, `Recheck`, `Scan`,
`Evict`, `Draw` or `FailBuild`, `Insert`. A return that changes nothing (unknown
nonce, malformed DID, refused request) is simply not a step. `clock` is the time
in whole seconds and moves by `Tick`.

In `LoginProtocol` a client's `pc` is the await it is suspended at: `asking` for
a challenge, `signing`, `posting` the signature, or in the `first` or `second`
attempt of `send`. A request in `requests` may be handled, lost, or handled after
its client gave up; an answer reaches a client only on the connection it still
waits on. The stores appear by what their own modules establish: a challenge is
spent by the first `validate` that finds it (`NonceLifecycle`), a session is
valid while stored, and either may be forgotten at any time (`Forget...`,
`Restart`). `session_handler` is two steps, `ServeSession` and `MintSession`,
because a restart can come between its two stores. `Strays` are the
servers whose endpoint passes requests on to another server and answers with
another request's challenge, the case the binding checks of
`signed_session_request` are written for.

`DidMethods` holds no state. A DID is the record of what the parsers look at
(method, the part that selects a parser, segments before the address, multicodec,
key) together with the flaws of its spelling; a signature is the key that made
it, what it was made over and how its bytes are spoilt. Every function of the
code that can return an error is an operator whose value is the first error among
the results of its early returns, in their order (`FirstErr`, with `ErrIf` for a
check made on the spot), so that a parser, the well-formedness check and a verifier
can disagree about a spelling exactly where the code's do.

In `HttpSignature` signers sign requests and logins, and an intermediary presents
any signature made so far, under either label, on any request, with the
`Signature-Input` header rewritten in one place (`Rewritings`: every parameter,
the covered components, the syntax), the signature spoilt, or the `Signature`
header holding something else than bytes (`SpoiltHeaders`). Text outside ASCII can
stand wherever the code looks for it. `verify_err` is `verify_request` check by
check. A login is a signature over the message of some challenge, presented under
any DID, with the signer's public key, none, or one of the wrong length; an ML-DSA
signature may have its hint section respelt (`Respelt`). Which challenge a login
answers is `LoginProtocol`'s subject.

`WebauthnCredentials` takes each store method as one step, since it is one
critical section of a `Mutex`, and a ceremony as two: other ceremonies run
between `register_start` and `register_finish`, between `login_finish` and the
lookup, and between the lookup and `update_sign_count`. The authenticator, or a
copy of it, reports any counter.

`PasskeyLogin` starts with the policy builder: any sequence of `add_rp` and
`require_uv` calls, good and bad, before `build`. Nodes are of two kinds. The page
of a node in `Derived` is given a nonce and computes what is signed; the page of
any other node, and every second prompt (`ExpectedChallenge::Exact`, SPEC.md 12.4
step 3), signs bytes as it is sent them. A node may send what it likes, so it may
pass on the nonce or the very challenge that another node awaits (`Elsewhere`). An
ECDSA signature recovers two keys: the signer's, and a twin that depends on what
was signed (`TwinOf`) and that nobody holds. Bytes changed after signing are not
refused; they recover two keys of nobody (`Tamper`, `StrangerOf`). An assertion may
be presented anywhere, again, under another credential id and beside any hint.

`KeyDirectory` lets verifiers fetch a document, or take another's fresh copy with
the age it has, while the service registers keys at any time and with any window
that `add` accepts.

In `Conformance` a case is an operator from the answers it has seen to its next
move: a request, a wait, the next row of its table, or a verdict. Between any two
moves an exchange may get lost (before or after the server handled it), the
server may restart, and the machine may stall past a challenge's life. The wrong
servers are the negative controls of `tests/conformance.rs` and some more, among
them one that makes up the challenge of any nonce it is sent ("rebuilds"), one that
verifies a `did:aqua` signature under any key it is sent ("unbound"), and one that
does both ("trusting"). `Breaks` says which rules each of them breaks, whether or
not the suite notices.

History variables are marked as such where they are declared: `drawn`, `lost`,
`honoured` and `revoked` in the first two stores, `accepted`, `until`, `evicted` (what was evicted since it was last
honoured) and `lost` of the guard, `issued`, `signed`, `minted`, `forgotten`, `executed` and `stale` of
`LoginProtocol`, `spent`, `bindings` and `stale` of `WebauthnCredentials`, `session`
and `tossed` of `PasskeyLogin`, `added` of `KeyDirectory`, `hit` of `Conformance`. They are written for the properties and
read by no action, apart from the freshness of `drawn` that stands for the random
source. In `HttpSignature`, `honoured` and `logins` also serve as bounds.

The faulty variants in each module are plausible slips in the code; no specification uses them, they show that a property can fail.

### Abstractions

- One `DashMap` call is atomic. That is exact for `insert`, `remove`, `get` and
  `entry`, which lock one shard. `len`, `iter` and `retain` walk the shards one
  after the other; the model takes them as one step. A walk that misses a
  concurrent insertion looks like one that ran before it, with one entry
  inserted and another removed behind the walk as the exception.
- 32 random bytes are fresh: no nonce and no token is drawn twice.
- Clocks do not run backwards, and all threads read the same one.
- The text of a challenge is a function of its other fields and is left out.
  What remains of it is whether `build_message` can write it for a DID
  (`Renderable`).
- A request is reduced to nonce, window and `genuine`: within the header profile
  and correctly signed. That is in `ReplayGuard`, which is about concurrency; what
  genuine means is `HttpSignature`, where the guard is one step.
- Hashes do not collide and curve arithmetic is the identity of keys: recovery,
  decoding and commitment yield the key that was put in. The lattice scheme is
  the same; of its encoding only the hint section is modelled, with `Omega` index
  bytes and `K` counts as in FIPS 204.
- A host is a sequence of labels, a URI a record in lower case, a header the
  record of what the structured-field parser reports.
- The WebAuthn library under the credential ceremonies is a predicate: an
  assertion verifies under a passkey the login state offered.
- The identifier line of a message determines the key, so a signature is the
  message signed. Two DIDs may share an identifier, as `did:key:z…` and
  `did:peer:0z…` of one public key do.
- In `LoginProtocol` an origin is a server; parsing and normalising URLs is left out.
- `BackendFails` lets `SessionBackend::insert` fail, as the trait allows and a
  remote backend would; `OverflowChecks` selects the builds in which integer
  overflow panics.

## 3. Runs

| Run | Instance | Checks |
|---|---|---|
| `challenge_store` | 2 threads, 4 nonces, capacity 1, two DIDs of which one cannot be rendered | `TypeOK`, `SingleUse`, `CapacityUpToLostEvictions`, `LiveLeavesOnlyIfConsumedOrEvicted`, `ImplementsLifecycle` |
| `session_store` | 2 handlers, 2 DIDs, 4 tokens, caps 2 and 1, inserts may fail | `TypeOK`, `GlobalCapUpToHandlers`, `PerDidCapUpToLostEvictions`, `RevokedStaysRevoked`, `LiveEndsOnlyByItsOwnDid`, `RevokeAllIsComplete` |
| `session_sweep` | 1 handler, 2 sweeps, 3 tokens, caps of one, fairness of the tasks | `ExpiredIsSwept`, `OnlyTheLastSweepStops` |
| `session_sweep_dies` | 1 handler, 1 sweep, overflow checks | `SweepNeverDies`, violated (below) |
| `replay_guard` | 2 verifiers, capacity 1, 5 requests (2 of them refused) presented up to 5 times in all | `TypeOK`, `RememberedWhileLive`, `CapacityUpToLostEvictions`, `HonouredAgainOnlyIfForgotten` |
| `login` | at one server, 2 clients of one DID with a quota of one and one whose DID is not supported; or, at a server whose endpoint misdirects, 2 clients whose DIDs share a key; one client of each group also sends; a restart of either server | `ProvedPossession`, `SessionsOnlyWhereDialled`, `TokenIsOwn`, `SendExecutesOnce`, `RefusedTwiceOnlyIfForgottenTwice` |
| `http_signature` | 4 signers (Ed25519, secp256k1 without a chain, uncompressed P-256, ML-DSA), 10 DIDs, 5 requests, one of them with a header outside ASCII, 2 signatures, 1 honoured request, 2 logins | `HonouredAsSigned`, `PrincipalHoldsKey`, `SignedVerifies`, `OneEncodingHonoured` |
| `webauthn_credentials` | 2 registrations, 2 logins, 2 credential ids, 2 keys of which one is not P-256, 2 wallets, counters to 2 | `BoundToItsOwner`, `SessionIsForTheDidAsked`, `CounterRemembersLogins`, `CloneNeedsARace` |
| `passkey_login` | 2 users, 3 nodes of which two expect derived challenges, 3 challenges, 2 assertions, 9 builder calls, every kind of page | `MeantUnlessSignedAsSent`, `PrincipalIsSigner`, `TwoPromptsTwoProofs`, `PageBelongsToRpId` |
| `key_directory` | 2 verifiers, four windows, two refused registrations, floor 2, clock to 8 | `ExpiredOnlyWithinFloor`, `MissedOnlyWhileOthersLive` |
| `conformance` | the reference server under two origins and 13 other kinds of server, two target URLs, with and without the expiry wait, at most one disturbance | `BlameIsExact`, `LostIsNeverAPass` |
| `conformance_trusting` | the "trusting" server, undisturbed | `BrokenRulesAreReported`, violated (below) |

The capacity properties say what the checks really bound. A cap is compared
with a length that is stale when the entry is inserted, so it can be exceeded by
the number of threads less one; and where the code evicts, by one more for every
eviction whose victim another thread had already removed. The global session cap
has no such second term, because `create` refuses instead of evicting. The guard
is a replay guard only up to eviction, and the property says so: a nonce is
honoured again only after it was evicted or its signature expired. While the guard
has room, two presentations at once are told apart; at a full guard the slower one
may evict what the faster one recorded.

`session_sweep` shows how the tasks of `start_cleanup` end: the last one to hold
the store stops, and two hold it for each other.

`login` shows that a session exists only for a DID whose key signed a
challenge this server issued to this DID, wherever requests and challenges were
forwarded; that a client's token is its own; that `send` repeats only what was
refused, so nothing is let through twice; and that, unless the endpoint misdirects,
a second 401 means the new session was dropped as well, by a restart, by expiry, or
by another client of the same DID logging in at its quota.

`http_signature` shows that no rewriting, no exchange of labels, DIDs or requests
and no signature made for the other surface makes a verifier honour anything but
what one signer signed, and that whatever `sign_request` emits is honoured while
its window is open. `webauthn_credentials` says what the counter is worth:
concurrent logins leave the highest one stored, and a copied authenticator gets
through only when two logins overlap. A row registered anew during a login is the
one way a session can name another DID than the one asked for.
`passkey_login` shows what a derived challenge is worth: what a deriving page signed
for one node opens nothing at another node, even over a nonce passed on. It
protects only pages that derive; bytes signed as sent, at a node that does not
derive or at any second prompt, may be another node's challenge. Accounts and
cookies that a node makes of its own accord never lead to a key nobody holds, no
hint leads to another passkey, and a second prompt is a second proof.
`key_directory` shows what the floor of `MIN_CACHE_SECONDS` costs: within it, and
only within it, a cached document may list an expired key. What a fresh copy misses
became valid or was registered after the rendering, and past the floor it misses
something only while all the keys it does list are live. `conformance` shows that
undisturbed cases blame exactly the broken rules, whatever earlier cases left on
the server, save the two of `Missed` that `conformance_trusting` is about; and that
no case passes one of whose exchanges was lost. A restart or a stall within a case
can still hide a defect: the server refuses because it has forgotten, and its answer
is all the suite sees.

**Why the bounds are enough.** The races are between two calls, so two threads
meet all of them; a third would repeat a race, and the counts for any number of
threads are the subject of the proofs. Capacities of one
(two for the sessions, over two DIDs) make every call reach the eviction path. The nonces and tokens allow a victim to be chosen,
consumed by the other thread and replaced. Lifetimes of one or two seconds and a
clock of one to three let an entry expire before, between and after the steps of
a call. Threads are interchangeable, hence the symmetry in the safety runs; the
liveness runs use none. DIDs are not permuted: one of them cannot be rendered.
Two calls of a client are a login and a `send` with everything it can lead to:
four requests, any of them lost or late. The two groups of clients of `login` share
no server, and `OneGroup` runs one without the other; the endpoint that misdirects
reaches the first server too, so forwarded challenges and requests are covered.
In `http_signature` two signatures are what a mixture needs, and one honoured
request is enough because the guard's races are `replay_guard`'s; the ten DIDs
hold one key under several spellings and each flaw that two checks treat
differently. Two registrations and two logins of passkeys race for one id and
leave room for a deletion. Three nonces and two assertions are a login with both
prompts and a challenge passed on, or an assertion and a changed copy of it; two
nodes that derive and one that does not are every pair of kinds. The windows of
`key_directory` overlap, lie one in another, start together and leave a gap, each
beside the floor. In `conformance` one disturbance per run falls into every case
at every move.

**Fairness.** `FairSpec` of `SessionStore` assumes weak fairness of the steps of each
sweep task and nothing else: tokio polls a ready task, and `interval` keeps ticking.
Handlers may stop anywhere and clients may never come back, so liveness is
claimed of the sweeps alone. Nothing of the kind is claimed of the login client:
it sets no timeout, so on a connection that is dropped silently a call waits for
ever. Deadlock is checked in the runs of the three stores: an idle thread can
always start a cleanup, and the session store's only final states are those of
`Finished`. The other runs do not check it, since clients, ceremonies, nonces, the
clock and the suite all come to an end for good, and they state no liveness: nothing
obliges a user to answer a prompt.

### Where the code and its documentation disagree

`session_sweep_dies` checks what a comment says and fails: `session.rs:232` has the
task run until the store is dropped, but with overflow checks an insertion during
`purge_expired` makes `before - len()` (`session_backend.rs:148`) panic and ends it.

`conformance_trusting` checks what two cases of the suite say of themselves and fails.
`spec_7_1_unknown_nonce_refused` replaces the nonce of a signed request, the shape
that "distinguishes" a server that consults its `ChallengeStore` from one that
"trusts whatever nonce the client sends" (`cases_nonce_and_did.rs:141-144`); a
server that rebuilds the message from the nonce it is sent refuses the signature,
and passes. (`spec_7_3_nonce_single_use` reports it.)
`spec_6_3_public_key_binding` posts A's signature with B's key; a server that
skips the binding check "would verify" or "accept" (`cases_signature.rs:762-769`),
but one that verifies under whatever key it is sent refuses too, and no case of the
suite reports it.

These follow from the models without a violated run of their own; where a property
is involved, it states what the code does:

- `challenge.rs:145`: an overfull store is something "the next `create` call
  self-corrects". `create` evicts one and inserts one; the excess stays until
  entries expire or are consumed. This is why `CapacityUpToLostEvictions` has the
  term `lost`.
- `challenge.rs:83`: a refused DID returns "having touched nothing". A
  `did:pkh:eip155` DID without a chain passes the well-formedness check and fails
  in `build_message`, after an eviction (`FailBuild`).
- `session.rs:46` says "hard cap" per DID; two creates can evict the same session
  and both insert.
- `replay.rs:80-82`: the order of the checks keeps an eviction from removing "the
  very entry that proves this nonce is a replay", and `:94-95` says that two
  concurrent presentations cannot both be fresh. The slower of two simultaneous
  presentations at a full guard does remove the entry, and both are honoured
  (`HonouredAgainOnlyIfForgotten` counts it as an eviction).
- `session.rs:232-233`: the task "stops when the `SessionStore` Arc is dropped". It
  stops when its clone is the last one, so of two tasks on one store each keeps the
  other alive, for good (`OnlyTheLastSweepStops`, with two tasks).
- `client.rs:234-235`: a second 401 after a successful re-login "is an authorization
  problem, not an expiry". No handler of the testkit answers 401 for want of
  authorization; there it means that the new session is gone too
  (`RefusedTwiceOnlyIfForgottenTwice`).
- `revoke_all_for_did` returns the number of tokens it collected, among them those
  another thread removed first, where `session.rs:175` says "the number of sessions
  removed".
- An uncompressed P-256 `did:key` is accepted by the verifier of `key/mod.rs` and
  refused by the well-formedness check in front of it (`principal.rs:55`); the
  composition refuses it, as `PrincipalHoldsKey` requires.
- `webauthn_select.rs:18-19`, `webauthn_hint.rs:14-15` and SPEC.md:814-815: a wrong
  or tossed hint "cannot select another identity", at worst it costs a prompt.
  `select` takes a hint that names the twin at its word, and the session is in the
  twin's name; from then on the account and the cookie of that login name it too
  when the same assertion comes again (`tossed`). It is never another passkey:
  nobody holds the twin (`PrincipalIsSigner`).
- `login_challenge.rs` binds what is signed to a node, but by SPEC.md 12.4 step 3 a
  second prompt expects `Exact` bytes at every node, so a user who answers one may
  be signing another node's derived challenge (`MeantUnlessSignedAsSent`).
- With `AQUA_CONFORMANCE_EXPIRY_WAIT=1` the negative controls that ignore expiry
  also fail `spec_7_2_challenge_expiry`, where `tests/conformance.rs:422` and `:897`
  say no other case fails. The tests run without it.

## 4. Proofs

All theorems hold for every value of the constants allowed by the assumptions
named in the component modules (`ChallengeAssumptions`, `SessionAssumptions`,
`ReplayAssumptions`, `LoginAssumptions`, `DidMethodsAssumption`,
`HttpSignatureAssumption`, `CredentialAssumptions`, `PasskeyAssumptions`,
`DirectoryAssumptions`). TLC evaluates the assumptions in
every run.

| Theorem | States |
|---|---|
| `ChallengeStoreProofs!TypeCorrect` | `Spec => [](TypeOK /\ LocalsOK)` |
| `ChallengeStoreProofs!SingleUseHolds` | `Spec => [](OneOwnerPerNonce /\ SingleUse)` |
| `ChallengeStoreProofs!CapacityHolds` | `Spec => []CapacityUpToLostEvictions` |
| `ChallengeStoreProofs!LifecycleImplemented` | `Spec => ImplementsLifecycle` |
| `ChallengeStoreProofs!RemovalHolds` | `Spec => LiveLeavesOnlyIfConsumedOrEvicted` |
| `SessionStoreProofs!TypeCorrect` | `Spec => [](TypeOK /\ LocalsOK)` |
| `SessionStoreProofs!GlobalCapHolds` | `Spec => []GlobalCapUpToHandlers` |
| `SessionStoreProofs!PerDidCapHolds` | `Spec => []PerDidCapUpToLostEvictions` |
| `SessionStoreProofs!RevocationIsFinal` | `Spec => []RevokedStaysRevoked` |
| `SessionStoreProofs!RevokeAllHolds` | `Spec => RevokeAllIsComplete` |
| `SessionStoreProofs!LiveEndsHolds` | `Spec => LiveEndsOnlyByItsOwnDid` |
| `ReplayGuardProofs!TypeCorrect` | `Spec => [](TypeOK /\ LocalsOK)` |
| `ReplayGuardProofs!MemoryHolds` | `Spec => []RememberedWhileLive` |
| `ReplayGuardProofs!NoReplay` | `Spec => HonouredAgainOnlyIfForgotten` |
| `ReplayGuardProofs!CapacityHolds` | `Spec => []CapacityUpToLostEvictions` |
| `LoginProtocolProofs!PossessionHolds` | `Spec => []ProvedPossession` |
| `LoginProtocolProofs!DialledHolds` | `Spec => []SessionsOnlyWhereDialled` |
| `LoginProtocolProofs!TokenHolds` | `Spec => []TokenIsOwn` |
| `LoginProtocolProofs!OnceHolds` | `Spec => []SendExecutesOnce` |
| `LoginProtocolProofs!RefusedTwiceHolds` | `Spec => RefusedTwiceOnlyIfForgottenTwice` |
| `HttpSignatureProofs!AsSignedHolds` | `Spec => []HonouredAsSigned` |
| `HttpSignatureProofs!PossessionHolds` | `Spec => []PrincipalHoldsKey` |
| `HttpSignatureProofs!SignedVerifiesHolds` | `Spec => []SignedVerifies` |
| `HttpSignatureProofs!OneEncodingHolds` | `Spec => []OneEncodingHonoured` |
| `HttpSignatureProofs!CanonicalUnique` | canonical hint sections of one hint vector are equal |
| `WebauthnCredentialsProofs!OwnerHolds` | `Spec => []BoundToItsOwner` |
| `WebauthnCredentialsProofs!CounterHolds` | `Spec => []CounterRemembersLogins` |
| `WebauthnCredentialsProofs!CloneHolds` | `Spec => []CloneNeedsARace` |
| `WebauthnCredentialsProofs!SessionDidHolds` | `Spec => []SessionIsForTheDidAsked` |
| `PasskeyLoginProofs!MeantHolds` | `Spec => []MeantUnlessSignedAsSent` |
| `PasskeyLoginProofs!SignerHolds` | `Spec => []PrincipalIsSigner` |
| `PasskeyLoginProofs!TwoProofsHold` | `Spec => []TwoPromptsTwoProofs` |
| `PasskeyLoginProofs!RpIdHolds` | `Spec => []PageBelongsToRpId` |
| `KeyDirectoryProofs!FloorHolds` | `Spec => []ExpiredOnlyWithinFloor` |
| `KeyDirectoryProofs!MissedHolds` | `Spec => []MissedOnlyWhileOthersLive` |

**The stores.** Assumed: threads and tokens are finite sets, caps and lifetimes
natural numbers.

- *Types.* `TypeOK` is not inductive: what an insertion stores is well typed
  only because a thread that far into `create` has a DID and a nonce in its
  frame. `LocalsOK` adds that.
- *Single use.* That a nonce is honoured once follows from who may still
  touch it. `OneOwnerPerNonce` is the inductive part: a nonce is in the map, or
  with the one thread about to insert or judge it, or with nobody.
- *Life cycle.* The same invariant carries the refinement of `NonceLifecycle`: an
  insertion issues a nonce nobody has, the verdict of `validate` honours or drops
  the one nonce its thread took out, purges and evictions drop, and every other
  step of `ChallengeStore` is a stutter.
- *Removal.* A thread in `cleanup_expired` holds a clock that lies in the past
  (`ClockHeld`), so what it takes has expired.
- *Capacity.* With the store finite, the bound is itself inductive. A thread
  is admitted past the check only if the length was below the cap, or by an
  eviction that either shrank the store or was counted in `lost`; the insertion
  gives the admission back. The number of admitted threads never exceeds the
  number of threads. The counts are cardinalities of finite sets, and the library's
  theorems on adding and removing one element are all that is used of them.
- *Revocation.* `TokenInv` says a token about to be inserted was drawn by that
  handler alone and not revoked, and that whatever `revoke_all_for_did` still
  has to remove was drawn before; so no insertion can bring a revoked token back.
- *Whose sessions.* What a handler remembers of the store is stale when it is used:
  the victim of the quota, the session `validate` found, the list of
  `revoke_all_for_did`. `OwnInv` is what remains true of it: a remembered token,
  if still stored, belongs to the same DID and has the expiry that was read,
  because a token names one session and none is drawn twice. Completeness and
  confinement of revocation and the per-DID cap follow from it; without it an
  eviction could free a slot of another DID.
- *Replay.* `MemoryInv` adds to `RememberedWhileLive` that every clock a
  thread holds lies in the past: a purge with a stale clock forgets less, never
  more. `NoReplay` then follows because only the entry operation honours a
  nonce, and it looks first.

**The login protocol.** Any clients, servers and DIDs, any quota, any number of
restarts, with and without misdirection. Each property is the visible part of an
inductive invariant: `CallInv` (a request still awaited is the one its client's
`pc` says it is), `SignedInv` (what is posted was signed and bears the origin
dialled), `ServerInv` (a nonce has one owner: a pending challenge, a request being
handled, or a minted session), `TokenInv` (a token has one owner, in an
`AuthSession` or on the way to it), `OnceInv` (what a `send` has in flight and what
it had executed is at most one) and `ForgetInv` (a minted session is stored or was
dropped, and a refused token was dropped where it was minted).

**Signatures.** Any signers, DIDs, requests, windows and bounds, any number of index
bytes and polynomials in a hint section, the feature `did-aqua` on or off. Assumed:
durations are natural numbers, and hint sections have `Omega` index bytes and `K`
counts. The rewritings are those of the model: one change to a `Signature-Input`
header, any signature under any label on any request.

- *Reading the verifiers backwards.* The equations `Chain2` to `Chain6` say what a
  function with so many early returns answers; with them each parser and verifier
  becomes an equation, and `Verified` follows for all four methods: what verifies was
  signed by the key the DID spells or commits to, over that message. It needs that no
  error a parser can return reads as success.
- *The invariant.* None of the four properties is inductive. `SignedAsMade` adds what
  the signers leave behind (a signature over the message it is filed under, a header
  whose parameters are those of the base, a window that is neither empty nor too long),
  `LoginsAsPresented` what an intermediary can make of it.
- *As signed.* An accepted signature is over the base rebuilt by the verifier and over
  the message of some signer (`SameBase`). Equal bases have equal parameters and equal
  lines; the first line is the authority, and the agreement between the presence of a
  `Signature-Agent` and its coverage, checked by both sides, carries the rest. The
  signer's DID is the `keyid` because a thumbprint finds no DID method (`NoThumbprint`).
- *What is signed verifies* holds check by check, from `SignedAsMade` and `Accepts`: a
  well-formed DID with an algorithm accepts an unspoilt signature of its key.
- *One encoding.* `CanonicalUnique` is an induction over data, done by hand with least
  counterexamples: neighbours that rise make the whole polynomial rise
  (`NeighboursRise`), two rising runs with the same values from the same start are the
  same run (`SameRun`), and the first polynomial in which two canonical sections differ
  would contradict that.

**Passkeys.** In `WebauthnCredentials` ownership and the counter are inductive once
types are known, and `CloneNeedsARace` follows the counter, which is the highest
one spent. `SessionIsForTheDidAsked` needs `AskedInv`: from the start of a login
until it has read the row, every passkey it may be answered with belongs to the DID
asked or was registered anew. In `PasskeyLogin` none of the four properties is
inductive. `PasskeyInv` says of a node that derives that its first challenges are
derived for it (`SlotInv`), and of an unchanged assertion that it is over a
challenge derived for the node its page talked to, or over bytes as sent
(`MadeInv`); a pending recovery holds both candidates of an assertion over another
challenge than the one it waits for (`PendingInv`), so the two have one key in
common, the signer's; and an account or a cookie is of a passkey, or of a DID that a
client's own hint had logged in before (`NamesInv`). Twins are told apart by the
assertion they came from, which is why neither leads anybody else's login there.
Assumed: the URLs of nodes that derive have pairwise different origins.
Two nodes of one origin derive the same challenge, and an assertion for one is then
worth as much at the other; `login_challenge.rs` tells nodes apart by origin alone.

**The directory.** `DocumentOK` says that a copy's `max_age` was computed from its
own keys, that these were live when it was rendered, and that it holds every key
that was registered and live by then, save one that was registered in that very
second. `FloorHolds` needs the first; `MissedHolds` all of them, and that a copy
still fresh past the floor has a `max_age` that ends with its first key to expire
(`FreshPastFloor`). Nothing is assumed of the windows.

**Model-checked only.**

- `ExpiredIsSwept`, `OnlyTheLastSweepStops`: liveness under fairness
  is outside what TLAPS proves.
- `BlameIsExact`, `LostIsNeverAPass` of `Conformance`: each is a
  statement about eighteen fixed cases against fixed kinds of server, which the run
  covers entirely apart from the bound of one disturbance.
- What a recursive definition computes for every input would be out of reach too:
  no module here needs one.

`WebauthnCredentials!TypeOK` and `KeyDirectory!TypeOK` are part of no run; the
proofs establish them.

## 5. Not modelled

- `list_sessions`, `active_count` and the accessors only read. The default
  `purge_expired` of the backend trait is overridden by the only backend of the
  repository.
- Curve and lattice arithmetic, hashing, base58, hex and base64: no state, and no
  small instance says anything about them. The models take them as one-to-one.
- Serde structures and their encodings, structured-field syntax below what the
  profile looks at, the layout and wording of the CAIP-122 message, creation
  options and attestation objects, the rendering of the conformance report: forms
  of data whose content is modelled.
- PEM files and the custody of keys: input and output.
- Error types: they appear as the outcomes of actions and operators.

## 6. Plan

The modules cover every component with state or decisions of its own, and every
invariant and action property is proved but those of `Conformance`. What is left there
is the number of disturbances, which the run bounds by one: `LostIsNeverAPass` for any
number of them, from an invariant that says a lost exchange stays the last answer of its
row (or one of the two crossed posts of `spec_7_7_message_binding`) until the row or the
case is judged.
