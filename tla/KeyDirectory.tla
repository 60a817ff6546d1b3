---------------------------- MODULE KeyDirectory ----------------------------
(***************************************************************************)
(* The key directory a service publishes (src/aqua-auth-directory): a      *)
(* KeyRegistry, the documents rendered from it, and verifiers that cache   *)
(* them for the advertised max-age.  A copy may also be taken from another *)
(* verifier's cache, ageing with it.  Both views are rendered from the     *)
(* same active keys with the same max-age, so one document stands for      *)
(* either; a key's JWK and thumbprint are one-to-one with its DID.         *)
(*                                                                         *)
(* The service registers keys at any time, with any windows: before they   *)
(* become valid, while they are or when they no longer are; one inside     *)
(* another, overlapping or apart.                                          *)
(***************************************************************************)
EXTENDS Naturals, FiniteSets

CONSTANTS
    Candidates,         \* keys the service may try to register: [did, nbf, exp]
    Ed25519DidKeys,     \* DIDs ed25519_pubkey_from_did_key parses
    Verifiers,          \* caches of the document
    MinCache,           \* MIN_CACHE_SECONDS
    MaxTime             \* bound on the clock

ASSUME DirectoryAssumptions ==
    /\ MinCache \in Nat \ {0} /\ MaxTime \in Nat
    /\ \A k \in Candidates : k.nbf \in Nat /\ k.exp \in Nat

VARIABLES
    registry,   \* KeyRegistry::keys; their order decides nothing here
    clock,      \* unix seconds
    copy,       \* copy[v]: the document verifier v holds
    \* History variable: read by the properties, by no action.
    added       \* added[k]: when k was registered first

vars == <<registry, clock, copy, added>>

NoDocument == [keys |-> {}, rendered |-> 0, max_age |-> 0]

\* A faulty variant of what follows: nbf taken as exclusive.
is_active_after(k, now) == k.nbf < now /\ now < k.exp

\* nbf is inclusive, exp exclusive.
is_active_at(k, now) == k.nbf <= now /\ now < k.exp

active(now) == {k \in registry : is_active_at(k, now)}

Least(S) == CHOOSE x \in S : \A y \in S : x <= y
Greatest(S) == CHOOSE x \in S : \A y \in S : x >= y

\* A faulty variant of what follows: a document kept until its last key lapses.
CacheUntilLast(keys, now) == Greatest({k.exp - now : k \in keys} \cup {MinCache})

\* cache_seconds: until the soonest expiry, but never below the floor.
cache_seconds(keys, now) ==
    IF keys = {} THEN MinCache
    ELSE Greatest({Least({k.exp - now : k \in keys}), MinCache})

\* render_jwks and render_aqua_identity.
render(now) ==
    [keys |-> active(now), rendered |-> now, max_age |-> cache_seconds(active(now), now)]

Fresh(doc) == clock < doc.rendered + doc.max_age

Init ==
    /\ registry = {}
    /\ clock = 0
    /\ copy = [v \in Verifiers |-> NoDocument]
    /\ added = [k \in Candidates |-> 0]

\* What KeyRegistry::add accepts.
Advertisable == {k \in Candidates : k.nbf < k.exp /\ k.did \in Ed25519DidKeys}

\* add refuses an empty window and a DID that is not an Ed25519 did:key.
Add(k) ==
    /\ registry' = registry \cup ({k} \cap Advertisable)
    /\ added' = [added EXCEPT ![k] = IF k \in registry' \ registry THEN clock ELSE @]
    /\ UNCHANGED <<clock, copy>>

\* A verifier without a fresh copy fetches the document,
Fetch(v) ==
    /\ ~Fresh(copy[v])
    /\ copy' = [copy EXCEPT ![v] = render(clock)]
    /\ UNCHANGED <<registry, clock, added>>

\* or is served a fresh copy from a cache on the way.
FetchCached(v, u) ==
    /\ ~Fresh(copy[v]) /\ Fresh(copy[u])
    /\ copy' = [copy EXCEPT ![v] = copy[u]]
    /\ UNCHANGED <<registry, clock, added>>

Tick ==
    /\ clock < MaxTime
    /\ clock' = clock + 1
    /\ UNCHANGED <<registry, copy, added>>

Next ==
    \/ \E k \in Candidates : Add(k)
    \/ \E v \in Verifiers : Fetch(v) \/ \E u \in Verifiers : FetchCached(v, u)
    \/ Tick

Spec == Init /\ [][Next]_vars

-----------------------------------------------------------------------------
(* Properties *)

\* Every variable keeps the shape the code's types give it, and every key stored
\* is one that rendering can advertise.
TypeOK ==
    /\ registry \subseteq Advertisable
    /\ clock \in Nat
    /\ copy \in [Verifiers -> [keys : SUBSET Candidates, rendered : Nat, max_age : Nat]]
    /\ added \in [Candidates -> Nat]

\* A verifier that honours max-age relies on a key that has expired only within
\* the floor cache_seconds puts under max-age: never longer than MinCache after
\* the document was rendered.
ExpiredOnlyWithinFloor ==
    \A v \in Verifiers : Fresh(copy[v]) =>
        \A k \in copy[v].keys : k.exp <= clock => clock < copy[v].rendered + MinCache

\* What a fresh copy, however it came by, may miss: a live key only if it became
\* valid or was registered after the rendering, and past the floor only while every
\* key the copy does list is live.  So a successor is not missed beyond the life of
\* the keys before it, nor a first key beyond the floor: the refetch "at that
\* moment" of render.rs:110-114, and both keys of an overlap, lib.rs:63-66.
MissedOnlyWhileOthersLive ==
    \A v \in Verifiers : \A k \in active(clock) \ copy[v].keys :
        Fresh(copy[v]) =>
            /\ k.nbf > copy[v].rendered \/ added[k] >= copy[v].rendered
            /\ \/ clock < copy[v].rendered + MinCache
               \/ copy[v].keys # {} /\ \A j \in copy[v].keys : is_active_at(j, clock)
=============================================================================
