--------------------------- MODULE PasskeyPolicy ----------------------------
(***************************************************************************)
(* What a store-free verifier decides about one assertion: the policy of   *)
(* src/src/webauthn_policy.rs, the checks and the key recovery of          *)
(* src/src/webauthn_recover.rs, the choice between the recovered keys of   *)
(* src/src/webauthn_select.rs and the challenge of                         *)
(* src/src/login_challenge.rs.                                             *)
(*                                                                         *)
(* A host is the sequence of its lower-case labels, empty ones after a     *)
(* trailing dot; a configured spelling adds what the parser would find     *)
(* beside it.  A challenge is told by what its bytes were made from: the   *)
(* nonce and, when derived, the origin hashed with it, as SHA-256 does not *)
(* collide.  All refusals are one outcome, since callers treat them alike. *)
(***************************************************************************)
EXTENDS Naturals, Sequences, FiniteSets

Labels(host) == {host[i] : i \in DOMAIN host}
Last(host) == host[Len(host)]
Localhost == <<"localhost">>

\* trim_end_matches('.'): up to the last label that is not empty.
TrimDots(host) ==
    SubSeq(host, 1, Cardinality({i \in DOMAIN host : \E j \in i..Len(host) : host[j] # ""}))

\* host_within_rp_id: equal, or a subdomain on a label boundary.
host_within_rp_id(host, rp_id) ==
    LET h == TrimDots(host) IN
    /\ Len(h) >= Len(rp_id)
    /\ SubSeq(h, Len(h) - Len(rp_id) + 1, Len(h)) = rp_id

\* The RP ID a call of add_rp configures, and validate_rp_id, on [host, plain, ip]:
\* plain when only host name characters are left, ip when it parses as an address.
RpId(call) == TrimDots(call.rp.host)
validate_rp_id(raw) ==
    LET r == TrimDots(raw.host) IN
    /\ raw.plain /\ ~raw.ip
    /\ "" \notin Labels(r)
    /\ Len(r) > 1 \/ r = Localhost

\* normalise_origin, on [scheme, host, port, plain, ip, bare]: bare when there is
\* no user info, path, query or fragment.
ValidOrigin(raw) ==
    /\ raw.bare /\ raw.plain
    /\ raw.scheme = "https" \/ (raw.scheme = "http" /\ Last(raw.host) = "localhost")

\* What is left of it: the form in which a browser reports an origin.
normalise_origin(raw) == [scheme |-> raw.scheme, host |-> raw.host, port |-> raw.port]

\* A builder that takes the operator's word for the origins of an RP ID.
OriginsAnywhere(rp_id, origins) == \A o \in origins : ValidOrigin(o)

\* The rules add_rp applies to the origins within the RP ID, and to related ones.
OriginsWithin(rp_id, origins) ==
    \A o \in origins : ValidOrigin(o) /\ host_within_rp_id(o.host, rp_id)
RelatedOrigins(origins) == \A o \in origins : ValidOrigin(o) /\ ~o.ip

\* add_rp: whether the call [rp, origins, related] is accepted by a builder
\* holding `entries`, and the entry it pushes.
AddRpAccepted(entries, call) ==
    /\ validate_rp_id(call.rp)
    /\ \A e \in entries : e.rp_id # RpId(call)
    /\ call.origins \cup call.related # {}
    /\ OriginsWithin(RpId(call), call.origins)
    /\ RelatedOrigins(call.related)

Entry(call) == [rp_id |-> RpId(call),
                origins |-> {normalise_origin(o) : o \in call.origins \cup call.related}]

\* allows_origin, on the entry the rpIdHash of the assertion selects.
Allowed(policy, rp_id, origin) ==
    \E e \in policy.entries : e.rp_id = rp_id /\ origin \in e.origins

-----------------------------------------------------------------------------
NoOrigin == [scheme |-> "none", host |-> <<>>, port |-> 0]

\* Bytes drawn at random, none at all, and what ExpectedChallenge::Exact accepts
\* is any bytes: these or derived ones.
Exact(nonce) == [nonce |-> nonce, node |-> NoOrigin]
NoChallenge == Exact(0)

\* A derivation that leaves the node out of the hash.
derive_without_node(nonce, url) == Exact(nonce)

\* derive_login_challenge: only the origin of the node URL is bound.  A URL that
\* does not parse or is of another scheme yields no challenge.
derive_login_challenge(nonce, url) ==
    IF url.scheme \in {"http", "https"}
    THEN [nonce |-> nonce, node |-> normalise_origin(url)] ELSE NoChallenge

-----------------------------------------------------------------------------
\* One knob per check a software passkey can miss; "tampered" bytes were changed
\* after signing.
Flaws == {"none", "malformed", "type", "cross", "top", "presence", "unverified", "signature",
          "tampered"}

\* verify_and_recover, all of its checks.  Nothing there refuses tampered bytes.
Verifies(a, want, policy) ==
    /\ a.flaw \in {"none", "tampered"} \/ (a.flaw = "unverified" /\ ~policy.require_uv)
    /\ want # NoChallenge /\ a.challenge = want
    /\ Allowed(policy, a.rp_id, a.origin)

\* A DID is a passkey's, or one that an assertion yields and no other does, of a key
\* nobody holds: the second key its signature verifies under (TwinOf), or either
\* key if the bytes were changed after signing.
DidOf(key) == [key |-> key, twin |-> 0]
TwinOf(a) == [key |-> a.key, twin |-> a.serial]
StrangerOf(a) == [key |-> "nobody", twin |-> a.serial]
candidate_dids(a) == {IF a.flaw = "tampered" THEN StrangerOf(a) ELSE DidOf(a.key), TwinOf(a)}

\* the_only: the single candidate named, if exactly one is.
the_only(S) == IF Cardinality(S) = 1 THEN S ELSE {}

\* hints_from_cookie_header and DidHint::parse drop every other spelling.
Junk == [key |-> "junk", twin |-> 0]
DidHints(values) == values \ {Junk}

\* The hint for the key that create() returned.
from_spki_der(key) == DidOf(key)

\* verify_webauthn_assertion, the verifier for a stored key: it asks for one RP ID
\* and one origin, and neither for user verification nor about embedding.
StoredKeyVerifies(a, did, want, rp_id, origin) ==
    /\ a.flaw \notin {"malformed", "type", "presence", "signature"}
    /\ a.rp_id = rp_id
    /\ a.challenge = want
    /\ a.origin = origin
    /\ did \in candidate_dids(a)

\* A guess where nothing names a candidate: the twin, when the parities fall so.
select_guessing(cands, hints, known) ==
    IF the_only(cands \cap hints) # {} THEN [picked |-> the_only(cands \cap hints), by |-> "Hint"]
    ELSE [picked |-> {d \in cands : d.twin # 0}, by |-> "KnownPrincipal"]

\* select: the DIDs picked, at most one, and the rule that picked it.
select(cands, hints, known) ==
    LET hinted == the_only(cands \cap hints)  familiar == the_only(cands \cap known) IN
    IF hinted # {} THEN [picked |-> hinted, by |-> "Hint"]
    ELSE IF familiar # {} THEN [picked |-> familiar, by |-> "KnownPrincipal"]
    ELSE [picked |-> {}, by |-> "NeedSecondAssertion"]

\* A second assertion by the same credential taken for proof of any candidate.
resolve_by_credential(pending, a, credential) ==
    IF credential = pending.credential_id THEN {d \in pending.candidates : d.twin = 0} ELSE {}

\* PendingRecovery::resolve: empty on CredentialMismatch, NoCommonCandidate and
\* Ambiguous.
resolve(pending, a, credential) ==
    IF credential = pending.credential_id
    THEN the_only(pending.candidates \cap candidate_dids(a)) ELSE {}
=============================================================================
