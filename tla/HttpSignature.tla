---------------------------- MODULE HttpSignature ----------------------------
(***************************************************************************)
(* The two surfaces on which a DID proves possession of its key: the login *)
(* message (build_message, authenticate) and the RFC 9421 request          *)
(* signature (sign_request, verify_request).  Signers sign, intermediaries *)
(* mix and rewrite what was signed, a verifier with a clock of its own     *)
(* decides.                                                                *)
(***************************************************************************)
EXTENDS DidMethods, FiniteSets

CONSTANTS
    Signers,        \* records [did, key, pk]: a Signer, its DID, what public_key() returns
    Dids,           \* DIDs an intermediary may put into keyid or into a login request
    Parts,          \* requests: [uri, agent], RequestParts without the uncovered method
    Hints,          \* hint sections of ML-DSA signatures
    Validities,     \* windows callers ask for
    MAX_VALIDITY,   \* cap on expires - created
    ClockSkew,      \* VerifyOptions::clock_skew
    expected_tag,   \* VerifyOptions::expected_tag
    MaxClock,       \* bound on the clock
    MaxSigned,      \* bound on signatures made
    MaxHonoured,    \* bound on accepted requests
    MaxLogins       \* bound on accepted logins

ASSUME HttpSignatureAssumption ==
    /\ MAX_VALIDITY \in Nat /\ ClockSkew \in Nat /\ Validities \subseteq Nat
    /\ Hints \subseteq HintSections
    /\ {MaxClock, MaxSigned, MaxHonoured, MaxLogins} \subseteq Nat

VARIABLES
    clock,     \* seconds of the verifier
    signed,    \* what signers have signed: [signer, msg, request, sig]
    seen,      \* nonces of the replay guard with their expiry
    honoured,  \* accepted requests: [principal, parts, params, at]
    logins     \* accepted logins: [principal, msg, key]

vars == <<clock, signed, seen, honoured, logins>>

-----------------------------------------------------------------------------
(* Request parts *)

\* Text with a character beyond ASCII.
NonAscii == "non-ascii"

NoHeader == [text |-> "none", pad |-> FALSE]
SIGNATURE_LABEL == "sig1"
TAG_AQUA_INTERNAL == "aqua-auth"
TAG_WEB_BOT_AUTH == "web-bot-auth"
COMPONENT_AUTHORITY == "@authority"
COMPONENT_SIGNATURE_AGENT == "signature-agent"
ALLOWED_COMPONENTS == {COMPONENT_AUTHORITY, COMPONENT_SIGNATURE_AGENT}
PARAM_ORDER == <<"created", "expires", "keyid", "alg", "nonce", "tag">>

DefaultPort == [http |-> 80, https |-> 443]

\* A URI is [scheme, host, port], userinfo and path dropped; host is "" when missing, port 0 when
\* absent and beyond 65535 when it is no u16.  Letter case does not survive: host is the
\* lowercased host.
authority_from_uri_err(uri) == FirstErr(<<
    ErrIf(uri.scheme = "", "InvalidTargetUri"),
    ErrIf(uri.scheme \notin DOMAIN DefaultPort, "UnsupportedScheme"),
    ErrIf(uri.host = "" \/ uri.port \notin 0..65535, "InvalidTargetUri")>>)

authority_from_uri(uri) ==
    [host |-> uri.host, port |-> IF uri.port = DefaultPort[uri.scheme] THEN 0 ELSE uri.port]

\* A Signature-Agent is [text, pad]: pad is surrounding whitespace, which is
\* trimmed; text "" is nothing but whitespace and text "two lines" holds a line break.
component_err(name, parts) ==
    CASE name = COMPONENT_AUTHORITY -> authority_from_uri_err(parts.uri)
      [] name = COMPONENT_SIGNATURE_AGENT -> FirstErr(<<
            ErrIf(parts.agent = NoHeader \/ parts.agent.text = "", "MissingComponent"),
            ErrIf(parts.agent.text = "two lines", "InvalidComponentValue")>>)
      [] OTHER -> "UnsupportedComponent"

component_value(name, parts) ==
    IF name = COMPONENT_AUTHORITY THEN authority_from_uri(parts.uri) ELSE parts.agent.text

\* Covers the authority and nothing else.
covered_authority(parts) == <<COMPONENT_AUTHORITY>>

covered_components(parts) ==
    <<COMPONENT_AUTHORITY>> \o
    (IF parts.agent = NoHeader THEN <<>> ELSE <<COMPONENT_SIGNATURE_AGENT>>)

CoveredSet(covered) == {covered[i] : i \in DOMAIN covered}

\* What build_signature_base does with one covered component.
line_err(parts, c, i) == FirstErr(<<
    ErrIf(c[i] \notin ALLOWED_COMPONENTS, "UnsupportedComponent"),
    ErrIf(\E j \in 1..i - 1 : c[j] = c[i], "DuplicateComponent"),
    component_err(c[i], parts)>>)

\* A keyid is a structured-field string, in ASCII; the other parameters always
\* are (clocks stay within the fifteen digits of an integer).
serialize_signature_params_err(params) == ErrIf(params.keyid.key = NonAscii, "StructuredField")

\* The covered components line by line, @authority among them, and then the text.
base_err(parts, params) ==
    LET c == params.covered
    IN  FirstErr([i \in DOMAIN c |-> line_err(parts, c, i)]
            \o <<ErrIf(COMPONENT_AUTHORITY \notin CoveredSet(c), "MissingComponent"),
                 serialize_signature_params_err(params),
                 ErrIf(\/ parts.uri.host = NonAscii
                       \/ COMPONENT_SIGNATURE_AGENT \in CoveredSet(c) /\ parts.agent.text = NonAscii,
                       "NonAsciiBase")>>)

\* A base that forgets what the components are worth.
base_of_params(parts, params) ==
    [surface |-> "rfc9421", lines |-> params.covered, params |-> params]

\* The signature base: the lines of the covered components, then the parameters.
build_signature_base(parts, params) ==
    [surface |-> "rfc9421",
     lines   |-> [i \in DOMAIN params.covered |->
                     <<params.covered[i], component_value(params.covered[i], parts)>>],
     params  |-> params]

check_signature_agent_coverage(parts, covered) ==
    LET present == parts.agent # NoHeader
        is_covered == COMPONENT_SIGNATURE_AGENT \in CoveredSet(covered)
    IN  FirstErr(<<ErrIf(present /\ ~is_covered, "MalformedSignatureInput"),
                   ErrIf(~present /\ is_covered, "MissingComponent")>>)

-----------------------------------------------------------------------------
(* Signing *)

AlgOf == [c \in {"Ed25519", "P-256", "Ethereum"} |->
             CASE c = "Ed25519" -> "ed25519"
               [] c = "P-256"   -> "ecdsa-p256-sha256"
               [] OTHER         -> "eip191-secp256k1"]

\* A keyid is a DID, or the record a thumbprint is: no method supports it.
Thumbprint(t) == Did("thumbprint", t, 0, "", t, {})

alg_for_did_err(did) == FirstErr(<<
    ErrIf(find_did_method(did) = "none", "UnsupportedMethod"),
    method_label_err(did),
    ErrIf(method_label_err(did) = "Ok" /\ method_label(did) \notin DOMAIN AlgOf,
          "UnsupportedMethod")>>)

alg_for_did(did) == AlgOf[method_label(did)]

validity_seconds(v) == FirstErr(<<ErrIf(v = 0, "ValidityZero"),
                                  ErrIf(v > MAX_VALIDITY, "ValidityTooLong")>>)

\* A profile is "AquaInternal" or a thumbprint, "" when it is blank.
profile_err(profile, did) == FirstErr(<<
    alg_for_did_err(did),
    ErrIf(profile # "AquaInternal" /\ alg_for_did_err(did) = "Ok" /\ alg_for_did(did) # "ed25519",
          "ProfileRequiresEd25519"),
    ErrIf(profile = "", "EmptyThumbprint")>>)

profile_keyid(profile, did) == IF profile = "AquaInternal" THEN did ELSE Thumbprint(profile)

profile_parameters(profile, did) ==
    IF profile = "AquaInternal"
    THEN [keyid |-> profile_keyid(profile, did), alg |-> alg_for_did(did), tag |-> TAG_AQUA_INTERNAL]
    ELSE [keyid |-> profile_keyid(profile, did), alg |-> "ed25519", tag |-> TAG_WEB_BOT_AUTH]

generate_nonce == Cardinality(signed) + 1

SignedParams(signer, parts, profile, validity, created) ==
    LET of_profile == profile_parameters(profile, signer.did)
    IN  [covered |-> covered_components(parts), created |-> created,
         expires |-> created + validity, nonce |-> generate_nonce,
         keyid |-> of_profile.keyid, alg |-> of_profile.alg, tag |-> of_profile.tag]

\* The Signature-Input header as the parser sees it: how many members, whether
\* the member is an inner list of bare strings, its parameter names in order,
\* and whether the text is what signature_input_header writes.
InputHeader(label, params) ==
    [label |-> label, members |-> 1, inner |-> TRUE, bare |-> TRUE,
     keys |-> PARAM_ORDER, typed |-> TRUE, canonical |-> TRUE, params |-> params]

\* The Signature header: label to member, a byte sequence ("bytes"), another item
\* ("token") or an inner list ("list").
Header(label, item, sig) == [l \in {label} |-> [item |-> item, sig |-> sig]]

signature_header(label, sig) == Header(label, "bytes", sig)

sign_request(signer, parts, profile, validity, created) ==
    LET params == SignedParams(signer, parts, profile, validity, created)
        base   == build_signature_base(parts, params)
        sig    == Signature(signer.key, base, {}, NoHint)
    IN  [signer |-> signer, msg |-> base, parts |-> parts, profile |-> profile,
         input |-> InputHeader(SIGNATURE_LABEL, params),
         signature |-> signature_header(SIGNATURE_LABEL, sig), sig |-> sig]

sign_request_err(signer, parts, profile, validity) ==
    FirstErr(<<validity_seconds(validity), profile_err(profile, signer.did),
               base_err(parts, [covered |-> covered_components(parts),
                                keyid   |-> profile_keyid(profile, signer.did)])>>)

-----------------------------------------------------------------------------
(* Verifying *)

\* One member, an inner list of known bare components with @authority, and the
\* six parameters in their order with their types.
parse_signature_input(h) == FirstErr(<<
    ErrIf(h.members # 1 \/ ~h.inner \/ ~h.bare, "MalformedSignatureInput"),
    ErrIf(~(CoveredSet(h.params.covered) \subseteq ALLOWED_COMPONENTS), "UnsupportedComponent"),
    ErrIf(COMPONENT_AUTHORITY \notin CoveredSet(h.params.covered), "MissingComponent"),
    ErrIf(h.keys # PARAM_ORDER \/ ~h.typed, "MalformedSignatureInput")>>)

\* The bytes under the label Signature-Input uses; other members are not looked at.
\* A header that does not parse holds none, and is refused alike.
parse_signature(dict, label) ==
    ErrIf(label \notin DOMAIN dict \/ dict[label].item # "bytes", "MalformedSignature")

check_tag(params) == ErrIf(params.tag # expected_tag, "TagMismatch")

\* expires is exclusive; only created is allowed the skew.
check_window(params, now) == FirstErr(<<
    ErrIf(params.expires <= params.created, "InvalidWindow"),
    ErrIf(params.expires - params.created > MAX_VALIDITY, "ValidityTooLong"),
    ErrIf(params.created > now + ClockSkew, "CreatedInFuture"),
    ErrIf(now >= params.expires, "Expired")>>)

\* The error of verify_request up to and including the signature, or "Ok".
verify_err(parts, h, dict, now) ==
    LET p == h.params
        early == FirstErr(<<
            parse_signature_input(h), parse_signature(dict, h.label),
            check_signature_agent_coverage(parts, p.covered),
            check_tag(p), check_window(p, now), alg_for_did_err(p.keyid)>>)
        late == FirstErr(<<
            ErrIf(alg_for_did(p.keyid) # p.alg, "AlgMismatch"),
            ErrIf(~h.canonical, "MalformedSignatureInput"),
            base_err(parts, p)>>)
    IN  IF early # "Ok" THEN early
        ELSE IF late # "Ok" THEN late
        ELSE authenticate(p.keyid, build_signature_base(parts, p), dict[h.label].sig)

\* The guard, asked last; an entry counts while it is unexpired.
Replayed(nonce, now) == \E e \in seen : e.nonce = nonce /\ e.expires > now

verify_request(parts, h, dict, now) ==
    LET e == verify_err(parts, h, dict, now)
    IN  IF e = "Ok" /\ Replayed(h.params.nonce, now) THEN "NonceReplayed" ELSE e

-----------------------------------------------------------------------------
(* What an intermediary can make of a signed request *)

Set(h, k, v) == [h EXCEPT !.params[k] = v]

\* One rewriting of a Signature-Input header.
Rewritings(h) ==
    {h}
    \cup {Set(h, "covered", c) : c \in {<<COMPONENT_AUTHORITY>>, <<COMPONENT_SIGNATURE_AGENT>>,
             <<COMPONENT_SIGNATURE_AGENT, COMPONENT_AUTHORITY>>,
             <<COMPONENT_AUTHORITY, COMPONENT_AUTHORITY>>, <<COMPONENT_AUTHORITY, "@method">>}}
    \cup {Set(h, "created", c) : c \in 0..MaxClock + ClockSkew + 1}
    \cup {Set(h, "expires", x) : x \in 1..MaxClock + ClockSkew + MAX_VALIDITY + 2}
    \cup {Set(h, "keyid", d) : d \in Dids}
    \cup {Set(h, "alg", AlgOf[c]) : c \in DOMAIN AlgOf}
    \cup {Set(h, "nonce", n) : n \in 1..MaxSigned}
    \cup {Set(h, "tag", t) : t \in {TAG_AQUA_INTERNAL, TAG_WEB_BOT_AUTH}}
    \cup {[h EXCEPT !.label = "sig2"], [h EXCEPT !.members = 2], [h EXCEPT !.inner = FALSE],
          [h EXCEPT !.bare = FALSE], [h EXCEPT !.typed = FALSE], [h EXCEPT !.canonical = FALSE],
          [h EXCEPT !.keys = <<"expires", "created", "keyid", "alg", "nonce", "tag">>]}

Spoilt(sig) == {[sig EXCEPT !.flaws = f] : f \in {{"size"}, {"encoding"}}}

\* The signature of s, for ML-DSA also with the same hint vector encoded otherwise.
Respelt(s) ==
    IF s.signer.pk = "none" THEN {s.sig}
    ELSE {[s.sig EXCEPT !.hint = h] : h \in {g \in Hints : HintBits(g) = HintBits(s.sig.hint)}}

\* The Signature header of r with its bytes spoilt, or not as bytes.
SpoiltHeaders(r) ==
    {signature_header(SIGNATURE_LABEL, g) : g \in Spoilt(r.sig)}
    \cup {Header(SIGNATURE_LABEL, i, r.sig) : i \in {"token", "list"}}

Labels == {SIGNATURE_LABEL, "sig2"}

Requests == {s \in signed : s.msg.surface = "rfc9421"}

-----------------------------------------------------------------------------
(* Steps *)

Init ==
    /\ clock = 0
    /\ signed = {} /\ seen = {} /\ honoured = {} /\ logins = {}

\* The hint vectors a signer's signatures may hold, in the encoding it emits.
HintsOf(signer) ==
    IF signer.pk = "none" THEN {NoHint} ELSE {h \in Hints : hint_encoding_is_canonical(h)}

SignRequest(signer, parts, profile, validity, created) ==
    /\ Cardinality(signed) < MaxSigned
    /\ sign_request_err(signer, parts, profile, validity) = "Ok"
    /\ signed' = signed \cup {sign_request(signer, parts, profile, validity, created)}
    /\ UNCHANGED <<clock, seen, honoured, logins>>

\* A login message is built for a DID by the challenge endpoint and signed.
SignLogin(signer, hint) ==
    LET msg == build_message(signer.did, generate_nonce)
        sig == Signature(signer.key, msg, {}, hint)
    IN  /\ Cardinality(signed) < MaxSigned
        /\ validate_did_well_formed(signer.did) = "Ok"
        /\ build_message_err(signer.did) = "Ok"
        /\ signed' = signed \cup {[signer |-> signer, msg |-> msg, sig |-> sig]}
        /\ UNCHANGED <<clock, seen, honoured, logins>>

\* verify_request on some presentation: a rewritten header with any signature made
\* so far, also of a login, under either label and on any request, or the header
\* as it was with a spoilt Signature.  A refused one changes nothing.
VerifyRequest(parts, h, dict) ==
    /\ verify_request(parts, h, dict, clock) = "Ok"
    /\ seen' = seen \cup {[nonce |-> h.params.nonce, expires |-> h.params.expires]}
    /\ honoured' = honoured \cup {[principal |-> h.params.keyid, parts |-> parts,
                                   params |-> h.params, sig |-> dict[h.label].sig, at |-> clock]}
    /\ UNCHANGED <<clock, signed, logins>>

\* authenticate_with_public_key on some signature, DID and key, over the message of
\* some challenge: the session handler takes the message from its store.
Login(did, msg, sig, pk) ==
    /\ authenticate_with_public_key(did, msg, sig, pk) = "Ok"
    /\ logins' = logins \cup {[principal |-> did, msg |-> msg, sig |-> sig]}
    /\ UNCHANGED <<clock, signed, seen, honoured>>

Tick == clock < MaxClock /\ clock' = clock + 1 /\ UNCHANGED <<signed, seen, honoured, logins>>

Next ==
    \/ \E s \in Signers : \E h \in HintsOf(s) : SignLogin(s, h)
    \/ \E s \in Signers, p \in Parts, f \in {"AquaInternal", "", "t1", NonAscii},
          v \in Validities, c \in {clock, clock + ClockSkew + 1} : SignRequest(s, p, f, v, c)
    \/ /\ Cardinality(honoured) < MaxHonoured
       /\ \E r \in Requests :
            \/ \E h \in Rewritings(r.input), l \in Labels, s \in signed, p \in Parts :
                    VerifyRequest(p, h, signature_header(l, s.sig))
            \/ \E d \in SpoiltHeaders(r) : VerifyRequest(r.parts, r.input, d)
    \/ /\ Cardinality(logins) < MaxLogins
       /\ \E s \in signed : \E g \in Respelt(s) \cup Spoilt(s.sig), k \in {s.signer.pk} \cup NotAKey,
                               t \in signed \ Requests, d \in Dids : Login(d, t.msg, g, k)
    \/ Tick

Spec == Init /\ [][Next]_vars

-----------------------------------------------------------------------------
(* Properties *)

\* What an honoured request carries is what one signer signed, all of it: the
\* principal, the authority and the Signature-Agent the verifier sees, the
\* nonce and the window, which contained the verifier's clock up to the skew and
\* was no longer than MAX_VALIDITY, under the tag this verifier asked for.
\* (verify_request rebuilds the base from the request as received.)
HonouredAsSigned ==
    \A r \in honoured : \E s \in Requests :
        /\ s.signer.did = r.principal
        /\ authority_from_uri(s.parts.uri) = authority_from_uri(r.parts.uri)
        /\ (s.parts.agent = NoHeader) = (r.parts.agent = NoHeader)
        /\ s.parts.agent # NoHeader => s.parts.agent.text = r.parts.agent.text
        /\ s.input.params = r.params
        /\ r.params.created - ClockSkew <= r.at /\ r.at < r.params.expires
        /\ r.params.expires - r.params.created <= MAX_VALIDITY
        /\ r.params.tag = expected_tag

\* A principal, on either surface, is a well-formed DID whose own key signed
\* that very message; a signature made for a login is never honoured as a request
\* nor the reverse (authenticate_with_public_key and the verifiers under it).
PrincipalHoldsKey ==
    /\ \A r \in honoured :
        /\ validate_did_well_formed(r.principal) = "Ok"
        /\ r.principal.key = r.sig.key
        /\ r.sig.over = build_signature_base(r.parts, r.params)
    /\ \A l \in logins :
        /\ validate_did_well_formed(l.principal) = "Ok"
        /\ l.principal.key = l.sig.key /\ l.sig.over = l.msg

\* A request signed under the internal profile for a DID that is well formed and
\* owns the key verifies untouched whenever the window is open and the guard has
\* not seen it: sign_request emits nothing verify_request refuses.
SignedVerifies ==
    \A s \in Requests :
        (/\ s.profile = "AquaInternal" /\ expected_tag = TAG_AQUA_INTERNAL
         /\ validate_did_well_formed(s.signer.did) = "Ok" /\ s.signer.did.key = s.signer.key
         /\ "offcurve" \notin s.signer.did.flaws
         /\ s.input.params.created <= clock + ClockSkew /\ clock < s.input.params.expires
         /\ ~Replayed(s.input.params.nonce, clock))
        => verify_request(s.parts, s.input, s.signature, clock) = "Ok"

\* Of the encodings of one did:aqua signature, only one is honoured for a message:
\* an intermediary cannot respell it into a second accepted signature
\* (hint_encoding_is_canonical refuses exactly what is not the packed form).
OneEncodingHonoured ==
    \A l, m \in logins :
        (/\ l.principal = m.principal /\ l.msg = m.msg /\ l.principal.method = "aqua"
         /\ HintBits(l.sig.hint) = HintBits(m.sig.hint)) => l.sig = m.sig

=============================================================================
