----------------------------- MODULE Conformance -----------------------------
(***************************************************************************)
(* The conformance suite of aqua-auth-testkit judging a server it can only *)
(* talk to: eighteen cases, run one after the other, each a short dialogue *)
(* of GET /auth/challenge and POST /auth/session that ends in Pass, Fail   *)
(* or Skip.  The servers are the reference router, the deliberately wrong  *)
(* ones of tests/conformance.rs and a few more of the same sort.           *)
(*                                                                         *)
(* A case is an operator from the answers it has seen so far to its next   *)
(* move.  Exchanges can get lost, the server can restart and lose its      *)
(* memory, and the machine can stall past a challenge's life; the suite    *)
(* has to be right about the server anyway, or at least never pass it.     *)
(***************************************************************************)
EXTENDS DidMethods

CONSTANTS
    Servers,          \* the servers under test, see Kinds
    Urls,             \* base URLs: [scheme, host, port], port 0 is not written
    AllowRemote,      \* AQUA_CONFORMANCE_ALLOW_REMOTE
    TTL,              \* lifetime of a challenge
    SESSION_TTL,
    Milli,            \* what a wrong unit multiplies expires_at by
    ONE_DAY,          \* the longest lifetime spec_6_2_expires_at_sane accepts
    MAX_EXPIRY_WAIT,  \* the longest spec_7_2_challenge_expiry sleeps
    MaxFaults         \* bound on disturbances in one run

ASSUME ConformanceAssumption ==
    /\ AllowRemote \in BOOLEAN
    /\ {TTL, SESSION_TTL, ONE_DAY, MAX_EXPIRY_WAIT, MaxFaults} \subseteq Nat
    /\ 0 < TTL /\ TTL <= MAX_EXPIRY_WAIT /\ TTL <= ONE_DAY /\ 0 < SESSION_TTL
    /\ Milli \in Nat /\ Milli > ONE_DAY + 1

VARIABLES
    server,    \* [kind, uri]: what is under test and the origin it believes to have
    target,    \* the base URL dialled
    opt_in,    \* AQUA_CONFORMANCE_EXPIRY_WAIT
    store,     \* the server's pending challenges
    minted,    \* how many nonces it has minted
    now,
    at,        \* the running case, an index into all_cases
    row, bad,  \* the row of its table, and whether an earlier row was a problem
    a,         \* the answers of this row, in order
    hit,       \* how this case was disturbed
    report,    \* the concluded cases
    faults

vars == <<server, target, opt_in, store, minted, now, at, row, bad, a, hit, report, faults>>
harness == <<at, row, bad, a, report>>

-----------------------------------------------------------------------------
(* The target and its policy gate *)

is_loopback_host(host) == host \in {"localhost", "127.0.0.1", "[::1]"}

check_host(host, allow_remote) == allow_remote \/ is_loopback_host(host)

Target_new(url) == FirstErr(<<
    ErrIf(url.scheme = "none", "Parse"),
    ErrIf(url.host = "none", "MissingHost"),
    ErrIf(~check_host(url.host, AllowRemote), "RemoteNotAllowed")>>)

port_or_known_default(u) ==
    IF u.port # 0 THEN u.port ELSE IF u.scheme = "https" THEN 443 ELSE 80

SameOrigin(u, v) ==
    u.scheme = v.scheme /\ u.host = v.host /\ port_or_known_default(u) = port_or_known_default(v)

-----------------------------------------------------------------------------
(* The servers *)

Lenient == {"takes_size", "takes_encoding", "takes_hex"}

Kinds == {"reference", "no_consume", "did_echo", "millis", "no_verify", "upper_nonce",
          "by_did", "rebuilds", "unbound", "trusting", "no_nonce"} \cup Lenient

MakesUp == {"rebuilds", "trusting"}  \* no ChallengeStore: the message is rebuilt from the request
Unbound == {"unbound", "trusting"}   \* verifies did:aqua under whatever public_key it is sent

Nonce(n) == [n |-> n, upper |-> server.kind = "upper_nonce"]

Message(did, nonce) == [uri |-> server.uri, text |-> build_message(did, nonce)]

Refused == [kind |-> "refused"]
HttpError == [kind |-> "error"]

\* challenge_handler refuses what ChallengeStore::create refuses.
ChallengeErr(did) == FirstErr(<<
    ErrIf(find_did_method(did) = "none", "UnsupportedMethod"),
    validate_did_well_formed(did), build_message_err(did)>>)

Created(did) ==
    LET n == Nonce(minted + 1)
    IN  [did |-> did, nonce |-> n, message |-> Message(did, n), expires_at |-> now + TTL]

\* The envelope of a challenge: what a server leaves out or adds shows here.
Envelope(c) ==
    LET core  == [kind |-> "challenge", message |-> c.message, nonce |-> c.nonce,
                  expires_at |-> IF server.kind = "millis" THEN c.expires_at * Milli
                                 ELSE c.expires_at]
        names == CASE server.kind = "no_nonce" -> DOMAIN core \ {"nonce"}
                   [] OTHER                    -> DOMAIN core
    IN  IF server.kind \in {"did_echo", "millis", "upper_nonce"}
        THEN [f \in names \cup {"did"} |-> IF f = "did" THEN c.did ELSE core[f]]
        ELSE [f \in names |-> core[f]]

challenge_handler(did) ==
    IF ChallengeErr(did) # "Ok"
    THEN [store |-> store, minted |-> minted, answer |-> Refused]
    ELSE LET c == Created(did)
             kept == IF server.kind = "by_did" THEN {d \in store : d.did # did} ELSE store
         IN  [store |-> kept \cup {c}, minted |-> minted + 1, answer |-> Envelope(c)]

Session(did) ==
    [kind |-> "session", did |-> did, valid_until |-> now + SESSION_TTL, created_at |-> now]

\* What the server takes the request for: the stored challenge, a made-up one, or nothing.
LookUp(body) ==
    CASE server.kind = "by_did"   -> {c \in store : c.did = body.did}
      [] server.kind \in MakesUp ->
             {[did |-> body.did, nonce |-> body.nonce, expires_at |-> now + TTL,
               message |-> Message(body.did, body.nonce)]}
      [] OTHER                    -> {c \in store : c.nonce = body.nonce}

Remembers == {"no_consume", "by_did", "upper_nonce"}  \* these never look at expires_at

BeforeExpiry(c) == server.kind \in Remembers \/ now < c.expires_at

Verifies(c, body) ==
    \/ server.kind \in Lenient /\ body.signature.flaws # {}
       /\ body.signature.flaws = {CASE server.kind = "takes_size" -> "size"
                                    [] server.kind = "takes_encoding" -> "encoding"
                                    [] OTHER -> "hex"}
    \/ server.kind \in Unbound /\ body.did.method = "aqua"
       /\ ml_dsa_verify(body.public_key, c.message, body.signature) = "true"
    \/ /\ "hex" \notin body.signature.flaws
       /\ ~(server.kind \in Unbound /\ body.did.method = "aqua")
       /\ authenticate_with_public_key(body.did, c.message, body.signature, body.public_key) = "Ok"

session_handler(body) ==
    LET found == LookUp(body)
        left  == IF server.kind \in {"no_consume", "no_verify"} THEN store ELSE store \ found
        ok    == \/ server.kind = "no_verify"
                 \/ \E c \in found : BeforeExpiry(c) /\ c.did = body.did /\ Verifies(c, body)
    IN  [store |-> left, minted |-> minted, answer |-> IF ok THEN Session(body.did) ELSE Refused]

-----------------------------------------------------------------------------
(* The harness: moves, and what the cases share *)

Get(did)   == [kind |-> "GET", did |-> did]
Post(body) == [kind |-> "POST", body |-> body]
Sleep(n)   == [kind |-> "sleep", secs |-> n]
NextRow(problem) == [kind |-> "next", problem |-> problem]
Verdict(o) == [kind |-> "verdict", outcome |-> o]
Judge(ok)  == Verdict(IF ok THEN "Pass" ELSE "Fail")

is_success(r) == r.kind \in {"challenge", "session"}

\* accepted and session_accepted: a 2xx with a token.
accepted(r) == r.kind = "session"

Has(r, f) == f \in DOMAIN r

\* Signers are fresh in every case and row.
Fresh(name)  == Did("key", "z", 0, "Ed25519", name, {})
FreshAqua(name) == Did("aqua", "z", 0, "", name, {})
Sign(did, message) == Signature(did.key, message, {}, NoHint)

\* sign_challenge needs a success with a message and a nonce; so does message_and_nonce.
Signable(r) == is_success(r) /\ Has(r, "message") /\ Has(r, "nonce")

Body(did, nonce, signature) ==
    [did |-> did, nonce |-> nonce, signature |-> signature, public_key |-> public_key(did)]

sign_challenge(r, did) == Body(did, r.nonce, Sign(did, r.message))

\* login: fetch, sign, submit.  LoginFailed is its Err.
LoginFailed == \/ Len(a) = 1 /\ ~Signable(a[1])
               \/ Len(a) = 2 /\ a[2] = HttpError

login(did) == IF a = <<>> THEN Get(did) ELSE Post(sign_challenge(a[1], did))

\* A bad DID may be refused at either endpoint, but must be at one.
Garbage(did) == Signature("nobody", "nothing", {}, NoHint)

\* Takes a connection that fails for a refusal.
refused_or_gone(did) ==
    CASE a = <<>>      -> Get(did)
      [] Len(a) = 1    ->
             IF is_success(a[1]) /\ Has(a[1], "nonce")
             THEN Post(Body(did, a[1].nonce, Garbage(did))) ELSE NextRow(is_success(a[1]))
      [] OTHER         -> NextRow(accepted(a[2]))

refused_at_either_endpoint(did) ==
    CASE a = <<>>                            -> Get(did)
      [] Len(a) = 1 /\ a[1] = HttpError      -> NextRow(TRUE)
      [] Len(a) = 1 /\ a[1] = Refused        -> NextRow(FALSE)
      [] Len(a) = 1 /\ is_success(a[1])      ->
             IF Has(a[1], "nonce") THEN Post(Body(did, a[1].nonce, Garbage(did))) ELSE NextRow(TRUE)
      [] OTHER                               -> NextRow(a[2] = HttpError \/ accepted(a[2]))

-----------------------------------------------------------------------------
(* cases_wire *)

spec_6_2_required_fields ==
    IF a = <<>> THEN Get(Fresh("fields"))
    ELSE Judge(is_success(a[1]) /\ \A f \in {"nonce", "message", "expires_at"} : Has(a[1], f))

\* Contested field: never a failure.
spec_6_2_did_field ==
    LET did == Fresh("echo")
    IN  IF a = <<>> THEN Get(did)
        ELSE Verdict(IF Has(a[1], "did") /\ a[1].did = did THEN "Pass" ELSE "Skip")

is_well_formed_nonce(nonce) == ~nonce.upper

spec_6_2_nonce_format ==
    IF a = <<>> THEN Get(Fresh("nonce"))
    ELSE Judge(Has(a[1], "nonce") /\ is_well_formed_nonce(a[1].nonce))

\* The lines of the template that depend on the DID or the envelope.
spec_6_2_message_structure ==
    LET did == Fresh("text")
    IN  IF a = <<>> THEN Get(did)
        ELSE Judge(/\ Has(a[1], "message") /\ Has(a[1], "nonce")
                   /\ a[1].message.text.label = "Ed25519"
                   /\ a[1].message.text.identifier = address_for_message(did)
                   /\ a[1].message.text.nonce = a[1].nonce
                   /\ a[1].message.text.chain = 0)

spec_6_2_expires_at_sane ==
    IF a = <<>> THEN Get(Fresh("expiry"))
    ELSE Judge(/\ Has(a[1], "expires_at")
               /\ now < a[1].expires_at /\ a[1].expires_at - now <= ONE_DAY)

spec_6_4_session_response_shape ==
    LET did == Fresh("session")
    IN  CASE LoginFailed -> Verdict("Fail")
          [] Len(a) < 2 /\ ~LoginFailed -> login(did)
          [] OTHER -> Judge(/\ is_success(a[2]) /\ Has(a[2], "did") /\ a[2].did = did
                            /\ now < a[2].valid_until /\ a[2].created_at <= a[2].valid_until)

\* One more field in the request; no server here reads it.
spec_8_unknown_request_fields_ignored ==
    CASE LoginFailed -> Verdict("Fail")
      [] Len(a) < 2 /\ ~LoginFailed -> login(Fresh("unknown"))
      [] OTHER -> Judge(is_success(a[2]))

-----------------------------------------------------------------------------
(* cases_nonce_and_did *)

\* A correctly signed request under a nonce nobody minted.
NeverIssued == [n |-> 0, upper |-> FALSE]

spec_7_1_unknown_nonce_refused ==
    LET did == Fresh("stranger")
    IN  CASE a = <<>>    -> Get(did)
          [] LoginFailed -> Verdict("Fail")
          [] Len(a) = 1 /\ ~LoginFailed ->
                 Post([sign_challenge(a[1], did) EXCEPT !.nonce = NeverIssued])
          [] OTHER -> Judge(~accepted(a[2]))

\* Sends a second request that is not the accepted one.
single_use_other_nonce ==
    LET did == Fresh("twice")
    IN  CASE LoginFailed -> Verdict("Skip")
          [] Len(a) < 2 /\ ~LoginFailed -> login(did)
          [] Len(a) = 2 /\ ~LoginFailed ->
                 IF accepted(a[2])
                 THEN Post([sign_challenge(a[1], did) EXCEPT !.nonce = NeverIssued])
                 ELSE Verdict("Skip")
          [] OTHER -> Judge(a[3] # HttpError /\ ~accepted(a[3]))

\* A login that does not work says nothing about single use.
spec_7_3_nonce_single_use ==
    LET did == Fresh("twice")
    IN  CASE LoginFailed -> Verdict("Skip")
          [] Len(a) < 2 /\ ~LoginFailed -> login(did)
          [] Len(a) = 2 /\ ~LoginFailed ->
                 IF accepted(a[2]) THEN Post(sign_challenge(a[1], did)) ELSE Verdict("Skip")
          [] OTHER -> Judge(a[3] # HttpError /\ ~accepted(a[3]))

spec_7_4_unsupported_namespace_refused ==
    IF row = 1 THEN refused_at_either_endpoint(Did("pkh", "solana", 0, "", "solana", {}))
    ELSE Judge(~bad)

Malformed == <<
    Did("pkh", "ed25519", 0, "", "short", {"size"}),
    Did("pkh", "ed25519", 0, "", "long", {"size"}),
    Did("pkh", "ed25519", 0, "", "no0x", {"prefix"}),
    Did("pkh", "ed25519", 0, "", "nothex", {"digits"}),
    Did("pkh", "p256", 0, "", "short", {"size"}),
    Did("pkh", "eip155", 1, "", "short", {"size"}),
    Did("key", "z", 0, "Ed25519", "corrupt", {"digits"}) >>

spec_7_5_did_well_formed ==
    IF row <= Len(Malformed) THEN refused_at_either_endpoint(Malformed[row]) ELSE Judge(~bad)

Spellings == <<
    Fresh("s1"), Did("pkh", "ed25519", 0, "", "s2", {}), Did("key", "z", 0, "P-256", "s3", {}),
    Did("pkh", "p256", 0, "", "s4", {}), Did("pkh", "eip155", 1, "", "s5", {}) >>

spec_7_5_valid_did_spellings_accepted ==
    CASE row > Len(Spellings)                -> Judge(~bad)
      [] row <= Len(Spellings) /\ a = <<>>   -> Get(Spellings[row])
      [] OTHER                               -> NextRow(~is_success(a[1]))

-----------------------------------------------------------------------------
(* cases_signature *)

\* A flipped bit is nobody's signature; the other corruptions change the length,
\* are all zero, or are not hex.
SIGNATURE_CORRUPTIONS == <<
    [key |-> "nobody"], [flaws |-> {"size"}], [flaws |-> {"size"}],
    [flaws |-> {"encoding"}], [flaws |-> {"hex"}] >>

Corrupted(sig, c) == [f \in DOMAIN sig |-> IF f \in DOMAIN c THEN c[f] ELSE sig[f]]

CorruptionSigner == <<"c1", "c2", "c3", "c4", "c5">>

spec_7_6_signature_invalid_refused ==
    LET did == Fresh(CorruptionSigner[row])
        body == sign_challenge(a[1], did)
    IN  CASE row > Len(SIGNATURE_CORRUPTIONS)                -> Judge(~bad)
          [] row <= Len(SIGNATURE_CORRUPTIONS) /\ a = <<>>   -> Get(did)
          [] row <= Len(SIGNATURE_CORRUPTIONS) /\ Len(a) = 1 ->
                 IF Signable(a[1])
                 THEN Post([body EXCEPT !.signature = Corrupted(@, SIGNATURE_CORRUPTIONS[row])])
                 ELSE NextRow(TRUE)
          [] OTHER -> NextRow(a[2] = HttpError \/ accepted(a[2]))

\* B signs the message of A's challenge.
spec_7_6_wrong_key_refused ==
    LET did == Fresh("victim")
    IN  CASE a = <<>>    -> Get(did)
          [] LoginFailed -> Verdict("Fail")
          [] Len(a) = 1 /\ ~LoginFailed ->
                 Post(Body(did, a[1].nonce, Sign(Fresh("other"), a[1].message)))
          [] OTHER -> Judge(~accepted(a[2]))

\* Two challenges of one DID, each answered with the message of the other.
CrossBody(did, i, j) == Body(did, a[i].nonce, Sign(did, a[j].message))

spec_7_7_message_binding ==
    LET did == Fresh("binding")
    IN  CASE Len(a) < 2 /\ HttpError \notin {a[i] : i \in DOMAIN a} -> Get(did)
          [] Len(a) = 1 /\ a[1] = HttpError  -> Verdict("Fail")
          [] Len(a) = 2 /\ a[2] = HttpError  -> Verdict("Fail")
          [] Len(a) = 2 /\ a[2] # HttpError  ->
                 IF /\ Signable(a[1]) /\ Signable(a[2])
                    /\ a[1].nonce # a[2].nonce /\ a[1].message # a[2].message
                 THEN Post(CrossBody(did, 1, 2)) ELSE Verdict("Fail")
          [] Len(a) = 3 -> Post(CrossBody(did, 2, 1))
          [] OTHER      -> Judge(\A i \in 3..4 : a[i] # HttpError /\ ~accepted(a[i]))

\* Skips unless asked to wait and the wait is short; a pre-expired challenge fails.
spec_7_2_challenge_expiry ==
    LET did == Fresh("late")
        r == a[1]
    IN  CASE a = <<>>   -> Get(did)
          [] Len(a) = 1 ->
                 (CASE ~is_success(r) \/ ~Has(r, "expires_at") -> Verdict("Fail")
                    [] is_success(r) /\ r.expires_at <= now     -> Verdict("Fail")
                    [] OTHER -> IF ~opt_in \/ r.expires_at - now > MAX_EXPIRY_WAIT
                                THEN Verdict("Skip")
                                ELSE IF Signable(r) THEN Sleep(r.expires_at - now + 1)
                                ELSE Verdict("Fail"))
          [] Len(a) = 2 -> Post(sign_challenge(r, did))
          [] OTHER      -> Judge(a[3] # HttpError /\ ~accepted(a[3]))

spec_6_2_uri_origin_matches_target ==
    IF a = <<>> THEN Get(Fresh("origin"))
    ELSE Judge(is_success(a[1]) /\ Has(a[1], "message") /\ SameOrigin(a[1].message.uri, target))

\* A's signature beside B's public key.  did:aqua is optional: no challenge, no verdict.
spec_6_3_public_key_binding ==
    LET did == FreshAqua("aquaA")
    IN  CASE a = <<>> -> Get(did)
          [] Len(a) = 1 /\ ~is_success(a[1]) -> Verdict("Skip")
          [] Len(a) = 1 /\ is_success(a[1])  ->
                 IF Signable(a[1])
                 THEN Post([sign_challenge(a[1], did) EXCEPT !.public_key = "aquaB"])
                 ELSE Verdict("Fail")
          [] OTHER -> Judge(a[2] # HttpError /\ ~accepted(a[2]))

-----------------------------------------------------------------------------
(* Running them *)

wire_cases == <<"6_2_fields", "6_2_did", "6_2_nonce", "6_2_message", "6_2_expires",
                "6_4_session", "8_unknown">>
nonce_and_did_cases == <<"7_1", "7_3", "7_4", "7_5_malformed", "7_5_spellings">>
signature_cases == <<"7_6_invalid", "7_6_key", "7_7", "7_2", "6_2_uri", "6_3">>

all_cases == wire_cases \o nonce_and_did_cases \o signature_cases

Done == at > Len(all_cases)

Move ==
    LET c == all_cases[at]
    IN  CASE c = "6_2_fields"    -> spec_6_2_required_fields
          [] c = "6_2_did"       -> spec_6_2_did_field
          [] c = "6_2_nonce"     -> spec_6_2_nonce_format
          [] c = "6_2_message"   -> spec_6_2_message_structure
          [] c = "6_2_expires"   -> spec_6_2_expires_at_sane
          [] c = "6_4_session"   -> spec_6_4_session_response_shape
          [] c = "8_unknown"     -> spec_8_unknown_request_fields_ignored
          [] c = "7_1"           -> spec_7_1_unknown_nonce_refused
          [] c = "7_3"           -> spec_7_3_nonce_single_use
          [] c = "7_4"           -> spec_7_4_unsupported_namespace_refused
          [] c = "7_5_malformed" -> spec_7_5_did_well_formed
          [] c = "7_5_spellings" -> spec_7_5_valid_did_spellings_accepted
          [] c = "7_6_invalid"   -> spec_7_6_signature_invalid_refused
          [] c = "7_6_key"       -> spec_7_6_wrong_key_refused
          [] c = "7_7"           -> spec_7_7_message_binding
          [] c = "7_2"           -> spec_7_2_challenge_expiry
          [] c = "6_2_uri"       -> spec_6_2_uri_origin_matches_target
          [] OTHER               -> spec_6_3_public_key_binding

Init ==
    /\ server \in Servers
    /\ target \in {u \in Urls : Target_new(u) = "Ok"}
    /\ opt_in \in BOOLEAN
    /\ store = {} /\ minted = 0 /\ now = 1
    /\ at = 1 /\ row = 1 /\ bad = FALSE /\ a = <<>>
    /\ hit = {} /\ report = <<>> /\ faults = 0

Handled(m) == IF m.kind = "GET" THEN challenge_handler(m.did) ELSE session_handler(m.body)

Answer(r) == a' = Append(a, r) /\ UNCHANGED <<at, row, bad, report>>

Serve(m) == LET h == Handled(m) IN store' = h.store /\ minted' = h.minted

\* A request answered by the server.
Exchange ==
    /\ ~Done /\ Move.kind \in {"GET", "POST"}
    /\ Serve(Move) /\ Answer(Handled(Move).answer)
    /\ UNCHANGED <<server, target, opt_in, now, hit, faults>>

Disturb(how) == faults < MaxFaults /\ faults' = faults + 1 /\ hit' = hit \cup {how}

\* The request or its answer is lost: Http times out.
LoseExchange ==
    /\ ~Done /\ Move.kind \in {"GET", "POST"} /\ Disturb("lost")
    /\ \/ UNCHANGED <<store, minted>>
       \/ Serve(Move)
    /\ Answer(HttpError)
    /\ UNCHANGED <<server, target, opt_in, now>>

Restart ==
    /\ ~Done /\ Disturb("restart")
    /\ store' = {}
    /\ UNCHANGED <<server, target, opt_in, minted, now, harness>>

Stall ==
    /\ ~Done /\ Disturb("stall")
    /\ now' = now + TTL
    /\ UNCHANGED <<server, target, opt_in, store, minted, harness>>

SleepOut ==
    /\ ~Done /\ Move.kind = "sleep"
    /\ now' = now + Move.secs
    /\ Answer([kind |-> "slept"])
    /\ UNCHANGED <<server, target, opt_in, store, minted, hit, faults>>

\* Each row of a table starts from nothing.
RowEnds ==
    /\ ~Done /\ Move.kind = "next"
    /\ bad' = (bad \/ Move.problem)
    /\ row' = row + 1 /\ a' = <<>>
    /\ UNCHANGED <<server, target, opt_in, store, minted, now, at, hit, report, faults>>

\* The case returns its CaseResult and run_all goes on.
Conclude ==
    /\ ~Done /\ Move.kind = "verdict"
    /\ report' = Append(report, [id |-> all_cases[at], outcome |-> Move.outcome, hit |-> hit])
    /\ at' = at + 1 /\ row' = 1 /\ bad' = FALSE /\ a' = <<>> /\ hit' = {}
    /\ UNCHANGED <<server, target, opt_in, store, minted, now, faults>>

Next == Exchange \/ LoseExchange \/ Restart \/ Stall \/ SleepOut \/ RowEnds \/ Conclude

Spec == Init /\ [][Next]_vars

-----------------------------------------------------------------------------
(* What the report is worth *)

\* The cases whose rule a server breaks: for the negative controls the sets
\* tests/conformance.rs asserts.
Breaks(kind) ==
    CASE kind = "no_consume"  -> {"7_3"}
      [] kind = "rebuilds"    -> {"7_1", "7_3"}
      [] kind = "unbound"     -> {"6_3"}
      [] kind = "trusting"    -> {"7_1", "7_3", "6_3"}
      [] kind = "millis"      -> {"6_2_expires"}
      [] kind = "upper_nonce" -> {"6_2_nonce"}
      [] kind = "by_did"      -> {"7_1", "7_7"}
      [] kind = "no_verify"   -> {"6_3", "7_1", "7_3", "7_6_invalid", "7_6_key", "7_7"}
      [] kind \in Lenient     -> {"7_6_invalid"}
      [] kind = "no_nonce"    -> {"6_2_fields", "6_2_nonce", "6_2_message", "6_4_session",
                                  "8_unknown", "7_1", "7_6_invalid", "7_6_key", "7_7", "6_3"}
      [] OTHER                -> {}

NeverExpires == {"no_consume", "upper_nonce", "by_did", "no_verify", "no_nonce"} \cup MakesUp

Expected ==
    Breaks(server.kind)
    \cup (IF opt_in /\ server.kind \in NeverExpires THEN {"7_2"} ELSE {})
    \cup (IF SameOrigin(server.uri, target) THEN {} ELSE {"6_2_uri"})

\* The two cases that a server breaking their rule passes.  A server that makes up
\* the challenge of any nonce refuses spec_7_1's request, whose signature is over
\* the message of another nonce; a server that verifies under any public_key
\* refuses spec_6_3's, whose signature is by A and whose key is B's.
Missed ==
    (IF server.kind \in MakesUp THEN {"7_1"} ELSE {})
    \cup (IF server.kind \in Unbound THEN {"6_3"} ELSE {})

\* An undisturbed case fails exactly against the servers that break its rule, but
\* for the two in Missed: the reference router is never blamed and a negative
\* control always is, for its own defect only, whatever the cases before it left
\* behind on the server.  (cases_signature.rs:755-769 and cases_nonce_and_did.rs:
\* 142-145 claim the two in Missed as well: BrokenRulesAreReported.  A run that
\* waits for the expiry also reports spec_7_2 against the controls that never look
\* at it, beyond the sets tests/conformance.rs:420-425 and 894-901 assert without.)
BlameIsExact ==
    \A i \in DOMAIN report :
        report[i].hit = {}
            => (report[i].outcome = "Fail" <=> report[i].id \in Expected \ Missed)

\* Once an undisturbed run is over, every rule the server breaks is reported as
\* broken.  This is what the comments of the cases say of them: spec_7_1
\* "distinguishes" a server that consults its ChallengeStore from one that "trusts
\* whatever nonce the client sends" (cases_nonce_and_did.rs:142-145), and under
\* spec_6_3 a verifier that skips the binding check "would verify" or "accept"
\* (cases_signature.rs:755-769).
BrokenRulesAreReported ==
    Done /\ faults = 0
        => Expected \subseteq {report[i].id : i \in {j \in DOMAIN report : report[j].outcome = "Fail"}}

\* No answer is never taken for the answer a case hopes for: a case one of whose
\* exchanges was lost does not pass, for any server.
LostIsNeverAPass ==
    \A i \in DOMAIN report : report[i].outcome = "Pass" => "lost" \notin report[i].hit
=============================================================================
