---------------------------- MODULE LoginProtocol ---------------------------
(***************************************************************************)
(* The login protocol: clients running authenticate, AuthSession::login    *)
(* and AuthSession::send (src/src/client.rs) against servers running       *)
(* challenge_handler, session_handler and a handler behind a bearer token  *)
(* (src/aqua-auth-testkit/src/lib.rs).                                     *)
(*                                                                         *)
(* The stores appear by what they promise: a challenge is spent by the     *)
(* first validate that finds it, a session is valid while it is stored,    *)
(* and either may be forgotten (expiry, eviction, restart).  Requests and  *)
(* answers may be lost, and a request may be handled long after its client *)
(* gave up.  An endpoint of Strays may also pass a request on to another   *)
(* server, or answer with a challenge that was issued to somebody else.    *)
(***************************************************************************)
EXTENDS Naturals, FiniteSets

CONSTANTS
    Clients,
    Servers,        \* a server stands for its origin as well
    Dids,
    Signer,         \* Signer[c]: signer_did of client c
    Base,           \* Base[c]: the server of the base_url it dials
    Ident,          \* Ident[d]: address_for_message; it determines the key of d
    Supported,      \* the DIDs find_did_method and ChallengeStore::create accept
    MaxPerDid,      \* max_sessions_per_did
    Strays,         \* the endpoints that may misdirect
    MaxOps,         \* MaxOps[c]: bound on the calls of login and send of client c
    MaxRestarts     \* bound on restarts

ASSUME LoginAssumptions ==
    /\ Signer \in [Clients -> Dids]
    /\ Base \in [Clients -> Servers]
    /\ DOMAIN Ident = Dids
    /\ Supported \subseteq Dids
    /\ MaxPerDid \in Nat \ {0}
    /\ Strays \subseteq Servers
    /\ MaxOps \in [Clients -> Nat]
    /\ MaxRestarts \in Nat

VARIABLES
    \* A client.
    pc,             \* where its call is, or "idle"
    token,          \* the token of its AuthSession
    retrying,       \* the login it is in was started by send
    envelope,       \* the message it is about to sign or has posted
    calls,          \* HTTP requests made; the number of the one awaited
    ops,            \* login and send calls made
    \* The network.
    requests,       \* requests in flight
    answer,         \* answer[c]: what the request c awaits was answered
    \* A server.
    challenges,     \* challenges[s]: pending challenges
    sessions,       \* sessions[s]: stored sessions
    handling,       \* requests whose principal session_handler has proved
    restarts,
    nonces, tokens, \* drawn so far, over all servers
    \* History variables: read by the properties, by no action.
    issued,         \* every challenge ever created
    signed,         \* every message signed, with its key
    minted,         \* every session ever created, with the nonce it came from
    forgotten,      \* tokens whose session was dropped
    executed,       \* executed[c][o]: times the request of call o was let through
    stale           \* stale[c]: the token send was refused with at first

client == <<pc, token, retrying, envelope, calls, ops>>
server == <<challenges, sessions, handling, restarts, nonces, tokens>>
history == <<issued, signed, minted, forgotten, executed, stale>>
vars == <<client, requests, answer, server, history>>

NoToken == 0
NoIdent == "no identifier"
NoOrigin == "no origin"

NoMessage == [nonce |-> 0, ident |-> NoIdent, origin |-> NoOrigin]
NoAnswer == [status |-> "none", message |-> NoMessage, token |-> NoToken]
Failed(status) == [NoAnswer EXCEPT !.status = status]

\* Where a client waits for an answer; it signs in between.
Awaiting == {"asking", "posting", "first", "second"}

\* build_message, as far as the client reads it.
build_message(s, ch) == [nonce |-> ch.nonce, ident |-> Ident[ch.did], origin |-> s]

\* A faulty variant of the check below: the origin is not compared.
AnyOrigin(c, m) == TRUE

\* The URI line of the message has the origin the client dialled.
verify_uri_binding(c, m) == m.origin = Base[c]

\* What signed_session_request requires before anything is signed.
Bound(c, m) ==
    /\ Signer[c] \in Supported
    /\ m.ident = Ident[Signer[c]]
    /\ verify_uri_binding(c, m)

\* authenticate_with_public_key: the signature is over the stored message.  Its
\* key is that of the requested DID, because the client signs and asks as one.
Verifies(r, stored) == r.message = stored

\* The servers a request can reach.
Reaches(r, s) == s = Base[r.client] \/ Base[r.client] \in Strays

-----------------------------------------------------------------------------
(* Parts of actions *)

\* The client sends its next request and waits for the answer.  The DID of a
\* request is its client's: SessionRequest takes it from the signer.
Dispatch(c, op, kind, m, k) ==
    /\ calls' = [calls EXCEPT ![c] = @ + 1]
    /\ requests' = requests \cup
            {[client |-> c, call |-> calls[c] + 1, op |-> op, kind |-> kind,
              message |-> m, token |-> k]}
    /\ answer' = [answer EXCEPT ![c] = NoAnswer]

Ask(c, op) == Dispatch(c, op, "challenge", NoMessage, NoToken)
Use(c, op, k) == Dispatch(c, op, "whoami", NoMessage, k)
Goto(c, label) == pc' = [pc EXCEPT ![c] = label]

\* The call returns, with a result or an error.
Finish(c) ==
    /\ Goto(c, "idle")
    /\ answer' = [answer EXCEPT ![c] = NoAnswer]
    /\ envelope' = [envelope EXCEPT ![c] = NoMessage]
    /\ retrying' = [retrying EXCEPT ![c] = FALSE]
    /\ UNCHANGED <<calls, requests>>

\* An answer reaches its client only if it still waits for it.
Respond(r, a) ==
    LET c == r.client IN
    answer' = IF pc[c] \in Awaiting /\ calls[c] = r.call
              THEN [answer EXCEPT ![c] = a] ELSE answer

-----------------------------------------------------------------------------
(* Faulty variants of the actions below, each a plausible slip in the code.
   No specification uses them; substituting one for its original shows that
   the property it is paired with can fail.                                *)

\* send repeats its request with the token that was refused.
LoggedInStale(c) ==
    /\ pc[c] = "posting" /\ answer[c].status = "ok"
    /\ IF retrying[c]
       THEN /\ Goto(c, "second")
            /\ Use(c, ops[c], token[c])
            /\ UNCHANGED <<token, retrying, envelope>>
       ELSE Finish(c) /\ token' = [token EXCEPT ![c] = answer[c].token]
    /\ UNCHANGED <<ops, server, history>>

\* send treats a failed connection like a 401.
HttpFailsRetries(c) ==
    /\ pc[c] \in Awaiting /\ answer[c].status = "none"
    /\ IF pc[c] = "first"
       THEN /\ Goto(c, "asking")
            /\ Ask(c, ops[c])
            /\ retrying' = [retrying EXCEPT ![c] = TRUE]
            /\ UNCHANGED envelope
       ELSE Finish(c)
    /\ UNCHANGED <<token, ops, server, history>>

\* session_handler does not compare the DID with the challenge's.
ServeSessionAnyDid(s, r) ==
    LET found == {ch \in challenges[s] : ch.nonce = r.message.nonce} IN
    /\ r.kind = "session"
    /\ challenges' = [challenges EXCEPT ![s] = @ \ found]
    /\ requests' = requests \ {r}
    /\ IF \E ch \in found : Verifies(r, build_message(s, ch))
       THEN handling' = [handling EXCEPT ![s] = @ \cup {r}] /\ UNCHANGED answer
       ELSE /\ Respond(r, Failed(IF found = {} THEN "error" ELSE "unauthorized"))
            /\ UNCHANGED handling
    /\ UNCHANGED <<client, sessions, restarts, nonces, tokens, history>>

\* A DID that has a session is given its token again.
MintReuses(s, r) ==
    LET d == Signer[r.client]
        mine == {k \in sessions[s] : k.did = d}
        k == IF mine = {} THEN [token |-> tokens + 1, did |-> d] ELSE CHOOSE x \in mine : TRUE
    IN
    /\ r \in handling[s]
    /\ tokens' = tokens + 1
    /\ sessions' = [sessions EXCEPT ![s] = @ \cup {k}]
    /\ handling' = [handling EXCEPT ![s] = @ \ {r}]
    /\ Respond(r, [NoAnswer EXCEPT !.status = "ok", !.token = k.token])
    /\ minted' = minted \cup {[server |-> s, did |-> d, token |-> k.token,
                               nonce |-> r.message.nonce]}
    /\ UNCHANGED <<client, requests, challenges, restarts, nonces,
                   issued, signed, forgotten, executed, stale>>

-----------------------------------------------------------------------------
(* Clients *)

\* AuthSession::login.
Login(c) ==
    /\ pc[c] = "idle" /\ token[c] = NoToken
    /\ ops[c] < MaxOps[c]
    /\ ops' = [ops EXCEPT ![c] = @ + 1]
    /\ Goto(c, "asking")
    /\ Ask(c, ops[c] + 1)
    /\ UNCHANGED <<token, retrying, envelope, server, history>>

\* AuthSession::send, its first attempt.
Send(c) ==
    /\ pc[c] = "idle" /\ token[c] # NoToken
    /\ ops[c] < MaxOps[c]
    /\ ops' = [ops EXCEPT ![c] = @ + 1]
    /\ Goto(c, "first")
    /\ Use(c, ops[c] + 1, token[c])
    /\ stale' = [stale EXCEPT ![c] = NoToken]
    /\ UNCHANGED <<token, retrying, envelope, server,
                   issued, signed, minted, forgotten, executed>>

\* The challenge arrives; the client refuses one that is not bound to its DID
\* and to the endpoint it dialled.
Challenged(c) ==
    /\ pc[c] = "asking" /\ answer[c].status = "ok"
    /\ IF Bound(c, answer[c].message)
       THEN /\ Goto(c, "signing")
            /\ envelope' = [envelope EXCEPT ![c] = answer[c].message]
            /\ answer' = [answer EXCEPT ![c] = NoAnswer]
            /\ UNCHANGED <<retrying, calls, requests>>
       ELSE Finish(c)
    /\ UNCHANGED <<token, ops, server, history>>

\* The signer answers, maybe much later, and the client posts the signature ...
Sign(c) ==
    /\ pc[c] = "signing"
    /\ signed' = signed \cup {[key |-> Ident[Signer[c]], message |-> envelope[c]]}
    /\ Goto(c, "posting")
    /\ Dispatch(c, ops[c], "session", envelope[c], NoToken)
    /\ UNCHANGED <<token, retrying, envelope, ops, server,
                   issued, minted, forgotten, executed, stale>>

\* ... or it refuses.
SignFails(c) ==
    /\ pc[c] = "signing"
    /\ Finish(c)
    /\ UNCHANGED <<token, ops, server, history>>

\* The session arrives: authenticate returns it, and send repeats its request
\* with the new token.
LoggedIn(c) ==
    /\ pc[c] = "posting" /\ answer[c].status = "ok"
    /\ token' = [token EXCEPT ![c] = answer[c].token]
    /\ IF retrying[c]
       THEN /\ Goto(c, "second")
            /\ Use(c, ops[c], answer[c].token)
            /\ UNCHANGED <<retrying, envelope>>
       ELSE Finish(c)
    /\ UNCHANGED <<ops, server, history>>

\* Any error status ends the login, and the old token stays.
LoginRefused(c) ==
    /\ pc[c] \in {"asking", "posting"}
    /\ answer[c].status \in {"unauthorized", "error"}
    /\ Finish(c)
    /\ UNCHANGED <<token, ops, server, history>>

\* send looks at the first answer: 401 starts a login, anything else is returned.
FirstAnswered(c) ==
    /\ pc[c] = "first" /\ answer[c].status # "none"
    /\ IF answer[c].status = "unauthorized"
       THEN /\ Goto(c, "asking")
            /\ Ask(c, ops[c])
            /\ retrying' = [retrying EXCEPT ![c] = TRUE]
            /\ stale' = [stale EXCEPT ![c] = token[c]]
            /\ UNCHANGED envelope
       ELSE Finish(c) /\ UNCHANGED stale
    /\ UNCHANGED <<token, ops, server, issued, signed, minted, forgotten, executed>>

\* The second answer is returned whatever it is.
SecondAnswered(c) ==
    /\ pc[c] = "second" /\ answer[c].status # "none"
    /\ Finish(c)
    /\ UNCHANGED <<token, ops, server, history>>

\* AuthClientError::Http: the connection fails, wherever the request may be.
HttpFails(c) ==
    /\ pc[c] \in Awaiting /\ answer[c].status = "none"
    /\ Finish(c)
    /\ UNCHANGED <<token, ops, server, history>>

-----------------------------------------------------------------------------
(* Servers *)

\* challenge_handler: 400 for a DID it does not support, or a new challenge.
RefuseChallenge(s, r) ==
    /\ r.kind = "challenge" /\ Signer[r.client] \notin Supported
    /\ requests' = requests \ {r}
    /\ Respond(r, Failed("error"))
    /\ UNCHANGED <<client, server, history>>

ServeChallenge(s, r) ==
    LET ch == [nonce |-> nonces + 1, did |-> Signer[r.client]] IN
    /\ r.kind = "challenge" /\ ch.did \in Supported
    /\ nonces' = nonces + 1
    /\ challenges' = [challenges EXCEPT ![s] = @ \cup {ch}]
    /\ Respond(r, [NoAnswer EXCEPT !.status = "ok", !.message = build_message(s, ch)])
    /\ requests' = requests \ {r}
    /\ issued' = issued \cup {[server |-> s, nonce |-> ch.nonce, did |-> ch.did]}
    /\ UNCHANGED <<client, sessions, handling, restarts, tokens,
                   signed, minted, forgotten, executed, stale>>

\* session_handler up to the principal.  validate spends the nonce before the
\* DID and the signature are looked at.
ServeSession(s, r) ==
    LET found == {ch \in challenges[s] : ch.nonce = r.message.nonce} IN
    /\ r.kind = "session"
    /\ challenges' = [challenges EXCEPT ![s] = @ \ found]
    /\ requests' = requests \ {r}
    /\ IF \E ch \in found : /\ ch.did = Signer[r.client]
                            /\ Verifies(r, build_message(s, ch))
       THEN handling' = [handling EXCEPT ![s] = @ \cup {r}] /\ UNCHANGED answer
       ELSE /\ Respond(r, Failed(IF found = {} THEN "error" ELSE "unauthorized"))
            /\ UNCHANGED handling
    /\ UNCHANGED <<client, sessions, restarts, nonces, tokens, history>>

\* The rest of session_handler: the session is created, at the DID's quota in
\* place of its oldest, and the token returned.
MintSession(s, r) ==
    LET d == Signer[r.client]
        mine == {k \in sessions[s] : k.did = d}
        gone == IF Cardinality(mine) < MaxPerDid THEN {}
                ELSE {k \in mine : \A l \in mine : k.token <= l.token}
        new == [token |-> tokens + 1, did |-> d] IN
    /\ r \in handling[s]
    /\ tokens' = tokens + 1
    /\ sessions' = [sessions EXCEPT ![s] = (@ \ gone) \cup {new}]
    /\ forgotten' = forgotten \cup {k.token : k \in gone}
    /\ handling' = [handling EXCEPT ![s] = @ \ {r}]
    /\ Respond(r, [NoAnswer EXCEPT !.status = "ok", !.token = new.token])
    /\ minted' = minted \cup {[server |-> s, did |-> d, token |-> new.token,
                               nonce |-> r.message.nonce]}
    /\ UNCHANGED <<client, requests, challenges, restarts, nonces,
                   issued, signed, executed, stale>>

\* SessionStore::create fails: 503, and the nonce is spent.
MintFails(s, r) ==
    /\ r \in handling[s]
    /\ handling' = [handling EXCEPT ![s] = @ \ {r}]
    /\ Respond(r, Failed("error"))
    /\ UNCHANGED <<client, requests, challenges, sessions, restarts, nonces, tokens, history>>

\* whoami_handler, for every handler behind a bearer token.
ServeWhoami(s, r) ==
    LET known == \E k \in sessions[s] : k.token = r.token IN
    /\ r.kind = "whoami"
    /\ requests' = requests \ {r}
    /\ Respond(r, Failed(IF known THEN "ok" ELSE "unauthorized"))
    /\ executed' = IF known THEN [executed EXCEPT ![r.client][r.op] = @ + 1] ELSE executed
    /\ UNCHANGED <<client, server, issued, signed, minted, forgotten, stale>>

\* The endpoint answers with a challenge it did not create for this request.
Forward(s, r, ch) ==
    /\ Base[r.client] \in Strays
    /\ r.kind = "challenge" /\ ch \in challenges[s]
    /\ requests' = requests \ {r}
    /\ Respond(r, [NoAnswer EXCEPT !.status = "ok", !.message = build_message(s, ch)])
    /\ UNCHANGED <<client, server, history>>

\* A challenge expires or is evicted, and so may a session.
ForgetChallenge(s, ch) ==
    /\ challenges' = [challenges EXCEPT ![s] = @ \ {ch}]
    /\ UNCHANGED <<client, requests, answer, sessions, handling, restarts, nonces, tokens,
                   history>>

ForgetSession(s, k) ==
    /\ sessions' = [sessions EXCEPT ![s] = @ \ {k}]
    /\ forgotten' = forgotten \cup {k.token}
    /\ UNCHANGED <<client, requests, answer, challenges, handling, restarts, nonces, tokens,
                   issued, signed, minted, executed, stale>>

\* The process restarts with empty stores; handlers that were running are gone.
Restart(s) ==
    /\ restarts < MaxRestarts
    /\ restarts' = restarts + 1
    /\ challenges' = [challenges EXCEPT ![s] = {}]
    /\ sessions' = [sessions EXCEPT ![s] = {}]
    /\ handling' = [handling EXCEPT ![s] = {}]
    /\ forgotten' = forgotten \cup {k.token : k \in sessions[s]}
    /\ UNCHANGED <<client, requests, answer, nonces, tokens,
                   issued, signed, minted, executed, stale>>

\* A request is lost on its way.
Lose(r) ==
    /\ requests' = requests \ {r}
    /\ UNCHANGED <<client, answer, server, history>>

-----------------------------------------------------------------------------
Init ==
    /\ pc = [c \in Clients |-> "idle"]
    /\ token = [c \in Clients |-> NoToken]
    /\ retrying = [c \in Clients |-> FALSE]
    /\ envelope = [c \in Clients |-> NoMessage]
    /\ calls = [c \in Clients |-> 0]
    /\ ops = [c \in Clients |-> 0]
    /\ requests = {}
    /\ answer = [c \in Clients |-> NoAnswer]
    /\ challenges = [s \in Servers |-> {}]
    /\ sessions = [s \in Servers |-> {}]
    /\ handling = [s \in Servers |-> {}]
    /\ restarts = 0 /\ nonces = 0 /\ tokens = 0
    /\ issued = {} /\ signed = {} /\ minted = {} /\ forgotten = {}
    /\ executed = [c \in Clients |-> [o \in 1 .. MaxOps[c] |-> 0]]
    /\ stale = [c \in Clients |-> NoToken]

React(c) ==
    \/ Challenged(c) \/ Sign(c) \/ LoggedIn(c) \/ LoginRefused(c)
    \/ FirstAnswered(c) \/ SecondAnswered(c)

Serve(s) ==
    \/ \E r \in {q \in requests : Reaches(q, s)} :
            \/ RefuseChallenge(s, r) \/ ServeChallenge(s, r)
            \/ ServeSession(s, r) \/ ServeWhoami(s, r)
    \/ \E r \in handling[s] : MintSession(s, r) \/ MintFails(s, r)

Trouble(s) ==
    \/ \E r \in requests, ch \in challenges[s] : Forward(s, r, ch)
    \/ \E ch \in challenges[s] : ForgetChallenge(s, ch)
    \/ \E k \in sessions[s] : ForgetSession(s, k)
    \/ Restart(s)

Next ==
    \/ \E c \in Clients : Login(c) \/ Send(c) \/ React(c) \/ SignFails(c) \/ HttpFails(c)
    \/ \E s \in Servers : Serve(s) \/ Trouble(s)
    \/ \E r \in requests : Lose(r)

Spec == Init /\ [][Next]_vars

-----------------------------------------------------------------------------
(* Properties *)

\* A session exists only for a DID whose key signed a challenge that this very
\* server had issued to this very DID, and no challenge yields two sessions,
\* whatever was lost, late, forwarded or restarted in between (session_handler,
\* testkit lib.rs:257-295).
ProvedPossession ==
    /\ \A s \in Servers : \A k \in sessions[s] : \E m \in minted :
          m.server = s /\ m.did = k.did /\ m.token = k.token
    /\ \A m \in minted :
          LET ch == [server |-> m.server, nonce |-> m.nonce, did |-> m.did] IN
          /\ ch \in issued
          /\ [key |-> Ident[m.did], message |-> build_message(m.server, ch)] \in signed
    /\ \A m, n \in minted : m.nonce = n.nonce => m = n

\* No server gets a session for a DID unless a client of that DID dialled that
\* server: a challenge another server forwards is never signed into a session
\* ("This kills the relay", client.rs:36-37).
SessionsOnlyWhereDialled ==
    \A m \in minted : \E c \in Clients : Signer[c] = m.did /\ Base[c] = m.server

\* The token a client holds was created by the server it dialled, for its own
\* DID, and no other client has it.
TokenIsOwn ==
    \A c \in Clients : token[c] # NoToken =>
        /\ \E m \in minted : /\ m.token = token[c]
                             /\ m.did = Signer[c] /\ m.server = Base[c]
        /\ \A d \in Clients \ {c} : token[d] # token[c]

\* send repeats its request only when the first was refused: the server never
\* lets the request of one send through twice, also if answers are lost and
\* requests late ("retries the request exactly once", client.rs:233).
SendExecutesOnce ==
    \A c \in Clients : \A o \in 1 .. MaxOps[c] : executed[c][o] <= 1

\* If the endpoint dialled does not misdirect, a second 401 means that the server
\* forgot the client twice: the retry carried a token other than the one refused
\* at first, and its session has been dropped since, by expiry, by a restart or by
\* another login of the DID at its quota.  client.rs:234-235 calls it "an
\* authorization problem, not an expiry"; no handler of the testkit answers 401
\* for want of authorization.
RefusedTwiceOnlyIfForgottenTwice ==
    [][\A c \in Clients :
            pc[c] = "second" /\ answer[c].status = "unauthorized" /\ pc'[c] = "idle"
                => \/ Base[c] \in Strays
                   \/ token[c] # stale[c] /\ {token[c], stale[c]} \subseteq forgotten]_vars
=============================================================================
