---------------------------- MODULE PasskeyLogin ----------------------------
(***************************************************************************)
(* Passkey login at services that store no credential (SPEC.md section     *)
(* 12): a policy is built, nodes issue nonces, pages ask passkeys for      *)
(* assertions, and nodes verify them, choose between the two recovered     *)
(* keys, ask for a second assertion when they cannot, and set the hint     *)
(* cookie.                                                                 *)
(*                                                                         *)
(* The page of a node that expects derived challenges computes what is     *)
(* signed; to every other prompt a node sends the bytes, and it may send   *)
(* those, or the nonce, that another node awaits.  Whatever was signed may *)
(* be presented to any node, by anyone, any number of times, changed       *)
(* beforehand or not, under any credential id (it is not signed) and       *)
(* beside any hint.  What a consumer of the crate adds is as SPEC.md 12.4  *)
(* and 12.8 say: challenges are single use, the second one is sent as      *)
(* Exact and the pending state kept beside it.                             *)
(***************************************************************************)
EXTENDS PasskeyPolicy

CONSTANTS
    Nodes, NodeUrl,     \* services, and the base URL of each
    Derived,            \* those that expect the derived login challenge
    Keys,               \* passkeys, one per user
    Credentials,        \* credential ids a client may send
    Pages,              \* pages that call get(): [rp_id, origin, flaw]
    Calls,              \* calls on the policy builder
    MaxNonce,           \* bound on the challenges issued
    MaxMade             \* bound on the assertions made

NoNode == "none"

\* Nodes that derive the challenge are told apart by the origins of their URLs.
ASSUME PasskeyAssumptions ==
    /\ NoNode \notin Nodes /\ Derived \subseteq Nodes
    /\ \A m, n \in Derived : normalise_origin(NodeUrl[m]) = normalise_origin(NodeUrl[n]) => m = n
    /\ {"nobody", Junk.key} \cap Keys = {}
    /\ \A page \in Pages : page.flaw \in Flaws
    /\ MaxNonce \in Nat /\ MaxMade \in Nat

VARIABLES
    policy,     \* the builder, then the AssertionPolicy
    issued,     \* issued[i]: the node that issued challenge i, for which prompt, what it
                \* expects, and whether it is unused
    tab,        \* tab[k]: the node user k's page talks to, what is to be signed, and
                \* whether those are the bytes as sent
    made,       \* assertions signed so far
    pending,    \* pending[n]: the PendingRecovery of node n, with its challenge's index
    known,      \* known[n]: principals node n has an account for
    cookie,     \* cookie[k]: the aqua_did_hint of user k's browser
    \* History variables: read by the properties, by no action.
    session,    \* the session the last step minted
    tossed      \* DIDs a client's own hint had logged in

vars == <<policy, issued, tab, made, pending, known, cookie, session, tossed>>

NoTab == [node |-> NoNode, bytes |-> NoChallenge, as_sent |-> FALSE]
NoPending == [index |-> 0]
NoCookie == Junk
NoAssertion == [key |-> NoNode]
NoSession == [node |-> NoNode]
AnySession == session # NoSession
NoLogIn == session' = NoSession /\ UNCHANGED tossed

Live(n) == {i \in 1..Len(issued) : issued[i].node = n /\ issued[i].live}

\* What other nodes than n await.
Elsewhere(n) == {issued[i].bytes : i \in UNION {Live(m) : m \in Nodes \ {n}}}

\* What a login at n may be asked to sign: fresh, or after what another node awaits.
\* A node that derives is only asked for a nonce.
Offers(n) ==
    LET fresh == Exact(Len(issued) + 1)  given == {fresh} \cup Elsewhere(n) IN
    IF n \in Derived THEN {derive_login_challenge(c.nonce, NodeUrl[n]) : c \in given} ELSE given

Issue(slots, n, prompt, bytes) ==
    Append(slots, [node |-> n, prompt |-> prompt, bytes |-> bytes, live |-> TRUE])

\* Hints a request with assertion a may carry: that of the key create() returned,
\* any candidate, or one that names neither and acts as one that does not parse.
Hints(a) == {from_spki_der(a.key), Junk} \cup candidate_dids(a)

Init ==
    /\ policy = [entries |-> {}, require_uv |-> TRUE, state |-> "building", related |-> {}]
    /\ issued = <<>>
    /\ tab = [k \in Keys |-> NoTab]
    /\ made = {}
    /\ pending = [n \in Nodes |-> NoPending]
    /\ known = [n \in Nodes |-> {}]
    /\ cookie = [k \in Keys |-> NoCookie]
    /\ session = NoSession
    /\ tossed = {}

-----------------------------------------------------------------------------
(* The builder: a refused call consumes it, and the service does not start. *)

AddRp(call) ==
    /\ policy.state = "building"
    /\ policy' = IF AddRpAccepted(policy.entries, call)
                 THEN [policy EXCEPT !.entries = @ \cup {Entry(call)},
                          !.related = @ \cup {<<RpId(call), normalise_origin(o)>> : o \in call.related}]
                 ELSE [policy EXCEPT !.state = "refused"]
    /\ NoLogIn /\ UNCHANGED <<issued, tab, made, pending, known, cookie>>

RequireUv(on) ==
    /\ policy.state = "building"
    /\ policy' = [policy EXCEPT !.require_uv = on]
    /\ NoLogIn /\ UNCHANGED <<issued, tab, made, pending, known, cookie>>

Build ==
    /\ policy.state = "building"
    /\ policy' = [policy EXCEPT !.state = IF policy.entries = {} THEN "refused" ELSE "built"]
    /\ NoLogIn /\ UNCHANGED <<issued, tab, made, pending, known, cookie>>

-----------------------------------------------------------------------------
\* User k's page starts a login at node n.
Start(k, n) ==
    /\ policy.state = "built"
    /\ tab[k] = NoTab
    /\ Len(issued) < MaxNonce
    /\ \E c \in Offers(n) :
        /\ issued' = Issue(issued, n, 1, c)
        /\ tab' = [tab EXCEPT ![k] = [node |-> n, bytes |-> c, as_sent |-> n \notin Derived]]
    /\ NoLogIn /\ UNCHANGED <<policy, made, pending, known, cookie>>

\* The page calls get(), if it has a challenge.
Get(k, page) ==
    /\ tab[k].bytes # NoChallenge
    /\ Cardinality(made) < MaxMade
    /\ made' = made \cup {[key |-> k, serial |-> Cardinality(made) + 1, challenge |-> tab[k].bytes,
                           rp_id |-> page.rp_id, origin |-> page.origin, flaw |-> page.flaw,
                           meant |-> tab[k].node, as_sent |-> tab[k].as_sent]}
    /\ tab' = [tab EXCEPT ![k] = NoTab]
    /\ NoLogIn /\ UNCHANGED <<policy, issued, pending, known, cookie>>

\* Somebody changes an assertion, so that it carries the challenge of his choice.
Tamper(a, i) ==
    /\ i \in 1..Len(issued)
    /\ Cardinality(made) < MaxMade
    /\ made' = made \cup {[a EXCEPT !.serial = Cardinality(made) + 1,
                           !.challenge = issued[i].bytes, !.flaw = "tampered"]}
    /\ NoLogIn /\ UNCHANGED <<policy, issued, tab, pending, known, cookie>>

Consume(i) == issued' = [issued EXCEPT ![i].live = FALSE]

\* A principal is logged in at n: an account, the hint cookie in the browser of
\* the passkey's user, and a session; `extra` is the client's own hint.
LogIn(n, did, by, a, first, extra) ==
    /\ known' = [known EXCEPT ![n] = @ \cup {did}]
    /\ cookie' = [cookie EXCEPT ![a.key] = did]
    /\ session' = [node |-> n, did |-> did, by |-> by, proof |-> a, first |-> first]
    /\ tossed' = tossed \cup ({did} \cap {extra})

\* The first assertion, against challenge i: refused, decided by the hints (the
\* cookie's and `extra`) or an account, or left pending with a fresh challenge.
PresentFirst(n, i, a) ==
    /\ i \in Live(n) /\ issued[i].prompt = 1
    /\ \/ /\ ~Verifies(a, issued[i].bytes, policy)
          /\ Consume(i) /\ NoLogIn /\ UNCHANGED <<pending, known, cookie>>
       \/ /\ Verifies(a, issued[i].bytes, policy)
          /\ \E extra \in Hints(a) :
                LET hints == DidHints({cookie[a.key], extra})
                    outcome == select(candidate_dids(a), hints, known[n]) IN
                \/ /\ \E did \in outcome.picked : LogIn(n, did, outcome.by, a, NoAssertion, extra)
                   /\ Consume(i) /\ UNCHANGED pending
                \/ /\ outcome.picked = {} /\ Len(issued) < MaxNonce
                   /\ issued' = Issue([issued EXCEPT ![i].live = FALSE], n, 2, Exact(Len(issued) + 1))
                   /\ \E credential \in Credentials :
                        pending' = [pending EXCEPT ![n] =
                            [index |-> Len(issued) + 1, candidates |-> candidate_dids(a),
                             credential_id |-> credential, first |-> a]]
                   /\ NoLogIn /\ UNCHANGED <<known, cookie>>
    /\ UNCHANGED <<policy, tab, made>>

\* The page of user k is asked for the second assertion (request_options with the
\* first one's rawId), and signs what it is sent.
AskSecond(k, n) ==
    /\ pending[n] # NoPending
    /\ tab[k] = NoTab
    /\ \E c \in {issued[pending[n].index].bytes} \cup Elsewhere(n) :
        tab' = [tab EXCEPT ![k] = [node |-> n, bytes |-> c, as_sent |-> TRUE]]
    /\ NoLogIn /\ UNCHANGED <<policy, issued, made, pending, known, cookie>>

\* The second assertion: verified against the second challenge, then resolved.
PresentSecond(n, a, credential) ==
    LET p == pending[n]
        common == IF Verifies(a, issued[p.index].bytes, policy)
                  THEN resolve(p, a, credential) ELSE {} IN
    /\ p # NoPending
    /\ Consume(p.index)
    /\ pending' = [pending EXCEPT ![n] = NoPending]
    /\ \/ \E did \in common : LogIn(n, did, "Intersection", a, p.first, Junk)
       \/ common = {} /\ NoLogIn /\ UNCHANGED <<known, cookie>>
    /\ UNCHANGED <<policy, tab, made>>

\* hint_clear_cookie.
ClearHint(k) ==
    /\ cookie[k] # NoCookie
    /\ cookie' = [cookie EXCEPT ![k] = NoCookie]
    /\ NoLogIn /\ UNCHANGED <<policy, issued, tab, made, pending, known>>

Next ==
    \/ \E call \in Calls : AddRp(call)
    \/ \E on \in BOOLEAN : RequireUv(on)
    \/ Build
    \/ \E k \in Keys :
        \/ \E n \in Nodes : Start(k, n) \/ AskSecond(k, n)
        \/ \E page \in Pages : Get(k, page)
        \/ ClearHint(k)
    \/ \E a \in made :
        \/ \E i \in 1..MaxNonce : Tamper(a, i) \/ \E n \in Nodes : PresentFirst(n, i, a)
        \/ \E n \in Nodes, c \in Credentials : PresentSecond(n, a, c)

Spec == Init /\ [][Next]_vars

-----------------------------------------------------------------------------
(* Properties *)

\* The assertion a login began with.
Opening == IF session.by = "Intersection" THEN session.first ELSE session.proof

\* A passkey's own session at a node that expects the derived challenge began with
\* an assertion of that passkey, made for that very node or by a page that signed
\* bytes as it was sent them: what a deriving page signed for one node, even over a
\* nonce passed on, opens nothing at another (derive_login_challenge,
\* ExpectedChallenge::DerivedLogin).  A page that signs as sent gives no such
\* protection, and by SPEC.md 12.4 step 3 every second prompt is one.
MeantUnlessSignedAsSent ==
    session.node \in Derived =>
        \A k \in Keys : session.did = DidOf(k) =>
            /\ Opening.key = k /\ Opening.flaw # "tampered"
            /\ Opening.meant = session.node \/ Opening.as_sent

\* A session is in the name of the passkey that signed, or of a key nobody holds
\* that the assertion verifies under, and then only because a client's own hint
\* named it, now or when the same assertion was presented before: neither the
\* accounts nor the cookies a node makes of its own accord lead there, and no hint
\* selects another passkey (select, resolve).  webauthn_select.rs:18-19 and
\* webauthn_hint.rs:14-15 say more: that a tossed hint costs at worst a prompt.
\* Had the DID's key been stored, verify_webauthn_assertion would have accepted.
PrincipalIsSigner ==
    AnySession =>
        LET a == session.proof IN
        /\ \/ session.did = DidOf(a.key) /\ a.flaw # "tampered"
           \/ session.did \in tossed /\ session.did.twin = a.serial
        /\ StoredKeyVerifies(a, session.did, a.challenge, a.rp_id, a.origin)

\* A login by two prompts rests on two assertions by the key it names, over two
\* challenges: no other key, and not the first assertion again, completes it
\* (PendingRecovery::resolve).
TwoPromptsTwoProofs ==
    AnySession /\ session.by = "Intersection" =>
        /\ session.first.key = session.proof.key
        /\ session.did = DidOf(session.first.key)
        /\ session.first.challenge # session.proof.challenge

\* A session comes from a page within the RP ID the passkey asserted for, or from
\* one the operator listed as related to that RP ID; being listed for another RP
\* ID of the same policy is not enough (add_rp, entry_for_rp_id_hash).
PageBelongsToRpId ==
    AnySession =>
        \/ host_within_rp_id(session.proof.origin.host, session.proof.rp_id)
        \/ <<session.proof.rp_id, session.proof.origin>> \in policy.related

=============================================================================
