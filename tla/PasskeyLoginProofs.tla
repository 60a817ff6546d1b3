------------------------- MODULE PasskeyLoginProofs -------------------------
(* Theorems about PasskeyLogin, for any nodes, users, pages, policies and     *)
(* credential ids, and any number of challenges and assertions.               *)
EXTENDS PasskeyLogin, SequenceTheorems, FiniteSetTheorems, TLAPS

\* The values of the variables: what is signed, a challenge issued, what a page
\* holds, a DID, an assertion, and a pending recovery.
Challenge == [nonce : Nat, node : {NoOrigin} \cup {normalise_origin(NodeUrl[n]) : n \in Nodes}]
Slot == [node : Nodes, prompt : {1, 2}, bytes : Challenge, live : BOOLEAN]
Tab == [node : Nodes \cup {NoNode}, bytes : Challenge, as_sent : BOOLEAN]
Did == [key : Keys \cup {"nobody"}, twin : Nat]
Assertion == [key : Keys, serial : Nat \ {0}, challenge : Challenge,
              rp_id : {page.rp_id : page \in Pages}, origin : {page.origin : page \in Pages},
              flaw : Flaws, meant : Nodes, as_sent : BOOLEAN]
Recovery == [index : Nat, candidates : SUBSET Did, credential_id : Credentials,
             first : Assertion]
\* The related origins a call of add_rp lists, and what the builder holds.
RelatedTo(call) == {<<RpId(call), normalise_origin(o)>> : o \in call.related}
Policy == [entries : SUBSET {Entry(call) : call \in Calls}, require_uv : BOOLEAN,
           state : {"building", "built", "refused"},
           related : SUBSET UNION {RelatedTo(call) : call \in Calls}]

\* Every variable the arguments need keeps the shape the code's types give it.
TypeInv ==
    /\ policy \in Policy
    /\ issued \in Seq(Slot)
    /\ tab \in [Keys -> Tab]
    /\ made \subseteq Assertion /\ IsFiniteSet(made)
    /\ pending \in [Nodes -> Recovery \cup {NoPending}]
    /\ known \in [Nodes -> SUBSET Did]
    /\ cookie \in [Keys -> Did \cup {Junk}]

\* c is the challenge derived for node n from its nonce.
Derives(n, c) == n \in Derived /\ c = derive_login_challenge(c.nonce, NodeUrl[n])

\* What a node expects was made from a nonce drawn by then, and is derived for the
\* node if it expects derived challenges, save at the second prompt.
SlotInv ==
    \A i \in 1..Len(issued) :
        /\ issued[i].bytes.nonce <= Len(issued)
        /\ issued[i].node \in Derived /\ issued[i].prompt = 1
              => Derives(issued[i].node, issued[i].bytes)

\* What a page is to sign, unless sent, and what it signed, is derived for the node
\* it talks to; assertions differ in their serial numbers.
MadeInv ==
    /\ \A k \in Keys : tab[k].bytes # NoChallenge =>
          /\ tab[k].node \in Nodes
          /\ tab[k].as_sent \/ Derives(tab[k].node, tab[k].bytes)
    /\ \A a \in made : /\ a.serial <= Cardinality(made)
                       /\ a.flaw = "tampered" \/ a.as_sent \/ Derives(a.meant, a.challenge)
    /\ \A a, b \in made : a.serial = b.serial => a = b

\* Assertion a verified against a first challenge of node n.
Opens(n, a) ==
    a \in made /\ a.challenge # NoChallenge /\ (n \in Derived => Derives(n, a.challenge))

\* A pending recovery holds both candidates of an assertion over another challenge
\* than the one it waits for.
PendingOK(n, q) ==
    q # NoPending =>
        /\ q.index \in 1..Len(issued)
        /\ q.candidates = candidate_dids(q.first)
        /\ Opens(n, q.first)
        /\ q.first.challenge # issued[q.index].bytes

PendingInv == \A n \in Nodes : PendingOK(n, pending[n])

\* An account or a cookie is of a passkey, or of a DID a client's hint had logged in.
Named(d) == d.twin = 0 \/ d \in tossed
NamesInv ==
    /\ \A n \in Nodes : \A d \in known[n] : Named(d)
    /\ \A k \in Keys : Named(cookie[k])

\* Every origin of an entry is within its RP ID or was listed as related to it.
PolicyInv ==
    \A e \in policy.entries : \A o \in e.origins :
        host_within_rp_id(o.host, e.rp_id) \/ <<e.rp_id, o>> \in policy.related

\* What was established when the session of the last step was minted.
SessionInv ==
    AnySession =>
        /\ session.node \in Nodes
        /\ session.proof \in made
        /\ Verifies(session.proof, session.proof.challenge, policy)
        /\ session.did \in candidate_dids(session.proof)
        /\ Opens(session.node, Opening)
        /\ \/ session.did = DidOf(session.proof.key) /\ session.proof.flaw # "tampered"
           \/ session.did \in tossed /\ session.did.twin = session.proof.serial
        /\ session.by = "Intersection" =>
              /\ session.first.key = session.proof.key /\ session.first.flaw # "tampered"
              /\ session.did = DidOf(session.first.key)
              /\ session.first.challenge # session.proof.challenge

\* The inductive invariant.
PasskeyInv ==
    /\ TypeInv /\ SlotInv /\ MadeInv /\ PendingInv
    /\ NamesInv /\ PolicyInv /\ SessionInv

-----------------------------------------------------------------------------
\* What Exact and derive_login_challenge give is a challenge; the latter is a
\* function of the nonce it keeps.
LEMMA Derivation ==
    ASSUME NEW n \in Nodes, NEW i \in Nat
    PROVE  /\ Exact(i) \in Challenge /\ Exact(i).nonce = i /\ NoChallenge \in Challenge
           /\ LET c == derive_login_challenge(i, NodeUrl[n]) IN
              /\ c \in Challenge /\ c.nonce <= i
              /\ c = derive_login_challenge(c.nonce, NodeUrl[n])
<1> DEFINE c == derive_login_challenge(i, NodeUrl[n])
<1>1. Exact(i) \in Challenge /\ Exact(i).nonce = i /\ NoChallenge \in Challenge /\ NoChallenge.nonce = 0
  BY DEF Exact, Challenge, NoChallenge
<1>2. CASE NodeUrl[n].scheme \in {"http", "https"}
  <2>1. c = [nonce |-> i, node |-> normalise_origin(NodeUrl[n])]
    BY <1>2 DEF derive_login_challenge
  <2>2. c \in Challenge /\ c.nonce = i
    BY <2>1 DEF Challenge
  <2> QED
    BY <1>1, <2>2
<1>3. CASE NodeUrl[n].scheme \notin {"http", "https"}
  <2>1. \A j : derive_login_challenge(j, NodeUrl[n]) = NoChallenge
    BY <1>3 DEF derive_login_challenge
  <2>2. c = NoChallenge /\ c = derive_login_challenge(c.nonce, NodeUrl[n])
    BY <2>1
  <2> QED
    BY <1>1, <2>2
<1> QED
  BY <1>2, <1>3

\* Both candidates of an assertion are DIDs: the signer's, unless the bytes were
\* changed, and others that bear its serial number.
LEMMA Candidates ==
    ASSUME NEW a \in Assertion
    PROVE  /\ candidate_dids(a) \in SUBSET Did
           /\ \A d \in candidate_dids(a) :
                \/ d = DidOf(a.key) /\ d.twin = 0 /\ d.key = a.key /\ a.flaw # "tampered"
                \/ d.twin = a.serial /\ a.serial # 0
<1>1. a.key \in Keys /\ a.serial \in Nat \ {0}
  BY DEF Assertion
<1>2. /\ DidOf(a.key) \in Did /\ DidOf(a.key).twin = 0 /\ DidOf(a.key).key = a.key
      /\ TwinOf(a) \in Did /\ TwinOf(a).twin = a.serial
      /\ StrangerOf(a) \in Did /\ StrangerOf(a).twin = a.serial
  BY <1>1 DEF DidOf, TwinOf, StrangerOf, Did
<1> QED
  BY <1>1, <1>2 DEF candidate_dids

\* Challenges are only ever added and consumed.
SlotsKept ==
    /\ issued' \in Seq(Slot) /\ Len(issued) <= Len(issued')
    /\ \A j \in 1..Len(issued) : issued'[j].bytes = issued[j].bytes

\* Consuming a challenge leaves the rest of it as it is.
LEMMA Consumed ==
    ASSUME NEW s \in Seq(Slot), NEW i \in 1..Len(s)
    PROVE  LET t == [s EXCEPT ![i].live = FALSE] IN
           /\ t \in Seq(Slot) /\ Len(t) = Len(s)
           /\ \A j \in 1..Len(s) : /\ t[j].bytes = s[j].bytes /\ t[j].node = s[j].node
                                   /\ t[j].prompt = s[j].prompt
<1> DEFINE e == [s[i] EXCEPT !.live = FALSE]
           t == [s EXCEPT ![i] = e]
<1>1. s[i] \in Slot
  BY ElementOfSeq
<1>2. e \in Slot /\ e.bytes = s[i].bytes /\ e.node = s[i].node /\ e.prompt = s[i].prompt
  BY <1>1 DEF Slot
<1> HIDE DEF e
<1>3. t \in Seq(Slot) /\ Len(t) = Len(s) /\ \A j \in 1..Len(s) : t[j] = IF j = i THEN e ELSE s[j]
  BY <1>2, ExceptSeq
<1>4. [s EXCEPT ![i].live = FALSE] = t
  BY DEF e
<1> HIDE DEF t
<1> QED
  BY <1>2, <1>3, <1>4

\* A step that consumes challenge i.
LEMMA ConsumeStep ==
    ASSUME TypeInv, SlotInv, NEW i \in 1..Len(issued), Consume(i)
    PROVE  SlotsKept /\ SlotInv' /\ Len(issued') = Len(issued)
<1>1. issued \in Seq(Slot) /\ issued' = [issued EXCEPT ![i].live = FALSE]
  BY DEF TypeInv, Consume
<1>2. /\ issued' \in Seq(Slot) /\ Len(issued') = Len(issued)
      /\ \A j \in 1..Len(issued) : /\ issued'[j].bytes = issued[j].bytes
                                   /\ issued'[j].node = issued[j].node
                                   /\ issued'[j].prompt = issued[j].prompt
  BY <1>1, Consumed
<1>3. Len(issued) \in Nat
  BY <1>1
<1> QED
  BY <1>2, <1>3 DEF SlotsKept, SlotInv, Derives

\* A step that issues a challenge, from what is left of the earlier ones.
LEMMA IssueStep ==
    ASSUME TypeInv, SlotInv, NEW n \in Nodes, NEW prompt \in {1, 2}, NEW c \in Challenge,
           NEW s \in Seq(Slot), Len(s) = Len(issued),
           \A j \in 1..Len(issued) : /\ s[j].bytes = issued[j].bytes /\ s[j].node = issued[j].node
                                     /\ s[j].prompt = issued[j].prompt,
           c.nonce <= Len(issued) + 1, n \in Derived /\ prompt = 1 => Derives(n, c),
           issued' = Issue(s, n, prompt, c)
    PROVE  /\ SlotsKept /\ SlotInv' /\ Len(issued') = Len(issued) + 1
           /\ issued'[Len(issued) + 1].bytes = c
<1> DEFINE e == [node |-> n, prompt |-> prompt, bytes |-> c, live |-> TRUE]
           m == Len(issued)
<1>1. e \in Slot /\ e.node = n /\ e.prompt = prompt /\ e.bytes = c
  BY DEF Slot
<1>2. issued' = Append(s, e) /\ issued \in Seq(Slot)
  BY DEF Issue, TypeInv
<1> HIDE DEF e
<1>3. /\ issued' \in Seq(Slot) /\ Len(issued') = m + 1 /\ issued'[m + 1] = e
      /\ \A j \in 1..m : issued'[j] = s[j]
  BY <1>1, <1>2, AppendProperties
<1>4. m \in Nat
  BY <1>2
<1>5. SlotsKept
  BY <1>3, <1>4 DEF SlotsKept
<1>6. ASSUME NEW j \in 1..Len(issued')
      PROVE  /\ issued'[j].bytes.nonce <= Len(issued')
             /\ issued'[j].node \in Derived /\ issued'[j].prompt = 1
                  => Derives(issued'[j].node, issued'[j].bytes)
  <2>1. CASE j = m + 1
    BY <1>1, <1>3, <2>1
  <2>2. CASE j \in 1..m
    <3>1. issued[j] \in Slot
      BY <1>2, <2>2, ElementOfSeq
    <3>2. issued[j].bytes.nonce \in Nat /\ issued[j].bytes.nonce <= m
      BY <2>2, <3>1 DEF SlotInv, Slot, Challenge
    <3> QED
      BY <1>3, <1>4, <2>2, <3>2 DEF SlotInv
  <2> QED
    BY <1>3, <1>4, <1>6, <2>1, <2>2
<1>7. SlotInv'
  BY <1>6 DEF SlotInv, Derives
<1> QED
  BY <1>1, <1>3, <1>5, <1>7

\* Replacing one node's pending recovery, or none.
LEMMA PendingStep ==
    ASSUME PasskeyInv, SlotsKept, made \subseteq made', NEW n \in Nodes,
           NEW q \in Recovery \cup {NoPending},
           pending' = [pending EXCEPT ![n] = q], PendingOK(n, q)'
    PROVE  pending' \in [Nodes -> Recovery \cup {NoPending}] /\ PendingInv'
<1>1. pending \in [Nodes -> Recovery \cup {NoPending}]
  BY DEF PasskeyInv, TypeInv
<1>2. /\ pending' \in [Nodes -> Recovery \cup {NoPending}] /\ pending'[n] = q
      /\ \A m \in Nodes \ {n} : pending'[m] = pending[m]
  BY <1>1
<1>3. 1..Len(issued) \subseteq 1..Len(issued')
  <2>1. Len(issued) \in Nat /\ Len(issued') \in Nat
    BY DEF PasskeyInv, TypeInv, SlotsKept
  <2> QED
    BY <2>1 DEF SlotsKept
<1>4. ASSUME NEW m \in Nodes PROVE PendingOK(m, pending[m])'
  <2>1. CASE m = n
    BY <1>2, <2>1 DEF PendingOK, Opens
  <2>2. CASE m # n
    BY <1>2, <1>3, <2>2 DEF PasskeyInv, PendingInv, PendingOK, Opens, SlotsKept
  <2> QED
    BY <2>1, <2>2
<1> QED
  BY <1>2, <1>4 DEF PendingInv

\* The pending recoveries stay.
LEMMA PendingKept ==
    ASSUME PasskeyInv, SlotsKept, made \subseteq made', pending' = pending
    PROVE  PendingInv'
<1>1. 1..Len(issued) \subseteq 1..Len(issued')
  <2>1. Len(issued) \in Nat /\ Len(issued') \in Nat
    BY DEF PasskeyInv, TypeInv, SlotsKept
  <2> QED
    BY <2>1 DEF SlotsKept
<1> QED
  BY <1>1 DEF PasskeyInv, PendingInv, PendingOK, Opens, SlotsKept

\* A step that logs nobody in, once the policy, the challenges issued and what
\* pages sign are accounted for.
LEMMA QuietStep ==
    ASSUME PasskeyInv, NoLogIn, policy' \in Policy, PolicyInv', SlotsKept, SlotInv',
           tab' \in [Keys -> Tab], made \subseteq made', made' \subseteq Assertion,
           IsFiniteSet(made'), MadeInv', pending' = pending, known' = known,
           cookie' \in [Keys -> Did \cup {Junk}], \A k \in Keys : cookie'[k] \in {cookie[k], Junk}
    PROVE  PasskeyInv'
<1>1. TypeInv'
  BY DEF PasskeyInv, TypeInv, SlotsKept
<1>2. PendingInv'
  BY PendingKept
<1>3. NamesInv'
  <2>1. tossed' = tossed /\ Junk.twin = 0
    BY DEF NoLogIn, Junk
  <2> QED
    BY <2>1 DEF PasskeyInv, NamesInv, Named
<1>4. SessionInv'
  BY DEF SessionInv, NoLogIn, AnySession
<1> QED
  BY <1>1, <1>2, <1>3, <1>4 DEF PasskeyInv

\* Nothing but the policy, or nothing at all, changes.
LEMMA SameSlots ==
    ASSUME PasskeyInv, issued' = issued
    PROVE  SlotsKept /\ SlotInv'
<1>1. issued \in Seq(Slot) /\ Len(issued) \in Nat
  BY DEF PasskeyInv, TypeInv
<1> QED
  BY <1>1 DEF PasskeyInv, SlotsKept, SlotInv

\* The policy: add_rp takes an origin only within the RP ID or as related to it.
LEMMA AddRpStep ==
    ASSUME PasskeyInv, NEW call \in Calls, AddRp(call)
    PROVE  policy' \in Policy /\ PolicyInv'
<1>0. policy \in Policy /\ PolicyInv
  BY DEF PasskeyInv, TypeInv
<1>1. CASE AddRpAccepted(policy.entries, call)
  <2> DEFINE E == policy.entries \cup {Entry(call)}
             R == policy.related \cup RelatedTo(call)
  <2>1. policy' = [policy EXCEPT !.entries = E, !.related = R]
    BY <1>1 DEF AddRp, RelatedTo
  <2>2. E \in SUBSET {Entry(c) : c \in Calls}
        /\ R \in SUBSET UNION {RelatedTo(c) : c \in Calls}
    BY <1>0 DEF Policy
  <2>3. ASSUME NEW o \in Entry(call).origins
        PROVE  \/ host_within_rp_id(o.host, RpId(call))
               \/ <<RpId(call), o>> \in RelatedTo(call)
    <3>1. PICK raw \in call.origins \cup call.related : o = normalise_origin(raw)
      BY <2>3 DEF Entry
    <3>2. o.host = raw.host
      BY <3>1 DEF normalise_origin
    <3>3. CASE raw \in call.origins
      BY <1>1, <3>2, <3>3 DEF AddRpAccepted, OriginsWithin
    <3>4. CASE raw \in call.related
      BY <3>1, <3>4 DEF RelatedTo
    <3> QED
      BY <3>1, <3>3, <3>4
  <2>4. Entry(call).rp_id = RpId(call)
    BY DEF Entry
  <2>5. \A e \in E : \A o \in e.origins :
            host_within_rp_id(o.host, e.rp_id) \/ <<e.rp_id, o>> \in R
    BY <1>0, <2>3, <2>4 DEF PolicyInv
  <2> HIDE DEF E, R
  <2>6. policy' \in Policy /\ policy'.entries = E /\ policy'.related = R
    BY <1>0, <2>1, <2>2 DEF Policy
  <2> QED
    BY <2>5, <2>6 DEF PolicyInv
<1>2. CASE ~AddRpAccepted(policy.entries, call)
  <2>1. policy' = [policy EXCEPT !.state = "refused"]
    BY <1>2 DEF AddRp
  <2>2. /\ policy' \in Policy /\ policy'.entries = policy.entries
        /\ policy'.related = policy.related
    BY <1>0, <2>1 DEF Policy
  <2> QED
    BY <1>0, <2>2 DEF PolicyInv
<1> QED
  BY <1>1, <1>2

\* A step of the builder keeps the rest.
LEMMA BuilderStep ==
    ASSUME PasskeyInv, policy' \in Policy, PolicyInv', NoLogIn,
           UNCHANGED <<issued, tab, made, pending, known, cookie>>
    PROVE  PasskeyInv'
<1>1. SlotsKept /\ SlotInv'
  BY SameSlots
<1>2. MadeInv' /\ tab \in [Keys -> Tab] /\ made \subseteq Assertion /\ IsFiniteSet(made)
      /\ cookie \in [Keys -> Did \cup {Junk}]
  BY DEF PasskeyInv, MadeInv, TypeInv
<1> QED
  BY <1>1, <1>2, QuietStep

\* A new assertion, by a page or made of another, with the next serial number.
LEMMA NewAssertion ==
    ASSUME PasskeyInv, NEW a \in Assertion, a.serial = Cardinality(made) + 1,
           a.flaw = "tampered" \/ a.as_sent \/ Derives(a.meant, a.challenge),
           made' = made \cup {a},
           \A k \in Keys : tab'[k] \in {tab[k], NoTab}
    PROVE  made' \subseteq Assertion /\ IsFiniteSet(made') /\ MadeInv'
<1>1. /\ made \subseteq Assertion /\ IsFiniteSet(made) /\ Cardinality(made) \in Nat
      /\ \A b \in made : b.serial \in Nat /\ b.serial <= Cardinality(made)
  BY FS_CardinalityType DEF PasskeyInv, TypeInv, MadeInv, Assertion
<1>2. a \notin made
  BY <1>1
<1>3. IsFiniteSet(made') /\ Cardinality(made') = Cardinality(made) + 1
  BY <1>1, <1>2, FS_AddElement
<1>4. \A k \in Keys : tab'[k].bytes # NoChallenge =>
          /\ tab'[k].node \in Nodes
          /\ tab'[k].as_sent \/ Derives(tab'[k].node, tab'[k].bytes)
  <2>1. NoTab.bytes = NoChallenge
    BY DEF NoTab
  <2> QED
    BY <2>1 DEF PasskeyInv, MadeInv
<1>5. \A b \in made' : /\ b.serial <= Cardinality(made')
                       /\ b.flaw = "tampered" \/ b.as_sent \/ Derives(b.meant, b.challenge)
  BY <1>1, <1>3 DEF PasskeyInv, MadeInv
<1>6. \A b, c \in made' : b.serial = c.serial => b = c
  BY <1>1 DEF PasskeyInv, MadeInv
<1> QED
  BY <1>1, <1>3, <1>4, <1>5, <1>6 DEF MadeInv

-----------------------------------------------------------------------------
\* What the first assertion establishes, if it opens a session: another DID than
\* the signer's is named by the client's hint, or by an account or a cookie that an
\* earlier such hint left.
LEMMA FirstSession ==
    ASSUME PasskeyInv, NEW n \in Nodes, NEW a \in made, NEW extra, NEW did \in candidate_dids(a),
           did \in {cookie[a.key], extra} \cup known[n]
    PROVE  /\ did \in Did
           /\ \/ did = DidOf(a.key) /\ a.flaw # "tampered" /\ did.twin = 0
              \/ did \in tossed \cup ({did} \cap {extra}) /\ did.twin = a.serial
<1>1. a \in Assertion /\ a.key \in Keys
  BY DEF PasskeyInv, TypeInv, Assertion
<1>2. /\ did \in Did
      /\ \/ did = DidOf(a.key) /\ did.twin = 0 /\ a.flaw # "tampered"
         \/ did.twin = a.serial /\ a.serial # 0
  BY <1>1, Candidates
<1>3. did = extra \/ Named(did)
  BY <1>1 DEF PasskeyInv, NamesInv
<1> QED
  BY <1>2, <1>3 DEF Named

\* What select picks is a candidate that a hint or an account names, by a rule that
\* is not that of resolve.
LEMMA Selected ==
    ASSUME NEW C, NEW H, NEW K
    PROVE  /\ select(C, H, K).picked \subseteq C \cap (H \cup K)
           /\ select(C, H, K).by # "Intersection"
BY DEF select, the_only

\* What the second assertion establishes: a candidate common to two assertions
\* over different challenges is the DID of the one key that signed both.
LEMMA SecondSession ==
    ASSUME PasskeyInv, NEW n \in Nodes, pending[n] # NoPending, NEW a \in made,
           NEW credential, a.challenge = issued[pending[n].index].bytes,
           NEW did \in resolve(pending[n], a, credential)
    PROVE  /\ did = DidOf(a.key) /\ did \in candidate_dids(a) /\ did \in Did /\ did.twin = 0
           /\ a.flaw # "tampered" /\ pending[n].first.flaw # "tampered"
           /\ pending[n].first.key = a.key
           /\ pending[n].first.challenge # a.challenge
<1> DEFINE p == pending[n]
           b == p.first
<1>1. did \in p.candidates \cap candidate_dids(a)
  BY DEF resolve, the_only
<1>2. p.candidates = candidate_dids(b) /\ b.challenge # a.challenge /\ b \in made
  BY DEF PasskeyInv, PendingInv, PendingOK, Opens
<1>3. b \in Assertion /\ a \in Assertion /\ b.serial # a.serial
  BY <1>2 DEF PasskeyInv, TypeInv, MadeInv
<1> HIDE DEF p, b
<1>4. /\ did \in Did
      /\ \/ did = DidOf(a.key) /\ did.twin = 0 /\ did.key = a.key /\ a.flaw # "tampered"
         \/ did.twin = a.serial /\ a.serial # 0
  BY <1>1, <1>3, Candidates
<1>5. \/ did = DidOf(b.key) /\ did.twin = 0 /\ did.key = b.key /\ b.flaw # "tampered"
      \/ did.twin = b.serial /\ b.serial # 0
  BY <1>1, <1>2, <1>3, Candidates
<1>6. /\ did = DidOf(a.key) /\ did.twin = 0 /\ did.key = a.key /\ a.flaw # "tampered"
      /\ did.key = b.key /\ b.flaw # "tampered"
  BY <1>3, <1>4, <1>5
<1> QED
  BY <1>1, <1>2, <1>4, <1>6 DEF p, b

\* A step that presents an assertion, and logs somebody in or nobody.
LEMMA PresentStep ==
    ASSUME PasskeyInv, NEW n \in Nodes, SlotsKept, SlotInv', PendingInv', SessionInv',
           pending' \in [Nodes -> Recovery \cup {NoPending}], UNCHANGED <<policy, tab, made>>,
           \/ known' = known /\ cookie' = cookie /\ tossed' = tossed
           \/ \E d \in Did, k \in Keys :
                /\ known' = [known EXCEPT ![n] = @ \cup {d}]
                /\ cookie' = [cookie EXCEPT ![k] = d]
                /\ tossed \subseteq tossed' /\ Named(d)'
    PROVE  PasskeyInv'
<1>0. known \in [Nodes -> SUBSET Did] /\ cookie \in [Keys -> Did \cup {Junk}] /\ NamesInv
  BY DEF PasskeyInv, TypeInv
<1>1. /\ known' \in [Nodes -> SUBSET Did] /\ cookie' \in [Keys -> Did \cup {Junk}] /\ NamesInv'
  <2>1. CASE known' = known /\ cookie' = cookie /\ tossed' = tossed
    BY <1>0, <2>1 DEF NamesInv, Named
  <2>2. ASSUME NEW d \in Did, NEW k \in Keys, known' = [known EXCEPT ![n] = @ \cup {d}],
               cookie' = [cookie EXCEPT ![k] = d], tossed \subseteq tossed', Named(d)'
        PROVE  /\ known' \in [Nodes -> SUBSET Did] /\ cookie' \in [Keys -> Did \cup {Junk}]
               /\ NamesInv'
    <3>1. known' = [known EXCEPT ![n] = known[n] \cup {d}] /\ known[n] \cup {d} \in SUBSET Did
      BY <1>0, <2>2
    <3>2. /\ known' \in [Nodes -> SUBSET Did]
          /\ \A m \in Nodes : \A e \in known'[m] : e \in known[m] \/ e = d
      BY <1>0, <3>1
    <3>3. /\ cookie' \in [Keys -> Did \cup {Junk}]
          /\ \A j \in Keys : cookie'[j] \in {cookie[j], d}
      BY <1>0, <2>2
    <3>4. d.twin = 0 \/ d \in tossed'
      BY <2>2 DEF Named
    <3>5. ASSUME NEW m \in Nodes, NEW e \in known'[m] PROVE e.twin = 0 \/ e \in tossed'
      BY <1>0, <2>2, <3>2, <3>4 DEF NamesInv, Named
    <3>6. ASSUME NEW j \in Keys PROVE cookie'[j].twin = 0 \/ cookie'[j] \in tossed'
      BY <1>0, <2>2, <3>3, <3>4 DEF NamesInv, Named
    <3> QED
      BY <3>2, <3>3, <3>5, <3>6 DEF NamesInv, Named
  <2> QED
    BY <2>1, <2>2
<1>2. TypeInv'
  BY <1>1 DEF PasskeyInv, TypeInv, SlotsKept
<1>3. MadeInv' /\ PolicyInv'
  BY DEF PasskeyInv, MadeInv, PolicyInv
<1> QED
  BY <1>1, <1>2, <1>3 DEF PasskeyInv

-----------------------------------------------------------------------------
\* Presenting a first assertion: refused, decided or left pending.
LEMMA PresentFirstStep ==
    ASSUME PasskeyInv, NEW n \in Nodes, NEW i, NEW a \in made, PresentFirst(n, i, a)
    PROVE  PasskeyInv'
<1>1. /\ i \in 1..Len(issued) /\ issued[i].node = n /\ issued[i].prompt = 1
      /\ UNCHANGED <<policy, tab, made>>
  BY DEF PresentFirst, Live
<1>2. /\ issued \in Seq(Slot) /\ Len(issued) \in Nat /\ a \in Assertion /\ SlotInv /\ TypeInv
      /\ pending \in [Nodes -> Recovery \cup {NoPending}]
  BY DEF PasskeyInv, TypeInv
<1>3. ASSUME Verifies(a, issued[i].bytes, policy)
      PROVE  /\ Opens(n, a) /\ a.challenge = issued[i].bytes
             /\ Verifies(a, a.challenge, policy)
  BY <1>1, <1>2, <1>3 DEF Verifies, Opens, SlotInv
<1>4. CASE ~Verifies(a, issued[i].bytes, policy)
  <2>1. Consume(i) /\ NoLogIn /\ UNCHANGED <<pending, known, cookie>>
    BY <1>4 DEF PresentFirst
  <2>2. SlotsKept /\ SlotInv'
    BY <1>1, <1>2, <2>1, ConsumeStep
  <2>3. PendingInv' /\ SessionInv'
    BY <1>1, <2>1, <2>2, PendingKept DEF SessionInv, NoLogIn, AnySession
  <2> QED
    BY <1>1, <1>2, <2>1, <2>2, <2>3, PresentStep DEF NoLogIn
<1>5. ASSUME Verifies(a, issued[i].bytes, policy), NEW extra, NEW by, by # "Intersection",
             NEW did \in select(candidate_dids(a), DidHints({cookie[a.key], extra}), known[n]).picked,
             LogIn(n, did, by, a, NoAssertion, extra), Consume(i), pending' = pending
      PROVE  PasskeyInv'
  <2>1. SlotsKept /\ SlotInv' /\ PendingInv'
    BY <1>1, <1>2, <1>5, ConsumeStep, PendingKept
  <2>2. /\ known' = [known EXCEPT ![n] = @ \cup {did}]
        /\ cookie' = [cookie EXCEPT ![a.key] = did]
        /\ tossed' = tossed \cup ({did} \cap {extra}) /\ a.key \in Keys
    BY <1>2, <1>5 DEF LogIn, Assertion
  <2>3. /\ did \in candidate_dids(a) /\ did \in Did
        /\ \/ did = DidOf(a.key) /\ a.flaw # "tampered" /\ did.twin = 0
           \/ did \in tossed' /\ did.twin = a.serial
    <3>1. /\ did \in candidate_dids(a) /\ did \in Did
          /\ \/ did = DidOf(a.key) /\ a.flaw # "tampered" /\ did.twin = 0
             \/ did \in tossed \cup ({did} \cap {extra}) /\ did.twin = a.serial
      <4>1. did \in candidate_dids(a) /\ did \in DidHints({cookie[a.key], extra}) \cup known[n]
        BY <1>5, Selected
      <4>2. did \in {cookie[a.key], extra} \cup known[n]
        BY <4>1 DEF DidHints
      <4> QED
        BY <4>1, <4>2, FirstSession
    <3> QED
      BY <2>2, <3>1
  <2>4. session' = [node |-> n, did |-> did, by |-> by, proof |-> a, first |-> NoAssertion]
    BY <1>5 DEF LogIn
  <2>5. /\ session'.node = n /\ session'.did = did /\ session'.by = by /\ session'.proof = a
        /\ Opening' = a
    BY <1>5, <2>4 DEF Opening
  <2>6. a \in made' /\ Opens(n, a)' /\ Verifies(a, a.challenge, policy')
    BY <1>1, <1>3, <1>5 DEF Opens
  <2>7. SessionInv'
    BY <1>5, <2>3, <2>5, <2>6 DEF SessionInv, Opens
  <2>8. Named(did)' /\ tossed \subseteq tossed'
    BY <2>2, <2>3 DEF Named
  <2> QED
    BY <1>1, <1>2, <1>5, <2>1, <2>2, <2>3, <2>7, <2>8, PresentStep
<1>6. ASSUME Verifies(a, issued[i].bytes, policy), NEW credential \in Credentials,
             issued' = Issue([issued EXCEPT ![i].live = FALSE], n, 2, Exact(Len(issued) + 1)),
             pending' = [pending EXCEPT ![n] =
                            [index |-> Len(issued) + 1, candidates |-> candidate_dids(a),
                             credential_id |-> credential, first |-> a]],
             NoLogIn, UNCHANGED <<known, cookie>>
      PROVE  PasskeyInv'
  <2> DEFINE m == Len(issued) + 1
             s == [issued EXCEPT ![i].live = FALSE]
             c == Exact(m)
  <2>1. c \in Challenge /\ c.nonce = m /\ m \in Nat
    BY <1>2, Derivation
  <2>2. /\ s \in Seq(Slot) /\ Len(s) = Len(issued)
        /\ \A j \in 1..Len(issued) : /\ s[j].bytes = issued[j].bytes /\ s[j].node = issued[j].node
                                     /\ s[j].prompt = issued[j].prompt
    BY <1>1, <1>2, Consumed
  <2>3. issued' = Issue(s, n, 2, c)
    BY <1>6
  <2> HIDE DEF s, c
  <2>4. SlotsKept /\ SlotInv' /\ Len(issued') = m /\ issued'[m].bytes = c
    BY <1>2, <2>1, <2>2, <2>3, IssueStep
  <2>5. a.challenge # c
    <3>1. issued[i].bytes.nonce <= Len(issued) /\ issued[i] \in Slot
      BY <1>1, <1>2, ElementOfSeq DEF SlotInv
    <3>2. issued[i].bytes.nonce \in Nat
      BY <3>1 DEF Slot, Challenge
    <3>3. a.challenge = issued[i].bytes
      BY <1>3, <1>6
    <3> QED
      BY <1>2, <2>1, <3>1, <3>2, <3>3
  <2>6. PICK q \in Recovery :
            q = [index |-> m, candidates |-> candidate_dids(a),
                 credential_id |-> credential, first |-> a]
    BY <1>2, <2>1, Candidates DEF Recovery
  <2>7. PendingOK(n, q)'
    <3>1. q.index = m /\ q.candidates = candidate_dids(a) /\ q.first = a
      BY <2>6
    <3>2. m \in 1..Len(issued') /\ Opens(n, a)'
      BY <1>1, <1>2, <1>3, <1>6, <2>4 DEF Opens
    <3> HIDE DEF m
    <3> QED
      BY <2>4, <2>5, <3>1, <3>2 DEF PendingOK, Opens
  <2>8. pending' \in [Nodes -> Recovery \cup {NoPending}] /\ PendingInv'
    <3>1. pending' = [pending EXCEPT ![n] = q] /\ made \subseteq made'
      BY <1>1, <1>6, <2>6
    <3> QED
      BY <2>4, <2>7, <3>1, PendingStep
  <2>9. SessionInv'
    BY <1>6 DEF SessionInv, NoLogIn, AnySession
  <2> QED
    BY <1>1, <1>6, <2>4, <2>8, <2>9, PresentStep DEF NoLogIn
<1>7. CASE Verifies(a, issued[i].bytes, policy)
  <2>1. PICK extra \in Hints(a) :
            LET hints == DidHints({cookie[a.key], extra})
                outcome == select(candidate_dids(a), hints, known[n]) IN
            \/ /\ \E did \in outcome.picked : LogIn(n, did, outcome.by, a, NoAssertion, extra)
               /\ Consume(i) /\ UNCHANGED pending
            \/ /\ outcome.picked = {} /\ Len(issued) < MaxNonce
               /\ issued' = Issue([issued EXCEPT ![i].live = FALSE], n, 2, Exact(Len(issued) + 1))
               /\ \E credential \in Credentials :
                    pending' = [pending EXCEPT ![n] =
                        [index |-> Len(issued) + 1, candidates |-> candidate_dids(a),
                         credential_id |-> credential, first |-> a]]
               /\ NoLogIn /\ UNCHANGED <<known, cookie>>
    BY <1>7 DEF PresentFirst
  <2> QED
    BY <1>5, <1>6, <1>7, <2>1, Selected
<1> QED
  BY <1>4, <1>7

\* Presenting the second assertion: the recovery ends either way.
LEMMA PresentSecondStep ==
    ASSUME PasskeyInv, NEW n \in Nodes, NEW a \in made, NEW credential,
           PresentSecond(n, a, credential)
    PROVE  PasskeyInv'
<1> DEFINE p == pending[n]
           j == p.index
           b == p.first
           verified == Verifies(a, issued[j].bytes, policy)
           common == resolve(p, a, credential)
<1>1. /\ p # NoPending /\ Consume(j) /\ pending' = [pending EXCEPT ![n] = NoPending]
      /\ UNCHANGED <<policy, tab, made>>
  BY DEF PresentSecond
<1>2. /\ j \in 1..Len(issued) /\ a \in Assertion /\ SlotInv /\ TypeInv /\ Opens(n, b)
  BY <1>1 DEF PasskeyInv, TypeInv, PendingInv, PendingOK
<1>3. SlotsKept /\ SlotInv'
  <2>1. PICK i \in 1..Len(issued) : i = j
    BY <1>2
  <2> QED
    BY <1>1, <1>2, <2>1, ConsumeStep
<1>4. pending' \in [Nodes -> Recovery \cup {NoPending}] /\ PendingInv'
  <2>1. PendingOK(n, NoPending)'
    BY DEF PendingOK
  <2>2. made \subseteq made'
    BY <1>1
  <2> QED
    BY <1>1, <1>3, <2>1, <2>2, PendingStep
<1>5. ASSUME verified, NEW did \in common, LogIn(n, did, "Intersection", a, b, Junk)
      PROVE  PasskeyInv'
  <2>1. a.challenge = issued[j].bytes /\ Verifies(a, a.challenge, policy)
    BY <1>5 DEF Verifies
  <2>2. /\ did = DidOf(a.key) /\ did \in candidate_dids(a) /\ did \in Did /\ did.twin = 0
        /\ a.flaw # "tampered" /\ b.flaw # "tampered" /\ b.key = a.key
        /\ b.challenge # a.challenge
    BY <1>1, <1>5, <2>1, SecondSession
  <2>3. /\ known' = [known EXCEPT ![n] = @ \cup {did}]
        /\ cookie' = [cookie EXCEPT ![a.key] = did]
        /\ tossed \subseteq tossed' /\ a.key \in Keys /\ Named(did)'
    BY <1>2, <1>5, <2>2 DEF LogIn, Assertion, Named
  <2>4. session' = [node |-> n, did |-> did, by |-> "Intersection", proof |-> a, first |-> b]
    BY <1>5 DEF LogIn
  <2>5. PICK f : f = b
    OBVIOUS
  <2>6. /\ session'.node = n /\ session'.did = did /\ session'.by = "Intersection"
        /\ session'.proof = a /\ session'.first = f /\ Opening' = f
    BY <2>4, <2>5 DEF Opening
  <2>7. a \in made' /\ Opens(n, f)' /\ Verifies(a, a.challenge, policy')
    BY <1>1, <1>2, <2>1, <2>5 DEF Opens
  <2>8. SessionInv'
    BY <2>2, <2>5, <2>6, <2>7 DEF SessionInv, Opens
  <2> QED
    BY <1>1, <1>3, <1>4, <2>2, <2>3, <2>8, PresentStep
<1>6. ASSUME NoLogIn, UNCHANGED <<known, cookie>> PROVE PasskeyInv'
  <2>1. SessionInv'
    BY <1>6 DEF SessionInv, NoLogIn, AnySession
  <2> QED
    BY <1>1, <1>3, <1>4, <1>6, <2>1, PresentStep DEF NoLogIn
<1>7. \/ verified /\ \E did \in common : LogIn(n, did, "Intersection", a, b, Junk)
      \/ NoLogIn /\ UNCHANGED <<known, cookie>>
  BY DEF PresentSecond
<1> QED
  BY <1>5, <1>6, <1>7

\* The invariant holds in every reachable state.
LEMMA PasskeyInvHolds == Spec => []PasskeyInv
<1>1. Init => PasskeyInv
  <2> SUFFICES ASSUME Init PROVE PasskeyInv
    OBVIOUS
  <2>1. TypeInv
    <3>1. policy \in Policy
      BY DEF Init, Policy
    <3>2. NoTab \in Tab
      BY DEF NoTab, Tab, NoChallenge, Exact, Challenge
    <3>3. tab \in [Keys -> Tab]
      BY <3>2 DEF Init
    <3>4. issued \in Seq(Slot) /\ made \subseteq Assertion /\ IsFiniteSet(made)
      BY FS_EmptySet DEF Init
    <3>5. /\ pending \in [Nodes -> Recovery \cup {NoPending}]
          /\ known \in [Nodes -> SUBSET Did] /\ cookie \in [Keys -> Did \cup {Junk}]
      BY DEF Init, NoCookie
    <3> QED
      BY <3>1, <3>3, <3>4, <3>5 DEF TypeInv
  <2>2. MadeInv /\ PendingInv /\ SlotInv
    BY DEF Init, MadeInv, PendingInv, PendingOK, SlotInv, NoTab
  <2>3. NamesInv
    BY DEF Init, NamesInv, Named, NoCookie, Junk
  <2>4. PolicyInv /\ SessionInv
    BY DEF Init, PolicyInv, SessionInv, AnySession
  <2> QED
    BY <2>1, <2>2, <2>3, <2>4 DEF PasskeyInv
<1>2. PasskeyInv /\ [Next]_vars => PasskeyInv'
  <2> SUFFICES ASSUME PasskeyInv, [Next]_vars PROVE PasskeyInv'
    OBVIOUS
  <2>0. /\ policy \in Policy /\ PolicyInv /\ issued \in Seq(Slot) /\ Len(issued) \in Nat
        /\ tab \in [Keys -> Tab] /\ TypeInv /\ SlotInv
        /\ made \subseteq Assertion /\ IsFiniteSet(made) /\ MadeInv
        /\ pending \in [Nodes -> Recovery \cup {NoPending}]
        /\ cookie \in [Keys -> Did \cup {Junk}]
    BY DEF PasskeyInv, TypeInv
  \* Every challenge issued is one, made from a nonce drawn by then.
  <2>e. ASSUME NEW i \in 1..Len(issued)
        PROVE  /\ issued[i].bytes \in Challenge /\ issued[i].bytes.nonce \in Nat
               /\ issued[i].bytes.nonce <= Len(issued)
    <3>1. issued[i] \in Slot
      BY <2>0, ElementOfSeq
    <3> QED
      BY <2>0, <3>1 DEF SlotInv, Slot, Challenge
  \* Giving user k's page something to sign for node n.
  <2>t. ASSUME NEW k \in Keys, NEW n \in Nodes, NEW c \in Challenge, NEW sent \in BOOLEAN,
               sent \/ Derives(n, c), SlotsKept, SlotInv',
               tab' = [tab EXCEPT ![k] = [node |-> n, bytes |-> c, as_sent |-> sent]], NoLogIn,
               UNCHANGED <<policy, made, pending, known, cookie>>
        PROVE  PasskeyInv'
    <3> DEFINE x == [node |-> n, bytes |-> c, as_sent |-> sent]
    <3>1. x \in Tab /\ x.node = n /\ x.bytes = c /\ x.as_sent = sent
      BY DEF Tab
    <3> HIDE DEF x
    <3>2. tab' \in [Keys -> Tab] /\ tab'[k] = x /\ \A j \in Keys \ {k} : tab'[j] = tab[j]
      BY <2>0, <2>t, <3>1 DEF x
    <3>3. MadeInv'
      BY <2>0, <2>t, <3>1, <3>2 DEF MadeInv
    <3>4. PolicyInv' /\ policy' \in Policy
      BY <2>0, <2>t DEF PolicyInv
    <3> QED
      BY <2>0, <2>t, <3>2, <3>3, <3>4, QuietStep
  <2>1. ASSUME NEW call \in Calls, AddRp(call) PROVE PasskeyInv'
    BY <2>1, AddRpStep, BuilderStep DEF AddRp
  <2>2. ASSUME NEW on \in BOOLEAN, RequireUv(on) PROVE PasskeyInv'
    <3>1. policy' = [policy EXCEPT !.require_uv = on]
      BY <2>2 DEF RequireUv
    <3>2. /\ policy' \in Policy /\ policy'.entries = policy.entries
          /\ policy'.related = policy.related
      BY <2>0, <3>1 DEF Policy
    <3>3. PolicyInv'
      BY <2>0, <3>2 DEF PolicyInv
    <3> QED
      BY <2>2, <3>2, <3>3, BuilderStep DEF RequireUv
  <2>3. CASE Build
    <3>1. PICK state \in {"refused", "built"} : policy' = [policy EXCEPT !.state = state]
      BY <2>3 DEF Build
    <3>2. /\ policy' \in Policy /\ policy'.entries = policy.entries
          /\ policy'.related = policy.related
      BY <2>0, <3>1 DEF Policy
    <3>3. PolicyInv'
      BY <2>0, <3>2 DEF PolicyInv
    <3> QED
      BY <2>3, <3>2, <3>3, BuilderStep DEF Build
  <2>4. ASSUME NEW k \in Keys, NEW n \in Nodes, Start(k, n) PROVE PasskeyInv'
    <3>1. PICK c \in Offers(n) :
            /\ issued' = Issue(issued, n, 1, c)
            /\ tab' = [tab EXCEPT ![k] = [node |-> n, bytes |-> c, as_sent |-> n \notin Derived]]
      BY <2>4 DEF Start
    <3>2. ASSUME NEW g \in {Exact(Len(issued) + 1)} \cup Elsewhere(n)
          PROVE  g \in Challenge /\ g.nonce \in Nat /\ g.nonce <= Len(issued) + 1
      <4>1. CASE g = Exact(Len(issued) + 1)
        BY <2>0, <4>1, Derivation
      <4>2. CASE g \in Elsewhere(n)
        <5>1. PICK i \in 1..Len(issued) : g = issued[i].bytes
          BY <4>2 DEF Elsewhere, Live
        <5> QED
          BY <2>0, <2>e, <5>1
      <4> QED
        BY <3>2, <4>1, <4>2
    <3>3. c \in Challenge /\ c.nonce <= Len(issued) + 1 /\ (n \in Derived => Derives(n, c))
      <4>1. CASE n \notin Derived
        BY <3>1, <3>2, <4>1 DEF Offers
      <4>2. CASE n \in Derived
        <5>1. PICK g \in {Exact(Len(issued) + 1)} \cup Elsewhere(n) :
                c = derive_login_challenge(g.nonce, NodeUrl[n])
          BY <3>1, <4>2 DEF Offers
        <5>2. g.nonce \in Nat /\ g.nonce <= Len(issued) + 1
          BY <3>2, <5>1
        <5>3. /\ c \in Challenge /\ c.nonce <= g.nonce
              /\ c = derive_login_challenge(c.nonce, NodeUrl[n])
          BY <5>1, <5>2, Derivation
        <5>4. c.nonce \in Nat
          BY <5>3 DEF Challenge
        <5> QED
          BY <2>0, <4>2, <5>2, <5>3, <5>4 DEF Derives
      <4> QED
        BY <4>1, <4>2
    <3>4. SlotsKept /\ SlotInv'
      BY <2>0, <3>1, <3>3, IssueStep
    <3>5. PICK sent \in BOOLEAN : sent = (n \notin Derived)
      OBVIOUS
    <3>6. sent \/ Derives(n, c)
      BY <3>3, <3>5
    <3>7. /\ NoLogIn /\ UNCHANGED <<policy, made, pending, known, cookie>>
          /\ tab' = [tab EXCEPT ![k] = [node |-> n, bytes |-> c, as_sent |-> sent]]
      BY <2>4, <3>1, <3>5 DEF Start
    <3> QED
      BY <2>t, <3>3, <3>4, <3>6, <3>7
  <2>5. ASSUME NEW k \in Keys, NEW n \in Nodes, AskSecond(k, n) PROVE PasskeyInv'
    <3>1. PICK c \in {issued[pending[n].index].bytes} \cup Elsewhere(n) :
            tab' = [tab EXCEPT ![k] = [node |-> n, bytes |-> c, as_sent |-> TRUE]]
      BY <2>5 DEF AskSecond
    <3>2. pending[n].index \in 1..Len(issued)
      BY <2>5 DEF AskSecond, PasskeyInv, PendingInv, PendingOK
    <3>3. c \in Challenge
      <4>1. PICK i \in 1..Len(issued) : c = issued[i].bytes
        BY <3>1, <3>2 DEF Elsewhere, Live
      <4> QED
        BY <2>e, <4>1
    <3>4. issued' = issued /\ NoLogIn /\ UNCHANGED <<policy, made, pending, known, cookie>>
      BY <2>5 DEF AskSecond
    <3>5. SlotsKept /\ SlotInv'
      BY <3>4, SameSlots
    <3> QED
      BY <2>t, <3>1, <3>3, <3>4, <3>5
  \* A new assertion, and what is left of the pages.
  <2>m. ASSUME NEW a \in Assertion, a.serial = Cardinality(made) + 1,
               a.flaw = "tampered" \/ a.as_sent \/ Derives(a.meant, a.challenge),
               made' = made \cup {a}, tab' \in [Keys -> Tab],
               \A k \in Keys : tab'[k] \in {tab[k], NoTab}, NoLogIn,
               UNCHANGED <<policy, issued, pending, known, cookie>>
        PROVE  PasskeyInv'
    <3>1. made' \subseteq Assertion /\ IsFiniteSet(made') /\ MadeInv'
      BY <2>m, NewAssertion
    <3>2. SlotsKept /\ SlotInv' /\ PolicyInv' /\ policy' \in Policy
      BY <2>0, <2>m, SameSlots DEF PolicyInv
    <3>3. made \subseteq made' /\ cookie' = cookie /\ pending' = pending /\ known' = known
      BY <2>m
    <3> QED
      BY <2>0, <2>m, <3>1, <3>2, <3>3, QuietStep
  <2>s. Cardinality(made) + 1 \in Nat \ {0}
    <3>1. Cardinality(made) \in Nat
      BY <2>0, FS_CardinalityType
    <3> QED
      BY <3>1
  <2>6. ASSUME NEW k \in Keys, NEW page \in Pages, Get(k, page) PROVE PasskeyInv'
    <3> DEFINE s == Cardinality(made) + 1
               c == tab[k].bytes
               n == tab[k].node
               z == tab[k].as_sent
    <3>1. /\ c # NoChallenge /\ made' = made \cup {[key |-> k, serial |-> s, challenge |-> c,
                rp_id |-> page.rp_id, origin |-> page.origin, flaw |-> page.flaw,
                meant |-> n, as_sent |-> z]}
          /\ tab' = [tab EXCEPT ![k] = NoTab]
          /\ NoLogIn /\ UNCHANGED <<policy, issued, pending, known, cookie>>
      BY <2>6 DEF Get
    <3>2. n \in Nodes /\ c \in Challenge /\ z \in BOOLEAN /\ (z \/ Derives(n, c))
      BY <2>0, <3>1 DEF MadeInv, Tab
    <3>3. s \in Nat \ {0} /\ page.flaw \in Flaws
      BY <2>s, PasskeyAssumptions
    <3>4. PICK a \in Assertion : a = [key |-> k, serial |-> s, challenge |-> c,
                rp_id |-> page.rp_id, origin |-> page.origin, flaw |-> page.flaw,
                meant |-> n, as_sent |-> z]
      <4> HIDE DEF s, c, n, z
      <4> QED
        BY <3>2, <3>3 DEF Assertion
    <3>5. a.serial = s /\ a.as_sent = z /\ a.meant = n /\ a.challenge = c
      BY <3>4
    <3>6. a.as_sent \/ Derives(a.meant, a.challenge)
      BY <3>2, <3>5
    <3>7. NoTab \in Tab
      BY DEF NoTab, Tab, NoChallenge, Exact, Challenge
    <3>8. tab' \in [Keys -> Tab] /\ \A j \in Keys : tab'[j] \in {tab[j], NoTab}
      BY <2>0, <3>1, <3>7
    <3> QED
      BY <2>m, <3>1, <3>4, <3>5, <3>6, <3>8
  <2>7. ASSUME NEW b \in made, NEW i, Tamper(b, i) PROVE PasskeyInv'
    <3> DEFINE s == Cardinality(made) + 1
               c == issued[i].bytes
    <3>1. /\ i \in 1..Len(issued) /\ NoLogIn
          /\ made' = made \cup {[b EXCEPT !.serial = s, !.challenge = c, !.flaw = "tampered"]}
          /\ UNCHANGED <<policy, issued, tab, pending, known, cookie>>
      BY <2>7 DEF Tamper
    <3>2. c \in Challenge /\ s \in Nat \ {0} /\ b \in Assertion
      BY <2>0, <2>e, <2>s, <3>1
    <3>3. PICK a \in Assertion : a = [b EXCEPT !.serial = s, !.challenge = c, !.flaw = "tampered"]
      <4> HIDE DEF s, c
      <4> QED
        BY <3>2 DEF Assertion, Flaws
    <3>4. a.serial = s /\ a.flaw = "tampered"
      BY <3>2, <3>3 DEF Assertion
    <3> QED
      BY <2>0, <2>m, <3>1, <3>3, <3>4
  <2>8. ASSUME NEW k \in Keys, ClearHint(k) PROVE PasskeyInv'
    <3>1. /\ NoLogIn /\ UNCHANGED <<policy, issued, tab, made, pending, known>>
          /\ cookie' = [cookie EXCEPT ![k] = Junk]
      BY <2>8 DEF ClearHint, NoCookie
    <3>2. /\ cookie' \in [Keys -> Did \cup {Junk}]
          /\ \A j \in Keys : cookie'[j] \in {cookie[j], Junk}
      BY <2>0, <3>1
    <3>3. MadeInv' /\ PolicyInv' /\ SlotsKept /\ SlotInv'
      BY <2>0, <3>1, SameSlots DEF MadeInv, PolicyInv
    <3> QED
      BY <2>0, <3>1, <3>2, <3>3, QuietStep
  <2>9. CASE UNCHANGED vars
    BY <2>9 DEF vars, PasskeyInv, TypeInv, SlotInv, MadeInv, PendingInv, PendingOK, Opens,
                NamesInv, Named, PolicyInv, SessionInv, AnySession, Opening
  <2> QED
    BY <2>1, <2>2, <2>3, <2>4, <2>5, <2>6, <2>7, <2>8, <2>9, PresentFirstStep,
       PresentSecondStep DEF Next
<1> QED
  BY <1>1, <1>2, PTL DEF Spec

\* A passkey's own session at a node that derives its challenge began with an
\* assertion made for that node, or by a page that signed bytes as sent, though
\* nodes pass on what others await and anybody may present what was signed
\* (derive_login_challenge).
THEOREM MeantHolds == Spec => []MeantUnlessSignedAsSent
<1>1. PasskeyInv => MeantUnlessSignedAsSent
  <2> SUFFICES ASSUME PasskeyInv, session.node \in Derived, NEW k \in Keys,
                      session.did = DidOf(k)
               PROVE  /\ Opening.key = k /\ Opening.flaw # "tampered"
                      /\ Opening.meant = session.node \/ Opening.as_sent
    BY DEF MeantUnlessSignedAsSent
  <2> DEFINE a == Opening
             n == session.node
             b == session.proof
  <2>1. AnySession
    BY PasskeyAssumptions DEF AnySession, NoSession
  <2>2. b \in made /\ b.serial # 0 /\ b.serial \in Nat
    BY <2>1 DEF PasskeyInv, SessionInv, TypeInv, Assertion
  <2>3. DidOf(k).twin = 0 /\ DidOf(k).key = k /\ DidOf(b.key).key = b.key
    BY DEF DidOf
  <2>4. b.key = k /\ b.flaw # "tampered"
    BY <2>1, <2>2, <2>3 DEF PasskeyInv, SessionInv
  <2>5. a.key = k /\ a.flaw # "tampered"
    BY <2>1, <2>4 DEF PasskeyInv, SessionInv, Opening
  <2>6. a \in made /\ a.challenge # NoChallenge /\ Derives(n, a.challenge)
    BY <2>1 DEF PasskeyInv, SessionInv, Opens
  <2>7. ASSUME ~a.as_sent PROVE a.meant = n
    <3>1. Derives(a.meant, a.challenge)
      BY <2>5, <2>6, <2>7 DEF PasskeyInv, MadeInv
    <3> DEFINE c == a.challenge
               m == a.meant
    <3>2. /\ m \in Derived /\ n \in Derived /\ c # NoChallenge
          /\ c = derive_login_challenge(c.nonce, NodeUrl[m])
          /\ c = derive_login_challenge(c.nonce, NodeUrl[n])
      BY <2>6, <3>1 DEF Derives
    <3> HIDE DEF c, m, n
    <3>3. c.node = normalise_origin(NodeUrl[m]) /\ c.node = normalise_origin(NodeUrl[n])
      BY <3>2 DEF derive_login_challenge
    <3>4. m = n
      BY <3>2, <3>3, PasskeyAssumptions
    <3> QED
      BY <3>4 DEF m
  <2> QED
    BY <2>5, <2>7
<1> QED
  BY <1>1, PasskeyInvHolds, PTL

\* A session names the passkey that signed, or a DID of a key nobody holds that a
\* client's own hint named, and the assertion would have verified under that DID's
\* stored key (select, resolve, verify_webauthn_assertion).
THEOREM SignerHolds == Spec => []PrincipalIsSigner
<1>1. PasskeyInv => PrincipalIsSigner
  <2> SUFFICES ASSUME PasskeyInv, AnySession PROVE PrincipalIsSigner
    BY DEF PrincipalIsSigner
  <2>1. /\ \/ session.did = DidOf(session.proof.key) /\ session.proof.flaw # "tampered"
           \/ session.did \in tossed /\ session.did.twin = session.proof.serial
        /\ session.did \in candidate_dids(session.proof)
        /\ session.proof.flaw \in {"none", "tampered", "unverified"}
    BY DEF PasskeyInv, SessionInv, Verifies
  <2> QED
    BY <2>1 DEF PrincipalIsSigner, StoredKeyVerifies
<1> QED
  BY <1>1, PasskeyInvHolds, PTL

\* A login by two prompts rests on two assertions by one key over two challenges
\* (PendingRecovery::resolve).
THEOREM TwoProofsHold == Spec => []TwoPromptsTwoProofs
<1>1. PasskeyInv => TwoPromptsTwoProofs
  BY DEF PasskeyInv, SessionInv, TwoPromptsTwoProofs
<1> QED
  BY <1>1, PasskeyInvHolds, PTL

\* A session comes from an origin within the RP ID asserted for or one listed as
\* related to it, whatever else the policy allows (add_rp, entry_for_rp_id_hash).
THEOREM RpIdHolds == Spec => []PageBelongsToRpId
<1>1. PasskeyInv => PageBelongsToRpId
  BY DEF PasskeyInv, SessionInv, PolicyInv, Verifies, Allowed, PageBelongsToRpId
<1> QED
  BY <1>1, PasskeyInvHolds, PTL
=============================================================================
