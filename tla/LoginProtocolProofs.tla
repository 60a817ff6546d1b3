------------------------- MODULE LoginProtocolProofs ------------------------
(***************************************************************************)
(* Proofs about LoginProtocol, for any number of clients, servers, DIDs    *)
(* and calls, for any quota, with and without endpoints that misdirect.    *)
(*                                                                         *)
(* Each invariant a run checks is the visible part of an inductive one:    *)
(*   CallInv    a request that is still awaited is the one its client's    *)
(*              program counter says it is;                                *)
(*   SignedInv  what is posted was signed and bears the origin that was    *)
(*              dialled;                                                   *)
(*   ServerInv  every nonce has one owner: a pending challenge, a request  *)
(*              being handled or a minted session;                         *)
(*   TokenInv   every token has one owner, in its AuthSession or on the    *)
(*              way to it;                                                 *)
(*   OnceInv    what a send has in flight and what it had executed is at   *)
(*              most one;                                                  *)
(*   ForgetInv  a refused token was dropped by the server that minted it.  *)
(***************************************************************************)
EXTENDS LoginProtocol, TLAPS

-----------------------------------------------------------------------------
(* Types *)

\* The values that go over the wire, and those the stores keep.
Idents == {Ident[d] : d \in Dids} \cup {NoIdent}
Messages == [nonce : Nat, ident : Idents, origin : Servers \cup {NoOrigin}]
Kinds == {"challenge", "session", "whoami"}
Requests == [client : Clients, call : Nat, op : Nat, kind : Kinds, message : Messages, token : Nat]
Answers == [status : {"none", "ok", "unauthorized", "error"}, message : Messages, token : Nat]
Challenges == [nonce : Nat, did : Dids]
Sessions == [token : Nat, did : Dids]

\* The clients' side.
ClientType ==
    /\ pc \in [Clients -> {"idle", "signing"} \cup Awaiting]
    /\ token \in [Clients -> Nat]
    /\ retrying \in [Clients -> BOOLEAN]
    /\ envelope \in [Clients -> Messages]
    /\ calls \in [Clients -> Nat]
    /\ ops \in [Clients -> Nat]
    /\ stale \in [Clients -> Nat]

\* What is in flight.
NetworkType ==
    /\ requests \subseteq Requests
    /\ answer \in [Clients -> Answers]

\* The servers' stores, their counters and the history of what they did.
ServerType ==
    /\ challenges \in [Servers -> SUBSET Challenges]
    /\ sessions \in [Servers -> SUBSET Sessions]
    /\ handling \in [Servers -> SUBSET Requests]
    /\ nonces \in Nat /\ tokens \in Nat
    /\ issued \subseteq [server : Servers, nonce : Nat, did : Dids]
    /\ minted \subseteq [server : Servers, did : Dids, token : Nat, nonce : Nat]

TypeInv == ClientType /\ NetworkType /\ ServerType

-----------------------------------------------------------------------------
(* The inductive invariants *)

\* What a client is waiting for.
Awaited(label) ==
    CASE label = "asking" -> "challenge" [] label = "posting" -> "session" [] OTHER -> "whoami"

\* A request that is under way, wherever it is.
UnderWay == requests \cup UNION {handling[s] : s \in Servers}

\* A request its client still waits for is the one it sent last.
CallInv ==
    /\ \A r \in UnderWay :
          /\ r.call <= calls[r.client]
          /\ r.call = calls[r.client] /\ pc[r.client] \in Awaiting =>
                /\ r.kind = Awaited(pc[r.client])
                /\ r.op = ops[r.client]
                /\ r.kind = "whoami" => r.token = token[r.client]
    /\ \A s \in Servers : \A r \in handling[s] : r.kind = "session"

\* What is posted was signed, and bears the origin that was dialled.
SignedInv ==
    /\ \A c \in Clients : pc[c] = "signing" => envelope[c].origin = Base[c]
    /\ \A r \in UnderWay : r.kind = "session" =>
          /\ r.message.origin = Base[r.client]
          /\ [key |-> Ident[Signer[r.client]], message |-> r.message] \in signed

\* What is pending or handled was issued here, to this DID.
IssuedInv ==
    /\ \A i \in issued : i.nonce <= nonces
    /\ \A i, j \in issued : i.nonce = j.nonce => i = j
    /\ \A s \in Servers : \A ch \in challenges[s] :
          [server |-> s, nonce |-> ch.nonce, did |-> ch.did] \in issued
    /\ \A s \in Servers : \A r \in handling[s] :
          LET ch == [server |-> s, nonce |-> r.message.nonce, did |-> Signer[r.client]] IN
          ch \in issued /\ r.message = build_message(s, ch)

\* A nonce has one owner.
OwnerInv ==
    /\ \A s \in Servers : \A ch \in challenges[s] :
          /\ \A t \in Servers : \A r \in handling[t] : r.message.nonce # ch.nonce
          /\ \A m \in minted : m.nonce # ch.nonce
    /\ \A s, t \in Servers : \A r \in handling[s], q \in handling[t] :
          r.message.nonce = q.message.nonce => s = t /\ r = q
    /\ \A s \in Servers : \A r \in handling[s] : \A m \in minted : m.nonce # r.message.nonce

\* What servers keep about nonces, and what it is kept for.
ServerInv == IssuedInv /\ OwnerInv /\ ProvedPossession /\ SessionsOnlyWhereDialled

\* The token was minted for the client, by the server it dials.
MintedFor(c, k) == \E m \in minted : m.token = k /\ m.did = Signer[c] /\ m.server = Base[c]

\* A token has one owner.
TokenInv ==
    /\ \A m \in minted : m.token <= tokens
    /\ \A c \in Clients :
          /\ token[c] <= tokens /\ answer[c].token <= tokens
          /\ token[c] # NoToken => MintedFor(c, token[c])
          /\ answer[c].token # NoToken => MintedFor(c, answer[c].token)
          /\ pc[c] = "posting" /\ answer[c].status = "ok" => answer[c].token # NoToken
          /\ answer[c].token # NoToken => \A d \in Clients : token[d] # answer[c].token
    /\ \A c, d \in Clients : c # d =>
          /\ token[c] # NoToken => token[c] # token[d]
          /\ answer[c].token # NoToken => answer[c].token # answer[d].token

\* A send that has nothing in flight and nothing executed.
Untried(c, o) ==
    /\ executed[c][o] = 0
    /\ \A r \in requests : ~(r.kind = "whoami" /\ r.client = c /\ r.op = o)

\* What a send has in flight and what it had executed is at most one.
OnceInv ==
    /\ executed = [c \in Clients |-> executed[c]]
    /\ \A c \in Clients :
          /\ executed[c] \in [1 .. MaxOps[c] -> Nat]
          /\ ops[c] <= MaxOps[c]
          /\ pc[c] # "idle" => ops[c] # 0
          /\ \A o \in 1 .. MaxOps[c] : executed[c][o] <= 1
          /\ \A o \in 1 .. MaxOps[c] : o > ops[c] => Untried(c, o)
          /\ pc[c] \in {"asking", "signing", "posting"} => Untried(c, ops[c])
          /\ pc[c] = "first" /\ answer[c].status = "unauthorized" => Untried(c, ops[c])
    /\ \A r \in requests : r.kind = "whoami" =>
          /\ r.op \in 1 .. MaxOps[r.client]
          /\ executed[r.client][r.op] = 0
    /\ \A r, q \in requests :
          r.kind = "whoami" /\ q.kind = "whoami" /\ r.client = q.client /\ r.op = q.op => r = q

\* A login that send has started.
LogsInAgain(c) == pc[c] \in {"asking", "signing", "posting"} /\ retrying[c]

\* A session that was minted is stored or has been dropped.
KeptOrDropped ==
    \A m \in minted : m.token \in forgotten \/ \E k \in sessions[m.server] : k.token = m.token

\* What client c knows of its tokens: if nothing is misdirected, a refused token
\* was dropped where it was minted.
Refusals(c) ==
    /\ pc[c] \in {"idle", "first"} => ~retrying[c]
    /\ pc[c] \in {"first", "second"} => token[c] # NoToken
    /\ LogsInAgain(c) => stale[c] = token[c]
    /\ pc[c] = "second" => stale[c] # token[c]
    /\ LogsInAgain(c) \/ pc[c] = "second" => Base[c] \in Strays \/ stale[c] \in forgotten
    /\ pc[c] \in {"first", "second"} /\ answer[c].status = "unauthorized" =>
          Base[c] \in Strays \/ token[c] \in forgotten

\* A token refused without misdirection was dropped.
ForgetInv == KeptOrDropped /\ \A c \in Clients : Refusals(c)

-----------------------------------------------------------------------------
(* Types: the parts of actions *)

\* The null values and the answers without content are well typed.
LEMMA Values ==
    /\ NoMessage \in Messages
    /\ NoAnswer \in Answers /\ NoAnswer.status = "none" /\ NoAnswer.token = NoToken
    /\ \A st \in {"ok", "unauthorized", "error"} :
          /\ Failed(st) \in Answers
          /\ Failed(st).status = st /\ Failed(st).token = NoToken
BY DEF NoMessage, NoAnswer, Failed, Messages, Answers, Idents, NoToken

\* The message of a challenge is a message (message.rs, build_message).
LEMMA BuiltMessage ==
    ASSUME NEW s \in Servers, NEW ch, ch.nonce \in Nat, ch.did \in Dids
    PROVE  build_message(s, ch) \in Messages
BY LoginAssumptions DEF build_message, Messages, Idents

\* The answers that carry a challenge and a token.
LEMMA AnswerOf ==
    ASSUME NEW m \in Messages, NEW k \in Nat
    PROVE  /\ [NoAnswer EXCEPT !.status = "ok", !.message = m] \in Answers
           /\ [NoAnswer EXCEPT !.status = "ok", !.message = m].status = "ok"
           /\ [NoAnswer EXCEPT !.status = "ok", !.message = m].token = NoToken
           /\ [NoAnswer EXCEPT !.status = "ok", !.token = k] \in Answers
           /\ [NoAnswer EXCEPT !.status = "ok", !.token = k].status = "ok"
           /\ [NoAnswer EXCEPT !.status = "ok", !.token = k].token = k
BY Values DEF NoAnswer, Answers, NoMessage, Messages

\* Dispatch keeps the types, of the client's side and of the network.
LEMMA DispatchType ==
    ASSUME TypeInv, NEW c \in Clients, NEW op \in Nat, NEW kind \in Kinds,
           NEW m \in Messages, NEW k \in Nat, Dispatch(c, op, kind, m, k)
    PROVE  NetworkType' /\ calls' \in [Clients -> Nat]
<1>1. [client |-> c, call |-> calls[c] + 1, op |-> op, kind |-> kind, message |-> m, token |-> k]
        \in Requests
  BY DEF Requests, TypeInv, ClientType
<1> QED
  BY <1>1, Values DEF Dispatch, TypeInv, ClientType, NetworkType

\* Returning to the caller keeps the types.
LEMMA FinishType ==
    ASSUME TypeInv, NEW c \in Clients, Finish(c), UNCHANGED <<token, ops, stale>>
    PROVE  NetworkType' /\ ClientType'
BY Values DEF Finish, Goto, TypeInv, ClientType, NetworkType

\* Answering a request keeps the types.
LEMMA RespondType ==
    ASSUME TypeInv, NEW r \in Requests, NEW a \in Answers, Respond(r, a)
    PROVE  answer' \in [Clients -> Answers]
BY DEF Respond, Requests, TypeInv, NetworkType

\* Every step of every client and server keeps the types.
LEMMA TypeInvHolds == Spec => []TypeInv
<1> USE LoginAssumptions
<1>1. Init => TypeInv
  BY Values DEF Init, TypeInv, ClientType, NetworkType, ServerType, NoToken
<1>2. TypeInv /\ [Next]_vars => TypeInv'
  <2> SUFFICES ASSUME TypeInv, [Next]_vars PROVE TypeInv'
    OBVIOUS
  <2>0. ASSUME UNCHANGED <<server, issued, minted>> PROVE ServerType'
    BY <2>0 DEF server, TypeInv, ServerType
  <2>a. ASSUME UNCHANGED <<client, stale>> PROVE ClientType'
    BY <2>a DEF client, TypeInv, ClientType
  <2>b. ASSUME NEW c \in Clients, Finish(c), UNCHANGED <<token, ops, server, history>> PROVE TypeInv'
    BY <2>b, <2>0, FinishType DEF history, TypeInv
  <2>1. ASSUME NEW c \in Clients, Login(c) PROVE TypeInv'
    <3>0. ops[c] + 1 \in Nat
      BY DEF TypeInv, ClientType
    <3>1. NetworkType' /\ calls' \in [Clients -> Nat]
      BY <2>1, <3>0, DispatchType, Values DEF Login, Ask, Kinds, NoToken
    <3>2. ClientType'
      BY <2>1, <3>0, <3>1 DEF Login, Goto, Awaiting, history, TypeInv, ClientType
    <3> QED
      BY <2>0, <2>1, <3>1, <3>2 DEF Login, history, TypeInv
  <2>2. ASSUME NEW c \in Clients, Send(c) PROVE TypeInv'
    <3>0. ops[c] + 1 \in Nat /\ token[c] \in Nat
      BY DEF TypeInv, ClientType
    <3>1. NetworkType' /\ calls' \in [Clients -> Nat]
      BY <2>2, <3>0, DispatchType, Values DEF Send, Use, Kinds
    <3>2. ClientType'
      BY <2>2, <3>0, <3>1 DEF Send, Goto, Awaiting, NoToken, TypeInv, ClientType
    <3> QED
      BY <2>0, <2>2, <3>1, <3>2 DEF Send, TypeInv
  <2>3. ASSUME NEW c \in Clients, Challenged(c) PROVE TypeInv'
    <3>1. CASE Bound(c, answer[c].message)
      <4>1. answer[c].message \in Messages
        BY DEF TypeInv, NetworkType, Answers
      <4>2. ClientType'
        BY <2>3, <3>1, <4>1 DEF Challenged, Goto, TypeInv, ClientType, history
      <4>3. NetworkType'
        BY <2>3, <3>1, Values DEF Challenged, TypeInv, NetworkType
      <4> QED
        BY <2>0, <2>3, <4>2, <4>3 DEF Challenged, TypeInv, history
    <3>2. CASE ~Bound(c, answer[c].message)
      BY <2>b, <2>3, <3>2 DEF Challenged
    <3> QED
      BY <3>1, <3>2
  <2>4. ASSUME NEW c \in Clients, Sign(c) PROVE TypeInv'
    <3>1. NetworkType' /\ calls' \in [Clients -> Nat]
      BY <2>4, DispatchType DEF Sign, Kinds, NoToken, TypeInv, ClientType
    <3> QED
      BY <2>0, <2>4, <3>1 DEF Sign, Goto, Awaiting, TypeInv, ClientType
  <2>5. ASSUME NEW c \in Clients, SignFails(c) PROVE TypeInv'
    BY <2>5, <2>b DEF SignFails
  <2>6. ASSUME NEW c \in Clients, LoggedIn(c) PROVE TypeInv'
    <3>1. answer[c].token \in Nat
      BY DEF TypeInv, NetworkType, Answers
    <3>2. token' \in [Clients -> Nat]
      BY <2>6, <3>1 DEF LoggedIn, TypeInv, ClientType
    <3>3. CASE retrying[c]
      <4>1. NetworkType' /\ calls' \in [Clients -> Nat]
        BY <2>6, <3>1, <3>3, DispatchType, Values DEF LoggedIn, Use, Kinds, TypeInv, ClientType
      <4> QED
        BY <2>0, <2>6, <3>2, <3>3, <4>1 DEF LoggedIn, Goto, Awaiting, history, TypeInv, ClientType
    <3>4. CASE ~retrying[c]
      <4>1. NetworkType'
        BY <2>6, <3>4, Values DEF LoggedIn, Finish, TypeInv, NetworkType
      <4>2. ClientType'
        BY <2>6, <3>2, <3>4, Values DEF LoggedIn, Finish, Goto, history, TypeInv, ClientType
      <4> QED
        BY <2>0, <2>6, <4>1, <4>2 DEF LoggedIn, history, TypeInv
    <3> QED
      BY <3>3, <3>4 DEF TypeInv, ClientType
  <2>7. ASSUME NEW c \in Clients, LoginRefused(c) PROVE TypeInv'
    BY <2>7, <2>b DEF LoginRefused
  <2>8. ASSUME NEW c \in Clients, FirstAnswered(c) PROVE TypeInv'
    <3>1. CASE answer[c].status = "unauthorized"
      <4>1. NetworkType' /\ calls' \in [Clients -> Nat]
        BY <2>8, <3>1, DispatchType, Values DEF FirstAnswered, Ask, Kinds, NoToken, TypeInv, ClientType
      <4> QED
        BY <2>0, <2>8, <3>1, <4>1 DEF FirstAnswered, Goto, Awaiting, TypeInv, ClientType
    <3>2. CASE answer[c].status # "unauthorized"
      BY <2>8, <2>b, <3>2 DEF FirstAnswered, history
    <3> QED
      BY <3>1, <3>2
  <2>9. ASSUME NEW c \in Clients, SecondAnswered(c) \/ HttpFails(c) PROVE TypeInv'
    BY <2>9, <2>b DEF SecondAnswered, HttpFails
  <2>10. ASSUME NEW s \in Servers, NEW r \in requests, RefuseChallenge(s, r) PROVE TypeInv'
    <3>1. r \in Requests
      BY DEF TypeInv, NetworkType
    <3>2. NetworkType'
      BY <2>10, <3>1, RespondType, Values DEF RefuseChallenge, TypeInv, NetworkType
    <3> QED
      BY <2>0, <2>a, <2>10, <3>2 DEF RefuseChallenge, history, TypeInv
  <2>11. ASSUME NEW s \in Servers, NEW r \in requests, ServeChallenge(s, r) PROVE TypeInv'
    <3> DEFINE ch == [nonce |-> nonces + 1, did |-> Signer[r.client]]
    <3>1. r \in Requests /\ Signer[r.client] \in Dids
      BY DEF TypeInv, NetworkType, Requests
    <3>2. ch \in Challenges /\ nonces + 1 \in Nat
      BY <3>1 DEF Challenges, TypeInv, ServerType
    <3>3. [NoAnswer EXCEPT !.status = "ok", !.message = build_message(s, ch)] \in Answers
      <4>1. build_message(s, ch) \in Messages
        BY <3>1, <3>2, BuiltMessage DEF Challenges
      <4> QED
        BY <4>1, AnswerOf
    <3>4. NetworkType'
      BY <2>11, <3>1, <3>3, RespondType DEF ServeChallenge, TypeInv, NetworkType
    <3>5. ServerType'
      BY <2>11, <3>1, <3>2 DEF ServeChallenge, TypeInv, ServerType
    <3> QED
      BY <2>a, <2>11, <3>4, <3>5 DEF ServeChallenge, TypeInv
  <2>12. ASSUME NEW s \in Servers, NEW r \in requests, ServeSession(s, r) PROVE TypeInv'
    <3>1. r \in Requests
      BY DEF TypeInv, NetworkType
    <3>2. answer' = answer \/ \E st \in {"error", "unauthorized"} : Respond(r, Failed(st))
      BY <2>12 DEF ServeSession
    <3>3. NetworkType'
      BY <2>12, <3>1, <3>2, RespondType, Values DEF ServeSession, TypeInv, NetworkType
    <3>4. challenges' \in [Servers -> SUBSET Challenges] /\ handling' \in [Servers -> SUBSET Requests]
      BY <2>12, <3>1 DEF ServeSession, TypeInv, ServerType
    <3> QED
      BY <2>a, <2>12, <3>3, <3>4 DEF ServeSession, history, TypeInv, ServerType
  <2>13. ASSUME NEW s \in Servers, NEW r \in handling[s], MintSession(s, r) PROVE TypeInv'
    <3>1. r \in Requests /\ Signer[r.client] \in Dids /\ r.message.nonce \in Nat
      BY DEF TypeInv, ServerType, Requests, Messages
    <3>2. tokens + 1 \in Nat
      BY DEF TypeInv, ServerType
    <3>3. NetworkType'
      BY <2>13, <3>1, <3>2, RespondType, AnswerOf, Values DEF MintSession, TypeInv, NetworkType
    <3>4. [token |-> tokens + 1, did |-> Signer[r.client]] \in Sessions
      BY <3>1, <3>2 DEF Sessions
    <3>5. sessions' \in [Servers -> SUBSET Sessions]
      BY <2>13, <3>4 DEF MintSession, TypeInv, ServerType
    <3>6. handling' \in [Servers -> SUBSET Requests] /\ tokens' \in Nat
      BY <2>13, <3>2 DEF MintSession, TypeInv, ServerType
    <3>7. minted' \subseteq [server : Servers, did : Dids, token : Nat, nonce : Nat]
      BY <2>13, <3>1, <3>2 DEF MintSession, TypeInv, ServerType
    <3> QED
      BY <2>a, <2>13, <3>3, <3>5, <3>6, <3>7 DEF MintSession, TypeInv, ServerType
  <2>14. ASSUME NEW s \in Servers, NEW r \in handling[s], MintFails(s, r) PROVE TypeInv'
    <3>1. r \in Requests
      BY DEF TypeInv, ServerType
    <3>2. NetworkType'
      BY <2>14, <3>1, RespondType, Values DEF MintFails, TypeInv, NetworkType
    <3> QED
      BY <2>a, <2>14, <3>2 DEF MintFails, history, TypeInv, ServerType
  <2>15. ASSUME NEW s \in Servers, NEW r \in requests, ServeWhoami(s, r) PROVE TypeInv'
    <3>1. r \in Requests
      BY DEF TypeInv, NetworkType
    <3>2. \E st \in {"ok", "unauthorized"} : Respond(r, Failed(st))
      BY <2>15 DEF ServeWhoami
    <3>3. NetworkType'
      BY <2>15, <3>1, <3>2, RespondType, Values DEF ServeWhoami, TypeInv, NetworkType
    <3> QED
      BY <2>0, <2>a, <2>15, <3>3 DEF ServeWhoami, TypeInv
  <2>16. ASSUME NEW s \in Servers, NEW r \in requests, NEW ch \in challenges[s], Forward(s, r, ch)
         PROVE  TypeInv'
    <3>1. r \in Requests
      BY DEF TypeInv, NetworkType
    <3>2. build_message(s, ch) \in Messages
      BY BuiltMessage DEF TypeInv, ServerType, Challenges
    <3>3. NetworkType'
      BY <2>16, <3>1, <3>2, RespondType, AnswerOf DEF Forward, TypeInv, NetworkType
    <3> QED
      BY <2>0, <2>a, <2>16, <3>3 DEF Forward, history, TypeInv
  <2>17. ASSUME NEW s \in Servers, NEW ch \in challenges[s], ForgetChallenge(s, ch) PROVE TypeInv'
    BY <2>a, <2>17 DEF ForgetChallenge, history, TypeInv, NetworkType, ServerType
  <2>18. ASSUME NEW s \in Servers, NEW k \in sessions[s], ForgetSession(s, k) PROVE TypeInv'
    BY <2>a, <2>18 DEF ForgetSession, TypeInv, NetworkType, ServerType
  <2>19. ASSUME NEW s \in Servers, Restart(s) PROVE TypeInv'
    BY <2>a, <2>19 DEF Restart, TypeInv, NetworkType, ServerType
  <2>20. ASSUME NEW r \in requests, Lose(r) PROVE TypeInv'
    BY <2>0, <2>a, <2>20 DEF Lose, history, TypeInv, NetworkType
  <2>21. CASE UNCHANGED vars
    BY <2>0, <2>a, <2>21 DEF vars, client, history, TypeInv, NetworkType
  <2> QED
    BY <2>1, <2>2, <2>3, <2>4, <2>5, <2>6, <2>7, <2>8, <2>9, <2>10, <2>11, <2>12, <2>13, <2>14,
       <2>15, <2>16, <2>17, <2>18, <2>19, <2>20, <2>21 DEF Next, React, Serve, Trouble
<1> QED
  BY <1>1, <1>2, PTL DEF Spec

-----------------------------------------------------------------------------
(* Calls *)

\* A new request supersedes every earlier one of its client.
LEMMA CallDispatched ==
    ASSUME TypeInv, CallInv, NEW c \in Clients, NEW label \in Awaiting, NEW op, NEW m, NEW k,
           Dispatch(c, op, Awaited(label), m, k), Goto(c, label),
           handling' = handling, ops'[c] = op,
           Awaited(label) = "whoami" => k = token'[c],
           \A d \in Clients \ {c} : ops'[d] = ops[d] /\ token'[d] = token[d]
    PROVE  CallInv'
<1> DEFINE new == [client |-> c, call |-> calls[c] + 1, op |-> op, kind |-> Awaited(label),
                   message |-> m, token |-> k]
<1>1. UnderWay' = UnderWay \cup {new}
  BY DEF UnderWay, Dispatch
<1>2. /\ calls[c] \in Nat /\ calls'[c] = calls[c] + 1 /\ pc'[c] = label
      /\ \A d \in Clients \ {c} : calls'[d] = calls[d] /\ pc'[d] = pc[d]
  BY DEF Dispatch, Goto, TypeInv, ClientType
<1>3. \A r \in UnderWay : r.client \in Clients /\ r.call \in Nat
  BY DEF UnderWay, TypeInv, NetworkType, ServerType, Requests
<1>4. /\ new.client = c /\ new.call = calls[c] + 1 /\ new.op = op
      /\ new.kind = Awaited(label) /\ new.token = k
  OBVIOUS
<1> HIDE DEF new
<1>5. ASSUME NEW r \in UnderWay'
      PROVE  /\ r.call <= calls'[r.client]
             /\ r.call = calls'[r.client] /\ pc'[r.client] \in Awaiting =>
                   /\ r.kind = Awaited(pc'[r.client])
                   /\ r.op = ops'[r.client]
                   /\ r.kind = "whoami" => r.token = token'[r.client]
  <2>1. CASE r = new
    BY <1>2, <1>4, <2>1
  <2>2. CASE r \in UnderWay /\ r.client = c
    <3>1. r.call <= calls[c]
      BY <2>2 DEF CallInv
    <3> QED
      BY <1>2, <1>3, <2>2, <3>1
  <2>3. CASE r \in UnderWay /\ r.client # c
    <3>1. /\ calls'[r.client] = calls[r.client] /\ pc'[r.client] = pc[r.client]
          /\ ops'[r.client] = ops[r.client] /\ token'[r.client] = token[r.client]
      BY <1>2, <1>3, <2>3
    <3> QED
      BY <2>3, <3>1 DEF CallInv
  <2> QED
    BY <1>1, <1>5, <2>1, <2>2, <2>3
<1> QED
  BY <1>5 DEF CallInv

\* A step that sends nothing: a client either goes on waiting or stops.
LEMMA CallKept ==
    ASSUME TypeInv, CallInv, UnderWay' \subseteq UnderWay, calls' = calls,
           \A s \in Servers : \A r \in handling'[s] : r.kind = "session",
           \A c \in Clients : pc'[c] \in Awaiting =>
               pc'[c] = pc[c] /\ ops'[c] = ops[c] /\ token'[c] = token[c]
    PROVE  CallInv'
<1>1. \A r \in UnderWay : r.client \in Clients
  BY DEF UnderWay, TypeInv, NetworkType, ServerType, Requests
<1> QED
  BY <1>1 DEF CallInv

\* A request a client still waits for is the one it sent last.
LEMMA CallInvHolds == Spec => []CallInv
<1>1. Init => CallInv
  BY DEF Init, CallInv, UnderWay
<1>2. TypeInv /\ CallInv /\ [Next]_vars => CallInv'
  <2> SUFFICES ASSUME TypeInv, CallInv, [Next]_vars PROVE CallInv'
    OBVIOUS
  <2>0. /\ "asking" \in Awaiting /\ "posting" \in Awaiting /\ "first" \in Awaiting
        /\ "second" \in Awaiting /\ "idle" \notin Awaiting /\ "signing" \notin Awaiting
        /\ Awaited("asking") = "challenge" /\ Awaited("posting") = "session"
        /\ Awaited("first") = "whoami" /\ Awaited("second") = "whoami"
    BY DEF Awaiting, Awaited
  <2>a. ASSUME NEW c \in Clients, NEW label \in {"idle", "signing"}, Goto(c, label),
               UNCHANGED <<requests, handling, calls, ops>>,
               \A d \in Clients \ {c} : token'[d] = token[d]
        PROVE  CallInv'
    <3>1. UnderWay' = UnderWay
      BY <2>a DEF UnderWay
    <3>2. \A d \in Clients : pc'[d] \in Awaiting => d # c /\ pc'[d] = pc[d]
      BY <2>0, <2>a DEF Goto, TypeInv, ClientType
    <3>3. \A s \in Servers : \A r \in handling'[s] : r.kind = "session"
      BY <2>a DEF CallInv
    <3> QED
      BY <2>a, <3>1, <3>2, <3>3, CallKept
  <2>b. ASSUME NEW c \in Clients, Finish(c), UNCHANGED <<handling, ops>>,
               \A d \in Clients \ {c} : token'[d] = token[d]
        PROVE  CallInv'
    BY <2>a, <2>b DEF Finish
  <2>c. ASSUME UNCHANGED client, UnderWay' \subseteq UnderWay,
               \A s \in Servers : \A r \in handling'[s] : r.kind = "session"
        PROVE  CallInv'
    BY <2>c, CallKept DEF client
  <2>1. ASSUME NEW c \in Clients, Login(c) PROVE CallInv'
    <3>1. ops'[c] = ops[c] + 1 /\ \A d \in Clients \ {c} : ops'[d] = ops[d]
      BY <2>1 DEF Login, TypeInv, ClientType
    <3> QED
      BY <2>0, <2>1, <3>1, CallDispatched DEF Login, Ask, server
  <2>2. ASSUME NEW c \in Clients, Send(c) PROVE CallInv'
    <3>1. ops'[c] = ops[c] + 1 /\ \A d \in Clients \ {c} : ops'[d] = ops[d]
      BY <2>2 DEF Send, TypeInv, ClientType
    <3> QED
      BY <2>0, <2>2, <3>1, CallDispatched DEF Send, Use, server
  <2>3. ASSUME NEW c \in Clients, Challenged(c) PROVE CallInv'
    BY <2>a, <2>b, <2>3 DEF Challenged, server
  <2>4. ASSUME NEW c \in Clients, Sign(c) PROVE CallInv'
    BY <2>0, <2>4, CallDispatched DEF Sign, server
  <2>5. ASSUME NEW c \in Clients, LoggedIn(c) PROVE CallInv'
    <3>1. token'[c] = answer[c].token /\ \A d \in Clients \ {c} : token'[d] = token[d]
      BY <2>5 DEF LoggedIn, TypeInv, ClientType
    <3>2. CASE retrying[c]
      BY <2>0, <2>5, <3>1, <3>2, CallDispatched DEF LoggedIn, Use, server
    <3>3. CASE ~retrying[c]
      BY <2>b, <2>5, <3>1, <3>3 DEF LoggedIn, server
    <3> QED
      BY <3>2, <3>3
  <2>6. ASSUME NEW c \in Clients, FirstAnswered(c) PROVE CallInv'
    <3>1. CASE answer[c].status = "unauthorized"
      BY <2>0, <2>6, <3>1, CallDispatched DEF FirstAnswered, Ask, server
    <3>2. CASE answer[c].status # "unauthorized"
      BY <2>b, <2>6, <3>2 DEF FirstAnswered, server
    <3> QED
      BY <3>1, <3>2
  <2>7. ASSUME NEW c \in Clients,
               SignFails(c) \/ LoginRefused(c) \/ SecondAnswered(c) \/ HttpFails(c)
        PROVE  CallInv'
    BY <2>7, <2>b DEF SignFails, LoginRefused, SecondAnswered, HttpFails, server
  <2>8. ASSUME NEW s \in Servers, NEW r \in requests, ServeSession(s, r) PROVE CallInv'
    <3>1. handling' = handling \/ handling' = [handling EXCEPT ![s] = @ \cup {r}]
      BY <2>8 DEF ServeSession
    <3>2. UnderWay' \subseteq UnderWay
      BY <2>8, <3>1 DEF ServeSession, UnderWay, TypeInv, ServerType
    <3>3. \A t \in Servers : \A q \in handling'[t] : q.kind = "session"
      BY <2>8, <3>1 DEF ServeSession, CallInv, TypeInv, ServerType
    <3> QED
      BY <2>8, <2>c, <3>2, <3>3 DEF ServeSession
  <2>9. ASSUME NEW s \in Servers, UNCHANGED client, requests' \subseteq requests,
               \/ UNCHANGED handling
               \/ \E h \in SUBSET handling[s] : handling' = [handling EXCEPT ![s] = h]
        PROVE  CallInv'
    <3>1. \A t \in Servers : handling'[t] \subseteq handling[t]
      BY <2>9 DEF TypeInv, ServerType
    <3>2. UnderWay' \subseteq UnderWay
      BY <2>9, <3>1 DEF UnderWay
    <3>3. \A t \in Servers : \A r \in handling'[t] : r.kind = "session"
      BY <3>1 DEF CallInv
    <3> QED
      BY <2>9, <2>c, <3>2, <3>3
  <2>10. ASSUME NEW s \in Servers, NEW r \in requests,
                \/ RefuseChallenge(s, r) \/ ServeChallenge(s, r) \/ ServeWhoami(s, r)
                \/ \E ch \in challenges[s] : Forward(s, r, ch)
         PROVE  CallInv'
    BY <2>9, <2>10 DEF RefuseChallenge, ServeChallenge, ServeWhoami, Forward, server
  <2>11. ASSUME NEW s \in Servers, NEW r \in handling[s], MintSession(s, r) \/ MintFails(s, r)
         PROVE  CallInv'
    <3>1. handling' = [handling EXCEPT ![s] = handling[s] \ {r}] /\ UNCHANGED <<client, requests>>
      BY <2>11 DEF MintSession, MintFails
    <3>2. handling[s] \ {r} \in SUBSET handling[s]
      OBVIOUS
    <3> QED
      BY <2>9, <3>1, <3>2
  <2>12. ASSUME NEW s \in Servers, Restart(s) PROVE CallInv'
    <3>1. {} \in SUBSET handling[s]
      OBVIOUS
    <3> QED
      BY <2>9, <2>12, <3>1 DEF Restart
  <2>13. ASSUME NEW s \in Servers,
                \/ \E ch \in challenges[s] : ForgetChallenge(s, ch)
                \/ \E k \in sessions[s] : ForgetSession(s, k)
         PROVE  CallInv'
    BY <2>9, <2>13 DEF ForgetChallenge, ForgetSession
  <2>14. ASSUME UNCHANGED <<client, handling>>, requests' \subseteq requests PROVE CallInv'
    <3>1. UnderWay' \subseteq UnderWay
      BY <2>14 DEF UnderWay
    <3> QED
      BY <2>14, <2>c, <3>1 DEF CallInv
  <2>15. CASE UNCHANGED vars
    BY <2>14, <2>15 DEF vars, server
  <2>16. ASSUME NEW r \in requests, Lose(r) PROVE CallInv'
    BY <2>14, <2>16 DEF Lose, server
  <2> QED
    BY <2>1, <2>2, <2>3, <2>4, <2>5, <2>6, <2>7, <2>8, <2>10, <2>11, <2>12, <2>13,
       <2>15, <2>16 DEF Next, React, Serve, Trouble
<1> QED
  BY <1>1, <1>2, TypeInvHolds, PTL DEF Spec

-----------------------------------------------------------------------------
(* Nonces *)

\* A server makes no request and does not act for a client.
LEMMA ServerStep ==
    ASSUME TypeInv, NEW s \in Servers, Serve(s) \/ Trouble(s)
    PROVE  /\ UNCHANGED <<client, signed, stale>>
           /\ requests' \subseteq requests /\ UnderWay' \subseteq UnderWay
<1>1. UNCHANGED <<client, signed, stale>> /\ requests' \subseteq requests
  BY DEF Serve, Trouble, RefuseChallenge, ServeChallenge, ServeSession, ServeWhoami, MintSession,
         MintFails, Forward, ForgetChallenge, ForgetSession, Restart, history
<1>2. \/ handling' = handling
      \/ \E h \in SUBSET handling[s] : handling' = [handling EXCEPT ![s] = h]
      \/ \E r \in requests : handling' = [handling EXCEPT ![s] = @ \cup {r}]
  <2>1. {} \in SUBSET handling[s] /\ \A r : handling[s] \ {r} \in SUBSET handling[s]
    OBVIOUS
  <2> QED
    BY <2>1 DEF Serve, Trouble, RefuseChallenge, ServeChallenge, ServeSession, ServeWhoami,
         MintSession, MintFails, Forward, ForgetChallenge, ForgetSession, Restart, server
<1>3. \A t \in Servers : handling'[t] \subseteq handling[t] \cup requests
  BY <1>2 DEF TypeInv, ServerType
<1> QED
  BY <1>1, <1>3 DEF UnderWay

\* A step after which no request of kind session is new.
LEMMA SignedKept ==
    ASSUME SignedInv, signed \subseteq signed',
           \A r \in UnderWay' : r.kind = "session" => r \in UnderWay,
           \A c \in Clients : pc'[c] = "signing" => pc[c] = "signing" /\ envelope'[c] = envelope[c]
    PROVE  SignedInv'
BY DEF SignedInv

\* Whatever a client signs and posts bears the origin it dialled.
LEMMA SignedInvHolds == Spec => []SignedInv
<1>1. Init => SignedInv
  BY DEF Init, SignedInv, UnderWay
<1>2. TypeInv /\ SignedInv /\ [Next]_vars => SignedInv'
  <2> SUFFICES ASSUME TypeInv, SignedInv, [Next]_vars PROVE SignedInv'
    OBVIOUS
  <2>a. ASSUME NEW c \in Clients, NEW op, NEW m, NEW k, NEW kind \in {"challenge", "whoami"},
               NEW label \in Awaiting, Goto(c, label), Dispatch(c, op, kind, m, k),
               UNCHANGED <<envelope, handling, signed>>
        PROVE  SignedInv'
    <3>1. \A r \in UnderWay' : r.kind = "session" => r \in UnderWay
      BY <2>a DEF UnderWay, Dispatch
    <3>2. \A d \in Clients : pc'[d] = "signing" => pc[d] = "signing"
      BY <2>a DEF Goto, Awaiting, TypeInv, ClientType
    <3> QED
      BY <2>a, <3>1, <3>2, SignedKept
  <2>b. ASSUME NEW c \in Clients, Finish(c), UNCHANGED <<handling, signed>> PROVE SignedInv'
    <3>1. UnderWay' = UnderWay
      BY <2>b DEF UnderWay, Finish
    <3>2. \A d \in Clients : pc'[d] = "signing" => pc[d] = "signing" /\ envelope'[d] = envelope[d]
      BY <2>b DEF Finish, Goto, TypeInv, ClientType
    <3> QED
      BY <2>b, <3>1, <3>2, SignedKept
  <2>c. "asking" \in Awaiting /\ "posting" \in Awaiting /\ "first" \in Awaiting /\ "second" \in Awaiting
    BY DEF Awaiting
  <2>1. ASSUME NEW c \in Clients, Login(c) \/ Send(c) PROVE SignedInv'
    BY <2>1, <2>a, <2>c DEF Login, Send, Ask, Use, server, history
  <2>2. ASSUME NEW c \in Clients, Challenged(c) PROVE SignedInv'
    <3>1. CASE Bound(c, answer[c].message)
      <4>1. UnderWay' = UnderWay /\ signed' = signed
        BY <2>2, <3>1 DEF Challenged, UnderWay, server, history
      <4>2. envelope'[c].origin = Base[c]
        BY <2>2, <3>1 DEF Challenged, Bound, verify_uri_binding, TypeInv, ClientType
      <4>3. \A d \in Clients \ {c} : pc'[d] = pc[d] /\ envelope'[d] = envelope[d]
        BY <2>2, <3>1 DEF Challenged, Goto, TypeInv, ClientType
      <4> QED
        BY <4>1, <4>2, <4>3 DEF SignedInv
    <3>2. CASE ~Bound(c, answer[c].message)
      BY <2>2, <2>b, <3>2 DEF Challenged, server, history
    <3> QED
      BY <3>1, <3>2
  <2>3. ASSUME NEW c \in Clients, Sign(c) PROVE SignedInv'
    <3> DEFINE new == [client |-> c, call |-> calls[c] + 1, op |-> ops[c], kind |-> "session",
                       message |-> envelope[c], token |-> NoToken]
    <3>1. UnderWay' = UnderWay \cup {new}
      BY <2>3 DEF Sign, Dispatch, UnderWay, server
    <3>2. signed' = signed \cup {[key |-> Ident[Signer[c]], message |-> envelope[c]]}
      BY <2>3 DEF Sign
    <3>3. new.client = c /\ new.message = envelope[c] /\ envelope[c].origin = Base[c]
      BY <2>3 DEF Sign, SignedInv
    <3>4. \A d \in Clients : pc'[d] = "signing" => pc[d] = "signing" /\ envelope'[d] = envelope[d]
      BY <2>3 DEF Sign, Goto, TypeInv, ClientType
    <3> HIDE DEF new
    <3> QED
      BY <3>1, <3>2, <3>3, <3>4 DEF SignedInv
  <2>4. ASSUME NEW c \in Clients, LoggedIn(c) PROVE SignedInv'
    BY <2>4, <2>a, <2>b, <2>c DEF LoggedIn, Use, server, history
  <2>5. ASSUME NEW c \in Clients, FirstAnswered(c) PROVE SignedInv'
    BY <2>5, <2>a, <2>b, <2>c DEF FirstAnswered, Ask, server
  <2>6. ASSUME NEW c \in Clients,
               SignFails(c) \/ LoginRefused(c) \/ SecondAnswered(c) \/ HttpFails(c)
        PROVE  SignedInv'
    BY <2>6, <2>b DEF SignFails, LoginRefused, SecondAnswered, HttpFails, server, history
  <2>7. ASSUME NEW s \in Servers, Serve(s) \/ Trouble(s) PROVE SignedInv'
    BY <2>7, ServerStep, SignedKept DEF client
  <2>8. ASSUME UNCHANGED <<client, handling, signed>>, requests' \subseteq requests PROVE SignedInv'
    <3>1. UnderWay' \subseteq UnderWay
      BY <2>8 DEF UnderWay
    <3> QED
      BY <2>8, <3>1, SignedKept DEF client
  <2> QED
    BY <2>1, <2>2, <2>3, <2>4, <2>5, <2>6, <2>7, <2>8
    DEF Next, React, Lose, vars, server, history
<1> QED
  BY <1>1, <1>2, TypeInvHolds, PTL DEF Spec

\* Servers may forget and clients may sign.
LEMMA ServerKept ==
    ASSUME ServerInv, UNCHANGED <<nonces, issued, minted>>, signed \subseteq signed',
           \A s \in Servers : /\ challenges'[s] \subseteq challenges[s]
                              /\ handling'[s] \subseteq handling[s]
                              /\ sessions'[s] \subseteq sessions[s]
    PROVE  ServerInv'
<1>1. IssuedInv'
  BY DEF ServerInv, IssuedInv
<1>2. OwnerInv'
  BY DEF ServerInv, OwnerInv
<1>3. ProvedPossession'
  BY DEF ServerInv, ProvedPossession
<1>4. SessionsOnlyWhereDialled'
  BY DEF ServerInv, SessionsOnlyWhereDialled
<1> QED
  BY <1>1, <1>2, <1>3, <1>4 DEF ServerInv

\* A new challenge: its nonce has never been drawn.
LEMMA ServerInvServeChallenge ==
    ASSUME TypeInv, ServerInv, NEW s \in Servers, NEW r \in requests, ServeChallenge(s, r)
    PROVE  ServerInv'
<1> DEFINE ch == [nonce |-> nonces + 1, did |-> Signer[r.client]]
           i == [server |-> s, nonce |-> ch.nonce, did |-> ch.did]
<1>1. /\ UNCHANGED <<handling, sessions, minted, signed>> /\ nonces' = nonces + 1
      /\ issued' = issued \cup {i} /\ challenges' = [challenges EXCEPT ![s] = @ \cup {ch}]
  BY DEF ServeChallenge
<1>2. /\ nonces \in Nat /\ ch.nonce = nonces + 1 /\ i.nonce = nonces + 1
      /\ i = [server |-> s, nonce |-> ch.nonce, did |-> ch.did]
      /\ \A j \in issued : j.nonce \in Nat /\ j.nonce <= nonces
  BY DEF TypeInv, ServerType, ServerInv, IssuedInv
<1>3. \A t \in Servers : \A q \in handling[t] : q.message.nonce # ch.nonce
  <2>1. ASSUME NEW t \in Servers, NEW q \in handling[t] PROVE q.message.nonce # ch.nonce
    <3>1. [server |-> t, nonce |-> q.message.nonce, did |-> Signer[q.client]] \in issued
      BY DEF ServerInv, IssuedInv
    <3> QED
      BY <1>2, <3>1
  <2> QED
    BY <2>1
<1>4. \A m \in minted : m.nonce # ch.nonce
  <2>1. ASSUME NEW m \in minted PROVE m.nonce # ch.nonce
    <3>1. [server |-> m.server, nonce |-> m.nonce, did |-> m.did] \in issued
      BY DEF ServerInv, ProvedPossession
    <3> QED
      BY <1>2, <3>1
  <2> QED
    BY <2>1
<1> HIDE DEF i, ch
<1>5. \A t \in Servers : challenges'[t] = challenges[t] \/ (t = s /\ challenges'[t] = challenges[t] \cup {ch})
  BY <1>1 DEF TypeInv, ServerType
<1>6. IssuedInv'
  <2>1. \A j \in issued' : j.nonce <= nonces'
    BY <1>1, <1>2
  <2>2. \A j, k \in issued' : j.nonce = k.nonce => j = k
    BY <1>1, <1>2 DEF ServerInv, IssuedInv
  <2>3. \A t \in Servers : \A c \in challenges'[t] :
            [server |-> t, nonce |-> c.nonce, did |-> c.did] \in issued'
    BY <1>1, <1>2, <1>5 DEF ServerInv, IssuedInv
  <2> QED
    BY <1>1, <2>1, <2>2, <2>3 DEF ServerInv, IssuedInv
<1>7. OwnerInv'
  BY <1>1, <1>3, <1>4, <1>5 DEF ServerInv, OwnerInv
<1>8. ProvedPossession'
  BY <1>1 DEF ServerInv, ProvedPossession
<1>9. SessionsOnlyWhereDialled'
  BY <1>1 DEF ServerInv, SessionsOnlyWhereDialled
<1> QED
  BY <1>6, <1>7, <1>8, <1>9 DEF ServerInv

\* A proof is accepted: the nonce passes from the challenge to the request.
LEMMA ServerInvServeSession ==
    ASSUME TypeInv, ServerInv, NEW s \in Servers, NEW r \in requests, ServeSession(s, r)
    PROVE  ServerInv'
<1> DEFINE found == {ch \in challenges[s] : ch.nonce = r.message.nonce}
<1>1. /\ UNCHANGED <<sessions, nonces, issued, minted, signed>>
      /\ challenges' = [challenges EXCEPT ![s] = @ \ found]
  BY DEF ServeSession, history
<1>2. \A t \in Servers : challenges'[t] \subseteq challenges[t]
  BY <1>1 DEF TypeInv, ServerType
<1>3. CASE handling' = handling
  BY <1>1, <1>2, <1>3, ServerKept
<1>4. CASE handling' # handling
  <2>1. PICK ch \in found : ch.did = Signer[r.client] /\ r.message = build_message(s, ch)
    BY <1>4 DEF ServeSession, Verifies
  <2>2. handling' = [handling EXCEPT ![s] = @ \cup {r}]
    BY <1>4 DEF ServeSession
  <2>3. \A t \in Servers : handling'[t] = handling[t] \/ (t = s /\ handling'[t] = handling[t] \cup {r})
    BY <2>2 DEF TypeInv, ServerType
  <2> DEFINE n == r.message.nonce
             i == [server |-> s, nonce |-> n, did |-> Signer[r.client]]
  <2>4. ch \in challenges[s] /\ ch.nonce = n
    OBVIOUS
  <2>5. i \in issued
    BY <2>1, <2>4 DEF ServerInv, IssuedInv
  <2>6. r.message = build_message(s, i)
    BY <2>1, <2>4 DEF build_message
  <2>7. \A t \in Servers : \A c \in challenges'[t] : c.nonce # n
    <3>1. ASSUME NEW t \in Servers, NEW c \in challenges'[t], c.nonce = n PROVE FALSE
      <4>1. c \in challenges[t]
        BY <1>2
      <4>2. [server |-> t, nonce |-> c.nonce, did |-> c.did] \in issued
        BY <4>1 DEF ServerInv, IssuedInv
      <4>3. [server |-> t, nonce |-> c.nonce, did |-> c.did] = i
        BY <2>5, <3>1, <4>2 DEF ServerInv, IssuedInv
      <4>4. t = s
        BY <4>3
      <4>5. challenges'[s] = challenges[s] \ found
        BY <1>1 DEF TypeInv, ServerType
      <4> QED
        BY <3>1, <4>4, <4>5
    <3> QED
      BY <3>1
  <2>8. (\A t \in Servers : \A q \in handling[t] : q.message.nonce # n) /\ \A m \in minted : m.nonce # n
    BY <2>4 DEF ServerInv, OwnerInv
  <2>9. IssuedInv'
    BY <1>1, <1>2, <2>3, <2>5, <2>6 DEF ServerInv, IssuedInv
  <2>10. OwnerInv'
    <3>1. \A t \in Servers : \A c \in challenges'[t] :
            /\ \A u \in Servers : \A q \in handling'[u] : q.message.nonce # c.nonce
            /\ \A m \in minted' : m.nonce # c.nonce
      BY <1>1, <1>2, <2>3, <2>7 DEF ServerInv, OwnerInv
    <3>2. \A t, u \in Servers : \A p \in handling'[t], q \in handling'[u] :
            p.message.nonce = q.message.nonce => t = u /\ p = q
      BY <2>3, <2>8 DEF ServerInv, OwnerInv
    <3>3. \A t \in Servers : \A q \in handling'[t] : \A m \in minted' : m.nonce # q.message.nonce
      BY <1>1, <2>3, <2>8 DEF ServerInv, OwnerInv
    <3> QED
      BY <3>1, <3>2, <3>3 DEF OwnerInv
  <2>11. ProvedPossession'
    BY <1>1 DEF ServerInv, ProvedPossession
  <2>12. SessionsOnlyWhereDialled'
    BY <1>1 DEF ServerInv, SessionsOnlyWhereDialled
  <2> QED
    BY <2>9, <2>10, <2>11, <2>12 DEF ServerInv
<1> QED
  BY <1>3, <1>4

\* A session is minted: the nonce passes from the request to the session.
LEMMA ServerInvMintSession ==
    ASSUME TypeInv, CallInv, SignedInv, ServerInv, NEW s \in Servers, NEW r \in handling[s],
           MintSession(s, r)
    PROVE  ServerInv'
<1> DEFINE n == r.message.nonce
           d == Signer[r.client]
           new == [token |-> tokens + 1, did |-> d]
           m == [server |-> s, did |-> d, token |-> new.token, nonce |-> n]
           i == [server |-> s, nonce |-> n, did |-> d]
<1>1. /\ UNCHANGED <<challenges, nonces, issued, signed>>
      /\ minted' = minted \cup {m} /\ handling' = [handling EXCEPT ![s] = @ \ {r}]
  BY DEF MintSession
<1>2. /\ \A t \in Servers : handling'[t] \subseteq handling[t]
      /\ handling'[s] = handling[s] \ {r}
  BY <1>1 DEF TypeInv, ServerType
<1>3. /\ \A t \in Servers \ {s} : sessions'[t] = sessions[t]
      /\ sessions'[s] \subseteq sessions[s] \cup {new}
  BY DEF MintSession, TypeInv, ServerType
<1>4. r \in UnderWay /\ r.kind = "session" /\ r.client \in Clients
  BY DEF UnderWay, CallInv, TypeInv, ServerType, Requests
<1>5. i \in issued /\ r.message = build_message(s, i)
  BY DEF ServerInv, IssuedInv
<1>6. [key |-> Ident[d], message |-> r.message] \in signed /\ r.message.origin = Base[r.client]
  BY <1>4 DEF SignedInv
<1>7. Base[r.client] = s
  BY <1>5, <1>6 DEF build_message
<1>8. /\ m.server = s /\ m.did = d /\ m.token = new.token /\ m.nonce = n
      /\ new.did = d /\ i = [server |-> s, nonce |-> n, did |-> d]
  OBVIOUS
<1>9. /\ \A t \in Servers : \A ch \in challenges[t] : ch.nonce # n
      /\ \A t \in Servers : \A q \in handling'[t] : q.message.nonce # n
      /\ \A x \in minted : x.nonce # n
  BY <1>2 DEF ServerInv, OwnerInv
<1> HIDE DEF n, d, new, m, i
<1>10. IssuedInv'
  BY <1>1, <1>2 DEF ServerInv, IssuedInv
<1>11. OwnerInv'
  BY <1>1, <1>2, <1>8, <1>9 DEF ServerInv, OwnerInv
<1>12. ProvedPossession'
  <2>1. \A t \in Servers : \A k \in sessions'[t] : \E x \in minted' :
           x.server = t /\ x.did = k.did /\ x.token = k.token
    BY <1>1, <1>3, <1>8 DEF ServerInv, ProvedPossession
  <2>2. ASSUME NEW x \in minted'
        PROVE  LET ch == [server |-> x.server, nonce |-> x.nonce, did |-> x.did] IN
               /\ ch \in issued'
               /\ [key |-> Ident[x.did], message |-> build_message(x.server, ch)] \in signed'
    <3>1. CASE x = m
      BY <1>1, <1>5, <1>6, <1>8, <3>1
    <3>2. CASE x \in minted
      BY <1>1, <3>2 DEF ServerInv, ProvedPossession
    <3> QED
      BY <1>1, <3>1, <3>2
  <2>3. \A x, y \in minted' : x.nonce = y.nonce => x = y
    BY <1>1, <1>8, <1>9 DEF ServerInv, ProvedPossession
  <2> QED
    BY <2>1, <2>2, <2>3 DEF ProvedPossession
<1>13. SessionsOnlyWhereDialled'
  <2>1. Signer[r.client] = m.did /\ Base[r.client] = m.server
    BY <1>7, <1>8 DEF d
  <2> QED
    BY <1>1, <1>4, <2>1 DEF ServerInv, SessionsOnlyWhereDialled
<1> QED
  BY <1>10, <1>11, <1>12, <1>13 DEF ServerInv

\* Every step keeps the ownership of nonces: only challenge_handler issues one,
\* only session_handler consumes it, and it does so before it mints.
LEMMA ServerInvHolds == Spec => []ServerInv
<1>1. Init => ServerInv
  BY DEF Init, ServerInv, IssuedInv, OwnerInv, ProvedPossession, SessionsOnlyWhereDialled
<1>2. TypeInv /\ CallInv /\ SignedInv /\ ServerInv /\ [Next]_vars => ServerInv'
  <2> SUFFICES ASSUME TypeInv, CallInv, SignedInv, ServerInv, [Next]_vars PROVE ServerInv'
    OBVIOUS
  <2>1. ASSUME UNCHANGED <<server, issued, minted>>, signed \subseteq signed' PROVE ServerInv'
    BY <2>1, ServerKept DEF server
  <2>2. ASSUME NEW c \in Clients, Login(c) \/ Send(c) \/ React(c) \/ SignFails(c) \/ HttpFails(c)
        PROVE  ServerInv'
    <3>1. UNCHANGED <<server, issued, minted>> /\ signed \subseteq signed'
      BY <2>2 DEF Login, Send, React, Challenged, Sign, LoggedIn, LoginRefused, FirstAnswered,
             SecondAnswered, SignFails, HttpFails, history
    <3> QED
      BY <2>1, <3>1
  <2>3. ASSUME NEW s \in Servers, NEW r \in requests,
               \/ RefuseChallenge(s, r) \/ ServeWhoami(s, r)
               \/ \E ch \in challenges[s] : Forward(s, r, ch)
        PROVE  ServerInv'
    BY <2>1, <2>3 DEF RefuseChallenge, ServeWhoami, Forward, history
  <2>4. ASSUME NEW s \in Servers, NEW r \in handling[s], MintFails(s, r) PROVE ServerInv'
    <3>1. \A t \in Servers : handling'[t] \subseteq handling[t]
      BY <2>4 DEF MintFails, TypeInv, ServerType
    <3> QED
      BY <2>4, <3>1, ServerKept DEF MintFails, history
  <2>5. ASSUME NEW s \in Servers, \E ch \in challenges[s] : ForgetChallenge(s, ch) PROVE ServerInv'
    <3>1. \A t \in Servers : challenges'[t] \subseteq challenges[t]
      BY <2>5 DEF ForgetChallenge, TypeInv, ServerType
    <3> QED
      BY <2>5, <3>1, ServerKept DEF ForgetChallenge, history
  <2>6. ASSUME NEW s \in Servers, \E k \in sessions[s] : ForgetSession(s, k) PROVE ServerInv'
    <3>1. \A t \in Servers : sessions'[t] \subseteq sessions[t]
      BY <2>6 DEF ForgetSession, TypeInv, ServerType
    <3> QED
      BY <2>6, <3>1, ServerKept DEF ForgetSession
  <2>7. ASSUME NEW s \in Servers, Restart(s) PROVE ServerInv'
    <3>1. \A t \in Servers : /\ challenges'[t] \subseteq challenges[t]
                             /\ handling'[t] \subseteq handling[t]
                             /\ sessions'[t] \subseteq sessions[t]
      BY <2>7 DEF Restart, TypeInv, ServerType
    <3> QED
      BY <2>7, <3>1, ServerKept DEF Restart
  <2>8. ASSUME NEW r \in requests, Lose(r) PROVE ServerInv'
    BY <2>1, <2>8 DEF Lose, history
  <2>9. CASE UNCHANGED vars
    BY <2>1, <2>9 DEF vars, history
  <2> QED
    BY <2>2, <2>3, <2>4, <2>5, <2>6, <2>7, <2>8, <2>9, ServerInvServeChallenge,
       ServerInvServeSession, ServerInvMintSession DEF Next, Serve, Trouble
<1> QED
  BY <1>1, <1>2, TypeInvHolds, CallInvHolds, SignedInvHolds, PTL DEF Spec

\* A session exists only for a DID whose key signed a challenge this server had
\* issued to this DID, and no challenge yields two, for any number of clients and
\* servers, whatever is lost, late, forwarded or restarted (session_handler).
THEOREM PossessionHolds == Spec => []ProvedPossession
BY ServerInvHolds, PTL DEF ServerInv

\* A server has a session for a DID only if a client of that DID dialled it,
\* also when endpoints forward each other's challenges (client.rs:36-37).
THEOREM DialledHolds == Spec => []SessionsOnlyWhereDialled
BY ServerInvHolds, PTL DEF ServerInv

-----------------------------------------------------------------------------
(* Tokens *)

\* An answer arrives only where it is awaited, and answers what was asked.
LEMMA Responded ==
    ASSUME TypeInv, CallInv, NEW r \in UnderWay, NEW a, Respond(r, a), NEW c \in Clients
    PROVE  \/ answer'[c] = answer[c]
           \/ /\ c = r.client /\ answer'[c] = a /\ pc[c] \in Awaiting
              /\ r.kind = Awaited(pc[c]) /\ r.op = ops[c]
              /\ r.kind = "whoami" => r.token = token[c]
BY DEF Respond, CallInv, TypeInv, NetworkType

\* Where the client's answer is reset.
LEMMA Reset ==
    ASSUME TypeInv, NEW c \in Clients, answer' = [answer EXCEPT ![c] = NoAnswer]
    PROVE  /\ answer'[c] = NoAnswer /\ answer'[c].status = "none" /\ answer'[c].token = NoToken
           /\ \A d \in Clients \ {c} : answer'[d] = answer[d]
BY Values DEF TypeInv, NetworkType

\* A request being handled was sent by a client that dialled this server.
LEMMA HandledWhereDialled ==
    ASSUME TypeInv, CallInv, SignedInv, ServerInv, NEW s \in Servers, NEW r \in handling[s]
    PROVE  r \in UnderWay /\ r.kind = "session" /\ r.client \in Clients /\ Base[r.client] = s
<1>1. r \in UnderWay /\ r.kind = "session" /\ r.client \in Clients
  BY DEF UnderWay, CallInv, TypeInv, ServerType, Requests
<1>2. r.message.origin = Base[r.client]
  BY <1>1 DEF SignedInv
<1> DEFINE i == [server |-> s, nonce |-> r.message.nonce, did |-> Signer[r.client]]
<1>3. r.message = build_message(s, i)
  BY DEF ServerInv, IssuedInv
<1>4. r.message.origin = s
  BY <1>3 DEF build_message
<1> QED
  BY <1>1, <1>2, <1>4

\* Nobody is given a token.
LEMMA TokenKept ==
    ASSUME TokenInv, UNCHANGED <<token, minted, tokens>>, tokens \in Nat,
           \A c \in Clients :
              /\ answer'[c].token \in {answer[c].token, NoToken}
              /\ pc'[c] = "posting" /\ answer'[c].status = "ok" =>
                    pc[c] = "posting" /\ answer'[c] = answer[c]
    PROVE  TokenInv'
<1>1. \A c \in Clients :
          /\ token'[c] <= tokens' /\ answer'[c].token <= tokens'
          /\ token'[c] # NoToken => MintedFor(c, token[c])'
          /\ answer'[c].token # NoToken => MintedFor(c, answer[c].token)'
          /\ pc'[c] = "posting" /\ answer'[c].status = "ok" => answer'[c].token # NoToken
          /\ answer'[c].token # NoToken => \A d \in Clients : token'[d] # answer'[c].token
  BY DEF TokenInv, MintedFor, NoToken
<1>2. \A c, d \in Clients : c # d =>
          /\ token'[c] # NoToken => token'[c] # token'[d]
          /\ answer'[c].token # NoToken => answer'[c].token # answer'[d].token
  BY DEF TokenInv
<1> QED
  BY <1>1, <1>2 DEF TokenInv

\* authenticate returns: the token moves from the answer to the AuthSession.
LEMMA TokenInvLoggedIn ==
    ASSUME TypeInv, TokenInv, NEW c \in Clients, LoggedIn(c)
    PROVE  TokenInv'
<1>1. /\ token'[c] = answer[c].token /\ \A d \in Clients \ {c} : token'[d] = token[d]
      /\ UNCHANGED <<minted, tokens>>
  BY DEF LoggedIn, TypeInv, ClientType, server, history
<1>2. answer' = [answer EXCEPT ![c] = NoAnswer]
  BY DEF LoggedIn, Use, Dispatch, Finish
<1>3. /\ answer'[c].status = "none" /\ answer'[c].token = NoToken
      /\ \A d \in Clients \ {c} : answer'[d] = answer[d]
  BY <1>2, Reset
<1>4. \A d \in Clients \ {c} : pc'[d] = pc[d]
  BY DEF LoggedIn, Goto, Finish, TypeInv, ClientType
<1>5. ASSUME NEW d \in Clients
      PROVE  /\ token'[d] <= tokens' /\ answer'[d].token <= tokens'
             /\ token'[d] # NoToken => MintedFor(d, token[d])'
             /\ answer'[d].token # NoToken => MintedFor(d, answer[d].token)'
             /\ pc'[d] = "posting" /\ answer'[d].status = "ok" => answer'[d].token # NoToken
             /\ answer'[d].token # NoToken => \A e \in Clients : token'[e] # answer'[d].token
  <2>1. CASE d = c
    BY <1>1, <1>3, <2>1 DEF TokenInv, MintedFor, NoToken, TypeInv, ServerType
  <2>2. CASE d # c
    BY <1>1, <1>3, <1>4, <2>2 DEF TokenInv, MintedFor
  <2> QED
    BY <2>1, <2>2
<1>6. ASSUME NEW d \in Clients, NEW e \in Clients, d # e
      PROVE  /\ token'[d] # NoToken => token'[d] # token'[e]
             /\ answer'[d].token # NoToken => answer'[d].token # answer'[e].token
  BY <1>1, <1>3, <1>6 DEF TokenInv
<1> QED
  BY <1>1, <1>5, <1>6 DEF TokenInv

\* A session is minted: its token is new, and at most one client is told.
LEMMA TokenInvMintSession ==
    ASSUME TypeInv, CallInv, SignedInv, ServerInv, TokenInv, NEW s \in Servers, NEW r \in handling[s],
           MintSession(s, r)
    PROVE  TokenInv'
<1> DEFINE k == tokens + 1
           m == [server |-> s, did |-> Signer[r.client], token |-> k, nonce |-> r.message.nonce]
           a == [NoAnswer EXCEPT !.status = "ok", !.token = k]
<1>1. tokens \in Nat /\ k \in Nat /\ k > tokens /\ k # NoToken
  BY DEF TypeInv, ServerType, NoToken
<1>2. /\ UNCHANGED <<token, pc>> /\ tokens' = k /\ minted' = minted \cup {m} /\ Respond(r, a)
  BY DEF MintSession, client
<1>3. a.token = k
  BY <1>1, AnswerOf, Values
<1>4. r \in UnderWay /\ r.client \in Clients /\ Base[r.client] = s
  BY HandledWhereDialled
<1>5. \E x \in minted' : x.token = k /\ x.did = Signer[r.client] /\ x.server = Base[r.client]
  <2>1. m.token = k /\ m.did = Signer[r.client] /\ m.server = s
    OBVIOUS
  <2> HIDE DEF m, k
  <2> QED
    BY <1>2, <1>4, <2>1
<1>6. \A x \in minted : x.token \in Nat /\ x.token <= tokens
  BY DEF TypeInv, ServerType, TokenInv
<1>7. \A c \in Clients : /\ token[c] \in Nat /\ token[c] <= tokens
                         /\ answer[c].token \in Nat /\ answer[c].token <= tokens
  BY DEF TypeInv, ClientType, NetworkType, Answers, TokenInv
<1>8. \A c \in Clients : answer'[c] = answer[c] \/ (c = r.client /\ answer'[c].token = k)
  BY <1>2, <1>3, <1>4, Responded
<1>9. m.token = k
  OBVIOUS
<1> HIDE DEF k, m, a
<1>10. \A x \in minted' : x.token <= tokens'
  BY <1>1, <1>2, <1>6, <1>9
<1>11. ASSUME NEW c \in Clients
       PROVE  /\ token'[c] <= tokens' /\ answer'[c].token <= tokens'
              /\ token'[c] # NoToken => MintedFor(c, token[c])'
              /\ answer'[c].token # NoToken => MintedFor(c, answer[c].token)'
              /\ pc'[c] = "posting" /\ answer'[c].status = "ok" => answer'[c].token # NoToken
              /\ answer'[c].token # NoToken => \A e \in Clients : token'[e] # answer'[c].token
  <2>1. token'[c] <= tokens' /\ answer'[c].token <= tokens'
    BY <1>1, <1>2, <1>7, <1>8
  <2>2. token'[c] # NoToken => MintedFor(c, token[c])'
    BY <1>2 DEF TokenInv, MintedFor
  <2>3. CASE answer'[c] = answer[c]
    BY <1>2, <2>1, <2>2, <2>3 DEF TokenInv, MintedFor
  <2>4. CASE c = r.client /\ answer'[c].token = k
    <3>1. \A e \in Clients : token'[e] # k
      BY <1>1, <1>2, <1>7
    <3> QED
      BY <1>1, <1>5, <2>1, <2>2, <2>4, <3>1 DEF MintedFor
  <2> QED
    BY <1>8, <2>3, <2>4
<1>12. ASSUME NEW c \in Clients, NEW d \in Clients, c # d
       PROVE  /\ token'[c] # NoToken => token'[c] # token'[d]
              /\ answer'[c].token # NoToken => answer'[c].token # answer'[d].token
  <2>1. answer[c].token # k /\ answer[d].token # k
    BY <1>1, <1>7
  <2> QED
    BY <1>2, <1>8, <1>12, <2>1 DEF TokenInv
<1> QED
  BY <1>10, <1>11, <1>12 DEF TokenInv

\* Every step keeps the ownership of tokens: a minted token is fresh, is answered
\* on one connection, and becomes the token of the client that waits there.
LEMMA TokenInvHolds == Spec => []TokenInv
<1>1. Init => TokenInv
  BY Values DEF Init, TokenInv, NoToken
<1>2. TypeInv /\ CallInv /\ SignedInv /\ ServerInv /\ TokenInv /\ [Next]_vars => TokenInv'
  <2> SUFFICES ASSUME TypeInv, CallInv, SignedInv, ServerInv, TokenInv, [Next]_vars PROVE TokenInv'
    OBVIOUS
  <2>0. tokens \in Nat
    BY DEF TypeInv, ServerType
  <2>a. ASSUME NEW c \in Clients, NEW label, Goto(c, label), answer' = [answer EXCEPT ![c] = NoAnswer],
               UNCHANGED <<token, server, minted>>
        PROVE  TokenInv'
    <3>1. \A d \in Clients \ {c} : pc'[d] = pc[d]
      BY <2>a DEF Goto, TypeInv, ClientType
    <3> QED
      BY <2>0, <2>a, <3>1, Reset, TokenKept DEF server
  <2>b. ASSUME NEW c \in Clients, Finish(c), UNCHANGED <<token, server, minted>> PROVE TokenInv'
    BY <2>a, <2>b DEF Finish
  <2>c. ASSUME NEW r \in UnderWay, NEW a, Respond(r, a), a.token = NoToken,
               a.status = "ok" => r.kind # "session", UNCHANGED <<client, minted, tokens>>
        PROVE  TokenInv'
    <3>1. Awaited("posting") = "session"
      BY DEF Awaited
    <3>2. \A c \in Clients :
              /\ answer'[c].token \in {answer[c].token, NoToken}
              /\ pc'[c] = "posting" /\ answer'[c].status = "ok" =>
                    pc[c] = "posting" /\ answer'[c] = answer[c]
      BY <2>c, <3>1, Responded DEF client
    <3> QED
      BY <2>0, <2>c, <3>2, TokenKept DEF client
  <2>d. ASSUME UNCHANGED <<client, answer, minted, tokens>> PROVE TokenInv'
    BY <2>0, <2>d, TokenKept DEF client
  <2>e. \A r \in requests : r \in UnderWay
    BY DEF UnderWay
  <2>1. ASSUME NEW c \in Clients, Login(c) \/ Send(c) PROVE TokenInv'
    BY <2>1, <2>a DEF Login, Send, Ask, Use, Dispatch, history
  <2>2. ASSUME NEW c \in Clients, Challenged(c) PROVE TokenInv'
    BY <2>2, <2>a, <2>b DEF Challenged, history
  <2>3. ASSUME NEW c \in Clients, Sign(c) PROVE TokenInv'
    BY <2>3, <2>a DEF Sign, Dispatch
  <2>4. ASSUME NEW c \in Clients, FirstAnswered(c) PROVE TokenInv'
    BY <2>4, <2>a, <2>b DEF FirstAnswered, Ask, Dispatch
  <2>5. ASSUME NEW c \in Clients,
               SignFails(c) \/ LoginRefused(c) \/ SecondAnswered(c) \/ HttpFails(c)
        PROVE  TokenInv'
    BY <2>5, <2>b DEF SignFails, LoginRefused, SecondAnswered, HttpFails, history
  <2>6. ASSUME NEW s \in Servers, NEW r \in requests, RefuseChallenge(s, r) PROVE TokenInv'
    BY <2>6, <2>c, <2>e, Values DEF RefuseChallenge, server, history
  <2>7. ASSUME NEW s \in Servers, NEW r \in requests, ServeChallenge(s, r) PROVE TokenInv'
    <3> DEFINE ch == [nonce |-> nonces + 1, did |-> Signer[r.client]]
               a == [NoAnswer EXCEPT !.status = "ok", !.message = build_message(s, ch)]
    <3>1. Respond(r, a) /\ r.kind = "challenge" /\ UNCHANGED <<client, minted, tokens>>
      BY <2>7 DEF ServeChallenge
    <3>2. a.token = NoToken
      BY DEF NoAnswer
    <3> HIDE DEF a
    <3> QED
      BY <2>c, <2>e, <3>1, <3>2
  <2>8. ASSUME NEW s \in Servers, NEW r \in requests, ServeSession(s, r) PROVE TokenInv'
    <3>1. answer' = answer \/ \E st \in {"error", "unauthorized"} : Respond(r, Failed(st))
      BY <2>8 DEF ServeSession
    <3>2. UNCHANGED <<client, minted, tokens>>
      BY <2>8 DEF ServeSession, history
    <3> QED
      BY <2>c, <2>d, <2>e, <3>1, <3>2, Values
  <2>9. ASSUME NEW s \in Servers, NEW r \in requests, ServeWhoami(s, r) PROVE TokenInv'
    <3>1. \E st \in {"ok", "unauthorized"} : Respond(r, Failed(st))
      BY <2>9 DEF ServeWhoami
    <3>2. UNCHANGED <<client, minted, tokens>> /\ r.kind # "session"
      BY <2>9 DEF ServeWhoami, server
    <3> QED
      BY <2>c, <2>e, <3>1, <3>2, Values
  <2>10. ASSUME NEW s \in Servers, NEW r \in requests, NEW ch \in challenges[s], Forward(s, r, ch)
         PROVE  TokenInv'
    <3> DEFINE a == [NoAnswer EXCEPT !.status = "ok", !.message = build_message(s, ch)]
    <3>1. Respond(r, a) /\ r.kind = "challenge" /\ UNCHANGED <<client, minted, tokens>>
      BY <2>10 DEF Forward, server, history
    <3>2. a.token = NoToken
      BY DEF NoAnswer
    <3> HIDE DEF a
    <3> QED
      BY <2>c, <2>e, <3>1, <3>2
  <2>11. ASSUME NEW s \in Servers, NEW r \in handling[s], MintFails(s, r) PROVE TokenInv'
    BY <2>11, <2>c, HandledWhereDialled, Values DEF MintFails, history
  <2>12. ASSUME NEW s \in Servers,
                \/ \E ch \in challenges[s] : ForgetChallenge(s, ch)
                \/ \E k \in sessions[s] : ForgetSession(s, k)
                \/ Restart(s)
         PROVE  TokenInv'
    BY <2>12, <2>d DEF ForgetChallenge, ForgetSession, Restart, history
  <2>13. ASSUME NEW r \in requests, Lose(r) PROVE TokenInv'
    BY <2>13, <2>d DEF Lose, server, history
  <2>14. CASE UNCHANGED vars
    BY <2>14, <2>d DEF vars, server, history
  <2> QED
    BY <2>1, <2>2, <2>3, <2>4, <2>5, <2>6, <2>7, <2>8, <2>9, <2>10, <2>11, <2>12, <2>13, <2>14,
       TokenInvLoggedIn, TokenInvMintSession DEF Next, React, Serve, Trouble
<1> QED
  BY <1>1, <1>2, TypeInvHolds, CallInvHolds, SignedInvHolds, ServerInvHolds, PTL DEF Spec

\* The token of an AuthSession was minted for its own DID by the server it dials,
\* and nobody else holds it, for any number of clients that share a DID, a server
\* or a key.
THEOREM TokenHolds == Spec => []TokenIsOwn
<1>1. TokenInv => TokenIsOwn
  BY DEF TokenInv, TokenIsOwn, MintedFor
<1> QED
  BY <1>1, TokenInvHolds, PTL

-----------------------------------------------------------------------------
(* Executions *)

\* Nothing is executed and no request behind a token is new.
LEMMA OnceKept ==
    ASSUME OnceInv, UNCHANGED <<executed, ops>>,
           \A r \in requests' : r.kind = "whoami" => r \in requests,
           \A c \in Clients :
              /\ pc'[c] # "idle" => pc[c] # "idle"
              /\ pc'[c] \in {"asking", "signing", "posting"} =>
                    \/ pc[c] \in {"asking", "signing", "posting"}
                    \/ pc[c] = "first" /\ answer[c].status = "unauthorized"
              /\ pc'[c] = "first" /\ answer'[c].status = "unauthorized" =>
                    pc[c] = "first" /\ answer[c].status = "unauthorized"
    PROVE  OnceInv'
<1>1. \A c \in Clients : \A o : Untried(c, o) => Untried(c, o)'
  BY DEF Untried
<1>2. ASSUME NEW c \in Clients
      PROVE  /\ executed'[c] \in [1 .. MaxOps[c] -> Nat]
             /\ ops'[c] <= MaxOps[c]
             /\ pc'[c] # "idle" => ops'[c] # 0
             /\ \A o \in 1 .. MaxOps[c] : executed'[c][o] <= 1
             /\ \A o \in 1 .. MaxOps[c] : o > ops'[c] => Untried(c, o)'
             /\ pc'[c] \in {"asking", "signing", "posting"} => Untried(c, ops[c])'
             /\ pc'[c] = "first" /\ answer'[c].status = "unauthorized" => Untried(c, ops[c])'
  BY <1>1 DEF OnceInv
<1> QED
  BY <1>2 DEF OnceInv

\* A request behind a token is sent for a call that has been tried neither by
\* a request in flight nor by one executed.
LEMMA OnceUsed ==
    ASSUME TypeInv, OnceInv, NEW c \in Clients, NEW o \in 1 .. MaxOps[c], NEW k,
           NEW label \in {"first", "second"}, Goto(c, label), Use(c, o, k), Untried(c, o),
           executed' = executed, ops'[c] = o, o >= ops[c],
           \A d \in Clients \ {c} : ops'[d] = ops[d]
    PROVE  OnceInv'
<1> USE LoginAssumptions
<1> DEFINE new == [client |-> c, call |-> calls[c] + 1, op |-> o, kind |-> "whoami",
                   message |-> NoMessage, token |-> k]
<1>1. requests' = requests \cup {new}
  BY DEF Use, Dispatch
<1>2. new.client = c /\ new.op = o /\ new.kind = "whoami"
  OBVIOUS
<1>3. /\ answer'[c].status = "none" /\ \A d \in Clients \ {c} : answer'[d] = answer[d]
      /\ pc'[c] = label /\ \A d \in Clients \ {c} : pc'[d] = pc[d]
  BY Reset DEF Use, Dispatch, Goto, TypeInv, ClientType
<1> HIDE DEF new
<1>4. \A d \in Clients : \A p : Untried(d, p) /\ (d # c \/ p # o) => Untried(d, p)'
  BY <1>1, <1>2 DEF Untried
<1>5. ASSUME NEW d \in Clients
      PROVE  /\ executed'[d] \in [1 .. MaxOps[d] -> Nat]
             /\ ops'[d] <= MaxOps[d]
             /\ pc'[d] # "idle" => ops'[d] # 0
             /\ \A p \in 1 .. MaxOps[d] : executed'[d][p] <= 1
             /\ \A p \in 1 .. MaxOps[d] : p > ops'[d] => Untried(d, p)'
             /\ pc'[d] \in {"asking", "signing", "posting"} => Untried(d, ops[d])'
             /\ pc'[d] = "first" /\ answer'[d].status = "unauthorized" => Untried(d, ops[d])'
  <2>1. CASE d # c
    BY <1>3, <1>4, <2>1 DEF OnceInv
  <2>2. CASE d = c
    <3>1. ops[c] \in Nat /\ o \in Nat /\ o <= MaxOps[c] /\ o # 0 /\ MaxOps[c] \in Nat
      BY DEF TypeInv, ClientType
    <3>2. \A p \in 1 .. MaxOps[c] : p > o => Untried(c, p)'
      BY <1>4, <3>1 DEF OnceInv
    <3> QED
      BY <1>3, <2>2, <3>1, <3>2 DEF OnceInv
  <2> QED
    BY <2>1, <2>2
<1>6. \A r \in requests' : r.kind = "whoami" =>
          r.op \in 1 .. MaxOps[r.client] /\ executed'[r.client][r.op] = 0
  BY <1>1, <1>2 DEF OnceInv, Untried
<1>7. \A r, q \in requests' :
          r.kind = "whoami" /\ q.kind = "whoami" /\ r.client = q.client /\ r.op = q.op => r = q
  BY <1>1, <1>2 DEF OnceInv, Untried
<1> QED
  BY <1>5, <1>6, <1>7 DEF OnceInv

\* A handler behind a token lets the request through or refuses it.
LEMMA OnceServed ==
    ASSUME TypeInv, CallInv, OnceInv, NEW s \in Servers, NEW r \in requests, ServeWhoami(s, r)
    PROVE  OnceInv'
<1> USE LoginAssumptions
<1> DEFINE c == r.client
           o == r.op
<1>1. /\ UNCHANGED client /\ requests' = requests \ {r} /\ r.kind = "whoami"
      /\ c \in Clients /\ r \in UnderWay
  BY DEF ServeWhoami, UnderWay, TypeInv, NetworkType, Requests
<1>2. o \in 1 .. MaxOps[c] /\ executed[c][o] = 0
  BY <1>1 DEF OnceInv
<1>3. \A q \in requests' : ~(q.kind = "whoami" /\ q.client = c /\ q.op = o)
  BY <1>1 DEF OnceInv
<1>4. \/ executed' = executed
      \/ executed' = [executed EXCEPT ![c][o] = @ + 1]
  BY DEF ServeWhoami
<1>5. /\ executed' = [d \in Clients |-> executed'[d]]
      /\ \A d \in Clients : executed'[d] \in [1 .. MaxOps[d] -> Nat]
      /\ \A d \in Clients : \A p \in 1 .. MaxOps[d] :
             executed'[d][p] = executed[d][p] \/ (d = c /\ p = o /\ executed'[d][p] = 1)
  <2>1. CASE executed' = executed
    BY <2>1 DEF OnceInv
  <2>2. CASE executed' = [executed EXCEPT ![c][o] = @ + 1]
    <3>1. executed[c] \in [1 .. MaxOps[c] -> Nat]
      BY <1>1 DEF OnceInv
    <3>2. executed' = [d \in Clients |-> executed'[d]] /\ \A d \in Clients \ {c} : executed'[d] = executed[d]
      BY <2>2 DEF OnceInv
    <3>3. executed'[c] = [executed[c] EXCEPT ![o] = executed[c][o] + 1]
      BY <1>1, <2>2 DEF OnceInv
    <3>4. executed'[c] = [executed[c] EXCEPT ![o] = 1]
      BY <1>2, <3>3
    <3>5. ASSUME NEW S, NEW f \in [S -> Nat], NEW x \in S
          PROVE  /\ [f EXCEPT ![x] = 1] \in [S -> Nat]
                 /\ \A p \in S : [f EXCEPT ![x] = 1][p] = f[p] \/ (p = x /\ [f EXCEPT ![x] = 1][p] = 1)
      OBVIOUS
    <3>6. /\ executed'[c] \in [1 .. MaxOps[c] -> Nat]
          /\ \A p \in 1 .. MaxOps[c] :
                 executed'[c][p] = executed[c][p] \/ (p = o /\ executed'[c][p] = 1)
      BY <1>2, <3>1, <3>4, <3>5
    <3>7. ASSUME NEW d \in Clients
          PROVE  /\ executed'[d] \in [1 .. MaxOps[d] -> Nat]
                 /\ \A p \in 1 .. MaxOps[d] :
                        executed'[d][p] = executed[d][p] \/ (d = c /\ p = o /\ executed'[d][p] = 1)
      BY <3>2, <3>6 DEF OnceInv
    <3> QED
      BY <3>2, <3>7
  <2> QED
    BY <1>4, <2>1, <2>2
<1>6. \A d \in Clients : \A p \in 1 .. MaxOps[d] : Untried(d, p) => Untried(d, p)'
  BY <1>1, <1>5 DEF Untried
<1>7. pc[c] = "first" /\ answer'[c] # answer[c] /\ answer'[c].status = "unauthorized"
        => Untried(c, ops[c])'
  <2> SUFFICES ASSUME pc[c] = "first", answer'[c] # answer[c], answer'[c].status = "unauthorized"
               PROVE  Untried(c, ops[c])'
    OBVIOUS
  <2> DEFINE known == \E k \in sessions[s] : k.token = r.token
             a == Failed(IF known THEN "ok" ELSE "unauthorized")
  <2>1. Respond(r, a)
    BY DEF ServeWhoami
  <2>2. answer'[c] = a /\ o = ops[c]
    BY <1>1, <2>1, Responded
  <2>3. ~known
    BY <2>2, Values
  <2>4. executed' = executed
    BY <2>3 DEF ServeWhoami
  <2>5. ops' = ops
    BY <1>1 DEF client
  <2> QED
    BY <1>2, <1>3, <2>2, <2>4, <2>5 DEF Untried
<1>8. \A d \in Clients : answer'[d] = answer[d] \/ d = c
  BY <1>1, Responded DEF ServeWhoami
<1> HIDE DEF c, o
<1>9. ASSUME NEW d \in Clients
      PROVE  /\ ops'[d] <= MaxOps[d]
             /\ pc'[d] # "idle" => ops'[d] # 0
             /\ \A p \in 1 .. MaxOps[d] : executed'[d][p] <= 1
             /\ \A p \in 1 .. MaxOps[d] : p > ops'[d] => Untried(d, p)'
             /\ pc'[d] \in {"asking", "signing", "posting"} => Untried(d, ops[d])'
             /\ pc'[d] = "first" /\ answer'[d].status = "unauthorized" => Untried(d, ops[d])'
  <2>1. pc'[d] = pc[d] /\ ops'[d] = ops[d] /\ ops[d] \in Nat /\ MaxOps[d] \in Nat
    BY <1>1 DEF client, TypeInv, ClientType
  <2>2. ops[d] <= MaxOps[d] /\ (pc[d] # "idle" => ops[d] # 0)
    BY DEF OnceInv
  <2>3. pc[d] # "idle" => ops[d] \in 1 .. MaxOps[d]
    BY <2>1, <2>2
  <2>4. \A p \in 1 .. MaxOps[d] : executed'[d][p] <= 1
    BY <1>5 DEF OnceInv
  <2>5. \A p \in 1 .. MaxOps[d] : p > ops'[d] => Untried(d, p)'
    BY <1>6, <2>1 DEF OnceInv
  <2>6. pc'[d] \in {"asking", "signing", "posting"} => Untried(d, ops[d])'
    <3>1. ASSUME pc'[d] \in {"asking", "signing", "posting"}
          PROVE  Untried(d, ops[d]) /\ ops[d] \in 1 .. MaxOps[d]
      BY <2>1, <2>3, <3>1 DEF OnceInv
    <3> QED
      BY <1>6, <2>1, <3>1 DEF Untried
  <2>7. pc'[d] = "first" /\ answer'[d].status = "unauthorized" => Untried(d, ops[d])'
    <3>1. CASE answer'[d] = answer[d]
      <4>1. ASSUME pc'[d] = "first", answer'[d].status = "unauthorized"
            PROVE  Untried(d, ops[d]) /\ ops[d] \in 1 .. MaxOps[d]
        BY <2>1, <2>3, <3>1, <4>1 DEF OnceInv
      <4> QED
        BY <1>6, <2>1, <4>1 DEF Untried
    <3>2. CASE answer'[d] # answer[d]
      BY <1>7, <1>8, <2>1, <3>2
    <3> QED
      BY <3>1, <3>2
  <2> QED
    BY <2>1, <2>2, <2>4, <2>5, <2>6, <2>7
<1>10. \A q \in requests' : q.kind = "whoami" =>
          q.op \in 1 .. MaxOps[q.client] /\ executed'[q.client][q.op] = 0
  <2>1. ASSUME NEW q \in requests', q.kind = "whoami"
        PROVE  q.op \in 1 .. MaxOps[q.client] /\ executed'[q.client][q.op] = 0
    <3>1. q \in requests /\ q.client \in Clients /\ ~(q.client = c /\ q.op = o)
      BY <1>1, <1>3, <2>1 DEF TypeInv, NetworkType, Requests
    <3>2. q.op \in 1 .. MaxOps[q.client] /\ executed[q.client][q.op] = 0
      BY <2>1, <3>1 DEF OnceInv
    <3> QED
      BY <1>5, <3>1, <3>2
  <2> QED
    BY <2>1
<1>11. \A p, q \in requests' :
          p.kind = "whoami" /\ q.kind = "whoami" /\ p.client = q.client /\ p.op = q.op => p = q
  BY <1>1 DEF OnceInv
<1> QED
  BY <1>5, <1>9, <1>10, <1>11 DEF OnceInv

\* Every step of send, and of whatever answers it, keeps OnceInv: a request is
\* sent again only after its first attempt was refused.
LEMMA OnceInvHolds == Spec => []OnceInv
<1> USE LoginAssumptions
<1>1. Init => OnceInv
  BY DEF Init, OnceInv, Untried
<1>2. TypeInv /\ CallInv /\ OnceInv /\ [Next]_vars => OnceInv'
  <2> SUFFICES ASSUME TypeInv, CallInv, OnceInv, [Next]_vars PROVE OnceInv'
    OBVIOUS
  <2>a. ASSUME NEW c \in Clients, Finish(c), UNCHANGED <<executed, ops>> PROVE OnceInv'
    <3>1. /\ pc'[c] = "idle"
          /\ \A d \in Clients \ {c} : pc'[d] = pc[d] /\ answer'[d] = answer[d]
      BY <2>a, Reset DEF Finish, Goto, TypeInv, ClientType
    <3> QED
      BY <2>a, <3>1, OnceKept DEF Finish
  <2>b. ASSUME NEW r \in UnderWay, NEW a, Respond(r, a), r.kind = "whoami" => a.status # "unauthorized",
               UNCHANGED <<client, executed>>, requests' \subseteq requests
        PROVE  OnceInv'
    <3>1. Awaited("first") = "whoami"
      BY DEF Awaited
    <3>2. \A c \in Clients : pc[c] = "first" /\ answer'[c].status = "unauthorized" =>
                                answer[c].status = "unauthorized"
      BY <2>b, <3>1, Responded
    <3> QED
      BY <2>b, <3>2, OnceKept DEF client
  <2>c. ASSUME UNCHANGED <<client, answer, executed>>, requests' \subseteq requests PROVE OnceInv'
    BY <2>c, OnceKept DEF client
  <2>d. \A r \in requests : r \in UnderWay
    BY DEF UnderWay
  <2>1. ASSUME NEW c \in Clients, Login(c) PROVE OnceInv'
    <3> DEFINE o == ops[c] + 1
    <3>1. ops[c] \in Nat /\ MaxOps[c] \in Nat /\ ops[c] < MaxOps[c]
      BY <2>1 DEF Login, TypeInv, ClientType
    <3>2. o \in 1 .. MaxOps[c] /\ Untried(c, o)
      BY <3>1 DEF OnceInv
    <3>3. /\ ops'[c] = o /\ \A d \in Clients \ {c} : ops'[d] = ops[d]
          /\ pc'[c] = "asking" /\ \A d \in Clients \ {c} : pc'[d] = pc[d]
          /\ \A d \in Clients \ {c} : answer'[d] = answer[d]
      BY <2>1, Reset DEF Login, Goto, Ask, Dispatch, TypeInv, ClientType
    <3>4. executed' = executed /\ \A r \in requests' : r.kind = "whoami" => r \in requests
      BY <2>1 DEF Login, Ask, Dispatch, history
    <3>5. \A d \in Clients : \A p : Untried(d, p) => Untried(d, p)'
      BY <3>4 DEF Untried
    <3>6. ASSUME NEW d \in Clients
          PROVE  /\ executed'[d] \in [1 .. MaxOps[d] -> Nat]
                 /\ ops'[d] <= MaxOps[d]
                 /\ pc'[d] # "idle" => ops'[d] # 0
                 /\ \A p \in 1 .. MaxOps[d] : executed'[d][p] <= 1
                 /\ \A p \in 1 .. MaxOps[d] : p > ops'[d] => Untried(d, p)'
                 /\ pc'[d] \in {"asking", "signing", "posting"} => Untried(d, ops[d])'
                 /\ pc'[d] = "first" /\ answer'[d].status = "unauthorized" => Untried(d, ops[d])'
      <4>1. CASE d = c
        <5>1. \A p \in 1 .. MaxOps[c] : p > o => Untried(c, p)'
          BY <3>1, <3>5 DEF OnceInv
        <5>2. Untried(c, ops[c])'
          BY <3>2, <3>3, <3>5 DEF Untried
        <5> QED
          BY <3>1, <3>2, <3>3, <3>4, <4>1, <5>1, <5>2 DEF OnceInv
      <4>2. CASE d # c
        <5>1. ops'[d] = ops[d] /\ pc'[d] = pc[d] /\ answer'[d] = answer[d]
          BY <3>3, <4>2
        <5> QED
          BY <3>4, <3>5, <5>1 DEF OnceInv, Untried
      <4> QED
        BY <4>1, <4>2
    <3> QED
      BY <3>4, <3>6 DEF OnceInv
  <2>2. ASSUME NEW c \in Clients, Send(c) PROVE OnceInv'
    <3> DEFINE o == ops[c] + 1
    <3>1. ops[c] \in Nat /\ MaxOps[c] \in Nat /\ ops[c] < MaxOps[c]
      BY <2>2 DEF Send, TypeInv, ClientType
    <3>2. o \in 1 .. MaxOps[c] /\ Untried(c, o) /\ o >= ops[c]
      BY <3>1 DEF OnceInv
    <3>3. ops'[c] = o /\ \A d \in Clients \ {c} : ops'[d] = ops[d]
      BY <2>2 DEF Send, TypeInv, ClientType
    <3> QED
      BY <2>2, <3>2, <3>3, OnceUsed DEF Send
  <2>3. ASSUME NEW c \in Clients, Challenged(c) PROVE OnceInv'
    <3>1. CASE Bound(c, answer[c].message)
      <4>1. /\ pc'[c] = "signing" /\ pc[c] = "asking"
            /\ \A d \in Clients \ {c} : pc'[d] = pc[d] /\ answer'[d] = answer[d]
        BY <2>3, <3>1, Reset DEF Challenged, Goto, TypeInv, ClientType
      <4> QED
        BY <2>3, <3>1, <4>1, OnceKept DEF Challenged, history
    <3>2. CASE ~Bound(c, answer[c].message)
      BY <2>3, <2>a, <3>2 DEF Challenged, history
    <3> QED
      BY <3>1, <3>2
  <2>4. ASSUME NEW c \in Clients, Sign(c) PROVE OnceInv'
    <3>1. /\ pc'[c] = "posting" /\ pc[c] = "signing"
          /\ \A d \in Clients \ {c} : pc'[d] = pc[d] /\ answer'[d] = answer[d]
      BY <2>4, Reset DEF Sign, Goto, Dispatch, TypeInv, ClientType
    <3>2. \A r \in requests' : r.kind = "whoami" => r \in requests
      BY <2>4 DEF Sign, Dispatch
    <3> QED
      BY <2>4, <3>1, <3>2, OnceKept DEF Sign
  <2>5. ASSUME NEW c \in Clients, LoggedIn(c) PROVE OnceInv'
    <3>1. CASE retrying[c]
      <4>1. pc[c] = "posting" /\ ops' = ops /\ executed' = executed
        BY <2>5 DEF LoggedIn, history
      <4>2. ops[c] \in 1 .. MaxOps[c] /\ Untried(c, ops[c]) /\ ops[c] >= ops[c]
        BY <4>1 DEF OnceInv, TypeInv, ClientType
      <4> QED
        BY <2>5, <3>1, <4>1, <4>2, OnceUsed DEF LoggedIn
    <3>2. CASE ~retrying[c]
      BY <2>5, <2>a, <3>2 DEF LoggedIn, history
    <3> QED
      BY <3>1, <3>2
  <2>6. ASSUME NEW c \in Clients, FirstAnswered(c) PROVE OnceInv'
    <3>1. CASE answer[c].status = "unauthorized"
      <4>1. /\ pc'[c] = "asking" /\ pc[c] = "first"
            /\ \A d \in Clients \ {c} : pc'[d] = pc[d] /\ answer'[d] = answer[d]
        BY <2>6, <3>1, Reset DEF FirstAnswered, Goto, Ask, Dispatch, TypeInv, ClientType
      <4>2. \A r \in requests' : r.kind = "whoami" => r \in requests
        BY <2>6, <3>1 DEF FirstAnswered, Ask, Dispatch
      <4> QED
        BY <2>6, <3>1, <4>1, <4>2, OnceKept DEF FirstAnswered
    <3>2. CASE answer[c].status # "unauthorized"
      BY <2>6, <2>a, <3>2 DEF FirstAnswered
    <3> QED
      BY <3>1, <3>2
  <2>7. ASSUME NEW c \in Clients,
               SignFails(c) \/ LoginRefused(c) \/ SecondAnswered(c) \/ HttpFails(c)
        PROVE  OnceInv'
    BY <2>7, <2>a DEF SignFails, LoginRefused, SecondAnswered, HttpFails, history
  <2>8. ASSUME NEW s \in Servers, NEW r \in requests,
               \/ RefuseChallenge(s, r) \/ ServeChallenge(s, r)
               \/ \E ch \in challenges[s] : Forward(s, r, ch)
        PROVE  OnceInv'
    <3>1. \E a : Respond(r, a)
      BY <2>8 DEF RefuseChallenge, ServeChallenge, Forward
    <3>2. r.kind = "challenge" /\ UNCHANGED <<client, executed>> /\ requests' \subseteq requests
      BY <2>8 DEF RefuseChallenge, ServeChallenge, Forward, history
    <3> QED
      BY <2>b, <2>d, <3>1, <3>2
  <2>9. ASSUME NEW s \in Servers, NEW r \in requests, ServeSession(s, r) PROVE OnceInv'
    <3>1. answer' = answer \/ \E a : Respond(r, a)
      BY <2>9 DEF ServeSession
    <3>2. r.kind = "session" /\ UNCHANGED <<client, executed>> /\ requests' \subseteq requests
      BY <2>9 DEF ServeSession, history
    <3> QED
      BY <2>b, <2>c, <2>d, <3>1, <3>2
  <2>10. ASSUME NEW s \in Servers, NEW r \in handling[s], MintSession(s, r) \/ MintFails(s, r)
         PROVE  OnceInv'
    <3>1. \E a : Respond(r, a)
      BY <2>10 DEF MintSession, MintFails
    <3>2. UNCHANGED <<client, executed, requests>>
      BY <2>10 DEF MintSession, MintFails, history
    <3>3. r \in UnderWay /\ r.kind = "session"
      BY DEF UnderWay, CallInv
    <3> QED
      BY <2>b, <3>1, <3>2, <3>3
  <2>11. ASSUME NEW s \in Servers,
                \/ \E ch \in challenges[s] : ForgetChallenge(s, ch)
                \/ \E k \in sessions[s] : ForgetSession(s, k)
                \/ Restart(s)
         PROVE  OnceInv'
    BY <2>11, <2>c DEF ForgetChallenge, ForgetSession, Restart, history
  <2>12. ASSUME NEW r \in requests, Lose(r) PROVE OnceInv'
    BY <2>12, <2>c DEF Lose, history
  <2>13. CASE UNCHANGED vars
    BY <2>13, <2>c DEF vars, history
  <2> QED
    BY <2>1, <2>2, <2>3, <2>4, <2>5, <2>6, <2>7, <2>8, <2>9, <2>10, <2>11, <2>12, <2>13, OnceServed
    DEF Next, React, Serve, Trouble
<1> QED
  BY <1>1, <1>2, TypeInvHolds, CallInvHolds, PTL DEF Spec

\* The request of one send is let through at most once, for any number of
\* clients and calls, whatever is lost or late (client.rs, AuthSession::send).
THEOREM OnceHolds == Spec => []SendExecutesOnce
<1>1. OnceInv => SendExecutesOnce
  BY DEF OnceInv, SendExecutesOnce
<1> QED
  BY <1>1, OnceInvHolds, PTL

-----------------------------------------------------------------------------
(* Refusals *)

\* Servers may drop sessions, as long as they are counted as dropped.
LEMMA KeptUnlessDropped ==
    ASSUME TypeInv, KeptOrDropped, minted' = minted, forgotten \subseteq forgotten',
           \A s \in Servers : \A k \in sessions[s] : k \in sessions'[s] \/ k.token \in forgotten'
    PROVE  KeptOrDropped'
<1> SUFFICES ASSUME NEW m \in minted
             PROVE  m.token \in forgotten' \/ \E k \in sessions'[m.server] : k.token = m.token
  BY DEF KeptOrDropped
<1>1. m.server \in Servers
  BY DEF TypeInv, ServerType
<1> QED
  BY <1>1 DEF KeptOrDropped

\* A session leaves a store only by quota, expiry or restart, and each is recorded.
LEMMA KeptOrDroppedHolds == Spec => []KeptOrDropped
<1>1. Init => KeptOrDropped
  BY DEF Init, KeptOrDropped
<1>2. TypeInv /\ KeptOrDropped /\ [Next]_vars => KeptOrDropped'
  <2> SUFFICES ASSUME TypeInv, KeptOrDropped, [Next]_vars PROVE KeptOrDropped'
    OBVIOUS
  <2>1. CASE UNCHANGED <<sessions, minted, forgotten>>
    BY <2>1 DEF KeptOrDropped
  <2>2. ASSUME NEW c \in Clients, Login(c) \/ Send(c) \/ React(c) \/ SignFails(c) \/ HttpFails(c)
        PROVE  UNCHANGED <<sessions, minted, forgotten>>
    BY <2>2 DEF Login, Send, React, Challenged, Sign, LoggedIn, LoginRefused, FirstAnswered,
           SecondAnswered, SignFails, HttpFails, server, history
  <2>3. ASSUME NEW s \in Servers, NEW r \in requests,
               \/ RefuseChallenge(s, r) \/ ServeChallenge(s, r) \/ ServeSession(s, r)
               \/ ServeWhoami(s, r) \/ \E ch \in challenges[s] : Forward(s, r, ch)
        PROVE  UNCHANGED <<sessions, minted, forgotten>>
    BY <2>3 DEF RefuseChallenge, ServeChallenge, ServeSession, ServeWhoami, Forward, server, history
  <2>4. ASSUME NEW s \in Servers, NEW r \in handling[s], MintFails(s, r)
        PROVE  UNCHANGED <<sessions, minted, forgotten>>
    BY <2>4 DEF MintFails, history
  <2>5. ASSUME NEW s \in Servers, NEW r \in handling[s], MintSession(s, r) PROVE KeptOrDropped'
    <3> DEFINE d == Signer[r.client]
               mine == {k \in sessions[s] : k.did = d}
               gone == IF Cardinality(mine) < MaxPerDid THEN {}
                       ELSE {k \in mine : \A l \in mine : k.token <= l.token}
               new == [token |-> tokens + 1, did |-> d]
               m == [server |-> s, did |-> d, token |-> new.token, nonce |-> r.message.nonce]
    <3>1. /\ sessions' = [sessions EXCEPT ![s] = (@ \ gone) \cup {new}]
          /\ forgotten' = forgotten \cup {k.token : k \in gone}
          /\ minted' = minted \cup {m}
      BY <2>5 DEF MintSession
    <3>2. m.token = new.token /\ m.server = s
      OBVIOUS
    <3> HIDE DEF gone, new, m
    <3>3. \A t \in Servers : \A k \in sessions[t] : k \in sessions'[t] \/ k.token \in forgotten'
      BY <3>1 DEF TypeInv, ServerType
    <3>4. new \in sessions'[s]
      BY <3>1 DEF TypeInv, ServerType
    <3>5. \A x \in minted : x.server \in Servers
      BY DEF TypeInv, ServerType
    <3>6. ASSUME NEW x \in minted'
          PROVE  x.token \in forgotten' \/ \E k \in sessions'[x.server] : k.token = x.token
      <4>1. CASE x = m
        BY <3>2, <3>4, <4>1
      <4>2. CASE x \in minted
        BY <3>1, <3>3, <3>5, <4>2 DEF KeptOrDropped
      <4> QED
        BY <3>1, <4>1, <4>2
    <3> QED
      BY <3>6 DEF KeptOrDropped
  <2>6. ASSUME NEW s \in Servers, NEW k \in sessions[s], ForgetSession(s, k) PROVE KeptOrDropped'
    <3>1. \A t \in Servers : \A x \in sessions[t] : x \in sessions'[t] \/ x.token \in forgotten'
      BY <2>6 DEF ForgetSession, TypeInv, ServerType
    <3> QED
      BY <2>6, <3>1, KeptUnlessDropped DEF ForgetSession
  <2>7. ASSUME NEW s \in Servers, Restart(s) PROVE KeptOrDropped'
    <3>1. \A t \in Servers : \A x \in sessions[t] : x \in sessions'[t] \/ x.token \in forgotten'
      BY <2>7 DEF Restart, TypeInv, ServerType
    <3> QED
      BY <2>7, <3>1, KeptUnlessDropped DEF Restart
  <2>8. ASSUME NEW s \in Servers, \E ch \in challenges[s] : ForgetChallenge(s, ch)
        PROVE  UNCHANGED <<sessions, minted, forgotten>>
    BY <2>8 DEF ForgetChallenge, history
  <2>9. ASSUME NEW r \in requests, Lose(r) PROVE UNCHANGED <<sessions, minted, forgotten>>
    BY <2>9 DEF Lose, server, history
  <2>10. CASE UNCHANGED vars
    BY <2>1, <2>10 DEF vars, server, history
  <2> QED
    BY <2>1, <2>2, <2>3, <2>4, <2>5, <2>6, <2>7, <2>8, <2>9, <2>10 DEF Next, Serve, Trouble
<1> QED
  BY <1>1, <1>2, TypeInvHolds, PTL DEF Spec

\* A client that the step does not concern, or that merely stops being refused.
LEMMA RefusalsKept ==
    ASSUME NEW c \in Clients, Refusals(c), forgotten \subseteq forgotten',
           pc'[c] = pc[c], retrying'[c] = retrying[c], token'[c] = token[c], stale'[c] = stale[c],
           answer'[c].status = "unauthorized" =>
               answer[c].status = "unauthorized" \/ pc[c] \notin {"first", "second"}
    PROVE  Refusals(c)'
BY DEF Refusals, LogsInAgain

\* A token is refused by the server that minted it, unless endpoints misdirect:
\* then it has been dropped.
LEMMA RefusalsServed ==
    ASSUME TypeInv, CallInv, TokenInv, KeptOrDropped, NEW s \in Servers, NEW r \in requests,
           Reaches(r, s), ServeWhoami(s, r), NEW c \in Clients, Refusals(c)
    PROVE  Refusals(c)'
<1> DEFINE known == \E k \in sessions[s] : k.token = r.token
           a == Failed(IF known THEN "ok" ELSE "unauthorized")
<1>1. /\ pc' = pc /\ retrying' = retrying /\ token' = token /\ stale' = stale
      /\ forgotten' = forgotten /\ r.kind = "whoami" /\ Respond(r, a) /\ r \in UnderWay
  BY DEF ServeWhoami, client, UnderWay
<1>2. CASE answer'[c] = answer[c]
  BY <1>1, <1>2, RefusalsKept
<1>3. CASE answer'[c] # answer[c]
  <2>1. c = r.client /\ answer'[c] = a /\ r.token = token[c]
    BY <1>1, <1>3, Responded
  <2>2. CASE known \/ pc[c] \notin {"first", "second"}
    BY <1>1, <2>1, <2>2, Values, RefusalsKept
  <2>3. CASE ~known /\ pc[c] \in {"first", "second"}
    <3>1. PICK m \in minted : m.token = token[c] /\ m.server = Base[c]
      BY <2>3 DEF Refusals, TokenInv, MintedFor
    <3>2. Base[c] \in Strays \/ m.server = s
      BY <2>1, <3>1 DEF Reaches
    <3>3. Base[c] \in Strays \/ token[c] \in forgotten
      BY <2>1, <2>3, <3>1, <3>2 DEF KeptOrDropped
    <3> QED
      BY <1>1, <3>3 DEF Refusals, LogsInAgain
  <2> QED
    BY <2>2, <2>3
<1> QED
  BY <1>2, <1>3

\* Every step keeps what clients know of the tokens that were refused.
LEMMA ForgetInvHolds == Spec => []ForgetInv
<1>1. Init => ForgetInv
  BY Values DEF Init, ForgetInv, KeptOrDropped, Refusals, LogsInAgain
<1>2. TypeInv /\ CallInv /\ TokenInv /\ KeptOrDropped /\ (\A c \in Clients : Refusals(c)) /\ [Next]_vars
        => (\A c \in Clients : Refusals(c))'
  <2> SUFFICES ASSUME TypeInv, CallInv, TokenInv, KeptOrDropped, \A c \in Clients : Refusals(c),
                      [Next]_vars, NEW e \in Clients
               PROVE  Refusals(e)'
    OBVIOUS
  <2>a. ASSUME NEW c \in Clients, Finish(c), stale' = stale, forgotten' = forgotten,
               \A d \in Clients \ {c} : token'[d] = token[d]
        PROVE  Refusals(e)'
    <3>1. /\ pc'[c] = "idle" /\ ~retrying'[c]
          /\ \A d \in Clients \ {c} : /\ pc'[d] = pc[d] /\ retrying'[d] = retrying[d]
                                      /\ answer'[d] = answer[d]
      BY <2>a, Reset DEF Finish, Goto, TypeInv, ClientType
    <3>2. CASE e = c
      BY <3>1, <3>2 DEF Refusals, LogsInAgain
    <3>3. CASE e # c
      BY <2>a, <3>1, <3>3, RefusalsKept
    <3> QED
      BY <3>2, <3>3
  <2>b. ASSUME UNCHANGED <<client, stale>>, forgotten \subseteq forgotten',
               answer'[e].status = "unauthorized" =>
                   answer[e].status = "unauthorized" \/ pc[e] \notin {"first", "second"}
        PROVE  Refusals(e)'
    BY <2>b, RefusalsKept DEF client
  <2>c. ASSUME NEW r \in UnderWay, NEW a, Respond(r, a), r.kind # "whoami",
               UNCHANGED <<client, stale>>, forgotten \subseteq forgotten'
        PROVE  Refusals(e)'
    <3>1. Awaited("first") = "whoami" /\ Awaited("second") = "whoami"
      BY DEF Awaited
    <3>2. answer'[e] = answer[e] \/ pc[e] \notin {"first", "second"}
      BY <2>c, <3>1, Responded
    <3> QED
      BY <2>b, <2>c, <3>2
  <2>d. \A r \in requests : r \in UnderWay
    BY DEF UnderWay
  \* The client's own steps that do not end its call.
  <2>e. ASSUME NEW c \in Clients, NEW label, Goto(c, label), answer' = [answer EXCEPT ![c] = NoAnswer],
               \A d \in Clients \ {c} : /\ retrying'[d] = retrying[d] /\ token'[d] = token[d]
                                        /\ stale'[d] = stale[d],
               forgotten' = forgotten
        PROVE  /\ pc'[c] = label /\ answer'[c].status = "none"
               /\ e # c => Refusals(e)'
    <3>1. \A d \in Clients \ {c} : pc'[d] = pc[d] /\ answer'[d] = answer[d]
      BY <2>e, Reset DEF Goto, TypeInv, ClientType
    <3>2. e # c => Refusals(e)'
      BY <2>e, <3>1, RefusalsKept
    <3> QED
      BY <2>e, <3>2, Reset DEF Goto, TypeInv, ClientType
  <2>1. ASSUME NEW c \in Clients, Login(c) PROVE Refusals(e)'
    <3>1. /\ pc'[c] = "asking" /\ answer'[c].status = "none" /\ (e # c => Refusals(e)')
          /\ pc[c] = "idle" /\ retrying' = retrying
      BY <2>1, <2>e DEF Login, Ask, Dispatch, history
    <3> QED
      BY <3>1 DEF Refusals, LogsInAgain
  <2>2. ASSUME NEW c \in Clients, Send(c) PROVE Refusals(e)'
    <3>0. \A d \in Clients \ {c} : stale'[d] = stale[d]
      BY <2>2 DEF Send, TypeInv, ClientType
    <3>1. /\ pc'[c] = "first" /\ answer'[c].status = "none" /\ (e # c => Refusals(e)')
          /\ pc[c] = "idle" /\ retrying' = retrying /\ token[c] # NoToken /\ token' = token
      BY <2>2, <2>e, <3>0 DEF Send, Use, Dispatch
    <3> QED
      BY <3>1 DEF Refusals, LogsInAgain
  <2>3. ASSUME NEW c \in Clients, Challenged(c) PROVE Refusals(e)'
    <3>1. CASE Bound(c, answer[c].message)
      <4>1. /\ pc'[c] = "signing" /\ answer'[c].status = "none" /\ (e # c => Refusals(e)')
            /\ pc[c] = "asking" /\ UNCHANGED <<retrying, token, stale, forgotten>>
        BY <2>3, <2>e, <3>1 DEF Challenged, history
      <4> QED
        BY <4>1 DEF Refusals, LogsInAgain
    <3>2. CASE ~Bound(c, answer[c].message)
      BY <2>3, <2>a, <3>2 DEF Challenged, history
    <3> QED
      BY <3>1, <3>2
  <2>4. ASSUME NEW c \in Clients, Sign(c) PROVE Refusals(e)'
    <3>1. /\ pc'[c] = "posting" /\ answer'[c].status = "none" /\ (e # c => Refusals(e)')
          /\ pc[c] = "signing" /\ UNCHANGED <<retrying, token, stale, forgotten>>
      BY <2>4, <2>e DEF Sign, Dispatch
    <3> QED
      BY <3>1 DEF Refusals, LogsInAgain
  <2>5. ASSUME NEW c \in Clients, LoggedIn(c) PROVE Refusals(e)'
    <3>1. /\ token'[c] = answer[c].token /\ \A d \in Clients \ {c} : token'[d] = token[d]
          /\ UNCHANGED <<stale, forgotten>> /\ pc[c] = "posting" /\ answer[c].status = "ok"
      BY <2>5 DEF LoggedIn, TypeInv, ClientType, history
    <3>2. CASE retrying[c]
      <4>1. /\ pc'[c] = "second" /\ answer'[c].status = "none" /\ (e # c => Refusals(e)')
        BY <2>5, <2>e, <3>1, <3>2 DEF LoggedIn, Use, Dispatch
      <4>2. answer[c].token # NoToken /\ answer[c].token # token[c]
        BY <3>1 DEF TokenInv
      <4>3. stale[c] = token[c] /\ (Base[c] \in Strays \/ stale[c] \in forgotten)
        BY <3>1, <3>2 DEF Refusals, LogsInAgain
      <4> QED
        BY <3>1, <4>1, <4>2, <4>3 DEF Refusals, LogsInAgain
    <3>3. CASE ~retrying[c]
      BY <2>5, <2>a, <3>1, <3>3 DEF LoggedIn
    <3> QED
      BY <3>2, <3>3
  <2>6. ASSUME NEW c \in Clients, FirstAnswered(c) PROVE Refusals(e)'
    <3>1. CASE answer[c].status = "unauthorized"
      <4>0. /\ stale'[c] = token[c] /\ UNCHANGED <<token, forgotten>>
            /\ \A d \in Clients \ {c} : stale'[d] = stale[d] /\ retrying'[d] = retrying[d]
        BY <2>6, <3>1 DEF FirstAnswered, TypeInv, ClientType
      <4>1. /\ pc'[c] = "asking" /\ answer'[c].status = "none" /\ (e # c => Refusals(e)')
            /\ pc[c] = "first"
        BY <2>6, <2>e, <3>1, <4>0 DEF FirstAnswered, Ask, Dispatch
      <4>2. Base[c] \in Strays \/ token[c] \in forgotten
        BY <3>1, <4>1 DEF Refusals
      <4> QED
        BY <4>0, <4>1, <4>2 DEF Refusals, LogsInAgain
    <3>2. CASE answer[c].status # "unauthorized"
      BY <2>6, <2>a, <3>2 DEF FirstAnswered
    <3> QED
      BY <3>1, <3>2
  <2>7. ASSUME NEW c \in Clients,
               SignFails(c) \/ LoginRefused(c) \/ SecondAnswered(c) \/ HttpFails(c)
        PROVE  Refusals(e)'
    BY <2>7, <2>a DEF SignFails, LoginRefused, SecondAnswered, HttpFails, history
  <2>8. ASSUME NEW s \in Servers, NEW r \in requests,
               \/ RefuseChallenge(s, r) \/ ServeChallenge(s, r)
               \/ \E ch \in challenges[s] : Forward(s, r, ch)
        PROVE  Refusals(e)'
    <3>1. \E a : Respond(r, a)
      BY <2>8 DEF RefuseChallenge, ServeChallenge, Forward
    <3>2. r.kind = "challenge" /\ UNCHANGED <<client, stale, forgotten>>
      BY <2>8 DEF RefuseChallenge, ServeChallenge, Forward, history
    <3> QED
      BY <2>c, <2>d, <3>1, <3>2
  <2>9. ASSUME NEW s \in Servers, NEW r \in requests, ServeSession(s, r) PROVE Refusals(e)'
    <3>1. answer' = answer \/ \E a : Respond(r, a)
      BY <2>9 DEF ServeSession
    <3>2. r.kind = "session" /\ UNCHANGED <<client, stale, forgotten>>
      BY <2>9 DEF ServeSession, history
    <3> QED
      BY <2>b, <2>c, <2>d, <3>1, <3>2
  <2>10. ASSUME NEW s \in Servers, NEW r \in handling[s], MintSession(s, r) \/ MintFails(s, r)
         PROVE  Refusals(e)'
    <3>1. \E a : Respond(r, a)
      BY <2>10 DEF MintSession, MintFails
    <3>2. UNCHANGED <<client, stale>> /\ forgotten \subseteq forgotten'
      BY <2>10 DEF MintSession, MintFails, history
    <3>3. r \in UnderWay /\ r.kind = "session"
      BY DEF UnderWay, CallInv
    <3> QED
      BY <2>c, <3>1, <3>2, <3>3
  <2>11. ASSUME NEW s \in Servers,
                \/ \E ch \in challenges[s] : ForgetChallenge(s, ch)
                \/ \E k \in sessions[s] : ForgetSession(s, k)
                \/ Restart(s)
         PROVE  Refusals(e)'
    BY <2>11, <2>b DEF ForgetChallenge, ForgetSession, Restart, history
  <2>12. ASSUME NEW r \in requests, Lose(r) PROVE Refusals(e)'
    BY <2>12, <2>b DEF Lose, history
  <2>13. CASE UNCHANGED vars
    BY <2>13, <2>b DEF vars, history
  <2>14. ASSUME NEW s \in Servers, NEW r \in requests, Reaches(r, s), ServeWhoami(s, r)
         PROVE  Refusals(e)'
    BY <2>14, RefusalsServed
  <2> QED
    BY <2>1, <2>2, <2>3, <2>4, <2>5, <2>6, <2>7, <2>8, <2>9, <2>10, <2>11, <2>12, <2>13, <2>14
    DEF Next, React, Serve, Trouble
<1>3. Spec => [](\A c \in Clients : Refusals(c))
  <2>1. ForgetInv => \A c \in Clients : Refusals(c)
    BY DEF ForgetInv
  <2> QED
    BY <1>1, <1>2, <2>1, TypeInvHolds, CallInvHolds, TokenInvHolds, KeptOrDroppedHolds, PTL DEF Spec
<1> QED
  BY <1>3, KeptOrDroppedHolds, PTL DEF ForgetInv

\* At an endpoint that does not misdirect, a send refused twice was forgotten twice:
\* it retried with a token other than the one refused at first, and the server
\* had dropped both, for any number of clients and any quota (AuthSession::send).
\* It is not "an authorization problem", as client.rs:234-235 has it.
THEOREM RefusedTwiceHolds == Spec => RefusedTwiceOnlyIfForgottenTwice
<1> DEFINE Refused ==
      \A c \in Clients :
            pc[c] = "second" /\ answer[c].status = "unauthorized" /\ pc'[c] = "idle"
                => \/ Base[c] \in Strays
                   \/ token[c] # stale[c] /\ {token[c], stale[c]} \subseteq forgotten
<1>1. ForgetInv /\ [Next]_vars => [Refused]_vars
  BY DEF ForgetInv, Refusals
<1> QED
  BY <1>1, ForgetInvHolds, PTL DEF Spec, RefusedTwiceOnlyIfForgottenTwice
=============================================================================
