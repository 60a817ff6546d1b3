------------------------ MODULE HttpSignatureProofs -------------------------
(***************************************************************************)
(* The four invariants of HttpSignature, for any signers, DIDs, requests   *)
(* and bounds.                                                             *)
(*                                                                         *)
(* The chains of early returns are turned into equations first, then each  *)
(* verifier is read backwards: what must have held for it to answer Ok.    *)
(* The inductive invariant IInv adds to the properties what the signers    *)
(* leave behind (SignedAsMade) and what the intermediaries can present     *)
(* (LoginsAsPresented).  That a hint vector has one canonical spelling is  *)
(* shown by least counterexamples, over the positions of a polynomial and  *)
(* over the polynomials.                                                   *)
(***************************************************************************)
EXTENDS HttpSignature, WellFoundedInduction, TLAPS

-----------------------------------------------------------------------------
(* Early returns *)

\* FirstErr answers with the first result that is an error.
LEMMA FirstAt ==
    ASSUME NEW results, NEW i \in DOMAIN results, DOMAIN results \subseteq Nat, results[i] # "Ok",
           \A j \in DOMAIN results : results[j] # "Ok" => i <= j
    PROVE  FirstErr(results) = results[i]
<1> DEFINE bad == {j \in DOMAIN results : results[j] # "Ok"}
<1>1. i \in bad /\ \A j \in bad : i <= j /\ j \in Nat
  OBVIOUS
<1>2. Min(bad) \in bad /\ \A j \in bad : Min(bad) <= j
  BY <1>1 DEF Min
<1>3. Min(bad) = i
  BY <1>1, <1>2
<1> QED
  BY <1>1, <1>3 DEF FirstErr

\* What a handler with two early returns answers,
LEMMA Chain2 ==
    ASSUME NEW x, NEW y
    PROVE  FirstErr(<<x, y>>)
              = IF x # "Ok" THEN x ELSE y
<1> DEFINE c == <<x, y>>
<1>1. DOMAIN c = 1..2 /\ DOMAIN c \subseteq Nat
  OBVIOUS
<1>2. c[1] = x /\ c[2] = y
  OBVIOUS
<1> HIDE DEF c
<1>3. FirstErr(c) = IF x # "Ok" THEN x ELSE y
  <2>1. CASE x # "Ok"
    <3>1. 1 \in DOMAIN c /\ c[1] # "Ok" /\ \A j \in DOMAIN c : c[j] # "Ok" => 1 <= j
      BY <1>1, <1>2, <2>1
    <3>2. FirstErr(c) = c[1]
      BY <1>1, <3>1, FirstAt
    <3> QED
      BY <1>2, <2>1, <3>2
  <2>2. CASE x = "Ok" /\ y # "Ok"
    <3>1. 2 \in DOMAIN c /\ c[2] # "Ok" /\ \A j \in DOMAIN c : c[j] # "Ok" => 2 <= j
      BY <1>1, <1>2, <2>2
    <3>2. FirstErr(c) = c[2]
      BY <1>1, <3>1, FirstAt
    <3> QED
      BY <1>2, <2>2, <3>2
  <2>3. CASE x = "Ok" /\ y = "Ok"
    <3>1. {j \in DOMAIN c : c[j] # "Ok"} = {}
      BY <1>1, <1>2, <2>3
    <3> QED
      BY <2>3, <3>1 DEF FirstErr
  <2> QED
    BY <2>1, <2>2, <2>3
<1> QED
  BY <1>3 DEF c

\* with three,
LEMMA Chain3 ==
    ASSUME NEW x, NEW y, NEW z
    PROVE  FirstErr(<<x, y, z>>)
              = IF x # "Ok" THEN x ELSE IF y # "Ok" THEN y ELSE z
<1> DEFINE c == <<x, y, z>>
<1>1. DOMAIN c = 1..3 /\ DOMAIN c \subseteq Nat
  OBVIOUS
<1>2. c[1] = x /\ c[2] = y /\ c[3] = z
  OBVIOUS
<1> HIDE DEF c
<1>3. FirstErr(c) = IF x # "Ok" THEN x ELSE IF y # "Ok" THEN y ELSE z
  <2>1. CASE x # "Ok"
    <3>1. 1 \in DOMAIN c /\ c[1] # "Ok" /\ \A j \in DOMAIN c : c[j] # "Ok" => 1 <= j
      BY <1>1, <1>2, <2>1
    <3>2. FirstErr(c) = c[1]
      BY <1>1, <3>1, FirstAt
    <3> QED
      BY <1>2, <2>1, <3>2
  <2>2. CASE x = "Ok" /\ y # "Ok"
    <3>1. 2 \in DOMAIN c /\ c[2] # "Ok" /\ \A j \in DOMAIN c : c[j] # "Ok" => 2 <= j
      BY <1>1, <1>2, <2>2
    <3>2. FirstErr(c) = c[2]
      BY <1>1, <3>1, FirstAt
    <3> QED
      BY <1>2, <2>2, <3>2
  <2>3. CASE x = "Ok" /\ y = "Ok" /\ z # "Ok"
    <3>1. 3 \in DOMAIN c /\ c[3] # "Ok" /\ \A j \in DOMAIN c : c[j] # "Ok" => 3 <= j
      BY <1>1, <1>2, <2>3
    <3>2. FirstErr(c) = c[3]
      BY <1>1, <3>1, FirstAt
    <3> QED
      BY <1>2, <2>3, <3>2
  <2>4. CASE x = "Ok" /\ y = "Ok" /\ z = "Ok"
    <3>1. {j \in DOMAIN c : c[j] # "Ok"} = {}
      BY <1>1, <1>2, <2>4
    <3> QED
      BY <2>4, <3>1 DEF FirstErr
  <2> QED
    BY <2>1, <2>2, <2>3, <2>4
<1> QED
  BY <1>3 DEF c

\* with four,
LEMMA Chain4 ==
    ASSUME NEW x, NEW y, NEW z, NEW u
    PROVE  FirstErr(<<x, y, z, u>>)
              = IF x # "Ok" THEN x ELSE IF y # "Ok" THEN y ELSE IF z # "Ok" THEN z ELSE u
<1> DEFINE c == <<x, y, z, u>>
<1>1. DOMAIN c = 1..4 /\ DOMAIN c \subseteq Nat
  OBVIOUS
<1>2. c[1] = x /\ c[2] = y /\ c[3] = z /\ c[4] = u
  OBVIOUS
<1> HIDE DEF c
<1>3. FirstErr(c) = IF x # "Ok" THEN x ELSE IF y # "Ok" THEN y ELSE IF z # "Ok" THEN z ELSE u
  <2>1. CASE x # "Ok"
    <3>1. 1 \in DOMAIN c /\ c[1] # "Ok" /\ \A j \in DOMAIN c : c[j] # "Ok" => 1 <= j
      BY <1>1, <1>2, <2>1
    <3>2. FirstErr(c) = c[1]
      BY <1>1, <3>1, FirstAt
    <3> QED
      BY <1>2, <2>1, <3>2
  <2>2. CASE x = "Ok" /\ y # "Ok"
    <3>1. 2 \in DOMAIN c /\ c[2] # "Ok" /\ \A j \in DOMAIN c : c[j] # "Ok" => 2 <= j
      BY <1>1, <1>2, <2>2
    <3>2. FirstErr(c) = c[2]
      BY <1>1, <3>1, FirstAt
    <3> QED
      BY <1>2, <2>2, <3>2
  <2>3. CASE x = "Ok" /\ y = "Ok" /\ z # "Ok"
    <3>1. 3 \in DOMAIN c /\ c[3] # "Ok" /\ \A j \in DOMAIN c : c[j] # "Ok" => 3 <= j
      BY <1>1, <1>2, <2>3
    <3>2. FirstErr(c) = c[3]
      BY <1>1, <3>1, FirstAt
    <3> QED
      BY <1>2, <2>3, <3>2
  <2>4. CASE x = "Ok" /\ y = "Ok" /\ z = "Ok" /\ u # "Ok"
    <3>1. 4 \in DOMAIN c /\ c[4] # "Ok" /\ \A j \in DOMAIN c : c[j] # "Ok" => 4 <= j
      BY <1>1, <1>2, <2>4
    <3>2. FirstErr(c) = c[4]
      BY <1>1, <3>1, FirstAt
    <3> QED
      BY <1>2, <2>4, <3>2
  <2>5. CASE x = "Ok" /\ y = "Ok" /\ z = "Ok" /\ u = "Ok"
    <3>1. {j \in DOMAIN c : c[j] # "Ok"} = {}
      BY <1>1, <1>2, <2>5
    <3> QED
      BY <2>5, <3>1 DEF FirstErr
  <2> QED
    BY <2>1, <2>2, <2>3, <2>4, <2>5
<1> QED
  BY <1>3 DEF c

\* with six.
LEMMA Chain6 ==
    ASSUME NEW x, NEW y, NEW z, NEW u, NEW v, NEW w
    PROVE  FirstErr(<<x, y, z, u, v, w>>)
              = IF x # "Ok" THEN x ELSE IF y # "Ok" THEN y ELSE IF z # "Ok" THEN z
                ELSE IF u # "Ok" THEN u ELSE IF v # "Ok" THEN v ELSE w
<1> DEFINE c == <<x, y, z, u, v, w>>
<1>1. DOMAIN c = 1..6 /\ DOMAIN c \subseteq Nat
  OBVIOUS
<1>2. c[1] = x /\ c[2] = y /\ c[3] = z /\ c[4] = u /\ c[5] = v /\ c[6] = w
  OBVIOUS
<1> HIDE DEF c
<1>3. FirstErr(c) = IF x # "Ok" THEN x ELSE IF y # "Ok" THEN y ELSE IF z # "Ok" THEN z
                    ELSE IF u # "Ok" THEN u ELSE IF v # "Ok" THEN v ELSE w
  <2>1. CASE x # "Ok"
    <3>1. 1 \in DOMAIN c /\ c[1] # "Ok" /\ \A j \in DOMAIN c : c[j] # "Ok" => 1 <= j
      BY <1>1, <1>2, <2>1
    <3>2. FirstErr(c) = c[1]
      BY <1>1, <3>1, FirstAt
    <3> QED
      BY <1>2, <2>1, <3>2
  <2>2. CASE x = "Ok" /\ y # "Ok"
    <3>1. 2 \in DOMAIN c /\ c[2] # "Ok" /\ \A j \in DOMAIN c : c[j] # "Ok" => 2 <= j
      BY <1>1, <1>2, <2>2
    <3>2. FirstErr(c) = c[2]
      BY <1>1, <3>1, FirstAt
    <3> QED
      BY <1>2, <2>2, <3>2
  <2>3. CASE x = "Ok" /\ y = "Ok" /\ z # "Ok"
    <3>1. 3 \in DOMAIN c /\ c[3] # "Ok" /\ \A j \in DOMAIN c : c[j] # "Ok" => 3 <= j
      BY <1>1, <1>2, <2>3
    <3>2. FirstErr(c) = c[3]
      BY <1>1, <3>1, FirstAt
    <3> QED
      BY <1>2, <2>3, <3>2
  <2>4. CASE x = "Ok" /\ y = "Ok" /\ z = "Ok" /\ u # "Ok"
    <3>1. 4 \in DOMAIN c /\ c[4] # "Ok" /\ \A j \in DOMAIN c : c[j] # "Ok" => 4 <= j
      BY <1>1, <1>2, <2>4
    <3>2. FirstErr(c) = c[4]
      BY <1>1, <3>1, FirstAt
    <3> QED
      BY <1>2, <2>4, <3>2
  <2>5. CASE x = "Ok" /\ y = "Ok" /\ z = "Ok" /\ u = "Ok" /\ v # "Ok"
    <3>1. 5 \in DOMAIN c /\ c[5] # "Ok" /\ \A j \in DOMAIN c : c[j] # "Ok" => 5 <= j
      BY <1>1, <1>2, <2>5
    <3>2. FirstErr(c) = c[5]
      BY <1>1, <3>1, FirstAt
    <3> QED
      BY <1>2, <2>5, <3>2
  <2>6. CASE x = "Ok" /\ y = "Ok" /\ z = "Ok" /\ u = "Ok" /\ v = "Ok" /\ w # "Ok"
    <3>1. 6 \in DOMAIN c /\ c[6] # "Ok" /\ \A j \in DOMAIN c : c[j] # "Ok" => 6 <= j
      BY <1>1, <1>2, <2>6
    <3>2. FirstErr(c) = c[6]
      BY <1>1, <3>1, FirstAt
    <3> QED
      BY <1>2, <2>6, <3>2
  <2>7. CASE x = "Ok" /\ y = "Ok" /\ z = "Ok" /\ u = "Ok" /\ v = "Ok" /\ w = "Ok"
    <3>1. {j \in DOMAIN c : c[j] # "Ok"} = {}
      BY <1>1, <1>2, <2>7
    <3> QED
      BY <2>7, <3>1 DEF FirstErr
  <2> QED
    BY <2>1, <2>2, <2>3, <2>4, <2>5, <2>6, <2>7
<1> QED
  BY <1>3 DEF c

-----------------------------------------------------------------------------
(* DIDs *)

\* The registry finds the method a DID names, if it supports the DID.
LEMMA Method ==
    ASSUME NEW did
    PROVE  find_did_method(did) =
              IF \/ did.method \in {"pkh", "key"}
                 \/ did.method = "peer" /\ did.part \in {"0z", "2."}
                 \/ did.method = "aqua" /\ DidAqua
              THEN did.method ELSE "none"
<1> DEFINE ms == all_did_methods
           n == IF DidAqua THEN 4 ELSE 3
           found == {i \in DOMAIN ms : supports_did(ms[i], did)}
<1>1. /\ DOMAIN ms = 1..n
      /\ ms[1] = "pkh" /\ ms[2] = "key" /\ ms[3] = "peer"
      /\ DidAqua => ms[4] = "aqua"
  BY DidMethodsAssumption DEF all_did_methods
<1>2. n \in {3, 4} /\ (n = 4 <=> DidAqua)
  BY DidMethodsAssumption
<1> HIDE DEF ms, n
<1>3. \A i \in found : ms[i] = did.method /\ \A j \in found : i = j
  BY <1>1, <1>2 DEF supports_did
<1>4. ASSUME NEW i \in found
      PROVE  find_did_method(did) = did.method
  <2>1. found = {i} /\ i \in Nat
    BY <1>1, <1>2, <1>3
  <2>2. Min(found) = i
    <3>1. \E x \in found : \A y \in found : x <= y
      BY <2>1
    <3>2. Min(found) \in found
      BY <3>1 DEF Min
    <3> QED
      BY <2>1, <3>2
  <2> QED
    BY <1>3, <1>4, <2>2 DEF find_did_method, ms
<1>5. found # {} <=> \/ did.method \in {"pkh", "key"}
                     \/ did.method = "peer" /\ did.part \in {"0z", "2."}
                     \/ did.method = "aqua" /\ DidAqua
  BY <1>1, <1>2 DEF supports_did
<1>6. found = {} => find_did_method(did) = "none"
  BY DEF find_did_method, ms
<1> QED
  BY <1>4, <1>5, <1>6

\* The parsers of did:pkh, check by check.
LEMMA PkhParsers ==
    ASSUME NEW did
    PROVE  /\ address_from_did(did) =
                 IF did.flaws \cap {"bare", "prefix", "size"} # {} THEN "InvalidDid"
                 ELSE IF "digits" \in did.flaws THEN "HexDecode" ELSE "Ok"
           /\ HexKey(did) =
                 IF did.flaws \cap {"bare", "prefix", "size", "uncompressed"} # {} \/ did.chain # 0
                 THEN "InvalidDid"
                 ELSE IF "digits" \in did.flaws THEN "HexDecode" ELSE "Ok"
           /\ pubkey_from_ed25519_did(did) =
                 IF HexKey(did) # "Ok" THEN HexKey(did)
                 ELSE IF "weak" \in did.flaws THEN "InvalidDid" ELSE "Ok"
           /\ PkhErr(did) =
                 IF "bare" \in did.flaws THEN "InvalidDid"
                 ELSE IF did.part \notin all_cipher_suites THEN "UnsupportedMethod" ELSE "Ok"
<1>1. address_from_did(did) =
        IF did.flaws \cap {"bare", "prefix", "size"} # {} THEN "InvalidDid"
        ELSE IF "digits" \in did.flaws THEN "HexDecode" ELSE "Ok"
  BY Chain2 DEF address_from_did, ErrIf
<1>2. HexKey(did) =
        IF did.flaws \cap {"bare", "prefix", "size", "uncompressed"} # {} \/ did.chain # 0
        THEN "InvalidDid"
        ELSE IF "digits" \in did.flaws THEN "HexDecode" ELSE "Ok"
  BY Chain2 DEF HexKey, ErrIf
<1>3. pubkey_from_ed25519_did(did) =
        IF HexKey(did) # "Ok" THEN HexKey(did)
        ELSE IF "weak" \in did.flaws THEN "InvalidDid" ELSE "Ok"
  BY Chain2 DEF pubkey_from_ed25519_did, strict_verifying_key, ErrIf
<1>4. PkhErr(did) =
        IF "bare" \in did.flaws THEN "InvalidDid"
        ELSE IF did.part \notin all_cipher_suites THEN "UnsupportedMethod" ELSE "Ok"
  BY Chain2 DEF PkhErr, split_namespace, ErrIf
<1> QED
  BY <1>1, <1>2, <1>3, <1>4

\* The parsers of did:key, did:peer and did:aqua, check by check.
LEMMA BodyParsers ==
    ASSUME NEW did
    PROVE  /\ decode_multibase_key(did) =
                 IF \/ "digits" \in did.flaws \/ did.codec \notin {"Ed25519", "P-256"}
                    \/ did.codec = "Ed25519" /\ "size" \notin did.flaws /\ "weak" \in did.flaws
                 THEN "InvalidDid" ELSE "Ok"
           /\ ZKey(did) =
                 IF did.method = "key" /\ "prefix" \in did.flaws THEN "InvalidDid"
                 ELSE IF did.method = "peer" /\ extract_z_body(did) # "Ok" THEN "InvalidDid"
                 ELSE decode_multibase_key(did)
           /\ validate_multibase_key_body(did) =
                 IF ZKey(did) # "Ok" THEN ZKey(did)
                 ELSE IF did.flaws \cap {"size", "uncompressed"} # {} THEN "InvalidDid" ELSE "Ok"
<1>1. decode_multibase_key(did) =
        IF \/ "digits" \in did.flaws \/ did.codec \notin {"Ed25519", "P-256"}
           \/ did.codec = "Ed25519" /\ "size" \notin did.flaws /\ "weak" \in did.flaws
        THEN "InvalidDid" ELSE "Ok"
  BY Chain3 DEF decode_multibase_key, strict_verifying_key, ErrIf
<1>2. ZKey(did) =
        IF did.method = "key" /\ "prefix" \in did.flaws THEN "InvalidDid"
        ELSE IF did.method = "peer" /\ extract_z_body(did) # "Ok" THEN "InvalidDid"
        ELSE decode_multibase_key(did)
  BY Chain3 DEF ZKey, ErrIf
<1>3. validate_multibase_key_body(did) =
        IF ZKey(did) # "Ok" THEN ZKey(did)
        ELSE IF did.flaws \cap {"size", "uncompressed"} # {} THEN "InvalidDid" ELSE "Ok"
  BY Chain2 DEF validate_multibase_key_body, ErrIf
<1> QED
  BY <1>1, <1>2, <1>3

\* What the suites and the did:key and did:peer verifier answer, check by check.
LEMMA Verifiers ==
    ASSUME NEW did, NEW msg, NEW sig
    PROVE  /\ eip155_verify(did, msg, sig) =
                 IF address_from_did(did) # "Ok" THEN address_from_did(did)
                 ELSE IF sig.flaws # {} THEN "InvalidSignature" ELSE Valid(sig, did.key, msg)
           /\ Ed25519Suite_verify(did, msg, sig) =
                 IF pubkey_from_ed25519_did(did) # "Ok" THEN pubkey_from_ed25519_did(did)
                 ELSE IF "size" \in sig.flaws THEN "InvalidSignature"
                 ELSE IF "encoding" \in sig.flaws THEN "false" ELSE Valid(sig, did.key, msg)
           /\ P256Suite_verify(did, msg, sig) =
                 IF HexKey(did) # "Ok" THEN HexKey(did)
                 ELSE IF "offcurve" \in did.flaws \/ sig.flaws # {} THEN "InvalidSignature"
                 ELSE Valid(sig, did.key, msg)
           /\ verify_with_key(did, msg, sig) =
                 IF ZKey(did) # "Ok" THEN ZKey(did)
                 ELSE IF \/ "size" \in did.flaws
                         \/ did.codec = "P-256" /\ "offcurve" \in did.flaws
                         \/ did.codec = "Ed25519" /\ "uncompressed" \in did.flaws
                         \/ "size" \in sig.flaws
                         \/ did.codec = "P-256" /\ "encoding" \in sig.flaws
                      THEN "InvalidSignature"
                 ELSE IF "encoding" \in sig.flaws THEN "false" ELSE Valid(sig, did.key, msg)
<1>1. FirstErr(<<address_from_did(did), ErrIf(sig.flaws # {}, "InvalidSignature")>>) =
        IF address_from_did(did) # "Ok" THEN address_from_did(did)
        ELSE IF sig.flaws # {} THEN "InvalidSignature" ELSE "Ok"
  BY Chain2 DEF ErrIf
<1>2. FirstErr(<<pubkey_from_ed25519_did(did), ErrIf("size" \in sig.flaws, "InvalidSignature")>>) =
        IF pubkey_from_ed25519_did(did) # "Ok" THEN pubkey_from_ed25519_did(did)
        ELSE IF "size" \in sig.flaws THEN "InvalidSignature" ELSE "Ok"
  BY Chain2 DEF ErrIf
<1>3. FirstErr(<<pubkey_from_p256_did(did),
                 ErrIf("offcurve" \in did.flaws, "InvalidSignature"),
                 ErrIf(sig.flaws # {}, "InvalidSignature")>>) =
        IF HexKey(did) # "Ok" THEN HexKey(did)
        ELSE IF "offcurve" \in did.flaws \/ sig.flaws # {} THEN "InvalidSignature" ELSE "Ok"
  BY Chain3 DEF pubkey_from_p256_did, ErrIf
<1>4. FirstErr(<<ZKey(did),
                 ErrIf("size" \in did.flaws, "InvalidSignature"),
                 ErrIf(did.codec = "P-256" /\ "offcurve" \in did.flaws, "InvalidSignature"),
                 ErrIf(did.codec = "Ed25519" /\ "uncompressed" \in did.flaws, "InvalidSignature"),
                 ErrIf("size" \in sig.flaws, "InvalidSignature"),
                 ErrIf(did.codec = "P-256" /\ "encoding" \in sig.flaws, "InvalidSignature")>>) =
        IF ZKey(did) # "Ok" THEN ZKey(did)
        ELSE IF \/ "size" \in did.flaws
                \/ did.codec = "P-256" /\ "offcurve" \in did.flaws
                \/ did.codec = "Ed25519" /\ "uncompressed" \in did.flaws
                \/ "size" \in sig.flaws
                \/ did.codec = "P-256" /\ "encoding" \in sig.flaws
             THEN "InvalidSignature" ELSE "Ok"
  BY Chain6 DEF ErrIf
<1>5. eip155_verify(did, msg, sig) =
        IF address_from_did(did) # "Ok" THEN address_from_did(did)
        ELSE IF sig.flaws # {} THEN "InvalidSignature" ELSE Valid(sig, did.key, msg)
  BY <1>1 DEF eip155_verify
<1>6. Ed25519Suite_verify(did, msg, sig) =
        IF pubkey_from_ed25519_did(did) # "Ok" THEN pubkey_from_ed25519_did(did)
        ELSE IF "size" \in sig.flaws THEN "InvalidSignature"
        ELSE IF "encoding" \in sig.flaws THEN "false" ELSE Valid(sig, did.key, msg)
  BY <1>2 DEF Ed25519Suite_verify
<1>7. P256Suite_verify(did, msg, sig) =
        IF HexKey(did) # "Ok" THEN HexKey(did)
        ELSE IF "offcurve" \in did.flaws \/ sig.flaws # {} THEN "InvalidSignature"
        ELSE Valid(sig, did.key, msg)
  BY <1>3 DEF P256Suite_verify
<1>8. verify_with_key(did, msg, sig) =
        IF ZKey(did) # "Ok" THEN ZKey(did)
        ELSE IF \/ "size" \in did.flaws
                \/ did.codec = "P-256" /\ "offcurve" \in did.flaws
                \/ did.codec = "Ed25519" /\ "uncompressed" \in did.flaws
                \/ "size" \in sig.flaws
                \/ did.codec = "P-256" /\ "encoding" \in sig.flaws
             THEN "InvalidSignature"
        ELSE IF "encoding" \in sig.flaws THEN "false" ELSE Valid(sig, did.key, msg)
  BY <1>4 DEF verify_with_key
<1> QED
  BY <1>5, <1>6, <1>7, <1>8

\* What ML-DSA verification answers: a key or signature of the wrong size, or a
\* hint section that is not canonical, is refused before anything is verified.
LEMMA MlDsa ==
    ASSUME NEW pk, NEW msg, NEW sig
    PROVE  ml_dsa_verify(pk, msg, sig) =
              IF pk \in NotAKey \/ "size" \in sig.flaws \/ ~hint_encoding_is_canonical(sig.hint)
              THEN "InvalidSignature"
              ELSE IF "encoding" \in sig.flaws THEN "false" ELSE Valid(sig, pk, msg)
<1>1. FirstErr(<<ErrIf(pk \in NotAKey, "InvalidSignature"),
                 ErrIf("size" \in sig.flaws, "InvalidSignature"),
                 ErrIf(~hint_encoding_is_canonical(sig.hint), "InvalidSignature")>>) =
        IF pk \in NotAKey \/ "size" \in sig.flaws \/ ~hint_encoding_is_canonical(sig.hint)
        THEN "InvalidSignature" ELSE "Ok"
  BY Chain3 DEF ErrIf
<1>2. hint_encoding_is_canonical(sig.hint) =>
        (Signature_decode(sig) <=> "encoding" \notin sig.flaws)
  BY DEF Signature_decode, hint_encoding_is_canonical
<1> QED
  BY <1>1, <1>2 DEF ml_dsa_verify

\* A signature that verifies was made by the key the DID spells or commits to,
\* over that message, whatever the method; a did:aqua signature is moreover
\* unspoilt and canonically encoded.  No error of the parsers reads as success.
LEMMA Verified ==
    ASSUME NEW did, NEW msg, NEW sig, NEW pk,
           verify_caip122_with_public_key(did, msg, sig, pk) \in {"true", "Ok"}
    PROVE  /\ sig.key = did.key /\ sig.over = msg
           /\ find_did_method(did) = "aqua" =>
                 hint_encoding_is_canonical(sig.hint) /\ sig.flaws \cap {"size", "encoding"} = {}
<1> DEFINE m == find_did_method(did)
           Passed == {"true", "Ok"}
<1>1. CASE m = "pkh"
  <2>1. pkh_verify(did, msg, sig) \in Passed
    BY <1>1 DEF verify_caip122_with_public_key
  <2>2. PkhErr(did) = "Ok"
    <3>1. PkhErr(did) # "true"
      BY PkhParsers
    <3> QED
      BY <2>1, <3>1 DEF pkh_verify
  <2>3. \/ eip155_verify(did, msg, sig) \in Passed
        \/ Ed25519Suite_verify(did, msg, sig) \in Passed
        \/ P256Suite_verify(did, msg, sig) \in Passed
    BY <2>1, <2>2 DEF pkh_verify
  <2>4. /\ address_from_did(did) # "true" /\ HexKey(did) # "true"
        /\ pubkey_from_ed25519_did(did) # "true"
    BY PkhParsers
  <2>5. Valid(sig, did.key, msg) \in Passed
    BY <2>3, <2>4, Verifiers
  <2> QED
    BY <1>1, <2>5 DEF Valid
<1>2. CASE m \in {"key", "peer"}
  <2>1. verify_with_key(did, msg, sig) \in Passed
    BY <1>2 DEF verify_caip122_with_public_key
  <2>2. ZKey(did) # "true"
    BY BodyParsers
  <2>3. Valid(sig, did.key, msg) \in Passed
    BY <2>1, <2>2, Verifiers
  <2> QED
    BY <1>2, <2>3 DEF Valid
<1>3. CASE m = "aqua"
  <2>1. aqua_verify(did, msg, sig, pk) \in Passed
    BY <1>3 DEF verify_caip122_with_public_key
  <2>2. FirstErr(<<ErrIf(pk = "none", "InvalidSignature"), multihash_from_aqua_did(did)>>)
          = IF pk = "none" THEN "InvalidSignature"
            ELSE IF did.flaws # {} THEN "InvalidDid" ELSE "Ok"
    BY Chain2 DEF multihash_from_aqua_did, ErrIf
  <2>3. did.key = pk /\ ml_dsa_verify(pk, msg, sig) \in Passed
    BY <2>1, <2>2 DEF aqua_verify, aqua_did_binds_pubkey
  <2>4. /\ "size" \notin sig.flaws /\ hint_encoding_is_canonical(sig.hint)
        /\ "encoding" \notin sig.flaws /\ Valid(sig, pk, msg) \in Passed
    BY <2>3, MlDsa
  <2> QED
    BY <2>3, <2>4 DEF Valid
<1> QED
  BY <1>1, <1>2, <1>3 DEF verify_caip122_with_public_key

\* authenticate_with_public_key lets nobody in on an ill-formed DID, nor on a
\* signature that another key made or that was made over another message.
LEMMA Authenticated ==
    ASSUME NEW did, NEW msg, NEW sig, NEW pk,
           authenticate_with_public_key(did, msg, sig, pk) = "Ok"
    PROVE  /\ validate_did_well_formed(did) = "Ok"
           /\ sig.key = did.key /\ sig.over = msg
           /\ did.method = "aqua" =>
                 hint_encoding_is_canonical(sig.hint) /\ sig.flaws \cap {"size", "encoding"} = {}
<1>1. /\ validate_did_well_formed(did) = "Ok"
      /\ verify_caip122_with_public_key(did, msg, sig, pk) \in {"true", "Ok"}
  BY DEF authenticate_with_public_key
<1>2. did.method = "aqua" => find_did_method(did) = "aqua"
  <2>1. find_did_method(did) # "none"
    BY <1>1 DEF validate_did_well_formed
  <2> QED
    BY <2>1, Method
<1> QED
  BY <1>1, <1>2, Verified

-----------------------------------------------------------------------------
(* Requests *)

\* What sign_request covers: the authority first, and the Signature-Agent
\* exactly when the request has one.
LEMMA Covered ==
    ASSUME NEW parts
    PROVE  LET c == covered_components(parts)
           IN  /\ 1 \in DOMAIN c /\ c[1] = COMPONENT_AUTHORITY
               /\ parts.agent = NoHeader => CoveredSet(c) = {COMPONENT_AUTHORITY}
               /\ parts.agent # NoHeader =>
                    /\ 2 \in DOMAIN c /\ c[2] = COMPONENT_SIGNATURE_AGENT
                    /\ CoveredSet(c) = ALLOWED_COMPONENTS
<1> DEFINE c == covered_components(parts)
<1>1. CASE parts.agent = NoHeader
  <2>1. c = <<COMPONENT_AUTHORITY>>
    BY <1>1 DEF covered_components, COMPONENT_AUTHORITY
  <2> QED
    BY <1>1, <2>1 DEF CoveredSet
<1>2. CASE parts.agent # NoHeader
  <2>1. DOMAIN c = 1..2 /\ c[1] = COMPONENT_AUTHORITY /\ c[2] = COMPONENT_SIGNATURE_AGENT
    BY <1>2 DEF covered_components, COMPONENT_AUTHORITY, COMPONENT_SIGNATURE_AGENT
  <2>2. CoveredSet(c) = {COMPONENT_AUTHORITY, COMPONENT_SIGNATURE_AGENT}
    BY <2>1 DEF CoveredSet
  <2> QED
    BY <1>2, <2>1, <2>2 DEF ALLOWED_COMPONENTS
<1> QED
  BY <1>1, <1>2

\* base_err looks at the covered components and the keyid of the parameters only.
LEMMA BaseErr ==
    ASSUME NEW parts, NEW p, NEW q, p.covered = q.covered, p.keyid = q.keyid
    PROVE  base_err(parts, p) = base_err(parts, q)
  BY DEF base_err, serialize_signature_params_err

\* The checks of verify_request in front of the signature, as one equation each.
LEMMA Checks ==
    ASSUME NEW parts, NEW h, NEW dict, NEW now, NEW c, NEW p, NEW did
    PROVE  /\ parse_signature_input(h) = "Ok" <=>
                 /\ h.members = 1 /\ h.inner /\ h.bare
                 /\ CoveredSet(h.params.covered) \subseteq ALLOWED_COMPONENTS
                 /\ COMPONENT_AUTHORITY \in CoveredSet(h.params.covered)
                 /\ h.keys = PARAM_ORDER /\ h.typed
           /\ parse_signature(dict, h.label) = "Ok" <=>
                 h.label \in DOMAIN dict /\ dict[h.label].item = "bytes"
           /\ check_signature_agent_coverage(parts, c) = "Ok" <=>
                 (parts.agent # NoHeader <=> COMPONENT_SIGNATURE_AGENT \in CoveredSet(c))
           /\ check_tag(p) = "Ok" <=> p.tag = expected_tag
           /\ check_window(p, now) = "Ok" <=>
                 /\ ~(p.expires <= p.created) /\ ~(p.expires - p.created > MAX_VALIDITY)
                 /\ ~(p.created > now + ClockSkew) /\ ~(now >= p.expires)
<1>1. parse_signature_input(h) = "Ok" <=>
        /\ h.members = 1 /\ h.inner /\ h.bare
        /\ CoveredSet(h.params.covered) \subseteq ALLOWED_COMPONENTS
        /\ COMPONENT_AUTHORITY \in CoveredSet(h.params.covered)
        /\ h.keys = PARAM_ORDER /\ h.typed
  <2> DEFINE a == ErrIf(h.members # 1 \/ ~h.inner \/ ~h.bare, "MalformedSignatureInput")
             b == ErrIf(~(CoveredSet(h.params.covered) \subseteq ALLOWED_COMPONENTS),
                        "UnsupportedComponent")
             d == ErrIf(COMPONENT_AUTHORITY \notin CoveredSet(h.params.covered),
                        "MissingComponent")
             e == ErrIf(h.keys # PARAM_ORDER \/ ~h.typed, "MalformedSignatureInput")
  <2>1. parse_signature_input(h) = FirstErr(<<a, b, d, e>>)
    BY DEF parse_signature_input
  <2>2. /\ a = "Ok" <=> h.members = 1 /\ h.inner /\ h.bare
        /\ b = "Ok" <=> CoveredSet(h.params.covered) \subseteq ALLOWED_COMPONENTS
        /\ d = "Ok" <=> COMPONENT_AUTHORITY \in CoveredSet(h.params.covered)
        /\ e = "Ok" <=> h.keys = PARAM_ORDER /\ h.typed
    BY DEF ErrIf
  <2> HIDE DEF a, b, d, e
  <2>3. FirstErr(<<a, b, d, e>>)
          = IF a # "Ok" THEN a ELSE IF b # "Ok" THEN b ELSE IF d # "Ok" THEN d ELSE e
    BY Chain4
  <2> QED
    BY <2>1, <2>2, <2>3
<1>2. parse_signature(dict, h.label) = "Ok" <=>
                 h.label \in DOMAIN dict /\ dict[h.label].item = "bytes"
  BY DEF parse_signature, ErrIf
<1>3. check_signature_agent_coverage(parts, c) = "Ok" <=>
        (parts.agent # NoHeader <=> COMPONENT_SIGNATURE_AGENT \in CoveredSet(c))
  <2> DEFINE a == ErrIf(parts.agent # NoHeader /\ ~(COMPONENT_SIGNATURE_AGENT \in CoveredSet(c)),
                        "MalformedSignatureInput")
             b == ErrIf(~(parts.agent # NoHeader) /\ COMPONENT_SIGNATURE_AGENT \in CoveredSet(c),
                        "MissingComponent")
  <2>1. check_signature_agent_coverage(parts, c) = FirstErr(<<a, b>>)
    BY DEF check_signature_agent_coverage
  <2>2. /\ a = "Ok" <=> (parts.agent # NoHeader => COMPONENT_SIGNATURE_AGENT \in CoveredSet(c))
        /\ b = "Ok" <=> (COMPONENT_SIGNATURE_AGENT \in CoveredSet(c) => parts.agent # NoHeader)
    BY DEF ErrIf
  <2> HIDE DEF a, b
  <2>3. FirstErr(<<a, b>>) = IF a # "Ok" THEN a ELSE b
    BY Chain2
  <2> QED
    BY <2>1, <2>2, <2>3
<1>4. check_tag(p) = "Ok" <=> p.tag = expected_tag
  BY DEF check_tag, ErrIf
<1>5. check_window(p, now) = "Ok" <=>
        /\ ~(p.expires <= p.created) /\ ~(p.expires - p.created > MAX_VALIDITY)
        /\ ~(p.created > now + ClockSkew) /\ ~(now >= p.expires)
  <2> DEFINE a == ErrIf(p.expires <= p.created, "InvalidWindow")
             b == ErrIf(p.expires - p.created > MAX_VALIDITY, "ValidityTooLong")
             d == ErrIf(p.created > now + ClockSkew, "CreatedInFuture")
             e == ErrIf(now >= p.expires, "Expired")
  <2>1. check_window(p, now) = FirstErr(<<a, b, d, e>>)
    BY DEF check_window
  <2>2. /\ a = "Ok" <=> ~(p.expires <= p.created)
        /\ b = "Ok" <=> ~(p.expires - p.created > MAX_VALIDITY)
        /\ d = "Ok" <=> ~(p.created > now + ClockSkew)
        /\ e = "Ok" <=> ~(now >= p.expires)
    BY DEF ErrIf
  <2> HIDE DEF a, b, d, e
  <2>3. FirstErr(<<a, b, d, e>>)
          = IF a # "Ok" THEN a ELSE IF b # "Ok" THEN b ELSE IF d # "Ok" THEN d ELSE e
    BY Chain4
  <2> QED
    BY <2>1, <2>2, <2>3
<1> QED
  BY <1>1, <1>2, <1>3, <1>4, <1>5

\* verify_request reaches authenticate exactly when none of its checks fails.
LEMMA VerifySteps ==
    ASSUME NEW parts, NEW h, NEW dict, NEW now
    PROVE  LET p == h.params
               early == /\ parse_signature_input(h) = "Ok" /\ parse_signature(dict, h.label) = "Ok"
                        /\ check_signature_agent_coverage(parts, p.covered) = "Ok"
                        /\ check_tag(p) = "Ok" /\ check_window(p, now) = "Ok"
                        /\ alg_for_did_err(p.keyid) = "Ok"
               late == alg_for_did(p.keyid) = p.alg /\ h.canonical /\ base_err(parts, p) = "Ok"
           IN  verify_err(parts, h, dict, now) = "Ok" <=>
                  /\ early /\ late
                  /\ authenticate(p.keyid, build_signature_base(parts, p), dict[h.label].sig) = "Ok"
<1> DEFINE p == h.params
           r1 == parse_signature_input(h)
           r2 == parse_signature(dict, h.label)
           r3 == check_signature_agent_coverage(parts, p.covered)
           r4 == check_tag(p)
           r5 == check_window(p, now)
           r6 == alg_for_did_err(p.keyid)
           l1 == ErrIf(alg_for_did(p.keyid) # p.alg, "AlgMismatch")
           l2 == ErrIf(~h.canonical, "MalformedSignatureInput")
           l3 == base_err(parts, p)
           auth == authenticate(p.keyid, build_signature_base(parts, p), dict[h.label].sig)
           early == FirstErr(<<r1, r2, r3, r4, r5, r6>>)
           late == FirstErr(<<l1, l2, l3>>)
<1>1. verify_err(parts, h, dict, now) = IF early # "Ok" THEN early
                                        ELSE IF late # "Ok" THEN late ELSE auth
  BY DEF verify_err
<1>2. (l1 = "Ok" <=> alg_for_did(p.keyid) = p.alg) /\ (l2 = "Ok" <=> h.canonical)
  BY DEF ErrIf
<1> HIDE DEF r1, r2, r3, r4, r5, r6, l1, l2, l3, auth
<1>3. early = IF r1 # "Ok" THEN r1 ELSE IF r2 # "Ok" THEN r2 ELSE IF r3 # "Ok" THEN r3
              ELSE IF r4 # "Ok" THEN r4 ELSE IF r5 # "Ok" THEN r5 ELSE r6
  BY Chain6
<1>4. late = IF l1 # "Ok" THEN l1 ELSE IF l2 # "Ok" THEN l2 ELSE l3
  BY Chain3
<1> HIDE DEF early, late
<1>5. early = "Ok" <=> /\ r1 = "Ok" /\ r2 = "Ok" /\ r3 = "Ok"
                       /\ r4 = "Ok" /\ r5 = "Ok" /\ r6 = "Ok"
  BY <1>3
<1>6. late = "Ok" <=> alg_for_did(p.keyid) = p.alg /\ h.canonical /\ l3 = "Ok"
  BY <1>2, <1>4
<1>7. verify_err(parts, h, dict, now) = "Ok" <=> early = "Ok" /\ late = "Ok" /\ auth = "Ok"
  BY <1>1
<1> QED
  BY <1>5, <1>6, <1>7 DEF r1, r2, r3, r4, r5, r6, l3, auth

\* An algorithm exists for the DIDs of the registry whose label one of the
\* request-signature algorithms carries: not for a thumbprint, not for did:aqua.
LEMMA AlgForDid ==
    ASSUME NEW did
    PROVE  alg_for_did_err(did) = "Ok" <=>
              /\ find_did_method(did) # "none" /\ method_label_err(did) = "Ok"
              /\ method_label(did) \in {"Ed25519", "P-256", "Ethereum"}
<1> DEFINE a == ErrIf(find_did_method(did) = "none", "UnsupportedMethod")
           b == method_label_err(did)
           d == ErrIf(b = "Ok" /\ method_label(did) \notin DOMAIN AlgOf, "UnsupportedMethod")
<1>1. alg_for_did_err(did) = FirstErr(<<a, b, d>>)
  BY DEF alg_for_did_err
<1>2. /\ a = "Ok" <=> find_did_method(did) # "none"
      /\ d = "Ok" <=> (b = "Ok" => method_label(did) \in DOMAIN AlgOf)
  BY DEF ErrIf
<1>3. DOMAIN AlgOf = {"Ed25519", "P-256", "Ethereum"}
  BY DEF AlgOf
<1> HIDE DEF a, b, d
<1>4. FirstErr(<<a, b, d>>) = IF a # "Ok" THEN a ELSE IF b # "Ok" THEN b ELSE d
  BY Chain3
<1> QED
  BY <1>1, <1>2, <1>3, <1>4 DEF b

\* A thumbprint is no DID.
LEMMA NoThumbprint ==
    ASSUME NEW t
    PROVE  alg_for_did_err(Thumbprint(t)) # "Ok"
<1>1. find_did_method(Thumbprint(t)) = "none"
  BY Method DEF Thumbprint, Did
<1> QED
  BY <1>1, AlgForDid

\* A well-formed DID with an algorithm accepts an unspoilt signature its key made.
LEMMA Accepts ==
    ASSUME NEW did, NEW msg, NEW sig,
           alg_for_did_err(did) = "Ok", validate_did_well_formed(did) = "Ok",
           "offcurve" \notin did.flaws,
           sig.key = did.key, sig.over = msg, sig.flaws = {}
    PROVE  authenticate(did, msg, sig) = "Ok"
<1> DEFINE m == find_did_method(did)
<1>1. m # "none" /\ method_label_err(did) = "Ok" /\ method_label(did) # "ML-DSA-87"
  BY AlgForDid
<1>2. m \in {"pkh", "key", "peer"} /\ m = did.method
  BY <1>1, Method DEF method_label
<1>3. Valid(sig, did.key, msg) = "true"
  BY DEF Valid
<1>4. verify_caip122_with_public_key(did, msg, sig, "none") = "true"
  <2>1. CASE m = "pkh"
    <3>1. PkhErr(did) = "Ok" /\ validate_pkh(did) = "Ok"
      BY <1>1, <2>1 DEF method_label_err, validate_did_well_formed
    <3>2. did.part \in {"eip155", "ed25519", "p256"}
      BY <3>1, PkhParsers DEF all_cipher_suites
    <3>3. CASE did.part = "eip155"
      <4>1. address_from_did(did) = "Ok"
        BY <3>1, <3>3 DEF validate_pkh
      <4>2. eip155_verify(did, msg, sig) = "true"
        BY <1>3, <4>1, Verifiers
      <4> QED
        BY <2>1, <3>1, <3>3, <4>2 DEF verify_caip122_with_public_key, pkh_verify
    <3>4. CASE did.part = "ed25519"
      <4>1. pubkey_from_ed25519_did(did) = "Ok"
        BY <3>1, <3>4 DEF validate_pkh
      <4>2. Ed25519Suite_verify(did, msg, sig) = "true"
        BY <1>3, <4>1, Verifiers
      <4> QED
        BY <2>1, <3>1, <3>4, <4>2 DEF verify_caip122_with_public_key, pkh_verify
    <3>5. CASE did.part = "p256"
      <4>1. HexKey(did) = "Ok"
        BY <3>1, <3>5 DEF validate_pkh, pubkey_from_p256_did
      <4>2. P256Suite_verify(did, msg, sig) = "true"
        BY <1>3, <4>1, Verifiers
      <4> QED
        BY <2>1, <3>1, <3>5, <4>2 DEF verify_caip122_with_public_key, pkh_verify
    <3> QED
      BY <3>2, <3>3, <3>4, <3>5
  <2>2. CASE m \in {"key", "peer"}
    <3>1. validate_multibase_key_body(did) = "Ok"
      BY <2>2 DEF validate_did_well_formed
    <3>2. ZKey(did) = "Ok" /\ did.flaws \cap {"size", "uncompressed"} = {}
      BY <3>1, BodyParsers
    <3>3. verify_with_key(did, msg, sig) = "true"
      BY <1>3, <3>2, Verifiers
    <3> QED
      BY <2>2, <3>3 DEF verify_caip122_with_public_key
  <2> QED
    BY <1>2, <2>1, <2>2
<1> QED
  BY <1>4 DEF authenticate, authenticate_with_public_key

-----------------------------------------------------------------------------
(* Hint sections: hint_encoding_is_canonical leaves one spelling *)

\* Every non-empty set of naturals has a least element: < is well-founded.
LEMMA LeastPosition ==
    ASSUME NEW T, T \subseteq Nat, T # {}
    PROVE  \E x \in T : \A y \in T : x <= y
<1> DEFINE R == OpToRel(<, Nat)
<1>1. R = {ss \in Nat \X Nat : ss[1] < ss[2]}
  BY DEF OpToRel
<1>2. IsWellFoundedOn(R, Nat)
  BY NatLessThanWellFounded
<1> HIDE DEF R
<1>3. PICK x \in T : \A y \in T : ~ (<<y, x>> \in R)
  BY <1>2, WFMin
<1>4. ASSUME NEW y \in T, ~(x <= y) PROVE FALSE
  <2>1. y < x /\ x \in Nat /\ y \in Nat
    BY <1>4
  <2>2. <<y, x>> \in R
    BY <1>1, <2>1
  <2> QED
    BY <1>3, <2>2
<1> QED
  BY <1>4

\* Positions a+1 to b of a hint section hold strictly increasing naturals.
Rises(f, a, b) ==
    /\ \A i \in a + 1..b : f[i] \in Nat
    /\ \A i, j \in a + 1..b : i < j => f[i] < f[j]

\* Every value of positions a+1 to b of f occurs at positions a+1 to c of g.
Within(f, b, g, c, a) == \A x \in a + 1..b : \E y \in a + 1..c : f[x] = g[y]

\* hint_encoding_is_canonical compares neighbours; that makes the whole of a
\* polynomial's indices rise.
LEMMA NeighboursRise ==
    ASSUME NEW f, NEW a \in Nat, NEW b \in Nat,
           \A i \in a + 1..b : f[i] \in Nat,
           \A i \in a + 1..b : i < b => f[i] < f[i + 1]
    PROVE  Rises(f, a, b)
<1> SUFFICES ASSUME NEW i \in a + 1..b, NEW k \in a + 1..b, i < k, ~(f[i] < f[k])
             PROVE  FALSE
  BY DEF Rises
<1> DEFINE T == {j \in i + 1..b : ~(f[i] < f[j])}
<1>1. k \in T /\ T \subseteq Nat
  OBVIOUS
<1>2. PICK j \in T : \A y \in T : j <= y
  BY <1>1, LeastPosition
<1>3. CASE j = i + 1
  BY <1>2, <1>3
<1>4. CASE j # i + 1
  <2>1. j - 1 \in i + 1..b /\ j - 1 \notin T
    BY <1>2, <1>4
  <2>2. f[i] < f[j - 1] /\ f[j - 1] < f[(j - 1) + 1]
    BY <2>1
  <2>3. (j - 1) + 1 = j
    BY <1>2
  <2>4. f[i] \in Nat /\ f[j - 1] \in Nat /\ f[j] \in Nat
    BY <1>2, <2>1
  <2> QED
    BY <1>2, <2>2, <2>3, <2>4
<1> QED
  BY <1>3, <1>4

\* Of two rising runs that agree up to i, the one whose values all occur in the
\* other is not below it at i.
LEMMA NotBelow ==
    ASSUME NEW f, NEW g, NEW a \in Nat, NEW b \in Nat, NEW c \in Nat,
           Rises(f, a, b), Rises(g, a, c),
           Within(f, b, g, c, a),
           NEW i \in a + 1..b, i <= c,
           \A j \in a + 1..b : j < i => f[j] = g[j]
    PROVE  g[i] <= f[i]
<1> SUFFICES ASSUME ~(g[i] <= f[i]) PROVE FALSE
  OBVIOUS
<1>1. PICK y \in a + 1..c : f[i] = g[y]
  BY DEF Within
<1>2. i \in a + 1..c /\ f[i] \in Nat /\ g[i] \in Nat /\ f[i] < g[i]
  BY DEF Rises
<1>3. CASE y < i
  <2>1. y \in a + 1..b /\ f[y] = g[y] /\ f[y] < f[i]
    BY <1>3 DEF Rises
  <2> QED
    BY <1>1, <1>2, <2>1
<1>4. CASE y = i
  BY <1>1, <1>2, <1>4
<1>5. CASE i < y
  <2>1. g[i] < g[y]
    BY <1>2, <1>5 DEF Rises
  <2> QED
    BY <1>1, <1>2, <2>1
<1> QED
  BY <1>2, <1>3, <1>4, <1>5

\* A rising run whose values all occur in another one with which it agrees is no
\* longer than that one.
LEMMA NoLonger ==
    ASSUME NEW f, NEW g, NEW a \in Nat, NEW b \in Nat, NEW c \in Nat, a <= c,
           Rises(f, a, b), Rises(g, a, c),
           Within(f, b, g, c, a),
           \A j \in a + 1..b : j <= c => f[j] = g[j]
    PROVE  b <= c
<1> SUFFICES ASSUME c < b PROVE FALSE
  OBVIOUS
<1>1. c + 1 \in a + 1..b
  OBVIOUS
<1>2. PICK y \in a + 1..c : f[c + 1] = g[y]
  BY <1>1 DEF Within
<1>3. y \in a + 1..b /\ y < c + 1 /\ f[y] = g[y]
  OBVIOUS
<1>4. f[y] < f[c + 1] /\ f[y] \in Nat
  BY <1>1, <1>3 DEF Rises
<1> QED
  BY <1>2, <1>3, <1>4

\* Two rising runs from the same start with the same values are the same run.
LEMMA SameRun ==
    ASSUME NEW f, NEW g, NEW a \in Nat, NEW b \in Nat, NEW c \in Nat, a <= b, a <= c,
           Rises(f, a, b), Rises(g, a, c),
           Within(f, b, g, c, a),
           Within(g, c, f, b, a)
    PROVE  b = c /\ \A i \in a + 1..b : f[i] = g[i]
<1> DEFINE T == {i \in a + 1..b : i <= c /\ f[i] # g[i]}
<1>1. ASSUME NEW k \in T PROVE FALSE
  <2>1. T \subseteq Nat /\ T # {}
    OBVIOUS
  <2>2. PICK i \in T : \A j \in T : i <= j
    BY <2>1, LeastPosition
  <2>3. /\ i \in a + 1..b /\ i \in a + 1..c /\ i <= b /\ i <= c /\ f[i] # g[i]
        /\ \A j \in a + 1..b : j < i => f[j] = g[j]
        /\ \A j \in a + 1..c : j < i => g[j] = f[j]
    BY <2>2
  <2> HIDE DEF T
  <2>4. g[i] <= f[i]
    BY <2>3, NotBelow
  <2>5. f[i] <= g[i]
    BY <2>3, NotBelow
  <2>6. f[i] \in Nat /\ g[i] \in Nat
    BY <2>3 DEF Rises
  <2>7. f[i] = g[i]
    BY <2>4, <2>5, <2>6
  <2> QED
    BY <2>3, <2>7
<1>2. \A j \in a + 1..b : j <= c => f[j] = g[j]
  BY <1>1
<1>3. \A j \in a + 1..c : j <= b => g[j] = f[j]
  BY <1>2
<1> HIDE DEF T
<1>4. b <= c
  BY <1>2, NoLonger
<1>5. c <= b
  BY <1>3, NoLonger
<1>6. b = c
  BY <1>4, <1>5
<1> QED
  BY <1>2, <1>6

\* The cut in front of a polynomial is a natural, and at most its own cut.
LEMMA Cuts ==
    ASSUME NEW h \in HintSections, CutsOk(h), NEW p \in 1..K
    PROVE  /\ CutBefore(h, p) \in Nat /\ h.cuts[p] \in Nat
           /\ CutBefore(h, p) <= h.cuts[p] /\ h.cuts[p] <= Omega
<1>1. h.cuts \in [1..K -> Nat]
  BY DEF HintSections
<1>2. p = 1 \/ p - 1 \in 1..K
  BY DidMethodsAssumption
<1>3. CutBefore(h, p) \in Nat
  BY <1>1, <1>2 DEF CutBefore
<1> QED
  BY <1>1, <1>3 DEF CutsOk

\* The indices of one polynomial of a canonical hint section rise.
LEMMA CanonicalRises ==
    ASSUME NEW h \in HintSections, hint_encoding_is_canonical(h), NEW p \in 1..K
    PROVE  Rises(h.indices, CutBefore(h, p), h.cuts[p])
<1> DEFINE a == CutBefore(h, p)
           b == h.cuts[p]
<1>1. a \in Nat /\ b \in Nat /\ a <= b /\ b <= Omega /\ Omega \in Nat
  BY Cuts, DidMethodsAssumption DEF hint_encoding_is_canonical
<1>2. h.indices \in [1..Omega -> Nat]
  BY DEF HintSections
<1>3. \A i \in 1..Omega - 1 : a < i /\ i < b => h.indices[i] < h.indices[i + 1]
  BY DEF hint_encoding_is_canonical, Increasing
<1> HIDE DEF a, b
<1>4. \A i \in a + 1..b : h.indices[i] \in Nat
  BY <1>1, <1>2
<1>5. \A i \in a + 1..b : i < b => h.indices[i] < h.indices[i + 1]
  BY <1>1, <1>3
<1> QED
  BY <1>1, <1>4, <1>5, NeighboursRise DEF a, b

\* The bits of a polynomial are its indices, when the cuts are in order.
LEMMA BitsOfPolynomial ==
    ASSUME NEW h \in HintSections, CutsOk(h), NEW p \in 1..K
    PROVE  \A x : x \in HintBits(h)[p] <=>
                   \E i \in CutBefore(h, p) + 1..h.cuts[p] : x = h.indices[i]
<1> DEFINE a == CutBefore(h, p)
           b == h.cuts[p]
<1>1. a \in Nat /\ b \in Nat /\ a <= b /\ b <= Omega /\ Omega \in Nat
  BY Cuts, DidMethodsAssumption
<1>2. HintBits(h)[p] = {h.indices[i] : i \in {j \in 1..Omega : a < j /\ j <= b}}
  BY DEF HintBits
<1> HIDE DEF a, b
<1>3. {j \in 1..Omega : a < j /\ j <= b} = a + 1..b
  BY <1>1
<1> QED
  BY <1>2, <1>3 DEF a, b

\* Two canonical hint sections of the same hint vector are the same bytes: a
\* respelling is refused by hint_encoding_is_canonical or is no respelling.
THEOREM CanonicalUnique ==
    ASSUME NEW g \in HintSections, NEW h \in HintSections,
           hint_encoding_is_canonical(g), hint_encoding_is_canonical(h),
           HintBits(g) = HintBits(h)
    PROVE  g = h
<1> DEFINE Agree(p) ==
              /\ CutBefore(g, p) = CutBefore(h, p) /\ g.cuts[p] = h.cuts[p]
              /\ \A i \in CutBefore(h, p) + 1..h.cuts[p] : g.indices[i] = h.indices[i]
           T == {p \in 1..K : ~Agree(p)}
<1>0. K \in 1..K /\ Omega \in Nat /\ K \in Nat
  BY DidMethodsAssumption
<1>1. CutsOk(g) /\ CutsOk(h)
  BY DEF hint_encoding_is_canonical
<1>2. ASSUME NEW p \in 1..K, CutBefore(g, p) = CutBefore(h, p)
      PROVE  Agree(p)
  <2> HIDE DEF Agree, T
  <2>1. PICK a, b, c, u, v : /\ a = CutBefore(h, p) /\ b = g.cuts[p] /\ c = h.cuts[p]
                             /\ u = g.indices /\ v = h.indices
    OBVIOUS
  <2>2. a \in Nat /\ b \in Nat /\ c \in Nat /\ a <= b /\ a <= c
    BY <1>1, <1>2, <2>1, Cuts
  <2>3. Rises(u, a, b) /\ Rises(v, a, c)
    BY <1>2, <2>1, CanonicalRises
  <2>4. \A x : (\E i \in a + 1..b : x = u[i]) <=> (\E i \in a + 1..c : x = v[i])
    <3>1. \A x : x \in HintBits(g)[p] <=> \E i \in CutBefore(g, p) + 1..g.cuts[p] : x = g.indices[i]
      BY <1>1, BitsOfPolynomial
    <3>2. \A x : x \in HintBits(h)[p] <=> \E i \in CutBefore(h, p) + 1..h.cuts[p] : x = h.indices[i]
      BY <1>1, BitsOfPolynomial
    <3> QED
      BY <1>2, <2>1, <3>1, <3>2
  <2>5. Within(u, b, v, c, a) /\ Within(v, c, u, b, a)
    BY <2>4 DEF Within
  <2>6. b = c /\ \A i \in a + 1..b : u[i] = v[i]
    BY <2>2, <2>3, <2>5, SameRun
  <2> QED
    BY <1>2, <2>1, <2>6 DEF Agree
<1>3. \A p \in 1..K : Agree(p)
  <2> HIDE DEF Agree
  <2> SUFFICES ASSUME NEW q \in T PROVE FALSE
    OBVIOUS
  <2>1. T \subseteq Nat /\ T # {}
    OBVIOUS
  <2>2. PICK p \in T : \A x \in T : p <= x
    BY <2>1, LeastPosition
  <2>3. p \in 1..K /\ ~Agree(p)
    BY <2>2
  <2>4. p # 1 => p - 1 \in 1..K /\ ~(p <= p - 1)
    BY <1>0, <2>3
  <2>5. p # 1 => Agree(p - 1)
    BY <2>2, <2>4
  <2>6. CutBefore(g, p) = CutBefore(h, p)
    BY <2>5 DEF CutBefore, Agree
  <2> QED
    BY <1>2, <2>3, <2>6
<1>4. /\ g.cuts \in [1..K -> Nat] /\ h.cuts \in [1..K -> Nat]
      /\ g.indices \in [1..Omega -> Nat] /\ h.indices \in [1..Omega -> Nat]
  BY DEF HintSections
<1>5. g.cuts = h.cuts
  <2>1. \A p \in 1..K : g.cuts[p] = h.cuts[p]
    BY <1>3
  <2>2. PICK S, u, v : S = 1..K /\ u = g.cuts /\ v = h.cuts
    OBVIOUS
  <2>3. u \in [S -> Nat] /\ v \in [S -> Nat] /\ \A x \in S : u[x] = v[x]
    BY <1>4, <2>1, <2>2
  <2>4. u = v
    BY <2>3
  <2> QED
    BY <2>2, <2>4
<1>6. ASSUME NEW i \in 1..Omega PROVE g.indices[i] = h.indices[i]
  <2>1. CASE i > h.cuts[K]
    BY <1>5, <2>1 DEF hint_encoding_is_canonical, UnusedZero
  <2>2. CASE ~(i > h.cuts[K])
    <3> DEFINE S == {p \in 1..K : i <= h.cuts[p]}
    <3>1. S \subseteq Nat /\ K \in S
      BY <1>0, <1>4, <2>2
    <3>2. PICK p \in S : \A x \in S : p <= x
      BY <3>1, LeastPosition
    <3>3. p \in 1..K /\ i <= h.cuts[p]
      BY <3>2
    <3>4. p # 1 => p - 1 \in 1..K /\ ~(p <= p - 1)
      BY <1>0, <3>3
    <3>5. p # 1 => ~(i <= h.cuts[p - 1])
      BY <3>2, <3>4
    <3>6. CutBefore(h, p) \in Nat /\ h.cuts[p] \in Nat
      BY <1>1, <3>3, Cuts
    <3>7. CutBefore(h, p) < i
      <4>1. CASE p = 1
        BY <4>1 DEF CutBefore
      <4>2. CASE p # 1
        <5>1. h.cuts[p - 1] \in Nat
          BY <1>4, <3>4, <4>2
        <5> QED
          BY <3>5, <4>2, <5>1 DEF CutBefore
      <4> QED
        BY <4>1, <4>2
    <3>8. i \in CutBefore(h, p) + 1..h.cuts[p]
      BY <3>3, <3>6, <3>7
    <3> QED
      BY <1>3, <3>3, <3>8
  <2> QED
    BY <2>1, <2>2
<1>7. g.indices = h.indices
  <2>1. \A i \in 1..Omega : g.indices[i] = h.indices[i]
    BY <1>6
  <2>2. PICK S, u, v : S = 1..Omega /\ u = g.indices /\ v = h.indices
    OBVIOUS
  <2>3. u \in [S -> Nat] /\ v \in [S -> Nat] /\ \A x \in S : u[x] = v[x]
    BY <1>4, <2>1, <2>2
  <2>4. u = v
    BY <2>3
  <2> QED
    BY <2>2, <2>4
<1> QED
  BY <1>5, <1>7 DEF HintSections

-----------------------------------------------------------------------------
(* The inductive invariant *)

\* A signer signs what it was given with its own key and spoils nothing.
SignatureAsMade(s) ==
    /\ s.sig.hint \in HintSections
    /\ s.sig = Signature(s.signer.key, s.msg, {}, s.sig.hint)

\* What sign_request leaves behind.
RequestAsMade(s) ==
    LET p == s.input.params
        of_profile == profile_parameters(s.profile, s.signer.did)
    IN  /\ s.input = InputHeader(SIGNATURE_LABEL, p)
        /\ s.msg = build_signature_base(s.parts, p)
        /\ s.signature = signature_header(SIGNATURE_LABEL, s.sig)
        /\ p.covered = covered_components(s.parts)
        /\ p.keyid = of_profile.keyid /\ p.alg = of_profile.alg /\ p.tag = of_profile.tag
        /\ p.created \in Nat /\ p.expires \in Nat
        /\ p.created < p.expires /\ p.expires - p.created <= MAX_VALIDITY
        /\ profile_err(s.profile, s.signer.did) = "Ok"
        /\ base_err(s.parts, p) = "Ok"

\* Everything in signed is as its signer made it.
SignedAsMade ==
    /\ \A s \in signed : SignatureAsMade(s)
    /\ \A s \in Requests : RequestAsMade(s)

\* Everything an intermediary presents is a record of a signature, and an
\* accepted did:aqua signature is unspoilt and canonical.
LoginsAsPresented ==
    \A l \in logins :
        /\ l.sig = Signature(l.sig.key, l.sig.over, l.sig.flaws, l.sig.hint)
        /\ l.sig.flaws \in {{}, {"size"}, {"encoding"}} /\ l.sig.hint \in HintSections
        /\ l.principal.method = "aqua" =>
              hint_encoding_is_canonical(l.sig.hint) /\ l.sig.flaws \cap {"size", "encoding"} = {}

IInv ==
    /\ clock \in Nat
    /\ SignedAsMade
    /\ LoginsAsPresented
    /\ HonouredAsSigned
    /\ PrincipalHoldsKey

\* HonouredAsSigned for one accepted request, given the requests signed so far.
AsSigned(r, requests) ==
    \E s \in requests :
        /\ s.signer.did = r.principal
        /\ authority_from_uri(s.parts.uri) = authority_from_uri(r.parts.uri)
        /\ (s.parts.agent = NoHeader) = (r.parts.agent = NoHeader)
        /\ s.parts.agent # NoHeader => s.parts.agent.text = r.parts.agent.text
        /\ s.input.params = r.params
        /\ r.params.created - ClockSkew <= r.at /\ r.at < r.params.expires
        /\ r.params.expires - r.params.created <= MAX_VALIDITY
        /\ r.params.tag = expected_tag

\* The hint section of a signature that carries no hint is zero bytes.
LEMMA NoHintIsHint == NoHint \in HintSections
  BY DidMethodsAssumption DEF NoHint, HintSections

\* A window sign_request accepts is neither empty nor longer than the cap.
LEMMA Validity ==
    ASSUME NEW v
    PROVE  validity_seconds(v) = "Ok" <=> v # 0 /\ ~(v > MAX_VALIDITY)
<1> DEFINE a == ErrIf(v = 0, "ValidityZero")
           b == ErrIf(v > MAX_VALIDITY, "ValidityTooLong")
<1>1. validity_seconds(v) = FirstErr(<<a, b>>)
  BY DEF validity_seconds
<1>2. (a = "Ok" <=> v # 0) /\ (b = "Ok" <=> ~(v > MAX_VALIDITY))
  BY DEF ErrIf
<1> HIDE DEF a, b
<1>3. FirstErr(<<a, b>>) = IF a # "Ok" THEN a ELSE b
  BY Chain2
<1> QED
  BY <1>1, <1>2, <1>3

\* A profile asks for an algorithm first.
LEMMA ProfileAlg ==
    ASSUME NEW profile, NEW did, profile_err(profile, did) = "Ok"
    PROVE  alg_for_did_err(did) = "Ok"
<1> DEFINE a == alg_for_did_err(did)
           b == ErrIf(profile # "AquaInternal" /\ a = "Ok" /\ alg_for_did(did) # "ed25519",
                      "ProfileRequiresEd25519")
           d == ErrIf(profile = "", "EmptyThumbprint")
<1>1. profile_err(profile, did) = FirstErr(<<a, b, d>>)
  BY DEF profile_err
<1> HIDE DEF a, b, d
<1>2. FirstErr(<<a, b, d>>) = IF a # "Ok" THEN a ELSE IF b # "Ok" THEN b ELSE d
  BY Chain3
<1> QED
  BY <1>1, <1>2 DEF a

\* sign_request makes what RequestAsMade says.
LEMMA RequestMade ==
    ASSUME NEW signer, NEW parts, NEW profile, NEW validity \in Validities, NEW created \in Nat,
           sign_request_err(signer, parts, profile, validity) = "Ok"
    PROVE  LET s == sign_request(signer, parts, profile, validity, created)
           IN  SignatureAsMade(s) /\ RequestAsMade(s) /\ s.msg.surface = "rfc9421"
<1> DEFINE params == SignedParams(signer, parts, profile, validity, created)
           s == sign_request(signer, parts, profile, validity, created)
           of_profile == profile_parameters(profile, signer.did)
           e1 == validity_seconds(validity)
           e2 == profile_err(profile, signer.did)
           e3 == base_err(parts, [covered |-> covered_components(parts),
                                  keyid   |-> profile_keyid(profile, signer.did)])
<1>1. /\ params.covered = covered_components(parts)
      /\ params.created = created /\ params.expires = created + validity
      /\ params.keyid = of_profile.keyid /\ params.alg = of_profile.alg
      /\ params.tag = of_profile.tag
  BY DEF SignedParams
<1>2. e1 = "Ok" /\ e2 = "Ok" /\ e3 = "Ok"
  <2>1. sign_request_err(signer, parts, profile, validity) = FirstErr(<<e1, e2, e3>>)
    BY DEF sign_request_err
  <2> HIDE DEF e1, e2, e3
  <2>2. FirstErr(<<e1, e2, e3>>) = IF e1 # "Ok" THEN e1 ELSE IF e2 # "Ok" THEN e2 ELSE e3
    BY Chain3
  <2> QED
    BY <2>1, <2>2
<1>3. base_err(parts, params) = "Ok"
  <2>1. params.keyid = profile_keyid(profile, signer.did)
    BY <1>1 DEF profile_parameters
  <2> QED
    BY <1>1, <1>2, <2>1, BaseErr
<1>4. /\ params.created \in Nat /\ params.expires \in Nat /\ params.created < params.expires
      /\ params.expires - params.created <= MAX_VALIDITY
  <2>1. validity \in Nat /\ validity # 0 /\ ~(validity > MAX_VALIDITY) /\ MAX_VALIDITY \in Nat
    BY <1>2, Validity, HttpSignatureAssumption
  <2> QED
    BY <1>1, <2>1
<1> HIDE DEF params, of_profile
<1>5. /\ s.signer = signer /\ s.parts = parts /\ s.profile = profile
      /\ s.msg = build_signature_base(parts, params)
      /\ s.input = InputHeader(SIGNATURE_LABEL, params)
      /\ s.sig = Signature(signer.key, s.msg, {}, NoHint)
      /\ s.signature = signature_header(SIGNATURE_LABEL, s.sig)
  BY DEF sign_request, params
<1> HIDE DEF s
<1>6. s.input.params = params
  BY <1>5 DEF InputHeader
<1>7. s.msg.surface = "rfc9421"
  BY <1>5 DEF build_signature_base
<1>8. SignatureAsMade(s)
  BY <1>5, NoHintIsHint DEF SignatureAsMade, Signature
<1>9. RequestAsMade(s)
  BY <1>1, <1>2, <1>3, <1>4, <1>5, <1>6 DEF RequestAsMade, of_profile
<1> QED
  BY <1>7, <1>8, <1>9 DEF s

\* A signed request was signed over its own base: an accepted base with the same
\* text has the same parameters and the same component values, so principal,
\* authority and Signature-Agent are the signer's.
LEMMA SameBase ==
    ASSUME NEW s, RequestAsMade(s), NEW parts, NEW p,
           s.msg = build_signature_base(parts, p),
           check_signature_agent_coverage(parts, p.covered) = "Ok",
           alg_for_did_err(p.keyid) = "Ok"
    PROVE  /\ s.input.params = p /\ s.signer.did = p.keyid
           /\ authority_from_uri(s.parts.uri) = authority_from_uri(parts.uri)
           /\ (s.parts.agent = NoHeader) = (parts.agent = NoHeader)
           /\ s.parts.agent # NoHeader => s.parts.agent.text = parts.agent.text
<1> DEFINE q == s.input.params
           Lines(at, ps) == [i \in DOMAIN ps.covered |->
                                <<ps.covered[i], component_value(ps.covered[i], at)>>]
<1>1. build_signature_base(s.parts, q) = build_signature_base(parts, p)
  BY DEF RequestAsMade
<1>2. q = p /\ Lines(s.parts, q) = Lines(parts, p)
  BY <1>1 DEF build_signature_base
<1>3. \A i \in DOMAIN p.covered :
        component_value(p.covered[i], s.parts) = component_value(p.covered[i], parts)
  <2> SUFFICES ASSUME NEW i \in DOMAIN p.covered
               PROVE  component_value(p.covered[i], s.parts) = component_value(p.covered[i], parts)
    OBVIOUS
  <2>1. /\ Lines(s.parts, p)[i] = <<p.covered[i], component_value(p.covered[i], s.parts)>>
        /\ Lines(parts, p)[i] = <<p.covered[i], component_value(p.covered[i], parts)>>
    OBVIOUS
  <2>2. Lines(s.parts, p)[i] = Lines(parts, p)[i]
    BY <1>2
  <2> HIDE DEF Lines
  <2> QED
    BY <2>1, <2>2
<1>4. p.covered = covered_components(s.parts)
  BY <1>2 DEF RequestAsMade
<1>5. 1 \in DOMAIN p.covered /\ p.covered[1] = COMPONENT_AUTHORITY
  BY <1>4, Covered
<1>6. authority_from_uri(s.parts.uri) = authority_from_uri(parts.uri)
  BY <1>3, <1>5 DEF component_value
<1>7. COMPONENT_AUTHORITY # COMPONENT_SIGNATURE_AGENT
  BY DEF COMPONENT_AUTHORITY, COMPONENT_SIGNATURE_AGENT
<1>8. (s.parts.agent = NoHeader) = (parts.agent = NoHeader)
  <2>1. s.parts.agent # NoHeader <=> COMPONENT_SIGNATURE_AGENT \in CoveredSet(p.covered)
    BY <1>4, <1>7, Covered DEF ALLOWED_COMPONENTS
  <2>2. parts.agent # NoHeader <=> COMPONENT_SIGNATURE_AGENT \in CoveredSet(p.covered)
    BY Checks
  <2> QED
    BY <2>1, <2>2
<1>9. s.parts.agent # NoHeader => s.parts.agent.text = parts.agent.text
  <2> SUFFICES ASSUME s.parts.agent # NoHeader PROVE s.parts.agent.text = parts.agent.text
    OBVIOUS
  <2>1. 2 \in DOMAIN p.covered /\ p.covered[2] = COMPONENT_SIGNATURE_AGENT
    BY <1>4, Covered
  <2> QED
    BY <1>3, <1>7, <2>1 DEF component_value
<1>10. s.signer.did = p.keyid
  <2>1. p.keyid = profile_parameters(s.profile, s.signer.did).keyid
    BY <1>2 DEF RequestAsMade
  <2>2. CASE s.profile = "AquaInternal"
    BY <2>1, <2>2 DEF profile_parameters, profile_keyid
  <2>3. CASE s.profile # "AquaInternal"
    <3>1. p.keyid = Thumbprint(s.profile)
      BY <2>1, <2>3 DEF profile_parameters, profile_keyid
    <3> QED
      BY <3>1, NoThumbprint
  <2> QED
    BY <2>2, <2>3
<1> QED
  BY <1>2, <1>6, <1>8, <1>9, <1>10

\* What verify_request accepts, with a signature made over the message of some
\* s in signed, is what s signed, and the principal's key made the signature.
LEMMA AcceptedRequest ==
    ASSUME clock \in Nat, SignedAsMade, NEW s \in signed, NEW sig, sig.over = s.msg,
           NEW l, NEW item, NEW parts, NEW h,
           verify_request(parts, h, Header(l, item, sig), clock) = "Ok"
    PROVE  LET r == [principal |-> h.params.keyid, parts |-> parts, params |-> h.params,
                     sig |-> Header(l, item, sig)[h.label].sig, at |-> clock]
           IN  /\ AsSigned(r, Requests)
               /\ validate_did_well_formed(r.principal) = "Ok"
               /\ r.principal.key = r.sig.key
               /\ r.sig.over = build_signature_base(r.parts, r.params)
<1> DEFINE p == h.params
           dict == Header(l, item, sig)
           r == [principal |-> p.keyid, parts |-> parts, params |-> p,
                 sig |-> dict[h.label].sig, at |-> clock]
<1>1. verify_err(parts, h, dict, clock) = "Ok"
  BY DEF verify_request
<1>2. /\ parse_signature(dict, h.label) = "Ok"
      /\ check_signature_agent_coverage(parts, p.covered) = "Ok"
      /\ check_tag(p) = "Ok" /\ check_window(p, clock) = "Ok"
      /\ alg_for_did_err(p.keyid) = "Ok"
      /\ authenticate(p.keyid, build_signature_base(parts, p), dict[h.label].sig) = "Ok"
  BY <1>1, VerifySteps
<1>3. h.label \in DOMAIN dict
  BY <1>2, Checks
<1>4. dict[h.label].sig = sig
  BY <1>3 DEF Header
<1> HIDE DEF p, dict
<1>5. /\ validate_did_well_formed(p.keyid) = "Ok" /\ sig.key = p.keyid.key
      /\ sig.over = build_signature_base(parts, p)
  BY <1>2, <1>4, Authenticated DEF authenticate
<1>6. s \in Requests /\ RequestAsMade(s)
  <2>1. s.msg.surface = "rfc9421"
    BY <1>5 DEF build_signature_base
  <2> QED
    BY <2>1 DEF Requests, SignedAsMade
<1>7. s.msg = build_signature_base(parts, p)
  BY <1>5
<1>8. /\ s.input.params = p /\ s.signer.did = p.keyid
      /\ authority_from_uri(s.parts.uri) = authority_from_uri(parts.uri)
      /\ (s.parts.agent = NoHeader) = (parts.agent = NoHeader)
      /\ s.parts.agent # NoHeader => s.parts.agent.text = parts.agent.text
  BY <1>2, <1>6, <1>7, SameBase
<1>9. /\ p.created - ClockSkew <= clock /\ clock < p.expires
      /\ p.expires - p.created <= MAX_VALIDITY
  <2>1. ~(p.created > clock + ClockSkew) /\ ~(clock >= p.expires)
    BY <1>2, Checks
  <2>2. /\ p.created \in Nat /\ p.expires \in Nat
        /\ p.expires - p.created <= MAX_VALIDITY
    BY <1>6, <1>8 DEF RequestAsMade
  <2> QED
    BY <2>1, <2>2, HttpSignatureAssumption
<1>10. p.tag = expected_tag
  BY <1>2, Checks
<1>11. AsSigned(r, Requests)
  BY <1>6, <1>8, <1>9, <1>10 DEF AsSigned
<1>12. /\ validate_did_well_formed(r.principal) = "Ok"
       /\ r.principal.key = r.sig.key
       /\ r.sig.over = build_signature_base(r.parts, r.params)
  BY <1>4, <1>5
<1> QED
  BY <1>11, <1>12 DEF p, dict

\* More signed requests explain no fewer accepted ones.
LEMMA AsSignedMonotone ==
    ASSUME NEW r, NEW R, NEW Q, R \subseteq Q, AsSigned(r, R)
    PROVE  AsSigned(r, Q)
  BY DEF AsSigned

\* HonouredAsSigned, record by record.
LEMMA EachAsSigned == HonouredAsSigned <=> \A r \in honoured : AsSigned(r, Requests)
  BY DEF HonouredAsSigned, AsSigned

\* Something new in signed, as its signer made it, keeps the invariant.
LEMMA SignKeeps ==
    ASSUME IInv, NEW s, SignatureAsMade(s), s.msg.surface = "rfc9421" => RequestAsMade(s),
           signed' = signed \cup {s}, UNCHANGED <<clock, seen, honoured, logins>>
    PROVE  IInv'
<1>1. Requests \subseteq Requests' /\ Requests' \subseteq Requests \cup {s}
  BY DEF Requests
<1>2. SignedAsMade'
  <2>1. \A t \in signed' : SignatureAsMade(t)
    BY DEF IInv, SignedAsMade
  <2>2. \A t \in Requests' : RequestAsMade(t)
    <3> SUFFICES ASSUME NEW t \in Requests' PROVE RequestAsMade(t)
      OBVIOUS
    <3>1. t.msg.surface = "rfc9421"
      BY DEF Requests
    <3> QED
      BY <1>1, <3>1 DEF IInv, SignedAsMade
  <2> QED
    BY <2>1, <2>2 DEF SignedAsMade, SignatureAsMade, RequestAsMade
<1>3. HonouredAsSigned'
  <2>1. \A r \in honoured' : AsSigned(r, Requests')
    BY <1>1, EachAsSigned, AsSignedMonotone DEF IInv
  <2> QED
    BY <2>1 DEF HonouredAsSigned, AsSigned
<1>4. LoginsAsPresented' /\ PrincipalHoldsKey' /\ clock' \in Nat
  BY DEF IInv, LoginsAsPresented, PrincipalHoldsKey
<1> QED
  BY <1>2, <1>3, <1>4 DEF IInv

\* An accepted request whose signature is over something in signed keeps it.
LEMMA VerifyKeeps ==
    ASSUME IInv, NEW s \in signed, NEW sig, sig.over = s.msg, NEW l, NEW item, NEW parts, NEW h,
           VerifyRequest(parts, h, Header(l, item, sig))
    PROVE  IInv'
<1>1. PICK r : r = [principal |-> h.params.keyid, parts |-> parts, params |-> h.params,
                    sig |-> Header(l, item, sig)[h.label].sig, at |-> clock]
  OBVIOUS
<1>2. honoured' = honoured \cup {r} /\ UNCHANGED <<clock, signed, logins>>
  BY <1>1 DEF VerifyRequest
<1>3. /\ AsSigned(r, Requests)
      /\ validate_did_well_formed(r.principal) = "Ok" /\ r.principal.key = r.sig.key
      /\ r.sig.over = build_signature_base(r.parts, r.params)
  BY <1>1, AcceptedRequest DEF IInv, VerifyRequest
<1>4. Requests' = Requests
  BY <1>2 DEF Requests
<1>5. HonouredAsSigned'
  <2>1. \A q \in honoured' : AsSigned(q, Requests')
    BY <1>2, <1>3, <1>4, EachAsSigned DEF IInv
  <2> QED
    BY <2>1 DEF HonouredAsSigned, AsSigned
<1>6. PrincipalHoldsKey'
  BY <1>2, <1>3 DEF IInv, PrincipalHoldsKey
<1>7. SignedAsMade' /\ LoginsAsPresented' /\ clock' \in Nat
  BY <1>2, <1>4 DEF IInv, SignedAsMade, LoginsAsPresented
<1> QED
  BY <1>5, <1>6, <1>7 DEF IInv

\* An accepted login keeps it.
LEMMA LoginKeeps ==
    ASSUME IInv, NEW did, NEW msg, NEW sig, NEW pk,
           sig = Signature(sig.key, sig.over, sig.flaws, sig.hint),
           sig.flaws \in {{}, {"size"}, {"encoding"}}, sig.hint \in HintSections,
           Login(did, msg, sig, pk)
    PROVE  IInv'
<1>1. PICK l : l = [principal |-> did, msg |-> msg, sig |-> sig]
  OBVIOUS
<1>2. logins' = logins \cup {l} /\ UNCHANGED <<clock, signed, seen, honoured>>
  BY <1>1 DEF Login
<1>3. /\ validate_did_well_formed(did) = "Ok" /\ sig.key = did.key /\ sig.over = msg
      /\ did.method = "aqua" =>
            hint_encoding_is_canonical(sig.hint) /\ sig.flaws \cap {"size", "encoding"} = {}
  BY Authenticated DEF Login
<1>4. l.principal = did /\ l.msg = msg /\ l.sig = sig
  BY <1>1
<1>5. Requests' = Requests
  BY <1>2 DEF Requests
<1>6. LoginsAsPresented'
  BY <1>2, <1>3, <1>4 DEF IInv, LoginsAsPresented
<1>7. PrincipalHoldsKey'
  BY <1>2, <1>3, <1>4 DEF IInv, PrincipalHoldsKey
<1>8. SignedAsMade' /\ clock' \in Nat
  BY <1>2, <1>5 DEF IInv, SignedAsMade
<1>9. HonouredAsSigned'
  BY <1>2, <1>5 DEF IInv, HonouredAsSigned
<1> QED
  BY <1>6, <1>7, <1>8, <1>9 DEF IInv

\* The fields of a signature as its signer made it.
LEMMA SignatureFields ==
    ASSUME NEW s, SignatureAsMade(s)
    PROVE  s.sig.key = s.signer.key /\ s.sig.over = s.msg /\ s.sig.flaws = {}
<1>1. PICK k, m, h : s.sig = Signature(k, m, {}, h) /\ k = s.signer.key /\ m = s.msg
  BY DEF SignatureAsMade
<1> QED
  BY <1>1 DEF Signature

\* What an intermediary makes of a signature is a signature over the same
\* message, with a hint section that is one and at most one flaw.
LEMMA Presented ==
    ASSUME NEW s, SignatureAsMade(s), NEW g \in Respelt(s) \cup Spoilt(s.sig)
    PROVE  /\ g = Signature(g.key, g.over, g.flaws, g.hint)
           /\ g.flaws \in {{}, {"size"}, {"encoding"}} /\ g.hint \in HintSections
           /\ g.over = s.msg
<1>1. PICK k, m, h : h \in HintSections /\ s.sig = Signature(k, m, {}, h) /\ m = s.msg
  BY DEF SignatureAsMade
<1>2. CASE g = s.sig
  BY <1>1, <1>2 DEF Signature
<1>3. ASSUME NEW e \in Hints, g = [s.sig EXCEPT !.hint = e]
      PROVE  g = Signature(k, m, {}, e) /\ e \in HintSections
  BY <1>1, <1>3, HttpSignatureAssumption DEF Signature
<1>4. ASSUME NEW f \in {{"size"}, {"encoding"}}, g = [s.sig EXCEPT !.flaws = f]
      PROVE  g = Signature(k, m, f, h)
  BY <1>1, <1>4 DEF Signature
<1>5. \E f \in {{}, {"size"}, {"encoding"}}, e \in HintSections : g = Signature(k, m, f, e)
  BY <1>1, <1>2, <1>3, <1>4 DEF Respelt, Spoilt
<1> QED
  BY <1>1, <1>5 DEF Signature

-----------------------------------------------------------------------------
(* Theorems *)

\* The invariant holds initially: nothing has been signed or accepted.
LEMMA InitIInv == Init => IInv
  BY DEF Init, IInv, SignedAsMade, Requests, LoginsAsPresented, HonouredAsSigned, PrincipalHoldsKey

\* Every step keeps the invariant.
LEMMA NextIInv == IInv /\ [Next]_vars => IInv'
<1> SUFFICES ASSUME IInv, [Next]_vars PROVE IInv'
  OBVIOUS
<1>0. clock \in Nat /\ clock + ClockSkew + 1 \in Nat
  <2>1. clock \in Nat /\ ClockSkew \in Nat
    BY HttpSignatureAssumption DEF IInv
  <2> QED
    BY <2>1
<1>1. ASSUME NEW s \in Signers, NEW h \in HintsOf(s), SignLogin(s, h) PROVE IInv'
  <2>1. PICK m, g, t : /\ m = build_message(s.did, generate_nonce)
                       /\ g = Signature(s.key, m, {}, h)
                       /\ t = [signer |-> s, msg |-> m, sig |-> g]
    OBVIOUS
  <2>2. signed' = signed \cup {t} /\ UNCHANGED <<clock, seen, honoured, logins>>
    BY <1>1, <2>1 DEF SignLogin
  <2>3. h \in HintSections
    BY NoHintIsHint, HttpSignatureAssumption DEF HintsOf
  <2>4. SignatureAsMade(t)
    BY <2>1, <2>3 DEF SignatureAsMade, Signature
  <2>5. t.msg.surface # "rfc9421"
    BY <2>1 DEF build_message
  <2> QED
    BY <2>2, <2>4, <2>5, SignKeeps
<1>2. ASSUME NEW s \in Signers, NEW p \in Parts, NEW f,
             NEW v \in Validities, NEW c \in {clock, clock + ClockSkew + 1},
             SignRequest(s, p, f, v, c)
      PROVE  IInv'
  <2>1. PICK t : t = sign_request(s, p, f, v, c)
    OBVIOUS
  <2>2. signed' = signed \cup {t} /\ UNCHANGED <<clock, seen, honoured, logins>>
    BY <1>2, <2>1 DEF SignRequest
  <2>3. c \in Nat
    <3>1. c = clock \/ c = clock + ClockSkew + 1
      OBVIOUS
    <3> QED
      BY <1>0, <3>1
  <2>4. sign_request_err(s, p, f, v) = "Ok"
    BY <1>2 DEF SignRequest
  <2>5. SignatureAsMade(t) /\ RequestAsMade(t)
    BY <2>1, <2>3, <2>4, RequestMade
  <2> QED
    BY <2>2, <2>5, SignKeeps
<1>3. ASSUME NEW r \in Requests, NEW h, NEW l, NEW s \in signed, NEW p,
             VerifyRequest(p, h, signature_header(l, s.sig))
      PROVE  IInv'
  <2>1. s.sig.over = s.msg
    BY SignatureFields DEF IInv, SignedAsMade
  <2> QED
    BY <1>3, <2>1, VerifyKeeps DEF signature_header
<1>4. ASSUME NEW r \in Requests, NEW d \in SpoiltHeaders(r),
             VerifyRequest(r.parts, r.input, d)
      PROVE  IInv'
  <2>1. r \in signed /\ SignatureAsMade(r)
    BY DEF Requests, IInv, SignedAsMade
  <2>2. PICK g \in Spoilt(r.sig) \cup {r.sig}, item \in {"bytes", "token", "list"} :
            d = Header(SIGNATURE_LABEL, item, g)
    BY DEF SpoiltHeaders, signature_header
  <2>3. g.over = r.msg
    BY <2>1, <2>2, Presented, SignatureFields
  <2> QED
    BY <1>4, <2>1, <2>2, <2>3, VerifyKeeps
<1>5. ASSUME NEW s \in signed, NEW g \in Respelt(s) \cup Spoilt(s.sig), NEW k,
             NEW t \in signed \ Requests, NEW d \in Dids, Login(d, t.msg, g, k)
      PROVE  IInv'
  <2>1. SignatureAsMade(s)
    BY DEF IInv, SignedAsMade
  <2>2. /\ g = Signature(g.key, g.over, g.flaws, g.hint)
        /\ g.flaws \in {{}, {"size"}, {"encoding"}} /\ g.hint \in HintSections
    BY <2>1, Presented
  <2> QED
    BY <1>5, <2>2, LoginKeeps
<1>6. CASE Tick
  BY <1>6 DEF Tick, IInv, SignedAsMade, Requests, LoginsAsPresented, HonouredAsSigned,
              PrincipalHoldsKey
<1>7. CASE UNCHANGED vars
  BY <1>7 DEF vars, IInv, SignedAsMade, Requests, LoginsAsPresented, HonouredAsSigned,
              PrincipalHoldsKey
<1> QED
  BY <1>1, <1>2, <1>3, <1>4, <1>5, <1>6, <1>7 DEF Next

\* Under the invariant, what sign_request emits passes every check of
\* verify_request.
LEMMA InvSignedVerifies == IInv => SignedVerifies
<1> SUFFICES ASSUME IInv, NEW s \in Requests,
                    s.profile = "AquaInternal", expected_tag = TAG_AQUA_INTERNAL,
                    validate_did_well_formed(s.signer.did) = "Ok",
                    s.signer.did.key = s.signer.key,
                    "offcurve" \notin s.signer.did.flaws,
                    s.input.params.created <= clock + ClockSkew,
                    clock < s.input.params.expires,
                    ~Replayed(s.input.params.nonce, clock)
             PROVE  verify_request(s.parts, s.input, s.signature, clock) = "Ok"
  BY DEF SignedVerifies
<1>1. PICK h, p, did, parts, dict : /\ h = s.input /\ p = s.input.params /\ did = s.signer.did
                                    /\ parts = s.parts /\ dict = s.signature
  OBVIOUS
<1>2. RequestAsMade(s) /\ SignatureAsMade(s)
  BY DEF IInv, SignedAsMade, Requests
<1>3. /\ h = InputHeader(SIGNATURE_LABEL, p) /\ s.msg = build_signature_base(parts, p)
      /\ dict = signature_header(SIGNATURE_LABEL, s.sig) /\ p.covered = covered_components(parts)
      /\ p.created \in Nat /\ p.expires \in Nat
      /\ p.created < p.expires /\ p.expires - p.created <= MAX_VALIDITY
      /\ profile_err(s.profile, did) = "Ok" /\ base_err(parts, p) = "Ok"
  BY <1>1, <1>2 DEF RequestAsMade
<1>4. p.keyid = did /\ p.alg = alg_for_did(did) /\ p.tag = TAG_AQUA_INTERNAL
  BY <1>1, <1>2 DEF RequestAsMade, profile_parameters, profile_keyid
<1>5. alg_for_did_err(did) = "Ok"
  BY <1>3, ProfileAlg
<1>6. /\ h.label = SIGNATURE_LABEL /\ h.members = 1 /\ h.inner /\ h.bare
      /\ h.keys = PARAM_ORDER /\ h.typed /\ h.canonical /\ h.params = p
  BY <1>3 DEF InputHeader
<1>7. h.label \in DOMAIN dict /\ dict[h.label] = [item |-> "bytes", sig |-> s.sig]
  BY <1>3, <1>6 DEF signature_header, Header
<1>8. parse_signature_input(h) = "Ok"
  <2>1. /\ CoveredSet(p.covered) \subseteq ALLOWED_COMPONENTS
        /\ COMPONENT_AUTHORITY \in CoveredSet(p.covered)
    BY <1>3, Covered DEF ALLOWED_COMPONENTS
  <2> QED
    BY <1>6, <2>1, Checks
<1>9. parse_signature(dict, h.label) = "Ok"
  BY <1>7, Checks
<1>10. check_signature_agent_coverage(parts, p.covered) = "Ok"
  <2>1. COMPONENT_AUTHORITY # COMPONENT_SIGNATURE_AGENT
    BY DEF COMPONENT_AUTHORITY, COMPONENT_SIGNATURE_AGENT
  <2>2. parts.agent # NoHeader <=> COMPONENT_SIGNATURE_AGENT \in CoveredSet(p.covered)
    BY <1>3, <2>1, Covered DEF ALLOWED_COMPONENTS
  <2> QED
    BY <2>2, Checks
<1>11. check_tag(p) = "Ok"
  BY <1>4, Checks
<1>12. check_window(p, clock) = "Ok"
  <2>1. /\ ~(p.expires <= p.created) /\ ~(p.expires - p.created > MAX_VALIDITY)
        /\ ~(p.created > clock + ClockSkew) /\ ~(clock >= p.expires)
    BY <1>1, <1>3, HttpSignatureAssumption DEF IInv
  <2> QED
    BY <2>1, Checks
<1>13. authenticate(did, build_signature_base(parts, p), s.sig) = "Ok"
  <2>1. s.sig.key = did.key /\ s.sig.over = build_signature_base(parts, p) /\ s.sig.flaws = {}
    BY <1>1, <1>2, <1>3, SignatureFields
  <2> QED
    BY <1>1, <1>5, <2>1, Accepts
<1>14. verify_err(parts, h, dict, clock) = "Ok"
  BY <1>3, <1>4, <1>5, <1>6, <1>7, <1>8, <1>9, <1>10, <1>11, <1>12, <1>13, VerifySteps
<1> QED
  BY <1>1, <1>14 DEF verify_request

\* Under the invariant, two accepted spellings of one did:aqua signature are one.
LEMMA InvOneEncoding == IInv => OneEncodingHonoured
<1> SUFFICES ASSUME IInv, NEW l \in logins, NEW m \in logins,
                    l.principal = m.principal, l.msg = m.msg, l.principal.method = "aqua",
                    HintBits(l.sig.hint) = HintBits(m.sig.hint)
             PROVE  l.sig = m.sig
  BY DEF OneEncodingHonoured
<1>1. l.sig.key = m.sig.key /\ l.sig.over = m.sig.over
  BY DEF IInv, PrincipalHoldsKey
<1>2. l.sig.flaws = {} /\ m.sig.flaws = {}
  BY DEF IInv, LoginsAsPresented
<1>3. l.sig.hint = m.sig.hint
  BY CanonicalUnique DEF IInv, LoginsAsPresented
<1> QED
  BY <1>1, <1>2, <1>3 DEF IInv, LoginsAsPresented

\* What an honoured request carries is what its signer signed, for any number of
\* signers, requests and signatures and any rewriting the intermediaries make:
\* verify_request rebuilds the base from the request as it arrived.
THEOREM AsSignedHolds == Spec => []HonouredAsSigned
<1>1. IInv => HonouredAsSigned
  BY DEF IInv
<1> QED
  BY <1>1, InitIInv, NextIInv, PTL DEF Spec

\* Behind every principal, of a request or of a login, stands a well-formed DID
\* and the key it spells or commits to, over that very message:
\* authenticate_with_public_key and the verifiers of all four methods.
THEOREM PossessionHolds == Spec => []PrincipalHoldsKey
<1>1. IInv => PrincipalHoldsKey
  BY DEF IInv
<1> QED
  BY <1>1, InitIInv, NextIInv, PTL DEF Spec

\* sign_request emits nothing that verify_request would refuse while the window
\* is open and the guard has not seen the nonce.
THEOREM SignedVerifiesHolds == Spec => []SignedVerifies
  BY InvSignedVerifies, InitIInv, NextIInv, PTL DEF Spec

\* No respelling of an accepted did:aqua signature is accepted for the same
\* message, for every size of the hint section: hint_encoding_is_canonical.
THEOREM OneEncodingHolds == Spec => []OneEncodingHonoured
  BY InvOneEncoding, InitIInv, NextIInv, PTL DEF Spec

=============================================================================
