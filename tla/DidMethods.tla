------------------------------ MODULE DidMethods ------------------------------
(***************************************************************************)
(* What the crate reads off a DID and when it accepts a signature for it:  *)
(* the DIDMethod registry with did:pkh, did:key, did:peer and did:aqua,    *)
(* the cipher suites below did:pkh, the well-formedness check in front of  *)
(* them, and authenticate on top.                                          *)
(*                                                                         *)
(* A DID is a record of what the parsers look at: its method, the part     *)
(* that selects a parser (pkh namespace, peer variant), how many segments  *)
(* stand before the address, the multicodec, the key it spells, and the    *)
(* flaws of the spelling.  Curve arithmetic and hashing are the identity   *)
(* of keys: the recovered, decoded or committed key is `key'.              *)
(***************************************************************************)
EXTENDS Integers, Sequences, FiniteSetsExt

CONSTANTS
    DidAqua,     \* the did-aqua feature is compiled in
    Omega, K     \* ML-DSA hint section: Omega index bytes, K cumulative counts

ASSUME DidMethodsAssumption == DidAqua \in BOOLEAN /\ Omega \in Nat /\ K \in Nat \ {0}

-----------------------------------------------------------------------------
(* Results *)

\* An early return.
ErrIf(fails, err) == IF fails THEN err ELSE "Ok"

\* The early returns of a handler, in order: the first error, or "Ok".
FirstErr(results) ==
    LET bad == {i \in DOMAIN results : results[i] # "Ok"}
    IN  IF bad = {} THEN "Ok" ELSE results[Min(bad)]

-----------------------------------------------------------------------------
(* DIDs *)

Curves == {"Ethereum", "Ed25519", "P-256", "ML-DSA-87"}

\* Flaws of a spelling: "bare" (nothing follows the namespace), "prefix" (no 0x,
\* no multibase z, no V element), "size" (wrong number of bytes), "uncompressed"
\* (a 65-byte P-256 point), "digits" (not hex, not base58), "weak" (an Ed25519
\* key that strict_verifying_key refuses) and "offcurve" (a P-256 x without y).
DidFlaws == {"bare", "prefix", "size", "uncompressed", "digits", "weak", "offcurve"}

Did(method, part, chain, codec, key, flaws) ==
    [method |-> method, part |-> part, chain |-> chain, codec |-> codec,
     key |-> key, flaws |-> flaws]

\* supports_did: by prefix; did:peer only knows variants 0z and 2.
supports_did(m, did) == did.method = m /\ (m = "peer" => did.part \in {"0z", "2."})

all_did_methods == <<"pkh", "key", "peer">> \o (IF DidAqua THEN <<"aqua">> ELSE <<>>)

find_did_method(did) ==
    LET found == {i \in DOMAIN all_did_methods : supports_did(all_did_methods[i], did)}
    IN  IF found = {} THEN "none" ELSE all_did_methods[Min(found)]

all_cipher_suites == {"eip155", "ed25519", "p256"}

\* address_from_did takes the last segment: any number of segments may precede it.
address_from_did(did) == FirstErr(<<
    ErrIf(did.flaws \cap {"bare", "prefix", "size"} # {}, "InvalidDid"),
    ErrIf("digits" \in did.flaws, "HexDecode")>>)

\* strict_verifying_key: a canonical point of the prime-order subgroup.
strict_verifying_key(did) == ErrIf("weak" \in did.flaws, "InvalidDid")

\* The key follows did:pkh:<ns>:0x directly.
HexKey(did) == FirstErr(<<
    ErrIf(did.flaws \cap {"bare", "prefix", "size", "uncompressed"} # {} \/ did.chain # 0,
          "InvalidDid"),
    ErrIf("digits" \in did.flaws, "HexDecode")>>)

pubkey_from_ed25519_did(did) == FirstErr(<<HexKey(did), strict_verifying_key(did)>>)

\* The point is not looked at here.
pubkey_from_p256_did(did) == HexKey(did)

extract_z_body(did) ==
    ErrIf(did.part \notin {"0z", "2."} \/ "prefix" \in did.flaws, "InvalidDid")

\* A wrong length is left to the callers, a 32-byte Ed25519 key must be strict.
decode_multibase_key(did) == FirstErr(<<
    ErrIf("digits" \in did.flaws, "InvalidDid"),
    ErrIf(did.codec \notin {"Ed25519", "P-256"}, "InvalidDid"),
    ErrIf(did.codec = "Ed25519" /\ "size" \notin did.flaws /\ strict_verifying_key(did) # "Ok",
          "InvalidDid")>>)

\* The body of a did:key or did:peer, decoded.
ZKey(did) == FirstErr(<<
    ErrIf(did.method = "key" /\ "prefix" \in did.flaws, "InvalidDid"),
    ErrIf(did.method = "peer" /\ extract_z_body(did) # "Ok", "InvalidDid"),
    decode_multibase_key(did)>>)

multihash_from_aqua_did(did) == ErrIf(did.flaws # {}, "InvalidDid")

validate_pkh(did) ==
    CASE did.part = "eip155"  -> address_from_did(did)
      [] did.part = "ed25519" -> pubkey_from_ed25519_did(did)
      [] did.part = "p256"    -> pubkey_from_p256_did(did)
      [] OTHER                -> "UnsupportedMethod"

validate_multibase_key_body(did) == FirstErr(<<
    ZKey(did), ErrIf(did.flaws \cap {"size", "uncompressed"} # {}, "InvalidDid")>>)

validate_did_well_formed(did) ==
    LET m == find_did_method(did)
    IN  CASE m = "pkh"            -> validate_pkh(did)
          [] m \in {"key","peer"} -> validate_multibase_key_body(did)
          [] m = "aqua"           -> multihash_from_aqua_did(did)
          [] OTHER                -> "UnsupportedMethod"

-----------------------------------------------------------------------------
(* The lines of a CAIP-122 message a DID determines *)

\* split_namespace needs the colon behind the namespace, parse_did_namespace does not.
split_namespace(did) == ErrIf("bare" \in did.flaws, "InvalidDid")

PkhLabel == [eip155 |-> "Ethereum", ed25519 |-> "Ed25519", p256 |-> "P-256"]

PkhErr(did) == FirstErr(<<
    split_namespace(did), ErrIf(did.part \notin all_cipher_suites, "UnsupportedMethod")>>)

\* eip155 wants chain:address, the other suites take the remainder as it is.
parse_did_parts(did) == ErrIf(did.part = "eip155" /\ did.chain = 0, "InvalidDid")

method_label_err(did) ==
    LET m == find_did_method(did)
    IN  CASE m = "pkh"            -> PkhErr(did)
          [] m \in {"key","peer"} -> ZKey(did)
          [] m = "aqua"           -> multihash_from_aqua_did(did)
          [] OTHER                -> "UnsupportedMethod"

method_label(did) ==
    CASE did.method = "pkh"  -> PkhLabel[did.part]
      [] did.method = "aqua" -> "ML-DSA-87"
      [] OTHER               -> did.codec

address_for_message_err(did) ==
    LET m == find_did_method(did)
    IN  CASE m = "pkh"  -> FirstErr(<<
               PkhErr(did), parse_did_parts(did),
               ErrIf(did.part = "eip155", address_from_did(did))>>)
          [] m = "key"  -> "Ok"
          [] m = "peer" -> extract_z_body(did)
          [] m = "aqua" -> multihash_from_aqua_did(did)
          [] OTHER      -> "UnsupportedMethod"

\* The identifier line: an address or a hex key for did:pkh, the z body otherwise.
address_for_message(did) ==
    [form  |-> IF did.method = "pkh" THEN "hex" ELSE "z",
     key   |-> did.key, codec |-> did.codec, flaws |-> did.flaws]

chain_id(did) == IF did.method = "pkh" /\ did.part = "eip155" THEN did.chain ELSE 0

\* build_message: what of the text depends on the DID, with the nonce.
build_message_err(did) == FirstErr(<<
    ErrIf(find_did_method(did) = "none", "UnsupportedMethod"),
    address_for_message_err(did), method_label_err(did)>>)

build_message(did, nonce) ==
    [surface |-> "caip122", label |-> method_label(did),
     identifier |-> address_for_message(did), nonce |-> nonce, chain |-> chain_id(did)]

-----------------------------------------------------------------------------
(* Signatures *)

\* A signature is the key that made it, what it was made over, and how its bytes
\* are spoilt: "size", "encoding" (no recovery id, no DER and no r||s).  An
\* ML-DSA signature also carries its hint section.
Signature(key, over, flaws, hint) ==
    [key |-> key, over |-> over, flaws |-> flaws, hint |-> hint]

\* A Signer owns a DID and signs with the key behind it; only did:aqua's also
\* offers its public key, which the verifier cannot obtain otherwise.
public_key(did) == IF did.method = "aqua" THEN did.key ELSE "none"

Signer(did) == [did |-> did, key |-> did.key, pk |-> public_key(did)]

\* The bytes of a hint section.
HintSections == [indices : [1..Omega -> Nat], cuts : [1..K -> Nat]]

NoHint == [indices |-> [i \in 1..Omega |-> 0], cuts |-> [i \in 1..K |-> 0]]

\* FIPS 204 HintBitUnpack as hint_encoding_is_canonical decides it: cumulative
\* counts are monotone and at most Omega, the indices beyond the last are zero,
\* and within one polynomial they strictly increase.
CutBefore(h, p) == IF p = 1 THEN 0 ELSE h.cuts[p - 1]

CutsOk(h) == \A p \in 1..K : CutBefore(h, p) <= h.cuts[p] /\ h.cuts[p] <= Omega

\* Starts one byte late.
UnusedButFirst(h) == \A i \in 1..Omega : i > h.cuts[K] + 1 => h.indices[i] = 0

UnusedZero(h) == \A i \in 1..Omega : i > h.cuts[K] => h.indices[i] = 0

Increasing(h) ==
    \A p \in 1..K : \A i \in 1..Omega - 1 :
        CutBefore(h, p) < i /\ i < h.cuts[p] => h.indices[i] < h.indices[i + 1]

hint_encoding_is_canonical(h) == CutsOk(h) /\ UnusedZero(h) /\ Increasing(h)

\* The hint vector an encoding stands for: the positions set in each polynomial.
HintBits(h) ==
    [p \in 1..K |-> {h.indices[i] : i \in {j \in 1..Omega : CutBefore(h, p) < j /\ j <= h.cuts[p]}}]

Valid(sig, key, msg) == IF sig.key = key /\ sig.over = msg THEN "true" ELSE "false"

\* Eip155Suite::verify recovers a key and compares addresses.
eip155_verify(did, msg, sig) ==
    LET e == FirstErr(<<
            address_from_did(did), ErrIf(sig.flaws # {}, "InvalidSignature")>>)
    IN  IF e = "Ok" THEN Valid(sig, did.key, msg) ELSE e

Ed25519Suite_verify(did, msg, sig) ==
    LET e == FirstErr(<<
            pubkey_from_ed25519_did(did), ErrIf("size" \in sig.flaws, "InvalidSignature")>>)
    IN  IF e # "Ok" THEN e
        ELSE IF "encoding" \in sig.flaws THEN "false" ELSE Valid(sig, did.key, msg)

P256Suite_verify(did, msg, sig) ==
    LET e == FirstErr(<<
            pubkey_from_p256_did(did),
            ErrIf("offcurve" \in did.flaws, "InvalidSignature"),
            ErrIf(sig.flaws # {}, "InvalidSignature")>>)
    IN  IF e = "Ok" THEN Valid(sig, did.key, msg) ELSE e

\* verify_with_key takes any point P-256 can decode, the uncompressed too.
verify_with_key(did, msg, sig) ==
    LET e == FirstErr(<<
            ZKey(did),
            ErrIf("size" \in did.flaws, "InvalidSignature"),
            ErrIf(did.codec = "P-256" /\ "offcurve" \in did.flaws, "InvalidSignature"),
            ErrIf(did.codec = "Ed25519" /\ "uncompressed" \in did.flaws, "InvalidSignature"),
            ErrIf("size" \in sig.flaws, "InvalidSignature"),
            ErrIf(did.codec = "P-256" /\ "encoding" \in sig.flaws, "InvalidSignature")>>)
    IN  IF e # "Ok" THEN e
        ELSE IF "encoding" \in sig.flaws THEN "false" ELSE Valid(sig, did.key, msg)

\* The DID is a hash of the key: only the committed key passes.
aqua_did_binds_pubkey(did, pk) == did.key = pk

\* A public key that is not there, or is not of an ML-DSA-87 key's length.
NotAKey == {"none", "short"}

\* Signature::decode of the ml-dsa crate unpacks the hint by the same algorithm
\* and refuses a z beyond its bound (an "encoding" flaw) on top.
Signature_decode(sig) ==
    /\ CutsOk(sig.hint) /\ UnusedZero(sig.hint) /\ Increasing(sig.hint)
    /\ "encoding" \notin sig.flaws

ml_dsa_verify(pk, msg, sig) ==
    LET e == FirstErr(<<
            ErrIf(pk \in NotAKey, "InvalidSignature"),
            ErrIf("size" \in sig.flaws, "InvalidSignature"),
            ErrIf(~hint_encoding_is_canonical(sig.hint), "InvalidSignature")>>)
    IN  IF e # "Ok" THEN e
        ELSE IF Signature_decode(sig) THEN Valid(sig, pk, msg) ELSE "false"

\* AquaMethod::verify_with_public_key: bind first, then verify.
aqua_verify(did, msg, sig, pk) ==
    LET e == FirstErr(<<ErrIf(pk = "none", "InvalidSignature"), multihash_from_aqua_did(did)>>)
    IN  IF e # "Ok" THEN e
        ELSE IF aqua_did_binds_pubkey(did, pk) THEN ml_dsa_verify(pk, msg, sig) ELSE "false"

pkh_verify(did, msg, sig) ==
    IF PkhErr(did) # "Ok" THEN PkhErr(did)
    ELSE CASE did.part = "eip155"  -> eip155_verify(did, msg, sig)
           [] did.part = "ed25519" -> Ed25519Suite_verify(did, msg, sig)
           [] OTHER                -> P256Suite_verify(did, msg, sig)

\* "true", "false" or an error.
verify_caip122_with_public_key(did, msg, sig, pk) ==
    LET m == find_did_method(did)
    IN  CASE m = "pkh"            -> pkh_verify(did, msg, sig)
          [] m \in {"key","peer"} -> verify_with_key(did, msg, sig)
          [] m = "aqua"           -> aqua_verify(did, msg, sig, pk)
          [] OTHER                -> "UnsupportedMethod"

\* Trusts the verifiers underneath with the shape of the DID.
authenticate_unchecked(did, msg, sig, pk) ==
    LET v == verify_caip122_with_public_key(did, msg, sig, pk)
    IN  CASE v = "true" -> "Ok" [] v = "false" -> "InvalidSignature" [] OTHER -> v

authenticate_with_public_key(did, msg, sig, pk) ==
    LET v == verify_caip122_with_public_key(did, msg, sig, pk)
        w == validate_did_well_formed(did)
    IN  IF w # "Ok" THEN w
        ELSE CASE v = "true" -> "Ok" [] v = "false" -> "InvalidSignature" [] OTHER -> v

\* authenticate: no key beside the DID.
authenticate(did, msg, sig) == authenticate_with_public_key(did, msg, sig, "none")
=============================================================================
