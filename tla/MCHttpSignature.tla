---------------------------- MODULE MCHttpSignature ----------------------------
(* Four keys under several spellings, two authorities, two Signature-Agents.    *)
EXTENDS HttpSignature

CONSTANTS ek, qk, hk, pk   \* an Ed25519, an ML-DSA-87, a secp256k1 and a P-256 key

KeyDid(codec, k, f) == Did("key", "z", 0, codec, k, f)
Ed == KeyDid("Ed25519", ek, {})
EdPeer == Did("peer", "0z", 0, "Ed25519", ek, {})
EdPkh == Did("pkh", "ed25519", 0, "", ek, {})
Eth == Did("pkh", "eip155", 1, "", hk, {})
EthBare == Did("pkh", "eip155", 0, "", hk, {})
P256 == KeyDid("P-256", pk, {})
P256Long == KeyDid("P-256", pk, {"uncompressed"})
Aqua == Did("aqua", "z", 0, "", qk, {})

MCSigners == {Signer(Ed), Signer(EthBare), Signer(P256Long), Signer(Aqua)}
MCDids == {Ed, EdPeer, EdPkh, Eth, EthBare, P256, P256Long, Aqua,
           KeyDid("Ed25519", ek, {"weak"}), Did("web", "", 0, "", ek, {})}

Uri(s, h, p) == [scheme |-> s, host |-> h, port |-> p]
Agent(t, padded) == [text |-> t, pad |-> padded]
MCParts == {
    [uri |-> Uri("https", "a", 443),  agent |-> NoHeader],
    [uri |-> Uri("https", "a", 0),    agent |-> Agent("x", TRUE)],
    [uri |-> Uri("http", "a", 443),   agent |-> Agent("x", FALSE)],
    [uri |-> Uri("https", "a", 0),    agent |-> Agent(NonAscii, FALSE)],
    [uri |-> Uri("ftp", "a", 0),      agent |-> Agent("", TRUE)]}

MCHints == [indices : [1..Omega -> 0..1], cuts : [1..K -> 0..Omega + 1]]
=============================================================================
