---------------------------- MODULE MCConformance ----------------------------
(* A loopback server under two spellings of its origin, and one behind a proxy. *)
EXTENDS Conformance

Url(s, h, p) == [scheme |-> s, host |-> h, port |-> p]
Local == Url("http", "127.0.0.1", 0)
LocalPort == Url("http", "127.0.0.1", 80)
Public == Url("https", "aqua.example", 0)

MCUrls == {Local, Public}
\* No ChallengeStore and no binding of public_key: the two defects the suite misses.
MCTrusting == [kind : {"trusting"}, uri : {LocalPort}]

MCServers == [kind : Kinds, uri : {LocalPort}] \cup [kind : {"reference"}, uri : {Public}]
=============================================================================
