--------------------------- MODULE MCPasskeyLogin ---------------------------
(* PasskeyLogin on a small instance.                                         *)
EXTENDS PasskeyLogin, TLC

Shared == <<"inblock", "io">>
Legacy == <<"siwx", "inblock", "io">>
App == <<"app", "inblock", "io">>
Lookalike == <<"evilinblock", "io">>
Partner == <<"partner", "example">>
Address == <<"10", "0", "0", "1">>

Rp(host) == [host |-> host, plain |-> TRUE, ip |-> FALSE]
Origin(scheme, host) ==
    [scheme |-> scheme, host |-> host, port |-> 0, plain |-> TRUE, ip |-> host = Address, bare |-> TRUE]
Call(rp, origins, related) == [rp |-> rp, origins |-> origins, related |-> related]

\* Two good calls, the second with a related origin, and the refusals of add_rp.
AllCalls ==
    {Call(Rp(Shared \o <<"">>), {Origin("https", App), Origin("https", App \o <<"">>)}, {}),
     Call(Rp(Legacy), {Origin("https", Legacy)}, {Origin("https", Partner)}),
     Call(Rp(Shared), {Origin("https", Partner)}, {}),
     Call(Rp(Shared), {Origin("https", Lookalike)}, {}),
     Call(Rp(Legacy), {}, {Origin("https", Address)}),
     Call(Rp(Legacy), {Origin("http", Legacy)}, {}),
     Call(Rp(Legacy), {[Origin("https", Legacy) EXCEPT !.bare = FALSE]}, {}),
     Call(Rp(<<"io">>), {Origin("https", Shared)}, {}),
     Call(Rp(Legacy), {}, {})}

\* A page within its RP ID, a related one whose passkey does not verify the user,
\* and one asserting for an RP ID it is not related to.
Page(rp_id, host, flaw) ==
    [rp_id |-> rp_id, origin |-> normalise_origin(Origin("https", host)), flaw |-> flaw]
AllPages == {Page(Shared, App, "none"), Page(Legacy, Partner, "unverified"), Page(Shared, Partner, "none")}

Symmetry == Permutations(Keys) \cup Permutations(Credentials) \cup Permutations(Derived)

Urls == [n \in Nodes |-> Origin("https", <<n, "inblock", "io">>)]
=============================================================================
