--------------------------- MODULE MCKeyDirectory ---------------------------
(* KeyDirectory on a small instance.                                         *)
EXTENDS KeyDirectory, TLC

Key(did, nbf, exp) == [did |-> did, nbf |-> nbf, exp |-> exp]

\* A rotation with an overlap, a key within the window of another, two that become
\* valid together, a gap no key covers, and two registrations that are refused.
Windows ==
    {Key("A", 0, 5), Key("B", 2, 6), Key("C", 2, 4), Key("A", 7, 9),
     Key("B", 2, 2), Key("pkh", 1, 8)}

Symmetry == Permutations(Verifiers)
=============================================================================
