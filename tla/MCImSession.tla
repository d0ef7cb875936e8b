----------------------------- MODULE MCImSession -----------------------------
EXTENDS ImSession, TLC

CONSTANTS s1, s2

One == {<<s1>>}
Both == {<<s1>>, <<s1, s2>>}
Symmetry == Permutations(Node)

=============================================================================
