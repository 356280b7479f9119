------------------------------ MODULE MCKVCache ------------------------------
(* KVCache on small instances: model values for pages and requests.        *)
EXTENDS KVCacheSharing, TLC
CONSTANTS p1, p2, p3, p4, r1, r2, a, b

MCToken == {a, b}
TwoReqs == {r1, r2}
FourPages == {p1, p2, p3, p4}
ThreePages == {p1, p2, p3}

\* Prompts that share a prefix, extend one another, and part.
TokenPrompts == {<<a, b>>, <<a, a>>, <<a, b, a>>}
PagePrompts == {<<a, b, a>>, <<a, b, b, a>>, <<a, a>>}

Symmetry == Permutations(FourPages) \cup Permutations(TwoReqs)
Symmetry3 == Permutations(ThreePages) \cup Permutations(TwoReqs)
=============================================================================
