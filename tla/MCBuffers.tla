----------------------------- MODULE MCBuffers -----------------------------
(* BufferCache for TLC: users and blocks are interchangeable.              *)
EXTENDS BufferCache

Symmetry == Permutations(Users) \cup Permutations(Blocks)

=============================================================================
