-------------------------- MODULE MCRegistryUploads --------------------------
EXTENDS RegistryUploads, TLC

CONSTANT a

MCChunk == {a}
MCBodies == {<<>>, <<a>>, <<a, a>>}
MCOneBody == {<<>>, <<a>>}
MCSingleBody == {<<a>>}
Symmetry == Permutations(Caller)
=============================================================================
