----------------------------- MODULE MCEthDriver -----------------------------
(* Instances of EthDriver for TLC. *)
EXTENDS EthDriver, TLC

BufferSymmetry == Permutations(Buffers)
EthSymmetry == Permutations(Buffers) \cup Permutations(Freers)
=============================================================================
