-------------------------------- MODULE MCKeys ------------------------------
(* Two directories, two rotating requests, and keys for three generations  *)
(* of one directory and one of the other.                                  *)
EXTENDS Keys, TLC

Symmetry == Permutations(Key) \cup Permutations(Dir) \cup Permutations(Service)
              \cup Permutations(Thread)
=============================================================================
