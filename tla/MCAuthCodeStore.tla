--------------------------- MODULE MCAuthCodeStore --------------------------
(* Two codes and two requests are enough for a double redemption, for one  *)
(* code's life to overlap another's, and for one to be swept by the        *)
(* issuance of the other.                                                  *)
EXTENDS AuthCodeStore, TLC

Symmetry == Permutations(Code) \cup Permutations(Client) \cup Permutations(RedirectUri)
              \cup Permutations(Verifier) \cup Permutations(Request)
=============================================================================
