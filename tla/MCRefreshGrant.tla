---------------------------- MODULE MCRefreshGrant --------------------------
EXTENDS TokenUse, TLC

CONSTANTS web, spa, s1, s2, r1, r2

Registered(public, scopes, resources) ==
  [public |-> public, scopes |-> scopes, resources |-> resources]

(* Rotation: the operator turns the setting on and off, and turns the      *)
(* client into a public one, which rotates whatever the setting says.      *)
RotationConfigs ==
  {[rotation |-> FALSE, enforced |-> FALSE, vocabulary |-> {}, users |-> User,
    clients |-> (web :> Registered(public, {}, {}))] : public \in BOOLEAN}
  \cup
  {[rotation |-> TRUE, enforced |-> FALSE, vocabulary |-> {}, users |-> User,
    clients |-> (web :> Registered(FALSE, {}, {}))]}

(* Narrowing: web is unrestricted, restricted to one scope and one         *)
(* resource, or gone; spa stays as it is; enforcement is on or off.        *)
NarrowingConfigs ==
  {[rotation |-> FALSE, enforced |-> e, vocabulary |-> Scope, users |-> User,
    clients |-> (web :> p) @@ (spa :> Registered(TRUE, {}, {}))] :
      e \in BOOLEAN,
      p \in {Registered(FALSE, {}, {}), Registered(FALSE, {s1}, {r1}), None}}

Symmetry == Permutations(TokenId) \cup Permutations(Family) \cup Permutations(Request)
=============================================================================
