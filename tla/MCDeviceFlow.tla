---------------------------- MODULE MCDeviceFlow ----------------------------
(***************************************************************************)
(* Two device codes that draw the same user code, three requests, and a    *)
(* client that loses a scope and its secret, or its registration, on the   *)
(* way: entries collide, fill the store, expire, are pruned by the         *)
(* creation of another, and are approved under rules that no longer hold.  *)
(***************************************************************************)
EXTENDS DeviceFlow, TLC

CONSTANTS tv, openid, mail

Registered(method, scopes) == [method |-> method, scopes |-> scopes, resources |-> {}]
Free == [passwordGrant |-> TRUE, persona |-> FALSE, twoStep |-> TRUE, enforced |-> FALSE,
         vocabulary |-> {}, clients |-> tv :> Registered("post", {})]
Strict == [passwordGrant |-> FALSE, persona |-> TRUE, twoStep |-> FALSE, enforced |-> TRUE,
           vocabulary |-> Scope, clients |-> tv :> Registered("none", {openid})]
Without == [Free EXCEPT !.clients = tv :> None]
MCConfigs == {Free, Strict, Without}

(* The password and client_credentials grants neither read nor write the   *)
(* store: one request of theirs by itself meets all there is for them.     *)
Direct(q) == req'[q].kind \in {"password", "client_credentials"}
DirectGrantsAlone ==
  (\E q \in Request : Direct(q)) =>
    \E q \in Request : codes' = {} /\ \A p \in Request \ {q} : req'[p] = Idle

Symmetry == Permutations(Code) \cup Permutations(UserCode)
              \cup Permutations(User) \cup Permutations(Request)
=============================================================================
