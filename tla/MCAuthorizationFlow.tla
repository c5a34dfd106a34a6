------------------------- MODULE MCAuthorizationFlow ------------------------
(***************************************************************************)
(* AuthorizationFlow for TLC: a confidential client without registrations  *)
(* (web), a public one that is pinned down (spa), and an operator who      *)
(* moves between the dev profile and oauth21.                              *)
(***************************************************************************)
EXTENDS AuthorizationFlow, TLC

CONSTANTS web, spa, cb1, cb1x, cb2, s1, r1, v1, u1, openid

Openid == {openid}

(* The public client registers cb1 and listens on another port.            *)
MCLoopback == {cb1, cb1x}
MCPortless == [u \in MCLoopback |-> cb1]

Open21(clients, users) ==
  [pkceRequired |-> TRUE, plainAllowed |-> FALSE, oauth21 |-> TRUE, enforced |-> TRUE,
   autoLogin |-> FALSE, vocabulary |-> {openid}, users |-> users, clients |-> clients]

Dev(clients, users) ==
  [pkceRequired |-> FALSE, plainAllowed |-> TRUE, oauth21 |-> FALSE, enforced |-> FALSE,
   autoLogin |-> TRUE, vocabulary |-> {openid}, users |-> users, clients |-> clients]

Web(redirects) == [public |-> FALSE, redirects |-> redirects, scopes |-> {}, resources |-> {}]
Spa == [public |-> TRUE, redirects |-> {cb1}, scopes |-> {openid}, resources |-> {}]

Clients(w, s) == [c \in Client |-> IF c = web THEN w ELSE s]

ProfileConfigs ==
  {Dev(Clients(Web({}), Spa), {u1}),
   Open21(Clients(Web({cb2}), Spa), {u1})}

Query(client, redirect, scope, challenge, method, resource) ==
  [type |-> "code", client |-> client, redirect |-> redirect, scope |-> scope,
   challenge |-> challenge, method |-> method, resource |-> resource]

Symmetry == Permutations(Tab)

TabQueries ==
  {Query(spa, cb1x, {openid}, <<"S256", v1>>, "S256", {r1}),
   Query(web, cb2, Absent, Absent, Absent, Absent),
   Query(web, cb1, {s1}, <<"plain", v1>>, None, {r1})}
=============================================================================
