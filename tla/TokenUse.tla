------------------------------- MODULE TokenUse -------------------------------
(***************************************************************************)
(* What the endpoints that are shown a token say of it: /introspect and    *)
(* /userinfo (routes/oauth.py), in the states RefreshGrant brings about.   *)
(* They change nothing but the audit log, so they are operators here and   *)
(* no actions.  A token stands for itself; the ID token and the access     *)
(* token minted beside a refresh token have a jti of their own.            *)
(***************************************************************************)
EXTENDS RefreshGrant

(* verify_jwt without an audience: signature and expiry.                   *)
Verifies(t) == Live(t)

(* /introspect is for confidential clients, and looks for the token's own  *)
(* jti among the revoked ones, not for its family.                         *)
MayIntrospect(client) ==
  config.clients[client] # None /\ ~ config.clients[client].public

Active(client, t) == MayIntrospect(client) /\ Verifies(t) /\ ~ IsRevoked(t)

(* /userinfo is a resource server's own: it takes access tokens, and those *)
(* that name no other resource (oauth.audience is theirs).                 *)
Informs(t) ==
  /\ Verifies(t)
  /\ tokens[t].audience = {}
  /\ tokens[t].kind = "access"
  /\ ~ IsRevoked(t)

(* The refresh grant would refuse t as reused.                             *)
Reused(t) == ReuseDetected(t, tokens[t].family, now)

-----------------------------------------------------------------------------
(* The endpoints agree on a live refresh token, although /introspect reads *)
(* the store without its lock and without a sweep: what it calls inactive  *)
(* the grant refuses, however it was revoked and whatever has been swept   *)
(* since; what it calls active the grant refuses only where the family was *)
(* burnt, for which the token itself is not looked at.                     *)
EndpointsAgree ==
  \A c \in Client, t \in TokenId :
    MayIntrospect(c) /\ Live(t) /\ tokens[t].kind = "refresh" =>
      /\ ~ Active(c, t) => Reused(t)
      /\ Active(c, t) /\ Reused(t) => FamilyRevoked(tokens[t].family, now)

(* A token that was revoked on its own exp is nobody's any more: neither   *)
(* introspected as active nor good for /userinfo until it expires.         *)
RevokedIsUseless ==
  \A t \in kept, c \in Client : ~ Active(c, t) /\ ~ Informs(t)
=============================================================================
