------------------------------ MODULE GrantRules ----------------------------
(***************************************************************************)
(* The rules every grant of /token applies to scopes and RFC 8707 resource *)
(* indicators: services/scope.py, services/resource.py and                 *)
(* _resolve_token_resource of routes/oauth_grants.py.                      *)
(*                                                                         *)
(* A scope string is the set of its words; {} is both the absent and the   *)
(* empty one, which the code never tells apart (`if not requested`).  A    *)
(* client's allow-list is a set too, and {} means "no restriction".        *)
(***************************************************************************)
(* resolve_scope, first half: what is being asked for once an omission is  *)
(* resolved.  validateOnly is set where an earlier step already granted a  *)
(* scope (code, device code, refresh token): an absent scope stays absent. *)
EffectiveScope(requested, allowed, enforced, default, validateOnly) ==
  IF validateOnly \/ requested # {} THEN requested
  ELSE IF enforced /\ allowed # {} THEN allowed
  ELSE default

(* resolve_scope, second half: no check at all while enforcement is off.   *)
ScopeAllowed(scope, vocabulary, allowed, enforced) ==
  enforced => /\ scope \subseteq vocabulary
              /\ allowed # {} => scope \subseteq allowed

(* resolve_resources against the client's allow-list.                      *)
ResourcesAllowed(requested, allowed) == allowed # {} => requested \subseteq allowed

(* _resolve_token_resource where an earlier step bound the set original,   *)
(* {} included: a request may narrow it and not widen it; without          *)
(* `resource` it inherits original, checked against the allow-list of      *)
(* today.                                                                  *)
TokenResourceGranted(requested, original) ==
  IF requested = {} THEN original ELSE requested

TokenResourceAllowed(requested, original, allowed) ==
  /\ ResourcesAllowed(TokenResourceGranted(requested, original), allowed)
  /\ requested \subseteq original
=============================================================================
