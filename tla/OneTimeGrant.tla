---------------------------- MODULE OneTimeGrant ----------------------------
(***************************************************************************)
(* What every one-time credential store of nanoidp promises: a grant is    *)
(* handed out once, is redeemed by at most one request, and only while it  *)
(* is open; a grant that was closed - redeemed, expired, denied or thrown  *)
(* away - is never opened again.  AuthCodeStore and DeviceCodeStore are    *)
(* shown to implement this specification.                                  *)
(***************************************************************************)
CONSTANTS
  Grant,        \* the identities grants are handed out under
  Redeemer      \* the requests that may redeem them

VARIABLES
  standing,     \* standing[g]: what has become of grant g
  redeemers     \* redeemers[g]: the requests that were answered with g

oneTimeVars == <<standing, redeemers>>

Standing == {"unissued", "open", "closed"}

OneTimeType ==
  /\ standing \in [Grant -> Standing]
  /\ redeemers \in [Grant -> SUBSET Redeemer]

OneTimeInit ==
  /\ standing = [g \in Grant |-> "unissued"]
  /\ redeemers = [g \in Grant |-> {}]

LegalMove(before, after) ==
  \/ after = before
  \/ before = "unissued" /\ after = "open"
  \/ before = "open" /\ after = "closed"

(* Handing out, expiring and throwing away: one call of a store may do     *)
(* this to many grants at once, and answers nobody with any of them.       *)
Manage ==
  /\ standing' \in [Grant -> Standing]
  /\ \A g \in Grant : LegalMove(standing[g], standing'[g])
  /\ UNCHANGED redeemers

RedeemGrant(g, r) ==
  /\ standing[g] = "open"
  /\ standing' = [standing EXCEPT ![g] = "closed"]
  /\ redeemers' = [redeemers EXCEPT ![g] = @ \cup {r}]

OneTimeNext == Manage \/ \E g \in Grant, r \in Redeemer : RedeemGrant(g, r)

OneTimeSpec == OneTimeInit /\ [][OneTimeNext]_oneTimeVars

(* At most one request is ever answered with a grant, and only a grant     *)
(* that is closed has been.                                                *)
AtMostOneRedeemer ==
  \A g \in Grant :
    /\ \A q, r \in redeemers[g] : q = r
    /\ redeemers[g] # {} => standing[g] = "closed"
=============================================================================
