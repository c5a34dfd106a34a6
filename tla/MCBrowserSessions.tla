------------------------- MODULE MCBrowserSessions -------------------------
(***************************************************************************)
(* Two tabs of one browser; a user the second configuration no longer has; *)
(* a request for each binding; configurations that differ in the login     *)
(* mode, the secret and what they ask of a request.                        *)
(***************************************************************************)
EXTENDS BrowserSessions, TLC

CONSTANTS t1, t2, ann, bob, old, new, redirect, post

MCCompressed == {redirect}
MCNamesAcs == {post, redirect}
Open == [persona |-> TRUE, twoStep |-> FALSE, users |-> {ann, bob},
         secret |-> old, requireLogin |-> FALSE, signed |-> TRUE,
         certified |-> {redirect}, strict |-> FALSE, defaultAcs |-> FALSE]
Closed == [persona |-> FALSE, twoStep |-> TRUE, users |-> {ann},
           secret |-> new, requireLogin |-> TRUE, signed |-> TRUE,
           certified |-> {redirect, post}, strict |-> TRUE, defaultAcs |-> TRUE]
Lax == [Closed EXCEPT !.twoStep = FALSE, !.secret = NoSecret, !.signed = FALSE]
MCConfiguration == {Open, Closed, Lax}

(* The tabs are alike.                                                     *)
Tabs == Permutations({t1, t2})
=============================================================================
