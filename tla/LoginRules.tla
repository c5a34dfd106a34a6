------------------------------ MODULE LoginRules ------------------------------
(***************************************************************************)
(* What every form with a username and a password decides: two_step_phase  *)
(* (routes/_auth.py) and interactive_authenticate (config.py).  A password *)
(* is right or wrong for the user it comes with; the field can be blank or *)
(* missing.  A username is Blank where the field is.                       *)
(***************************************************************************)
CONSTANT Blank

Password == {"right", "wrong", "blank", "absent"}
Filled(password) == password \in {"right", "wrong"}

(* `fresh' says that the form has no field for a username.                 *)
TwoStepPhase(active, user, password, fresh) ==
  IF ~ active THEN "attempt"
  ELSE IF ~ fresh /\ user = Blank THEN "username_required"
  ELSE IF Filled(password) THEN "attempt"
  ELSE IF password = "blank" THEN "password_required"
  ELSE "username_step"

Authenticates(persona, users, user, password) ==
  user \in users /\ (~ persona => password = "right")
=============================================================================
