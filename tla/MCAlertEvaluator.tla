-------------------------- MODULE MCAlertEvaluator --------------------------
(* Small instances of AlertEvaluator for TLC.                              *)
EXTENDS AlertEvaluator

(* A rule "value > 1" and its variants; samples are 1 (calm) and 2.        *)
Rule(enabled, for, resend) ==
  [enabled |-> enabled, sampled |-> TRUE, op |-> ">", threshold |-> 1,
   upsideDown |-> FALSE, for |-> for, resend |-> resend]

Inverted == [Rule(TRUE, 0, 0) EXCEPT !.op = "<=", !.upsideDown = TRUE]
Absence == [Rule(TRUE, 0, 0) EXCEPT !.sampled = FALSE]

OneRule == {1}
OneDevice == {1}
TwoValues == {1, 2}

OnceRows == {Rule(TRUE, 0, 0), Rule(TRUE, 1, 0), Rule(FALSE, 0, 0), Inverted, Absence}
ResendRows == {Rule(TRUE, 0, 2), Rule(TRUE, 1, 2), Rule(FALSE, 0, 2)}
ForRows == {Rule(TRUE, 2, 0)}
=============================================================================
