------------------------------- MODULE Checks -------------------------------
(***************************************************************************)
(* A constructor or factory that validates its arguments is the list of    *)
(* its checks, in order: each pairs the condition under which it throws    *)
(* with the code it throws.                                                *)
(***************************************************************************)
EXTENDS Naturals, Sequences

(* A list of checks passes when no condition holds; otherwise the first     *)
(* one that holds decides the code.                                         *)
Passes(checks) == \A i \in DOMAIN checks : ~checks[i][1]

Code(checks) ==
  LET first == CHOOSE i \in DOMAIN checks :
                 /\ checks[i][1]
                 /\ \A j \in 1..(i - 1) : ~checks[j][1]
  IN  checks[first][2]

Verdict(checks) == IF Passes(checks) THEN "sealed" ELSE Code(checks)
=============================================================================
