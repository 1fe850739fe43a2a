----------------------------- MODULE Compliance -----------------------------
(***************************************************************************)
(* The compliance evaluation of a scan (backend/core/compliance.py) and    *)
(* the overall status its PDF prints (backend/api/v1/compliance.py).       *)
(*                                                                         *)
(* `status` gives the review status of each finding that was read; a       *)
(* control stands for the findings that its keyword test matches.          *)
(***************************************************************************)
EXTENDS FiniteSets

Actionable(status) == {f \in DOMAIN status : status[f] /= "false_positive"}

\* Mutant: everything that is not open counts as settled.
ControlStatus_OpenOnly(control, status) ==
    LET matched == control \cap {f \in DOMAIN status : status[f] = "open"}
    IN IF matched = {} THEN "COMPLIANT" ELSE "REVIEW"

\* One control of evaluate_framework.
ControlStatus(control, status) ==
    LET matched == control \cap Actionable(status)
    IN CASE matched = {}                               -> "COMPLIANT"
         [] \E f \in matched : status[f] = "confirmed" -> "NON-COMPLIANT"
         [] OTHER                                      -> "REVIEW"

\* The worst status of any control.
Overall(controls, status) ==
    LET results == {ControlStatus(c, status) : c \in controls}
    IN IF "NON-COMPLIANT" \in results THEN "NON-COMPLIANT"
       ELSE IF "REVIEW" \in results THEN "REVIEW" ELSE "COMPLIANT"
=============================================================================
