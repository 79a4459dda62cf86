---------------------------- MODULE MCAssistantLoop ----------------------------
(* Small instances of AssistantLoop for TLC. *)
EXTENDS AssistantLoop

CONSTANTS describe, ahp, download, transform, x, y, r1

\* Two tools that run at once and two that are gated; the weighting may fail over
\* a criterion named after the word that plan_request looks for.
MCHigh == {download, transform}
MCOffline == [tool |-> describe, args |-> x]
MCValid == {MCOffline} \cup [tool : Tools \ {describe}, args : {y}]
             \cup [tool : {download}, args : {x}]
MCQuoting == [tool : {ahp}, args : {y}]
================================================================================
