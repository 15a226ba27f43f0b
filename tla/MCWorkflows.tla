---------------------------- MODULE MCWorkflows ------------------------------
(* A workflow of two tasks, updates with one task and with edges, one that *)
(* is not valid, launches through the API and by a schedule.               *)
EXTENDS WorkflowsProperties

CONSTANTS post, put, again, drawn, broken, t1, t2

BodyTasks(r) == IF r = put THEN {t1} ELSE IF r = broken THEN {} ELSE {t1, t2}
=============================================================================
