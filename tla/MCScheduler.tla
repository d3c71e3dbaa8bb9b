------------------------------ MODULE MCScheduler ------------------------------
(* Small instances: container c1 has a volust.name label, c2 has none, and *)
(* bad has labels that do not parse.                                       *)
EXTENDS Scheduler

CONSTANTS c1, c2, bad, n1, n2
===============================================================================
