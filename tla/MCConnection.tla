---------------------------- MODULE MCConnection ----------------------------
(* Instances of Connection for TLC. *)
EXTENDS Connection

CONSTANT publisher

(* As many attempts as there are faults (five and three in the code), so    *)
(* that each caller's giving up is reached.                                 *)
MCLimit == [c \in Callers |-> MaxFaults]
=============================================================================
