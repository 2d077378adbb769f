--------------------------- MODULE MCScreeningParts ---------------------------
(* What the screening's loop rests on, each on a small instance: the state   *)
(* database, the division of the machine's cost, and continuations.  They    *)
(* share no state: `part` names the one that moves in a behaviour.           *)
EXTENDS MCScreeningScheduler, VmCost, Continuation

VARIABLE part

\* Two versions cut an attempt off, after three calls and after two.
MCLimit == [v \in CnVersions |-> CASE v = 1 -> 3 [] v = 4 -> 2 [] OTHER -> NoLimit]

PartsInit ==
    /\ part \in {"database", "machine", "continuation"}
    /\ Init /\ VmInit /\ CnInit
    /\ part # "continuation" => chain[1].version = 1

PartsNext ==
    \/ part = "database" /\ Next /\ UNCHANGED <<part, vmVars, cnVars>>
    \/ part = "machine" /\ VmNext /\ UNCHANGED <<part, vars, cnVars>>
    \/ part = "continuation" /\ CnNext /\ UNCHANGED <<part, vars, vmVars>>

PartsSpec == PartsInit /\ [][PartsNext]_<<part, vars, vmVars, cnVars>>
=============================================================================
