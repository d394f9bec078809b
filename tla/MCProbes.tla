------------------------------ MODULE MCProbes ------------------------------
(***************************************************************************)
(* Bounds for Probes: every kind of probe; two probers of the kinds that   *)
(* share something in the process, one of the others; two keys, one of     *)
(* them without a value; two disks; MaxStuck readers left behind.          *)
(***************************************************************************)
EXTENDS Probes

CONSTANTS
  Solo,        \* the prober that also runs alone
  MaxStuck     \* bound: readers that wait for ever, per prober

MCExpressions ==
  { [variables |-> <<"int", "length">>, functions |-> <<"duration">>],
    [variables |-> <<"string">>, functions |-> <<"length", "int">>] }

\* Settings of one's own, and expressions, only matter to some kinds.
MCInit ==
  /\ Init
  /\ kind \notin Sharing => owners = {}
  /\ doc = "none" => expr = CHOOSE e \in MCExpressions : TRUE

MCNext ==
  \E p \in Probers :
    /\ kind \in Sharing \/ p = Solo
    /\ \/ stuck[p] < MaxStuck /\ Begin(p)
       \/ Step(p)
       \/ PongArrives(p)

MCSpec == MCInit /\ [][MCNext]_vars /\ Fairness
=============================================================================
