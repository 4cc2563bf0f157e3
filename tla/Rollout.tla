------------------------------ MODULE Rollout ------------------------------
(***************************************************************************)
(* What a cluster deploy promises about the nodes themselves: the master   *)
(* applies its configuration before any other node begins, unless the      *)
(* operator released that node by hand, and the cluster is finalized once, *)
(* when every node has applied. Nothing is said of how the driver and the  *)
(* nodes bring it about.                                                   *)
(***************************************************************************)
CONSTANTS Nodes, Master

VARIABLES
    phase,     \* node -> how far its apply is
    excused,   \* nodes an operator released out of order
    final      \* the cluster was finalized

vars == <<phase, excused, final>>

TypeOK ==
    /\ phase \in [Nodes -> {"waiting", "applying", "applied", "failed"}]
    /\ excused \subseteq Nodes
    /\ final \in BOOLEAN

Init ==
    /\ phase = [n \in Nodes |-> "waiting"]
    /\ excused = {}
    /\ final = FALSE

Begin(n) ==
    /\ phase[n] = "waiting"
    /\ n = Master \/ phase[Master] = "applied" \/ n \in excused
    /\ phase' = [phase EXCEPT ![n] = "applying"]
    /\ UNCHANGED <<excused, final>>

(* A two-phase apply reboots and begins again; a failed one may be final.  *)
End(n) ==
    /\ phase[n] = "applying"
    /\ \E p \in {"waiting", "applied", "failed"} : phase' = [phase EXCEPT ![n] = p]
    /\ UNCHANGED <<excused, final>>

Release(n) ==
    /\ excused' = excused \cup {n}
    /\ UNCHANGED <<phase, final>>

Finalize ==
    /\ ~final /\ \A n \in Nodes : phase[n] = "applied"
    /\ final' = TRUE
    /\ UNCHANGED <<phase, excused>>

Next ==
    \/ \E n \in Nodes : Begin(n) \/ End(n) \/ Release(n)
    \/ Finalize

Spec == Init /\ [][Next]_vars
=============================================================================
