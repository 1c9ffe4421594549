------------------------- MODULE DatasetPublication -------------------------
(***************************************************************************)
(* What the materialization control plane promises about one dataset,      *)
(* without workers, leases or stores: builds are submitted, and each ends  *)
(* exactly once, either published or aborted; the build that is served is  *)
(* always a published one, and it changes only when a pending build is     *)
(* published, or when the dataset's data is withdrawn after a deletion.    *)
(***************************************************************************)
CONSTANTS Runs, NoRun

VARIABLES
    phase,   \* the life of each build
    served   \* the build whose rows readers are directed to

pubVars == <<phase, served>>

Init ==
    /\ phase = [r \in Runs |-> "none"]
    /\ served = NoRun

Submit(r) ==
    /\ phase[r] = "none"
    /\ phase' = [phase EXCEPT ![r] = "pending"]
    /\ UNCHANGED served

\* Publishing a build ends it and directs readers to it, in one step.
Publish(r) ==
    /\ phase[r] = "pending"
    /\ phase' = [phase EXCEPT ![r] = "published"]
    /\ served' = r

\* Any number of pending builds may be given up at once.
Abort(S) ==
    /\ \A r \in S : phase[r] = "pending"
    /\ phase' = [r \in Runs |-> IF r \in S THEN "aborted" ELSE phase[r]]
    /\ UNCHANGED served

Withdraw ==
    /\ served' = NoRun
    /\ UNCHANGED phase

Next ==
    \/ \E r \in Runs : Submit(r) \/ Publish(r)
    \/ \E S \in SUBSET Runs : Abort(S)
    \/ Withdraw

Spec == Init /\ [][Next]_pubVars
=============================================================================
