----------------------------- MODULE GceInstance -----------------------------
(***************************************************************************)
(* The Compute Engine instance that hosts the Valheim server, as the code  *)
(* of the repository sees it (external): its status, the external address  *)
(* that comes with a boot, and the two requests that move it.              *)
(*                                                                         *)
(* PROVISIONING is folded into STAGING: no code tells them apart.  A       *)
(* request returns once it is enqueued; the transition itself completes    *)
(* later (Staged, Halted).                                                 *)
(***************************************************************************)
VARIABLES
    status,     \* the instance status that instances.get reports
    natIp       \* whether an external address is attached

gceVars == <<status, natIp>>

Status == {"TERMINATED", "STAGING", "RUNNING", "STOPPING"}

GceTypeOK ==
    /\ status \in Status
    /\ natIp \in BOOLEAN

GceInit ==
    /\ status = "TERMINATED"
    /\ natIp = FALSE

(* What an accepted start or stop request does to each status.  A start    *)
(* that meets an instance still STOPPING is accepted and has no effect: it *)
(* cannot boot an instance that has not come down yet.                     *)
AfterStart(s) == IF s = "TERMINATED" THEN "STAGING" ELSE s

AfterStop(s) == IF s \in {"STAGING", "RUNNING"} THEN "STOPPING" ELSE s

Start ==
    /\ status' = AfterStart(status)
    /\ UNCHANGED natIp

Stop ==
    /\ status' = AfterStop(status)
    /\ UNCHANGED natIp

(* The address is attached while the instance comes up, possibly after the *)
(* status already reads RUNNING.                                           *)
AssignIp ==
    /\ status \in {"STAGING", "RUNNING"}
    /\ ~natIp
    /\ natIp' = TRUE
    /\ UNCHANGED status

Staged ==
    /\ status = "STAGING"
    /\ status' = "RUNNING"
    /\ UNCHANGED natIp

Halted ==
    /\ status = "STOPPING"
    /\ status' = "TERMINATED"
    /\ natIp' = FALSE

==============================================================================
