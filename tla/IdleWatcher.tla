----------------------------- MODULE IdleWatcher -----------------------------
(***************************************************************************)
(* The Cloud Function that stops an idle VM                                *)
(* (infra/modules/gcp-idle-watcher/function/main.py).  Cloud Scheduler     *)
(* runs one tick at a time, without retries; a tick reads the instance,    *)
(* probes the status endpoint, reads the counter from the state bucket and *)
(* either writes it back or stops the VM and clears it.  Every call is a   *)
(* step of its own: the instance may change under a tick, and a tick may   *)
(* die between any two calls.                                              *)
(*                                                                         *)
(* Here the instance status and the probe's answer are arbitrary;          *)
(* IdleShutdown gives them the VM, the daemon and the players.             *)
(***************************************************************************)
EXTENDS Naturals

CONSTANT EmptyChecksToStop      \* EMPTY_CHECKS_TO_STOP

ASSUME EmptyChecksAssumption == EmptyChecksToStop \in Nat \ {0}

VARIABLES
    status,         \* the instance status (see GceInstance)
    natIp,          \* whether the instance has an address
    blob,           \* consecutive_empty in state-valheim.json
    pc,             \* the next call of the running tick, "idle" between ticks
    reading,        \* is_active: what this tick's probe answered
    toWrite,        \* the argument of the pending _write_state
    emptyRun,       \* history: empty readings in a row since players were
                    \* seen, the VM was seen down, or this watcher stopped
                    \* it, up to EmptyChecksToStop
    lostReset       \* history: a tick died owing the bucket a zero, and no
                    \* zero has been written since

instanceVars == <<status, natIp>>
tickVars == <<blob, pc, reading, toWrite>>
historyVars == <<emptyRun, lostReset>>
vars == <<instanceVars, tickVars, historyVars>>

Gce == INSTANCE GceInstance

(* True, False and None of a probe.                                        *)
Readings == {"active", "empty", "unknown"}

WatcherInit ==
    /\ blob = 0
    /\ pc = "idle"
    /\ reading = "unknown"
    /\ toWrite = 0
    /\ emptyRun = 0
    /\ lostReset = FALSE

Init == Gce!GceInit /\ WatcherInit

-----------------------------------------------------------------------------
(* instances.get and the two early outcomes of _process_target: an         *)
(* instance that is not RUNNING resets the counter, one without an address *)
(* ends the tick and leaves the counter alone.                             *)
TickNotRunning ==
    /\ pc = "idle"
    /\ status # "RUNNING"
    /\ pc' = "write"
    /\ toWrite' = 0
    /\ emptyRun' = 0
    /\ UNCHANGED <<instanceVars, blob, reading, lostReset>>

TickNoAddress ==
    /\ pc = "idle"
    /\ status = "RUNNING"
    /\ ~natIp
    /\ UNCHANGED vars

TickRunning ==
    /\ pc = "idle"
    /\ status = "RUNNING"
    /\ natIp
    /\ pc' = "probe"
    /\ UNCHANGED <<instanceVars, blob, reading, toWrite, historyVars>>

TickStart == TickNotRunning \/ TickNoAddress \/ TickRunning

(* A tick's local variables go with it.                                    *)
EndTick ==
    /\ pc' = "idle"
    /\ reading' = "unknown"
    /\ toWrite' = 0

(* The probe answers r; None ends the tick without touching the counter.   *)
Probe(r) ==
    /\ pc = "probe"
    /\ reading' = r
    /\ pc' = IF r = "unknown" THEN "idle" ELSE "read"
    /\ emptyRun' = CASE r = "unknown" -> emptyRun
                     [] r = "active"  -> 0
                     [] r = "empty"   -> IF emptyRun < EmptyChecksToStop
                                         THEN emptyRun + 1
                                         ELSE emptyRun
    /\ UNCHANGED <<instanceVars, blob, toWrite, lostReset>>

(* _read_state: the stored counter, or 0 on any exception.                 *)
StoredCounts == {blob, 0}

(* The rest of _process_target's decisions, once the counter is read.      *)
ActiveKeepsCount ==     \* mutant: the reset of an active server is forgotten
    /\ reading = "active"
    /\ pc' = "write"
    /\ toWrite' = blob

ActiveResets ==
    /\ reading = "active"
    /\ pc' = "write"
    /\ toWrite' = 0

EmptyCountsToThreshold(newCount) ==     \* mutant: off by one at the threshold
    /\ reading = "empty"
    /\ newCount <= EmptyChecksToStop
    /\ pc' = "write"
    /\ toWrite' = newCount

EmptyCounts(newCount) ==
    /\ reading = "empty"
    /\ newCount < EmptyChecksToStop
    /\ pc' = "write"
    /\ toWrite' = newCount

EmptyStopsEarly(newCount) ==    \* mutant: stops one empty check too soon
    /\ reading = "empty"
    /\ newCount + 1 >= EmptyChecksToStop
    /\ pc' = "stop"
    /\ UNCHANGED toWrite

EmptyStops(newCount) ==
    /\ reading = "empty"
    /\ newCount >= EmptyChecksToStop
    /\ pc' = "stop"
    /\ UNCHANGED toWrite

Decide ==
    /\ pc = "read"
    /\ \E stored \in StoredCounts :
          ActiveResets \/ EmptyCounts(stored + 1) \/ EmptyStops(stored + 1)
    /\ UNCHANGED <<instanceVars, blob, reading, historyVars>>

(* instances.stop, whatever became of the instance since it was read.      *)
StopForgotten ==        \* mutant: the counter is cleared, the VM left running
    /\ pc = "stop"
    /\ pc' = "write"
    /\ toWrite' = 0
    /\ UNCHANGED <<instanceVars, blob, reading, historyVars>>

StopInstance ==
    /\ pc = "stop"
    /\ Gce!Stop
    /\ pc' = "write"
    /\ toWrite' = 0
    /\ emptyRun' = 0
    /\ UNCHANGED <<blob, reading, lostReset>>

WriteState ==
    /\ pc = "write"
    /\ blob' = toWrite
    /\ EndTick
    /\ lostReset' = (lostReset /\ toWrite # 0)
    /\ UNCHANGED <<instanceVars, emptyRun>>

(* The tick has seen players or no running VM, or has stopped it, and not  *)
(* yet written the 0.                                                      *)
ResetDue ==
    \/ pc = "read" /\ reading = "active"
    \/ pc = "write" /\ toWrite = 0

(* Any call of the tick raises, or the function times out: nothing catches *)
(* it and the scheduler does not retry.                                    *)
TickDies ==
    /\ pc # "idle"
    /\ EndTick
    /\ lostReset' = (lostReset \/ (ResetDue /\ blob # 0))
    /\ UNCHANGED <<instanceVars, blob, emptyRun>>

TickStep == Decide \/ StopInstance \/ WriteState

(* The instance moves by itself, by a user or by the bot (environment).    *)
InstanceMoves ==
    /\ Gce!Start \/ Gce!Stop \/ Gce!AssignIp \/ Gce!Staged \/ Gce!Halted
    /\ UNCHANGED <<tickVars, historyVars>>

Next ==
    \/ TickStart
    \/ \E r \in Readings : Probe(r)
    \/ TickStep
    \/ TickDies
    \/ InstanceMoves

Spec == Init /\ [][Next]_vars

-----------------------------------------------------------------------------
Phases == {"idle", "probe", "read", "write", "stop"}

(* Types of the watcher's state; the counter it stores stays below the     *)
(* threshold, however many ticks die half way.                             *)
TypeOK ==
    /\ Gce!GceTypeOK
    /\ blob \in 0 .. EmptyChecksToStop - 1
    /\ pc \in Phases
    /\ reading \in Readings
    /\ toWrite \in 0 .. EmptyChecksToStop - 1
    /\ emptyRun \in 0 .. EmptyChecksToStop
    /\ lostReset \in BOOLEAN

(* The stored counter never claims more consecutive empty readings than    *)
(* the watcher got: failed reads, lost increments and a death between the  *)
(* stop and its reset only forget evidence.  The one exception is a tick   *)
(* that died before it could store the zero it owed.                       *)
CountIsBacked == blob <= emptyRun \/ ResetDue \/ lostReset

(* When the watcher stops a VM, its last EMPTY_CHECKS_TO_STOP conclusive   *)
(* probes all read empty, and no tick in between saw players, saw the VM   *)
(* down or stopped it -- unless a reset was lost.                          *)
StopIsBacked == pc = "stop" => emptyRun = EmptyChecksToStop \/ lostReset

==============================================================================
