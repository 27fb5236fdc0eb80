-------------------------- MODULE IdleWatcherProofs --------------------------
(***************************************************************************)
(* For every threshold: the watcher's counter is backed by readings, and   *)
(* so is every stop.                                                       *)
(***************************************************************************)
EXTENDS IdleWatcher, TLAPS

(* An empty reading has been added to the run, and not yet to the counter. *)
ReadingIsAhead ==
    pc = "read" /\ reading = "empty" =>
        /\ emptyRun > 0
        /\ blob < emptyRun \/ emptyRun = EmptyChecksToStop \/ lostReset

(* What is about to be stored is backed as well.                           *)
WriteIsBacked == pc = "write" => toWrite <= emptyRun \/ lostReset

(* The inductive invariant: CountIsBacked alone is not inductive, since a  *)
(* tick carries its evidence from the probe to the write in its locals.    *)
IInv == TypeOK /\ CountIsBacked /\ ReadingIsAhead /\ WriteIsBacked /\ StopIsBacked

-----------------------------------------------------------------------------
LEMMA InitIInv == Init => IInv
<1> SUFFICES ASSUME Init PROVE IInv
    OBVIOUS
<1> USE EmptyChecksAssumption DEF Init, WatcherInit
<1>1. Gce!GceTypeOK
    BY DEF Gce!GceInit, Gce!GceTypeOK, Gce!Status
<1>2. lostReset \in BOOLEAN
    OBVIOUS
<1>3. TypeOK
    BY <1>1, <1>2 DEF TypeOK, Phases, Readings
<1>4. CountIsBacked /\ ReadingIsAhead /\ WriteIsBacked /\ StopIsBacked
    BY DEF CountIsBacked, ReadingIsAhead, WriteIsBacked, StopIsBacked
<1> QED
    BY <1>3, <1>4 DEF IInv

LEMMA NextIInv == IInv /\ [Next]_vars => IInv'
<1> SUFFICES ASSUME IInv, [Next]_vars PROVE IInv'
    OBVIOUS
<1> USE EmptyChecksAssumption
    DEF IInv, TypeOK, Gce!GceTypeOK, Gce!Status, Phases, Readings, CountIsBacked,
        ReadingIsAhead, WriteIsBacked, StopIsBacked, ResetDue,
        instanceVars, historyVars
<1>1. CASE TickNotRunning
    BY <1>1 DEF TickNotRunning
<1>2. CASE TickNoAddress
    BY <1>2 DEF TickNoAddress, vars, tickVars
<1>3. CASE TickRunning
    BY <1>3 DEF TickRunning
<1>4. ASSUME NEW r \in Readings, Probe(r)
      PROVE  IInv'
    BY <1>4 DEF Probe
<1>5. CASE Decide
    <2>1. PICK stored \in StoredCounts :
              ActiveResets \/ EmptyCounts(stored + 1) \/ EmptyStops(stored + 1)
        BY <1>5 DEF Decide
    <2>2. /\ pc = "read"
          /\ UNCHANGED <<instanceVars, blob, reading, historyVars>>
          /\ stored \in {blob, 0}
        BY <1>5, <2>1 DEF Decide, StoredCounts
    <2>3. CASE ActiveResets
        BY <2>2, <2>3 DEF ActiveResets
    <2>4. CASE EmptyCounts(stored + 1)
        BY <2>2, <2>4 DEF EmptyCounts
    <2>5. CASE EmptyStops(stored + 1)
        BY <2>2, <2>5 DEF EmptyStops
    <2> QED
        BY <2>1, <2>3, <2>4, <2>5
<1>6. CASE StopInstance
    BY <1>6 DEF StopInstance, Gce!Stop, Gce!AfterStop
<1>7. CASE WriteState
    BY <1>7 DEF WriteState, EndTick
<1>8. CASE TickDies
    <2>1. /\ pc' = "idle" /\ reading' = "unknown" /\ toWrite' = 0
          /\ UNCHANGED <<status, natIp, blob, emptyRun>>
        BY <1>8 DEF TickDies, EndTick
    <2>2. /\ lostReset' \in BOOLEAN
          /\ lostReset \/ (ResetDue /\ blob # 0) => lostReset'
        BY <1>8 DEF TickDies
    <2>3. TypeOK'
        BY <2>1, <2>2
    <2>4. CountIsBacked'
        BY <2>1, <2>2
    <2> QED
        BY <2>1, <2>3, <2>4
<1>9. CASE InstanceMoves
    BY <1>9 DEF InstanceMoves, tickVars, Gce!Start, Gce!Stop, Gce!AssignIp,
                Gce!Staged, Gce!Halted, Gce!AfterStart, Gce!AfterStop
<1>10. CASE UNCHANGED vars
    BY <1>10 DEF vars, tickVars
<1> QED
    BY <1>1, <1>2, <1>3, <1>4, <1>5, <1>6, <1>7, <1>8, <1>9, <1>10
       DEF Next, TickStart, TickStep

LEMMA SpecIInv == Spec => []IInv
BY InitIInv, NextIInv, PTL DEF Spec

(* The watcher's variables keep their types; in particular the counter in  *)
(* the bucket never reaches the threshold.                                 *)
THEOREM TypeCorrect == Spec => []TypeOK
<1>1. IInv => TypeOK
    BY DEF IInv
<1> QED
    BY <1>1, SpecIInv, PTL

(* The counter in the bucket never exceeds the run of empty readings       *)
(* behind it, but for a lost or pending reset.                             *)
THEOREM CountBacked == Spec => []CountIsBacked
<1>1. IInv => CountIsBacked
    BY DEF IInv
<1> QED
    BY <1>1, SpecIInv, PTL

(* A VM is stopped on EMPTY_CHECKS_TO_STOP empty readings in a row, but    *)
(* for a lost reset.                                                       *)
THEOREM StopBacked == Spec => []StopIsBacked
<1>1. IInv => StopIsBacked
    BY DEF IInv
<1> QED
    BY <1>1, SpecIInv, PTL

==============================================================================
