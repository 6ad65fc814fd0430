-------------------------- MODULE CheckRecvQueues --------------------------
(***************************************************************************)
(* The command check_recv_queues beside the other commands.  It visits the *)
(* boards one by one.  For each it calls LockConnections, and it looks at  *)
(* the receive queue and calls UnlockConnections only when LockConnections *)
(* returned nonzero, which is what it returns when it has locked nothing.  *)
(*                                                                         *)
(* Connections shows that a LockConnections or UnlockConnections call acts *)
(* as one step; here each of the calls of this command is one.             *)
(***************************************************************************)
EXTENDS Connections

VARIABLES
  toVisit,    \* the boards the loop has yet to visit
  inspecting  \* the boards (at most one) whose queue it is looking at

drainVars == <<toVisit, inspecting>>

DrainInit == Init /\ toVisit = Boards /\ inspecting = {}

\* LockConnections on one board, used as the condition of the if.
TryBoard(b) ==
  /\ inspecting = {}
  /\ startTestLock = NoThread
  /\ IsNext(b, toVisit)
  /\ toVisit' = toVisit \ {b}
  /\ IF NoConnection(b) \/ Busy(b)
       THEN inspecting' = {b} /\ UNCHANGED fLock
       ELSE fLock' = [fLock EXCEPT ![b] = TRUE] /\ UNCHANGED inspecting
  /\ UNCHANGED <<startTestLock, fConnected, pc, command, todo, busyFlag, ncFlag>>

\* CheckQueue is over; UnlockConnections.
LeaveBoard(b) ==
  /\ inspecting = {b}
  /\ startTestLock = NoThread
  /\ fLock' = [fLock EXCEPT ![b] = FALSE]
  /\ inspecting' = {}
  /\ UNCHANGED <<startTestLock, fConnected, pc, command, todo, busyFlag, ncFlag, toVisit>>

DrainNext ==
  \/ Next /\ UNCHANGED drainVars
  \/ \E b \in Boards : TryBoard(b) \/ LeaveBoard(b)

DrainSpec == DrainInit /\ [][DrainNext]_<<vars, drainVars>>
=============================================================================
