---------------------------- MODULE Connections ----------------------------
(***************************************************************************)
(* How the command threads of penn_daq share the hardware boards: the MTC  *)
(* (reached through the SBC) and one XL3 per crate.                        *)
(*                                                                         *)
(* Every line the operator sends becomes a pthread that runs one command   *)
(* (ControllerLink::ProcessCommand).  The command calls LockConnections on *)
(* the boards it names, runs its body if they were free and connected, and *)
(* calls UnlockConnections.  Both functions hold the mutex startTestLock   *)
(* while they walk over the boards.  The event loop accepts connections    *)
(* concurrently, without that mutex.                                       *)
(***************************************************************************)
EXTENDS Integers, FiniteSets

CONSTANTS
  Threads,    \* the pthreads of the session: one per command line
  Crates,     \* the XL3s, numbered by crate
  Menu,       \* Menu[t]: the commands that line t may be
  NoThread    \* the value of startTestLock when nobody holds it

\* The MTC is checked and locked before any crate.
Mtc == -1

Boards == Crates \cup {Mtc}

(***************************************************************************)
(* What ProcessCommand makes of a command line, as far as the locks go:    *)
(*   sbc, xl3List  the arguments of its LockConnections call; sbc = 2 is   *)
(*                 sbc_control, which does not insist on a connection      *)
(*   kill, connect the two halves of SBCControl                            *)
(*   touches       the boards its body talks to                            *)
(***************************************************************************)
Command ==
  [sbc : 0..2, xl3List : SUBSET Crates, kill : BOOLEAN, connect : BOOLEAN,
   touches : SUBSET Boards]

\* A placeholder for a thread that has no command yet.
NoCommand ==
  [sbc |-> 0, xl3List |-> {}, kill |-> FALSE, connect |-> FALSE, touches |-> {}]

ASSUME ConnectionsAssumption ==
  /\ Crates \subseteq Nat
  /\ NoThread \notin Threads
  /\ Menu \in [Threads -> SUBSET Command]

VARIABLES
  startTestLock,  \* the thread that holds the mutex
  fConnected,     \* GenericLink::fConnected of each board
  fLock,          \* GenericLink::fLock of each board
  pc,             \* where each thread is
  command,        \* the command each thread runs
  todo,           \* the boards the loop of its current call has yet to visit
  busyFlag,       \* the two local flags of LockConnections
  ncFlag

vars == <<startTestLock, fConnected, fLock, pc, command, todo, busyFlag, ncFlag>>

Phases == {"idle", "lock", "check", "grab", "leave", "closing", "connecting",
           "body", "unlock", "release", "done"}

TypeOK ==
  /\ startTestLock \in Threads \cup {NoThread}
  /\ fConnected \in [Boards -> BOOLEAN]
  /\ fLock \in [Boards -> BOOLEAN]
  /\ pc \in [Threads -> Phases]
  /\ command \in [Threads -> Command]
  /\ todo \in [Threads -> SUBSET Boards]
  /\ busyFlag \in [Threads -> BOOLEAN]
  /\ ncFlag \in [Threads -> BOOLEAN]

Init ==
  /\ startTestLock = NoThread
  /\ fConnected = [b \in Boards |-> FALSE]
  /\ fLock = [b \in Boards |-> FALSE]
  /\ pc = [t \in Threads |-> "idle"]
  /\ command = [t \in Threads |-> NoCommand]
  /\ todo = [t \in Threads |-> {}]
  /\ busyFlag = [t \in Threads |-> FALSE]
  /\ ncFlag = [t \in Threads |-> FALSE]

-----------------------------------------------------------------------------
(***************************************************************************)
(* A definition whose comment begins with "Slip" is a plausible mistake in *)
(* the code of the definition that follows it.  No specification uses it;  *)
(* put in that place, it makes one of the properties below fail.           *)
(***************************************************************************)

\* Slip: the loops over the crates are off by one.
ScopeOffByOne(c) ==
  {i + 1 : i \in c.xl3List} \cup (IF c.sbc # 0 THEN {Mtc} ELSE {})

\* The boards a command locks and unlocks.
Scope(c) == c.xl3List \cup (IF c.sbc # 0 THEN {Mtc} ELSE {})

IsSbcControl(c) == c.sbc = 2

\* The loops visit the MTC first and then the crates in increasing order.
IsNext(b, S) == b \in S /\ \A other \in S : b <= other

\* MTCModel::CheckLock and XL3Model::CheckLock: a missing connection hides a lock.
NoConnection(b) == ~fConnected[b]
Busy(b) == fConnected[b] /\ fLock[b]

\* Slip: only the busy answers count.
RefusedIfBusy(t) == busyFlag[t]

\* if (!busyFlag && !ncFlag) is false.
Refused(t) == busyFlag[t] \/ ncFlag[t]

Goto(t, place) == pc' = [pc EXCEPT ![t] = place]

-----------------------------------------------------------------------------
\* RecvCallback starts a thread for the line; it reaches LockConnections.
Start(t) ==
  /\ pc[t] = "idle"
  /\ \E c \in Menu[t] : command' = [command EXCEPT ![t] = c]
  /\ Goto(t, "lock")
  /\ UNCHANGED <<startTestLock, fConnected, fLock, todo, busyFlag, ncFlag>>

\* Slip: the mutex is not taken.
EnterWithoutMutex(t) ==
  /\ pc[t] = "lock"
  /\ todo' = [todo EXCEPT ![t] = Scope(command[t])]
  /\ Goto(t, "check")
  /\ UNCHANGED <<startTestLock, fConnected, fLock, command, busyFlag, ncFlag>>

EnterLockConnections(t) ==
  /\ pc[t] = "lock"
  /\ startTestLock = NoThread
  /\ startTestLock' = t
  /\ todo' = [todo EXCEPT ![t] = Scope(command[t])]
  /\ Goto(t, "check")
  /\ UNCHANGED <<fConnected, fLock, command, busyFlag, ncFlag>>

\* Slip: each answer overwrites the one before.
CheckLastBoard(t, b) ==
  /\ pc[t] = "check"
  /\ IsNext(b, todo[t])
  /\ busyFlag' = [busyFlag EXCEPT ![t] = Busy(b)]
  /\ ncFlag' = [ncFlag EXCEPT ![t] = NoConnection(b) /\ ~(b = Mtc /\ IsSbcControl(command[t]))]
  /\ todo' = [todo EXCEPT ![t] = @ \ {b}]
  /\ UNCHANGED <<startTestLock, fConnected, fLock, pc, command>>

\* One CheckLock call; for sbc_control only the busy answer counts.
CheckBoard(t, b) ==
  /\ pc[t] = "check"
  /\ IsNext(b, todo[t])
  /\ busyFlag' = [busyFlag EXCEPT ![t] = @ \/ Busy(b)]
  /\ ncFlag' = [ncFlag EXCEPT ![t] =
                  @ \/ (NoConnection(b) /\ ~(b = Mtc /\ IsSbcControl(command[t])))]
  /\ todo' = [todo EXCEPT ![t] = @ \ {b}]
  /\ UNCHANGED <<startTestLock, fConnected, fLock, pc, command>>

\* if (!busyFlag && !ncFlag): go on to lock all the boards, or lock none.
Decide(t) ==
  /\ pc[t] = "check"
  /\ todo[t] = {}
  /\ IF Refused(t)
       THEN Goto(t, "leave") /\ UNCHANGED todo
       ELSE Goto(t, "grab") /\ todo' = [todo EXCEPT ![t] = Scope(command[t])]
  /\ UNCHANGED <<startTestLock, fConnected, fLock, command, busyFlag, ncFlag>>

GrabBoard(t, b) ==
  /\ pc[t] = "grab"
  /\ IsNext(b, todo[t])
  /\ fLock' = [fLock EXCEPT ![b] = TRUE]
  /\ todo' = [todo EXCEPT ![t] = @ \ {b}]
  /\ UNCHANGED <<startTestLock, fConnected, pc, command, busyFlag, ncFlag>>

\* The body of sbc_control is SBCControl; any other body is one phase here.
BodyStart(c) ==
  IF IsSbcControl(c) /\ c.kill THEN "closing"
  ELSE IF IsSbcControl(c) /\ c.connect THEN "connecting"
  ELSE "body"

\* Slip: a refused command goes on to UnlockConnections.
LeaveAndUnlock(t) ==
  /\ \/ pc[t] = "grab" /\ todo[t] = {}
     \/ pc[t] = "leave"
  /\ startTestLock' = NoThread
  /\ Goto(t, IF Refused(t) THEN "unlock" ELSE BodyStart(command[t]))
  /\ UNCHANGED <<fConnected, fLock, command, todo, busyFlag, ncFlag>>

\* Slip: an early return leaves the mutex locked.
LeaveWithMutex(t) ==
  /\ \/ pc[t] = "grab" /\ todo[t] = {} /\ startTestLock' = NoThread
     \/ pc[t] = "leave" /\ UNCHANGED startTestLock
  /\ Goto(t, IF Refused(t) THEN "done" ELSE BodyStart(command[t]))
  /\ UNCHANGED <<fConnected, fLock, command, todo, busyFlag, ncFlag>>

\* LockConnections returns; a refused command reports it and ends (goto err).
LeaveLockConnections(t) ==
  /\ \/ pc[t] = "grab" /\ todo[t] = {}
     \/ pc[t] = "leave"
  /\ startTestLock' = NoThread
  /\ Goto(t, IF Refused(t) THEN "done" ELSE BodyStart(command[t]))
  /\ UNCHANGED <<fConnected, fLock, command, todo, busyFlag, ncFlag>>

-----------------------------------------------------------------------------
\* MTCLink::CloseConnection, from sbc_control -k or -r.
CloseConnection(t) ==
  /\ pc[t] = "closing"
  /\ fConnected' = [fConnected EXCEPT ![Mtc] = FALSE]
  /\ Goto(t, IF command[t].connect THEN "connecting" ELSE "body")
  /\ UNCHANGED <<startTestLock, fLock, command, todo, busyFlag, ncFlag>>

\* MTCLink::Connect: it may throw, and SBCControl catches what it throws.
Connect(t) ==
  /\ pc[t] = "connecting"
  /\ \/ fConnected' = [fConnected EXCEPT ![Mtc] = TRUE]
     \/ UNCHANGED fConnected
  /\ Goto(t, "body")
  /\ UNCHANGED <<startTestLock, fLock, command, todo, busyFlag, ncFlag>>

FinishBody(t) ==
  /\ pc[t] = "body"
  /\ Goto(t, "unlock")
  /\ UNCHANGED <<startTestLock, fConnected, fLock, command, todo, busyFlag, ncFlag>>

EnterUnlockConnections(t) ==
  /\ pc[t] = "unlock"
  /\ startTestLock = NoThread
  /\ startTestLock' = t
  /\ todo' = [todo EXCEPT ![t] = Scope(command[t])]
  /\ Goto(t, "release")
  /\ UNCHANGED <<fConnected, fLock, command, busyFlag, ncFlag>>

ReleaseBoard(t, b) ==
  /\ pc[t] = "release"
  /\ IsNext(b, todo[t])
  /\ fLock' = [fLock EXCEPT ![b] = FALSE]
  /\ todo' = [todo EXCEPT ![t] = @ \ {b}]
  /\ UNCHANGED <<startTestLock, fConnected, pc, command, busyFlag, ncFlag>>

LeaveUnlockConnections(t) ==
  /\ pc[t] = "release"
  /\ todo[t] = {}
  /\ startTestLock' = NoThread
  /\ Goto(t, "done")
  /\ UNCHANGED <<fConnected, fLock, command, todo, busyFlag, ncFlag>>

\* GenericLink::AcceptCallback on the event loop: a board connects, or connects
\* again.  No callback ever resets fConnected when a peer goes away.
AcceptCallback(b) ==
  /\ fConnected' = [fConnected EXCEPT ![b] = TRUE]
  /\ UNCHANGED <<startTestLock, fLock, pc, command, todo, busyFlag, ncFlag>>

\* The steps of LockConnections and UnlockConnections, and those of a body.
LockStep(t) ==
  \/ EnterLockConnections(t)
  \/ \E b \in Boards : CheckBoard(t, b)
  \/ Decide(t)
  \/ \E b \in Boards : GrabBoard(t, b)
  \/ LeaveLockConnections(t)
  \/ EnterUnlockConnections(t)
  \/ \E b \in Boards : ReleaseBoard(t, b)
  \/ LeaveUnlockConnections(t)

BodyStep(t) == CloseConnection(t) \/ Connect(t) \/ FinishBody(t)

ThreadStep(t) == LockStep(t) \/ BodyStep(t)

Next ==
  \/ \E t \in Threads : Start(t) \/ ThreadStep(t)
  \/ \E b \in Boards : AcceptCallback(b)

Spec == Init /\ [][Next]_vars

\* A thread inside the two functions is scheduled.  Nothing is assumed of the bodies,
\* which may wait for the operator without end (GetInput), nor of the event loop.
FairSpec == Spec /\ \A t \in Threads : WF_vars(LockStep(t))

-----------------------------------------------------------------------------
\* Thread t has marked board b locked and has not yet unlocked it.
Holds(t, b) ==
  /\ b \in Scope(command[t])
  /\ \/ pc[t] = "grab" /\ b \notin todo[t]
     \/ pc[t] \in {"closing", "connecting", "body", "unlock"}
     \/ pc[t] = "release" /\ b \in todo[t]

InBody(t) == pc[t] \in {"closing", "connecting", "body"}

\* The boards a thread may be talking to.
Using(t) == IF InBody(t) THEN command[t].touches ELSE {}

\* No board is talked to by two commands at once: the answers of one would be
\* read by the other (LockConnections, Globals.cpp:62-101).
MutualExclusion ==
  \A t, u \in Threads : t # u => Using(t) \cap Using(u) = {}

AccountedFor(b) == fLock[b] <=> \E t \in Threads : Holds(t, b)

\* A board is locked exactly while some thread has it: no lock is leaked by a
\* refusal or lost to another command's UnlockConnections (Globals.cpp:103-116).
LocksAccountedFor == \A b \in Boards : AccountedFor(b)

\* Every board a command body talks to stays connected until the body ends, even
\* though sbc_control may close the MTC connection (MTCLink::CloseConnection).
BoardsStayConnected ==
  \A t \in Threads : \A b \in Using(t) : IsSbcControl(command[t]) \/ fConnected[b]

\* A call of either function returns, also when no body ever does: a thread waits
\* neither for a board nor for the command that has it, and nobody keeps startTestLock
\* (the early returns and ends of both functions, Globals.cpp:99-116).
LockCallsReturn ==
  \A t \in Threads :
    LET inCall == pc[t] \in {"lock", "check", "grab", "leave", "unlock", "release"}
    IN  inCall ~> ~inCall

-----------------------------------------------------------------------------
\* The state of the allocator that this state stands for.  A grant takes effect
\* when the check loop has found no reason against it, a refusal with the first
\* reason found, a return when UnlockConnections lets the mutex go.
Owns(t) ==
  IF pc[t] \in {"grab", "closing", "connecting", "body", "unlock", "release"}
    THEN Scope(command[t]) ELSE {}

wantBar == [t \in Threads |-> IF pc[t] = "idle" THEN {} ELSE Scope(command[t])]

needBar ==
  [t \in Threads |->
     wantBar[t] \ (IF IsSbcControl(command[t]) THEN {Mtc} ELSE {})]

ownerBar ==
  [b \in Boards |-> IF \E t \in Threads : b \in Owns(t)
                      THEN CHOOSE t \in Threads : b \in Owns(t)
                      ELSE NoThread]

statusBar ==
  [t \in Threads |->
     IF pc[t] = "idle" THEN "new"
     ELSE IF Refused(t) THEN "refused"
     ELSE IF pc[t] \in {"lock", "check"} THEN "asked"
     ELSE IF pc[t] = "done" THEN "done"
     ELSE "granted"]

linkedBar == {b \in Boards : fConnected[b]}

Allocator ==
  INSTANCE BoardAllocator WITH
    want <- wantBar, need <- needBar, owner <- ownerBar,
    status <- statusBar, linked <- linkedBar

\* The two functions together implement an indivisible allocator.
ImplementsAllocator == Allocator!Spec
=============================================================================
