------------------------- MODULE ConnectionsProofs -------------------------
(***************************************************************************)
(* Proofs about Connections for any number of command threads and crates.  *)
(***************************************************************************)
EXTENDS Connections, TLAPS

\* The bodies talk only to boards the command locks: an assumption on the lines of the
\* session, which ecal -l and check_recv_queues break.
ScopesCoverUse ==
  \A t \in Threads : \A c \in Menu[t] : c.touches \subseteq Scope(c)

\* No two sbc_control commands are under way at once.  Nothing in the code keeps the
\* operator from it: LockConnections grants the MTC to a second sbc_control while the
\* first, which has it, has closed its connection (MTCModel.cpp:101, Globals.cpp:68).
UnderWay(t) == pc[t] \notin {"idle", "done"}

OneSbcControl ==
  \A t, u \in Threads :
    /\ UnderWay(t) /\ IsSbcControl(command[t])
    /\ UnderWay(u) /\ IsSbcControl(command[u])
    => t = u

-----------------------------------------------------------------------------
(***************************************************************************)
(* The inductive invariant, for a set B of boards: all of them as long as  *)
(* no two sbc_control overlap, and the crates whatever the operator does.  *)
(***************************************************************************)
Inside == {"check", "grab", "leave", "release"}
Granted == {"grab", "closing", "connecting", "body", "unlock", "release"}

\* A thread runs a command of its menu.
FromMenu == \A t \in Threads : pc[t] # "idle" => command[t] \in Menu[t]

\* The mutex is held exactly by the thread that is inside one of the functions.
MutexHeldInside ==
  \A t \in Threads : startTestLock = t <=> pc[t] \in Inside

\* The loops stay within the boards of the command.
LoopsInScope ==
  \A t \in Threads : pc[t] \in Inside => todo[t] \subseteq Scope(command[t])

\* The two local flags decide where a thread can be.
FlagsDecide ==
  \A t \in Threads :
    /\ pc[t] \in {"idle", "lock"} \cup Granted => ~Refused(t)
    /\ pc[t] = "leave" => Refused(t)
    /\ pc[t] \in {"closing", "connecting"} => IsSbcControl(command[t])

\* No two threads have the same board.
OneHolder(B) ==
  \A t, u \in Threads : \A b \in B : Holds(t, b) /\ Holds(u, b) => t = u

\* Nor do their claims overlap while the loops set and clear the flags.
OneOwner(B) ==
  \A t, u \in Threads : \A b \in B : b \in Owns(t) /\ b \in Owns(u) => t = u

Accounted(B) == \A b \in B : AccountedFor(b)

\* Whether a thread insists on board b being connected.
Needs(t, b) == ~(b = Mtc /\ IsSbcControl(command[t]))

\* What the check loop has found so far still holds: nothing else can lock a board
\* while the mutex is held, and nothing can disconnect a board it does not own.
CheckedFree(B) ==
  \A t \in Threads : \A b \in Scope(command[t]) \cap B :
    \/ pc[t] = "check" /\ ~Refused(t) /\ b \notin todo[t]
    \/ pc[t] = "grab" /\ b \in todo[t]
    => ~fLock[b] /\ (Needs(t, b) => fConnected[b])

\* The boards of a granted command are connected.
GrantedConnected(B) ==
  \A t \in Threads : \A b \in Scope(command[t]) \cap B :
    pc[t] \in Granted \ {"release"} /\ Needs(t, b) => fConnected[b]

IndInv(B) ==
  /\ TypeOK
  /\ FromMenu
  /\ MutexHeldInside
  /\ LoopsInScope
  /\ FlagsDecide
  /\ OneHolder(B)
  /\ OneOwner(B)
  /\ Accounted(B)
  /\ CheckedFree(B)
  /\ GrantedConnected(B)

-----------------------------------------------------------------------------
(***************************************************************************)
(* Facts about commands.                                                   *)
(***************************************************************************)
LEMMA CommandFacts ==
  \A c \in Command :
    /\ Scope(c) \subseteq Boards
    /\ IsSbcControl(c) => Mtc \in Scope(c)
BY DEF Command, Scope, Boards, IsSbcControl

LEMMA MenuFacts ==
  \A t \in Threads : \A c \in Menu[t] : c \in Command
BY ConnectionsAssumption

LEMMA PlaceholderFacts ==
  NoCommand \in Command
BY DEF NoCommand, Command

LEMMA BodyStartFacts ==
  \A c : /\ BodyStart(c) \in {"closing", "connecting", "body"}
         /\ BodyStart(c) \in {"closing", "connecting"} => IsSbcControl(c)
BY DEF BodyStart

-----------------------------------------------------------------------------
LEMMA TypeStep ==
  ASSUME TypeOK, [Next]_vars
  PROVE  TypeOK'
<1> USE CommandFacts, MenuFacts, BodyStartFacts DEF TypeOK, Phases, Goto
<1>1. ASSUME NEW t \in Threads, Start(t) PROVE TypeOK'
  BY <1>1 DEF Start
<1>2. ASSUME NEW t \in Threads, EnterLockConnections(t) PROVE TypeOK'
  BY <1>2 DEF EnterLockConnections
<1>3. ASSUME NEW t \in Threads, NEW b \in Boards, CheckBoard(t, b) PROVE TypeOK'
  BY <1>3 DEF CheckBoard, Busy, NoConnection
<1>4. ASSUME NEW t \in Threads, Decide(t) PROVE TypeOK'
  BY <1>4 DEF Decide
<1>5. ASSUME NEW t \in Threads, NEW b \in Boards, GrabBoard(t, b) PROVE TypeOK'
  BY <1>5 DEF GrabBoard
<1>6. ASSUME NEW t \in Threads, LeaveLockConnections(t) PROVE TypeOK'
  BY <1>6 DEF LeaveLockConnections
<1>7. ASSUME NEW t \in Threads, CloseConnection(t) PROVE TypeOK'
  BY <1>7 DEF CloseConnection
<1>8. ASSUME NEW t \in Threads, Connect(t) PROVE TypeOK'
  BY <1>8 DEF Connect
<1>9. ASSUME NEW t \in Threads, FinishBody(t) PROVE TypeOK'
  BY <1>9 DEF FinishBody
<1>10. ASSUME NEW t \in Threads, EnterUnlockConnections(t) PROVE TypeOK'
  BY <1>10 DEF EnterUnlockConnections
<1>11. ASSUME NEW t \in Threads, NEW b \in Boards, ReleaseBoard(t, b) PROVE TypeOK'
  BY <1>11 DEF ReleaseBoard
<1>12. ASSUME NEW t \in Threads, LeaveUnlockConnections(t) PROVE TypeOK'
  BY <1>12 DEF LeaveUnlockConnections
<1>13. ASSUME NEW b \in Boards, AcceptCallback(b) PROVE TypeOK'
  BY <1>13 DEF AcceptCallback
<1>14. CASE UNCHANGED vars
  BY <1>14 DEF vars
<1> QED
  BY <1>1, <1>2, <1>3, <1>4, <1>5, <1>6, <1>7, <1>8, <1>9, <1>10, <1>11, <1>12,
     <1>13, <1>14 DEF Next, ThreadStep, LockStep, BodyStep

\* The variables of Connections always hold values of their types.
THEOREM TypeCorrect == Spec => []TypeOK
<1>1. Init => TypeOK
  BY PlaceholderFacts DEF Init, TypeOK, Phases
<1> QED
  BY <1>1, TypeStep, PTL DEF Spec

-----------------------------------------------------------------------------
LEMMA IndInvStep ==
  ASSUME NEW B \in SUBSET Boards, Mtc \in B => OneSbcControl,
         IndInv(B), [Next]_vars
  PROVE  IndInv(B)'
<1> USE CommandFacts, MenuFacts, BodyStartFacts, ConnectionsAssumption
<1> USE DEF IndInv, TypeOK, Goto, Inside, Granted, Phases, Needs, Refused, Holds
<1>0. TypeOK'
  BY TypeStep
<1>1. ASSUME NEW t \in Threads, Start(t) PROVE IndInv(B)'
  <2>1. FromMenu'
    BY <1>1 DEF Start, FromMenu, FlagsDecide, MutexHeldInside
  <2>2. MutexHeldInside'
    BY <1>1 DEF Start, MutexHeldInside, FlagsDecide, MutexHeldInside
  <2>3. LoopsInScope'
    BY <1>1 DEF Start, LoopsInScope, FlagsDecide, MutexHeldInside
  <2>4. FlagsDecide'
    BY <1>1 DEF Start, FlagsDecide, FlagsDecide, MutexHeldInside
  <2>5. OneHolder(B)'
    BY <1>1 DEF Start, OneHolder, FlagsDecide, MutexHeldInside
  <2>6. Accounted(B)'
    BY <1>1 DEF Start, Accounted, AccountedFor, FlagsDecide, MutexHeldInside
  <2>7. CheckedFree(B)'
    BY <1>1 DEF Start, CheckedFree, FlagsDecide, MutexHeldInside
  <2>8. GrantedConnected(B)'
    BY <1>1 DEF Start, GrantedConnected, FlagsDecide, MutexHeldInside
  <2>9. OneOwner(B)'
    BY <1>1 DEF Start, OneOwner, Owns, MutexHeldInside
  <2> QED
    BY <1>0, <2>1, <2>2, <2>3, <2>4, <2>5, <2>6, <2>7, <2>8, <2>9
<1>2. ASSUME NEW t \in Threads, EnterLockConnections(t) PROVE IndInv(B)'
  <2>1. FromMenu'
    BY <1>2 DEF EnterLockConnections, FromMenu, FlagsDecide, MutexHeldInside
  <2>2. MutexHeldInside'
    BY <1>2 DEF EnterLockConnections, MutexHeldInside, FlagsDecide, MutexHeldInside
  <2>3. LoopsInScope'
    BY <1>2 DEF EnterLockConnections, LoopsInScope, FlagsDecide, MutexHeldInside
  <2>4. FlagsDecide'
    BY <1>2 DEF EnterLockConnections, FlagsDecide, FlagsDecide, MutexHeldInside
  <2>5. OneHolder(B)'
    BY <1>2 DEF EnterLockConnections, OneHolder, FlagsDecide, MutexHeldInside
  <2>6. Accounted(B)'
    BY <1>2 DEF EnterLockConnections, Accounted, AccountedFor, FlagsDecide, MutexHeldInside
  <2>7. CheckedFree(B)'
    BY <1>2 DEF EnterLockConnections, CheckedFree, FlagsDecide, MutexHeldInside
  <2>8. GrantedConnected(B)'
    BY <1>2 DEF EnterLockConnections, GrantedConnected, FlagsDecide, MutexHeldInside
  <2>9. OneOwner(B)'
    BY <1>2 DEF EnterLockConnections, OneOwner, Owns, MutexHeldInside
  <2> QED
    BY <1>0, <2>1, <2>2, <2>3, <2>4, <2>5, <2>6, <2>7, <2>8, <2>9
<1>3. ASSUME NEW t \in Threads, NEW b \in Boards, CheckBoard(t, b) PROVE IndInv(B)'
  <2>1. FromMenu'
    BY <1>3 DEF CheckBoard, FromMenu, FlagsDecide, MutexHeldInside
  <2>2. MutexHeldInside'
    BY <1>3 DEF CheckBoard, MutexHeldInside, FlagsDecide, MutexHeldInside
  <2>3. LoopsInScope'
    BY <1>3 DEF CheckBoard, LoopsInScope, FlagsDecide, MutexHeldInside
  <2>4. FlagsDecide'
    BY <1>3 DEF CheckBoard, FlagsDecide, FlagsDecide, MutexHeldInside
  <2>5. OneHolder(B)'
    BY <1>3 DEF CheckBoard, OneHolder, FlagsDecide, MutexHeldInside
  <2>6. Accounted(B)'
    BY <1>3 DEF CheckBoard, Accounted, AccountedFor, FlagsDecide, MutexHeldInside
  <2>7. CheckedFree(B)'
    <3> SUFFICES ASSUME NEW u \in Threads, NEW c \in Scope(command'[u]) \cap B,
                        \/ pc'[u] = "check" /\ ~Refused(u)' /\ c \notin todo'[u]
                        \/ pc'[u] = "grab" /\ c \in todo'[u]
                 PROVE  ~fLock'[c] /\ (Needs(u, c)' => fConnected'[c])
      BY DEF CheckedFree
    <3>1. CASE u # t
      BY <1>3, <3>1 DEF CheckBoard, CheckedFree, MutexHeldInside
    <3>2. CASE u = t /\ c # b
      BY <1>3, <3>2 DEF CheckBoard, CheckedFree
    <3>3. CASE u = t /\ c = b
      <4>1. ~Busy(b) /\ (Needs(t, b) => fConnected[b]) /\ pc[t] = "check" /\ b \in B
        BY <1>3, <3>3 DEF CheckBoard, NoConnection
      <4>2. CASE Needs(t, b)
        BY <1>3, <3>3, <4>1, <4>2 DEF CheckBoard, Busy
      \* sbc_control does not insist on a connection; but a thread that had the
      \* MTC would have one, and then the MTC would have been found busy.
      <4>3. ASSUME ~Needs(t, b), NEW v \in Threads, Holds(v, b) PROVE FALSE
        <5>1. v # t /\ pc[v] \in Granted \ {"grab", "release"}
          BY <4>1, <4>3 DEF MutexHeldInside
        <5>2. Needs(v, b)
          <6>1. b = Mtc /\ IsSbcControl(command[t]) /\ OneSbcControl
            BY <4>1, <4>3
          <6> QED
            BY <4>1, <5>1, <6>1 DEF OneSbcControl, UnderWay
        <5> QED
          BY <4>1, <4>3, <5>1, <5>2 DEF GrantedConnected, Accounted, AccountedFor, Busy
      <4> QED
        BY <1>3, <3>3, <4>2, <4>3 DEF CheckBoard, Accounted, AccountedFor
    <3> QED
      BY <3>1, <3>2, <3>3
  <2>8. GrantedConnected(B)'
    BY <1>3 DEF CheckBoard, GrantedConnected, FlagsDecide, MutexHeldInside
  <2>9. OneOwner(B)'
    BY <1>3 DEF CheckBoard, OneOwner, Owns, MutexHeldInside
  <2> QED
    BY <1>0, <2>1, <2>2, <2>3, <2>4, <2>5, <2>6, <2>7, <2>8, <2>9
<1>4. ASSUME NEW t \in Threads, Decide(t) PROVE IndInv(B)'
  <2>1. FromMenu'
    BY <1>4 DEF Decide, FromMenu, FlagsDecide, MutexHeldInside
  <2>2. MutexHeldInside'
    BY <1>4 DEF Decide, MutexHeldInside, FlagsDecide, MutexHeldInside
  <2>3. LoopsInScope'
    BY <1>4 DEF Decide, LoopsInScope, FlagsDecide, MutexHeldInside
  <2>4. FlagsDecide'
    BY <1>4 DEF Decide, FlagsDecide, FlagsDecide, MutexHeldInside
  <2>5. OneHolder(B)'
    BY <1>4 DEF Decide, OneHolder, FlagsDecide, MutexHeldInside
  <2>6. Accounted(B)'
    BY <1>4 DEF Decide, Accounted, AccountedFor, FlagsDecide, MutexHeldInside
  <2>7. CheckedFree(B)'
    BY <1>4 DEF Decide, CheckedFree, FlagsDecide, MutexHeldInside
  <2>8. GrantedConnected(B)'
    BY <1>4 DEF Decide, GrantedConnected, CheckedFree
  <2>9. OneOwner(B)'
    BY <1>4 DEF Decide, OneOwner, Owns, MutexHeldInside, CheckedFree, Accounted, AccountedFor
  <2> QED
    BY <1>0, <2>1, <2>2, <2>3, <2>4, <2>5, <2>6, <2>7, <2>8, <2>9
<1>5. ASSUME NEW t \in Threads, NEW b \in Boards, GrabBoard(t, b) PROVE IndInv(B)'
  <2>1. FromMenu'
    BY <1>5 DEF GrabBoard, FromMenu, FlagsDecide, MutexHeldInside
  <2>2. MutexHeldInside'
    BY <1>5 DEF GrabBoard, MutexHeldInside, FlagsDecide, MutexHeldInside
  <2>3. LoopsInScope'
    BY <1>5 DEF GrabBoard, LoopsInScope, FlagsDecide, MutexHeldInside
  <2>4. FlagsDecide'
    BY <1>5 DEF GrabBoard, FlagsDecide, FlagsDecide, MutexHeldInside
  <2>5. OneHolder(B)'
    <3>1. \A u \in Threads : b \in B => ~Holds(u, b)
      BY <1>5 DEF GrabBoard, IsNext, CheckedFree, Accounted, AccountedFor, LoopsInScope
    <3>2. \A u \in Threads, c \in Boards : Holds(u, c)' => Holds(u, c) \/ (u = t /\ c = b)
      BY <1>5 DEF GrabBoard
    <3> QED
      BY <3>1, <3>2 DEF OneHolder
  <2>6. Accounted(B)'
    <3>1. Holds(t, b)'
      BY <1>5 DEF GrabBoard, IsNext, LoopsInScope
    <3>2. \A u \in Threads, c \in Boards : c # b => (Holds(u, c)' <=> Holds(u, c))
      BY <1>5 DEF GrabBoard
    <3>3. fLock'[b] /\ \A c \in Boards : c # b => fLock'[c] = fLock[c]
      BY <1>5 DEF GrabBoard
    <3> QED
      BY <3>1, <3>2, <3>3 DEF Accounted, AccountedFor
  <2>7. CheckedFree(B)'
    BY <1>5 DEF GrabBoard, CheckedFree, FlagsDecide, MutexHeldInside
  <2>8. GrantedConnected(B)'
    BY <1>5 DEF GrabBoard, GrantedConnected, FlagsDecide, MutexHeldInside
  <2>9. OneOwner(B)'
    BY <1>5 DEF GrabBoard, OneOwner, Owns, MutexHeldInside
  <2> QED
    BY <1>0, <2>1, <2>2, <2>3, <2>4, <2>5, <2>6, <2>7, <2>8, <2>9
<1>6. ASSUME NEW t \in Threads, LeaveLockConnections(t) PROVE IndInv(B)'
  <2>1. FromMenu'
    BY <1>6 DEF LeaveLockConnections, FromMenu, FlagsDecide, MutexHeldInside
  <2>2. MutexHeldInside'
    BY <1>6 DEF LeaveLockConnections, MutexHeldInside, FlagsDecide, MutexHeldInside
  <2>3. LoopsInScope'
    BY <1>6 DEF LeaveLockConnections, LoopsInScope, FlagsDecide, MutexHeldInside
  <2>4. FlagsDecide'
    BY <1>6 DEF LeaveLockConnections, FlagsDecide, FlagsDecide, MutexHeldInside
  <2>5. OneHolder(B)'
    BY <1>6 DEF LeaveLockConnections, OneHolder, FlagsDecide, MutexHeldInside
  <2>6. Accounted(B)'
    BY <1>6 DEF LeaveLockConnections, Accounted, AccountedFor, FlagsDecide, MutexHeldInside
  <2>7. CheckedFree(B)'
    BY <1>6 DEF LeaveLockConnections, CheckedFree, FlagsDecide, MutexHeldInside
  <2>8. GrantedConnected(B)'
    BY <1>6 DEF LeaveLockConnections, GrantedConnected, FlagsDecide, MutexHeldInside
  <2>9. OneOwner(B)'
    BY <1>6 DEF LeaveLockConnections, OneOwner, Owns, FlagsDecide
  <2> QED
    BY <1>0, <2>1, <2>2, <2>3, <2>4, <2>5, <2>6, <2>7, <2>8, <2>9
<1>7. ASSUME NEW t \in Threads, CloseConnection(t) PROVE IndInv(B)'
  <2>0. IsSbcControl(command[t]) /\ Holds(t, Mtc) /\ Mtc \in Boards
    BY <1>7 DEF CloseConnection, FlagsDecide, Boards
  <2>1. FromMenu'
    BY <1>7 DEF CloseConnection, FromMenu, FlagsDecide, MutexHeldInside
  <2>2. MutexHeldInside'
    BY <1>7 DEF CloseConnection, MutexHeldInside, FlagsDecide, MutexHeldInside
  <2>3. LoopsInScope'
    BY <1>7 DEF CloseConnection, LoopsInScope, FlagsDecide, MutexHeldInside
  <2>4. FlagsDecide'
    BY <1>7 DEF CloseConnection, FlagsDecide, FlagsDecide, MutexHeldInside
  <2>5. OneHolder(B)'
    BY <1>7 DEF CloseConnection, OneHolder, FlagsDecide, MutexHeldInside
  <2>6. Accounted(B)'
    BY <1>7 DEF CloseConnection, Accounted, AccountedFor, FlagsDecide, MutexHeldInside
  <2>7. CheckedFree(B)'
    BY <1>7, <2>0 DEF CloseConnection, CheckedFree, Accounted, AccountedFor
  <2>8. GrantedConnected(B)'
    <3> SUFFICES ASSUME NEW u \in Threads, NEW c \in Scope(command[u]) \cap B,
                        pc'[u] \in Granted \ {"release"}, Needs(u, c)
                 PROVE  fConnected'[c]
      BY <1>7 DEF CloseConnection, GrantedConnected
    <3>1. CASE c # Mtc
      BY <1>7, <3>1, <2>0 DEF CloseConnection, GrantedConnected, Boards
    <3>2. CASE c = Mtc
      <4>1. u # t
        BY <2>0, <3>2
      <4>2. pc[u] = "grab" /\ c \in todo[u]
        BY <1>7, <2>0, <3>2, <4>1 DEF CloseConnection, OneHolder, Boards
      <4> QED
        BY <2>0, <3>2, <4>2 DEF CheckedFree, Accounted, AccountedFor, Boards
    <3> QED
      BY <3>1, <3>2
  <2>9. OneOwner(B)'
    BY <1>7 DEF CloseConnection, OneOwner, Owns, MutexHeldInside
  <2> QED
    BY <1>0, <2>1, <2>2, <2>3, <2>4, <2>5, <2>6, <2>7, <2>8, <2>9
<1>8. ASSUME NEW t \in Threads, Connect(t) PROVE IndInv(B)'
  <2>1. FromMenu'
    BY <1>8 DEF Connect, FromMenu, FlagsDecide, MutexHeldInside
  <2>2. MutexHeldInside'
    BY <1>8 DEF Connect, MutexHeldInside, FlagsDecide, MutexHeldInside
  <2>3. LoopsInScope'
    BY <1>8 DEF Connect, LoopsInScope, FlagsDecide, MutexHeldInside
  <2>4. FlagsDecide'
    BY <1>8 DEF Connect, FlagsDecide, FlagsDecide, MutexHeldInside
  <2>5. OneHolder(B)'
    BY <1>8 DEF Connect, OneHolder, FlagsDecide, MutexHeldInside
  <2>6. Accounted(B)'
    BY <1>8 DEF Connect, Accounted, AccountedFor, FlagsDecide, MutexHeldInside
  <2>7. CheckedFree(B)'
    BY <1>8 DEF Connect, CheckedFree, FlagsDecide, MutexHeldInside
  <2>8. GrantedConnected(B)'
    BY <1>8 DEF Connect, GrantedConnected, FlagsDecide, MutexHeldInside
  <2>9. OneOwner(B)'
    BY <1>8 DEF Connect, OneOwner, Owns, MutexHeldInside
  <2> QED
    BY <1>0, <2>1, <2>2, <2>3, <2>4, <2>5, <2>6, <2>7, <2>8, <2>9
<1>9. ASSUME NEW t \in Threads, FinishBody(t) PROVE IndInv(B)'
  <2>1. FromMenu'
    BY <1>9 DEF FinishBody, FromMenu, FlagsDecide, MutexHeldInside
  <2>2. MutexHeldInside'
    BY <1>9 DEF FinishBody, MutexHeldInside, FlagsDecide, MutexHeldInside
  <2>3. LoopsInScope'
    BY <1>9 DEF FinishBody, LoopsInScope, FlagsDecide, MutexHeldInside
  <2>4. FlagsDecide'
    BY <1>9 DEF FinishBody, FlagsDecide, FlagsDecide, MutexHeldInside
  <2>5. OneHolder(B)'
    BY <1>9 DEF FinishBody, OneHolder, FlagsDecide, MutexHeldInside
  <2>6. Accounted(B)'
    BY <1>9 DEF FinishBody, Accounted, AccountedFor, FlagsDecide, MutexHeldInside
  <2>7. CheckedFree(B)'
    BY <1>9 DEF FinishBody, CheckedFree, FlagsDecide, MutexHeldInside
  <2>8. GrantedConnected(B)'
    BY <1>9 DEF FinishBody, GrantedConnected, FlagsDecide, MutexHeldInside
  <2>9. OneOwner(B)'
    BY <1>9 DEF FinishBody, OneOwner, Owns, MutexHeldInside
  <2> QED
    BY <1>0, <2>1, <2>2, <2>3, <2>4, <2>5, <2>6, <2>7, <2>8, <2>9
<1>10. ASSUME NEW t \in Threads, EnterUnlockConnections(t) PROVE IndInv(B)'
  <2>1. FromMenu'
    BY <1>10 DEF EnterUnlockConnections, FromMenu, FlagsDecide, MutexHeldInside
  <2>2. MutexHeldInside'
    BY <1>10 DEF EnterUnlockConnections, MutexHeldInside, FlagsDecide, MutexHeldInside
  <2>3. LoopsInScope'
    BY <1>10 DEF EnterUnlockConnections, LoopsInScope, FlagsDecide, MutexHeldInside
  <2>4. FlagsDecide'
    BY <1>10 DEF EnterUnlockConnections, FlagsDecide, FlagsDecide, MutexHeldInside
  <2>5. OneHolder(B)'
    BY <1>10 DEF EnterUnlockConnections, OneHolder, FlagsDecide, MutexHeldInside
  <2>6. Accounted(B)'
    BY <1>10 DEF EnterUnlockConnections, Accounted, AccountedFor, FlagsDecide, MutexHeldInside
  <2>7. CheckedFree(B)'
    BY <1>10 DEF EnterUnlockConnections, CheckedFree, FlagsDecide, MutexHeldInside
  <2>8. GrantedConnected(B)'
    BY <1>10 DEF EnterUnlockConnections, GrantedConnected, FlagsDecide, MutexHeldInside
  <2>9. OneOwner(B)'
    BY <1>10 DEF EnterUnlockConnections, OneOwner, Owns, MutexHeldInside
  <2> QED
    BY <1>0, <2>1, <2>2, <2>3, <2>4, <2>5, <2>6, <2>7, <2>8, <2>9
<1>11. ASSUME NEW t \in Threads, NEW b \in Boards, ReleaseBoard(t, b) PROVE IndInv(B)'
  <2>1. FromMenu'
    BY <1>11 DEF ReleaseBoard, FromMenu, FlagsDecide, MutexHeldInside
  <2>2. MutexHeldInside'
    BY <1>11 DEF ReleaseBoard, MutexHeldInside, FlagsDecide, MutexHeldInside
  <2>3. LoopsInScope'
    BY <1>11 DEF ReleaseBoard, LoopsInScope, FlagsDecide, MutexHeldInside
  <2>4. FlagsDecide'
    BY <1>11 DEF ReleaseBoard, FlagsDecide, FlagsDecide, MutexHeldInside
  <2>5. OneHolder(B)'
    BY <1>11 DEF ReleaseBoard, OneHolder, FlagsDecide, MutexHeldInside
  <2>6. Accounted(B)'
    <3>1. \A u \in Threads : b \in B => ~Holds(u, b)'
      BY <1>11 DEF ReleaseBoard, IsNext, LoopsInScope, OneHolder
    <3>2. \A u \in Threads, c \in Boards : c # b => (Holds(u, c)' <=> Holds(u, c))
      BY <1>11 DEF ReleaseBoard
    <3>3. ~fLock'[b] /\ \A c \in Boards : c # b => fLock'[c] = fLock[c]
      BY <1>11 DEF ReleaseBoard
    <3> QED
      BY <3>1, <3>2, <3>3 DEF Accounted, AccountedFor
  <2>7. CheckedFree(B)'
    BY <1>11 DEF ReleaseBoard, CheckedFree, FlagsDecide, MutexHeldInside
  <2>8. GrantedConnected(B)'
    BY <1>11 DEF ReleaseBoard, GrantedConnected, FlagsDecide, MutexHeldInside
  <2>9. OneOwner(B)'
    BY <1>11 DEF ReleaseBoard, OneOwner, Owns, MutexHeldInside
  <2> QED
    BY <1>0, <2>1, <2>2, <2>3, <2>4, <2>5, <2>6, <2>7, <2>8, <2>9
<1>12. ASSUME NEW t \in Threads, LeaveUnlockConnections(t) PROVE IndInv(B)'
  <2>1. FromMenu'
    BY <1>12 DEF LeaveUnlockConnections, FromMenu, FlagsDecide, MutexHeldInside
  <2>2. MutexHeldInside'
    BY <1>12 DEF LeaveUnlockConnections, MutexHeldInside, FlagsDecide, MutexHeldInside
  <2>3. LoopsInScope'
    BY <1>12 DEF LeaveUnlockConnections, LoopsInScope, FlagsDecide, MutexHeldInside
  <2>4. FlagsDecide'
    BY <1>12 DEF LeaveUnlockConnections, FlagsDecide, FlagsDecide, MutexHeldInside
  <2>5. OneHolder(B)'
    BY <1>12 DEF LeaveUnlockConnections, OneHolder, FlagsDecide, MutexHeldInside
  <2>6. Accounted(B)'
    BY <1>12 DEF LeaveUnlockConnections, Accounted, AccountedFor, FlagsDecide, MutexHeldInside
  <2>7. CheckedFree(B)'
    BY <1>12 DEF LeaveUnlockConnections, CheckedFree, FlagsDecide, MutexHeldInside
  <2>8. GrantedConnected(B)'
    BY <1>12 DEF LeaveUnlockConnections, GrantedConnected, FlagsDecide, MutexHeldInside
  <2>9. OneOwner(B)'
    BY <1>12 DEF LeaveUnlockConnections, OneOwner, Owns, MutexHeldInside
  <2> QED
    BY <1>0, <2>1, <2>2, <2>3, <2>4, <2>5, <2>6, <2>7, <2>8, <2>9
<1>13. ASSUME NEW b \in Boards, AcceptCallback(b) PROVE IndInv(B)'
  <2>1. FromMenu'
    BY <1>13 DEF AcceptCallback, FromMenu, FlagsDecide, MutexHeldInside
  <2>2. MutexHeldInside'
    BY <1>13 DEF AcceptCallback, MutexHeldInside, FlagsDecide, MutexHeldInside
  <2>3. LoopsInScope'
    BY <1>13 DEF AcceptCallback, LoopsInScope, FlagsDecide, MutexHeldInside
  <2>4. FlagsDecide'
    BY <1>13 DEF AcceptCallback, FlagsDecide, FlagsDecide, MutexHeldInside
  <2>5. OneHolder(B)'
    BY <1>13 DEF AcceptCallback, OneHolder, FlagsDecide, MutexHeldInside
  <2>6. Accounted(B)'
    BY <1>13 DEF AcceptCallback, Accounted, AccountedFor, FlagsDecide, MutexHeldInside
  <2>7. CheckedFree(B)'
    BY <1>13 DEF AcceptCallback, CheckedFree, FlagsDecide, MutexHeldInside
  <2>8. GrantedConnected(B)'
    BY <1>13 DEF AcceptCallback, GrantedConnected, FlagsDecide, MutexHeldInside
  <2>9. OneOwner(B)'
    BY <1>13 DEF AcceptCallback, OneOwner, Owns, MutexHeldInside
  <2> QED
    BY <1>0, <2>1, <2>2, <2>3, <2>4, <2>5, <2>6, <2>7, <2>8, <2>9
<1>14. CASE UNCHANGED vars
  BY <1>0, <1>14 DEF vars, FromMenu, MutexHeldInside, LoopsInScope, FlagsDecide, OneHolder, OneOwner, Owns,
     Accounted, AccountedFor, CheckedFree, GrantedConnected
<1> QED
  BY <1>1, <1>2, <1>3, <1>4, <1>5, <1>6, <1>7, <1>8, <1>9, <1>10, <1>11, <1>12, <1>13, <1>14 DEF Next, ThreadStep, LockStep, BodyStep

LEMMA IndInvInit ==
  ASSUME NEW B \in SUBSET Boards, Init
  PROVE  IndInv(B)
<1>1. TypeOK
  BY PlaceholderFacts DEF Init, TypeOK, Phases
<1>2. FromMenu /\ MutexHeldInside /\ LoopsInScope /\ FlagsDecide
  BY ConnectionsAssumption
     DEF Init, FromMenu, MutexHeldInside, LoopsInScope, FlagsDecide, Inside, Granted, Refused
<1>3. OneHolder(B) /\ OneOwner(B) /\ Accounted(B) /\ CheckedFree(B) /\ GrantedConnected(B)
  BY DEF Init, OneHolder, OneOwner, Owns, Accounted, AccountedFor, CheckedFree, GrantedConnected, Holds, Granted
<1> QED
  BY <1>1, <1>2, <1>3 DEF IndInv

\* The locks of the crates are in order in every session, and those of all boards as long
\* as no two sbc_control overlap.
LEMMA CratesInductive == Spec => []IndInv(Crates)
<1>1. Crates \in SUBSET Boards /\ Mtc \notin Crates
  BY ConnectionsAssumption DEF Boards, Mtc
<1>2. Init => IndInv(Crates)
  BY <1>1, IndInvInit
<1>3. IndInv(Crates) /\ [Next]_vars => IndInv(Crates)'
  BY <1>1, IndInvStep
<1> QED
  BY <1>2, <1>3, PTL DEF Spec

LEMMA Inductive == Spec /\ []OneSbcControl => []IndInv(Boards)
<1>1. Init => IndInv(Boards)
  BY IndInvInit
<1>2. OneSbcControl /\ IndInv(Boards) /\ [Next]_vars => IndInv(Boards)'
  BY IndInvStep
<1> QED
  BY <1>1, <1>2, PTL DEF Spec

\* A thread in its body holds every board it talks to.
LEMMA UsersHold ==
  ASSUME NEW B, ScopesCoverUse, IndInv(B)
  PROVE  \A t \in Threads : \A b \in Using(t) :
           b \in Boards /\ b \in Scope(command[t]) /\ Holds(t, b)
BY MenuFacts, CommandFacts DEF ScopesCoverUse, IndInv, FromMenu, Using, InBody, Holds

\* For sessions whose commands talk only to boards they lock (so without ecal -l and
\* check_recv_queues): however many command threads run, in whatever order they pass
\* through LockConnections, no crate is ever talked to by two of them, and the MTC is not
\* either as long as no two sbc_control overlap.  If they do, two of them may have it.
THEOREM MutualExclusionHolds ==
  ASSUME ScopesCoverUse
  PROVE  /\ Spec => [](\A t, u \in Threads : t # u => Using(t) \cap Using(u) \subseteq {Mtc})
         /\ Spec /\ []OneSbcControl => []MutualExclusion
<1>1. IndInv(Crates) => \A t, u \in Threads : t # u => Using(t) \cap Using(u) \subseteq {Mtc}
  BY UsersHold DEF IndInv, OneHolder, Boards
<1>2. IndInv(Boards) => MutualExclusion
  BY UsersHold DEF IndInv, OneHolder, MutualExclusion
<1> QED
  BY <1>1, <1>2, CratesInductive, Inductive, PTL

\* In every session the flag fLock of a crate is set exactly while some thread has the
\* crate: no refusal leaks a lock and no UnlockConnections frees the crate of another
\* thread.  The same holds of the MTC as long as no two sbc_control overlap: of two that
\* do, the first to end unlocks the MTC of the other.
THEOREM LocksAccountedForHolds ==
  /\ Spec => [](\A b \in Crates : AccountedFor(b))
  /\ Spec /\ []OneSbcControl => []LocksAccountedFor
<1>1. IndInv(Crates) => \A b \in Crates : AccountedFor(b)
  BY DEF IndInv, Accounted
<1>2. IndInv(Boards) => LocksAccountedFor
  BY DEF IndInv, Accounted, LocksAccountedFor
<1> QED
  BY <1>1, <1>2, CratesInductive, Inductive, PTL

\* For sessions whose commands talk only to boards they lock: the crates a command talks
\* to stay connected in every session, and the MTC does as long as no two sbc_control
\* overlap.  If they do, the lock they share is gone with the first, and the second can
\* close the connection under a third command.
THEOREM BoardsStayConnectedHolds ==
  ASSUME ScopesCoverUse
  PROVE  /\ Spec => [](\A t \in Threads : \A b \in Using(t) \ {Mtc} : fConnected[b])
         /\ Spec /\ []OneSbcControl => []BoardsStayConnected
<1> USE UsersHold DEF IndInv, GrantedConnected, Needs, Granted, Using, InBody
<1>1. IndInv(Crates) => \A t \in Threads : \A b \in Using(t) \ {Mtc} : fConnected[b]
  BY DEF Boards
<1>2. IndInv(Boards) => BoardsStayConnected
  BY DEF BoardsStayConnected
<1> QED
  BY <1>1, <1>2, CratesInductive, Inductive, PTL

\* A session with one sbc_control line at most has no two of them under way.
THEOREM OneLineSuffices ==
  ASSUME \A t, u \in Threads : \A c \in Menu[t], d \in Menu[u] :
           IsSbcControl(c) /\ IsSbcControl(d) => t = u
  PROVE  Spec => []OneSbcControl
<1>1. IndInv(Crates) => OneSbcControl
  BY DEF IndInv, FromMenu, OneSbcControl, UnderWay
<1> QED
  BY <1>1, CratesInductive, PTL

-----------------------------------------------------------------------------
(***************************************************************************)
(* Connections implements BoardAllocator.                                  *)
(***************************************************************************)
LEMMA OwnerIs ==
  ASSUME OneOwner(Boards), NEW b \in Boards
  PROVE  /\ \A t \in Threads : ownerBar[b] = t <=> b \in Owns(t)
         /\ ownerBar[b] = NoThread <=> \A t \in Threads : b \notin Owns(t)
<1>1. CASE \E t \in Threads : b \in Owns(t)
  <2>1. ownerBar[b] \in Threads /\ b \in Owns(ownerBar[b])
    BY <1>1 DEF ownerBar
  <2> QED
    BY <2>1, ConnectionsAssumption DEF OneOwner
<1>2. CASE ~\E t \in Threads : b \in Owns(t)
  BY <1>2, ConnectionsAssumption DEF ownerBar
<1> QED
  BY <1>1, <1>2

LEMMA InitRefines == Init => Allocator!Init
<1> SUFFICES ASSUME Init PROVE Allocator!Init
  OBVIOUS
<1>1. wantBar = [t \in Threads |-> {}] /\ needBar = [t \in Threads |-> {}]
  BY DEF Init, wantBar, needBar
<1>2. ownerBar = [b \in Boards |-> NoThread]
  BY DEF Init, ownerBar, Owns
<1>3. statusBar = [t \in Threads |-> "new"]
  BY DEF Init, statusBar
<1>4. linkedBar = {}
  BY DEF Init, linkedBar
<1> QED
  BY <1>1, <1>2, <1>3, <1>4 DEF Allocator!Init

LEMMA OwnersUnchanged ==
  ASSUME \A t \in Threads : Owns(t)' = Owns(t)
  PROVE  ownerBar' = ownerBar
BY DEF ownerBar

\* Steps that move no request: what the allocator sees is unchanged.
LEMMA Stutters ==
  ASSUME UNCHANGED command,
         linkedBar' = linkedBar,
         \A t \in Threads : /\ pc[t] = "idle" <=> pc'[t] = "idle"
                            /\ Owns(t)' = Owns(t)
                            /\ statusBar'[t] = statusBar[t]
  PROVE  UNCHANGED Allocator!vars
BY DEF Allocator!vars, wantBar, needBar, ownerBar, statusBar

\* Every step is a step of the allocator or leaves it unchanged.
LEMMA StepRefines ==
  ASSUME IndInv(Boards), IndInv(Boards)', [Next]_vars
  PROVE  [Allocator!Next]_Allocator!vars
<1> USE MenuFacts, CommandFacts, BodyStartFacts
<1> USE DEF IndInv, TypeOK, Phases, Goto, Refused
<1> DEFINE Idem == UNCHANGED Allocator!vars
<1>1. ASSUME NEW t \in Threads, Start(t) PROVE Allocator!Next
  <2>1. PICK c \in Menu[t] : command' = [command EXCEPT ![t] = c]
    BY <1>1 DEF Start
  <2> DEFINE S == Scope(c)
             N == S \ (IF IsSbcControl(c) THEN {Mtc} ELSE {})
  <2>2. S \in SUBSET Boards /\ N \in SUBSET S
    BY <2>1
  <2>3. wantBar' = [wantBar EXCEPT ![t] = S] /\ needBar' = [needBar EXCEPT ![t] = N]
    BY <1>1, <2>1 DEF Start, wantBar, needBar
  <2>4. statusBar[t] = "new" /\ statusBar' = [statusBar EXCEPT ![t] = "asked"]
    BY <1>1, <2>1 DEF Start, statusBar, FlagsDecide
  <2>5. ownerBar' = ownerBar /\ linkedBar' = linkedBar
    <3>1. \A u \in Threads : Owns(u)' = Owns(u)
      BY <1>1, <2>1 DEF Start, Owns
    <3> QED
      BY <1>1, <3>1, OwnersUnchanged DEF Start, linkedBar
  <2>6. Allocator!Ask(t, S, N)
    BY <2>2, <2>3, <2>4, <2>5 DEF Allocator!Ask
  <2> QED
    BY <2>2, <2>6 DEF Allocator!Next
<1>2. ASSUME NEW t \in Threads, EnterLockConnections(t) PROVE Idem
  BY <1>2, Stutters DEF EnterLockConnections, Owns, statusBar, linkedBar
<1>3. ASSUME NEW t \in Threads, NEW b \in Boards, CheckBoard(t, b)
      PROVE Allocator!Next \/ Idem
  <2>1. wantBar' = wantBar /\ needBar' = needBar /\ ownerBar' = ownerBar
        /\ linkedBar' = linkedBar
    <3>1. \A u \in Threads : Owns(u)' = Owns(u)
      BY <1>3 DEF CheckBoard, Owns
    <3> QED
      BY <1>3, <3>1, OwnersUnchanged DEF CheckBoard, wantBar, needBar, linkedBar
  <2>2. CASE Refused(t) \/ ~Refused(t)'
    <3>1. statusBar' = statusBar
      BY <1>3, <2>2 DEF CheckBoard, statusBar
    <3> QED
      BY <2>1, <3>1 DEF Allocator!vars
  <2>3. CASE ~Refused(t) /\ Refused(t)'
    <3>1. statusBar[t] = "asked" /\ statusBar' = [statusBar EXCEPT ![t] = "refused"]
      BY <1>3, <2>3 DEF CheckBoard, statusBar
    <3>2. b \in wantBar[t] /\ (needBar[t] = wantBar[t] \/ needBar[t] = wantBar[t] \ {Mtc})
      BY <1>3 DEF CheckBoard, IsNext, LoopsInScope, Inside, wantBar, needBar
    <3>3. \/ ownerBar[b] # NoThread
          \/ b \in needBar[t] /\ b \notin linkedBar
      <4>1. CASE Busy(b)
        <5>1. \E u \in Threads : b \in Owns(u)
          BY <4>1 DEF Busy, Accounted, AccountedFor, Holds, Owns
        <5> QED
          BY <5>1, OwnerIs
      <4>2. CASE ~Busy(b)
        <5>1. NoConnection(b) /\ ~(b = Mtc /\ IsSbcControl(command[t]))
          BY <1>3, <2>3, <4>2 DEF CheckBoard
        <5>2. b \in needBar[t]
          BY <1>3, <3>2, <5>1 DEF CheckBoard, needBar
        <5> QED
          BY <5>1, <5>2 DEF NoConnection, linkedBar
      <4> QED
        BY <4>1, <4>2
    <3>4. Allocator!Refuse(t)
      BY <2>1, <3>1, <3>2, <3>3 DEF Allocator!Refuse
    <3> QED
      BY <3>4 DEF Allocator!Next
  <2> QED
    BY <2>2, <2>3
<1>4. ASSUME NEW t \in Threads, Decide(t) PROVE Allocator!Next \/ Idem
  <2>1. CASE Refused(t)
    BY <1>4, <2>1, Stutters DEF Decide, Owns, statusBar, linkedBar
  <2>2. CASE ~Refused(t)
    <3>1. wantBar' = wantBar /\ needBar' = needBar /\ linkedBar' = linkedBar
      BY <1>4 DEF Decide, wantBar, needBar, linkedBar
    <3>2. statusBar[t] = "asked" /\ statusBar' = [statusBar EXCEPT ![t] = "granted"]
      BY <1>4, <2>2 DEF Decide, statusBar
    <3>3. wantBar[t] = Scope(command[t]) /\ wantBar[t] \subseteq Boards
      BY <1>4 DEF Decide, wantBar
    <3>4. needBar[t] \subseteq linkedBar
      BY <1>4, <2>2 DEF Decide, wantBar, needBar, linkedBar, CheckedFree, Needs
    <3>5. /\ Owns(t) = {} /\ Owns(t)' = wantBar[t]
          /\ \A u \in Threads : u # t => Owns(u)' = Owns(u)
      BY <1>4, <2>2, <3>3 DEF Decide, Owns
    <3>6. \A c \in wantBar[t] : \A u \in Threads : c \notin Owns(u)
      BY <1>4, <2>2, <3>3
         DEF Decide, CheckedFree, Accounted, AccountedFor, Holds, Owns, MutexHeldInside, Inside
    <3>7. ownerBar' = [c \in Boards |-> IF c \in wantBar[t] THEN t ELSE ownerBar[c]]
      <4>1. ASSUME NEW c \in Boards
            PROVE  ownerBar'[c] = IF c \in wantBar[t] THEN t ELSE ownerBar[c]
        <5>1. CASE c \in wantBar[t]
          <6>1. \A u \in Threads : c \in Owns(u)' <=> u = t
            BY <3>5, <3>6, <5>1
          <6> QED
            BY <5>1, <6>1 DEF ownerBar
        <5>2. CASE c \notin wantBar[t]
          <6>1. \A u \in Threads : c \in Owns(u)' <=> c \in Owns(u)
            BY <3>5, <5>2
          <6> QED
            BY <5>2, <6>1 DEF ownerBar
        <5> QED
          BY <5>1, <5>2
      <4> QED
        BY <4>1 DEF ownerBar
    <3>8. Allocator!Grant(t)
      BY <3>1, <3>2, <3>3, <3>4, <3>6, <3>7, OwnerIs DEF Allocator!Grant
    <3> QED
      BY <3>8 DEF Allocator!Next
  <2> QED
    BY <2>1, <2>2
<1>5. ASSUME NEW t \in Threads, NEW b \in Boards, GrabBoard(t, b) PROVE Idem
  BY <1>5, Stutters DEF GrabBoard, Owns, statusBar, linkedBar
<1>6. ASSUME NEW t \in Threads, LeaveLockConnections(t) PROVE Idem
  BY <1>6, Stutters DEF LeaveLockConnections, Owns, statusBar, linkedBar, FlagsDecide, Granted
<1>7. ASSUME NEW t \in Threads, CloseConnection(t) PROVE Allocator!Next
  <2>1. wantBar' = wantBar /\ needBar' = needBar /\ ownerBar' = ownerBar
        /\ statusBar' = statusBar
    <3>1. \A u \in Threads : Owns(u)' = Owns(u)
      BY <1>7 DEF CloseConnection, Owns
    <3> QED
      BY <1>7, <3>1, OwnersUnchanged DEF CloseConnection, wantBar, needBar, statusBar
  <2>2. linkedBar' = linkedBar \ {Mtc}
    BY <1>7 DEF CloseConnection, linkedBar
  <2>3. Mtc \in Boards /\ Mtc \in Owns(t)
    BY <1>7 DEF CloseConnection, FlagsDecide, Owns, Boards
  <2>4. Allocator!Unlink
    BY <2>1, <2>2, <2>3, OwnerIs DEF Allocator!Unlink
  <2> QED
    BY <2>4 DEF Allocator!Next
<1>8. ASSUME NEW t \in Threads, Connect(t) PROVE Allocator!Next \/ Idem
  <2>1. wantBar' = wantBar /\ needBar' = needBar /\ ownerBar' = ownerBar
        /\ statusBar' = statusBar
    <3>1. \A u \in Threads : Owns(u)' = Owns(u)
      BY <1>8 DEF Connect, Owns
    <3> QED
      BY <1>8, <3>1, OwnersUnchanged DEF Connect, wantBar, needBar, statusBar
  <2>2. linkedBar' = linkedBar \/ linkedBar' = linkedBar \cup {Mtc}
    BY <1>8 DEF Connect, linkedBar, Boards
  <2> QED
    BY <2>1, <2>2 DEF Allocator!Next, Allocator!Link, Allocator!vars, Boards
<1>9. ASSUME NEW t \in Threads, FinishBody(t) PROVE Idem
  BY <1>9, Stutters DEF FinishBody, Owns, statusBar, linkedBar
<1>10. ASSUME NEW t \in Threads, EnterUnlockConnections(t) PROVE Idem
  BY <1>10, Stutters DEF EnterUnlockConnections, Owns, statusBar, linkedBar
<1>11. ASSUME NEW t \in Threads, NEW b \in Boards, ReleaseBoard(t, b) PROVE Idem
  BY <1>11, Stutters DEF ReleaseBoard, Owns, statusBar, linkedBar
<1>12. ASSUME NEW t \in Threads, LeaveUnlockConnections(t) PROVE Allocator!Next
  <2>1. wantBar' = wantBar /\ needBar' = needBar /\ linkedBar' = linkedBar
    BY <1>12 DEF LeaveUnlockConnections, wantBar, needBar, linkedBar
  <2>2. statusBar[t] = "granted" /\ statusBar' = [statusBar EXCEPT ![t] = "done"]
    BY <1>12 DEF LeaveUnlockConnections, statusBar, FlagsDecide, Granted
  <2>3. Owns(t)' = {} /\ \A u \in Threads : u # t => Owns(u)' = Owns(u)
    BY <1>12 DEF LeaveUnlockConnections, Owns
  <2>4. ownerBar' = [c \in Boards |-> IF ownerBar[c] = t THEN NoThread ELSE ownerBar[c]]
    <3>1. ASSUME NEW c \in Boards
          PROVE  ownerBar'[c] = IF ownerBar[c] = t THEN NoThread ELSE ownerBar[c]
      <4>1. CASE c \in Owns(t)
        <5>1. \A u \in Threads : c \notin Owns(u)'
          BY <2>3, <4>1 DEF OneOwner
        <5> QED
          BY <4>1, <5>1, OwnerIs DEF ownerBar
      <4>2. CASE c \notin Owns(t)
        <5>1. \A u \in Threads : c \in Owns(u)' <=> c \in Owns(u)
          BY <2>3, <4>2
        <5> QED
          BY <4>2, <5>1, OwnerIs DEF ownerBar
      <4> QED
        BY <4>1, <4>2
    <3> QED
      BY <3>1 DEF ownerBar
  <2>5. Allocator!Return(t)
    BY <2>1, <2>2, <2>4 DEF Allocator!Return
  <2> QED
    BY <2>5 DEF Allocator!Next
<1>13. ASSUME NEW b \in Boards, AcceptCallback(b) PROVE Allocator!Next
  <2>1. wantBar' = wantBar /\ needBar' = needBar /\ ownerBar' = ownerBar
        /\ statusBar' = statusBar
    <3>1. \A u \in Threads : Owns(u)' = Owns(u)
      BY <1>13 DEF AcceptCallback, Owns
    <3> QED
      BY <1>13, <3>1, OwnersUnchanged DEF AcceptCallback, wantBar, needBar, statusBar
  <2>2. linkedBar' = linkedBar \cup {b}
    BY <1>13 DEF AcceptCallback, linkedBar
  <2> QED
    BY <2>1, <2>2 DEF Allocator!Next, Allocator!Link
<1>14. CASE UNCHANGED vars
  BY <1>14, Stutters DEF vars, Owns, statusBar, linkedBar
<1> QED
  BY <1>1, <1>2, <1>3, <1>4, <1>5, <1>6, <1>7, <1>8, <1>9, <1>10, <1>11, <1>12, <1>13,
     <1>14 DEF Next, ThreadStep, LockStep, BodyStep

\* As long as no two sbc_control overlap, LockConnections and UnlockConnections, with their
\* loops, their mutex and one flag per board, implement an allocator that grants all the
\* boards of a command or none in one step, to one command at a time, and never refuses
\* without a reason.  Two sbc_control that overlap can both be granted the MTC.
THEOREM AllocatorImplemented == Spec /\ []OneSbcControl => ImplementsAllocator
<1>1. IndInv(Boards) /\ IndInv(Boards)' /\ [Next]_vars => [Allocator!Next]_(Allocator!vars)
  BY StepRefines
<1> QED
  BY <1>1, InitRefines, Inductive, PTL DEF Spec, ImplementsAllocator, Allocator!Spec
-----------------------------------------------------------------------------
(***************************************************************************)
(* The commands of the command table keep to the boards they lock, for any *)
(* number of crates: the assumption on the menus of MutualExclusionHolds.  *)
(***************************************************************************)
Table == INSTANCE CommandTable WITH CrateNums <- Crates

KeepsToScope(c) == c.touches \subseteq Scope(c)

LEMMA FamiliesKeepToScope ==
  /\ \A c \in Table!OnCrate : KeepsToScope(c)
  /\ \A c \in Table!OnMtc : KeepsToScope(c)
  /\ \A c \in Table!OnBoth : KeepsToScope(c)
  /\ \A c \in Table!OnMask : KeepsToScope(c)
  BY DEF Table!OnCrate, Table!OnMtc, Table!OnBoth, Table!OnMask,
         Table!BoardCommand, KeepsToScope, Scope, Mtc

LEMMA RunPedestalsKeepToScope ==
  \A c \in Table!RunPedestals : KeepsToScope(c)
  BY FamiliesKeepToScope
     DEF Table!RunPedestals, Table!BoardCommand, KeepsToScope, Scope, Mtc

LEMMA SbcControlKeepsToScope ==
  \A c \in Table!SbcControlCommands : KeepsToScope(c)
  BY DEF Table!SbcControlCommands, KeepsToScope, Scope, Mtc

\* The body of every command talks only to boards the command has locked, ecal -l
\* and check_recv_queues excepted (the branches of ControllerLink::ProcessCommand).
THEOREM TableKeepsToScope ==
  \A c \in Table!TestCommands \cup Table!SbcControlCommands : KeepsToScope(c)
<1>1. ASSUME NEW n \in Table!TestNames, NEW c \in Table!CommandsNamed(n)
      PROVE  KeepsToScope(c)
  BY <1>1, FamiliesKeepToScope, RunPedestalsKeepToScope
     DEF Table!CommandsNamed, Table!Ecal
<1>2. \A c \in Table!TestCommands : KeepsToScope(c)
  BY <1>1 DEF Table!TestCommands
<1>. QED
  BY <1>2, SbcControlKeepsToScope

\* Mutual exclusion for a session of table commands in which no two sbc_control overlap
\* (ControllerLink::ProcessCommand with LockConnections).
THEOREM TableCommandsExclude ==
  ASSUME \A t \in Threads : Menu[t] \subseteq Table!TestCommands \cup Table!SbcControlCommands
  PROVE  Spec /\ []OneSbcControl => []MutualExclusion
<1>1. ScopesCoverUse
  BY TableKeepsToScope DEF ScopesCoverUse, KeepsToScope
<1>. QED
  BY <1>1, MutualExclusionHolds
=============================================================================
