-------------------------- MODULE BoardAllocator --------------------------
(***************************************************************************)
(* What the connection locks of penn_daq promise to its command threads:   *)
(* an allocator of hardware boards.  A thread asks for a set of boards and *)
(* is told, in one indivisible step, either that all of them are its own   *)
(* or that it gets none, and it is turned away only for a reason: a board  *)
(* it asked for belongs to another thread, or is not connected.            *)
(* Connections implements this with a mutex and one flag per board.        *)
(***************************************************************************)
CONSTANTS Threads, Boards, Mtc, NoThread

VARIABLES
  want,       \* the boards each thread has asked for
  need,       \* those of them that must have a connection
  owner,      \* the thread each board belongs to, or NoThread
  status,     \* how far each thread's request has got
  linked      \* the boards that have a connection

vars == <<want, need, owner, status, linked>>

TypeOK ==
  /\ want \in [Threads -> SUBSET Boards]
  /\ need \in [Threads -> SUBSET Boards]
  /\ owner \in [Boards -> Threads \cup {NoThread}]
  /\ status \in [Threads -> {"new", "asked", "granted", "refused", "done"}]
  /\ linked \in SUBSET Boards

Init ==
  /\ want = [t \in Threads |-> {}]
  /\ need = [t \in Threads |-> {}]
  /\ owner = [b \in Boards |-> NoThread]
  /\ status = [t \in Threads |-> "new"]
  /\ linked = {}

Ask(t, S, N) ==
  /\ status[t] = "new"
  /\ want' = [want EXCEPT ![t] = S]
  /\ need' = [need EXCEPT ![t] = N]
  /\ status' = [status EXCEPT ![t] = "asked"]
  /\ UNCHANGED <<owner, linked>>

Grant(t) ==
  /\ status[t] = "asked"
  /\ \A b \in want[t] : owner[b] = NoThread
  /\ need[t] \subseteq linked
  /\ owner' = [b \in Boards |-> IF b \in want[t] THEN t ELSE owner[b]]
  /\ status' = [status EXCEPT ![t] = "granted"]
  /\ UNCHANGED <<want, need, linked>>

Refuse(t) ==
  /\ status[t] = "asked"
  /\ \/ \E b \in want[t] : owner[b] # NoThread
     \/ ~(need[t] \subseteq linked)
  /\ status' = [status EXCEPT ![t] = "refused"]
  /\ UNCHANGED <<want, need, owner, linked>>

Return(t) ==
  /\ status[t] = "granted"
  /\ owner' = [b \in Boards |-> IF owner[b] = t THEN NoThread ELSE owner[b]]
  /\ status' = [status EXCEPT ![t] = "done"]
  /\ UNCHANGED <<want, need, linked>>

\* Any board may connect at any time.
Link(b) ==
  /\ linked' = linked \cup {b}
  /\ UNCHANGED <<want, need, owner, status>>

\* Only the MTC is ever disconnected, and only by the thread that owns it.
Unlink ==
  /\ owner[Mtc] # NoThread
  /\ linked' = linked \ {Mtc}
  /\ UNCHANGED <<want, need, owner, status>>

Next ==
  \/ \E t \in Threads :
       \/ \E S \in SUBSET Boards : \E N \in SUBSET S : Ask(t, S, N)
       \/ Grant(t)
       \/ Refuse(t)
       \/ Return(t)
  \/ \E b \in Boards : Link(b)
  \/ Unlink

Spec == Init /\ [][Next]_vars
=============================================================================
