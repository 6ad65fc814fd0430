--------------------------- MODULE OperatorInput ---------------------------
(***************************************************************************)
(* The controller link: what becomes of a line the operator types.         *)
(*                                                                         *)
(* A line becomes a command thread (modelled in Connections), unless a     *)
(* running command has asked the operator a question: then it is left in   *)
(* fInput for that command.  A command asks with GetInput, which waits on  *)
(* the condition fInputCond, or with GrabNextInput, which it polls.  The   *)
(* one flag fLock says that a question is open, and the mutex fInputLock   *)
(* makes each of the steps below indivisible.                              *)
(***************************************************************************)
EXTENDS Integers, FiniteSets

CONSTANTS
  Askers,      \* the commands that ask the operator
  Pollers,     \* those of them that use GrabNextInput
  Bounded,     \* those that give a maxLength, and so copy all of fInput
  Locks,       \* Locks[a]: the boards command a holds while it runs
  MaxLines     \* bound on the lines of a behaviour

ASSUME OperatorInputAssumption ==
  /\ Pollers \subseteq Askers /\ Bounded \subseteq Askers
  /\ MaxLines \in Nat

VARIABLES
  fLock,            \* a question is open
  fInput,           \* the line kept for the command that asked
  fNumControllers,  \* ControllerLink::fNumControllers
  attached,         \* a controller is really connected
  pc,               \* where each asking command is
  results,          \* the buffer each of them passes to GetInput or GrabNextInput
  typed,            \* the number of lines so far; it gives them identities
  length,           \* the length of each line
  asked,            \* the lines that had been typed when the question was asked
  takers            \* who has had each line: commands that asked, or "dispatch"

input == <<fLock, fInput>>
controllers == <<fNumControllers, attached>>
commands == <<pc, results, asked>>
lines == <<typed, length>>
vars == <<input, controllers, commands, lines, takers>>

\* A text is kept as the line that each of its two characters comes from, 0 for none.
Characters == {1, 2}
LineIds == 1..MaxLines
Text == [Characters -> LineIds \cup {0}]
NoText == [i \in Characters |-> 0]
Line(l, n) == [i \in Characters |-> IF i <= n THEN l ELSE 0]

Places == {"off", "between", "asleep", "woken", "polling"}

TypeOK ==
  /\ fLock \in BOOLEAN /\ fInput \in Text
  /\ fNumControllers \in 0..1 /\ attached \in BOOLEAN
  /\ pc \in [Askers -> Places]
  /\ results \in [Askers -> Text]
  /\ typed \in 0..MaxLines /\ length \in [LineIds -> 0..2]
  /\ asked \in [Askers -> 0..MaxLines]
  /\ takers \in [LineIds -> SUBSET (Askers \cup {"dispatch"})]

Init ==
  /\ fLock = FALSE /\ fInput = NoText
  /\ fNumControllers = 0 /\ attached = FALSE
  /\ pc = [a \in Askers |-> "off"]
  /\ results = [a \in Askers |-> NoText]
  /\ typed = 0 /\ length = [l \in LineIds |-> 0]
  /\ asked = [a \in Askers |-> 0]
  /\ takers = [l \in LineIds |-> {}]

Goto(a, place) == pc' = [pc EXCEPT ![a] = place]
Running(a) == pc[a] # "off"

-----------------------------------------------------------------------------
\* Slip: the number of controllers is not looked at.
AcceptAnyway ==
  /\ ~attached
  /\ fNumControllers' = fNumControllers + 1
  /\ attached' = TRUE
  /\ UNCHANGED <<input, commands, lines, takers>>

\* ControllerLink::AcceptCallback with MAX_CONT_CON = 1; a second one is rejected.
AcceptCallback ==
  /\ fNumControllers < 1
  /\ ~attached
  /\ fNumControllers' = fNumControllers + 1
  /\ attached' = TRUE
  /\ UNCHANGED <<input, commands, lines, takers>>

\* EventCallback: the controller disconnects (EOF).
Disconnected ==
  /\ attached
  /\ attached' = FALSE
  /\ fNumControllers' = fNumControllers - 1
  /\ UNCHANGED <<input, commands, lines, takers>>

\* EventCallback: the connection is lost with an error, which is ignored.
ConnectionLost ==
  /\ attached
  /\ attached' = FALSE
  /\ UNCHANGED <<fNumControllers, input, commands, lines, takers>>

\* Slip: nobody is signalled.
KeepSilently(n) ==
  /\ length' = [length EXCEPT ![typed + 1] = n]
  /\ fInput' = Line(typed + 1, n)
  /\ fLock' = FALSE
  /\ UNCHANGED <<pc, takers>>

\* Slip: RecvCallback does not return, and the line starts a thread as well.
KeepAndDispatch(n) ==
  /\ length' = [length EXCEPT ![typed + 1] = n]
  /\ fInput' = Line(typed + 1, n)
  /\ fLock' = FALSE
  /\ IF \E a \in Askers : pc[a] = "asleep"
       THEN \E a \in Askers : pc[a] = "asleep" /\ Goto(a, "woken")
       ELSE UNCHANGED pc
  /\ takers' = [takers EXCEPT ![typed + 1] = @ \cup {"dispatch"}]

\* Slip: fInput is not cleared before the line is copied into it.
KeepWithoutClearing(n) ==
  /\ length' = [length EXCEPT ![typed + 1] = n]
  /\ fInput' = [i \in Characters |-> IF i <= n THEN typed + 1 ELSE fInput[i]]
  /\ fLock' = FALSE
  /\ IF \E a \in Askers : pc[a] = "asleep"
       THEN \E a \in Askers : pc[a] = "asleep" /\ Goto(a, "woken")
       ELSE UNCHANGED pc
  /\ UNCHANGED takers

\* The line is kept, and one of the commands waiting on fInputCond is woken.
KeepLine(n) ==
  /\ length' = [length EXCEPT ![typed + 1] = n]
  /\ fInput' = Line(typed + 1, n)
  /\ fLock' = FALSE
  /\ IF \E a \in Askers : pc[a] = "asleep"
       THEN \E a \in Askers : pc[a] = "asleep" /\ Goto(a, "woken")
       ELSE UNCHANGED pc
  /\ UNCHANGED takers

\* The line starts a thread for ProcessCommand.
Dispatch(n) ==
  /\ length' = [length EXCEPT ![typed + 1] = n]
  /\ takers' = [takers EXCEPT ![typed + 1] = @ \cup {"dispatch"}]
  /\ UNCHANGED <<input, pc>>

\* A line of n characters arrives: RecvCallback.
RecvCallback(n) ==
  /\ attached
  /\ typed < MaxLines
  /\ typed' = typed + 1
  /\ IF fLock THEN KeepLine(n) ELSE Dispatch(n)
  /\ UNCHANGED <<controllers, results, asked>>

-----------------------------------------------------------------------------
\* A command that asks has got its boards.
Begin(a) ==
  /\ ~Running(a)
  /\ \A other \in Askers : Running(other) => Locks[a] \cap Locks[other] = {}
  /\ Goto(a, "between")
  /\ results' = [results EXCEPT ![a] = NoText]
  /\ UNCHANGED <<input, controllers, lines, asked, takers>>

\* Slip: a command that polls does not open its question first.
AskWithoutSetup(a) ==
  /\ pc[a] = "between"
  /\ fLock' = (fLock \/ a \notin Pollers)
  /\ asked' = [asked EXCEPT ![a] = typed]
  /\ Goto(a, IF a \in Pollers THEN "polling" ELSE "asleep")
  /\ UNCHANGED <<fInput, controllers, results, lines, takers>>

\* GetInput up to its wait, or GrabNextInput with setup.
Ask(a) ==
  /\ pc[a] = "between"
  /\ fLock' = TRUE
  /\ asked' = [asked EXCEPT ![a] = typed]
  /\ Goto(a, IF a \in Pollers THEN "polling" ELSE "asleep")
  /\ UNCHANGED <<fInput, controllers, results, lines, takers>>

\* The line in fInput.
KeptLine == fInput[1]

\* memcpy with maxLength, or with strlen(fInput), which leaves the rest of results.
Copied(a) ==
  [i \in Characters |->
     IF a \in Bounded \/ i <= length[KeptLine] THEN fInput[i] ELSE results[a][i]]

TakeLine(a) ==
  /\ results' = [results EXCEPT ![a] = Copied(a)]
  /\ takers' = [takers EXCEPT ![KeptLine] = @ \cup {a}]
  /\ Goto(a, "between")

\* GetInput after the wait: while (fLock == 1).
WakeUp(a) ==
  /\ pc[a] = "woken"
  /\ IF fLock THEN Goto(a, "asleep") /\ UNCHANGED <<results, takers>>
              ELSE TakeLine(a)
  /\ UNCHANGED <<input, controllers, lines, asked>>

\* GrabNextInput without setup, when it finds a line; otherwise it returns 0.
Grab(a) ==
  /\ pc[a] = "polling"
  /\ ~fLock
  /\ TakeLine(a)
  /\ UNCHANGED <<input, controllers, lines, asked>>

\* Slip: the command may give up its question and leave it open.
EndAnywhere(a) ==
  /\ Running(a)
  /\ Goto(a, "off")
  /\ UNCHANGED <<input, controllers, results, lines, asked, takers>>

\* The command ends: the last question is answered, or the answer was quit.
End(a) ==
  /\ pc[a] = "between"
  /\ Goto(a, "off")
  /\ UNCHANGED <<input, controllers, results, lines, asked, takers>>

Next ==
  \/ AcceptCallback \/ Disconnected \/ ConnectionLost
  \/ \E n \in {1, 2} : RecvCallback(n)
  \/ \E a \in Askers : Begin(a) \/ Ask(a) \/ WakeUp(a) \/ Grab(a) \/ End(a)

Spec == Init /\ [][Next]_vars

\* A command thread that has been woken, or polls, is scheduled.
FairSpec == Spec /\ \A a \in Askers : WF_vars(WakeUp(a)) /\ WF_vars(Grab(a))

-----------------------------------------------------------------------------
Waiting(a) == pc[a] \in {"asleep", "woken", "polling"}

\* A line has one use: it answers one question or it is one command
\* (RecvCallback, ControllerLink.cpp:82-95).
LineHasOneUse == \A l \in LineIds : Cardinality(takers[l]) <= 1

\* What a command has taken was typed after it had asked: the line fInput still
\* holds from an earlier question is never the answer to a new one (GetInput and
\* GrabNextInput, ControllerLink.cpp:110-142).
AnswersAreFresh ==
  \A a \in Askers :
    pc[a] = "between" /\ results[a] # NoText => results[a][1] > asked[a]

\* A question is open only while a command waits for its answer, so that no later
\* command line disappears into a question nobody asks any more.
OpenQuestionHasAsker == fLock => \E a \in Askers : Waiting(a)

\* A command whose answer has come gets it: no wake-up is lost.
AnswersArrive == \A a \in Askers : Waiting(a) /\ ~fLock ~> ~Waiting(a)

\* A command that copies all of fInput has the line that was typed and no more:
\* nothing of a longer answer before it, its own or another command's, is left over
\* (the memset in RecvCallback, ControllerLink.cpp:83, and maxLength in the callers).
AnswerIsTheLine ==
  \A a \in Bounded :
    ~Waiting(a) /\ results[a] # NoText =>
      results[a] = Line(results[a][1], length[results[a][1]])
=============================================================================
