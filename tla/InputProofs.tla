---------------------------- MODULE InputProofs ----------------------------
(***************************************************************************)
(* What the operator types: the lines, for any set of commands that ask,   *)
(* whichever boards they hold, and any number of lines; and the arguments  *)
(* in a line, for any number of threads and calls, and lines of any        *)
(* length.                                                                 *)
(***************************************************************************)
EXTENDS OperatorInput, Arguments, FiniteSetTheorems, WellFoundedInduction, TLAPS

\* A command that is let in answers to the same boards as every other that asks, so
\* that LockConnections keeps all but one of them out.
OneAskerAtATime ==
  \A a, b \in Askers : a # b => Locks[a] \cap Locks[b] # {}

-----------------------------------------------------------------------------
(***************************************************************************)
(* Type correctness.  That fNumControllers is never negative needs that a  *)
(* controller which is attached has been counted.                          *)
(***************************************************************************)
AttachedIsCounted == attached => fNumControllers = 1

LEMMA LineIsText ==
  ASSUME NEW l \in LineIds, NEW n \in {1, 2}
  PROVE  /\ Line(l, n) \in Text
         /\ Line(l, n)[1] = l
         /\ \A i \in Characters : Line(l, n)[i] \in {0, l}
  BY OperatorInputAssumption DEF Line, Text, Characters, LineIds

LEMMA CopiedIsText ==
  ASSUME TypeOK, NEW a \in Askers
  PROVE  Copied(a) \in Text
  BY DEF TypeOK, Copied, Text

LEMMA TakeLineType ==
  ASSUME TypeOK, NEW a \in Askers, TakeLine(a)
  PROVE  /\ results' \in [Askers -> Text]
         /\ takers' \in [LineIds -> SUBSET (Askers \cup {"dispatch"})]
         /\ pc' \in [Askers -> Places]
<1>1. results' \in [Askers -> Text]
  BY CopiedIsText DEF TypeOK, TakeLine
<1>2. takers' \in [LineIds -> SUBSET (Askers \cup {"dispatch"})]
  BY DEF TypeOK, TakeLine
<1>3. pc' \in [Askers -> Places]
  BY DEF TypeOK, TakeLine, Goto, Places
<1> QED
  BY <1>1, <1>2, <1>3

LEMMA AttachedStep ==
  ASSUME TypeOK, AttachedIsCounted, [Next]_vars
  PROVE  AttachedIsCounted'
<1>1. CASE AcceptCallback
  BY <1>1 DEF AcceptCallback, TypeOK, AttachedIsCounted
<1>2. CASE Disconnected
  BY <1>2 DEF Disconnected, AttachedIsCounted
<1>3. CASE ConnectionLost
  BY <1>3 DEF ConnectionLost, AttachedIsCounted
<1>4. CASE UNCHANGED controllers
  BY <1>4 DEF controllers, AttachedIsCounted
<1> QED
  BY <1>1, <1>2, <1>3, <1>4
     DEF Next, RecvCallback, Begin, Ask, WakeUp, Grab, End, vars

LEMMA TypeStep ==
  ASSUME TypeOK, AttachedIsCounted, [Next]_vars
  PROVE  TypeOK'
<1> USE OperatorInputAssumption
<1>1. CASE AcceptCallback
  <2>1. fNumControllers' \in 0..1 /\ attached' \in BOOLEAN
    BY <1>1 DEF AcceptCallback, TypeOK
  <2> QED
    BY <1>1, <2>1 DEF AcceptCallback, TypeOK, input, commands, lines
<1>2. CASE Disconnected
  <2>1. fNumControllers = 1
    BY <1>2 DEF Disconnected, AttachedIsCounted
  <2>2. fNumControllers' \in 0..1
    BY <1>2, <2>1 DEF Disconnected
  <2>3. attached' \in BOOLEAN
    BY <1>2 DEF Disconnected
  <2> QED
    BY <1>2, <2>2, <2>3 DEF Disconnected, TypeOK, input, commands, lines
<1>3. CASE ConnectionLost
  BY <1>3 DEF ConnectionLost, TypeOK, input, commands, lines
<1>4. ASSUME NEW n \in {1, 2}, RecvCallback(n) PROVE TypeOK'
  <2>1. /\ typed' = typed + 1 /\ typed + 1 \in LineIds /\ typed' \in 0..MaxLines
        /\ UNCHANGED <<controllers, results, asked>>
    BY <1>4 DEF RecvCallback, TypeOK, LineIds
  <2>2. length' \in [LineIds -> 0..2]
    BY <1>4, <2>1 DEF RecvCallback, KeepLine, Dispatch, TypeOK
  <2>3. CASE fLock
    <3>1. KeepLine(n)
      BY <1>4, <2>3 DEF RecvCallback
    <3>2. pc' \in [Askers -> Places]
      BY <3>1 DEF KeepLine, Goto, Places, TypeOK
    <3>3. fInput' \in Text
      BY <3>1, <2>1, LineIsText DEF KeepLine
    <3> QED
      BY <3>1, <3>2, <3>3, <2>1, <2>2 DEF KeepLine, controllers, TypeOK
  <2>4. CASE ~fLock
    <3>1. Dispatch(n)
      BY <1>4, <2>4 DEF RecvCallback
    <3>2. takers' \in [LineIds -> SUBSET (Askers \cup {"dispatch"})]
      BY <3>1, <2>1 DEF Dispatch, TypeOK
    <3> QED
      BY <3>1, <3>2, <2>1, <2>2 DEF Dispatch, controllers, input, TypeOK
  <2> QED
    BY <2>3, <2>4
<1>5. ASSUME NEW a \in Askers, Begin(a) PROVE TypeOK'
  <2>1. NoText \in Text
    BY DEF NoText, Text
  <2> QED
    BY <1>5, <2>1 DEF Begin, Goto, Places, TypeOK, input, controllers, lines
<1>6. ASSUME NEW a \in Askers, Ask(a) PROVE TypeOK'
  <2>1. pc' \in [Askers -> Places] /\ asked' \in [Askers -> 0..MaxLines]
    BY <1>6 DEF Ask, Goto, Places, TypeOK
  <2> QED
    BY <1>6, <2>1 DEF Ask, TypeOK, controllers, lines
<1>7. ASSUME NEW a \in Askers, WakeUp(a) PROVE TypeOK'
  <2>1. CASE fLock
    BY <1>7, <2>1 DEF WakeUp, Goto, Places, TypeOK, input, controllers, lines
  <2>2. CASE ~fLock
    BY <1>7, <2>2, TakeLineType DEF WakeUp, TypeOK, input, controllers, lines
  <2> QED
    BY <2>1, <2>2
<1>8. ASSUME NEW a \in Askers, Grab(a) PROVE TypeOK'
  BY <1>8, TakeLineType DEF Grab, TypeOK, input, controllers, lines
<1>9. ASSUME NEW a \in Askers, End(a) PROVE TypeOK'
  BY <1>9 DEF End, Goto, Places, TypeOK, input, controllers, lines
<1>10. CASE UNCHANGED vars
  BY <1>10 DEF vars, input, controllers, commands, lines, TypeOK
<1> QED
  BY <1>1, <1>2, <1>3, <1>4, <1>5, <1>6, <1>7, <1>8, <1>9, <1>10 DEF Next

LEMMA InitType ==
  ASSUME Init
  PROVE  TypeOK /\ AttachedIsCounted
<1> USE OperatorInputAssumption
<1>1. NoText \in Text
  BY DEF NoText, Text
<1>2. /\ pc \in [Askers -> Places] /\ results \in [Askers -> Text]
      /\ asked \in [Askers -> 0..MaxLines] /\ length \in [LineIds -> 0..2]
  BY <1>1 DEF Init, Places
<1>3. takers \in [LineIds -> SUBSET (Askers \cup {"dispatch"})]
  BY DEF Init
<1>4. fLock \in BOOLEAN /\ attached \in BOOLEAN /\ AttachedIsCounted
  BY DEF Init, AttachedIsCounted
<1>5. fInput \in Text /\ fNumControllers \in 0..1 /\ typed \in 0..MaxLines
  BY <1>1 DEF Init
<1> QED
  BY <1>2, <1>3, <1>4, <1>5 DEF TypeOK

\* The commands that ask and the lines keep their types whatever is typed and whoever
\* takes it (GetInput, GrabNextInput, ControllerLink::RecvCallback).
THEOREM SpecTypeOK == Spec => []TypeOK
<1>1. Init => TypeOK /\ AttachedIsCounted
  BY InitType
<1>2. TypeOK /\ AttachedIsCounted /\ [Next]_vars => (TypeOK /\ AttachedIsCounted)'
  BY TypeStep, AttachedStep
<1> QED
  BY <1>1, <1>2, PTL DEF Spec

-----------------------------------------------------------------------------
(***************************************************************************)
(* The inductive invariant.                                                *)
(***************************************************************************)

\* fInput is empty or one whole line that has been typed.
InputIsALine ==
  \/ fInput = NoText
  \/ /\ fInput[1] \in 1..typed
     /\ length[fInput[1]] \in {1, 2}
     /\ fInput = Line(fInput[1], length[fInput[1]])

\* Only lines that have been typed are in a buffer or have been taken, and a question
\* is asked after the lines that came before it.
OnlyTypedLines ==
  /\ \A a \in Askers : asked[a] <= typed
  /\ \A a \in Askers : \A i \in Characters : results[a][i] <= typed
  /\ \A l \in LineIds : l > typed => takers[l] = {}

\* What fInput holds while a command waits and no question is open was typed after
\* that command had asked.
FreshForWaiting ==
  \A a \in Askers : Waiting(a) /\ ~fLock => fInput[1] > asked[a]

IInv ==
  /\ TypeOK
  /\ AttachedIsCounted
  /\ InputIsALine
  /\ OnlyTypedLines
  /\ OpenQuestionHasAsker
  /\ FreshForWaiting
  /\ AnswersAreFresh
  /\ AnswerIsTheLine

\* What OneAskerAtATime adds: one command at most runs, the line it waits for has gone
\* to nobody, and no line has gone to two.
OneRuns == \A a, b \in Askers : Running(a) /\ Running(b) => a = b

KeptForWaiting ==
  \A a \in Askers : Waiting(a) /\ ~fLock => takers[fInput[1]] = {}

OneTaker == \A l \in LineIds : \A x, y \in takers[l] : x = y

OneUseInv == OneRuns /\ KeptForWaiting /\ OneTaker

LEMMA IInvInit == Init => IInv
<1> SUFFICES ASSUME Init PROVE IInv
  OBVIOUS
<1> USE OperatorInputAssumption
<1>1. TypeOK /\ AttachedIsCounted
  BY InitType
<1>2. OnlyTypedLines
  BY DEF Init, OnlyTypedLines, NoText, LineIds
<1>3. InputIsALine /\ OpenQuestionHasAsker /\ FreshForWaiting /\ AnswersAreFresh
  BY DEF Init, InputIsALine, OpenQuestionHasAsker, FreshForWaiting, AnswersAreFresh,
         Waiting
<1>4. AnswerIsTheLine
  BY DEF Init, AnswerIsTheLine
<1> QED
  BY <1>1, <1>2, <1>3, <1>4 DEF IInv

\* A controller that comes or goes touches no question.
LEMMA IInvControllers ==
  ASSUME IInv, [Next]_vars, UNCHANGED <<input, commands, lines, takers>>
  PROVE  IInv'
<1>1. UNCHANGED <<fLock, fInput, pc, results, asked, typed, length, takers>>
  BY DEF input, commands, lines
<1>2. TypeOK' /\ AttachedIsCounted'
  BY TypeStep, AttachedStep DEF IInv
<1> QED
  BY <1>1, <1>2
     DEF IInv, InputIsALine, OnlyTypedLines, OpenQuestionHasAsker, FreshForWaiting,
         AnswersAreFresh, AnswerIsTheLine, Waiting, Line

LEMMA IInvRecv ==
  ASSUME IInv, [Next]_vars, NEW n \in {1, 2}, RecvCallback(n)
  PROVE  IInv'
<1> USE OperatorInputAssumption
<1> DEFINE l == typed + 1
<1>1. TypeOK /\ TypeOK' /\ AttachedIsCounted'
  BY TypeStep, AttachedStep DEF IInv
<1>2. /\ typed' = l /\ typed \in Nat /\ l \in LineIds /\ length' = [length EXCEPT ![l] = n]
      /\ UNCHANGED <<results, asked>>
  BY <1>1 DEF RecvCallback, KeepLine, Dispatch, TypeOK, LineIds
<1>3. \A k \in LineIds : k <= typed => length'[k] = length[k]
  BY <1>1, <1>2 DEF TypeOK, LineIds
<1>4. OnlyTypedLines'
  <2>1. \A a \in Askers : asked'[a] <= typed'
    BY <1>1, <1>2 DEF IInv, OnlyTypedLines, TypeOK
  <2>2. \A a \in Askers : \A i \in Characters : results'[a][i] <= typed'
    BY <1>1, <1>2 DEF IInv, OnlyTypedLines, TypeOK, Text, LineIds
  <2>3. \A k \in LineIds : k # l => takers'[k] = takers[k]
    BY <1>1 DEF RecvCallback, KeepLine, Dispatch, TypeOK
  <2>4. \A k \in LineIds : k > typed' => takers'[k] = {}
    BY <1>1, <1>2, <2>3 DEF IInv, OnlyTypedLines, TypeOK, LineIds
  <2> QED
    BY <2>1, <2>2, <2>4 DEF OnlyTypedLines
<1>5. \A a \in Askers : Waiting(a)' <=> Waiting(a)
  BY <1>1 DEF RecvCallback, KeepLine, Dispatch, Goto, TypeOK, Waiting, input
<1>6. \A a \in Askers : pc'[a] = "between" <=> pc[a] = "between"
  BY <1>1 DEF RecvCallback, KeepLine, Dispatch, Goto, TypeOK, input
<1>7. AnswersAreFresh'
  BY <1>2, <1>6 DEF IInv, AnswersAreFresh
<1>8. AnswerIsTheLine'
  <2> SUFFICES ASSUME NEW a \in Bounded, ~Waiting(a)', results'[a] # NoText
               PROVE  results'[a] = Line(results'[a][1], length'[results'[a][1]])
    BY DEF AnswerIsTheLine
  <2> DEFINE k == results[a][1]
  <2>1. a \in Askers
    OBVIOUS
  <2>2. results[a] = Line(k, length[k])
    BY <1>2, <1>5, <2>1 DEF IInv, AnswerIsTheLine
  <2>3. k \in LineIds \cup {0} /\ k <= typed
    BY <1>1, <2>1 DEF IInv, OnlyTypedLines, TypeOK, Text, Characters
  <2>4. CASE k = 0
    <3>1. results[a] = NoText
      BY <2>2, <2>4 DEF Line, NoText
    <3> QED
      BY <3>1, <1>2
  <2>5. CASE k \in LineIds
    BY <1>2, <1>3, <2>2, <2>3, <2>5
  <2> QED
    BY <2>3, <2>4, <2>5
<1>9. CASE fLock
  <2>1. KeepLine(n)
    BY <1>9 DEF RecvCallback
  <2>2. fInput' = Line(l, n) /\ ~fLock' /\ fInput'[1] = l
    BY <2>1, <1>2, LineIsText DEF KeepLine
  <2>3. InputIsALine'
    BY <2>2, <1>1, <1>2 DEF InputIsALine, TypeOK, LineIds
  <2>4. FreshForWaiting'
    BY <2>2, <1>1, <1>2, <1>5 DEF FreshForWaiting, IInv, OnlyTypedLines, TypeOK
  <2>5. OpenQuestionHasAsker'
    BY <2>2 DEF OpenQuestionHasAsker
  <2> QED
    BY <1>1, <1>4, <1>7, <1>8, <2>3, <2>4, <2>5 DEF IInv
<1>10. CASE ~fLock
  <2>1. UNCHANGED <<fLock, fInput, pc>>
    BY <1>10 DEF RecvCallback, Dispatch, input
  <2>2. InputIsALine'
    <3>1. CASE fInput = NoText
      BY <2>1, <3>1 DEF InputIsALine
    <3>2. CASE fInput # NoText
      <4>1. fInput[1] \in 1..typed /\ length[fInput[1]] \in {1, 2}
            /\ fInput = Line(fInput[1], length[fInput[1]])
        BY <3>2 DEF IInv, InputIsALine
      <4>2. length'[fInput[1]] = length[fInput[1]] /\ fInput[1] \in 1..typed'
        BY <4>1, <1>1, <1>2, <1>3 DEF TypeOK, LineIds
      <4> QED
        BY <4>1, <4>2, <2>1 DEF InputIsALine
    <3> QED
      BY <3>1, <3>2
  <2>3. FreshForWaiting' /\ OpenQuestionHasAsker'
    BY <2>1, <1>2, <1>5 DEF IInv, FreshForWaiting, OpenQuestionHasAsker
  <2> QED
    BY <1>1, <1>4, <1>7, <1>8, <2>2, <2>3 DEF IInv
<1> QED
  BY <1>9, <1>10

LEMMA IInvBegin ==
  ASSUME IInv, [Next]_vars, NEW a \in Askers, Begin(a)
  PROVE  IInv'
<1>1. TypeOK /\ TypeOK' /\ AttachedIsCounted'
  BY TypeStep, AttachedStep DEF IInv
<1>2. /\ UNCHANGED <<fLock, fInput, typed, length, asked, takers>>
      /\ results' = [results EXCEPT ![a] = NoText] /\ Goto(a, "between") /\ pc[a] = "off"
  BY DEF Begin, Running, input, lines
<1>3. \A b \in Askers : Waiting(b)' <=> Waiting(b)
  BY <1>1, <1>2 DEF Goto, TypeOK, Waiting
<1>4. \A b \in Askers : b # a => results'[b] = results[b] /\ pc'[b] = pc[b]
  BY <1>1, <1>2 DEF Goto, TypeOK
<1>5. results'[a] = NoText
  BY <1>1, <1>2 DEF TypeOK
<1>6. InputIsALine' /\ OpenQuestionHasAsker' /\ FreshForWaiting'
  BY <1>2, <1>3 DEF IInv, InputIsALine, OpenQuestionHasAsker, FreshForWaiting, Line
<1>7. OnlyTypedLines'
  <2>1. \A b \in Askers : \A i \in Characters : results'[b][i] <= typed'
    BY <1>1, <1>2, <1>4, <1>5 DEF IInv, OnlyTypedLines, TypeOK, NoText
  <2> QED
    BY <1>2, <2>1 DEF IInv, OnlyTypedLines
<1>8. AnswersAreFresh'
  BY <1>2, <1>4, <1>5 DEF IInv, AnswersAreFresh
<1>9. AnswerIsTheLine'
  BY <1>2, <1>3, <1>4, <1>5, OperatorInputAssumption DEF IInv, AnswerIsTheLine, Line
<1> QED
  BY <1>1, <1>6, <1>7, <1>8, <1>9 DEF IInv

LEMMA IInvAsk ==
  ASSUME IInv, [Next]_vars, NEW a \in Askers, Ask(a)
  PROVE  IInv'
<1>1. TypeOK /\ TypeOK' /\ AttachedIsCounted'
  BY TypeStep, AttachedStep DEF IInv
<1>2. /\ UNCHANGED <<fInput, results, typed, length, takers>>
      /\ fLock' = TRUE /\ asked' = [asked EXCEPT ![a] = typed] /\ pc[a] = "between"
  BY DEF Ask, lines
<1>3. Waiting(a)' /\ \A b \in Askers : b # a => pc'[b] = pc[b]
  BY <1>1 DEF Ask, Goto, TypeOK, Waiting
<1>4. \A b \in Askers : b # a => (Waiting(b)' <=> Waiting(b)) /\ asked'[b] = asked[b]
  BY <1>1, <1>2, <1>3 DEF TypeOK, Waiting
<1>5. InputIsALine' /\ OpenQuestionHasAsker' /\ FreshForWaiting'
  BY <1>2, <1>3 DEF IInv, InputIsALine, OpenQuestionHasAsker, FreshForWaiting, Line
<1>6. OnlyTypedLines'
  BY <1>1, <1>2 DEF IInv, OnlyTypedLines, TypeOK
<1>7. AnswersAreFresh'
  BY <1>2, <1>3, <1>4 DEF IInv, AnswersAreFresh, Waiting
<1>8. AnswerIsTheLine'
  BY <1>2, <1>3, <1>4, OperatorInputAssumption DEF IInv, AnswerIsTheLine, Line
<1> QED
  BY <1>1, <1>5, <1>6, <1>7, <1>8 DEF IInv

LEMMA IInvEnd ==
  ASSUME IInv, [Next]_vars, NEW a \in Askers, End(a)
  PROVE  IInv'
<1>1. TypeOK /\ TypeOK' /\ AttachedIsCounted'
  BY TypeStep, AttachedStep DEF IInv
<1>2. UNCHANGED <<fLock, fInput, results, asked, typed, length, takers>>
  BY DEF End, input, lines
<1>3. \A b \in Askers : Waiting(b)' <=> Waiting(b)
  BY <1>1 DEF End, Goto, TypeOK, Waiting
<1>4. \A b \in Askers : pc'[b] = "between" => pc[b] = "between"
  BY <1>1 DEF End, Goto, TypeOK
<1> QED
  BY <1>1, <1>2, <1>3, <1>4, OperatorInputAssumption
     DEF IInv, InputIsALine, OnlyTypedLines, OpenQuestionHasAsker, FreshForWaiting,
         AnswersAreFresh, AnswerIsTheLine, Line

\* What a command that takes the line in fInput has then: a fresh line, and the whole
\* of it where the command copies all of fInput.
LEMMA Taken ==
  ASSUME IInv, NEW a \in Askers, Waiting(a), ~fLock
  PROVE  /\ fInput[1] \in LineIds /\ asked[a] < fInput[1] /\ fInput[1] <= typed
         /\ fInput = Line(fInput[1], length[fInput[1]])
         /\ Copied(a) \in Text /\ Copied(a)[1] = fInput[1]
         /\ \A i \in Characters : Copied(a)[i] <= typed
         /\ a \in Bounded => Copied(a) = fInput
<1> USE OperatorInputAssumption
<1>1. TypeOK
  BY DEF IInv
<1>2. fInput[1] > asked[a] /\ asked[a] \in Nat
  BY <1>1 DEF IInv, FreshForWaiting, TypeOK
<1>3. fInput # NoText
  BY <1>2 DEF NoText, Characters
<1>4. /\ fInput[1] \in 1..typed /\ length[fInput[1]] \in {1, 2}
      /\ fInput = Line(fInput[1], length[fInput[1]])
  BY <1>3 DEF IInv, InputIsALine
<1>5. fInput[1] \in LineIds /\ asked[a] < fInput[1] /\ fInput[1] <= typed
  BY <1>1, <1>2, <1>4 DEF TypeOK, LineIds
<1>6. Copied(a) \in Text
  BY <1>1, CopiedIsText
<1>7. \A i \in Characters : Copied(a)[i] = fInput[i] \/ Copied(a)[i] = results[a][i]
  BY DEF Copied
<1>8. Copied(a)[1] = fInput[1]
  BY <1>4 DEF Copied, KeptLine, Characters
<1>9. \A i \in Characters : fInput[i] \in {0, fInput[1]}
  BY <1>4, <1>5, LineIsText
<1>10. \A i \in Characters : Copied(a)[i] <= typed
  BY <1>1, <1>5, <1>7, <1>9 DEF IInv, OnlyTypedLines, TypeOK, LineIds
<1>11. a \in Bounded => Copied(a) = fInput
  BY <1>1 DEF Copied, TypeOK, Text
<1> QED
  BY <1>4, <1>5, <1>6, <1>8, <1>10, <1>11

LEMMA IInvTake ==
  ASSUME IInv, [Next]_vars, NEW a \in Askers, Waiting(a), ~fLock, TakeLine(a),
         UNCHANGED <<input, controllers, lines, asked>>
  PROVE  IInv'
<1> USE OperatorInputAssumption
<1>1. TypeOK /\ TypeOK' /\ AttachedIsCounted'
  BY TypeStep, AttachedStep DEF IInv
<1>2. UNCHANGED <<fLock, fInput, asked, typed, length>>
  BY DEF input, lines
<1>3. results'[a] = Copied(a) /\ \A b \in Askers : b # a => results'[b] = results[b]
  BY <1>1 DEF TakeLine, TypeOK
<1>4. pc'[a] = "between" /\ \A b \in Askers : b # a => pc'[b] = pc[b]
  BY <1>1 DEF TakeLine, Goto, TypeOK
<1>5. \A b \in Askers : b # a => (Waiting(b)' <=> Waiting(b))
  BY <1>4 DEF Waiting
<1>6. ~Waiting(a)'
  BY <1>4 DEF Waiting
<1>7. InputIsALine' /\ OpenQuestionHasAsker' /\ FreshForWaiting'
  BY <1>2, <1>5, <1>6
     DEF IInv, InputIsALine, OpenQuestionHasAsker, FreshForWaiting, Line
<1>8. OnlyTypedLines'
  <2>1. \A b \in Askers : \A i \in Characters : results'[b][i] <= typed'
    BY <1>2, <1>3, Taken DEF IInv, OnlyTypedLines
  <2>2. \A l \in LineIds : l > typed => takers'[l] = {}
    BY <1>1, Taken DEF IInv, OnlyTypedLines, TakeLine, KeptLine, TypeOK, LineIds
  <2> QED
    BY <1>2, <2>1, <2>2 DEF IInv, OnlyTypedLines
<1>9. AnswersAreFresh'
  <2>1. results'[a][1] > asked'[a]
    BY <1>1, <1>2, <1>3, Taken DEF TypeOK, LineIds
  <2>2. ASSUME NEW b \in Askers, b # a, pc'[b] = "between", results'[b] # NoText
        PROVE  results'[b][1] > asked'[b]
    BY <1>2, <1>3, <1>4, <2>2 DEF IInv, AnswersAreFresh
  <2> QED
    BY <2>1, <2>2 DEF AnswersAreFresh
<1>10. AnswerIsTheLine'
  <2>1. a \in Bounded => results'[a] = Line(results'[a][1], length'[results'[a][1]])
    BY <1>2, <1>3, Taken
  <2>2. ASSUME NEW b \in Bounded, b # a, ~Waiting(b)', results'[b] # NoText
        PROVE  results'[b] = Line(results'[b][1], length'[results'[b][1]])
    BY <1>2, <1>3, <1>5, <2>2 DEF IInv, AnswerIsTheLine
  <2> QED
    BY <2>1, <2>2 DEF AnswerIsTheLine
<1> QED
  BY <1>1, <1>7, <1>8, <1>9, <1>10 DEF IInv

LEMMA IInvWake ==
  ASSUME IInv, [Next]_vars, NEW a \in Askers, WakeUp(a)
  PROVE  IInv'
<1>1. CASE ~fLock
  BY <1>1, IInvTake DEF WakeUp, Waiting
<1>2. CASE fLock
  <2>1. TypeOK /\ TypeOK' /\ AttachedIsCounted'
    BY TypeStep, AttachedStep DEF IInv
  <2>2. UNCHANGED <<fLock, fInput, results, asked, typed, length, takers>>
    BY <1>2 DEF WakeUp, input, lines
  <2>3. \A b \in Askers : Waiting(b)' <=> Waiting(b)
    BY <1>2, <2>1 DEF WakeUp, Goto, TypeOK, Waiting
  <2>4. \A b \in Askers : pc'[b] = "between" => pc[b] = "between"
    BY <1>2, <2>1 DEF WakeUp, Goto, TypeOK
  <2> QED
    BY <2>1, <2>2, <2>3, <2>4, OperatorInputAssumption
       DEF IInv, InputIsALine, OnlyTypedLines, OpenQuestionHasAsker, FreshForWaiting,
           AnswersAreFresh, AnswerIsTheLine, Line
<1> QED
  BY <1>1, <1>2

LEMMA IInvStep == IInv /\ [Next]_vars => IInv'
<1> SUFFICES ASSUME IInv, [Next]_vars PROVE IInv'
  OBVIOUS
<1>1. CASE AcceptCallback \/ Disconnected \/ ConnectionLost
  BY <1>1, IInvControllers DEF AcceptCallback, Disconnected, ConnectionLost
<1>2. ASSUME NEW n \in {1, 2}, RecvCallback(n) PROVE IInv'
  BY <1>2, IInvRecv
<1>3. ASSUME NEW a \in Askers, Begin(a) \/ Ask(a) \/ WakeUp(a) \/ Grab(a) \/ End(a)
      PROVE  IInv'
  <2>1. CASE Grab(a)
    BY <2>1, IInvTake DEF Grab, Waiting
  <2> QED
    BY <1>3, <2>1, IInvBegin, IInvAsk, IInvWake, IInvEnd
<1>4. CASE UNCHANGED vars
  BY <1>4, IInvControllers DEF vars
<1> QED
  BY <1>1, <1>2, <1>3, <1>4 DEF Next

LEMMA Inductive == Spec => []IInv
  BY IInvInit, IInvStep, PTL DEF Spec

\* A question that is open has a command waiting for it, whoever holds which boards
\* (the flag fLock, GetInput and GrabNextInput).
THEOREM SpecOpenQuestionHasAsker == Spec => []OpenQuestionHasAsker
<1>1. IInv => OpenQuestionHasAsker
  BY DEF IInv
<1> QED
  BY <1>1, Inductive, PTL

\* The answer to a question was typed after it, even where several commands ask at
\* once and fInput still holds an earlier line (GetInput and GrabNextInput).
THEOREM SpecAnswersAreFresh == Spec => []AnswersAreFresh
<1>1. IInv => AnswersAreFresh
  BY DEF IInv
<1> QED
  BY <1>1, Inductive, PTL

\* A command that copies all of fInput has one whole line and nothing of another
\* (the memset in RecvCallback and maxLength in the callers).
THEOREM SpecAnswerIsTheLine == Spec => []AnswerIsTheLine
<1>1. IInv => AnswerIsTheLine
  BY DEF IInv
<1> QED
  BY <1>1, Inductive, PTL

-----------------------------------------------------------------------------
(***************************************************************************)
(* One use for a line.                                                     *)
(***************************************************************************)
LEMMA OneRunsStep ==
  ASSUME OneAskerAtATime, TypeOK, OneRuns, [Next]_vars
  PROVE  OneRuns'
<1>1. ASSUME NEW n \in {1, 2}, RecvCallback(n) PROVE OneRuns'
  BY <1>1 DEF RecvCallback, KeepLine, Dispatch, Goto, TypeOK, OneRuns, Running
<1>2. ASSUME NEW a \in Askers, Begin(a) PROVE OneRuns'
  <2>1. \A b \in Askers : b # a => ~Running(b)
    BY <1>2 DEF Begin, OneAskerAtATime
  <2> QED
    BY <1>2, <2>1 DEF Begin, Goto, TypeOK, OneRuns, Running
<1>3. ASSUME NEW a \in Askers, Ask(a) \/ WakeUp(a) \/ Grab(a) \/ End(a) PROVE OneRuns'
  BY <1>3 DEF Ask, WakeUp, Grab, TakeLine, End, Goto, TypeOK, OneRuns, Running
<1>4. CASE UNCHANGED pc
  BY <1>4 DEF OneRuns, Running
<1> QED
  BY <1>1, <1>2, <1>3, <1>4
     DEF Next, AcceptCallback, Disconnected, ConnectionLost, commands, vars

LEMMA OneUseStep ==
  ASSUME OneAskerAtATime, IInv, OneUseInv, [Next]_vars
  PROVE  OneUseInv'
<1> USE OperatorInputAssumption
<1>1. TypeOK /\ OneRuns /\ OneRuns'
  BY OneRunsStep DEF IInv, OneUseInv
<1>2. CASE UNCHANGED <<pc, fLock, fInput, takers>>
  BY <1>1, <1>2 DEF OneUseInv, OneRuns, Running, KeptForWaiting, Waiting, OneTaker
<1>3. ASSUME NEW n \in {1, 2}, RecvCallback(n) PROVE OneUseInv'
  <2>1. typed + 1 \in LineIds /\ takers[typed + 1] = {}
    BY <1>1, <1>3 DEF RecvCallback, IInv, OnlyTypedLines, TypeOK, LineIds
  <2>2. CASE fLock
    <3>1. fInput'[1] = typed + 1 /\ UNCHANGED takers
      BY <1>3, <2>1, <2>2, LineIsText DEF RecvCallback, KeepLine
    <3> QED
      BY <1>1, <2>1, <3>1 DEF OneUseInv, KeptForWaiting, OneTaker
  <2>3. CASE ~fLock
    <3>1. UNCHANGED <<pc, fLock, fInput>>
          /\ takers' = [takers EXCEPT ![typed + 1] = @ \cup {"dispatch"}]
      BY <1>3, <2>3 DEF RecvCallback, Dispatch, input
    <3>2. OneTaker'
      BY <1>1, <2>1, <3>1 DEF OneUseInv, OneTaker, TypeOK
    <3>3. ASSUME NEW a \in Askers, Waiting(a) PROVE fInput[1] # typed + 1
      BY <1>1, <2>3, <3>3, Taken DEF TypeOK, LineIds
    <3>4. KeptForWaiting'
      BY <1>1, <3>1, <3>3 DEF OneUseInv, KeptForWaiting, Waiting, TypeOK
    <3> QED
      BY <1>1, <3>2, <3>4 DEF OneUseInv
  <2> QED
    BY <2>2, <2>3
<1>4. ASSUME NEW a \in Askers, Begin(a) PROVE OneUseInv'
  BY <1>1, <1>4
     DEF Begin, Goto, input, TypeOK, OneUseInv, KeptForWaiting, Waiting, OneTaker
<1>5. ASSUME NEW a \in Askers, Ask(a) PROVE OneUseInv'
  BY <1>1, <1>5 DEF Ask, OneUseInv, KeptForWaiting, OneTaker
<1>6. ASSUME NEW a \in Askers, End(a) PROVE OneUseInv'
  BY <1>1, <1>6
     DEF End, Goto, input, TypeOK, OneUseInv, KeptForWaiting, Waiting, OneTaker
<1>7. ASSUME NEW a \in Askers, WakeUp(a) \/ Grab(a), fLock PROVE OneUseInv'
  BY <1>1, <1>7
     DEF WakeUp, Grab, Goto, input, TypeOK, OneUseInv, KeptForWaiting, Waiting, OneTaker
<1>8. ASSUME NEW a \in Askers, WakeUp(a) \/ Grab(a), ~fLock PROVE OneUseInv'
  <2>1. TakeLine(a) /\ Waiting(a) /\ UNCHANGED <<fLock, fInput>>
    BY <1>8 DEF WakeUp, Grab, Waiting, input
  <2>2. takers[fInput[1]] = {}
    BY <1>8, <2>1 DEF OneUseInv, KeptForWaiting
  <2>3. takers' = [takers EXCEPT ![fInput[1]] = {a}]
    BY <2>1, <2>2 DEF TakeLine, KeptLine
  <2>4. OneTaker'
    BY <1>1, <2>3 DEF OneUseInv, OneTaker, TypeOK
  <2>5. \A b \in Askers : ~Waiting(b)'
    BY <1>1, <2>1 DEF TakeLine, Goto, TypeOK, OneRuns, Running, Waiting
  <2> QED
    BY <1>1, <2>4, <2>5 DEF OneUseInv, KeptForWaiting
<1> QED
  BY <1>2, <1>3, <1>4, <1>5, <1>6, <1>7, <1>8
     DEF Next, AcceptCallback, Disconnected, ConnectionLost, commands, input, vars

\* A line answers one question or is one command, and never both, provided the commands
\* that ask share a board (RecvCallback's return after it has kept a line).
THEOREM SpecLineHasOneUse ==
  ASSUME OneAskerAtATime
  PROVE  Spec => []LineHasOneUse
<1>1. Init => OneUseInv
  BY DEF Init, OneUseInv, OneRuns, Running, KeptForWaiting, Waiting, OneTaker
<1>2. IInv /\ OneUseInv /\ [Next]_vars => OneUseInv'
  BY OneUseStep
<1>3. OneUseInv => LineHasOneUse
  <2> SUFFICES ASSUME OneTaker, NEW l \in LineIds PROVE Cardinality(takers[l]) <= 1
    BY DEF OneUseInv, LineHasOneUse
  <2>1. CASE takers[l] = {}
    BY <2>1, FS_EmptySet
  <2>2. CASE takers[l] # {}
    <3>1. PICK x : takers[l] = {x}
      BY <2>2 DEF OneTaker
    <3>2. Cardinality({x}) = 1
      BY FS_Singleton
    <3> QED
      BY <3>1, <3>2
  <2> QED
    BY <2>1, <2>2
<1> QED
  BY <1>1, <1>2, <1>3, Inductive, PTL DEF Spec

-----------------------------------------------------------------------------
(***************************************************************************)
(* The arguments of a command line: their types.                           *)
(***************************************************************************)
Results == [Indices -> Word \cup {Default, Found}]

(* strtok returns a word or the end, wherever its place points. *)
LEMMA WordAtType ==
  ASSUME NEW l \in Seq(Word), NEW i \in Nat \ {0}
  PROVE  WordAt(l, i) \in Word \cup {EndOfLine}
  BY DEF WordAt

LEMMA NextWordsType ==
  ASSUME ArgsTypeOK
  PROVE  NextWords \subseteq Word \cup {EndOfLine}
<1>1. saved.of \in Threads /\ saved.at \in Nat \ {0}
  BY DEF ArgsTypeOK
<1>2. line[saved.of] \in Seq(Word)
  BY <1>1, ArgumentsAssumption DEF ArgsTypeOK
<1>3. WordAt(line[saved.of], saved.at) \in Word \cup {EndOfLine}
  BY <1>1, <1>2, WordAtType
<1> QED
  BY <1>3 DEF NextWords

(* strtok stops at the end of the line it is in. *)
LEMMA AdvanceType ==
  ASSUME ArgsTypeOK, Advance
  PROVE  saved' \in [of : Threads, call : 0 .. MaxCalls, at : 1 .. (MaxLength + 1)]
<1>1. /\ saved.of \in Threads /\ saved.call \in 0 .. MaxCalls
      /\ saved.at \in 1 .. (MaxLength + 1) /\ MaxLength \in Nat
  BY ArgumentsAssumption DEF ArgsTypeOK
<1>2. (IF saved.at > MaxLength THEN saved.at ELSE saved.at + 1) \in 1 .. (MaxLength + 1)
  BY <1>1
<1>3. saved \in [of : Threads, call : 0 .. MaxCalls, at : 1 .. (MaxLength + 1)]
  BY DEF ArgsTypeOK
<1> QED
  BY <1>2, <1>3 DEF Advance

LEMMA LookType ==
  ASSUME ArgsTypeOK, NEW t \in Threads, NEW w, NEW r \in Results, Look(t, w, r)
  PROVE  /\ result' \in [Threads -> Results]
         /\ stage' \in [Threads -> {"idle", "value", "next"}]
<1>1. Everywhere(Found) \in Results
  BY DEF Everywhere, Results
<1>2. result \in [Threads -> Results]
  BY DEF ArgsTypeOK, Results
<1>3. stage \in [Threads -> {"idle", "value", "next"}]
  BY DEF ArgsTypeOK
<1> QED
  BY <1>1, <1>2, <1>3 DEF Look

LEMMA CallTypeOK ==
  ASSUME ArgsTypeOK, NEW t \in Threads, NEW k \in Kinds, Call(t, k)
  PROVE  ArgsTypeOK'
<1>1. kind' \in [Threads -> Kinds] /\ disturbed' \in [Threads -> BOOLEAN] /\ UNCHANGED line
  BY DEF Call, ArgsTypeOK
<1>2. calls[t] + 1 \in 0 .. MaxCalls
  BY ArgumentsAssumption DEF Call, ArgsTypeOK
<1>3. calls' \in [Threads -> 0 .. MaxCalls]
  BY <1>2 DEF Call, ArgsTypeOK
<1>4. 2 \in 1 .. (MaxLength + 1)
  BY ArgumentsAssumption
<1>5. saved' \in [of : Threads, call : 0 .. MaxCalls, at : 1 .. (MaxLength + 1)]
  BY <1>2, <1>4 DEF Call
<1>6. word' \in [Threads -> Word \cup {EndOfLine}]
  <2>1. line[t] \in Seq(Word)
    BY ArgumentsAssumption DEF ArgsTypeOK
  <2>2. WordAt(line[t], 1) \in Word \cup {EndOfLine}
    BY <2>1, WordAtType
  <2> QED
    BY <2>2 DEF Call, ArgsTypeOK
<1>7. Everywhere(Default) \in Results
  BY DEF Everywhere, Results
<1>8. /\ result' \in [Threads -> Results]
      /\ stage' \in [Threads -> {"idle", "value", "next"}]
  BY <1>7, LookType DEF Call
<1> QED
  BY <1>1, <1>3, <1>5, <1>6, <1>8 DEF ArgsTypeOK, Results

LEMMA NextWordTypeOK ==
  ASSUME ArgsTypeOK, NEW t \in Threads, NextWord(t)
  PROVE  ArgsTypeOK'
<1>1. UNCHANGED <<line, kind, calls>>
  BY DEF NextWord
<1>2. saved' \in [of : Threads, call : 0 .. MaxCalls, at : 1 .. (MaxLength + 1)]
  BY AdvanceType DEF NextWord
<1>3. disturbed' \in [Threads -> BOOLEAN]
  BY DEF NextWord, Disturb, ArgsTypeOK
<1>4. word' \in [Threads -> Word \cup {EndOfLine}]
  BY NextWordsType DEF NextWord, ArgsTypeOK
<1>5. result[t] \in Results
  BY DEF ArgsTypeOK, Results
<1>6. /\ result' \in [Threads -> Results]
      /\ stage' \in [Threads -> {"idle", "value", "next"}]
  BY <1>5, LookType DEF NextWord
<1> QED
  BY <1>1, <1>2, <1>3, <1>4, <1>6 DEF ArgsTypeOK, Results

LEMMA TakeValueTypeOK ==
  ASSUME ArgsTypeOK, NEW t \in Threads, TakeValue(t)
  PROVE  ArgsTypeOK'
<1>1. UNCHANGED <<line, kind, calls, word>>
  BY DEF TakeValue
<1>2. saved' \in [of : Threads, call : 0 .. MaxCalls, at : 1 .. (MaxLength + 1)]
  BY AdvanceType DEF TakeValue
<1>3. disturbed' \in [Threads -> BOOLEAN]
  BY DEF TakeValue, Disturb, ArgsTypeOK
<1>4. PICK w \in NextWords :
        /\ result' = [result EXCEPT ![t] = [i \in Indices |->
             IF w # EndOfLine /\ (word[t] = TheFlag \/ i = word[t].is) THEN w ELSE result[t][i]]]
        /\ stage' = [stage EXCEPT ![t] = IF w # EndOfLine /\ kind[t] = "first" THEN "idle" ELSE "next"]
  BY DEF TakeValue
<1>5. result[t] \in Results /\ (w # EndOfLine => w \in Word)
  BY NextWordsType DEF ArgsTypeOK, Results
<1>6. [i \in Indices |->
         IF w # EndOfLine /\ (word[t] = TheFlag \/ i = word[t].is) THEN w ELSE result[t][i]] \in Results
  BY <1>5 DEF Results
<1>7. result' \in [Threads -> Results]
  BY <1>4, <1>6 DEF ArgsTypeOK, Results
<1>8. stage' \in [Threads -> {"idle", "value", "next"}]
  BY <1>4 DEF ArgsTypeOK
<1> QED
  BY <1>1, <1>2, <1>3, <1>7, <1>8 DEF ArgsTypeOK, Results

LEMMA ArgsInitTypeOK == ArgsInit => ArgsTypeOK
<1> SUFFICES ASSUME ArgsInit PROVE ArgsTypeOK
  OBVIOUS
<1>1. 1 \in 1 .. (MaxLength + 1) /\ 0 \in 0 .. MaxCalls
  BY ArgumentsAssumption
<1>2. saved \in [of : Threads, call : 0 .. MaxCalls, at : 1 .. (MaxLength + 1)]
  BY <1>1 DEF ArgsInit
<1>3. Everywhere(Default) \in Results
  BY DEF Everywhere, Results
<1> QED
  BY <1>1, <1>2, <1>3 DEF ArgsInit, ArgsTypeOK, Results, Kinds

(* Whichever calls overlap, strtok stays inside a line, and what is found  *)
(* are words, or what was there before.                                    *)
THEOREM ArgsSpecTypeOK == ArgsSpec => []ArgsTypeOK
<1>1. ASSUME ArgsTypeOK, [ArgsNext]_argsVars PROVE ArgsTypeOK'
  <2>1. CASE UNCHANGED argsVars
    BY <1>1, <2>1 DEF argsVars, ArgsTypeOK
  <2> QED
    BY <1>1, <2>1, CallTypeOK, NextWordTypeOK, TakeValueTypeOK DEF ArgsNext, Thread
<1> QED
  BY <1>1, ArgsInitTypeOK, PTL DEF ArgsSpec

-----------------------------------------------------------------------------
(***************************************************************************)
(* The arguments of a command line: what is read.  The words that are      *)
(* values are defined by recursion along the line; that there is such a    *)
(* set of places is shown on a shortest line that has none.                *)
(***************************************************************************)
LEMMA LeastNatural ==
  ASSUME NEW T \in SUBSET Nat, T # {}
  PROVE  \E x \in T : \A y \in T : x <= y
<1> DEFINE R == OpToRel(<, Nat)
<1>1. IsWellFoundedOn(R, Nat)
  BY NatLessThanWellFounded
<1>2. ASSUME NEW x \in Nat, NEW y \in Nat, x < y
      PROVE  <<x, y>> \in R
  BY <1>2, Zenon DEF OpToRel
<1> HIDE DEF R
<1>3. PICK x \in T : \A y \in T : ~ (<<y, x>> \in R)
  BY <1>1, WFMin
<1>4. ASSUME NEW y \in T
      PROVE  x <= y
  <2>1. ~(y < x)
    BY <1>2, <1>3, Zenon
  <2>2. x \in Nat /\ y \in Nat
    OBVIOUS
  <2> QED
    BY <2>1, <2>2
<1> QED
  BY <1>4

Asks(k, w) == w = TheFlag \/ (k = "many" /\ w.dash = "number")

AreValues(l, k, v, n) ==
  /\ v \in SUBSET (2 .. n)
  /\ \A i \in 2 .. n : i \in v <=> Asks(k, l[i - 1]) /\ i - 1 \notin v

LEMMA ValuesExist ==
  ASSUME NEW l, NEW k, NEW n \in Nat
  PROVE  \E v : AreValues(l, k, v, n)
<1> DEFINE Bad == {m \in Nat : ~ \E v : AreValues(l, k, v, m)}
<1> SUFFICES ASSUME Bad # {} PROVE FALSE
  OBVIOUS
<1>1. PICK m \in Bad : \A y \in Bad : m <= y
  BY LeastNatural
<1>2. m \in Nat /\ ~ \E v : AreValues(l, k, v, m)
  BY <1>1
<1>3. m # 0
  <2>1. AreValues(l, k, {}, 0)
    BY DEF AreValues
  <2> QED
    BY <1>2, <2>1
<1>4. m - 1 \in Nat /\ m - 1 \notin Bad
  BY <1>1, <1>2, <1>3
<1> HIDE DEF Bad
<1>5. PICK v : AreValues(l, k, v, m - 1)
  BY <1>4 DEF Bad
<1> DEFINE u == v \cup {i \in {m} : 2 <= m /\ Asks(k, l[m - 1]) /\ m - 1 \notin v}
<1>6. u \in SUBSET (2 .. m)
  <2>1. v \in SUBSET (2 .. (m - 1)) /\ 2 .. (m - 1) \subseteq 2 .. m
    BY <1>2, <1>5 DEF AreValues
  <2>2. 2 <= m => m \in 2 .. m
    BY <1>2
  <2> QED
    BY <2>1, <2>2
<1>7. ASSUME NEW i \in 2 .. m
      PROVE  i \in u <=> Asks(k, l[i - 1]) /\ i - 1 \notin u
  <2>1. v \in SUBSET (2 .. (m - 1))
    BY <1>5 DEF AreValues
  <2>2. CASE i = m
    <3>1. m \notin v /\ m - 1 # m /\ 2 <= m
      BY <1>2, <1>7, <2>1, <2>2
    <3>2. m - 1 \in u <=> m - 1 \in v
      BY <3>1
    <3>3. m \in u <=> Asks(k, l[m - 1]) /\ m - 1 \notin v
      BY <3>1
    <3> QED
      BY <2>2, <3>2, <3>3
  <2>3. CASE i # m
    <3>1. i \in 2 .. (m - 1) /\ i - 1 # m
      BY <1>2, <1>7, <2>3
    <3>2. i \in v <=> Asks(k, l[i - 1]) /\ i - 1 \notin v
      BY <1>5, <3>1 DEF AreValues
    <3>3. (i \in u <=> i \in v) /\ (i - 1 \in u <=> i - 1 \in v)
      BY <2>3, <3>1
    <3> QED
      BY <3>2, <3>3
  <2> QED
    BY <2>2, <2>3
<1> HIDE DEF u
<1>8. AreValues(l, k, u, m)
  BY <1>6, <1>7 DEF AreValues
<1> QED
  BY <1>2, <1>8

LEMMA ValuesInLine ==
  ASSUME NEW l \in Seq(Word), NEW k
  PROVE  AreValues(l, k, ValuesIn(l, k), Len(l))
<1> DEFINE P(v) == \A i \in 2 .. Len(l) : i \in v <=> Asks(k, l[i - 1]) /\ i - 1 \notin v
<1>1. ValuesIn(l, k) = CHOOSE v \in SUBSET (2 .. Len(l)) : P(v)
  BY DEF ValuesIn, Asks
<1>2. \E v \in SUBSET (2 .. Len(l)) : P(v)
  <2>1. Len(l) \in Nat
    OBVIOUS
  <2>2. PICK v : AreValues(l, k, v, Len(l))
    BY <2>1, ValuesExist
  <2> QED
    BY <2>2 DEF AreValues
<1> HIDE DEF P
<1>3. ValuesIn(l, k) \in SUBSET (2 .. Len(l)) /\ P(ValuesIn(l, k))
  BY <1>1, <1>2
<1> QED
  BY <1>3 DEF AreValues, P

(* The loops over the digits take the numbers whose last digit is no       *)
(* greater than that of the length of the array.                           *)
LEMMA TakesUnlessMissed ==
  ASSUME NEW n \in 0 .. (Num - 1)
  PROVE  TakesNumber(n) <=> ~Missed(n)
<1>1. Num \in 1 .. 99 /\ n \in Nat
  BY ArgumentsAssumption
<1>2. \A i \in 0 .. (Num \div 10) : (Num - 10 * i) % 10 = Num % 10
  BY <1>1
<1>3. TakesNumber(n) => ~Missed(n)
  <2> SUFFICES ASSUME NEW i \in 0 .. (Num \div 10), NEW j \in 0 .. 9, n = 10 * i + j,
                      j <= (Num - 10 * i) % 10
               PROVE  ~(n % 10 > Num % 10)
    BY DEF TakesNumber, Missed
  <2>1. n % 10 = j
    BY <1>1
  <2>2. j <= Num % 10
    BY <1>2
  <2>3. j \in Nat /\ Num % 10 \in Nat
    BY <1>1
  <2> QED
    BY <2>1, <2>2, <2>3
<1>4. ~Missed(n) => TakesNumber(n)
  <2> SUFFICES ASSUME ~Missed(n) PROVE TakesNumber(n)
    OBVIOUS
  <2>1. n \in 0 .. 98
    BY <1>1
  <2>2. PICK i \in 0 .. 9, j \in 0 .. 9 : n = 10 * i + j
    BY <2>1
  <2>3. n % 10 = j
    BY <2>2
  <2>4. 10 * i <= Num /\ Num \in Nat
    BY <1>1, <2>2
  <2>5. i <= Num \div 10
    BY <2>4
  <2>6. i \in 0 .. (Num \div 10)
    BY <1>1, <2>5
  <2>7. j <= (Num - 10 * i) % 10
    <3>1. ~(j > Num % 10) /\ j \in Nat /\ Num % 10 \in Nat
      BY <1>1, <2>3 DEF Missed
    <3> QED
      BY <1>2, <2>6, <3>1
  <2> QED
    BY <2>2, <2>6, <2>7 DEF TakesNumber
<1> QED
  BY <1>3, <1>4

LEMMA WordKinds ==
  ASSUME NEW w \in Word
  PROVE  /\ w # EndOfLine
         /\ w.dash = "number" => w.is \in 0 .. (Num - 1) /\ w = Numbered(w.is)
         /\ w = TheFlag => w.dash = "flag" /\ w.is = 0
<1>1. Numbers \subseteq 0 .. (Num - 1)
  BY ArgumentsAssumption
<1> QED
  BY <1>1 DEF Word, EndOfLine, Numbered, TheFlag, Other

LEMMA MatchesIfAsks ==
  ASSUME NEW k, NEW w \in Word
  PROVE  /\ (k = "many" /\ w.dash = "number" => ~Missed(w.is)) => (Matches(k, w) <=> Asks(k, w))
         /\ Matches(k, w) => \A n \in Indices : Covers(k, w, n) <=> w = TheFlag \/ n = w.is
<1>1. (k = "many" /\ w.dash = "number" => ~Missed(w.is)) => (Matches(k, w) <=> Asks(k, w))
  BY WordKinds, TakesUnlessMissed DEF Matches, Asks
<1>2. ASSUME Matches(k, w), NEW n \in Indices
      PROVE  Covers(k, w, n) <=> w = TheFlag \/ n = w.is
  BY <1>2, WordKinds DEF Matches, Covers, Numbered
<1> QED
  BY <1>1, <1>2

(* The values for element n before a place in the line.                    *)
Given(l, k, n, at) == {i \in ValuesIn(l, k) : i < at /\ Covers(k, l[i - 1], n)}

(* What a call has found when it comes to a place in its line.             *)
FoundSoFar(l, k, at, r) ==
  IF k = "flag"
  THEN r = Everywhere(Default) /\ \A i \in 1 .. Len(l) : i < at => l[i] # TheFlag
  ELSE \A n \in Indices :
         /\ Given(l, k, n, at) = {} => r[n] = Default
         /\ Given(l, k, n, at) # {} =>
              /\ k # "first"
              /\ \E m \in Given(l, k, n, at) :
                   (\A y \in Given(l, k, n, at) : y <= m) /\ r[n] = l[m]

(* A call that has not been disturbed, on a line without a number that is  *)
(* missed, has its place in the line.                                      *)
InPlace(t) ==
  stage[t] # "idle" /\ ~disturbed[t] /\ NoneMissed(line[t], kind[t]) =>
    /\ saved.of = t /\ saved.call = calls[t] /\ saved.at >= 2
    /\ stage[t] = "value" =>
         /\ saved.at - 1 <= Len(line[t]) /\ word[t] = line[t][saved.at - 1]
         /\ saved.at - 1 \notin ValuesIn(line[t], kind[t])
         /\ Matches(kind[t], word[t]) /\ kind[t] # "flag"
    /\ stage[t] = "next" => saved.at \notin ValuesIn(line[t], kind[t])
    /\ FoundSoFar(line[t], kind[t], saved.at, result[t])

HasRead(t) ==
  stage[t] = "idle" /\ calls[t] > 0 /\ ~disturbed[t] /\ NoneMissed(line[t], kind[t]) =>
    result[t] = Reference(line[t], kind[t])

ArgsInv == ArgsTypeOK /\ \A t \in Threads : InPlace(t) /\ HasRead(t)

(* The readings of one more word of a line.                                *)
LEMMA ValuesNext ==
  ASSUME NEW l \in Seq(Word), NEW k, NEW at \in Nat, NoneMissed(l, k)
  PROVE  /\ at \in ValuesIn(l, k) => 2 <= at /\ at <= Len(l) /\ at + 1 \notin ValuesIn(l, k)
         /\ at >= 1 /\ at <= Len(l) /\ ~Matches(k, l[at]) => at + 1 \notin ValuesIn(l, k)
         /\ at >= 1 /\ at < Len(l) /\ at \notin ValuesIn(l, k) /\ Matches(k, l[at]) =>
              at + 1 \in ValuesIn(l, k)
<1> DEFINE V == ValuesIn(l, k)
<1>1. /\ V \in SUBSET (2 .. Len(l)) /\ Len(l) \in Nat
      /\ \A i \in 2 .. Len(l) : i \in V <=> Asks(k, l[i - 1]) /\ i - 1 \notin V
  BY ValuesInLine DEF AreValues
<1>2. \A i \in 1 .. Len(l) : Matches(k, l[i]) <=> Asks(k, l[i])
  <2>1. \A i \in 1 .. Len(l) : l[i] \in Word
    OBVIOUS
  <2> QED
    BY <2>1, MatchesIfAsks DEF NoneMissed
<1> HIDE DEF V
<1>3. at + 1 \in V => at >= 1 /\ at < Len(l) /\ Asks(k, l[at]) /\ at \notin V
  BY <1>1
<1>4. at >= 1 /\ at < Len(l) /\ at \notin V /\ Asks(k, l[at]) => at + 1 \in V
  <2>1. at >= 1 /\ at < Len(l) => at + 1 \in 2 .. Len(l) /\ (at + 1) - 1 = at
    BY <1>1
  <2> QED
    BY <1>1, <2>1
<1>5. at >= 1 /\ at <= Len(l) => at \in 1 .. Len(l)
  BY <1>1
<1>6. at \in V => 2 <= at /\ at <= Len(l)
  BY <1>1
<1>7. at < Len(l) => at <= Len(l)
  BY <1>1
<1> QED
  BY <1>2, <1>3, <1>4, <1>5, <1>6, <1>7 DEF V

LEMMA GivenNext ==
  ASSUME NEW l \in Seq(Word), NEW k, NEW n, NEW at \in Nat
  PROVE  /\ \A y \in Given(l, k, n, at) : y \in Nat /\ y < at
         /\ at \notin ValuesIn(l, k) => Given(l, k, n, at + 1) = Given(l, k, n, at)
         /\ at \in ValuesIn(l, k) =>
              Given(l, k, n, at + 1) =
                Given(l, k, n, at) \cup (IF Covers(k, l[at - 1], n) THEN {at} ELSE {})
<1>1. ValuesIn(l, k) \in SUBSET Nat
  BY ValuesInLine DEF AreValues
<1>2. \A i \in Nat : i < at + 1 <=> i < at \/ i = at
  OBVIOUS
<1> QED
  BY <1>1, <1>2 DEF Given

LEMMA FoundNothingNew ==
  ASSUME NEW l \in Seq(Word), NEW k, NEW at \in Nat, NEW r, FoundSoFar(l, k, at, r),
         at \notin ValuesIn(l, k), k = "flag" /\ at \in 1 .. Len(l) => l[at] # TheFlag
  PROVE  FoundSoFar(l, k, at + 1, r)
<1>1. \A n : Given(l, k, n, at + 1) = Given(l, k, n, at)
  BY GivenNext
<1>2. \A i \in 1 .. Len(l) : i < at + 1 <=> i < at \/ i = at
  OBVIOUS
<1> QED
  BY <1>1, <1>2 DEF FoundSoFar

LEMMA FoundNothingBeyond ==
  ASSUME NEW l \in Seq(Word), NEW k, NEW at \in Nat, NEW to \in Nat, NEW r,
         at > Len(l), to > Len(l)
  PROVE  /\ FoundSoFar(l, k, at, r) => FoundSoFar(l, k, to, r)
         /\ to \notin ValuesIn(l, k)
<1>1. ValuesIn(l, k) \in SUBSET (2 .. Len(l)) /\ Len(l) \in Nat
  BY ValuesInLine DEF AreValues
<1>2. \A n : Given(l, k, n, to) = Given(l, k, n, at)
  BY <1>1 DEF Given
<1>3. \A i \in 1 .. Len(l) : i < at /\ i < to
  BY <1>1
<1> QED
  BY <1>1, <1>2, <1>3 DEF FoundSoFar

(* A value is taken for every element its flag covers.                     *)
LEMMA FoundValue ==
  ASSUME NEW l \in Seq(Word), NEW k, k # "flag", k # "first", NEW at \in ValuesIn(l, k),
         NEW r, FoundSoFar(l, k, at, r), Matches(k, l[at - 1]),
         NEW s, s = [i \in Indices |-> IF l[at - 1] = TheFlag \/ i = l[at - 1].is
                                       THEN l[at] ELSE r[i]]
  PROVE  FoundSoFar(l, k, at + 1, s)
<1>1. at \in 2 .. Len(l) /\ at \in Nat
  BY ValuesInLine DEF AreValues
<1>2. l[at - 1] \in Word
  BY <1>1
<1> SUFFICES ASSUME NEW n \in Indices
             PROVE  /\ Given(l, k, n, at + 1) = {} => s[n] = Default
                    /\ Given(l, k, n, at + 1) # {} =>
                         \E m \in Given(l, k, n, at + 1) :
                           (\A y \in Given(l, k, n, at + 1) : y <= m) /\ s[n] = l[m]
  BY DEF FoundSoFar
<1>3. /\ \A y \in Given(l, k, n, at) : y \in Nat /\ y < at
      /\ Given(l, k, n, at + 1) =
           Given(l, k, n, at) \cup (IF Covers(k, l[at - 1], n) THEN {at} ELSE {})
  BY <1>1, GivenNext
<1>4. CASE Covers(k, l[at - 1], n)
  <2>1. s[n] = l[at]
    BY <1>2, <1>4, MatchesIfAsks
  <2>2. at \in Given(l, k, n, at + 1) /\ \A y \in Given(l, k, n, at + 1) : y <= at
    BY <1>1, <1>3, <1>4
  <2> QED
    BY <2>1, <2>2
<1>5. CASE ~Covers(k, l[at - 1], n)
  <2>1. s[n] = r[n]
    BY <1>2, <1>5, MatchesIfAsks
  <2>2. Given(l, k, n, at + 1) = Given(l, k, n, at)
    BY <1>3, <1>5
  <2> QED
    BY <2>1, <2>2 DEF FoundSoFar
<1> QED
  BY <1>4, <1>5

(* A call for one number is done with the first value.                     *)
LEMMA FoundFirst ==
  ASSUME NEW l \in Seq(Word), NEW at \in ValuesIn(l, "first"), NEW r,
         FoundSoFar(l, "first", at, r), Matches("first", l[at - 1])
  PROVE  [i \in Indices |-> l[at]] = Reference(l, "first")
<1> DEFINE k == "first"
<1>1. at \in 2 .. Len(l) /\ ValuesIn(l, k) \subseteq Nat
  BY ValuesInLine DEF AreValues
<1>2. l[at - 1] = TheFlag
  BY DEF Matches
<1> SUFFICES ASSUME NEW n \in Indices PROVE ValueOf(l, k, n) = l[at]
  BY DEF Reference
<1> DEFINE given == {i \in ValuesIn(l, k) : Covers(k, l[i - 1], n)}
<1>3. Given(l, k, n, at) = {}
  BY DEF FoundSoFar
<1>4. at \in given /\ \A y \in given : at <= y
  <2>1. at \in given
    BY <1>2 DEF Covers
  <2>2. ASSUME NEW y \in given
        PROVE  at <= y
    <3>1. y \in Nat /\ ~(y < at)
      BY <1>1, <1>3 DEF Given
    <3> QED
      BY <1>1, <3>1
  <2> QED
    BY <2>1, <2>2
<1>5. given \subseteq Nat
  BY <1>1
<1>6. ValueOf(l, k, n) = IF given = {} THEN Default ELSE l[Min(given)]
  BY DEF ValueOf
<1> HIDE DEF given
<1>7. Min(given) = at
  <2>1. Min(given) \in given /\ \A y \in given : Min(given) <= y
    BY <1>4 DEF Min
  <2>2. Min(given) <= at /\ at <= Min(given) /\ Min(given) \in Nat /\ at \in Nat
    BY <1>4, <1>5, <2>1
  <2> QED
    BY <2>2
<1> QED
  BY <1>4, <1>6, <1>7

(* At the end of the line a call has found what the line says.             *)
LEMMA FoundAll ==
  ASSUME NEW l \in Seq(Word), NEW k, NEW at \in Nat, at > Len(l),
         NEW r \in Results, FoundSoFar(l, k, at, r)
  PROVE  r = Reference(l, k)
<1>1. ValuesIn(l, k) \in SUBSET (2 .. Len(l)) /\ Len(l) \in Nat
  BY ValuesInLine DEF AreValues
<1>2. CASE k = "flag"
  <2>1. TheFlag \notin Range(l)
    BY <1>1, <1>2 DEF FoundSoFar, Range
  <2> QED
    BY <1>2, <2>1 DEF FoundSoFar, Reference
<1>3. CASE k # "flag"
  <2>1. ASSUME NEW n \in Indices
        PROVE  r[n] = ValueOf(l, k, n)
    <3> DEFINE given == {i \in ValuesIn(l, k) : Covers(k, l[i - 1], n)}
    <3>1. Given(l, k, n, at) = given /\ given \subseteq Nat
      BY <1>1 DEF Given
    <3>2. ValueOf(l, k, n) =
            IF given = {} THEN Default ELSE l[IF k = "first" THEN Min(given) ELSE Max(given)]
      BY DEF ValueOf
    <3>3. /\ given = {} => r[n] = Default
          /\ given # {} => k # "first" /\ \E m \in given : (\A y \in given : y <= m) /\ r[n] = l[m]
      BY <1>3, <3>1 DEF FoundSoFar
    <3> HIDE DEF given
    <3>4. CASE given = {}
      BY <3>2, <3>3, <3>4
    <3>5. CASE given # {}
      <4>1. PICK m \in given : (\A y \in given : y <= m) /\ r[n] = l[m]
        BY <3>3, <3>5
      <4>2. m \in Nat /\ \A y \in given : m >= y
        BY <3>1, <4>1
      <4>3. Max(given) \in given /\ \A y \in given : Max(given) >= y
        BY <4>1, <4>2 DEF Max
      <4>4. Max(given) = m
        <5>1. Max(given) >= m /\ m >= Max(given) /\ Max(given) \in Nat
          BY <3>1, <4>1, <4>2, <4>3
        <5> QED
          BY <4>2, <5>1
      <4> QED
        BY <3>2, <3>3, <3>5, <4>1, <4>4
    <3> QED
      BY <3>4, <3>5
  <2>2. Reference(l, k) = [n \in Indices |-> ValueOf(l, k, n)]
    BY <1>3 DEF Reference
  <2>3. r = [n \in Indices |-> r[n]]
    BY DEF Results
  <2> QED
    BY <2>1, <2>2, <2>3
<1> QED
  BY <1>2, <1>3

(* What the words of a call that has not been disturbed can be.            *)
LEMMA UndisturbedNextWords ==
  ASSUME ArgsTypeOK, NEW t \in Threads, InPlace(t), stage[t] # "idle", ~disturbed[t],
         NoneMissed(line[t], kind[t])
  PROVE  NextWords = {WordAt(line[t], saved.at)}
  BY DEF InPlace, NextWords

LEMMA ArgsTypes ==
  ASSUME ArgsTypeOK, NEW t \in Threads
  PROVE  /\ saved \in [of : Threads, call : 0 .. MaxCalls, at : 1 .. (MaxLength + 1)]
         /\ saved.at \in Nat /\ saved.at >= 1
         /\ line[t] \in Seq(Word) /\ Len(line[t]) \in Nat /\ Len(line[t]) <= MaxLength
         /\ kind[t] \in Kinds /\ kind \in [Threads -> Kinds]
         /\ stage \in [Threads -> {"idle", "value", "next"}]
         /\ stage[t] \in {"idle", "value", "next"}
         /\ word \in [Threads -> Word \cup {EndOfLine}]
         /\ result \in [Threads -> Results] /\ result[t] \in Results
         /\ calls \in [Threads -> 0 .. MaxCalls] /\ calls[t] \in Nat
         /\ disturbed \in [Threads -> BOOLEAN] /\ MaxLength \in Nat /\ MaxLength >= 1
<1>1. saved \in [of : Threads, call : 0 .. MaxCalls, at : 1 .. (MaxLength + 1)]
      /\ MaxLength \in Nat /\ MaxLength >= 1
  BY ArgumentsAssumption DEF ArgsTypeOK
<1>2. saved.at \in 1 .. (MaxLength + 1)
  BY <1>1
<1>3. saved.at \in Nat /\ saved.at >= 1
  BY <1>1, <1>2
<1>4. line[t] \in LinesOf[t]
  BY DEF ArgsTypeOK
<1>5. line[t] \in Seq(Word) /\ Len(line[t]) \in Nat /\ Len(line[t]) <= MaxLength
  BY <1>4, ArgumentsAssumption
<1>6. calls \in [Threads -> 0 .. MaxCalls] /\ calls[t] \in Nat
  BY DEF ArgsTypeOK
<1> QED
  BY <1>1, <1>3, <1>5, <1>6 DEF ArgsTypeOK, Results

(* What a step of one thread does to the calls of the others: it disturbs  *)
(* those under way.                                                        *)
LEMMA OtherCalls ==
  ASSUME ArgsTypeOK, NEW u \in Threads, InPlace(u), HasRead(u),
         disturbed'[u] = (disturbed[u] \/ stage[u] # "idle"),
         stage'[u] = stage[u], result'[u] = result[u], calls'[u] = calls[u],
         kind'[u] = kind[u], line' = line
  PROVE  InPlace(u)' /\ HasRead(u)'
<1>1. stage'[u] # "idle" => disturbed'[u]
  OBVIOUS
<1>2. InPlace(u)'
  BY <1>1 DEF InPlace
<1>3. /\ Reference(line[u], kind[u])' = Reference(line[u], kind[u])
      /\ NoneMissed(line[u], kind[u])' <=> NoneMissed(line[u], kind[u])
  BY DEF Reference, ValueOf, ValuesIn, Covers, Everywhere, NoneMissed, Missed
<1>4. HasRead(u)'
  BY <1>3 DEF HasRead
<1> QED
  BY <1>2, <1>4

(* strtok goes on by one word, as long as there is one.                    *)
LEMMA PlaceAdvances ==
  ASSUME ArgsTypeOK, NEW t \in Threads, Advance
  PROVE  /\ saved'.of = saved.of /\ saved'.call = saved.call
         /\ saved'.at \in Nat /\ saved'.at >= saved.at
         /\ saved.at <= Len(line[t]) => saved'.at = saved.at + 1
<1>1. saved' = [saved EXCEPT !.at = IF saved.at > MaxLength THEN saved.at ELSE saved.at + 1]
  BY DEF Advance
<1>2. saved' = [of |-> saved.of, call |-> saved.call,
                at |-> IF saved.at > MaxLength THEN saved.at ELSE saved.at + 1]
  BY <1>1, ArgsTypes
<1> QED
  BY <1>2, ArgsTypes

(* The head of the loop, at a word that is not a value: what it finds, and *)
(* where the call goes on.                                                 *)
LEMMA LookInPlace ==
  ASSUME ArgsTypeOK, NEW t \in Threads, NEW pos \in Nat, pos >= 1, pos <= MaxLength + 1,
         NEW k \in Kinds, kind'[t] = k, line' = line, NEW r \in Results, NoneMissed(line[t], k),
         Look(t, word'[t], r), word'[t] = WordAt(line[t], pos),
         pos \notin ValuesIn(line[t], k), FoundSoFar(line[t], k, pos, r),
         saved'.of = t, saved'.call = calls'[t], saved'.at \in Nat, saved'.at >= pos,
         saved'.at >= 2, pos <= Len(line[t]) => saved'.at = pos + 1
  PROVE  InPlace(t)' /\ HasRead(t)'
<1> DEFINE l == line[t]
           w == word'[t]
           there == k = "flag" /\ w = TheFlag
<1>1. l \in Seq(Word) /\ Len(l) \in Nat
  BY ArgsTypes
<1>2. /\ result'[t] = IF there THEN Everywhere(Found) ELSE r
      /\ stage'[t] = IF w = EndOfLine \/ there THEN "idle"
                     ELSE IF Matches(k, w) THEN "value" ELSE "next"
  BY ArgsTypes DEF Look
<1>3. /\ Reference(line[t], kind[t])' = Reference(l, k)
      /\ ValuesIn(line[t], kind[t])' = ValuesIn(l, k)
      /\ FoundSoFar(line[t], kind[t], saved.at, result[t])' = FoundSoFar(l, k, saved'.at, result'[t])
      /\ Matches(kind[t], word[t])' = Matches(k, w)
  BY DEF Reference, ValueOf, ValuesIn, Covers, Everywhere, FoundSoFar, Given, Matches,
         TakesNumber
<1>4. CASE pos > Len(l)
  <2>1. w = EndOfLine
    BY <1>1, <1>4 DEF WordAt
  <2>2. stage'[t] = "idle" /\ result'[t] = r
    BY <1>2, <2>1 DEF EndOfLine, TheFlag
  <2>3. r = Reference(l, k)
    BY <1>1, <1>4, FoundAll
  <2> QED
    BY <1>3, <2>2, <2>3 DEF InPlace, HasRead
<1>5. CASE pos <= Len(l)
  <2>1. w = l[pos] /\ w \in Word /\ w # EndOfLine /\ saved'.at = pos + 1 /\ pos \in 1 .. Len(l)
    BY <1>1, <1>5, WordKinds DEF WordAt
  <2>2. CASE there
    <3>1. stage'[t] = "idle" /\ result'[t] = Everywhere(Found)
      BY <1>2, <2>2
    <3>2. TheFlag \in Range(l)
      <4>1. pos \in DOMAIN l /\ l[pos] = TheFlag
        BY <1>1, <2>1, <2>2
      <4> QED
        BY <4>1 DEF Range
    <3>3. Reference(l, k) = Everywhere(Found)
      BY <2>2, <3>2 DEF Reference
    <3> QED
      BY <1>3, <3>1, <3>3 DEF InPlace, HasRead
  <2>3. CASE ~there
    <3>1. FoundSoFar(l, k, pos + 1, r)
      BY <1>1, <2>1, <2>3, FoundNothingNew
    <3>2. result'[t] = r /\ stage'[t] = IF Matches(k, w) THEN "value" ELSE "next"
      BY <1>2, <2>1, <2>3
    <3>3. CASE Matches(k, w)
      <4>1. k # "flag"
        BY <2>3, <3>3 DEF Matches
      <4>2. (pos + 1) - 1 = pos
        OBVIOUS
      <4> QED
        BY <1>3, <1>5, <2>1, <3>1, <3>2, <3>3, <4>1, <4>2 DEF InPlace, HasRead
    <3>4. CASE ~Matches(k, w)
      <4>1. pos + 1 \notin ValuesIn(l, k)
        BY <1>1, <2>1, <3>4, ValuesNext
      <4> QED
        BY <1>3, <2>1, <3>1, <3>2, <3>4, <4>1 DEF InPlace, HasRead
    <3> QED
      BY <3>3, <3>4
  <2> QED
    BY <2>2, <2>3
<1> QED
  BY <1>1, <1>4, <1>5

LEMMA CallReads ==
  ASSUME ArgsInv, NEW t \in Threads, NEW k \in Kinds, Call(t, k)
  PROVE  ArgsInv'
<1>1. ArgsTypeOK /\ ArgsTypeOK'
  BY CallTypeOK DEF ArgsInv
<1>2. ASSUME NEW u \in Threads, u # t
      PROVE  InPlace(u)' /\ HasRead(u)'
  <2>1. /\ disturbed'[u] = (disturbed[u] \/ stage[u] # "idle") /\ calls'[u] = calls[u]
        /\ kind'[u] = kind[u] /\ line' = line /\ stage'[u] = stage[u] /\ result'[u] = result[u]
    BY <1>1, <1>2, ArgsTypes DEF Call, Look
  <2> QED
    BY <1>1, <2>1, OtherCalls DEF ArgsInv
<1>3. /\ kind'[t] = k /\ line' = line /\ calls'[t] = calls[t] + 1
      /\ saved' = [of |-> t, call |-> calls[t] + 1, at |-> 2]
      /\ word'[t] = WordAt(line[t], 1) /\ Look(t, word'[t], Everywhere(Default))
  BY <1>1, ArgsTypes DEF Call
<1>4. /\ Everywhere(Default) \in Results /\ line[t] \in Seq(Word)
      /\ 1 \notin ValuesIn(line[t], k) /\ ValuesIn(line[t], k) \subseteq Nat
      /\ \A i \in ValuesIn(line[t], k) : ~(i < 1)
  <2>1. line[t] \in Seq(Word) /\ Len(line[t]) \in Nat
    BY <1>1, ArgsTypes
  <2>2. ValuesIn(line[t], k) \in SUBSET (2 .. Len(line[t]))
    BY <2>1, ValuesInLine DEF AreValues
  <2> QED
    BY <2>1, <2>2 DEF Everywhere, Results
<1>5. FoundSoFar(line[t], k, 1, Everywhere(Default))
  <2>1. \A n \in Indices : Given(line[t], k, n, 1) = {} /\ Everywhere(Default)[n] = Default
    BY <1>4 DEF Given, Everywhere
  <2>2. \A i \in 1 .. Len(line[t]) : ~(i < 1)
    BY <1>4
  <2> QED
    BY <2>1, <2>2 DEF FoundSoFar
<1>6. /\ saved'.of = t /\ saved'.call = calls'[t] /\ saved'.at \in Nat /\ saved'.at >= 1
      /\ saved'.at >= 2 /\ (1 <= Len(line[t]) => saved'.at = 1 + 1)
  BY <1>3
<1>7. 1 \in Nat /\ 1 >= 1 /\ 1 <= MaxLength + 1
  BY <1>1, ArgsTypes
<1>8. CASE NoneMissed(line[t], k)
  <2>1. InPlace(t)' /\ HasRead(t)'
    BY <1>1, <1>3, <1>4, <1>5, <1>6, <1>7, <1>8, LookInPlace
  <2> QED
    BY <1>1, <1>2, <2>1 DEF ArgsInv
<1>9. CASE ~NoneMissed(line[t], k)
  <2>1. ~NoneMissed(line[t], kind[t])'
    BY <1>3, <1>9 DEF NoneMissed, Missed
  <2>2. InPlace(t)' /\ HasRead(t)'
    BY <2>1 DEF InPlace, HasRead
  <2> QED
    BY <1>1, <1>2, <2>2 DEF ArgsInv
<1> QED
  BY <1>8, <1>9

LEMMA NextWordReads ==
  ASSUME ArgsInv, NEW t \in Threads, NextWord(t)
  PROVE  ArgsInv'
<1>1. ArgsTypeOK /\ ArgsTypeOK' /\ InPlace(t) /\ HasRead(t)
  BY NextWordTypeOK DEF ArgsInv
<1>2. /\ stage[t] = "next" /\ UNCHANGED <<line, kind, calls>> /\ Advance /\ Disturb(t)
      /\ Look(t, word'[t], result[t])
  BY DEF NextWord
<1>3. ASSUME NEW u \in Threads, u # t
      PROVE  InPlace(u)' /\ HasRead(u)'
  <2>1. /\ disturbed'[u] = (disturbed[u] \/ stage[u] # "idle") /\ calls'[u] = calls[u]
        /\ kind'[u] = kind[u] /\ line' = line /\ stage'[u] = stage[u] /\ result'[u] = result[u]
    BY <1>1, <1>2, <1>3, ArgsTypes DEF Disturb, Look
  <2> QED
    BY <1>1, <2>1, OtherCalls DEF ArgsInv
<1>4. disturbed'[t] = disturbed[t]
  BY <1>2 DEF Disturb
<1>5. CASE disturbed[t] \/ ~NoneMissed(line[t], kind[t])
  <2>1. disturbed'[t] \/ ~NoneMissed(line[t], kind[t])'
    BY <1>1, <1>2, <1>4, <1>5 DEF NoneMissed, Missed
  <2> QED
    BY <1>3, <1>1, <2>1 DEF ArgsInv, InPlace, HasRead
<1>6. CASE ~disturbed[t] /\ NoneMissed(line[t], kind[t])
  <2>1. /\ saved.of = t /\ saved.call = calls[t] /\ saved.at >= 2
        /\ saved.at \notin ValuesIn(line[t], kind[t])
        /\ FoundSoFar(line[t], kind[t], saved.at, result[t])
    BY <1>1, <1>2, <1>6 DEF InPlace
  <2>2. word'[t] = WordAt(line[t], saved.at)
    <3>1. NextWords = {WordAt(line[t], saved.at)}
      BY <1>1, <1>2, <1>6, UndisturbedNextWords
    <3> QED
      BY <1>1, <3>1, ArgsTypes DEF NextWord
  <2>3. /\ saved.at \in Nat /\ saved.at >= 1 /\ saved.at <= MaxLength + 1
        /\ kind[t] \in Kinds /\ result[t] \in Results /\ kind'[t] = kind[t] /\ calls'[t] = calls[t]
    BY <1>1, <1>2, ArgsTypes
  <2>4. /\ saved'.of = t /\ saved'.call = calls'[t] /\ saved'.at \in Nat
        /\ saved'.at >= saved.at /\ saved'.at >= 2
        /\ (saved.at <= Len(line[t]) => saved'.at = saved.at + 1)
    BY <1>1, <1>2, <2>1, <2>3, PlaceAdvances
  <2>5. InPlace(t)' /\ HasRead(t)'
    BY <1>1, <1>2, <1>6, <2>1, <2>2, <2>3, <2>4, LookInPlace
  <2> QED
    BY <1>1, <1>3, <2>5 DEF ArgsInv
<1> QED
  BY <1>5, <1>6

LEMMA TakeValueReads ==
  ASSUME ArgsInv, NEW t \in Threads, TakeValue(t)
  PROVE  ArgsInv'
<1>1. ArgsTypeOK /\ ArgsTypeOK' /\ InPlace(t) /\ HasRead(t)
  BY TakeValueTypeOK DEF ArgsInv
<1>2. stage[t] = "value" /\ UNCHANGED <<line, kind, calls, word>> /\ Advance /\ Disturb(t)
  BY DEF TakeValue
<1>3. PICK w \in NextWords :
        /\ result' = [result EXCEPT ![t] = [i \in Indices |->
             IF w # EndOfLine /\ (word[t] = TheFlag \/ i = word[t].is) THEN w ELSE result[t][i]]]
        /\ stage' = [stage EXCEPT ![t] = IF w # EndOfLine /\ kind[t] = "first" THEN "idle" ELSE "next"]
  BY DEF TakeValue
<1>4. ASSUME NEW u \in Threads, u # t
      PROVE  InPlace(u)' /\ HasRead(u)'
  <2>1. /\ disturbed'[u] = (disturbed[u] \/ stage[u] # "idle") /\ calls'[u] = calls[u]
        /\ kind'[u] = kind[u] /\ line' = line /\ stage'[u] = stage[u] /\ result'[u] = result[u]
    BY <1>1, <1>2, <1>3, <1>4, ArgsTypes DEF Disturb
  <2> QED
    BY <1>1, <2>1, OtherCalls DEF ArgsInv
<1>5. disturbed'[t] = disturbed[t]
  BY <1>2 DEF Disturb
<1>6. CASE disturbed[t] \/ ~NoneMissed(line[t], kind[t])
  <2>1. disturbed'[t] \/ ~NoneMissed(line[t], kind[t])'
    BY <1>1, <1>2, <1>5, <1>6 DEF NoneMissed, Missed
  <2> QED
    BY <1>1, <1>4, <2>1 DEF ArgsInv, InPlace, HasRead
<1>7. CASE ~disturbed[t] /\ NoneMissed(line[t], kind[t])
  <2> SUFFICES InPlace(t)' /\ HasRead(t)'
    BY <1>1, <1>4 DEF ArgsInv
  <2> DEFINE l == line[t]
             k == kind[t]
             at == saved.at
             r == [i \in Indices |->
                     IF w # EndOfLine /\ (word[t] = TheFlag \/ i = word[t].is) THEN w ELSE result[t][i]]
  <2>1. /\ saved.of = t /\ saved.call = calls[t] /\ at >= 2
        /\ at - 1 <= Len(l) /\ word[t] = l[at - 1] /\ at - 1 \notin ValuesIn(l, k)
        /\ Matches(k, word[t]) /\ k # "flag" /\ FoundSoFar(l, k, at, result[t])
    BY <1>1, <1>2, <1>7 DEF InPlace
  <2>2. w = WordAt(l, at)
    BY <1>1, <1>2, <1>3, <1>7, UndisturbedNextWords
  <2>3. /\ at \in Nat /\ at - 1 \in Nat /\ at - 1 >= 1 /\ l \in Seq(Word) /\ Len(l) \in Nat
        /\ k \in Kinds /\ result[t] \in Results /\ kind'[t] = k /\ calls'[t] = calls[t]
    BY <1>1, <1>2, <2>1, ArgsTypes
  <2>4. /\ saved'.of = t /\ saved'.call = calls'[t] /\ saved'.at \in Nat
        /\ saved'.at >= at /\ saved'.at >= 2 /\ (at <= Len(l) => saved'.at = at + 1)
    BY <1>1, <1>2, <2>1, <2>3, PlaceAdvances
  <2>5. /\ result'[t] = r
        /\ stage'[t] = IF w # EndOfLine /\ k = "first" THEN "idle" ELSE "next"
    BY <1>1, <1>3, ArgsTypes
  <2>6. /\ Reference(line[t], kind[t])' = Reference(l, k)
        /\ ValuesIn(line[t], kind[t])' = ValuesIn(l, k)
        /\ FoundSoFar(line[t], kind[t], saved.at, result[t])' = FoundSoFar(l, k, saved'.at, result'[t])
    BY <1>2 DEF Reference, ValueOf, ValuesIn, Covers, Everywhere, FoundSoFar, Given
  <2>7. CASE at > Len(l)
    <3>1. w = EndOfLine
      BY <2>2, <2>3, <2>7 DEF WordAt
    <3>2. r = result[t] /\ stage'[t] = "next"
      BY <2>3, <2>5, <3>1 DEF Results
    <3>3. saved'.at > Len(l)
      BY <2>3, <2>4, <2>7
    <3>4. FoundSoFar(l, k, saved'.at, r) /\ saved'.at \notin ValuesIn(l, k)
      BY <2>1, <2>3, <2>4, <2>7, <3>2, <3>3, FoundNothingBeyond
    <3> QED
      BY <2>4, <2>5, <2>6, <3>2, <3>4 DEF InPlace, HasRead
  <2>8. CASE at <= Len(l)
    <3>1. w = l[at] /\ w # EndOfLine /\ saved'.at = at + 1
      BY <2>2, <2>3, <2>4, <2>8, WordKinds DEF WordAt
    <3>2. at \in ValuesIn(l, k)
      <4>1. (at - 1) + 1 = at /\ at - 1 < Len(l)
        BY <2>3, <2>8
      <4>2. at - 1 >= 1 /\ at - 1 < Len(l) /\ at - 1 \notin ValuesIn(l, k)
              /\ Matches(k, l[at - 1]) => (at - 1) + 1 \in ValuesIn(l, k)
        BY <1>7, <2>3, ValuesNext
      <4> QED
        BY <2>1, <2>3, <4>1, <4>2
    <3>3. at + 1 \notin ValuesIn(l, k)
      BY <1>7, <2>3, <3>2, ValuesNext
    <3>4. r = [i \in Indices |-> IF l[at - 1] = TheFlag \/ i = l[at - 1].is
                                 THEN l[at] ELSE result[t][i]]
      BY <2>1, <3>1
    <3> HIDE DEF r
    <3>5. CASE k = "first"
      <4>1. l[at - 1] = TheFlag
        BY <2>1, <3>5 DEF Matches
      <4>2. r = [i \in Indices |-> l[at]]
        BY <3>4, <4>1
      <4>3. r = Reference(l, k)
        BY <2>1, <2>3, <3>2, <3>5, <4>2, FoundFirst
      <4>4. stage'[t] = "idle"
        BY <2>5, <3>1, <3>5
      <4> QED
        BY <2>5, <2>6, <4>3, <4>4 DEF InPlace, HasRead
    <3>6. CASE k # "first"
      <4>1. FoundSoFar(l, k, at + 1, r)
        BY <2>1, <2>3, <3>2, <3>4, <3>6, FoundValue
      <4>2. stage'[t] = "next"
        BY <2>5, <3>6
      <4> QED
        BY <2>4, <2>5, <2>6, <3>1, <3>3, <4>1, <4>2 DEF InPlace, HasRead
    <3> QED
      BY <3>5, <3>6
  <2> QED
    BY <2>3, <2>7, <2>8
<1> QED
  BY <1>6, <1>7

(* On every line without a numbered flag whose last digit is greater than  *)
(* that of the array's length (the code ignores those, against the usage   *)
(* texts), an argument is read as the usage texts say, by every call       *)
(* during which no other thread has called strtok, however many threads    *)
(* and whatever they did to its place before: the first word of each call  *)
(* sets it.                                                                *)
THEOREM SpecReadAsWritten == ArgsSpec => []ReadAsWritten
<1>1. ArgsInit => ArgsInv
  <2> SUFFICES ASSUME ArgsInit PROVE ArgsInv
    OBVIOUS
  <2>1. ArgsTypeOK
    BY ArgsInitTypeOK
  <2>2. \A t \in Threads : stage[t] = "idle" /\ calls[t] = 0
    BY DEF ArgsInit
  <2> QED
    BY <2>1, <2>2 DEF ArgsInv, InPlace, HasRead
<1>2. ASSUME ArgsInv, [ArgsNext]_argsVars
      PROVE  ArgsInv'
  <2>1. CASE UNCHANGED argsVars
    <3>1. ArgsTypeOK'
      BY <1>2, <2>1 DEF ArgsInv, argsVars, ArgsTypeOK
    <3>2. ASSUME NEW t \in Threads
          PROVE  InPlace(t)' /\ HasRead(t)'
      <4>1. InPlace(t) /\ HasRead(t)
        BY <1>2 DEF ArgsInv
      <4>2. UNCHANGED <<saved, line, kind, stage, word, result, calls, disturbed>>
        BY <2>1 DEF argsVars
      <4>3. /\ Reference(line[t], kind[t])' = Reference(line[t], kind[t])
            /\ ValuesIn(line[t], kind[t])' = ValuesIn(line[t], kind[t])
            /\ FoundSoFar(line[t], kind[t], saved.at, result[t])' =
                 FoundSoFar(line[t], kind[t], saved.at, result[t])
            /\ Matches(kind[t], word[t])' = Matches(kind[t], word[t])
            /\ NoneMissed(line[t], kind[t])' <=> NoneMissed(line[t], kind[t])
        BY <4>2 DEF NoneMissed, Missed, Reference, ValueOf, ValuesIn, Covers, Everywhere, FoundSoFar, Given,
                    Matches, TakesNumber
      <4> QED
        BY <4>1, <4>2, <4>3 DEF InPlace, HasRead
    <3> QED
      BY <3>1, <3>2 DEF ArgsInv
  <2> QED
    BY <1>2, <2>1, CallReads, NextWordReads, TakeValueReads DEF ArgsNext, Thread
<1>3. ArgsInv => ReadAsWritten
  BY DEF ArgsInv, HasRead, ReadAsWritten
<1> QED
  BY <1>1, <1>2, <1>3, PTL DEF ArgsSpec
=============================================================================
