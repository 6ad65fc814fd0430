---------------------------- MODULE Arguments ----------------------------
(***************************************************************************)
(* The arguments of a command line (core/Globals.cpp).  Every command      *)
(* calls GetFlag, GetInt, GetUInt, GetMultiUInt, ... on its own line, one  *)
(* call for each argument; each call copies the line and takes its words   *)
(* with strtok, which keeps its place in one variable of the process.      *)
(* Every command line has a thread of its own, so that calls overlap.      *)
(***************************************************************************)
EXTENDS Naturals, Sequences, FiniteSetsExt, Functions

CONSTANTS
  Threads,
  Words,      \* words other than flags
  Num,        \* the length of the array of a call for many values
  Numbers,    \* the numbers that occur in a numbered flag
  LinesOf,    \* LinesOf[t]: the command lines that thread t may be given
  MaxLength,  \* bound: words in a line
  MaxCalls    \* bound: calls for an argument

(* The flag asked for, another flag, and flags with a two-digit number.    *)
TheFlag == [dash |-> "flag", is |-> 0]
Other == [dash |-> "other", is |-> 0]
Numbered(n) == [dash |-> "number", is |-> n]
Word == [dash : {"none"}, is : Words] \cup {TheFlag, Other} \cup {Numbered(n) : n \in Numbers}
EndOfLine == [dash |-> "end", is |-> 0]  \* what strtok returns after the last word

ASSUME ArgumentsAssumption ==
  /\ Num \in 1 .. 99 /\ Numbers \subseteq 0 .. (Num - 1)
  /\ \A t \in Threads : \A line \in LinesOf[t] :
       line \in Seq(Word) /\ Len(line) <= MaxLength
  /\ MaxLength \in Nat \ {0} /\ MaxCalls \in Nat

(***************************************************************************)
(* What a call returns:                                                    *)
(*   flag   whether the flag is there (GetFlag)                            *)
(*   first  the value after the first flag that has one (GetInt, GetUInt,  *)
(*          GetULongLong, GetFloat)                                        *)
(*   last   the value after the last one (GetString)                       *)
(*   many   an array: the flag sets every element, a numbered flag one     *)
(*          (GetMultiUInt, GetMultiFloat)                                  *)
(***************************************************************************)
Kinds == {"flag", "first", "last", "many"}
Indices == 0 .. (Num - 1)

VARIABLES
  saved,     \* the place of strtok: thread, its call, and the word to come
  line,      \* per thread: its command line
  kind,      \* per thread: the call it is in
  stage,     \* per thread: idle, or the strtok call it comes to
  word,      \* per thread: the word it has got
  result,    \* per thread: what the call has found
  calls,     \* per thread: the number of its calls
  disturbed  \* per thread: another thread has called strtok during its call

argsVars == <<saved, line, kind, stage, word, result, calls, disturbed>>

Default == [dash |-> "default", is |-> 0]
Found == [dash |-> "found", is |-> 0]
Everywhere(w) == [i \in Indices |-> w]  \* the result of a call for one value

ArgsTypeOK ==
  /\ saved \in [of : Threads, call : 0 .. MaxCalls, at : 1 .. (MaxLength + 1)]
  /\ \A t \in Threads : line[t] \in LinesOf[t]
  /\ kind \in [Threads -> Kinds]
  /\ stage \in [Threads -> {"idle", "value", "next"}]
  /\ word \in [Threads -> Word \cup {EndOfLine}]
  /\ result \in [Threads -> [Indices -> Word \cup {Default, Found}]]
  /\ calls \in [Threads -> 0 .. MaxCalls]
  /\ disturbed \in [Threads -> BOOLEAN]

ArgsInit ==
  /\ saved \in {[of |-> t, call |-> 0, at |-> 1] : t \in Threads}
  /\ line \in [Threads -> UNION {LinesOf[t] : t \in Threads}]
  /\ \A t \in Threads : line[t] \in LinesOf[t]
  /\ kind = [t \in Threads |-> "flag"]
  /\ stage = [t \in Threads |-> "idle"]
  /\ word = [t \in Threads |-> EndOfLine]
  /\ result = [t \in Threads |-> Everywhere(Default)]
  /\ calls = [t \in Threads |-> 0]
  /\ disturbed = [t \in Threads |-> FALSE]

----------------------------------------------------------------------------
WordAt(l, i) == IF i <= Len(l) THEN l[i] ELSE EndOfLine

(* What strtok(NULL) may find.  A copy of a line is gone when the call     *)
(* that made it has returned; the memory may then hold anything.           *)
NextWords ==
  IF saved.call = calls[saved.of] /\ stage[saved.of] # "idle"
    THEN {WordAt(line[saved.of], saved.at)}
    ELSE IF saved.at > MaxLength THEN {EndOfLine} ELSE Word \cup {EndOfLine}

Advance == saved' = [saved EXCEPT !.at = IF @ > MaxLength THEN @ ELSE @ + 1]

(* Slip: the inner loop stops one short. *)
TakesNumberLess(n) ==
  \E i \in 0 .. (Num \div 10), j \in 0 .. 9 :
    n = 10 * i + j /\ j < (Num - 10 * i) % 10

(* The numbered flags GetMultiUInt takes: its loops over both digits. *)
TakesNumber(n) ==
  \E i \in 0 .. (Num \div 10), j \in 0 .. 9 :
    n = 10 * i + j /\ j <= (Num - 10 * i) % 10

Matches(k, w) ==
  \/ w = TheFlag
  \/ k = "many" /\ w.dash = "number" /\ TakesNumber(w.is)

(* Slip: the loop does not stop without a word. *)
LookOn(t, w, r) ==
  LET there == kind'[t] = "flag" /\ w = TheFlag
  IN  /\ result' = [result EXCEPT ![t] = IF there THEN Everywhere(Found) ELSE r]
      /\ stage' = [stage EXCEPT ![t] = IF there THEN "idle"
                               ELSE IF Matches(kind'[t], w) THEN "value" ELSE "next"]

(* The head of the loop, with r found so far: it stops at the end of the   *)
(* line, or at the flag GetFlag looks for.                                 *)
Look(t, w, r) ==
  LET there == kind'[t] = "flag" /\ w = TheFlag
  IN  /\ result' = [result EXCEPT ![t] = IF there THEN Everywhere(Found) ELSE r]
      /\ stage' = [stage EXCEPT ![t] = IF w = EndOfLine \/ there THEN "idle"
                               ELSE IF Matches(kind'[t], w) THEN "value" ELSE "next"]

(* The calls of the other threads lose their place. *)
Disturb(t) ==
  disturbed' = [u \in Threads |-> IF u = t THEN disturbed[t] ELSE disturbed[u] \/ stage[u] # "idle"]

(* Before the loop: the default, the copy of the line, its first word. *)
Call(t, k) ==
  /\ stage[t] = "idle" /\ calls[t] < MaxCalls
  /\ kind' = [kind EXCEPT ![t] = k]
  /\ calls' = [calls EXCEPT ![t] = @ + 1]
  /\ saved' = [of |-> t, call |-> calls[t] + 1, at |-> 2]
  /\ word' = [word EXCEPT ![t] = WordAt(line[t], 1)]
  /\ Look(t, word'[t], Everywhere(Default))
  /\ disturbed' = [u \in Threads |-> u # t /\ (disturbed[u] \/ stage[u] # "idle")]
  /\ UNCHANGED line

(* words = strtok(NULL, " ") at the end of the loop. *)
NextWord(t) ==
  /\ stage[t] = "next"
  /\ \E w \in NextWords : word' = [word EXCEPT ![t] = w]
  /\ Advance
  /\ Disturb(t)
  /\ UNCHANGED <<line, kind, calls>>
  /\ Look(t, word'[t], result[t])

(* words2 = strtok(NULL, " ") after a flag that matches; a call for one    *)
(* number returns with it.                                                 *)
TakeValue(t) ==
  /\ stage[t] = "value"
  /\ \E w \in NextWords :
       /\ result' = [result EXCEPT ![t] = [i \in Indices |->
            IF w # EndOfLine /\ (word[t] = TheFlag \/ i = word[t].is) THEN w ELSE result[t][i]]]
       /\ stage' = [stage EXCEPT ![t] = IF w # EndOfLine /\ kind[t] = "first" THEN "idle" ELSE "next"]
  /\ Advance
  /\ Disturb(t)
  /\ UNCHANGED <<line, kind, calls, word>>

Thread(t) == NextWord(t) \/ TakeValue(t)

ArgsNext == \E t \in Threads : Thread(t) \/ (\E k \in Kinds : Call(t, k))

ArgsSpec == ArgsInit /\ [][ArgsNext]_argsVars
FairArgsSpec == ArgsSpec /\ \A t \in Threads : WF_argsVars(Thread(t))

----------------------------------------------------------------------------
(* Properties. *)

Covers(k, w, n) == w = TheFlag \/ (k = "many" /\ w = Numbered(n))

(* By the usage texts (-(00-13) for an array of fourteen), a call for many *)
(* values takes every number of an element.  The words of a line that are  *)
(* values: those after a flag that is not a value itself.                  *)
ValuesIn(l, k) ==
  LET asks(w) == w = TheFlag \/ (k = "many" /\ w.dash = "number")
  IN  CHOOSE v \in SUBSET (2 .. Len(l)) :
        \A i \in 2 .. Len(l) : i \in v <=> asks(l[i - 1]) /\ i - 1 \notin v

(* The value of the flag, or of element n, by the reading of the usage     *)
(* texts: the first value in a line for a number, the last for a string or *)
(* an array.                                                               *)
ValueOf(l, k, n) ==
  LET given == {i \in ValuesIn(l, k) : Covers(k, l[i - 1], n)}
  IN  IF given = {} THEN Default ELSE l[IF k = "first" THEN Min(given) ELSE Max(given)]

Reference(l, k) ==
  IF k # "flag" THEN [n \in Indices |-> ValueOf(l, k, n)]
  ELSE Everywhere(IF TheFlag \in Range(l) THEN Found ELSE Default)

(* The lines on which the code and the usage texts part: a call for many   *)
(* values does not know a number whose last digit is greater than that of  *)
(* the array's length, and ignores it (EveryNumberIsTaken fails on it).    *)
Missed(n) == n % 10 > Num % 10
NoneMissed(l, k) ==
  k = "many" => \A i \in 1 .. Len(l) : l[i].dash = "number" => ~Missed(l[i].is)

(* Where the line has no numbered flag that the code ignores, an argument  *)
(* is read as the usage texts say, whatever the words around it, by every  *)
(* call during which no other thread has called strtok: an earlier call,   *)
(* or a call another thread was in, leaves nothing behind.                 *)
ReadAsWritten ==
  \A t \in Threads :
    (/\ stage[t] = "idle" /\ calls[t] > 0 /\ ~disturbed[t]
     /\ NoneMissed(line[t], kind[t])) => result[t] = Reference(line[t], kind[t])

(* Every call ends, although the place in the line is shared with threads  *)
(* that move it about.                                                     *)
EveryCallEnds == \A t \in Threads : stage[t] # "idle" ~> stage[t] = "idle"

(* Every number the usage text offers is taken: a line that gives a        *)
(* numbered flag and its value, and nothing else, sets that element.       *)
EveryNumberIsTaken ==
  \A t \in Threads :
    (stage[t] = "idle" /\ calls[t] > 0 /\ ~disturbed[t] /\ kind[t] = "many" /\ Len(line[t]) = 2) =>
      \A n \in Numbers :
        line[t][1] = Numbered(n) /\ line[t][2].dash = "none" => result[t][n] = line[t][2]
=============================================================================
