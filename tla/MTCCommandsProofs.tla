------------------------- MODULE MTCCommandsProofs -------------------------
(***************************************************************************)
(* Proofs about MTCCommands, for sessions of any length: any number of     *)
(* commands in any order, of time-outs, and of settings out of range.      *)
(***************************************************************************)
EXTENDS MTCCommands, SequenceTheorems, TLAPS

-----------------------------------------------------------------------------
(***************************************************************************)
(* The inductive invariant, in two parts.                                  *)
(***************************************************************************)

\* The thread is at a request of its command, and waits only in a command.
Current == RequestsOf[name][failing]
ThreadInStep ==
  IF Idle THEN at = 0 /\ ~waiting ELSE at \in 1..Len(Current)

\* Every time-out ends a command.
TimeOutsCounted == timeOuts + (IF Idle THEN 0 ELSE 1) <= commands

Sorted(q) == \A i, j \in 1..Len(q) : i < j => q[i].id < q[j].id
Ahead(q, r) == \A i \in 1..Len(q), j \in 1..Len(r) : q[i].id < r[j].id
Between(q) == \A i \in 1..Len(q) : taken < q[i].id /\ q[i].id <= sent

\* Answers come in the order of the requests, and after the one taken last.
AnswersInOrder ==
  /\ Sorted(toSbc) /\ Sorted(fromSbc) /\ Sorted(fRecvQueue)
  /\ Ahead(fRecvQueue, fromSbc) /\ Ahead(fRecvQueue, toSbc) /\ Ahead(fromSbc, toSbc)
  /\ Between(toSbc) /\ Between(fromSbc) /\ Between(fRecvQueue)

\* The answer taken last is late by as many requests as have timed out at most,
\* the one under way apart.
Lag == taken <= sent /\ sent - taken <= timeOuts + (IF waiting THEN 1 ELSE 0)

IInv == TypeOK /\ ThreadInStep /\ TimeOutsCounted /\ AnswersInOrder /\ Lag

\* The bits of a register that no command is to leave in it.
Stray(r) ==
  CASE r = "control" -> Bits \ {"PULSE_EN", "PED_EN"}
    [] r \in {"pmsk", "gmsk"} -> Bits \ CrateBits
    [] r = "mask" -> Bits \ {"EXT8"}
    [] r = "data" -> {}

Sets(s, r, b) == s.op = "write" /\ s.reg = r /\ b \in s.set
Clears(s, r, b) == s.op = "write" /\ s.reg = r /\ b \in s.clear /\ b \notin s.set

\* A sequence of requests that writes back only what it has just read, and that
\* clears every stray bit it sets further on.
Steps == [op : {"read", "write"}, reg : Registers, set : Value, clear : Value]
Tidy(s) ==
  /\ s \in Seq(Steps)
  /\ \A i \in 1..Len(s) : s[i].op = "write" /\ s[i].clear # Bits =>
       i > 1 /\ s[i - 1].op = "read" /\ s[i - 1].reg = s[i].reg
  /\ \A i \in 1..Len(s) : s[i].op = "write" =>
       \A b \in s[i].set \cap Stray(s[i].reg) :
         \E j \in (i + 1)..Len(s) : Clears(s[j], s[i].reg, b)

\* The request under way has reached the registers.
Done == waiting /\ toSbc = <<>>
NextStep == IF Done THEN at + 1 ELSE at

\* With no time-out so far there is one request or answer under way while the
\* thread waits, and none otherwise.
OneUnderWay ==
  IF waiting
    THEN \/ Len(toSbc) = 1 /\ fromSbc = <<>> /\ fRecvQueue = <<>>
         \/ toSbc = <<>> /\ Len(fromSbc) = 1 /\ fRecvQueue = <<>>
         \/ toSbc = <<>> /\ fromSbc = <<>> /\ Len(fRecvQueue) = 1
    ELSE toSbc = <<>> /\ fromSbc = <<>> /\ fRecvQueue = <<>>

\* It is the one of the current step.
RequestIsCurrent ==
  \A i \in 1..Len(toSbc) :
    /\ toSbc[i].op = CurrentStep.op /\ toSbc[i].reg = CurrentStep.reg
    /\ toSbc[i].value = (temp \ CurrentStep.clear) \cup CurrentStep.set
AnswerIsCurrent ==
  waiting /\ CurrentStep.op = "read" =>
    /\ \A i \in 1..Len(fromSbc) : fromSbc[i].value = registers[CurrentStep.reg]
    /\ \A i \in 1..Len(fRecvQueue) : fRecvQueue[i].value = registers[CurrentStep.reg]

\* What the last step has read is still what the register holds.
ReadIsFresh ==
  ~Idle /\ ~Done /\ at > 1 /\ Current[at - 1].op = "read" =>
    temp = registers[Current[at - 1].reg]

\* A stray bit is cleared further on in the command.
StrayIsCleared ==
  \A r \in Registers : \A b \in registers[r] \cap Stray(r) :
    ~Idle /\ \E j \in NextStep..Len(Current) : Clears(Current[j], r, b)

\* What the requests that are done have cleared, or set, is as they left it.
EffectsStand ==
  ~Idle => \A r \in Registers, b \in Bits, j \in 1..(NextStep - 1) :
    /\ Clears(Current[j], r, b) /\ (\A k \in (j + 1)..(NextStep - 1) : ~Sets(Current[k], r, b))
         => b \notin registers[r]
    /\ Sets(Current[j], r, b) /\ (\A k \in (j + 1)..(NextStep - 1) : ~Clears(Current[k], r, b))
         => b \in registers[r]

HealthyInv ==
  Healthy => /\ OneUnderWay /\ RequestIsCurrent /\ AnswerIsCurrent
             /\ ReadIsFresh /\ StrayIsCleared /\ EffectsStand

-----------------------------------------------------------------------------
(***************************************************************************)
(* Sequences of requests, and what they leave in the registers.            *)
(***************************************************************************)
\* The bit b of r is cleared, or set, and is as it was left from then on.
LeavesOff(s, r, b) ==
  \E j \in 1..Len(s) : Clears(s[j], r, b) /\ \A k \in (j + 1)..Len(s) : ~Sets(s[k], r, b)
LeavesOn(s, r, b) ==
  \E j \in 1..Len(s) : Sets(s[j], r, b) /\ \A k \in (j + 1)..Len(s) : ~Clears(s[k], r, b)

NeverSets(s, r, b) == \A k \in 1..Len(s) : ~Sets(s[k], r, b)
NeverClears(s, r, b) == \A k \in 1..Len(s) : ~Clears(s[k], r, b)

LEMMA Joined ==
  ASSUME NEW S, NEW s \in Seq(S), NEW t \in Seq(S)
  PROVE  /\ s \o t \in Seq(S) /\ Len(s \o t) = Len(s) + Len(t)
         /\ Len(s) \in Nat /\ Len(t) \in Nat
         /\ \A i \in 1..Len(s) : (s \o t)[i] = s[i]
         /\ \A i \in 1..Len(t) : (s \o t)[Len(s) + i] = t[i]
         /\ \A i \in 1..Len(s \o t) : i \in 1..Len(s) \/ i - Len(s) \in 1..Len(t)
  OBVIOUS

\* Tidy sequences one after the other are tidy.
LEMMA TidyJoined ==
  ASSUME NEW s, NEW t, Tidy(s), Tidy(t)
  PROVE  Tidy(s \o t)
<1> DEFINE u == s \o t
           n == Len(s)
<1>1. s \in Seq(Steps) /\ t \in Seq(Steps)
  BY DEF Tidy
<1>2. /\ u \in Seq(Steps) /\ Len(u) = n + Len(t) /\ n \in Nat /\ Len(t) \in Nat
      /\ \A i \in 1..n : u[i] = s[i]
      /\ \A i \in 1..Len(t) : u[n + i] = t[i]
      /\ \A i \in 1..Len(u) : i \in 1..n \/ i - n \in 1..Len(t)
  BY <1>1, Joined
<1> HIDE DEF u
<1>3. ASSUME NEW i \in 1..Len(u), u[i].op = "write", u[i].clear # Bits
      PROVE  i > 1 /\ u[i - 1].op = "read" /\ u[i - 1].reg = u[i].reg
  <2>1. CASE i \in 1..n
    <3>1. i > 1 /\ s[i - 1].op = "read" /\ s[i - 1].reg = s[i].reg
      BY <1>2, <1>3, <2>1 DEF Tidy
    <3>2. i - 1 \in 1..n
      BY <2>1, <3>1, <1>2
    <3> QED
      BY <1>2, <2>1, <3>1, <3>2
  <2>2. CASE i - n \in 1..Len(t)
    <3> DEFINE k == i - n
    <3>1. u[i] = t[k] /\ k \in Nat
      BY <1>2, <2>2
    <3>2. k > 1 /\ t[k - 1].op = "read" /\ t[k - 1].reg = t[k].reg
      BY <1>3, <2>2, <3>1 DEF Tidy
    <3>5. k > 1
      BY <3>2
    <3>3. k - 1 \in 1..Len(t) /\ n + (k - 1) = i - 1
      BY <1>2, <2>2, <3>5
    <3>4. u[i - 1] = t[k - 1]
      BY <1>2, <3>3
    <3> QED
      BY <1>2, <2>2, <3>1, <3>2, <3>4
  <2> QED
    BY <1>2, <2>1, <2>2
<1>4. ASSUME NEW i \in 1..Len(u), u[i].op = "write",
             NEW b \in u[i].set \cap Stray(u[i].reg)
      PROVE  \E j \in (i + 1)..Len(u) : Clears(u[j], u[i].reg, b)
  <2>1. CASE i \in 1..n
    <3>1. PICK j \in (i + 1)..n : Clears(s[j], s[i].reg, b)
      BY <1>2, <1>4, <2>1 DEF Tidy
    <3>2. j \in 1..n /\ j \in (i + 1)..Len(u)
      BY <1>2, <2>1
    <3> QED
      BY <1>2, <2>1, <3>1, <3>2
  <2>2. CASE i - n \in 1..Len(t)
    <3> DEFINE k == i - n
    <3>1. u[i] = t[k] /\ k \in Nat
      BY <1>2, <2>2
    <3>2. PICK j \in (k + 1)..Len(t) : Clears(t[j], t[k].reg, b)
      BY <1>4, <2>2, <3>1 DEF Tidy
    <3>3. j \in 1..Len(t) /\ n + j \in (i + 1)..Len(u)
      BY <1>2, <2>2
    <3>4. u[n + j] = t[j]
      BY <1>2, <3>3
    <3> QED
      BY <3>1, <3>2, <3>3, <3>4
  <2> QED
    BY <1>2, <2>1, <2>2
<1> QED
  BY <1>2, <1>3, <1>4 DEF Tidy, u

\* What the second of two sequences leaves, and what it leaves alone.
LEMMA LeftByJoined ==
  ASSUME NEW s \in Seq(Steps), NEW t \in Seq(Steps), NEW r, NEW b
  PROVE  /\ LeavesOff(t, r, b) => LeavesOff(s \o t, r, b)
         /\ LeavesOn(t, r, b) => LeavesOn(s \o t, r, b)
         /\ LeavesOff(s, r, b) /\ NeverSets(t, r, b) => LeavesOff(s \o t, r, b)
         /\ LeavesOn(s, r, b) /\ NeverClears(t, r, b) => LeavesOn(s \o t, r, b)
         /\ NeverSets(s, r, b) /\ NeverSets(t, r, b) => NeverSets(s \o t, r, b)
         /\ NeverClears(s, r, b) /\ NeverClears(t, r, b) => NeverClears(s \o t, r, b)
<1> DEFINE u == s \o t
           n == Len(s)
<1>1. /\ u \in Seq(Steps) /\ Len(u) = n + Len(t) /\ n \in Nat /\ Len(t) \in Nat
      /\ \A i \in 1..n : u[i] = s[i]
      /\ \A i \in 1..Len(t) : u[n + i] = t[i]
      /\ \A i \in 1..Len(u) : i \in 1..n \/ i - n \in 1..Len(t)
  BY Joined
<1> HIDE DEF u, n
<1>2. \A k \in 1..Len(u) : k > n => k - n \in 1..Len(t) /\ u[k] = t[k - n]
  <2> SUFFICES ASSUME NEW k \in 1..Len(u), k > n
               PROVE  k - n \in 1..Len(t) /\ u[k] = t[k - n]
    OBVIOUS
  <2>1. k - n \in 1..Len(t) /\ n + (k - n) = k
    BY <1>1
  <2> QED
    BY <1>1, <2>1
<1>3. \A k \in 1..Len(u) : k <= n => k \in 1..n /\ u[k] = s[k]
  BY <1>1
<1>4. ASSUME LeavesOff(t, r, b) PROVE LeavesOff(u, r, b)
  <2>1. PICK j \in 1..Len(t) :
          Clears(t[j], r, b) /\ \A k \in (j + 1)..Len(t) : ~Sets(t[k], r, b)
    BY <1>4 DEF LeavesOff
  <2>2. n + j \in 1..Len(u) /\ u[n + j] = t[j]
    BY <1>1
  <2>3. ASSUME NEW k \in (n + j + 1)..Len(u) PROVE ~Sets(u[k], r, b)
    <3>1. k \in 1..Len(u) /\ k > n /\ k - n \in (j + 1)..Len(t)
      BY <1>1
    <3> QED
      BY <1>2, <2>1, <3>1
  <2> QED
    BY <2>1, <2>2, <2>3 DEF LeavesOff
<1>5. ASSUME LeavesOn(t, r, b) PROVE LeavesOn(u, r, b)
  <2>1. PICK j \in 1..Len(t) :
          Sets(t[j], r, b) /\ \A k \in (j + 1)..Len(t) : ~Clears(t[k], r, b)
    BY <1>5 DEF LeavesOn
  <2>2. n + j \in 1..Len(u) /\ u[n + j] = t[j]
    BY <1>1
  <2>3. ASSUME NEW k \in (n + j + 1)..Len(u) PROVE ~Clears(u[k], r, b)
    <3>1. k \in 1..Len(u) /\ k > n /\ k - n \in (j + 1)..Len(t)
      BY <1>1
    <3> QED
      BY <1>2, <2>1, <3>1
  <2> QED
    BY <2>1, <2>2, <2>3 DEF LeavesOn
<1>6. ASSUME LeavesOff(s, r, b), NeverSets(t, r, b) PROVE LeavesOff(u, r, b)
  <2>1. PICK j \in 1..n :
          Clears(s[j], r, b) /\ \A k \in (j + 1)..n : ~Sets(s[k], r, b)
    BY <1>6 DEF LeavesOff, n
  <2>2. j \in 1..Len(u) /\ u[j] = s[j]
    BY <1>1
  <2>3. ASSUME NEW k \in (j + 1)..Len(u) PROVE ~Sets(u[k], r, b)
    <3>1. k \in 1..Len(u) /\ (k > n \/ k \in (j + 1)..n)
      BY <1>1
    <3>2. CASE k > n
      <4>1. k - n \in 1..Len(t) /\ u[k] = t[k - n]
        BY <1>2, <3>1, <3>2
      <4> QED
        BY <1>6, <4>1 DEF NeverSets
    <3>3. CASE k \in (j + 1)..n
      <4>1. u[k] = s[k]
        BY <1>3, <3>1, <3>3
      <4> QED
        BY <2>1, <3>3, <4>1
    <3> QED
      BY <3>1, <3>2, <3>3
  <2> QED
    BY <2>1, <2>2, <2>3 DEF LeavesOff
<1>7. ASSUME LeavesOn(s, r, b), NeverClears(t, r, b) PROVE LeavesOn(u, r, b)
  <2>1. PICK j \in 1..n :
          Sets(s[j], r, b) /\ \A k \in (j + 1)..n : ~Clears(s[k], r, b)
    BY <1>7 DEF LeavesOn, n
  <2>2. j \in 1..Len(u) /\ u[j] = s[j]
    BY <1>1
  <2>3. ASSUME NEW k \in (j + 1)..Len(u) PROVE ~Clears(u[k], r, b)
    <3>1. k \in 1..Len(u) /\ (k > n \/ k \in (j + 1)..n)
      BY <1>1
    <3>2. CASE k > n
      <4>1. k - n \in 1..Len(t) /\ u[k] = t[k - n]
        BY <1>2, <3>1, <3>2
      <4> QED
        BY <1>7, <4>1 DEF NeverClears
    <3>3. CASE k \in (j + 1)..n
      <4>1. u[k] = s[k]
        BY <1>3, <3>1, <3>3
      <4> QED
        BY <2>1, <3>3, <4>1
    <3> QED
      BY <3>1, <3>2, <3>3
  <2> QED
    BY <2>1, <2>2, <2>3 DEF LeavesOn
<1>8. ASSUME NeverSets(s, r, b), NeverSets(t, r, b) PROVE NeverSets(u, r, b)
  <2> SUFFICES ASSUME NEW k \in 1..Len(u) PROVE ~Sets(u[k], r, b)
    BY DEF NeverSets
  <2>1. CASE k > n
    <3>1. k - n \in 1..Len(t) /\ u[k] = t[k - n]
      BY <1>2, <2>1
    <3> QED
      BY <1>8, <3>1 DEF NeverSets
  <2>2. CASE k <= n
    <3>1. k \in 1..Len(s) /\ u[k] = s[k]
      BY <1>3, <2>2 DEF n
    <3> QED
      BY <1>8, <3>1 DEF NeverSets
  <2>3. k \in Nat /\ n \in Nat
    BY <1>1
  <2> QED
    BY <2>1, <2>2, <2>3
<1>9. ASSUME NeverClears(s, r, b), NeverClears(t, r, b) PROVE NeverClears(u, r, b)
  <2> SUFFICES ASSUME NEW k \in 1..Len(u) PROVE ~Clears(u[k], r, b)
    BY DEF NeverClears
  <2>1. CASE k > n
    <3>1. k - n \in 1..Len(t) /\ u[k] = t[k - n]
      BY <1>2, <2>1
    <3> QED
      BY <1>9, <3>1 DEF NeverClears
  <2>2. CASE k <= n
    <3>1. k \in 1..Len(s) /\ u[k] = s[k]
      BY <1>3, <2>2 DEF n
    <3> QED
      BY <1>9, <3>1 DEF NeverClears
  <2>3. k \in Nat /\ n \in Nat
    BY <1>1
  <2> QED
    BY <2>1, <2>2, <2>3
<1> QED
  BY <1>4, <1>5, <1>6, <1>7, <1>8, <1>9 DEF u

\* The requests of RegWrite, and of a read that is changed and written back.
Own(r) == Bits \ Stray(r)

LEMMA StrayBits == \A r \in Registers : Stray(r) \subseteq Bits
  BY DEF Stray, Registers

LEMMA TidyBlocks ==
  ASSUME NEW r \in Registers, NEW v \in SUBSET Own(r), NEW c \in SUBSET Bits
  PROVE  /\ Tidy(Write(r, v)) /\ Len(Write(r, v)) = 1
         /\ Write(r, v)[1] = Step("write", r, v, Bits)
         /\ Tidy(Modify(r, v, c)) /\ Len(Modify(r, v, c)) = 2
         /\ Modify(r, v, c)[1] = Step("read", r, {}, {})
         /\ Modify(r, v, c)[2] = Step("write", r, v, c)
<1>1. v \in SUBSET Bits /\ v \cap Stray(r) = {}
  BY DEF Own
<1>2. Step("write", r, v, Bits) \in Steps /\ Step("write", r, v, c) \in Steps
  BY <1>1 DEF Step, Steps, Value
<1>3. Step("read", r, {}, {}) \in Steps
  BY DEF Step, Steps, Value
<1>4. /\ Write(r, v) \in Seq(Steps) /\ Len(Write(r, v)) = 1
      /\ Write(r, v)[1] = Step("write", r, v, Bits)
  BY <1>2 DEF Write
<1>5. /\ Modify(r, v, c) \in Seq(Steps) /\ Len(Modify(r, v, c)) = 2
      /\ Modify(r, v, c)[1] = Step("read", r, {}, {})
      /\ Modify(r, v, c)[2] = Step("write", r, v, c)
  BY <1>2, <1>3 DEF Modify
<1>6. Tidy(Write(r, v))
  <2>1. \A i \in 1..Len(Write(r, v)) : Write(r, v)[i] = Step("write", r, v, Bits)
    BY <1>4
  <2> QED
    BY <1>1, <1>4, <2>1 DEF Tidy, Step
<1>7. Tidy(Modify(r, v, c))
  <2>1. \A i \in 1..Len(Modify(r, v, c)) : i = 1 \/ i = 2
    BY <1>5
  <2>2. /\ Modify(r, v, c)[1].op = "read" /\ Modify(r, v, c)[1].reg = r
        /\ Modify(r, v, c)[2].reg = r /\ Modify(r, v, c)[2].set = v
    BY <1>5 DEF Step
  <2> QED
    BY <1>1, <1>5, <2>1, <2>2 DEF Tidy
<1> QED
  BY <1>4, <1>5, <1>6, <1>7

-----------------------------------------------------------------------------
(***************************************************************************)
(* Every command is a tidy sequence of requests.                           *)
(***************************************************************************)
LEMMA OwnBits ==
  /\ Own("control") = {"PULSE_EN", "PED_EN"}
  /\ Own("pmsk") = CrateBits /\ Own("gmsk") = CrateBits
  /\ Own("mask") = {"EXT8"} /\ Own("data") = Bits
  /\ {"control", "pmsk", "gmsk", "mask", "data"} = Registers
<1>1. /\ Stray("control") = Bits \ {"PULSE_EN", "PED_EN"}
      /\ Stray("pmsk") = Bits \ CrateBits /\ Stray("gmsk") = Bits \ CrateBits
      /\ Stray("mask") = Bits \ {"EXT8"} /\ Stray("data") = {}
  BY DEF Stray
<1>2. {"PULSE_EN", "PED_EN"} \subseteq Bits /\ CrateBits \subseteq Bits /\ {"EXT8"} \subseteq Bits
  BY DEF Bits, ControlBits
<1> QED
  BY <1>1, <1>2 DEF Own, Registers

\* A bit that is set and cleared again.
LEMMA TidyToggle ==
  ASSUME NEW bit \in ControlBits
  PROVE  Tidy(Enable(bit) \o Disable(bit))
<1> DEFINE u == Enable(bit) \o Disable(bit)
           r == "control"
<1>1. Step("read", r, {}, {}) \in Steps
  BY DEF Step, Steps, Value, Registers
<1>2. Step("write", r, {bit}, {}) \in Steps /\ Step("write", r, {}, {bit}) \in Steps
  BY DEF Step, Steps, Value, Registers, Bits
<1>3. /\ Enable(bit) \in Seq(Steps) /\ Len(Enable(bit)) = 2
      /\ Enable(bit)[1] = Step("read", r, {}, {})
      /\ Enable(bit)[2] = Step("write", r, {bit}, {})
  BY <1>1, <1>2 DEF Enable, Modify
<1>4. /\ Disable(bit) \in Seq(Steps) /\ Len(Disable(bit)) = 2
      /\ Disable(bit)[1] = Step("read", r, {}, {})
      /\ Disable(bit)[2] = Step("write", r, {}, {bit})
  BY <1>1, <1>2 DEF Disable, Modify
<1>5. /\ u \in Seq(Steps) /\ Len(u) = 4
      /\ u[1] = Enable(bit)[1] /\ u[2] = Enable(bit)[2]
      /\ u[3] = Disable(bit)[1] /\ u[4] = Disable(bit)[2]
  <2>3. /\ Enable(bit) \in Seq(Steps) /\ Disable(bit) \in Seq(Steps)
        /\ Len(Enable(bit)) = 2 /\ Len(Disable(bit)) = 2
    BY <1>3, <1>4
  <2>4. /\ u \in Seq(Steps) /\ Len(u) = Len(Enable(bit)) + Len(Disable(bit))
        /\ \A i \in 1..Len(Enable(bit)) : u[i] = Enable(bit)[i]
        /\ \A i \in 1..Len(Disable(bit)) : u[Len(Enable(bit)) + i] = Disable(bit)[i]
    <3>1. \A s, t \in Seq(Steps) :
            /\ s \o t \in Seq(Steps) /\ Len(s \o t) = Len(s) + Len(t)
            /\ \A i \in 1..Len(s) : (s \o t)[i] = s[i]
            /\ \A i \in 1..Len(t) : (s \o t)[Len(s) + i] = t[i]
      BY Joined
    <3> QED
      BY <2>3, <3>1, Zenon
  <2> HIDE DEF u
  <2>1. /\ u \in Seq(Steps) /\ Len(u) = 4
        /\ \A i \in 1..2 : u[i] = Enable(bit)[i]
        /\ \A i \in 1..2 : u[2 + i] = Disable(bit)[i]
    BY <2>3, <2>4
  <2>2. u[2 + 1] = Disable(bit)[1] /\ u[2 + 2] = Disable(bit)[2]
    BY <2>1
  <2> QED
    BY <2>1, <2>2
<1> HIDE DEF u
<1>6. \A i \in 1..Len(u) : i \in {1, 2, 3, 4}
  BY <1>5
<1>7. /\ u[1].op = "read" /\ u[1].reg = r /\ u[3].op = "read" /\ u[3].reg = r
      /\ u[2].op = "write" /\ u[2].reg = r /\ u[2].set = {bit} /\ u[2].clear = {}
      /\ u[4].op = "write" /\ u[4].reg = r /\ u[4].set = {} /\ u[4].clear = {bit}
  BY <1>3, <1>4, <1>5 DEF Step
<1>8. ASSUME NEW i \in 1..Len(u), u[i].op = "write"
      PROVE  i > 1 /\ u[i - 1].op = "read" /\ u[i - 1].reg = u[i].reg
  <2>1. i = 2 \/ i = 4
    BY <1>6, <1>7, <1>8
  <2> QED
    BY <2>1, <1>7
<1>9. ASSUME NEW i \in 1..Len(u), u[i].op = "write", NEW b \in u[i].set
      PROVE  \E j \in (i + 1)..Len(u) : Clears(u[j], u[i].reg, b)
  <2>1. i = 2 \/ i = 4
    BY <1>6, <1>7, <1>9
  <2>2. i = 2 /\ b = bit
    BY <2>1, <1>7, <1>9
  <2>3. 4 \in (i + 1)..Len(u)
    BY <2>2, <1>5
  <2>4. Clears(u[4], u[i].reg, b)
    BY <2>2, <1>7 DEF Clears
  <2> QED
    BY <2>3, <2>4
<1> QED
  BY <1>5, <1>8, <1>9 DEF Tidy, u

LEMMA TidyParts ==
  /\ Tidy(Enable("PULSE_EN")) /\ Tidy(Enable("PED_EN"))
  /\ \A bit \in ControlBits : Tidy(Disable(bit))
  /\ Tidy(Write("data", {})) /\ Tidy(Write("control", {})) /\ Tidy(Shift)
  /\ Tidy(UnsetCrateMask("pmsk")) /\ Tidy(UnsetCrateMask("gmsk")) /\ Tidy(UnsetMasks)
  /\ Tidy(SetCrateMask("pmsk", RunCrates)) /\ Tidy(SetCrateMask("gmsk", RunCrates))
  /\ Tidy(Modify("mask", {"EXT8"}, {})) /\ Tidy(Modify("mask", {}, Bits))
  /\ Tidy(LoadDacs)
<1>1. {"PULSE_EN"} \in SUBSET Own("control") /\ {"PED_EN"} \in SUBSET Own("control")
  BY OwnBits
<1>2. \A r : {} \in SUBSET Own(r)
  OBVIOUS
<1>3. {} \in SUBSET Bits /\ CrateBits \in SUBSET Bits /\ Bits \in SUBSET Bits
  BY DEF Bits
<1>4. \A bit \in ControlBits : {bit} \in SUBSET Bits
  BY DEF Bits
<1>5. RunCrates \in SUBSET Own("pmsk") /\ CrateBits \in SUBSET Own("pmsk")
      /\ RunCrates \in SUBSET Own("gmsk") /\ CrateBits \in SUBSET Own("gmsk")
  BY OwnBits, MTCCommandsAssumption
<1>6. {"EXT8"} \in SUBSET Own("mask")
  BY OwnBits
<1>7. "control" \in Registers /\ "pmsk" \in Registers /\ "gmsk" \in Registers
      /\ "mask" \in Registers /\ "data" \in Registers
  BY DEF Registers
<1>8. Tidy(Enable("PULSE_EN")) /\ Tidy(Enable("PED_EN"))
  BY <1>1, <1>3, <1>7, TidyBlocks DEF Enable
<1>9. \A bit \in ControlBits : Tidy(Disable(bit))
  BY <1>2, <1>4, <1>7, TidyBlocks DEF Disable
<1>10. Tidy(Write("data", {})) /\ Tidy(Write("control", {})) /\ Tidy(Modify("data", {}, {}))
  BY <1>2, <1>3, <1>7, TidyBlocks
<1>11. Tidy(UnsetCrateMask("pmsk")) /\ Tidy(UnsetCrateMask("gmsk"))
  BY <1>2, <1>3, <1>7, TidyBlocks DEF UnsetCrateMask
<1>12. Tidy(SetCrateMask("pmsk", RunCrates)) /\ Tidy(SetCrateMask("gmsk", RunCrates))
  BY <1>3, <1>5, <1>7, TidyBlocks DEF SetCrateMask
<1>13. Tidy(Modify("mask", {"EXT8"}, {})) /\ Tidy(Modify("mask", {}, Bits))
  BY <1>2, <1>3, <1>6, <1>7, TidyBlocks
<1>14. Tidy(Shift) /\ Tidy(UnsetMasks) /\ Tidy(LoadDacs)
  BY <1>10, <1>11, TidyJoined DEF Shift, UnsetMasks, LoadDacs
<1> QED
  BY <1>8, <1>9, <1>10, <1>11, <1>12, <1>13, <1>14

\* A sequence that is tidy, followed by a bit set and cleared again.
LEMMA TidyThenToggle ==
  ASSUME NEW s, Tidy(s), NEW bit \in ControlBits
  PROVE  Tidy(s \o Enable(bit) \o Disable(bit))
<1>1. Step("read", "control", {}, {}) \in Steps
  BY DEF Step, Steps, Value, Registers
<1>2. Step("write", "control", {bit}, {}) \in Steps /\ Step("write", "control", {}, {bit}) \in Steps
  BY DEF Step, Steps, Value, Registers, Bits
<1>3. Enable(bit) \in Seq(Steps) /\ Disable(bit) \in Seq(Steps)
  BY <1>1, <1>2 DEF Enable, Disable, Modify
<1>4. s \o Enable(bit) \o Disable(bit) = s \o (Enable(bit) \o Disable(bit))
  BY <1>3, ConcatAssociative DEF Tidy
<1> QED
  BY <1>4, TidyToggle, TidyJoined

LEMMA TidySettings ==
  /\ \A i \in 1..6 : Tidy(Setting(i))
  /\ \A i \in 1..6, k \in 0..6 : Tidy(InRange(i, k))
  /\ Tidy(SetGTCounter) /\ Tidy(StartPedestals)
<1>1. "LOAD" \in ControlBits
  BY DEF ControlBits
<1>2. Tidy(Load("LOAD"))
  BY <1>1, TidyParts, TidyThenToggle DEF Load
<1>3. \A i \in 1..6 : Tidy(Setting(i))
  BY <1>2, TidyParts, TidyJoined DEF Setting
<1>4. Tidy(<<>>)
  BY DEF Tidy
<1>5. \A i \in 1..6, k \in 0..6 : Tidy(InRange(i, k))
  BY <1>3, <1>4 DEF InRange
<1>6. Tidy(SetGTCounter)
  BY <1>1, TidyParts, TidyThenToggle DEF SetGTCounter
<1>7. Tidy(StartPedestals)
  BY TidyParts, TidyJoined DEF StartPedestals
<1> QED
  BY <1>3, <1>5, <1>6, <1>7

LEMMA NotEmpty ==
  ASSUME NEW s, NEW t, Tidy(s), Tidy(t), Len(s) > 0
  PROVE  Tidy(s \o t) /\ Len(s \o t) > 0
<1>1. s \in Seq(Steps) /\ t \in Seq(Steps)
  BY DEF Tidy
<1>2. Len(s \o t) = Len(s) + Len(t) /\ Len(s) \in Nat /\ Len(t) \in Nat
  BY <1>1, Joined
<1> QED
  BY <1>2, TidyJoined

LEMMA TidyMTCInit ==
  ASSUME NEW k \in 0..6
  PROVE  Tidy(MTCInit(k)) /\ Len(MTCInit(k)) > 0
<1> DEFINE s1 == Modify("mask", {}, Bits) \o UnsetMasks
           s2 == s1 \o LoadDacs \o Write("control", {})
           s3 == s2 \o InRange(1, k) \o SetGTCounter
           s4 == s3 \o InRange(6, k) \o InRange(2, k)
           s5 == s4 \o InRange(3, k) \o InRange(4, k) \o InRange(5, k)
           s6 == s5 \o Enable("FIFO_RESET") \o Disable("FIFO_RESET")
<1>0. /\ Tidy(InRange(1, k)) /\ Tidy(InRange(2, k)) /\ Tidy(InRange(3, k))
      /\ Tidy(InRange(4, k)) /\ Tidy(InRange(5, k)) /\ Tidy(InRange(6, k))
      /\ Tidy(SetGTCounter)
  BY TidySettings
<1>1. Len(Modify("mask", {}, Bits)) = 2
  BY DEF Modify
<1>2. Tidy(s1) /\ Len(s1) > 0
  BY <1>1, TidyParts, NotEmpty
<1> HIDE DEF s1
<1>3. Tidy(s1 \o LoadDacs) /\ Len(s1 \o LoadDacs) > 0
  BY <1>2, TidyParts, NotEmpty
<1>4. Tidy(s2) /\ Len(s2) > 0
  BY <1>3, TidyParts, NotEmpty
<1> HIDE DEF s2
<1>5. Tidy(s2 \o InRange(1, k)) /\ Len(s2 \o InRange(1, k)) > 0
  BY <1>0, <1>4, NotEmpty
<1>6. Tidy(s3) /\ Len(s3) > 0
  BY <1>0, <1>5, NotEmpty
<1> HIDE DEF s3
<1>7. Tidy(s3 \o InRange(6, k)) /\ Len(s3 \o InRange(6, k)) > 0
  BY <1>0, <1>6, NotEmpty
<1>8. Tidy(s4) /\ Len(s4) > 0
  BY <1>0, <1>7, NotEmpty
<1> HIDE DEF s4
<1>9. Tidy(s4 \o InRange(3, k)) /\ Len(s4 \o InRange(3, k)) > 0
  BY <1>0, <1>8, NotEmpty
<1>10. /\ Tidy(s4 \o InRange(3, k) \o InRange(4, k))
       /\ Len(s4 \o InRange(3, k) \o InRange(4, k)) > 0
  BY <1>0, <1>9, NotEmpty
<1>11. Tidy(s5) /\ Len(s5) > 0
  BY <1>0, <1>10, NotEmpty
<1> HIDE DEF s5
<1>12. "FIFO_RESET" \in ControlBits
  BY DEF ControlBits
<1>13. Tidy(s6)
  BY <1>11, <1>12, TidyThenToggle
<1>14. Len(s6) > 0
  <2>1. Step("read", "control", {}, {}) \in Steps
    BY DEF Step, Steps, Value, Registers
  <2>2. /\ Step("write", "control", {"FIFO_RESET"}, {}) \in Steps
        /\ Step("write", "control", {}, {"FIFO_RESET"}) \in Steps
    BY <1>12 DEF Step, Steps, Value, Registers, Bits
  <2>3. Enable("FIFO_RESET") \in Seq(Steps) /\ Disable("FIFO_RESET") \in Seq(Steps)
    BY <2>1, <2>2 DEF Enable, Disable, Modify
  <2>4. s5 \in Seq(Steps) /\ Len(s5) > 0
    BY <1>11 DEF Tidy
  <2>5. /\ s5 \o Enable("FIFO_RESET") \in Seq(Steps)
        /\ Len(s5 \o Enable("FIFO_RESET")) > 0
    BY <2>3, <2>4, Joined
  <2> QED
    BY <2>3, <2>5, Joined
<1> HIDE DEF s6
<1>15. Tidy(s6 \o Write("data", {})) /\ Len(s6 \o Write("data", {})) > 0
  BY <1>13, <1>14, TidyParts, NotEmpty
<1>16. MTCInit(k) = s6 \o Write("data", {})
  BY DEF MTCInit, s1, s2, s3, s4, s5, s6
<1> QED
  BY <1>15, <1>16

LEMMA TidyRunPedestals ==
  ASSUME NEW k \in 0..6
  PROVE  Tidy(RunPedestals(k)) /\ Len(RunPedestals(k)) > 0
<1> USE TidyParts, TidySettings
<1> DEFINE s1 == Setting(1)
           s2 == Setting(1) \o Setting(2)
           s3 == s2 \o Setting(3)
           s4 == s3 \o Setting(4)
           s5 == s4 \o InRange(5, k)
<1>1. Tidy(s1) /\ Len(s1) > 0
  <2>1. /\ Tidy(Write("data", {})) /\ Len(Write("data", {})) > 0
    BY DEF Write
  <2>2. /\ Write("data", {}) \in Seq(Steps)
    BY DEF Tidy
  <2>3. "LOAD" \in ControlBits
    BY DEF ControlBits
  <2>4. Step("read", "control", {}, {}) \in Steps
    BY DEF Step, Steps, Value, Registers
  <2>5. /\ Step("write", "control", {"LOAD"}, {}) \in Steps
        /\ Step("write", "control", {}, {"LOAD"}) \in Steps
    BY <2>3 DEF Step, Steps, Value, Registers, Bits
  <2>6. Enable("LOAD") \in Seq(Steps) /\ Disable("LOAD") \in Seq(Steps)
    BY <2>4, <2>5 DEF Enable, Disable, Modify
  <2>7. /\ Write("data", {}) \o Enable("LOAD") \in Seq(Steps)
        /\ Len(Write("data", {}) \o Enable("LOAD")) > 0
    BY <2>1, <2>2, <2>6, Joined
  <2>8. Len(Load("LOAD")) > 0
    BY <2>6, <2>7, Joined DEF Load
  <2>9. s1 = Load("LOAD")
    BY DEF Setting
  <2> QED
    BY <2>8, <2>9
<1>2. Tidy(s2) /\ Len(s2) > 0
  BY <1>1, NotEmpty
<1> HIDE DEF s2
<1>3. Tidy(s3) /\ Len(s3) > 0
  BY <1>2, NotEmpty
<1> HIDE DEF s3
<1>4. Tidy(s4) /\ Len(s4) > 0
  BY <1>3, NotEmpty
<1> HIDE DEF s4
<1>5. Tidy(s5) /\ Len(s5) > 0
  BY <1>4, NotEmpty
<1> HIDE DEF s5
<1>6. CASE k = 2
  <2>1. RunPedestals(k) = s1 \o UnsetMasks
    BY <1>6 DEF RunPedestals
  <2> HIDE DEF s1
  <2> QED
    BY <2>1, <1>1, NotEmpty
<1>7. CASE k = 3
  <2>1. RunPedestals(k) = s2 \o UnsetMasks
    BY <1>7 DEF RunPedestals, s2
  <2> QED
    BY <2>1, <1>2, NotEmpty
<1>8. CASE k = 4
  <2>1. RunPedestals(k) = s3 \o UnsetMasks
    BY <1>8 DEF RunPedestals, s2, s3
  <2> QED
    BY <2>1, <1>3, NotEmpty
<1>9. CASE k \notin {2, 3, 4}
  <2>1. RunPedestals(k) = s5 \o StartPedestals
    BY <1>9 DEF RunPedestals, s2, s3, s4, s5
  <2> QED
    BY <2>1, <1>5, NotEmpty
<1> QED
  BY <1>6, <1>7, <1>8, <1>9

\* Every command, with any setting out of range, is a tidy sequence.
LEMMA TidyCommands ==
  ASSUME NEW n \in Names, NEW k \in 0..6
  PROVE  Tidy(RequestsOf[n][k]) /\ Len(RequestsOf[n][k]) > 0
<1>1. RequestsOf[n][k] = Requests(n, k)
  BY DEF RequestsOf
<1>2. \A bit \in ControlBits : Len(Enable(bit)) > 0 /\ Len(Disable(bit)) > 0
  BY DEF Enable, Disable, Modify
<1>3. /\ "PULSE_EN" \in ControlBits /\ "PED_EN" \in ControlBits
  BY DEF ControlBits
<1>4. Tidy(RunPedestalsEnd) /\ Len(RunPedestalsEnd) > 0
  <2>1. /\ Tidy(Disable("PULSE_EN") \o Disable("PED_EN"))
        /\ Len(Disable("PULSE_EN") \o Disable("PED_EN")) > 0
    BY <1>2, <1>3, TidyParts, NotEmpty
  <2> QED
    BY <2>1, TidyParts, NotEmpty DEF RunPedestalsEnd
<1>5. Tidy(<<Step("read", "control", {}, {})>>)
  <2> DEFINE s == <<Step("read", "control", {}, {})>>
  <2>1. Step("read", "control", {}, {}) \in Steps
    BY DEF Step, Steps, Value, Registers
  <2>2. s \in Seq(Steps) /\ Len(s) = 1 /\ s[1] = Step("read", "control", {}, {})
    BY <2>1
  <2> HIDE DEF s
  <2>3. \A i \in 1..Len(s) : s[i].op = "read"
    BY <2>2 DEF Step
  <2>4. Tidy(s)
    BY <2>2, <2>3 DEF Tidy
  <2> QED
    BY <2>4 DEF s
<1>6. Len(<<Step("read", "control", {}, {})>>) > 0
  OBVIOUS
<1>7. CASE n = "mtc_init"
  BY <1>1, <1>7, TidyMTCInit DEF Requests
<1>8. CASE n = "run_pedestals_mtc"
  BY <1>1, <1>8, TidyRunPedestals DEF Requests
<1>9. CASE n = "run_pedestals_end_mtc"
  BY <1>1, <1>4, <1>9 DEF Requests
<1>10. CASE n \in {"enable_pulser", "disable_pulser", "enable_pedestal", "disable_pedestal"}
  BY <1>1, <1>2, <1>3, <1>10, TidyParts DEF Requests
<1>11. CASE n = "mtc_read"
  BY <1>1, <1>5, <1>6, <1>11 DEF Requests
<1> QED
  BY <1>7, <1>8, <1>9, <1>10, <1>11, MTCCommandsAssumption

-----------------------------------------------------------------------------
(***************************************************************************)
(* The order of the answers.                                               *)
(***************************************************************************)
LEMMA AppendElements ==
  ASSUME NEW S, NEW q \in Seq(S), NEW e \in S
  PROVE  /\ Append(q, e) \in Seq(S) /\ Len(Append(q, e)) = Len(q) + 1
         /\ \A i \in 1..Len(Append(q, e)) :
              \/ i \in 1..Len(q) /\ Append(q, e)[i] = q[i]
              \/ i = Len(q) + 1 /\ Append(q, e)[i] = e
  OBVIOUS

LEMMA TailElements ==
  ASSUME NEW S, NEW q \in Seq(S), q # <<>>
  PROVE  /\ Tail(q) \in Seq(S) /\ Len(Tail(q)) = Len(q) - 1
         /\ Len(q) \in Nat \ {0} /\ Head(q) = q[1] /\ Head(q) \in S /\ 1 \in 1..Len(q)
         /\ \A i \in 1..Len(Tail(q)) : i + 1 \in 1..Len(q) /\ Tail(q)[i] = q[i + 1]
  OBVIOUS

LEMMA OrderOfTail ==
  ASSUME NEW S, NEW q \in Seq(S), q # <<>>, NEW T, NEW r \in Seq(T)
  PROVE  /\ Sorted(q) => Sorted(Tail(q)) /\ Ahead(<<Head(q)>>, Tail(q))
         /\ Ahead(q, r) => Ahead(Tail(q), r) /\ Ahead(<<Head(q)>>, r)
         /\ Ahead(r, q) => Ahead(r, Tail(q)) /\ Ahead(r, <<Head(q)>>)
<1> DEFINE t == Tail(q)
           h == Head(q)
<1>1. /\ t \in Seq(S) /\ Len(q) \in Nat /\ h = q[1] /\ 1 \in 1..Len(q)
      /\ \A i \in 1..Len(t) : i + 1 \in 1..Len(q) /\ t[i] = q[i + 1]
  BY TailElements
<1>2. Len(<<h>>) = 1 /\ <<h>>[1] = h
  OBVIOUS
<1> HIDE DEF t, h
<1>3. \A i \in 1..Len(<<h>>) : <<h>>[i] = q[1]
  BY <1>1, <1>2
<1>4. ASSUME Sorted(q) PROVE Sorted(t) /\ Ahead(<<h>>, t)
  <2>1. \A i, j \in 1..Len(t) : i < j => i + 1 < j + 1
    BY <1>1
  <2>2. \A j \in 1..Len(t) : 1 < j + 1
    BY <1>1
  <2>3. Sorted(t)
    BY <1>1, <1>4, <2>1 DEF Sorted
  <2>4. Ahead(<<h>>, t)
    BY <1>1, <1>3, <1>4, <2>2 DEF Sorted, Ahead
  <2> QED
    BY <2>3, <2>4
<1>5. ASSUME Ahead(q, r) PROVE Ahead(t, r) /\ Ahead(<<h>>, r)
  BY <1>1, <1>3, <1>5 DEF Ahead
<1>6. ASSUME Ahead(r, q) PROVE Ahead(r, t) /\ Ahead(r, <<h>>)
  BY <1>1, <1>3, <1>6 DEF Ahead
<1> QED
  BY <1>4, <1>5, <1>6 DEF t, h

LEMMA OrderOfAppend ==
  ASSUME NEW S, NEW q \in Seq(S), NEW e \in S, NEW T, NEW r \in Seq(T)
  PROVE  /\ Sorted(q) /\ Ahead(q, <<e>>) => Sorted(Append(q, e))
         /\ Ahead(q, r) /\ Ahead(<<e>>, r) => Ahead(Append(q, e), r)
         /\ Ahead(r, q) /\ Ahead(r, <<e>>) => Ahead(r, Append(q, e))
<1> DEFINE a == Append(q, e)
           n == Len(q)
<1>1. /\ a \in Seq(S) /\ Len(a) = n + 1 /\ n \in Nat
      /\ \A i \in 1..Len(a) : \/ i \in 1..n /\ a[i] = q[i]
                              \/ i = n + 1 /\ a[i] = e
  BY AppendElements
<1>2. Len(<<e>>) = 1 /\ <<e>>[1] = e /\ 1 \in 1..Len(<<e>>)
  OBVIOUS
<1> HIDE DEF a
<1>3. ASSUME Sorted(q), Ahead(q, <<e>>) PROVE Sorted(a)
  <2> SUFFICES ASSUME NEW i \in 1..Len(a), NEW j \in 1..Len(a), i < j
               PROVE  a[i].id < a[j].id
    BY DEF Sorted
  <2>1. i \in 1..n /\ a[i] = q[i]
    BY <1>1
  <2>2. CASE j \in 1..n /\ a[j] = q[j]
    BY <1>3, <2>1, <2>2 DEF Sorted
  <2>3. CASE a[j] = e
    BY <1>2, <1>3, <2>1, <2>3 DEF Ahead
  <2> QED
    BY <1>1, <2>2, <2>3
<1>4. ASSUME Ahead(q, r), Ahead(<<e>>, r) PROVE Ahead(a, r)
  BY <1>1, <1>2, <1>4 DEF Ahead
<1>5. ASSUME Ahead(r, q), Ahead(r, <<e>>) PROVE Ahead(r, a)
  BY <1>1, <1>2, <1>5 DEF Ahead
<1> QED
  BY <1>3, <1>4, <1>5 DEF a

-----------------------------------------------------------------------------
(***************************************************************************)
(* Type correctness, and the lag of the answers.                           *)
(***************************************************************************)
LEMMA CommandSteps ==
  ASSUME TypeOK, ~Idle
  PROVE  /\ name \in Names /\ failing \in 0..6 /\ Tidy(Current)
         /\ Current \in Seq(Steps) /\ Len(Current) \in Nat \ {0}
         /\ ThreadInStep => at \in 1..Len(Current) /\ CurrentStep \in Steps
                            /\ CurrentStep = Current[at]
<1>1. name \in Names /\ failing \in 0..6
  BY DEF TypeOK, Idle
<1>2. Tidy(Current) /\ Len(Current) > 0
  BY <1>1, TidyCommands DEF Current
<1>3. Current \in Seq(Steps)
  BY <1>2 DEF Tidy
<1>4. Len(Current) \in Nat \ {0}
  BY <1>2, <1>3
<1>5. CurrentStep = Current[at]
  BY DEF CurrentStep, Current
<1>6. ThreadInStep => at \in 1..Len(Current)
  BY DEF ThreadInStep
<1> QED
  BY <1>1, <1>2, <1>3, <1>4, <1>5, <1>6

LEMMA Numbers ==
  ASSUME TypeOK
  PROVE  /\ sent \in Nat /\ taken \in Nat /\ MaxCommands \in Nat
         /\ commands \in 0..MaxCommands /\ timeOuts \in 0..MaxCommands
         /\ commands \in Nat /\ timeOuts \in Nat
<1>1. /\ sent \in Nat /\ taken \in Nat
      /\ commands \in 0..MaxCommands /\ timeOuts \in 0..MaxCommands
  BY DEF TypeOK
<1> QED
  BY <1>1, MTCCommandsAssumption

LEMMA Queues ==
  ASSUME TypeOK
  PROVE  /\ toSbc \in Seq(Request) /\ fromSbc \in Seq(Answer) /\ fRecvQueue \in Seq(Answer)
         /\ \A i \in 1..Len(toSbc) : toSbc[i] \in Request /\ toSbc[i].id \in Nat
         /\ \A i \in 1..Len(fromSbc) : fromSbc[i] \in Answer /\ fromSbc[i].id \in Nat
         /\ \A i \in 1..Len(fRecvQueue) : fRecvQueue[i] \in Answer /\ fRecvQueue[i].id \in Nat
<1>1. toSbc \in Seq(Request) /\ fromSbc \in Seq(Answer) /\ fRecvQueue \in Seq(Answer)
  BY DEF TypeOK
<1>2. \A r \in Request : r.id \in Nat
  BY DEF Request
<1>3. \A a \in Answer : a.id \in Nat
  BY DEF Answer
<1> QED
  BY <1>1, <1>2, <1>3

LEMMA IInvInit == Init => IInv
<1> SUFFICES ASSUME Init PROVE IInv
  OBVIOUS
<1>1. \A S : <<>> \in Seq(S)
  OBVIOUS
<1>2. \A S \in SUBSET ControlBits : [r \in Registers |-> IF r = "control" THEN S ELSE {}]
        \in [Registers -> Value]
  BY DEF Value, Bits
<1>3. registers \in [Registers -> Value]
  BY <1>2 DEF Init, ControlBits
<1>4. Idle /\ "none" \in Names \cup {"none"}
  BY DEF Init, Idle
<1>5. {} \in Value /\ FALSE \in BOOLEAN
  BY DEF Value
<1>6. TypeOK
  <2>1. toSbc \in Seq(Request) /\ fromSbc \in Seq(Answer) /\ fRecvQueue \in Seq(Answer)
    BY <1>1 DEF Init
  <2>2. /\ name \in Names \cup {"none"} /\ failing \in 0..6
        /\ at \in 0..(IF Idle THEN 0 ELSE Len(RequestsOf[name][failing]))
    BY <1>4 DEF Init
  <2>3. waiting \in BOOLEAN /\ temp \in Value /\ outcome \in {"none", "ok", "timed out", "terminated"}
    BY <1>5 DEF Init
  <2>4. sent \in Nat /\ taken \in Nat
        /\ commands \in 0..MaxCommands /\ timeOuts \in 0..MaxCommands
    BY MTCCommandsAssumption DEF Init
  <2> QED
    BY <1>3, <2>1, <2>2, <2>3, <2>4 DEF TypeOK
<1>7. Len(toSbc) = 0 /\ Len(fromSbc) = 0 /\ Len(fRecvQueue) = 0
  BY DEF Init
<1>8. AnswersInOrder
  BY <1>7 DEF AnswersInOrder, Sorted, Ahead, Between
<1>9. ThreadInStep /\ Lag
  BY <1>4 DEF ThreadInStep, Lag, Init
<1>10. TimeOutsCounted
  BY <1>4 DEF TimeOutsCounted, Init
<1> QED
  BY <1>6, <1>8, <1>9, <1>10 DEF IInv

LEMMA StartCommandIInv ==
  ASSUME IInv, NEW n \in Names, StartCommand(n)
  PROVE  IInv'
<1>1. TypeOK /\ n # "none" /\ Idle
  BY MTCCommandsAssumption DEF IInv, StartCommand
<1>2. failing' \in 0..6 /\ ~Idle' /\ name' = n
  BY <1>1 DEF StartCommand, Idle
<1>3. Tidy(Current') /\ Len(Current') > 0 /\ Current' = RequestsOf[name'][failing']
  BY <1>2, TidyCommands DEF Current
<1>4. Len(Current') \in Nat
  BY <1>3 DEF Tidy
<1>5. /\ at' = 1 /\ at' \in 1..Len(Current')
      /\ commands' = commands + 1 /\ commands' \in 0..MaxCommands
  <2>1. at' = 1 /\ commands' = commands + 1 /\ commands < MaxCommands
    BY DEF StartCommand
  <2> QED
    BY <1>1, <1>3, <1>4, <2>1, Numbers
<1>6. UNCHANGED <<registers, wire, fRecvQueue, waiting, temp, sent, taken, timeOuts>>
      /\ outcome' = "none"
  BY DEF StartCommand
<1>7. at' \in 0..(IF Idle' THEN 0 ELSE Len(RequestsOf[name'][failing']))
  BY <1>2, <1>3, <1>4, <1>5
<1>8. TypeOK'
  BY <1>1, <1>2, <1>5, <1>6, <1>7 DEF TypeOK, wire
<1>9. ThreadInStep'
  BY <1>2, <1>5 DEF ThreadInStep
<1>10. TimeOutsCounted'
  <2>1. timeOuts \in Nat /\ commands \in Nat /\ timeOuts <= commands
    BY <1>1, Numbers DEF IInv, TimeOutsCounted
  <2> QED
    BY <1>2, <1>5, <1>6, <2>1 DEF TimeOutsCounted
<1>11. AnswersInOrder' /\ Lag'
  BY <1>6 DEF IInv, AnswersInOrder, Sorted, Ahead, Between, Lag, wire
<1> QED
  BY <1>8, <1>9, <1>10, <1>11 DEF IInv

\* The request that RegRead or RegWrite puts together.
NewRequest ==
  [op |-> CurrentStep.op, reg |-> CurrentStep.reg, id |-> sent + 1,
   value |-> (temp \ CurrentStep.clear) \cup CurrentStep.set]

LEMMA SendPacketIInv ==
  ASSUME IInv, SendPacket
  PROVE  IInv'
<1>1. TypeOK /\ ThreadInStep /\ ~Idle /\ ~waiting
  BY DEF IInv, SendPacket
<1>2. CurrentStep \in Steps
  BY <1>1, CommandSteps
<1>3. NewRequest \in Request /\ NewRequest.id = sent + 1
  <2>1. temp \in Value /\ sent \in Nat
    BY <1>1 DEF TypeOK
  <2>2. /\ CurrentStep.op \in {"read", "write"} /\ CurrentStep.reg \in Registers
        /\ CurrentStep.clear \in Value /\ CurrentStep.set \in Value
    BY <1>2 DEF Steps
  <2>3. (temp \ CurrentStep.clear) \cup CurrentStep.set \in Value
    BY <2>1, <2>2 DEF Value
  <2> QED
    BY <2>1, <2>2, <2>3 DEF NewRequest, Request
<1>4. /\ toSbc' = Append(toSbc, NewRequest) /\ sent' = sent + 1 /\ waiting' = TRUE
      /\ UNCHANGED <<registers, fromSbc, fRecvQueue, name, failing, commands, at, temp,
                     outcome, taken, timeOuts>>
  BY DEF SendPacket, NewRequest, session
<1> DEFINE e == NewRequest
<1> HIDE DEF e
<1>5. /\ toSbc \in Seq(Request) /\ fromSbc \in Seq(Answer) /\ fRecvQueue \in Seq(Answer)
      /\ sent \in Nat /\ taken \in Nat /\ timeOuts \in Nat
      /\ \A i \in 1..Len(toSbc) : toSbc[i].id \in Nat
      /\ \A i \in 1..Len(fromSbc) : fromSbc[i].id \in Nat
      /\ \A i \in 1..Len(fRecvQueue) : fRecvQueue[i].id \in Nat
  BY <1>1, Numbers, Queues
<1>6. toSbc' \in Seq(Request)
  BY <1>3, <1>4, <1>5, AppendElements
<1>7. TypeOK'
  <2>1. waiting' \in BOOLEAN
    BY <1>4
  <2>2. sent' \in Nat
    BY <1>4, <1>5
  <2> QED
    BY <1>1, <1>4, <1>6, <2>1, <2>2 DEF TypeOK, Idle
<1>8. ThreadInStep' /\ TimeOutsCounted'
  BY <1>1, <1>4 DEF IInv, ThreadInStep, TimeOutsCounted, Idle, Current
<1>9. Lag'
  BY <1>1, <1>4, <1>5 DEF IInv, Lag
<1>10. AnswersInOrder'
  <2>1. e \in Request /\ e.id = sent + 1 /\ toSbc' = Append(toSbc, e)
    BY <1>3, <1>4 DEF e
  <2>2. Len(<<e>>) = 1 /\ <<e>>[1] = e
    OBVIOUS
  <2>3. Between(toSbc) /\ Between(fromSbc) /\ Between(fRecvQueue)
    BY DEF IInv, AnswersInOrder
  <2>4. Ahead(toSbc, <<e>>) /\ Ahead(fromSbc, <<e>>) /\ Ahead(fRecvQueue, <<e>>)
    BY <1>5, <2>1, <2>2, <2>3 DEF Between, Ahead
  <2>5. Sorted(Append(toSbc, e)) /\ Ahead(fromSbc, Append(toSbc, e))
        /\ Ahead(fRecvQueue, Append(toSbc, e))
    BY <1>5, <2>1, <2>4, OrderOfAppend DEF IInv, AnswersInOrder
  <2>6. Between(toSbc)' /\ Between(fromSbc)' /\ Between(fRecvQueue)'
    <3>1. Between(toSbc)'
      <4> SUFFICES ASSUME NEW i \in 1..Len(toSbc')
                   PROVE  taken < toSbc'[i].id /\ toSbc'[i].id <= sent + 1
        BY <1>4 DEF Between
      <4>1. CASE i \in 1..Len(toSbc) /\ toSbc'[i] = toSbc[i]
        BY <1>5, <2>3, <4>1 DEF Between
      <4>2. CASE toSbc'[i] = e
        BY <1>5, <2>1, <4>2 DEF IInv, Lag
      <4> QED
        BY <1>5, <2>1, <4>1, <4>2, AppendElements
    <3>2. Between(fromSbc)' /\ Between(fRecvQueue)'
      BY <1>4, <1>5, <2>3 DEF Between
    <3> QED
      BY <3>1, <3>2
  <2> QED
    BY <1>4, <2>1, <2>5, <2>6 DEF IInv, AnswersInOrder, Sorted, Ahead
<1> QED
  BY <1>7, <1>8, <1>9, <1>10 DEF IInv

LEMMA GetNextPacketIInv ==
  ASSUME IInv, GetNextPacket
  PROVE  IInv'
<1> DEFINE h == Head(fRecvQueue)
<1>1. TypeOK /\ ThreadInStep /\ waiting /\ ~Idle /\ fRecvQueue # <<>>
  BY DEF IInv, GetNextPacket, ThreadInStep
<1>2. /\ fRecvQueue' = Tail(fRecvQueue) /\ taken' = h.id
      /\ temp' \in {h.value, temp}
      /\ UNCHANGED <<registers, toSbc, fromSbc, sent, timeOuts, commands>>
  BY DEF GetNextPacket, Popped, Leave, wire, session
<1>3. h \in Answer /\ fRecvQueue' \in Seq(Answer) /\ h = fRecvQueue[1]
      /\ 1 \in 1..Len(fRecvQueue)
  BY <1>1, <1>2, Queues, TailElements
<1>4. h.id \in Nat /\ h.value \in Value
  BY <1>3 DEF Answer
<1> HIDE DEF h
<1>5. ASSUME LastStep
      PROVE  TypeOK' /\ ThreadInStep' /\ TimeOutsCounted' /\ waiting' = FALSE
  <2>1. /\ name' = "none" /\ failing' = 0 /\ at' = 0 /\ waiting' = FALSE
        /\ outcome' = "ok"
    BY <1>5 DEF GetNextPacket, Leave
  <2>2. Idle'
    BY <2>1 DEF Idle
  <2>3. temp' \in Value /\ taken' \in Nat
    BY <1>1, <1>2, <1>4 DEF TypeOK
  <2>4. at' \in 0..(IF Idle' THEN 0 ELSE Len(RequestsOf[name'][failing']))
    BY <2>1, <2>2
  <2>5. TypeOK'
    <3>1. name' \in Names \cup {"none"} /\ outcome' \in {"none", "ok", "timed out", "terminated"}
      BY <2>1, Zenon
    <3>2. waiting' \in BOOLEAN
      BY <2>1, Zenon
    <3>3. failing' \in 0..6
      <4>1. failing' = 0
        BY <2>1
      <4> QED
        BY <4>1
    <3> QED
      BY <1>1, <1>2, <1>3, <2>3, <2>4, <3>1, <3>2, <3>3 DEF TypeOK
  <2>6. ThreadInStep'
    BY <2>1, <2>2 DEF ThreadInStep
  <2>7. TimeOutsCounted'
    BY <1>1, <1>2, <2>2, Numbers DEF IInv, TimeOutsCounted
  <2> QED
    BY <2>1, <2>5, <2>6, <2>7
<1>6. ASSUME ~LastStep
      PROVE  TypeOK' /\ ThreadInStep' /\ TimeOutsCounted' /\ waiting' = FALSE
  <2>1. /\ name' = name /\ failing' = failing /\ outcome' = outcome
        /\ at' = at + 1 /\ waiting' = FALSE
    BY <1>6 DEF GetNextPacket, session
  <2>2. ~Idle' /\ Current' = Current
    BY <1>1, <2>1 DEF Idle, Current
  <2>3. at \in 1..Len(Current) /\ at # Len(Current) /\ Len(Current) \in Nat
    BY <1>1, <1>6, CommandSteps DEF LastStep, Current
  <2>4. at' \in 1..Len(Current')
    BY <2>1, <2>2, <2>3
  <2>5. temp' \in Value /\ taken' \in Nat /\ waiting' \in BOOLEAN
    BY <1>1, <1>2, <1>4, <2>1 DEF TypeOK
  <2>6. at' \in 0..(IF Idle' THEN 0 ELSE Len(RequestsOf[name'][failing']))
    BY <2>2, <2>3, <2>4 DEF Current
  <2>7. /\ name' \in Names \cup {"none"} /\ failing' \in 0..6
        /\ outcome' \in {"none", "ok", "timed out", "terminated"}
    BY <1>1, <2>1 DEF TypeOK
  <2>8. TypeOK'
    BY <1>1, <1>2, <1>3, <2>5, <2>6, <2>7 DEF TypeOK
  <2>9. ThreadInStep' /\ TimeOutsCounted'
    BY <1>1, <1>2, <2>1, <2>2, <2>4 DEF IInv, ThreadInStep, TimeOutsCounted
  <2> QED
    BY <2>1, <2>8, <2>9
<1>7. waiting' = FALSE
  BY <1>5, <1>6
<1>8. taken < h.id /\ h.id <= sent
  BY <1>3 DEF IInv, AnswersInOrder, Between
<1>9. Lag'
  <2>1. sent \in Nat /\ taken \in Nat /\ timeOuts \in Nat /\ sent - taken <= timeOuts + 1
    BY <1>1, Numbers DEF IInv, Lag
  <2> QED
    BY <1>2, <1>4, <1>7, <1>8, <2>1 DEF Lag
<1>10. AnswersInOrder'
  <2>1. /\ Sorted(Tail(fRecvQueue)) /\ Ahead(<<h>>, Tail(fRecvQueue))
        /\ Ahead(Tail(fRecvQueue), toSbc) /\ Ahead(<<h>>, toSbc)
        /\ Ahead(Tail(fRecvQueue), fromSbc) /\ Ahead(<<h>>, fromSbc)
    BY <1>1, Queues, OrderOfTail DEF IInv, AnswersInOrder, h
  <2>2. Len(<<h>>) = 1 /\ <<h>>[1] = h
    OBVIOUS
  <2>3. \A i \in 1..Len(fRecvQueue') :
          h.id < fRecvQueue'[i].id /\ i + 1 \in 1..Len(fRecvQueue)
          /\ fRecvQueue'[i] = fRecvQueue[i + 1]
    BY <1>1, <1>2, <2>1, <2>2, Queues, TailElements DEF Ahead
  <2>4. Between(fRecvQueue)'
    BY <1>2, <2>3 DEF IInv, AnswersInOrder, Between
  <2>5. Between(toSbc)' /\ Between(fromSbc)'
    BY <1>2, <2>1, <2>2 DEF IInv, AnswersInOrder, Between, Ahead
  <2> QED
    BY <1>2, <2>1, <2>4, <2>5 DEF IInv, AnswersInOrder, Sorted, Ahead
<1> QED
  BY <1>5, <1>6, <1>9, <1>10 DEF IInv

LEMMA TimeOutIInv ==
  ASSUME IInv, TimeOut
  PROVE  IInv'
<1>1. TypeOK /\ ThreadInStep /\ waiting /\ ~Idle
  BY DEF IInv, TimeOut, ThreadInStep
<1>2. /\ name' = "none" /\ failing' = 0 /\ at' = 0 /\ waiting' = FALSE
      /\ outcome' \in {"terminated", "timed out"}
      /\ UNCHANGED <<registers, wire, fRecvQueue, commands, temp, sent, taken>>
  BY DEF TimeOut, Leave
<1>3. timeOuts' = timeOuts + 1
  BY DEF TimeOut
<1>4. Idle'
  BY <1>2 DEF Idle
<1>8. timeOuts \in Nat /\ commands \in 0..MaxCommands /\ MaxCommands \in Nat
      /\ timeOuts + 1 <= commands /\ sent \in Nat /\ taken \in Nat
      /\ taken <= sent /\ sent - taken <= timeOuts + 1
  BY <1>1, Numbers DEF IInv, TimeOutsCounted, Lag
<1>9. TypeOK'
  <2>1. timeOuts' \in 0..MaxCommands
    BY <1>3, <1>8
  <2>2. at' \in 0..(IF Idle' THEN 0 ELSE Len(RequestsOf[name'][failing']))
    <3>1. at' = 0
      BY <1>2
    <3> QED
      BY <1>4, <3>1
  <2>3. /\ name' \in Names \cup {"none"} /\ waiting' \in BOOLEAN
        /\ outcome' \in {"none", "ok", "timed out", "terminated"}
    BY <1>2, Zenon
  <2>5. failing' \in 0..6
    <3>1. failing' = 0
      BY <1>2
    <3> QED
      BY <3>1
  <2>4. UNCHANGED <<registers, toSbc, fromSbc, fRecvQueue, commands, temp, sent, taken>>
    BY <1>2 DEF wire
  <2> QED
    BY <1>1, <2>1, <2>2, <2>3, <2>4, <2>5 DEF TypeOK
<1>5. ThreadInStep'
  BY <1>2, <1>4 DEF ThreadInStep
<1>6. TimeOutsCounted' /\ Lag'
  <2>1. commands' = commands /\ sent' = sent /\ taken' = taken /\ waiting' = FALSE
    BY <1>2
  <2>2. TimeOutsCounted'
    BY <1>3, <1>4, <1>8, <2>1 DEF TimeOutsCounted
  <2>3. Lag'
    BY <1>3, <1>8, <2>1 DEF Lag
  <2> QED
    BY <2>2, <2>3
<1>7. AnswersInOrder'
  BY <1>2 DEF IInv, AnswersInOrder, Sorted, Ahead, Between, wire
<1> QED
  BY <1>9, <1>5, <1>6, <1>7 DEF IInv

\* What the SBC does to a register and what it answers.
ValueFor(r) == IF r.op = "read" THEN registers[r.reg] ELSE r.value
AnswerFor(r) == [value |-> ValueFor(r), id |-> r.id]

LEMMA SbcAnswersIInv ==
  ASSUME IInv, SbcAnswers
  PROVE  IInv'
<1> DEFINE h == Head(toSbc)
           e == AnswerFor(h)
<1>1. TypeOK /\ toSbc # <<>>
  BY DEF IInv, SbcAnswers
<1>2. /\ toSbc' = Tail(toSbc) /\ fromSbc' = Append(fromSbc, e)
      /\ registers' = [registers EXCEPT ![h.reg] = ValueFor(h)]
      /\ UNCHANGED <<fRecvQueue, name, failing, commands, at, waiting, temp, outcome, sent,
                     taken, timeOuts>>
  BY DEF SbcAnswers, AnswerFor, ValueFor, session
<1>3. h \in Request /\ toSbc' \in Seq(Request) /\ h = toSbc[1] /\ 1 \in 1..Len(toSbc)
  BY <1>1, <1>2, Queues, TailElements
<1> HIDE DEF h
<1>4. registers \in [Registers -> Value] /\ h.reg \in Registers /\ h.value \in Value
      /\ h.id \in Nat
  BY <1>1, <1>3 DEF TypeOK, Request
<1>5. ValueFor(h) \in Value
  BY <1>4 DEF ValueFor
<1>6. e \in Answer /\ e.id = h.id
  BY <1>4, <1>5 DEF AnswerFor, Answer
<1> HIDE DEF e
<1>7. registers' \in [Registers -> Value]
  BY <1>2, <1>4, <1>5
<1>8. fromSbc' \in Seq(Answer)
  BY <1>1, <1>2, <1>6, Queues, AppendElements
<1>9. TypeOK'
  BY <1>1, <1>2, <1>3, <1>7, <1>8 DEF TypeOK, Idle
<1>10. ThreadInStep' /\ TimeOutsCounted' /\ Lag'
  BY <1>2 DEF IInv, ThreadInStep, TimeOutsCounted, Lag, Idle, Current
<1>11. AnswersInOrder'
  <2>1. /\ Sorted(Tail(toSbc)) /\ Ahead(<<h>>, Tail(toSbc))
        /\ Ahead(fromSbc, Tail(toSbc)) /\ Ahead(fromSbc, <<h>>)
        /\ Ahead(fRecvQueue, Tail(toSbc)) /\ Ahead(fRecvQueue, <<h>>)
    BY <1>1, Queues, OrderOfTail DEF IInv, AnswersInOrder, h
  <2>2. /\ Len(<<h>>) = 1 /\ <<h>>[1] = h /\ Len(<<e>>) = 1 /\ <<e>>[1] = e
    OBVIOUS
  <2>3. /\ Ahead(<<e>>, Tail(toSbc)) /\ Ahead(fromSbc, <<e>>) /\ Ahead(fRecvQueue, <<e>>)
    BY <1>6, <2>1, <2>2 DEF Ahead
  <2>4. toSbc' \in Seq(Request) /\ fromSbc \in Seq(Answer) /\ fRecvQueue \in Seq(Answer)
    BY <1>1, <1>3, Queues
  <2>5. /\ Sorted(fromSbc) /\ Ahead(fRecvQueue, fromSbc) /\ Ahead(fromSbc, toSbc')
        /\ Ahead(<<e>>, toSbc')
    BY <1>2, <2>1, <2>3 DEF IInv, AnswersInOrder
  <2>6. /\ Sorted(Append(fromSbc, e)) /\ Ahead(Append(fromSbc, e), toSbc')
        /\ Ahead(fRecvQueue, Append(fromSbc, e))
    BY <1>6, <2>3, <2>4, <2>5, OrderOfAppend
  <2>7. \A i \in 1..Len(toSbc') : i + 1 \in 1..Len(toSbc) /\ toSbc'[i] = toSbc[i + 1]
    BY <1>1, <1>2, Queues, TailElements
  <2>8. Between(toSbc)'
    BY <1>2, <2>7 DEF IInv, AnswersInOrder, Between
  <2>9. \A i \in 1..Len(fromSbc') :
          (i \in 1..Len(fromSbc) /\ fromSbc'[i] = fromSbc[i]) \/ fromSbc'[i] = e
    BY <1>2, <1>6, <2>4, AppendElements
  <2>10. taken < e.id /\ e.id <= sent
    BY <1>3, <1>6 DEF IInv, AnswersInOrder, Between
  <2>11. Between(fromSbc)'
    BY <1>2, <2>9, <2>10 DEF IInv, AnswersInOrder, Between
  <2>12. Between(fRecvQueue)'
    BY <1>2 DEF IInv, AnswersInOrder, Between
  <2> QED
    BY <1>2, <2>1, <2>6, <2>8, <2>11, <2>12 DEF IInv, AnswersInOrder, Sorted, Ahead
<1> QED
  BY <1>9, <1>10, <1>11 DEF IInv

LEMMA RecvCallbackIInv ==
  ASSUME IInv, RecvCallback
  PROVE  IInv'
<1> DEFINE h == Head(fromSbc)
<1>1. TypeOK /\ fromSbc # <<>>
  BY DEF IInv, RecvCallback
<1>2. /\ fromSbc' = Tail(fromSbc) /\ fRecvQueue' = Append(fRecvQueue, h)
      /\ UNCHANGED <<registers, toSbc, name, failing, commands, at, waiting, temp, outcome,
                     sent, taken, timeOuts>>
  BY DEF RecvCallback, session
<1>3. h \in Answer /\ fromSbc' \in Seq(Answer) /\ h = fromSbc[1] /\ 1 \in 1..Len(fromSbc)
  BY <1>1, <1>2, Queues, TailElements
<1>4. /\ Sorted(Tail(fromSbc)) /\ Ahead(<<h>>, Tail(fromSbc))
      /\ Ahead(Tail(fromSbc), toSbc) /\ Ahead(<<h>>, toSbc)
      /\ Ahead(fRecvQueue, Tail(fromSbc)) /\ Ahead(fRecvQueue, <<h>>)
  BY <1>1, Queues, OrderOfTail DEF IInv, AnswersInOrder
<1> HIDE DEF h
<1>5. fRecvQueue' \in Seq(Answer)
  BY <1>1, <1>2, <1>3, Queues, AppendElements
<1>6. TypeOK'
  BY <1>1, <1>2, <1>3, <1>5 DEF TypeOK, Idle
<1>7. ThreadInStep' /\ TimeOutsCounted' /\ Lag'
  BY <1>2 DEF IInv, ThreadInStep, TimeOutsCounted, Lag, Idle, Current
<1>8. AnswersInOrder'
  <2>1. toSbc \in Seq(Request) /\ fromSbc' \in Seq(Answer) /\ fRecvQueue \in Seq(Answer)
    BY <1>1, <1>3, Queues
  <2>2. /\ Sorted(fRecvQueue) /\ Ahead(fRecvQueue, toSbc) /\ Ahead(fRecvQueue, fromSbc')
        /\ Ahead(<<h>>, fromSbc')
    BY <1>2, <1>4 DEF IInv, AnswersInOrder
  <2>3. /\ Sorted(Append(fRecvQueue, h)) /\ Ahead(Append(fRecvQueue, h), toSbc)
        /\ Ahead(Append(fRecvQueue, h), fromSbc')
    BY <1>3, <1>4, <2>1, <2>2, OrderOfAppend
  <2>4. \A i \in 1..Len(fromSbc') : i + 1 \in 1..Len(fromSbc) /\ fromSbc'[i] = fromSbc[i + 1]
    BY <1>1, <1>2, Queues, TailElements
  <2>5. Between(fromSbc)'
    BY <1>2, <2>4 DEF IInv, AnswersInOrder, Between
  <2>6. \A i \in 1..Len(fRecvQueue') :
          (i \in 1..Len(fRecvQueue) /\ fRecvQueue'[i] = fRecvQueue[i]) \/ fRecvQueue'[i] = h
    BY <1>2, <1>3, <2>1, AppendElements
  <2>7. taken < h.id /\ h.id <= sent
    BY <1>3 DEF IInv, AnswersInOrder, Between
  <2>8. Between(fRecvQueue)'
    BY <1>2, <2>6, <2>7 DEF IInv, AnswersInOrder, Between
  <2>9. Between(toSbc)'
    BY <1>2 DEF IInv, AnswersInOrder, Between
  <2> QED
    BY <1>2, <1>4, <2>3, <2>5, <2>8, <2>9 DEF IInv, AnswersInOrder, Sorted, Ahead
<1> QED
  BY <1>6, <1>7, <1>8 DEF IInv

LEMMA SBCControlIInv ==
  ASSUME IInv, SBCControl
  PROVE  IInv'
<1>1. /\ toSbc' = <<>> /\ fromSbc' = <<>>
      /\ UNCHANGED <<registers, fRecvQueue, name, failing, commands, at, waiting, temp,
                     outcome, sent, taken, timeOuts>>
  BY DEF SBCControl, session
<1>2. \A S : <<>> \in Seq(S)
  OBVIOUS
<1>3. Len(toSbc') = 0 /\ Len(fromSbc') = 0
  BY <1>1
<1>4. TypeOK'
  BY <1>1, <1>2 DEF IInv, TypeOK, Idle
<1>5. ThreadInStep' /\ TimeOutsCounted' /\ Lag'
  BY <1>1 DEF IInv, ThreadInStep, TimeOutsCounted, Lag, Idle, Current
<1>6. AnswersInOrder'
  BY <1>1, <1>3 DEF IInv, AnswersInOrder, Sorted, Ahead, Between
<1> QED
  BY <1>4, <1>5, <1>6 DEF IInv

LEMMA IInvNext ==
  ASSUME IInv, [Next]_vars
  PROVE  IInv'
<1>1. CASE UNCHANGED vars
  BY <1>1 DEF IInv, TypeOK, ThreadInStep, TimeOutsCounted, AnswersInOrder, Sorted, Ahead,
              Between, Lag, Idle, Current, vars, wire, session
<1> QED
  BY <1>1, StartCommandIInv, SendPacketIInv, GetNextPacketIInv, TimeOutIInv,
     SbcAnswersIInv, RecvCallbackIInv, SBCControlIInv DEF Next

LEMMA SpecIInv == Spec => []IInv
  BY IInvInit, IInvNext, PTL DEF Spec

\* Whatever times out, the thread is always at a request of its command, and
\* registers, requests and answers hold what they can (MTCCommands!TypeOK).
THEOREM SpecTypeOK == Spec => []TypeOK
<1>1. IInv => TypeOK
  BY DEF IInv
<1> QED
  BY <1>1, SpecIInv, PTL

\* An answer is never taken by a request sent before its own, and the link slips
\* by one answer per time-out and never by more, through any reconnection of the
\* SBC (MTCModel::SendCommand).
THEOREM SpecLagsByTimeOuts == Spec => []LagsByTimeOuts
<1>1. IInv => LagsByTimeOuts
  <2> SUFFICES ASSUME IInv PROVE LagsByTimeOuts
    OBVIOUS
  <2>1. sent \in Nat /\ taken \in Nat /\ timeOuts \in Nat
    BY Numbers DEF IInv
  <2> QED
    BY <2>1 DEF IInv, Lag, LagsByTimeOuts
<1> QED
  BY <1>1, SpecIInv, PTL

-----------------------------------------------------------------------------
(***************************************************************************)
(* The registers, as long as nothing has timed out.                        *)
(***************************************************************************)
LEMMA HealthyInit == Init => HealthyInv
<1> SUFFICES ASSUME Init PROVE HealthyInv
  OBVIOUS
<1>1. Idle /\ waiting = FALSE /\ Len(toSbc) = 0
  BY DEF Init, Idle
<1>2. OneUnderWay
  BY DEF Init, OneUnderWay
<1>3. RequestIsCurrent /\ AnswerIsCurrent /\ ReadIsFresh /\ EffectsStand
  BY <1>1 DEF RequestIsCurrent, AnswerIsCurrent, ReadIsFresh, EffectsStand
<1>4. StrayIsCleared
  <2>1. \A r \in Registers : r # "control" => registers[r] = {}
    BY DEF Init
  <2>2. registers["control"] \subseteq {"PULSE_EN", "PED_EN"}
    <3>1. PICK left \in SUBSET {"PULSE_EN", "PED_EN"} :
            registers = [r \in Registers |-> IF r = "control" THEN left ELSE {}]
      BY DEF Init
    <3>2. registers["control"] = left
      BY <3>1 DEF Registers
    <3> QED
      BY <3>2
  <2>3. \A r \in Registers : registers[r] \cap Stray(r) = {}
    BY <2>1, <2>2 DEF Stray
  <2> QED
    BY <2>3 DEF StrayIsCleared
<1> QED
  BY <1>2, <1>3, <1>4 DEF HealthyInv

LEMMA HealthyStart ==
  ASSUME IInv, HealthyInv, NEW n \in Names, StartCommand(n), Healthy
  PROVE  HealthyInv'
<1>1. TypeOK /\ Idle /\ ~waiting /\ n # "none"
  BY MTCCommandsAssumption DEF IInv, StartCommand, ThreadInStep
<1>2. /\ ~Idle' /\ at' = 1
      /\ UNCHANGED <<registers, toSbc, fromSbc, fRecvQueue, waiting>>
  BY <1>1 DEF StartCommand, Idle, wire
<1>3. toSbc = <<>> /\ fromSbc = <<>> /\ fRecvQueue = <<>>
  BY <1>1 DEF HealthyInv, OneUnderWay
<1>4. ~Done' /\ NextStep' = 1
  BY <1>1, <1>2 DEF Done, NextStep
<1>5. OneUnderWay' /\ AnswerIsCurrent'
  BY <1>1, <1>2, <1>3 DEF OneUnderWay, AnswerIsCurrent
<1>6. RequestIsCurrent'
  <2>1. Len(toSbc') = 0
    BY <1>2, <1>3
  <2> QED
    BY <2>1 DEF RequestIsCurrent
<1>7. ReadIsFresh' /\ EffectsStand'
  BY <1>2, <1>4 DEF ReadIsFresh, EffectsStand
<1>8. \A r \in Registers : registers[r] \cap Stray(r) = {}
  BY <1>1 DEF HealthyInv, StrayIsCleared
<1>9. StrayIsCleared'
  BY <1>2, <1>8 DEF StrayIsCleared
<1> QED
  BY <1>5, <1>6, <1>7, <1>9 DEF HealthyInv

LEMMA HealthySend ==
  ASSUME IInv, HealthyInv, SendPacket, Healthy
  PROVE  HealthyInv'
<1>1. TypeOK /\ ~Idle /\ ~waiting /\ at \in Nat
  <2>1. ~Idle /\ ~waiting /\ TypeOK
    BY DEF IInv, SendPacket
  <2>2. at \in 1..Len(Current) /\ Len(Current) \in Nat
    BY <2>1, CommandSteps DEF IInv
  <2> QED
    BY <2>1, <2>2
<1>2. /\ toSbc' = Append(toSbc, NewRequest) /\ waiting' = TRUE
      /\ UNCHANGED <<registers, fromSbc, fRecvQueue, name, failing, at, temp>>
  BY DEF SendPacket, NewRequest, session
<1>3. toSbc = <<>> /\ fromSbc = <<>> /\ fRecvQueue = <<>>
  BY <1>1 DEF HealthyInv, OneUnderWay
<1>4. Len(toSbc') = 1 /\ toSbc'[1] = NewRequest /\ toSbc' # <<>>
      /\ Len(fromSbc) = 0 /\ Len(fRecvQueue) = 0
  BY <1>2, <1>3
<1>5. ~Done' /\ ~Done /\ NextStep' = NextStep /\ ~Idle' /\ Current' = Current
      /\ CurrentStep' = CurrentStep
  BY <1>1, <1>2, <1>4 DEF Done, NextStep, Idle, Current, CurrentStep
<1>6. OneUnderWay'
  BY <1>2, <1>3, <1>4 DEF OneUnderWay
<1>7. RequestIsCurrent'
  <2>1. /\ NewRequest.op = CurrentStep.op /\ NewRequest.reg = CurrentStep.reg
        /\ NewRequest.value = (temp \ CurrentStep.clear) \cup CurrentStep.set
    BY DEF NewRequest
  <2>2. \A i \in 1..Len(toSbc') : toSbc'[i] = NewRequest
    BY <1>4
  <2> QED
    BY <1>2, <1>5, <2>1, <2>2 DEF RequestIsCurrent
<1>8. AnswerIsCurrent'
  BY <1>2, <1>4 DEF AnswerIsCurrent
<1>9. ReadIsFresh'
  BY <1>2, <1>5, <1>1 DEF HealthyInv, ReadIsFresh
<1>10. StrayIsCleared' /\ EffectsStand'
  BY <1>2, <1>5, <1>1 DEF HealthyInv, StrayIsCleared, EffectsStand
<1> QED
  BY <1>6, <1>7, <1>8, <1>9, <1>10 DEF HealthyInv

\* The command goes on with the registers as its requests have left them, and the
\* last step leaves nothing stray.
LEMMA HealthyGetNext ==
  ASSUME IInv, HealthyInv, GetNextPacket, Healthy
  PROVE  HealthyInv'
<1>1. TypeOK /\ ~Idle /\ waiting = TRUE /\ fRecvQueue # <<>>
  BY DEF IInv, GetNextPacket, ThreadInStep, TypeOK
<1>2. at \in 1..Len(Current) /\ Len(Current) \in Nat /\ CurrentStep = Current[at]
      /\ CurrentStep \in Steps
  BY <1>1, CommandSteps DEF IInv
<1>3. toSbc = <<>> /\ fromSbc = <<>> /\ Len(fRecvQueue) = 1
  BY <1>1 DEF HealthyInv, OneUnderWay
<1>4. Done /\ NextStep = at + 1
  BY <1>1, <1>3 DEF Done, NextStep
<1>5. /\ fRecvQueue' = Tail(fRecvQueue)
      /\ temp' = IF CurrentStep.op = "read" THEN Head(fRecvQueue).value ELSE temp
      /\ UNCHANGED <<registers, toSbc, fromSbc>>
  BY DEF GetNextPacket, Popped, wire
<1>6. fRecvQueue' = <<>> /\ Head(fRecvQueue) = fRecvQueue[1] /\ 1 \in 1..Len(fRecvQueue)
  <2>1. fRecvQueue \in Seq(Answer)
    BY <1>1, Queues
  <2>2. Tail(fRecvQueue) \in Seq(Answer) /\ Len(Tail(fRecvQueue)) = 0
    BY <1>1, <1>3, <2>1, TailElements
  <2> QED
    BY <1>1, <1>5, <2>1, <2>2, TailElements, EmptySeq
<1>7. waiting' = FALSE
  BY DEF GetNextPacket, Leave
<1>8. OneUnderWay' /\ AnswerIsCurrent'
  BY <1>3, <1>5, <1>6, <1>7 DEF OneUnderWay, AnswerIsCurrent
<1>9. RequestIsCurrent'
  <2>1. Len(toSbc') = 0
    BY <1>3, <1>5
  <2> QED
    BY <2>1 DEF RequestIsCurrent
<1>10. ASSUME LastStep PROVE ReadIsFresh' /\ StrayIsCleared' /\ EffectsStand'
  <2>1. Idle'
    BY <1>10 DEF GetNextPacket, Leave, Idle
  <2>2. NextStep = Len(Current) + 1
    BY <1>2, <1>4, <1>10 DEF LastStep, Current
  <2>3. NextStep..Len(Current) = {}
    BY <1>2, <2>2
  <2>4. \A r \in Registers : registers[r] \cap Stray(r) = {}
    BY <2>3 DEF HealthyInv, StrayIsCleared
  <2> QED
    BY <1>5, <2>1, <2>4 DEF ReadIsFresh, StrayIsCleared, EffectsStand
<1>11. ASSUME ~LastStep PROVE ReadIsFresh' /\ StrayIsCleared' /\ EffectsStand'
  <2>1. name' = name /\ failing' = failing /\ at' = at + 1
    BY <1>11 DEF GetNextPacket, session
  <2>2. ~Idle' /\ Current' = Current /\ ~Done'
    BY <1>1, <1>7, <2>1 DEF Idle, Current, Done
  <2>3. NextStep' = NextStep
    BY <1>4, <2>1, <2>2 DEF NextStep
  <2>4. StrayIsCleared' /\ EffectsStand'
    BY <1>1, <1>5, <2>2, <2>3 DEF HealthyInv, StrayIsCleared, EffectsStand
  <2>5. at' - 1 = at
    BY <1>2, <2>1
  <2>6. CurrentStep.op = "read" => Head(fRecvQueue).value = registers[CurrentStep.reg]
    BY <1>1, <1>6 DEF HealthyInv, AnswerIsCurrent
  <2>7. Current[at].op = "read" => temp' = registers'[Current[at].reg]
    BY <1>2, <1>5, <2>6
  <2>8. ReadIsFresh'
    BY <2>2, <2>5, <2>7 DEF ReadIsFresh
  <2> QED
    BY <2>4, <2>8
<1> QED
  BY <1>8, <1>9, <1>10, <1>11 DEF HealthyInv

\* A request reaches the registers: a bit it sets is set, a bit it clears is
\* cleared, and every other bit is as it was, though the request carries the whole
\* register, because what it carries has just been read.
LEMMA RegisterStep ==
  ASSUME IInv, HealthyInv, SbcAnswers, Healthy
  PROVE  /\ ~Idle /\ waiting = TRUE /\ Len(toSbc) = 1 /\ fromSbc = <<>> /\ fRecvQueue = <<>>
         /\ toSbc' = <<>> /\ Len(fromSbc') = 1
         /\ CurrentStep.op = "read" =>
              registers' = registers /\ fromSbc'[1].value = registers[CurrentStep.reg]
         /\ \A r \in Registers, b \in Bits :
              /\ Sets(CurrentStep, r, b) => b \in registers'[r]
              /\ Clears(CurrentStep, r, b) => b \notin registers'[r]
              /\ ~Sets(CurrentStep, r, b) /\ ~Clears(CurrentStep, r, b)
                   => (b \in registers'[r] <=> b \in registers[r])
<1> DEFINE c == CurrentStep
           h == Head(toSbc)
<1>1. TypeOK /\ toSbc # <<>>
  BY DEF IInv, SbcAnswers
<1>2. waiting = TRUE /\ Len(toSbc) = 1 /\ fromSbc = <<>> /\ fRecvQueue = <<>>
  BY <1>1 DEF HealthyInv, OneUnderWay, TypeOK
<1>3. ~Idle
  BY <1>2 DEF IInv, ThreadInStep
<1>4. /\ at \in 1..Len(Current) /\ Len(Current) \in Nat /\ c = Current[at] /\ c \in Steps
      /\ Tidy(Current)
  BY <1>1, <1>3, CommandSteps DEF IInv
<1>5. h \in Request /\ h = toSbc[1] /\ 1 \in 1..Len(toSbc) /\ toSbc' = <<>>
  <2>1. toSbc \in Seq(Request)
    BY <1>1, Queues
  <2>2. Tail(toSbc) \in Seq(Request) /\ Len(Tail(toSbc)) = 0
    BY <1>1, <1>2, <2>1, TailElements
  <2> QED
    BY <1>1, <2>1, <2>2, TailElements, EmptySeq DEF SbcAnswers
<1>6. h.op = c.op /\ h.reg = c.reg /\ h.value = (temp \ c.clear) \cup c.set
  BY <1>5 DEF HealthyInv, RequestIsCurrent
<1>7. /\ registers' = [registers EXCEPT ![h.reg] = ValueFor(h)]
      /\ fromSbc' = Append(fromSbc, AnswerFor(h))
  BY DEF SbcAnswers, ValueFor, AnswerFor
<1> HIDE DEF h, c
<1>8. Len(fromSbc') = 1 /\ fromSbc'[1] = AnswerFor(h)
  BY <1>2, <1>7
<1>9. /\ registers \in [Registers -> Value] /\ c.reg \in Registers /\ temp \in Value
      /\ c.op \in {"read", "write"}
  BY <1>1, <1>4 DEF TypeOK, Steps
<1>10. CASE c.op = "read"
  <2>1. ValueFor(h) = registers[c.reg] /\ fromSbc'[1].value = registers[c.reg]
    BY <1>6, <1>8, <1>10 DEF ValueFor, AnswerFor
  <2>2. registers' = registers
    BY <1>6, <1>7, <1>9, <2>1
  <2>3. \A r, b : ~Sets(c, r, b) /\ ~Clears(c, r, b)
    BY <1>10 DEF Sets, Clears
  <2> QED
    BY <1>2, <1>3, <1>5, <1>8, <2>1, <2>2, <2>3 DEF c
<1>11. CASE c.op = "write"
  <2>1. ValueFor(h) = (temp \ c.clear) \cup c.set
    BY <1>6, <1>11 DEF ValueFor
  <2>2. registers'[c.reg] = (temp \ c.clear) \cup c.set
    BY <1>6, <1>7, <1>9, <2>1
  <2>3. \A r \in Registers : r # c.reg => registers'[r] = registers[r]
    BY <1>6, <1>7, <1>9
  <2>4. \A b \in Bits : b \notin c.clear => temp = registers[c.reg]
    <3> SUFFICES ASSUME NEW b \in Bits, b \notin c.clear PROVE temp = registers[c.reg]
      OBVIOUS
    <3>1. at > 1 /\ Current[at - 1].op = "read" /\ Current[at - 1].reg = c.reg
      BY <1>4, <1>11 DEF Tidy
    <3>2. ~Done
      BY <1>1 DEF Done
    <3> QED
      BY <1>3, <3>1, <3>2 DEF HealthyInv, ReadIsFresh
  <2>5. ASSUME NEW r \in Registers, NEW b \in Bits
        PROVE  /\ Sets(c, r, b) => b \in registers'[r]
               /\ Clears(c, r, b) => b \notin registers'[r]
               /\ ~Sets(c, r, b) /\ ~Clears(c, r, b)
                    => (b \in registers'[r] <=> b \in registers[r])
    <3>1. CASE r = c.reg
      BY <1>11, <2>2, <2>4, <3>1 DEF Sets, Clears
    <3>2. CASE r # c.reg
      BY <2>3, <3>2 DEF Sets, Clears
    <3> QED
      BY <3>1, <3>2
  <2> QED
    BY <1>2, <1>3, <1>5, <1>8, <1>11, <2>5 DEF c
<1> QED
  BY <1>9, <1>10, <1>11

LEMMA HealthySbcAnswers ==
  ASSUME IInv, HealthyInv, SbcAnswers, Healthy
  PROVE  HealthyInv'
<1>1. /\ ~Idle /\ waiting = TRUE /\ Len(toSbc) = 1 /\ fromSbc = <<>> /\ fRecvQueue = <<>>
      /\ toSbc' = <<>> /\ Len(fromSbc') = 1
      /\ CurrentStep.op = "read" =>
           registers' = registers /\ fromSbc'[1].value = registers[CurrentStep.reg]
  BY RegisterStep
<1>2. UNCHANGED <<fRecvQueue, name, failing, at, waiting, temp>>
  BY DEF SbcAnswers, session
<1>3. toSbc # <<>> /\ Len(toSbc') = 0 /\ Len(fRecvQueue) = 0
  BY <1>1 DEF SbcAnswers
<1>4. /\ ~Idle' /\ Current' = Current /\ CurrentStep' = CurrentStep
      /\ ~Done /\ NextStep = at /\ Done' /\ NextStep' = at + 1
  BY <1>1, <1>2, <1>3 DEF Idle, Current, CurrentStep, Done, NextStep
<1>5. TypeOK /\ at \in 1..Len(Current) /\ Len(Current) \in Nat /\ CurrentStep = Current[at]
      /\ Tidy(Current)
  BY <1>1, CommandSteps DEF IInv
<1>6. OneUnderWay'
  BY <1>1, <1>2 DEF OneUnderWay
<1>7. RequestIsCurrent' /\ ReadIsFresh'
  BY <1>3, <1>4 DEF RequestIsCurrent, ReadIsFresh
<1>8. AnswerIsCurrent'
  <2>1. \A i \in 1..Len(fromSbc') : i = 1
    BY <1>1
  <2> QED
    BY <1>1, <1>2, <1>3, <1>4, <2>1 DEF AnswerIsCurrent
<1> DEFINE c == Current[at]
<1>9. \A r \in Registers, b \in Bits :
        /\ Sets(c, r, b) => b \in registers'[r]
        /\ Clears(c, r, b) => b \notin registers'[r]
        /\ ~Sets(c, r, b) /\ ~Clears(c, r, b) => (b \in registers'[r] <=> b \in registers[r])
  BY <1>5, RegisterStep
<1>10. StrayIsCleared'
  <2> SUFFICES ASSUME NEW r \in Registers, NEW b \in registers'[r] \cap Stray(r)
               PROVE  \E j \in (at + 1)..Len(Current) : Clears(Current[j], r, b)
    BY <1>4 DEF StrayIsCleared
  <2>1. b \in Bits
    BY StrayBits
  <2>2. CASE Sets(c, r, b)
    BY <1>5, <2>2 DEF Sets, Tidy
  <2>3. CASE ~Sets(c, r, b)
    <3>1. ~Clears(c, r, b) /\ b \in registers[r] \cap Stray(r)
      BY <1>9, <2>1, <2>3
    <3>2. PICK j \in at..Len(Current) : Clears(Current[j], r, b)
      BY <1>4, <3>1 DEF HealthyInv, StrayIsCleared
    <3>3. j # at
      BY <3>1, <3>2
    <3>4. j \in (at + 1)..Len(Current)
      BY <1>5, <3>3
    <3> QED
      BY <3>2, <3>4
  <2> QED
    BY <2>2, <2>3
<1>11. EffectsStand'
  <2> SUFFICES ASSUME NEW r \in Registers, NEW b \in Bits, NEW j \in 1..at
               PROVE  /\ Clears(Current[j], r, b) /\ (\A k \in (j + 1)..at : ~Sets(Current[k], r, b))
                           => b \notin registers'[r]
                      /\ Sets(Current[j], r, b) /\ (\A k \in (j + 1)..at : ~Clears(Current[k], r, b))
                           => b \in registers'[r]
    <3>1. NextStep' - 1 = at
      BY <1>4, <1>5
    <3> QED
      BY <1>4, <3>1 DEF EffectsStand
  <2>1. CASE j = at
    BY <1>9, <2>1
  <2>2. CASE j # at
    <3>1. /\ j \in 1..(at - 1) /\ at \in (j + 1)..at
          /\ (j + 1)..(at - 1) \subseteq (j + 1)..at
      BY <1>5, <2>2
    <3>2. NextStep - 1 = at - 1
      BY <1>4
    <3>3. /\ Clears(Current[j], r, b) /\ (\A k \in (j + 1)..(at - 1) : ~Sets(Current[k], r, b))
               => b \notin registers[r]
          /\ Sets(Current[j], r, b) /\ (\A k \in (j + 1)..(at - 1) : ~Clears(Current[k], r, b))
               => b \in registers[r]
      BY <1>1, <3>1, <3>2 DEF HealthyInv, EffectsStand
    <3> QED
      BY <1>9, <3>1, <3>3
  <2> QED
    BY <2>1, <2>2
<1> QED
  BY <1>6, <1>7, <1>8, <1>10, <1>11 DEF HealthyInv

LEMMA HealthyRecvCallback ==
  ASSUME IInv, HealthyInv, RecvCallback, Healthy
  PROVE  HealthyInv'
<1> DEFINE h == Head(fromSbc)
<1>1. TypeOK /\ fromSbc # <<>>
  BY DEF IInv, RecvCallback
<1>2. waiting = TRUE /\ toSbc = <<>> /\ Len(fromSbc) = 1 /\ fRecvQueue = <<>>
  BY <1>1 DEF HealthyInv, OneUnderWay, TypeOK
<1>3. fromSbc' = <<>> /\ h = fromSbc[1] /\ 1 \in 1..Len(fromSbc)
  <2>1. fromSbc \in Seq(Answer)
    BY <1>1, Queues
  <2>2. Tail(fromSbc) \in Seq(Answer) /\ Len(Tail(fromSbc)) = 0
    BY <1>1, <1>2, <2>1, TailElements
  <2> QED
    BY <1>1, <2>1, <2>2, TailElements, EmptySeq DEF RecvCallback
<1>4. fRecvQueue' = Append(fRecvQueue, h)
      /\ UNCHANGED <<registers, toSbc, name, failing, at, waiting, temp>>
  BY DEF RecvCallback, session
<1> HIDE DEF h
<1>5. Len(fRecvQueue') = 1 /\ fRecvQueue'[1] = h /\ Len(fromSbc') = 0 /\ Len(toSbc') = 0
  BY <1>2, <1>3, <1>4
<1>6. /\ Idle' = Idle /\ Current' = Current /\ CurrentStep' = CurrentStep
      /\ Done' = Done /\ NextStep' = NextStep
  BY <1>4 DEF Idle, Current, CurrentStep, Done, NextStep
<1>7. OneUnderWay'
  BY <1>2, <1>3, <1>4, <1>5 DEF OneUnderWay
<1>8. RequestIsCurrent'
  BY <1>5 DEF RequestIsCurrent
<1>9. AnswerIsCurrent'
  <2>1. CurrentStep.op = "read" => h.value = registers[CurrentStep.reg]
    BY <1>2, <1>3 DEF HealthyInv, AnswerIsCurrent
  <2>2. \A i \in 1..Len(fRecvQueue') : fRecvQueue'[i] = h
    BY <1>5
  <2> QED
    BY <1>4, <1>5, <1>6, <2>1, <2>2 DEF AnswerIsCurrent
<1>10. ReadIsFresh' /\ StrayIsCleared' /\ EffectsStand'
  BY <1>4, <1>6 DEF HealthyInv, ReadIsFresh, StrayIsCleared, EffectsStand
<1> QED
  BY <1>7, <1>8, <1>9, <1>10 DEF HealthyInv

LEMMA HealthySBCControl ==
  ASSUME IInv, HealthyInv, SBCControl, Healthy
  PROVE  HealthyInv'
<1>1. Idle /\ ~waiting /\ wire # <<<<>>, <<>>>>
  BY DEF IInv, ThreadInStep, SBCControl
<1>2. toSbc = <<>> /\ fromSbc = <<>>
  BY <1>1 DEF HealthyInv, OneUnderWay
<1> QED
  BY <1>1, <1>2 DEF wire

LEMMA HealthyNext ==
  ASSUME IInv, HealthyInv, [Next]_vars
  PROVE  HealthyInv'
<1>1. timeOuts \in Nat
  BY Numbers DEF IInv
<1>2. CASE ~Healthy'
  BY <1>2 DEF HealthyInv
<1>3. CASE Healthy' /\ Healthy
  <2>1. CASE UNCHANGED vars
    BY <2>1 DEF HealthyInv, Healthy, OneUnderWay, RequestIsCurrent, AnswerIsCurrent,
                ReadIsFresh, StrayIsCleared, EffectsStand, Idle, Done, NextStep, Current,
                CurrentStep, vars, wire, session
  <2>2. CASE TimeOut
    <3>1. timeOuts' = timeOuts + 1
      BY <2>2 DEF TimeOut
    <3> QED
      BY <1>1, <1>3, <3>1 DEF Healthy
  <2> QED
    BY <1>3, <2>1, <2>2, HealthyStart, HealthySend, HealthyGetNext, HealthySbcAnswers,
       HealthyRecvCallback, HealthySBCControl DEF Next
<1>4. CASE Healthy' /\ ~Healthy
  <2>1. timeOuts' # 0 \/ timeOuts' = timeOuts
    <3>1. timeOuts' = timeOuts + 1 \/ timeOuts' = timeOuts
      BY DEF Next, vars, StartCommand, SendPacket, GetNextPacket, TimeOut, SbcAnswers,
             RecvCallback, SBCControl
    <3> QED
      BY <1>1, <3>1
  <2> QED
    BY <1>4, <2>1 DEF Healthy
<1> QED
  BY <1>2, <1>3, <1>4

LEMMA SpecHealthyInv == Spec => [](IInv /\ HealthyInv)
  BY IInvInit, IInvNext, HealthyInit, HealthyNext, PTL DEF Spec

\* As long as nothing has timed out, no command leaves a load enable or a FIFO
\* reset behind it, or a bit in a register it does not belong to, whatever commands
\* came before it and whichever setting is out of range (the settings of MTCModel,
\* MTCInit).
THEOREM SpecNoStrayBits == Spec => []NoStrayBits
<1>1. IInv /\ HealthyInv => NoStrayBits
  <2> SUFFICES ASSUME IInv, HealthyInv, Healthy, Idle
               PROVE  /\ registers["control"] \subseteq {"PULSE_EN", "PED_EN"}
                      /\ registers["pmsk"] \cup registers["gmsk"] \subseteq CrateBits
                      /\ registers["mask"] \subseteq {"EXT8"}
    BY DEF NoStrayBits
  <2>1. \A r \in Registers : registers[r] \subseteq Bits
    BY DEF IInv, TypeOK, Value
  <2>2. \A r \in Registers : registers[r] \cap Stray(r) = {}
    BY DEF HealthyInv, StrayIsCleared
  <2>3. \A r \in Registers : registers[r] \subseteq Own(r)
    BY <2>1, <2>2 DEF Own
  <2> QED
    BY <2>3, OwnBits
<1> QED
  BY <1>1, SpecHealthyInv, PTL

-----------------------------------------------------------------------------
(***************************************************************************)
(* What the commands of the pedestals leave in the registers.              *)
(***************************************************************************)
LEMMA LeftByModify ==
  ASSUME NEW r \in Registers, NEW v \in SUBSET Bits, NEW c \in SUBSET Bits,
         NEW q \in Registers, NEW b \in Bits
  PROVE  /\ Modify(r, v, c) \in Seq(Steps)
         /\ q = r /\ b \in c \ v => LeavesOff(Modify(r, v, c), q, b)
         /\ q = r /\ b \in v => LeavesOn(Modify(r, v, c), q, b)
         /\ q # r \/ b \notin v => NeverSets(Modify(r, v, c), q, b)
         /\ q # r \/ b \notin c \/ b \in v => NeverClears(Modify(r, v, c), q, b)
<1> DEFINE m == Modify(r, v, c)
<1>1. Step("read", r, {}, {}) \in Steps /\ Step("write", r, v, c) \in Steps
  BY DEF Step, Steps, Value
<1>2. /\ m \in Seq(Steps) /\ Len(m) = 2
      /\ m[1] = Step("read", r, {}, {}) /\ m[2] = Step("write", r, v, c)
  BY <1>1 DEF Modify
<1> HIDE DEF m
<1>3. \A k \in 1..Len(m) : k = 1 \/ k = 2
  BY <1>2
<1>4. /\ m[1].op = "read"
      /\ m[2].op = "write" /\ m[2].reg = r /\ m[2].set = v /\ m[2].clear = c
  BY <1>2 DEF Step
<1>5. 2 \in 1..Len(m) /\ (2 + 1)..Len(m) = {}
  BY <1>2
<1>6. q = r /\ b \in c \ v => LeavesOff(m, q, b)
  BY <1>4, <1>5 DEF LeavesOff, Clears
<1>7. q = r /\ b \in v => LeavesOn(m, q, b)
  BY <1>4, <1>5 DEF LeavesOn, Sets
<1>8. q # r \/ b \notin v => NeverSets(m, q, b)
  BY <1>3, <1>4 DEF NeverSets, Sets
<1>9. q # r \/ b \notin c \/ b \in v => NeverClears(m, q, b)
  BY <1>3, <1>4 DEF NeverClears, Clears
<1> QED
  BY <1>2, <1>6, <1>7, <1>8, <1>9 DEF m

\* The crates a run pulses.
Crates == IF AtTeststand THEN CrateBits ELSE RunCrates

LEMMA SomeBits ==
  /\ {} \in SUBSET Bits /\ {"PULSE_EN"} \in SUBSET Bits /\ {"PED_EN"} \in SUBSET Bits
  /\ {"EXT8"} \in SUBSET Bits /\ CrateBits \in SUBSET Bits /\ Crates \in SUBSET CrateBits
  /\ Crates \in SUBSET Bits /\ "PULSE_EN" \in Bits /\ "PED_EN" \in Bits
  /\ "control" \in Registers /\ "pmsk" \in Registers /\ "gmsk" \in Registers
  /\ "mask" \in Registers
  BY MTCCommandsAssumption DEF Bits, ControlBits, Crates, Registers

LEMMA UnsetMasksLeave ==
  /\ UnsetMasks \in Seq(Steps)
  /\ \A q \in {"pmsk", "gmsk"}, b \in CrateBits : LeavesOff(UnsetMasks, q, b)
  /\ \A q \in Registers, b \in Bits : NeverSets(UnsetMasks, q, b)
  /\ \A b \in Bits : NeverClears(UnsetMasks, "control", b)
<1> DEFINE u == UnsetCrateMask("pmsk")
           w == UnsetCrateMask("gmsk")
<1>1. \A q \in Registers, b \in Bits :
        /\ u \in Seq(Steps) /\ w \in Seq(Steps)
        /\ NeverSets(u, q, b) /\ NeverSets(w, q, b)
        /\ q = "pmsk" /\ b \in CrateBits => LeavesOff(u, q, b)
        /\ q = "gmsk" /\ b \in CrateBits => LeavesOff(w, q, b)
        /\ q = "control" => NeverClears(u, q, b) /\ NeverClears(w, q, b)
  <2> SUFFICES ASSUME NEW q \in Registers, NEW b \in Bits
               PROVE  /\ u \in Seq(Steps) /\ w \in Seq(Steps)
                      /\ NeverSets(u, q, b) /\ NeverSets(w, q, b)
                      /\ q = "pmsk" /\ b \in CrateBits => LeavesOff(u, q, b)
                      /\ q = "gmsk" /\ b \in CrateBits => LeavesOff(w, q, b)
                      /\ q = "control" => NeverClears(u, q, b) /\ NeverClears(w, q, b)
    OBVIOUS
  <2>1. /\ u \in Seq(Steps) /\ NeverSets(u, q, b)
        /\ q = "pmsk" /\ b \in CrateBits => LeavesOff(u, q, b)
        /\ q = "control" => NeverClears(u, q, b)
    BY SomeBits, LeftByModify DEF UnsetCrateMask
  <2>2. /\ w \in Seq(Steps) /\ NeverSets(w, q, b)
        /\ q = "gmsk" /\ b \in CrateBits => LeavesOff(w, q, b)
        /\ q = "control" => NeverClears(w, q, b)
    BY SomeBits, LeftByModify DEF UnsetCrateMask
  <2> QED
    BY <2>1, <2>2
<1> HIDE DEF u, w
<1>2. u \in Seq(Steps) /\ w \in Seq(Steps)
  BY <1>1, SomeBits
<1>3. UnsetMasks = u \o w
  BY DEF UnsetMasks, u, w
<1>4. \A q \in Registers, b \in Bits : NeverSets(u \o w, q, b)
  BY <1>1, <1>2, LeftByJoined
<1>5. \A b \in Bits : NeverClears(u \o w, "control", b)
  BY <1>1, <1>2, SomeBits, LeftByJoined
<1>6. \A b \in CrateBits : LeavesOff(u \o w, "pmsk", b) /\ LeavesOff(u \o w, "gmsk", b)
  BY <1>1, <1>2, SomeBits, LeftByJoined
<1>7. u \o w \in Seq(Steps)
  BY <1>2, Joined
<1> QED
  BY <1>3, <1>4, <1>5, <1>6, <1>7

LEMMA RunPedestalsEndLeaves ==
  /\ LeavesOff(RunPedestalsEnd, "control", "PULSE_EN")
  /\ LeavesOff(RunPedestalsEnd, "control", "PED_EN")
  /\ \A q \in {"pmsk", "gmsk"}, b \in CrateBits : LeavesOff(RunPedestalsEnd, q, b)
<1> DEFINE d == Disable("PULSE_EN")
           e == Disable("PED_EN")
           c == "control"
<1>1. /\ d \in Seq(Steps) /\ e \in Seq(Steps)
      /\ LeavesOff(d, c, "PULSE_EN") /\ LeavesOff(e, c, "PED_EN") /\ NeverSets(e, c, "PULSE_EN")
  BY SomeBits, LeftByModify DEF Disable
<1> HIDE DEF d, e
<1>2. d \o e \in Seq(Steps)
  BY <1>1, Joined
<1>3. LeavesOff(d \o e, c, "PULSE_EN") /\ LeavesOff(d \o e, c, "PED_EN")
  BY <1>1, LeftByJoined
<1>4. RunPedestalsEnd = (d \o e) \o UnsetMasks
  BY DEF RunPedestalsEnd, d, e
<1>5. LeavesOff(RunPedestalsEnd, c, "PULSE_EN") /\ LeavesOff(RunPedestalsEnd, c, "PED_EN")
  BY <1>2, <1>3, <1>4, SomeBits, UnsetMasksLeave, LeftByJoined
<1>6. \A q \in {"pmsk", "gmsk"}, b \in CrateBits : LeavesOff(RunPedestalsEnd, q, b)
  BY <1>2, <1>4, UnsetMasksLeave, LeftByJoined
<1> QED
  BY <1>5, <1>6

\* The end of a run that is not refused.
LEMMA StartPedestalsLeaves ==
  /\ StartPedestals \in Seq(Steps)
  /\ LeavesOn(StartPedestals, "control", "PULSE_EN")
  /\ LeavesOn(StartPedestals, "control", "PED_EN")
  /\ \A q \in {"pmsk", "gmsk"}, b \in CrateBits :
       /\ b \in Crates => LeavesOn(StartPedestals, q, b)
       /\ b \notin Crates => LeavesOff(StartPedestals, q, b)
<1> DEFINE d == Enable("PULSE_EN")
           e == Enable("PED_EN")
           p == SetCrateMask("pmsk", RunCrates)
           g == SetCrateMask("gmsk", RunCrates)
           m == Modify("mask", {"EXT8"}, {})
           c == "control"
           s1 == d \o e
           s2 == s1 \o UnsetMasks
           s3 == s2 \o p
           s4 == s3 \o g
<1>1. /\ d \in Seq(Steps) /\ e \in Seq(Steps)
      /\ LeavesOn(d, c, "PULSE_EN") /\ LeavesOn(e, c, "PED_EN") /\ NeverClears(e, c, "PULSE_EN")
  BY SomeBits, LeftByModify DEF Enable
<1>2. p = Modify("pmsk", Crates, {}) /\ g = Modify("gmsk", Crates, {})
  BY DEF SetCrateMask, Crates
<1>3. /\ p \in Seq(Steps) /\ g \in Seq(Steps) /\ m \in Seq(Steps)
      /\ \A q \in Registers, b \in Bits :
           NeverClears(p, q, b) /\ NeverClears(g, q, b) /\ NeverClears(m, q, b)
  <2>1. \A q \in Registers, b \in Bits : p \in Seq(Steps) /\ NeverClears(p, q, b)
    BY <1>2, SomeBits, LeftByModify
  <2>2. \A q \in Registers, b \in Bits : g \in Seq(Steps) /\ NeverClears(g, q, b)
    BY <1>2, SomeBits, LeftByModify
  <2>3. \A q \in Registers, b \in Bits : m \in Seq(Steps) /\ NeverClears(m, q, b)
    BY SomeBits, LeftByModify
  <2> QED
    BY <2>1, <2>2, <2>3, SomeBits
<1>4. \A b \in Crates : LeavesOn(p, "pmsk", b) /\ LeavesOn(g, "gmsk", b)
  BY <1>2, SomeBits, LeftByModify
<1>5. \A b \in CrateBits : b \notin Crates => NeverSets(p, "pmsk", b) /\ NeverSets(g, "gmsk", b)
  BY <1>2, SomeBits, LeftByModify
<1>6. \A b \in CrateBits : NeverSets(p, "gmsk", b) /\ NeverSets(g, "pmsk", b)
  BY <1>2, SomeBits, LeftByModify
<1>7. \A b \in CrateBits : NeverSets(m, "pmsk", b) /\ NeverSets(m, "gmsk", b)
  BY SomeBits, LeftByModify
<1> HIDE DEF d, e, p, g, m
<1>8. s1 \in Seq(Steps) /\ LeavesOn(s1, c, "PULSE_EN") /\ LeavesOn(s1, c, "PED_EN")
  BY <1>1, Joined, LeftByJoined
<1> HIDE DEF s1
<1>9. /\ s2 \in Seq(Steps) /\ LeavesOn(s2, c, "PULSE_EN") /\ LeavesOn(s2, c, "PED_EN")
      /\ \A q \in {"pmsk", "gmsk"}, b \in CrateBits : LeavesOff(s2, q, b)
  <2>1. s2 \in Seq(Steps)
    BY <1>8, UnsetMasksLeave, Joined
  <2>2. LeavesOn(s2, c, "PULSE_EN") /\ LeavesOn(s2, c, "PED_EN")
    BY <1>8, UnsetMasksLeave, SomeBits, LeftByJoined
  <2>3. \A q \in {"pmsk", "gmsk"}, b \in CrateBits : LeavesOff(s2, q, b)
    BY <1>8, UnsetMasksLeave, LeftByJoined
  <2> QED
    BY <2>1, <2>2, <2>3
<1> HIDE DEF s2
<1>10. /\ s3 \in Seq(Steps) /\ LeavesOn(s3, c, "PULSE_EN") /\ LeavesOn(s3, c, "PED_EN")
       /\ \A b \in Crates : LeavesOn(s3, "pmsk", b)
       /\ \A b \in CrateBits : b \notin Crates => LeavesOff(s3, "pmsk", b)
       /\ \A b \in CrateBits : LeavesOff(s3, "gmsk", b)
  <2>1. s3 \in Seq(Steps)
    BY <1>3, <1>9, Joined
  <2>2. LeavesOn(s3, c, "PULSE_EN") /\ LeavesOn(s3, c, "PED_EN")
    BY <1>3, <1>9, SomeBits, LeftByJoined
  <2>3. \A b \in Crates : LeavesOn(s3, "pmsk", b)
    BY <1>3, <1>4, <1>9, LeftByJoined
  <2>4. \A b \in CrateBits : b \notin Crates => LeavesOff(s3, "pmsk", b)
    BY <1>3, <1>5, <1>9, LeftByJoined
  <2>5. \A b \in CrateBits : LeavesOff(s3, "gmsk", b)
    BY <1>3, <1>6, <1>9, LeftByJoined
  <2> QED
    BY <2>1, <2>2, <2>3, <2>4, <2>5
<1> HIDE DEF s3
<1>11. /\ s4 \in Seq(Steps) /\ LeavesOn(s4, c, "PULSE_EN") /\ LeavesOn(s4, c, "PED_EN")
       /\ \A b \in Crates : LeavesOn(s4, "pmsk", b) /\ LeavesOn(s4, "gmsk", b)
       /\ \A b \in CrateBits : b \notin Crates => LeavesOff(s4, "pmsk", b)
       /\ \A b \in CrateBits : b \notin Crates => LeavesOff(s4, "gmsk", b)
  <2>1. s4 \in Seq(Steps)
    BY <1>3, <1>10, Joined
  <2>2. LeavesOn(s4, c, "PULSE_EN") /\ LeavesOn(s4, c, "PED_EN")
    BY <1>3, <1>10, SomeBits, LeftByJoined
  <2>3. \A b \in Crates : LeavesOn(s4, "pmsk", b)
    BY <1>3, <1>10, SomeBits, LeftByJoined
  <2>4. \A b \in Crates : LeavesOn(s4, "gmsk", b)
    BY <1>3, <1>4, <1>10, LeftByJoined
  <2>5. \A b \in CrateBits : b \notin Crates => LeavesOff(s4, "pmsk", b)
    BY <1>3, <1>6, <1>10, LeftByJoined
  <2>6. \A b \in CrateBits : b \notin Crates => LeavesOff(s4, "gmsk", b)
    BY <1>3, <1>5, <1>10, LeftByJoined
  <2> QED
    BY <2>1, <2>2, <2>3, <2>4, <2>5, <2>6
<1> HIDE DEF s4
<1>12. s4 \o m \in Seq(Steps)
  BY <1>3, <1>11, Joined
<1>13. LeavesOn(s4 \o m, c, "PULSE_EN") /\ LeavesOn(s4 \o m, c, "PED_EN")
  BY <1>3, <1>11, SomeBits, LeftByJoined
<1>14. \A b \in Crates : LeavesOn(s4 \o m, "pmsk", b) /\ LeavesOn(s4 \o m, "gmsk", b)
  BY <1>3, <1>11, SomeBits, LeftByJoined
<1>15. \A b \in CrateBits : b \notin Crates => LeavesOff(s4 \o m, "pmsk", b)
  BY <1>3, <1>7, <1>11, LeftByJoined
<1>16. \A b \in CrateBits : b \notin Crates => LeavesOff(s4 \o m, "gmsk", b)
  BY <1>3, <1>7, <1>11, LeftByJoined
<1>17. StartPedestals = s4 \o m
  BY DEF StartPedestals, s4, s3, s2, s1, d, e, p, g, m
<1> QED
  BY <1>12, <1>13, <1>14, <1>15, <1>16, <1>17

\* A run that is refused, and one that is not.
LEMMA RunPedestalsLeaves ==
  ASSUME NEW k \in {0, 2, 3, 4, 5, 6}
  PROVE  /\ k \in 2..4 =>
              \A q \in {"pmsk", "gmsk"}, b \in CrateBits : LeavesOff(RunPedestals(k), q, b)
         /\ k \notin 2..4 =>
              /\ LeavesOn(RunPedestals(k), "control", "PULSE_EN")
              /\ LeavesOn(RunPedestals(k), "control", "PED_EN")
              /\ \A q \in {"pmsk", "gmsk"}, b \in CrateBits :
                   /\ b \in Crates => LeavesOn(RunPedestals(k), q, b)
                   /\ b \notin Crates => LeavesOff(RunPedestals(k), q, b)
<1> DEFINE s1 == Setting(1)
           s2 == Setting(1) \o Setting(2)
           s3 == s2 \o Setting(3)
           s5 == s3 \o Setting(4) \o InRange(5, k)
<1>1. /\ s1 \in Seq(Steps) /\ Setting(2) \in Seq(Steps) /\ Setting(3) \in Seq(Steps)
      /\ Setting(4) \in Seq(Steps) /\ InRange(5, k) \in Seq(Steps)
  <2>1. k \in 0..6
    OBVIOUS
  <2>2. Tidy(Setting(1)) /\ Tidy(Setting(2)) /\ Tidy(Setting(3)) /\ Tidy(Setting(4))
    BY TidySettings
  <2>3. Tidy(InRange(5, k))
    BY <2>1, TidySettings
  <2> QED
    BY <2>2, <2>3 DEF Tidy
<1>2. s2 \in Seq(Steps)
  BY <1>1, Joined
<1>3. s3 \in Seq(Steps)
  BY <1>1, <1>2, Joined
<1>4. s5 \in Seq(Steps)
  <2> HIDE DEF s3
  <2>1. s3 \o Setting(4) \in Seq(Steps)
    BY <1>1, <1>3, Joined
  <2> QED
    BY <1>1, <2>1, Joined
<1> HIDE DEF s1, s2, s3, s5
<1>5. ASSUME NEW s \in Seq(Steps), NEW q \in {"pmsk", "gmsk"}, NEW b \in CrateBits
      PROVE  LeavesOff(s \o UnsetMasks, q, b)
  BY UnsetMasksLeave, LeftByJoined
<1>6. CASE k = 2
  <2>1. RunPedestals(k) = s1 \o UnsetMasks
    BY <1>6 DEF RunPedestals, s1
  <2>2. \A q \in {"pmsk", "gmsk"}, b \in CrateBits : LeavesOff(s1 \o UnsetMasks, q, b)
    BY <1>1, <1>5
  <2>3. k \in 2..4
    BY <1>6
  <2> QED
    BY <2>1, <2>2, <2>3
<1>7. CASE k = 3
  <2>1. RunPedestals(k) = s2 \o UnsetMasks
    BY <1>7 DEF RunPedestals, s2
  <2>2. \A q \in {"pmsk", "gmsk"}, b \in CrateBits : LeavesOff(s2 \o UnsetMasks, q, b)
    BY <1>2, <1>5
  <2>3. k \in 2..4
    BY <1>7
  <2> QED
    BY <2>1, <2>2, <2>3
<1>8. CASE k = 4
  <2>1. RunPedestals(k) = s3 \o UnsetMasks
    BY <1>8 DEF RunPedestals, s2, s3
  <2>2. \A q \in {"pmsk", "gmsk"}, b \in CrateBits : LeavesOff(s3 \o UnsetMasks, q, b)
    BY <1>3, <1>5
  <2>3. k \in 2..4
    BY <1>8
  <2> QED
    BY <2>1, <2>2, <2>3
<1>9. CASE k \notin {2, 3, 4}
  <2>1. RunPedestals(k) = s5 \o StartPedestals
    BY <1>9 DEF RunPedestals, s2, s3, s5
  <2>2. /\ LeavesOn(s5 \o StartPedestals, "control", "PULSE_EN")
        /\ LeavesOn(s5 \o StartPedestals, "control", "PED_EN")
    BY <1>4, StartPedestalsLeaves, LeftByJoined
  <2>3. ASSUME NEW q \in {"pmsk", "gmsk"}, NEW b \in CrateBits
        PROVE  /\ b \in Crates => LeavesOn(s5 \o StartPedestals, q, b)
               /\ b \notin Crates => LeavesOff(s5 \o StartPedestals, q, b)
    BY <1>4, StartPedestalsLeaves, LeftByJoined
  <2>4. k \notin 2..4
    BY <1>9
  <2> QED
    BY <2>1, <2>2, <2>3, <2>4
<1> QED
  BY <1>6, <1>7, <1>8, <1>9

\* A sequence of requests that neither sets nor clears an enable bit.
Enables == {"PULSE_EN", "PED_EN"}
KeepsEnables(s) ==
  /\ s \in Seq(Steps)
  /\ \A b \in Enables : NeverSets(s, "control", b) /\ NeverClears(s, "control", b)

LEMMA KeepsEnablesJoined ==
  ASSUME NEW s, NEW t, KeepsEnables(s), KeepsEnables(t)
  PROVE  KeepsEnables(s \o t)
<1>1. s \in Seq(Steps) /\ t \in Seq(Steps)
  BY DEF KeepsEnables
<1>2. s \o t \in Seq(Steps)
  BY <1>1, Joined
<1>3. ASSUME NEW b \in Enables
      PROVE  NeverSets(s \o t, "control", b) /\ NeverClears(s \o t, "control", b)
  BY <1>1, LeftByJoined DEF KeepsEnables
<1> QED
  BY <1>2, <1>3 DEF KeepsEnables

LEMMA SettingsKeepEnables == \A i \in {1, 2, 3} : KeepsEnables(Setting(i))
<1> USE SomeBits
<1>1. "data" \in Registers /\ {"LOAD"} \in SUBSET Bits /\ {} \in SUBSET Own("data")
  BY DEF Registers, Bits, ControlBits
<1>2. KeepsEnables(Write("data", {}))
  <2> DEFINE w == Write("data", {})
  <2>1. Tidy(w) /\ Len(w) = 1 /\ w[1] = Step("write", "data", {}, Bits)
    BY <1>1, TidyBlocks
  <2>2. \A k \in 1..Len(w) : w[k].reg = "data"
    BY <2>1 DEF Step
  <2> HIDE DEF w
  <2>3. KeepsEnables(w)
    BY <2>1, <2>2 DEF KeepsEnables, NeverSets, NeverClears, Sets, Clears, Tidy
  <2> QED
    BY <2>3 DEF w
<1>3. KeepsEnables(Modify("data", {}, {}))
  BY <1>1, LeftByModify DEF KeepsEnables, Enables
<1>4. KeepsEnables(Modify("control", {"LOAD"}, {}))
  BY <1>1, LeftByModify DEF KeepsEnables, Enables
<1>5. KeepsEnables(Modify("control", {}, {"LOAD"}))
  BY <1>1, LeftByModify DEF KeepsEnables, Enables
<1>6. KeepsEnables(Load("LOAD"))
  BY <1>2, <1>4, <1>5, KeepsEnablesJoined DEF Load, Enable, Disable
<1>7. KeepsEnables(Shift)
  BY <1>2, <1>3, KeepsEnablesJoined DEF Shift
<1>8. KeepsEnables(Shift \o Load("LOAD"))
  BY <1>6, <1>7, KeepsEnablesJoined
<1> QED
  BY <1>6, <1>8 DEF Setting

\* The settings before the one out of range, and the calls that clear the masks.
LEMMA RefusedKeepsEnables ==
  ASSUME NEW k \in 2..4
  PROVE  KeepsEnables(RunPedestals(k))
<1>1. KeepsEnables(UnsetMasks)
  BY UnsetMasksLeave, SomeBits DEF KeepsEnables, Enables
<1>2. KeepsEnables(Setting(1)) /\ KeepsEnables(Setting(2)) /\ KeepsEnables(Setting(3))
  BY SettingsKeepEnables
<1>3. KeepsEnables(Setting(1) \o Setting(2))
  BY <1>2, KeepsEnablesJoined
<1>4. KeepsEnables(Setting(1) \o Setting(2) \o Setting(3))
  BY <1>2, <1>3, KeepsEnablesJoined
<1>5. /\ KeepsEnables(Setting(1) \o UnsetMasks)
      /\ KeepsEnables(Setting(1) \o Setting(2) \o UnsetMasks)
      /\ KeepsEnables(Setting(1) \o Setting(2) \o Setting(3) \o UnsetMasks)
  BY <1>1, <1>2, <1>3, <1>4, KeepsEnablesJoined
<1>6. k = 2 \/ k = 3 \/ k = 4
  OBVIOUS
<1>7. CASE k = 2
  BY <1>5, <1>7 DEF RunPedestals
<1>8. CASE k = 3
  BY <1>5, <1>8 DEF RunPedestals
<1>9. CASE k = 4
  BY <1>5, <1>9 DEF RunPedestals
<1> QED
  BY <1>6, <1>7, <1>8, <1>9

-----------------------------------------------------------------------------
(***************************************************************************)
(* What holds when a command returns.                                      *)
(***************************************************************************)

\* A command that runs has no outcome yet, and no setting of run_pedestals but the
\* five it makes is out of range.
Running ==
  /\ ~Idle => outcome = "none"
  /\ name = "run_pedestals_mtc" => failing \in {0, 2, 3, 4, 5}

LEMMA RunningNext ==
  ASSUME Running, [Next]_vars
  PROVE  Running'
<1>1. ASSUME NEW n \in Names, StartCommand(n) PROVE Running'
  <2>1. outcome' = "none" /\ name' = n
    BY <1>1 DEF StartCommand
  <2>2. n = "run_pedestals_mtc" => failing' \in {0, 2, 3, 4, 5}
    BY <1>1 DEF StartCommand
  <2> QED
    BY <2>1, <2>2 DEF Running
<1>2. ASSUME name' = "none" PROVE Running'
  BY <1>2 DEF Running, Idle
<1>3. ASSUME UNCHANGED <<name, failing, outcome>> PROVE Running'
  BY <1>3 DEF Running, Idle
<1>4. CASE GetNextPacket
  BY <1>2, <1>3, <1>4 DEF GetNextPacket, Leave, session
<1>5. CASE TimeOut
  BY <1>2, <1>5 DEF TimeOut, Leave
<1>6. CASE SendPacket \/ SbcAnswers \/ RecvCallback \/ SBCControl
  BY <1>3, <1>6 DEF SendPacket, SbcAnswers, RecvCallback, SBCControl, session
<1>7. CASE UNCHANGED vars
  BY <1>3, <1>7 DEF vars, session
<1> QED
  BY <1>1, <1>4, <1>5, <1>6, <1>7 DEF Next

LEMMA SpecAllInv == Spec => [](IInv /\ HealthyInv /\ Running)
<1>1. Init => Running
  BY DEF Init, Running, Idle
<1> QED
  BY <1>1, IInvInit, IInvNext, HealthyInit, HealthyNext, RunningNext, PTL DEF Spec

\* When a command returns, the registers hold what its requests have left in them.
LEMMA AtReturn ==
  ASSUME IInv, HealthyInv, Running, [Next]_vars, Healthy, ~Idle, outcome' = "ok"
  PROVE  /\ \A r \in Registers, b \in Bits :
              /\ LeavesOff(Current, r, b) => b \notin registers[r]
              /\ LeavesOn(Current, r, b) => b \in registers[r]
         /\ \A r \in Registers : registers[r] \subseteq Own(r)
<1>1. TypeOK /\ outcome = "none"
  BY DEF IInv, Running
<1>2. GetNextPacket /\ LastStep
  <2>1. outcome' # outcome
    BY <1>1
  <2>2. ~(\E n \in Names : StartCommand(n)) /\ ~SendPacket /\ ~SbcAnswers /\ ~RecvCallback
        /\ ~SBCControl /\ ~UNCHANGED vars
    BY <2>1 DEF StartCommand, SendPacket, SbcAnswers, RecvCallback, SBCControl, vars
  <2>3. ~TimeOut
    BY DEF TimeOut, Leave
  <2>4. GetNextPacket
    BY <2>2, <2>3 DEF Next
  <2> QED
    BY <2>1, <2>4 DEF GetNextPacket
<1>3. at = Len(Current) /\ Len(Current) \in Nat
  BY <1>1, <1>2, CommandSteps DEF LastStep, Current
<1>4. NextStep = Len(Current) + 1
  <2>1. waiting = TRUE /\ fRecvQueue # <<>>
    BY <1>1, <1>2 DEF GetNextPacket, TypeOK
  <2>2. toSbc = <<>>
    BY <2>1 DEF HealthyInv, OneUnderWay
  <2> QED
    BY <1>3, <2>1, <2>2 DEF NextStep, Done
<1>5. ASSUME NEW r \in Registers, NEW b \in Bits
      PROVE  /\ LeavesOff(Current, r, b) => b \notin registers[r]
             /\ LeavesOn(Current, r, b) => b \in registers[r]
  <2>1. NextStep - 1 = Len(Current)
    BY <1>3, <1>4
  <2> QED
    BY <2>1 DEF HealthyInv, EffectsStand, LeavesOff, LeavesOn
<1>6. ASSUME NEW r \in Registers PROVE registers[r] \subseteq Own(r)
  <2>1. registers[r] \subseteq Bits
    BY <1>1 DEF TypeOK, Value
  <2>2. NextStep..Len(Current) = {}
    BY <1>3, <1>4
  <2>3. registers[r] \cap Stray(r) = {}
    BY <2>2 DEF HealthyInv, StrayIsCleared
  <2> QED
    BY <2>1, <2>3 DEF Own
<1> QED
  BY <1>5, <1>6

\* As long as nothing has timed out, a run_pedestals_end that returns leaves the
\* pulser and the pedestals off and every crate out of both masks, whatever state
\* it found (RunPedestalsEnd).
THEOREM SpecPedestalsEnd == Spec => PedestalsEnd
<1> DEFINE Ended == Healthy /\ name = "run_pedestals_end_mtc" /\ outcome' = "ok"
             => /\ Enabled = {}
                /\ (registers["pmsk"] \cup registers["gmsk"]) \cap CrateBits = {}
<1>1. IInv /\ HealthyInv /\ Running /\ [Next]_vars => Ended
  <2> SUFFICES ASSUME IInv, HealthyInv, Running, [Next]_vars, Healthy,
                      name = "run_pedestals_end_mtc", outcome' = "ok"
               PROVE  /\ Enabled = {}
                      /\ (registers["pmsk"] \cup registers["gmsk"]) \cap CrateBits = {}
    OBVIOUS
  <2>1. ~Idle /\ TypeOK
    BY DEF Idle, IInv
  <2>2. name \in Names /\ failing \in 0..6
    BY <2>1, CommandSteps
  <2>3. Current = RunPedestalsEnd
    BY <2>2 DEF Current, RequestsOf, Requests
  <2>4. \A r \in Registers, b \in Bits : LeavesOff(Current, r, b) => b \notin registers[r]
    BY <2>1, AtReturn
  <2>5. "PULSE_EN" \notin registers["control"] /\ "PED_EN" \notin registers["control"]
    BY <2>3, <2>4, SomeBits, RunPedestalsEndLeaves
  <2>6. \A q \in {"pmsk", "gmsk"}, b \in CrateBits : b \notin registers[q]
    BY <2>3, <2>4, SomeBits, RunPedestalsEndLeaves
  <2> QED
    BY <2>5, <2>6 DEF Enabled
<1> HIDE DEF Ended
<1>2. Spec => [][Ended]_vars
  BY <1>1, SpecAllInv, PTL DEF Spec
<1> QED
  BY <1>2 DEF PedestalsEnd, Ended

\* No step of a refused run changes an enable bit: what it writes to the control
\* register is what it has read there, with other bits set or cleared.
LEMMA RefusedStepsKeepEnables ==
  ASSUME IInv, HealthyInv, [Next]_vars, Healthy,
         name = "run_pedestals_mtc", failing \in 2..4
  PROVE  Enabled' = Enabled
<1>1. ~Idle /\ TypeOK /\ ThreadInStep
  BY DEF Idle, IInv
<1>2. /\ name \in Names /\ failing \in 0..6 /\ Tidy(Current)
      /\ at \in 1..Len(Current) /\ CurrentStep = Current[at] /\ CurrentStep \in Steps
  BY <1>1, CommandSteps
<1>3. Current = RunPedestals(failing)
  BY <1>2 DEF Current, RequestsOf, Requests
<1>4. \A b \in Enables : ~Sets(CurrentStep, "control", b) /\ ~Clears(CurrentStep, "control", b)
  BY <1>2, <1>3, RefusedKeepsEnables DEF KeepsEnables, NeverSets, NeverClears
<1>5. CASE SbcAnswers
  <2> DEFINE r == Head(toSbc)
             value == IF r.op = "read" THEN registers[r.reg] ELSE r.value
  <2>1. toSbc # <<>> /\ registers' = [registers EXCEPT ![r.reg] = value]
    BY <1>5 DEF SbcAnswers
  <2>2. r = toSbc[1] /\ 1 \in 1..Len(toSbc)
    <3>1. toSbc \in Seq(Request)
      BY <1>1 DEF TypeOK
    <3> HIDE DEF Request
    <3> QED
      BY <2>1, <3>1
  <2>3. /\ r.op = CurrentStep.op /\ r.reg = CurrentStep.reg
        /\ r.value = (temp \ CurrentStep.clear) \cup CurrentStep.set
    BY <2>2 DEF HealthyInv, RequestIsCurrent
  <2> HIDE DEF r
  <2>4. registers \in [Registers -> Value] /\ "control" \in Registers
    BY <1>1, SomeBits DEF TypeOK
  <2>5. CASE CurrentStep.reg # "control"
    <3>1. registers'["control"] = registers["control"]
      BY <2>1, <2>3, <2>4, <2>5
    <3> QED
      BY <3>1 DEF Enabled
  <2>6. CASE CurrentStep.reg = "control" /\ CurrentStep.op = "read"
    <3>1. registers'["control"] = registers["control"]
      BY <2>1, <2>3, <2>4, <2>6
    <3> QED
      BY <3>1 DEF Enabled
  <2>7. CASE CurrentStep.reg = "control" /\ CurrentStep.op = "write"
    <3>1. \A b \in Enables : b \notin CurrentStep.set /\ b \notin CurrentStep.clear
      BY <1>4, <2>7 DEF Sets, Clears
    <3>2. CurrentStep.clear # Bits
      BY <3>1, SomeBits DEF Enables
    <3>3. at > 1 /\ Current[at - 1].op = "read" /\ Current[at - 1].reg = "control"
      BY <1>2, <2>7, <3>2 DEF Tidy
    <3>4. temp = registers["control"]
      BY <1>1, <2>1, <3>3 DEF HealthyInv, ReadIsFresh, Done
    <3>5. registers'["control"] = (temp \ CurrentStep.clear) \cup CurrentStep.set
      BY <2>1, <2>3, <2>4, <2>7
    <3>6. \A b \in Enables : b \in registers'["control"] <=> b \in registers["control"]
      BY <3>1, <3>4, <3>5
    <3> QED
      BY <3>6 DEF Enabled, Enables
  <2> QED
    BY <1>2, <2>5, <2>6, <2>7 DEF Steps
<1>6. CASE ~SbcAnswers
  <2>1. registers' = registers
    BY <1>6 DEF Next, StartCommand, SendPacket, GetNextPacket, TimeOut, RecvCallback,
                SBCControl, vars
  <2> QED
    BY <2>1 DEF Enabled
<1> QED
  BY <1>5, <1>6

\* As long as nothing has timed out: none of the steps of a run_pedestals that is refused
\* for a setting out of range changes PULSE_EN or PED_EN, and it returns with every crate
\* out of both masks; one that is not refused returns with both enables on and exactly
\* the crates it was given (SetupPedestals, RunPedestals).
THEOREM SpecRunsAsGivenOrNotAtAll == Spec => RunsAsGivenOrNotAtAll
<1> DEFINE Off == registers["pmsk"] = {} /\ registers["gmsk"] = {}
           On == /\ Enabled = {"PULSE_EN", "PED_EN"}
                 /\ registers["pmsk"] = IF AtTeststand THEN CrateBits ELSE RunCrates
                 /\ registers["gmsk"] = registers["pmsk"]
           Ran == Healthy /\ name = "run_pedestals_mtc"
                    => IF failing \in 2..4
                         THEN /\ Enabled' = Enabled
                              /\ outcome' = "ok" => Off
                         ELSE outcome' = "ok" => On
<1>1. ASSUME IInv, HealthyInv, Running, [Next]_vars, Healthy,
             name = "run_pedestals_mtc", outcome' = "ok"
      PROVE  IF failing \in 2..4 THEN Off ELSE On
  <2>1. ~Idle /\ TypeOK
    BY <1>1 DEF Idle, IInv
  <2>2. name \in Names /\ failing \in 0..6 /\ failing \in {0, 2, 3, 4, 5, 6}
    BY <1>1, <2>1, CommandSteps DEF Running
  <2>3. Current = RunPedestals(failing)
    BY <1>1, <2>2 DEF Current, RequestsOf, Requests
  <2>4. \A r \in Registers, b \in Bits :
          /\ LeavesOff(Current, r, b) => b \notin registers[r]
          /\ LeavesOn(Current, r, b) => b \in registers[r]
    BY <1>1, <2>1, AtReturn
  <2>5. registers["pmsk"] \subseteq CrateBits /\ registers["gmsk"] \subseteq CrateBits
    BY <1>1, <2>1, AtReturn, OwnBits, SomeBits
  <2>6. CASE failing \in 2..4
    <3>1. \A q \in {"pmsk", "gmsk"}, b \in CrateBits : b \notin registers[q]
      BY <2>2, <2>3, <2>4, <2>6, SomeBits, RunPedestalsLeaves
    <3> QED
      BY <2>5, <2>6, <3>1
  <2>7. CASE failing \notin 2..4
    <3>1. "PULSE_EN" \in registers["control"] /\ "PED_EN" \in registers["control"]
      BY <2>2, <2>3, <2>4, <2>7, SomeBits, RunPedestalsLeaves
    <3>2. \A q \in {"pmsk", "gmsk"}, b \in CrateBits : b \in registers[q] <=> b \in Crates
      BY <2>2, <2>3, <2>4, <2>7, SomeBits, RunPedestalsLeaves
    <3>3. registers["pmsk"] = Crates /\ registers["gmsk"] = Crates
      BY <2>5, <3>2, SomeBits
    <3> QED
      BY <2>7, <3>1, <3>3 DEF Crates, Enabled
  <2> QED
    BY <2>6, <2>7
<1>2. IInv /\ HealthyInv /\ Running /\ [Next]_vars => Ran
  BY <1>1, RefusedStepsKeepEnables
<1> HIDE DEF Ran
<1>3. Spec => [][Ran]_vars
  BY <1>2, SpecAllInv, PTL DEF Spec
<1> QED
  BY <1>3 DEF RunsAsGivenOrNotAtAll, Ran
=============================================================================
