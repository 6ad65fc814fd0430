---------------------------- MODULE MTCCommands ----------------------------
(***************************************************************************)
(* Commands on the link to the MTC, and what they do to its registers.     *)
(*                                                                         *)
(* The SBC reads and writes MTC registers for the command thread, one      *)
(* request at a time, and answers in its own time.  MTCModel::SendCommand  *)
(* takes the next packet of fRecvQueue for the answer, whatever it is: an  *)
(* answer that comes after its request has timed out is taken for the      *)
(* answer to a later request.  Most registers are changed by reading them, *)
(* setting or clearing bits, and writing them back.                        *)
(*                                                                         *)
(* One command at a time uses the link: MutualExclusion of Connections.    *)
(***************************************************************************)
EXTENDS Integers, Sequences

CONSTANTS
  CrateBits,     \* the bits of a crate mask (MASKALL)
  RunCrates,     \* the crates of a run_pedestals command
  AtTeststand,   \* CURRENT_LOCATION == PENN_TESTSTAND
  Names,         \* the commands of the session
  MaxCommands    \* bound on the commands of a behaviour

ASSUME MTCCommandsAssumption ==
  /\ RunCrates \subseteq CrateBits
  /\ AtTeststand \in BOOLEAN
  /\ Names \subseteq {"mtc_init", "run_pedestals_mtc", "run_pedestals_end_mtc", "mtc_read",
                     "enable_pulser", "disable_pulser", "enable_pedestal", "disable_pedestal"}
  /\ MaxCommands \in Nat

\* The bits of the control register; LOAD is any of the load enables.
ControlBits == {"PULSE_EN", "PED_EN", "LOAD", "FIFO_RESET"}

Bits == ControlBits \cup CrateBits \cup {"EXT8"}

\* "data" stands for the registers that hold no bits a command looks at again.
Registers == {"control", "mask", "pmsk", "gmsk", "data"}

VARIABLES
  registers,   \* the MTC's registers
  toSbc,       \* requests on their way to the SBC
  fromSbc,     \* answers on their way back
  fRecvQueue,  \* MTCLink::fRecvQueue
  name,        \* the command the thread runs
  failing,     \* the setting that is out of range, 0 for none (at most one is)
  at,          \* the request of the command it has come to
  waiting,     \* it has sent that request and is in GetNextPacket
  temp,        \* the local variable that RegRead fills
  outcome,     \* how the last command ended
  sent,        \* the number of requests so far; it gives them identities
  taken,       \* the request whose answer was taken last
  commands,    \* the number of commands so far
  timeOuts     \* the number of time-outs so far

wire == <<toSbc, fromSbc>>
session == <<name, failing, commands>>
vars == <<registers, wire, fRecvQueue, session, at, waiting, temp, outcome,
          sent, taken, timeOuts>>

-----------------------------------------------------------------------------
(***************************************************************************)
(* Commands as sequences of register requests.  A write puts               *)
(* (temp \ clear) \cup set into its register.                              *)
(***************************************************************************)
Step(op, reg, set, clear) == [op |-> op, reg |-> reg, set |-> set, clear |-> clear]

Write(reg, value) == <<Step("write", reg, value, Bits)>>

\* RegRead(reg,&temp); RegWrite(reg,(temp & ~clear) | set).
Modify(reg, set, clear) == <<Step("read", reg, {}, {}), Step("write", reg, set, clear)>>

\* Slip: the bits are added without a look at the register.
EnableBlindly(bit) == Write("control", {bit})
Enable(bit) == Modify("control", {bit}, {})
Disable(bit) == Modify("control", {}, {bit})

UnsetCrateMask(reg) == Modify(reg, {}, CrateBits)
SetCrateMask(reg, crates) ==
  Modify(reg, IF AtTeststand THEN CrateBits ELSE crates, {})

\* Slip: the load enable is set and not cleared again.
LoadHalf(bit) == Write("data", {}) \o Enable(bit)

\* A value is written, and its load enable is toggled.
Load(bit) == Write("data", {}) \o Enable(bit) \o Disable(bit)

\* A value shifted into the serial register, with the loop cut to one turn.
Shift == Write("data", {}) \o Modify("data", {}, {})

\* The settings that may be out of range: 1 SetLockoutWidth, 2 SetPulserFrequency,
\* 3 SetPedestalWidth, 4 SetCoarseDelay, 5 SetFineDelay, 6 SetPrescale.
Setting(i) == IF i = 2 THEN Shift \o Load("LOAD") ELSE Load("LOAD")
SetGTCounter == Shift \o Enable("LOAD") \o Disable("LOAD")

\* The setting i, left out when it is the one out of range.
InRange(i, k) == IF i = k THEN <<>> ELSE Setting(i)

\* The calls that clear both crate masks.
UnsetMasks == UnsetCrateMask("pmsk") \o UnsetCrateMask("gmsk")

\* What SetupPedestals does after the settings.
StartPedestals ==
  Enable("PULSE_EN") \o Enable("PED_EN") \o UnsetMasks
    \o SetCrateMask("pmsk", RunCrates) \o SetCrateMask("gmsk", RunCrates)
    \o Modify("mask", {"EXT8"}, {})

\* RunPedestals with SetupPedestals.  The lockout width is a constant in range.  The
\* settings stop at the first that is out of range, but SetFineDelay reports
\* nothing: it is left out and the pedestals start.
RunPedestals(k) ==
  CASE k = 2 -> Setting(1) \o UnsetMasks
    [] k = 3 -> Setting(1) \o Setting(2) \o UnsetMasks
    [] k = 4 -> Setting(1) \o Setting(2) \o Setting(3) \o UnsetMasks
    [] OTHER -> Setting(1) \o Setting(2) \o Setting(3) \o Setting(4) \o InRange(5, k)
                  \o StartPedestals

\* Slip: RunPedestalsEnd leaves the pulser on.
EndKeepingPulser == Disable("PED_EN") \o UnsetMasks
RunPedestalsEnd == Disable("PULSE_EN") \o Disable("PED_EN") \o UnsetMasks

\* LoadMTCADacsByCounts, with its loops cut to one turn.
LoadDacs == Write("data", {}) \o Write("data", {})

\* MTCInit without the Xilinx: it goes on past a setting that is out of range.
MTCInit(k) ==
  Modify("mask", {}, Bits) \o UnsetMasks \o LoadDacs \o Write("control", {})
    \o InRange(1, k) \o SetGTCounter \o InRange(6, k) \o InRange(2, k) \o InRange(3, k)
    \o InRange(4, k) \o InRange(5, k)
    \o Enable("FIFO_RESET") \o Disable("FIFO_RESET") \o Write("data", {})

\* The commands of the MTC, by name.
Requests(n, k) ==
  CASE n = "mtc_init" -> MTCInit(k)
    [] n = "run_pedestals_mtc" -> RunPedestals(k)
    [] n = "run_pedestals_end_mtc" -> RunPedestalsEnd
    [] n = "enable_pulser" -> Enable("PULSE_EN")
    [] n = "disable_pulser" -> Disable("PULSE_EN")
    [] n = "enable_pedestal" -> Enable("PED_EN")
    [] n = "disable_pedestal" -> Disable("PED_EN")
    [] n = "mtc_read" -> <<Step("read", "control", {}, {})>>

RequestsOf == [n \in Names |-> [k \in 0..6 |-> Requests(n, k)]]

\* The commands that call MTCModel outside any try block.
Uncaught == {"enable_pulser", "disable_pulser", "enable_pedestal", "disable_pedestal"}

-----------------------------------------------------------------------------
Idle == name = "none"

Value == SUBSET Bits
Request == [op : {"read", "write"}, reg : Registers, value : Value, id : Nat]
Answer == [value : Value, id : Nat]

TypeOK ==
  /\ registers \in [Registers -> Value]
  /\ toSbc \in Seq(Request) /\ fromSbc \in Seq(Answer) /\ fRecvQueue \in Seq(Answer)
  /\ name \in Names \cup {"none"} /\ failing \in 0..6
  /\ at \in 0..(IF Idle THEN 0 ELSE Len(RequestsOf[name][failing]))
  /\ waiting \in BOOLEAN /\ temp \in Value
  /\ outcome \in {"none", "ok", "timed out", "terminated"}
  /\ sent \in Nat /\ taken \in Nat
  /\ commands \in 0..MaxCommands /\ timeOuts \in 0..MaxCommands

\* The MTC may have been left pulsing.
Init ==
  /\ \E left \in SUBSET {"PULSE_EN", "PED_EN"} :
       registers = [r \in Registers |-> IF r = "control" THEN left ELSE {}]
  /\ toSbc = <<>> /\ fromSbc = <<>> /\ fRecvQueue = <<>>
  /\ name = "none" /\ failing = 0 /\ at = 0 /\ waiting = FALSE
  /\ temp = {} /\ outcome = "none"
  /\ sent = 0 /\ taken = 0 /\ commands = 0 /\ timeOuts = 0

CurrentStep == RequestsOf[name][failing][at]

StartCommand(n) ==
  /\ Idle
  /\ outcome # "terminated"
  /\ commands < MaxCommands
  /\ name' = n
  /\ failing' \in CASE n = "mtc_init" -> 0..6
                    [] n = "run_pedestals_mtc" -> {0, 2, 3, 4, 5}
                    [] OTHER -> {0}
  /\ at' = 1
  /\ commands' = commands + 1
  /\ outcome' = "none"
  /\ UNCHANGED <<registers, wire, fRecvQueue, waiting, temp, sent, taken, timeOuts>>

\* RegRead or RegWrite up to GetNextPacket: MTCLink::SendPacket.
SendPacket ==
  /\ ~Idle
  /\ ~waiting
  /\ LET s == CurrentStep IN
       toSbc' = Append(toSbc, [op |-> s.op, reg |-> s.reg, id |-> sent + 1,
                               value |-> (temp \ s.clear) \cup s.set])
  /\ sent' = sent + 1
  /\ waiting' = TRUE
  /\ UNCHANGED <<registers, fromSbc, fRecvQueue, session, at, temp, outcome, taken, timeOuts>>

\* The thread leaves the command: it has returned, or an exception is caught.
Leave(result) ==
  /\ name' = "none"
  /\ failing' = 0
  /\ at' = 0
  /\ waiting' = FALSE
  /\ outcome' = result

\* Slip: the end of the command is missed by one.
PastLastStep == at > Len(RequestsOf[name][failing])
LastStep == at = Len(RequestsOf[name][failing])

\* Slip: the packet is looked at and left in the queue.
NotPopped == fRecvQueue

\* fRecvQueue.pop()
Popped == Tail(fRecvQueue)

\* GetNextPacket returns the packet at the front of the queue.
GetNextPacket ==
  /\ waiting
  /\ fRecvQueue # <<>>
  /\ fRecvQueue' = Popped
  /\ taken' = Head(fRecvQueue).id
  /\ temp' = IF CurrentStep.op = "read" THEN Head(fRecvQueue).value ELSE temp
  /\ IF LastStep
       THEN Leave("ok") /\ UNCHANGED commands
       ELSE /\ at' = at + 1
            /\ waiting' = FALSE
            /\ UNCHANGED <<session, outcome>>
  /\ UNCHANGED <<registers, wire, sent, timeOuts>>

\* Slip: the wait starts again.
WaitAgain ==
  /\ waiting
  /\ fRecvQueue = <<>>
  /\ UNCHANGED vars

\* GetNextPacket times out, and finds the queue still empty when it looks again.
\* SendCommand throws; nothing catches it in the commands of Uncaught.
TimeOut ==
  /\ waiting
  /\ fRecvQueue = <<>>
  /\ timeOuts' = timeOuts + 1
  /\ Leave(IF name \in Uncaught THEN "terminated" ELSE "timed out")
  /\ UNCHANGED <<registers, wire, fRecvQueue, commands, temp, sent, taken>>

-----------------------------------------------------------------------------
\* The SBC does a request and answers it.  The answer to a write has the value
\* written in the place of the value read.
SbcAnswers ==
  /\ toSbc # <<>>
  /\ toSbc' = Tail(toSbc)
  /\ LET r == Head(toSbc)
         value == IF r.op = "read" THEN registers[r.reg] ELSE r.value
     IN /\ registers' = [registers EXCEPT ![r.reg] = value]
        /\ fromSbc' = Append(fromSbc, [value |-> value, id |-> r.id])
  /\ UNCHANGED <<fRecvQueue, session, at, waiting, temp, outcome, sent, taken, timeOuts>>

\* The event loop receives an answer: the push in RecvCallback.
RecvCallback ==
  /\ fromSbc # <<>>
  /\ fRecvQueue' = Append(fRecvQueue, Head(fromSbc))
  /\ fromSbc' = Tail(fromSbc)
  /\ UNCHANGED <<registers, toSbc, session, at, waiting, temp, outcome, sent, taken, timeOuts>>

\* sbc_control -r between two commands: CloseConnection and Connect.  What was on
\* the wire is lost; the queue keeps what it had.
SBCControl ==
  /\ Idle
  /\ wire # <<<<>>, <<>>>>
  /\ toSbc' = <<>> /\ fromSbc' = <<>>
  /\ UNCHANGED <<registers, fRecvQueue, session, at, waiting, temp, outcome, sent, taken, timeOuts>>

Next ==
  \/ \E n \in Names : StartCommand(n)
  \/ SendPacket \/ GetNextPacket \/ TimeOut
  \/ SbcAnswers \/ RecvCallback \/ SBCControl

Spec == Init /\ [][Next]_vars

\* The thread is scheduled and its timed wait ends, with an answer or without.
FairSpec == Spec /\ WF_vars(SendPacket) /\ WF_vars(GetNextPacket \/ TimeOut)

-----------------------------------------------------------------------------
Healthy == timeOuts = 0

\* Whether the MTC pulses, and whether it does so as pedestals.
Enabled == registers["control"] \cap {"PULSE_EN", "PED_EN"}

\* An answer is never taken by a request sent before its own, and it is taken late
\* by at most as many requests as have timed out (MTCModel.cpp:108-119): the link
\* slips by one answer per time-out and never by more.
LagsByTimeOuts ==
  ~waiting /\ taken # 0 => taken <= sent /\ sent - taken <= timeOuts

\* As long as nothing has timed out, a run_pedestals_end that returns leaves the
\* pulser and the pedestals off and every crate out of both masks, whatever state
\* it found (RunPedestalsEnd, RunPedestals.cpp:94-128).
PedestalsEnd ==
  [][Healthy /\ name = "run_pedestals_end_mtc" /\ outcome' = "ok"
       => /\ Enabled = {}
          /\ (registers["pmsk"] \cup registers["gmsk"]) \cap CrateBits = {}]_vars

\* As long as nothing has timed out: a run_pedestals that is refused for a setting out of
\* range starts nothing.  None of its steps changes PULSE_EN or PED_EN, which stay as it
\* found them, on or off, although it toggles load enables in the same register; and it
\* returns with every crate out of both masks.  (The settings before the one out of range,
\* which may be the frequency of the pulser, have been loaded by then.)  A run_pedestals
\* that is not refused returns with both enables on and exactly the crates it was given
\* (SetupPedestals, MTCModel.cpp:184-211, and RunPedestals.cpp:70-79).
RunsAsGivenOrNotAtAll ==
  [][Healthy /\ name = "run_pedestals_mtc"
       => IF failing \in 2..4
            THEN /\ Enabled' = Enabled
                 /\ outcome' = "ok" => registers["pmsk"] = {} /\ registers["gmsk"] = {}
            ELSE outcome' = "ok" =>
                   /\ Enabled = {"PULSE_EN", "PED_EN"}
                   /\ registers["pmsk"] = IF AtTeststand THEN CrateBits ELSE RunCrates
                   /\ registers["gmsk"] = registers["pmsk"]]_vars

\* As long as nothing has timed out, no load enable and no FIFO reset survives the
\* command that set it, and no register has bits that belong to another.
NoStrayBits ==
  Healthy /\ Idle =>
    /\ registers["control"] \subseteq {"PULSE_EN", "PED_EN"}
    /\ registers["pmsk"] \cup registers["gmsk"] \subseteq CrateBits
    /\ registers["mask"] \subseteq {"EXT8"}

\* Every command ends, even when the SBC is silent.
EveryCommandEnds == ~Idle ~> Idle
=============================================================================
