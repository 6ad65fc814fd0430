# penn_daq2 in TLA+

penn_daq2 drives the electronics of the SNO+ detector and of its test stands: one
*MTC* (the trigger card, reached through a computer called the *SBC*) and up to
twenty crates, each with an *XL3* (a network card) in front of sixteen front end
cards. An operator types commands into a terminal, the terminal sends each line to
penn_daq2, and each line becomes a thread that talks to some of the boards and to two
databases.

This directory has the TLA+ model of that program, the TLC configurations that check
it on small instances, and TLAPS proofs of its safety properties for every value of the constants. Paths are
relative to the root of the repository; the program itself is in `src/src/`.

Contents: 1 the system and its parts; 2 the modules; 3 the runs; 4 fairness;
5 the proofs; 6 where the code and its words part; 7 what is not modelled; 8 the plan.

## 1. The system and its parts

| Part | State | Operations | Interacts with |
|---|---|---|---|
| Connection locks: `core/Globals.cpp`, `net/GenericLink.*` | `fConnected`, `fLock` of every link, the mutex `startTestLock` | `LockConnections`, `UnlockConnections`, `CheckLock`, `AcceptCallback` | every command thread; the event loop, which sets `fConnected` without the mutex |
| Command dispatch: `cont/ControllerLink.cpp` | none of its own | `ProcessCommand`: parse, lock, body, unlock | the locks, and all command bodies |
| Arguments: `core/Globals.cpp` | the hidden place of `strtok`, one for the process | `GetFlag`, `GetInt`, `GetUInt`, `GetMultiUInt`, ... | every command thread |
| Operator input: `cont/ControllerLink.cpp`, `tests/DACSweep.cpp` | `fInput`, `fLock`, `fNumControllers`, `fInputLock`, `fInputCond` | `AcceptCallback`, `RecvCallback`, `EventCallback`, `GetInput`, `GrabNextInput` | the event loop fills `fInput`; commands wait for it |
| XL3 link: `xl3/XL3Link.*`, `xl3/XL3Model.*` | `fRecvQueue`, `fRecvCmdQueue`, `fTempPacket`, `fCommandNum`, `fFECs` | `RecvCallback`, `ProcessPacket`, `SendPacket`, `GetNextPacket`, `GetNextCmdAck`, `SendCommand`, `GetMultiFCResults`, ... | the event loop fills the queues; one command thread takes from them; the board answers when it likes |
| MTC link: `mtc/MTCLink.*`, `mtc/MTCModel.*`, `mtc/MTCCmds.cpp` | `fRecvQueue`, `fTempPacket`, the registers of the MTC | `SendCommand`, `RegRead`, `RegWrite`, the settings, `MTCInit`, `SBCControl`, `CloseConnection`, `Connect` | the SBC; the locks (`sbc_control` closes and opens the connection) |
| Crate commands: `xl3/XL3Cmds.cpp` | the table of settings in the XL3, the settings of the cards | `CrateInit`; HV, relays, ... | XL3 link, debug and FEC databases |
| Pedestal runs: `tests/RunPedestals.cpp` | MTC control word, crate masks, crate modes | `RunPedestals`, `RunPedestalsEnd` | MTC and XL3 links |
| ECAL: `tests/ECAL.cpp`, `tests/CreateFECDocs.cpp`, `db/DB.cpp`, `db/DetectorDB.cpp` | `ecalID`, `ecalLogFile`, `count_tests`, the documents and rows in the databases | `ECAL`, `PostECALDoc`, `PostDebugDoc`, `GenerateFECDocFromECAL`, `AddECALTestResults`, ... | all tests, `CrateInit`, operator input, all three databases |
| Board locations: `tests/BoardID.cpp`, `db/DB.cpp` | the documents of boards, `configuration_snoplus` | `BoardID`, `UpdateLocation`, `RemoveFromConfig` | XL3 link, debug database |
| Board tests: `tests/*.cpp` | results of each test | one function per test; searches for thresholds; scans | both links, databases |
| Final test: `tests/FinalTest.cpp` | documents it collects | run the tests in order | all tests, operator input |
| Macros, logging, start and exit: `core/*.cpp`, `net/NetUtils.cpp` | log files, configuration | `RunMacro`, `lprintf`, `StartLogging`, `SigHandler` | everything |
| HTTP and JSON: `db/Pouch.cpp`, `db/Json.cpp` | none | libraries | outside services |
| TUBii: `tubii/*`; terminal: `tut/*` | | text commands to one device; a client of the controller port | reached by ECAL for one bit; a program of its own |

There are two kinds of thread: the libevent loop, which runs all callbacks, and one
detached pthread for every command line. They share the `fConnected` and `fLock`
flags (partly under `startTestLock`), the receive queues (under one mutex per link),
the operator's mailbox (under `fInputLock`), the place of `strtok` and `count_tests`
(under nothing), and the documents in the databases (under CouchDB's revisions).

What is hard here, and what makes each part correct:

* **Locks.** A command checks and marks several boards. It has to get all or none,
  free what it got and nothing else, and never talk to a board another command has.
  `sbc_control` is special: it takes an MTC that need not be connected, and
  disconnects it. (MutualExclusion, LocksAccountedFor, BoardsStayConnected, and the
  implementation of an indivisible allocator.)
* **Byte streams.** TCP keeps the order of bytes and not the borders of packets; the part
  of a packet that ends a callback is kept for the next one. (DeliveredAsSent,
  EveryPacketArrives.)
* **XL3.** Answers come late, after a time-out; packet numbers wrap; connections come
  back with old packets still queued. A command that returns must have its own
  answers. (AnswersAreOwn, BackInStep, LateAnswersAreSkipped, OwnAcksAreKept.)
* **MTC.** Answers carry nothing that ties them to a request, and registers are
  changed by reading and writing back. (LagsByTimeOuts, PedestalsEnd,
  RunsAsGivenOrNotAtAll, NoStrayBits.)
* **Crate initialisation.** Sixteen rows go out without answers, put together from up to
  seven documents each, any of which may be missing or fail; the XL3 keeps rows of
  commands that were given up; boards are exchanged and recognised by their ids.
  (InitUsesOwnRows, UpdatedMeansLoaded, SettingsBelongToBoard.)
* **ECAL.** Every test needs what the tests before it measured, an ECAL may be completed
  later and tests repeated, initialisations and tests fail and the script goes on.
  (TestedWithLatest.)
* **FEC documents.** They are made from all rows of an ECAL while that may still be running;
  the newest counts and incomplete slots get none. (PostedIsComplete,
  MostRecentCounts, NoSlotForgotten.)
* **Board locations.** One document says where every board of the detector is, and commands on
  different crates rewrite it at the same time. (OnePlaceEach, EntriesAreKnown, and the
  implementation of a registry.)
* **Arguments.** Every thread moves the one place of `strtok`. (ReadAsWritten, EveryCallEnds.)
* **Operator input.** The same line may be a command or an answer. (LineHasOneUse,
  AnswersAreFresh, OpenQuestionHasAsker, AnswerIsTheLine, AnswersArrive.)
* **Waiting.** Every wait for the hardware must end whatever that does (EveryCommandEnds of `XL3Commands` and
  `MTCCommands`), and nobody may be left waiting inside the lock functions (LockCallsReturn). A wait for the operator
  has no time-out and need not end.

`PROJECT.json` lists the hazards that weigh most one by one, each at its line; section 6 has the smaller ones.

## 2. The modules

| Module | What it is |
|---|---|
| `BoardAllocator` | abstract specification: clients ask for a set of boards and are granted all of it or refused, in one step |
| `Connections` | `LockConnections`, `UnlockConnections`, `SBCControl` and the flags, one action per board visited; implements `BoardAllocator` |
| `CommandTable` | for every command of `ProcessCommand`: the arguments of its `LockConnections` call and the boards its body uses |
| `CheckRecvQueues` | `check_recv_queues` composed with `Connections` |
| `PacketStream` | `RecvCallback` of both links: bytes into packets |
| `XL3Commands` | the link to one XL3: `SendCommand`, `GetMultiFCResults`, both queues, the board |
| `MTCCommands` | the link to the MTC, its registers, and the commands that change them |
| `OperatorInput` | the controller slot, the mailbox, `GetInput`, `GrabNextInput` |
| `Arguments` | the functions that read arguments, on one `strtok` |
| `CrateInit` | `crate_init`: databases, the table in the XL3, loading |
| `ECAL` | the script of `ecal`, the rows its tests post, the settings its initialisations load |
| `FECDocs` | `create_fec_docs`, composed with `ECAL` in one next-state relation |
| `BoardRegistry` | abstract specification: every board in one place or none; registering what was found, in one step |
| `BoardLocations` | `board_id -l`: the boards read, the documents of the boards, the configuration; implements `BoardRegistry` |
| `MC...` | instances for TLC |
| `ConnectionsProofs` | proofs about `Connections` and `CommandTable` |
| `InputProofs` | proofs about `OperatorInput` and `Arguments` |
| `PacketStreamProofs`, `XL3CommandsProofs`, `MTCCommandsProofs`, `CrateInitProofs`, `BoardLocationsProofs` | proofs about the module each is named for |
| `FECDocsProofs` | proofs about `FECDocs` and `ECAL` |

The modules stack. `Connections` shows that one thread at a time uses a link, and only while
the link is connected; `PacketStream` shows that packets come out of a link as they went in. `XL3Commands`
and `MTCCommands` take both for granted by having one client and a queue of whole packets. They show
in turn when a command gets its own answers; `CrateInit`, `BoardLocations` and `ECAL`
take a request to be answered or to time out, as one step.

**Connections.** A thread goes `idle -> lock -> check -> grab -> body -> unlock ->
release -> done`, or from `check` to `leave` when it is refused. `EnterLockConnections` takes
the mutex, `CheckBoard` is one turn of the check loop (the MTC first and then the crates),
`Decide` the test of the flags after it, `GrabBoard` one turn of the second loop, and so on. The turns are steps because
the event loop sets `fConnected` (`AcceptCallback`, `Connect`) between them.
`CloseConnection` and `Connect` are the halves of `SBCControl`. The local variables
`busyFlag` and `ncFlag` keep the code's names. The early answer of `CheckLock`, which
reports a missing connection without looking at the lock, is `NoConnection` before
`Busy`. `fConnected` of a crate never goes back to false, because the code never
resets it.

**PacketStream.** A byte is the packet it belongs to and its place in it; nothing in the guards looks at
either, apart from the length in the header of the SBC. `Read` is the reading loop of `RecvCallback`, which
takes any part of what was sent; `TakePacket`, `CompletePacket` and `KeepMore` are the three ways
through a turn of its second loop. The callback of the MTC reads the length of a packet from its first bytes
even when they have not all come: the length is then any number of `Garbled`, and the ghost `cut` records it.
libevent reads at most 4096 bytes for one callback, so the buffer of 10000 bytes is never too short.

**XL3Commands.** `Send` is `SendCommand` up to its wait, `TakePacket` one turn of its
loop, `TakeAck` one turn of the loop of `GetMultiFCResults`. `Block` is finding the queue
empty, `TimeOut` the end of the timed wait, after which the code does not look at the
queue again. `BoardAnswers` and `BoardAcknowledges` are the XL3, which is outside the
repository. A packet has a ghost identity, the request it answers, that no guard looks at;
properties use it. Two ways of using acknowledgements exist in the callers, and both
are modelled (`queue` and `read`).

**MTCCommands.** A command is a sequence of register requests (`Step`), built by
operators with the names of the code's functions: `Enable`, `Load`, `SetupPedestals` as
`StartPedestals`, `MTCInit`. The thread is `SendPacket`, `GetNextPacket`, `TimeOut`. Bits that
code looks at are elements of sets; registers that are only written are one register
`data`; loops that shift serial bits turn once. At most one setting is out of range per
command (`failing`). `sbc_control -r` may come between two commands.

**OperatorInput.** Every critical section of `fInputLock` is one action. A text is two
characters, each with the line it came from, so that a mixture of two lines can be
seen. `WakeUp` is the loop around `pthread_cond_wait`.

**Arguments.** A word is a flag that is asked for, another flag, a numbered flag, or a value. `Call` is
everything up to the first `strtok`, `NextWord` and `TakeValue` the later ones; each call of `strtok` is one step.
The four kinds of call stand for the eight functions, which differ in what stops them. When the copy of the line
in which `strtok` has its place is gone with the call that made it, any word may be found (`NextWords`).

**CrateInit.** One step per database access or XL3 request, except that the look-ups of one slot are one step
with the sending of its row, since nothing else looks at the row meanwhile; a look-up that fails ends the command
(`LookUpFails`). A setting is where its value comes from: the default document, the hardware document of the
slot, or a view of the debug database for a board. A board is the mother board with its
daughter boards. Packets to an XL3 that has gone are lost silently, and a rebooted XL3 has blank rows
(`LoseLink`).

**ECAL and FECDocs.** `Script` is the body of `ECAL`, with what each `CrateInit` is told to load; a step of it
covers all crates, since one thread goes through them in turn and no other touches them. `Initialise` and `RunTest` take the crates
or places at which the step fails from any point on. A row is a type, a place, a time and whether it finds
fault; the measured value is its identity. `FECDocs` adds the threads of `create_fec_docs`, one action per database
access, between any two steps of an ECAL. `count_tests` is one variable. `CreateFECDBDoc` for a slot that is
not in the ECAL document leaves the document as the one before, or ends the process.

**BoardLocations.** `ReadIds`, `LocateBoards`, `GetConfig`, `PutConfig` are the database and XL3 accesses of
`BoardID` and `UpdateLocation`, with the work between two of them. `Updated` is the removal, the entry and the second
removal. The database is outside the repository: it keeps a revision and refuses a document that is built
on another (`Accepts`). Two assumptions: the configuration has every crate, and hardware ids are unique.
The refinement mapping (`Places`) turns the table around: for each board, where it is.

**Definitions called "Slip".** Some definitions have a comment that begins with *Slip*: a
plausible mistake in the definition that follows it. No specification uses them. Putting the slip in place of
the definition must break the property that `PROJECT.json` lists with it under
`mutants`; this shows that the property depends on that piece of code.

## 3. The runs

Runs that pass:

| Run | Checks | Instance |
|---|---|---|
| `connections` | TypeOK, MutualExclusion, LocksAccountedFor, BoardsStayConnected, ImplementsAllocator, LockCallsReturn | three threads, two crates; the first line is any command of the table, the second one of two crate commands or "everything", the third any `sbc_control` |
| `xl3_commands` | TypeOK, AnswersAreOwn, BackInStep, LateAnswersAreSkipped, OwnAcksAreKept, EveryCommandEnds | three commands of any kind, numbers modulo 8 with a window of 3, two tries, two reads per queueing command |
| `mtc_commands` | TypeOK, LagsByTimeOuts, NoStrayBits, PedestalsEnd, RunsAsGivenOrNotAtAll, EveryCommandEnds | two commands out of six, each with any one setting out of range, time-outs anywhere |
| `operator_input` | TypeOK, LineHasOneUse, AnswersAreFresh, OpenQuestionHasAsker, AnswerIsTheLine, AnswersArrive | `final_test` and `dac_sweep` on one crate, four lines |
| `packet_stream` | DeliveredAsSent, EveryPacketArrives | either link; three packets of 4 bytes, or of 3 or 5 with a header of 2; reads of any length; one loss |
| `crate_init` | TypeOK, InitUsesOwnRows, UpdatedMeansLoaded, SettingsBelongToBoard | two slots, three boards with all, one or no documents; three commands of five; one exchange of boards, one loss of the link |
| `fec_docs` | FecTypeOK, PostedIsComplete, MostRecentCounts, TestedWithLatest, NoSlotForgotten | two crates of one slot; two ECALs of four forms (full; quick with slots of the detector database; completing an earlier one, without masks and with), one `create_fec_docs` of three forms; one faulty result, one failure |
| `board_locations` | OnePlaceEach, EntriesAreKnown, ImplementsRegistry | two crates, one slot, two positions; three boards, one unknown to the database; any configuration at the start; two commands, one exchange, one failure |
| `arguments` | ReadAsWritten, EveryCallEnds | two threads, lines of up to three words, two calls each, an array of 14 with the flags -04 and -07; calls for a numbered array on lines with -07, which the code ignores, are left to `arguments_numbered_flags` |

Why the bounds are enough. *Connections*: a conflict needs two commands; the third
thread lets a lock be lost by one, stolen by the second and seen by the third. Two crates
let requests overlap in part, so that the check loop succeeds on one board and fails on
the next. One command per thread suffices, since the code has no state per thread that outlives
a command, and a new line is a new thread. *XL3*: a stale answer needs a command that times
out, one that meets the answer, and one after it to show that the link is in step again.
The initial number is arbitrary, so three commands meet every position of the wrap. Two tries
let a command skip one stale packet and fail on two. A session longer than `NumMod` commands without an
answered one in between could meet a packet whose number has come around exactly; that needs
65536 commands to time out one after another, and is left out by `MaxCommands` < `NumMod` in the run (NoneARoundBehind in section 5). *MTC*: the second command sees whatever the first left
in registers and queues; every command is followed by every other. *Operator*: four lines are two
answers for each of the two commands or commands in between. *Packets*: three packets let a read bring the end
of one, a whole one and the start of a third. *crate_init*: one command to leave rows behind when it is given up, an exchange of boards,
and two more to use what is left. Two slots let a command end between them. *ECAL*: rows are only compared within a slot, and crates fail separately,
so one slot in each of two crates shows both; two ECALs let one repeat or complete the other. *Board locations*: a second place for a board needs two commands on
two crates and a board that moves between them; the third board is the one displaced. *Arguments*: three words
are a flag, its value, and a word after both or a flag as a value; the numbers 4 and 7 are below and above the last digit of 14.

Runs that find a violation, each described in section 6: `check_recv_queues`,
`fec_docs_shared_counts`, `arguments_numbered_flags`.

`CHECK_DEADLOCK FALSE` stands in the configurations whose sessions end: when the bounds on commands, lines
or packets are used up, or the process has ended, the system stops. `Connections` and `XL3Commands` check
for deadlock: there the event loop can always take one more connection.

## 4. Fairness

Safety properties need none. For liveness:

* `Connections`: weak fairness of each thread's steps inside the two lock functions (`LockStep`), since the scheduler
  runs every thread. A thread that waits for the mutex gets it because there are finitely many threads and each passes
  the functions a finite number of times. Nothing is assumed of the bodies (`BodyStep`): `final_test`, `ecal` and
  `dac_sweep` wait for the operator with no time-out (`ControllerLink.cpp:113`), and `ReadOutBundles` can go round for
  ever (`XL3Model.cpp:308`). A body that never returns keeps its boards for ever; it keeps no other command from being
  refused, or granted what is left. Nothing is assumed of the event loop.
* `XL3Commands`: weak fairness of the client alone (`pthread_cond_timedwait` ends). The XL3 and
  the network may do nothing for ever, or reconnect without end.
* `MTCCommands`: the same for the sending and the receiving step; nothing of the SBC.
* `OperatorInput`: weak fairness of a woken thread and of a thread that polls. No fairness of the operator, who may never
  answer; the property only speaks of questions that have been answered.
* `PacketStream`: weak fairness of the event loop, which calls back while there is something to read. Nothing of the peer.
* `Arguments`: weak fairness of each thread.

## 5. The proofs

Every safety invariant, action property and refinement that a passing run checks is also a
theorem, for every value of the constants, some of them under a hypothesis that is named below. What a property itself
leaves out (`~cut`, `stale`, `NoneMissed`, `Healthy`, `disturbed`, and so on: section 6) its theorem leaves out too. A run shows that a property holds on an instance where the
interesting cases happen; the theorem shows that the bounds of the instance hide nothing. There
are eight proof modules. Each has an inductive invariant, with one lemma or step per action and
one step per conjunct the action can disturb.

The assumptions of the modules (`...Assumption`) give the kinds of the constants and no more; TLC evaluates them in the
runs. `MTCCommands` has `Names` among the eight commands it defines, and `FECDocs` a menu that is not empty.
A theorem that needs more names it as a hypothesis:

| Hypothesis | Says | Why it is needed |
|---|---|---|
| OneSbcControl | no two `sbc_control` are under way at once | two of them share the MTC (section 6), and nothing in the code prevents it; needed for the MTC only, the crates need nothing. `OneLineSuffices` proves it of sessions with one such line |
| ScopesCoverUse | a body talks only to boards it has locked | `ecal -l` and `check_recv_queues` break it; proved for all other commands |
| OneAskerAtATime | any two commands that ask the operator have a board in common | two `dac_sweep` on different crates share a mailbox (section 6) |
| NoneARoundBehind | no answer arrives `NumMod` or more requests after its own | its number is that of a new request. TLC finds BackInStep violated with two numbers and three commands. `ShortSessions` proves the hypothesis for sessions of up to `NumMod` commands, 65536 in the code |
| OneRunsAtATime | no two `create_fec_docs` run at once | they share `count_tests` (run `fec_docs_shared_counts`) |

ScopesCoverUse and OneAskerAtATime speak of constants; OneSbcControl, NoneARoundBehind and OneRunsAtATime of states,
so those theorems are about the behaviours in which they hold throughout. None of the five is enforced by the code.

**`ConnectionsProofs`**, for any set of threads and any set of crates:

| Theorem | States | Hypotheses |
|---|---|---|
| `TypeCorrect` | TypeOK | |
| `MutualExclusionHolds` | no two commands use one crate; MutualExclusion | ScopesCoverUse; for the MTC also OneSbcControl |
| `LocksAccountedForHolds` | a crate is locked exactly while a thread has it; LocksAccountedFor | none; for the MTC OneSbcControl |
| `BoardsStayConnectedHolds` | the crates in use stay connected; BoardsStayConnected | ScopesCoverUse; for the MTC also OneSbcControl |
| `AllocatorImplemented` | ImplementsAllocator: the lock functions refine `BoardAllocator` | OneSbcControl |
| `TableKeepsToScope` | every command of `CommandTable` uses only boards it locks, `ecal -l` and `check_recv_queues` excepted | |
| `TableCommandsExclude` | MutualExclusion for sessions of the program's own commands | OneSbcControl |
| `OneLineSuffices` | OneSbcControl for sessions with one `sbc_control` line at most | |

The hypothesis OneSbcControl excludes real behaviours. With two overlapping `sbc_control`, MutualExclusion,
LocksAccountedFor, BoardsStayConnected and ImplementsAllocator all fail, for the MTC, and TLC finds each of them violated
when the menu has two such lines. What holds in every session is what the theorems say of the crates.

MutualExclusion is not inductive. `IndInv(B)`, which speaks of the boards in `B` and is used with the crates (where
it needs no hypothesis) and with all boards, adds: the mutex is held exactly by the thread inside one
of the two functions (MutexHeldInside); what the check loop has passed is still free and,
where the command insists on it, connected (CheckedFree), which holds because only a
thread with the mutex sets `fLock` and only the owner of the MTC closes its
connection; the flags decide where a thread can be (FlagsDecide); no board has two
holders (OneHolder), nor two owners in the sense of the refinement mapping (OneOwner); and
granted boards are connected (GrantedConnected). The refinement maps a grant to the end of the check loop, a refusal to the first reason
found, and a return to the end of `UnlockConnections`.

**`PacketStreamProofs`**, for packets of any length, any number of them and of losses: `SpecTypeOK`,
`SpecDeliveredAsSent` (DeliveredAsSent), `OnlyTheseCut` and `WholeWithoutLoss`. The first says that RecvCallback never waits for a
negative number of bytes. The second says that packets are delivered whole, in order and once until the stream is cut (`cut`), and
nothing about what comes afterwards. The third says what cuts it: a loss of the link with part of a packet in `fTempPacket`, or a
read of the SBC that ends inside a header. The fourth follows: an XL3 link that has not been lost delivers whole packets in order however its
bytes are cut up. The second rests on the stream of all bytes that are sent and not delivered, wherever they are: kept in `fTempPacket`,
read, or on the wire. As long as nothing has been cut wrongly (`~cut`) this stream is whole packets (InWholePackets) in order
(InOrder), `fBytesLeft` is what the kept packet lacks (KeptIsCounted), and what is delivered comes before the
stream (DeliveredWhole). Reading and keeping do not change the stream; delivering takes the packet at its front.

**`XL3CommandsProofs`**, for any modulus of the packet numbers, window, number of tries, reads and commands:

| Theorem | States | Hypotheses |
|---|---|---|
| `SpecTypeOK` | TypeOK | |
| `SpecLateAnswersAreSkipped` | LateAnswersAreSkipped | |
| `SpecAnswersAreOwn` | AnswersAreOwn | NoneARoundBehind |
| `SpecBackInStep` | BackInStep | NoneARoundBehind |
| `SpecOwnAcksAreKept` | OwnAcksAreKept | NoneARoundBehind |

The centre is NumbersKnown: what is under way has a number that can be worked out from how many requests ago its request was sent, for
the last `NumMod` of them. An answer whose number fits is then the answer. BackInStep needs the order of
the queues as well: the latest request, its answer and the packet received are the last ones of their queues (StepInv), so that nothing is left behind
them once it has been answered. OwnAcksAreKept needs the order of the acknowledgements across the board's work list,
its packets and `fRecvCmdQueue`, with none missing from the one taken last (AckInv).

**`MTCCommandsProofs`**, for sessions of any length:

| Theorem | States |
|---|---|
| `SpecTypeOK` | TypeOK |
| `SpecLagsByTimeOuts` | LagsByTimeOuts |
| `SpecNoStrayBits` | NoStrayBits |
| `SpecPedestalsEnd` | PedestalsEnd |
| `SpecRunsAsGivenOrNotAtAll` | RunsAsGivenOrNotAtAll |

The first two need that answers come in the order of their requests, through both queues (AnswersInOrder). The other three speak of a link on which nothing
has timed out. `HealthyInv` says that such a link has one request or answer under way at most, which is that of the current step; what was read is still in the register
(ReadIsFresh); what a step has set or cleared stands until another step touches it (EffectsStand); and a stray bit is cleared further on in the same
command (StrayIsCleared). That holds for every *tidy* sequence of requests, and the lemmas show that each of the settings is tidy,
whichever argument is out of range, and that tidy sequences one after another are tidy. The end of a pedestal run is then a fact about its sequence. That a refused
run leaves the enables as they were needs ReadIsFresh once more: its steps write the control word back, with a load enable
set or cleared, and what they read is what is there.

**`InputProofs`**, about `OperatorInput` for any commands that ask, whichever boards they hold, and any number of lines, and
about `Arguments` for any threads and lines:

| Theorem | States | Hypotheses |
|---|---|---|
| `SpecTypeOK` | TypeOK of `OperatorInput` | |
| `SpecOpenQuestionHasAsker` | OpenQuestionHasAsker | |
| `SpecAnswersAreFresh` | AnswersAreFresh | |
| `SpecAnswerIsTheLine` | AnswerIsTheLine | |
| `SpecLineHasOneUse` | LineHasOneUse | OneAskerAtATime |
| `ArgsSpecTypeOK` | ArgsTypeOK | |
| `SpecReadAsWritten` | ReadAsWritten | |

For the operator, `IInv` adds that a kept line was typed after the question of every command that waits
(FreshForWaiting), and `OneUseInv` that one command runs, and a line kept for it has no taker yet. For the arguments: a call that no other thread has disturbed has its
place in its own line (InPlace), and has found exactly what stands before that place (FoundSoFar). ReadAsWritten compares it with the usage texts, which offer
every number below the array's length, on the lines where the code knows all the numbers given (NoneMissed); on the others
the code and the usage texts part (run `arguments_numbered_flags`). Which words of a line are values,
and not flags that look like values, is a set chosen by its recursive description (`ValuesIn`). That there is such a set for every line
is proved on a shortest line without one (`ValuesExist`), with the library's theorem on well-founded relations.

**`CrateInitProofs`**, for any slots, boards, documents, commands, exchanges and losses:

| Theorem | States |
|---|---|
| `SpecTypeOK` | TypeOK |
| `SpecUpdatedMeansLoaded` | UpdatedMeansLoaded |
| `SpecInitUsesOwnRows` | InitUsesOwnRows |
| `SpecSettingsBelongToBoard` | SettingsBelongToBoard |

The invariant: while the link holds, the slots before the one in hand have rows of this command, put together for the
board XL3Model believes to be there (RowsAreOwn), and a command that reads the ids believes in the board that is
there, or none (IdsAreRead). Boards are not exchanged during a command.

**`FECDocsProofs`**, about `ECAL` and `FECDocs` for any crates, slots, ECALs, threads, commands and failures:

| Theorem | States | Hypotheses |
|---|---|---|
| `SpecFecTypeOK` | FecTypeOK | |
| `SpecTestedWithLatest` | TestedWithLatest | |
| `SpecMostRecentCounts` | MostRecentCounts | |
| `SpecPostedIsComplete` | PostedIsComplete | OneRunsAtATime |
| `SpecNoSlotForgotten` | NoSlotForgotten | OneRunsAtATime |

TestedWithLatest is about crates whose latest initialisation has not failed: ECAL ignores a failure of CrateInit, and
tests such a crate with whatever is loaded there. It rests on LatestIsLoaded: from an initialisation of the script to the next, what is loaded is still the newest
row of each kind it loads, because the script has no test that measures such a kind in between (`TestsComeAfterLoads`, proved from the
script itself). For the documents, InHand says what a thread's document holds at each point of its loop, and
Counted and DealtWith, which need OneRunsAtATime, that `count_tests` is the tests of that document, and that the slots behind the
one in hand were offered a document exactly when they are complete.

**`BoardLocationsProofs`**, for any crates, slots, positions, boards, threads and bounds:

| Theorem | States |
|---|---|
| `SpecTypeOK` | TypeOK |
| `SpecOnePlaceEach` | OnePlaceEach |
| `SpecEntriesAreKnown` | EntriesAreKnown |
| `SpecImplementsRegistry` | ImplementsRegistry: `board_id -l` refines `BoardRegistry` |

The invariant `IInv`: no table has a board
twice, neither the crates nor the configuration nor what a thread has read of either (EveryTableOneSpotEach); past
the first loop a thread enters known boards only (EveryEntryKnown); and a thread's copy that carries the latest
revision is the configuration (LatestIsCurrent), which makes the database's check of revisions
enough to keep overlapping commands apart. `UpdatedKeepsOneSpot` and `UpdatedRegisters` are about
`UpdateLocation` itself: the first removal keeps a board from having two places, and the two removals together
are the abstract registration.

The type invariants of `PacketStream`, `Arguments` and `BoardLocations` are proved and not repeated in the runs.

**Checked by TLC only**: the liveness properties, LockCallsReturn, EveryCommandEnds (of two modules), AnswersArrive, EveryPacketArrives and
EveryCallEnds, which are outside the reach of the prover.

## 6. Where the code and its words part

Found by a run:

* **`check_recv_queues`** (`check_recv_queues`) has the test of `LockConnections` the wrong way
  round: it unlocks boards it was refused, and keeps those it got.
* **Two `create_fec_docs` at once** (`fec_docs_shared_counts`) count their tests into one global array, without a lock.
  A document is posted for a slot on which a critical test has not run.
* **Numbered flags** (`arguments_numbered_flags`). The loop over the second digit ends at the last digit of the array
  length, for every first digit. `set_mtca_thresholds -07`, `load_relays -07` to `-09` and all flags of `trigger_scan`
  but `-00` and `-10` are ignored, with their values. ReadAsWritten leaves such lines out (NoneMissed).

Seen while modelling; a property leaves out the case, or an assumption of a theorem excludes it:

* **Two `sbc_control` at once.** When the MTC is not connected, `CheckLock` says so before it looks at the lock
  (`MTCModel.cpp:101`), and `LockConnections` ignores that answer for `sbc == 2`. Both commands are granted the MTC;
  the first to finish unlocks it for third parties. (OneSbcControl.)
* **`ecal -l`** locks the crates of `-c`, none by default, and works on the crates of the document it loads
  afterwards. (ScopesCoverUse.)
* **A late answer across the wrap** of packet numbers fails the command with "Packet Num too high", where a late
  answer elsewhere is skipped. (The condition in LateAnswersAreSkipped.)
* **Acknowledgements at the wrap.** `GetLastCommandNum` is `fCommandNum-1`, -1 after the wrap, and all
  acknowledgements of that command are thrown away. (The condition in OwnAcksAreKept.)
* **Late MTC answers.** After time-outs, every answer is taken for the answer to a later request.
  `run_pedestals_end_mtc` can return normally with the pulser on: it writes back a control word read before the
  pulser was disabled. (`Healthy`.)
* **Two `dac_sweep`** on different crates share one mailbox; one line moves both on. (The run has both commands on one crate.)
* **A link lost inside a packet**, or a read that ends inside a header of the SBC: everything after it is cut at the
  wrong place. With a length of 0 the callback never returns. (`cut`.)
* **A failed initialisation** in an ECAL is ignored, and the crate is tested with whatever settings are loaded there.
  (`stale`.)
* **A link lost during `crate_init`**: "Crate configuration updated." is printed although rows were lost, and the
  cards may have been loaded with rows of an earlier command. (`broken`.)
* **`crate_init -N`** alone does not read the board ids again and may load the settings of a board that has been taken
  out. (`Refreshes`.)
* **Other threads' words.** Two commands that arrive together take words of each other's lines. (`disturbed`.)
* **A FEC document for a slot outside the ECAL** uses the document of the slot before or ends the process. (`known`.)

Faults that are one step of a model or outside it. After
`BEV_EVENT_ERROR` (`ConnectionLost` in `OperatorInput`) the controller slot stays taken for
ever. `GetInput` without a `maxLength`, as in `final_test`, leaves the tail of a longer answer in
the caller's buffer; `AnswerIsTheLine` is checked for the callers that give one. A numbered flag equal to the array
length writes one element past it (`load_relays -16`, `trigger_scan -20`, `set_mtca_thresholds -14`). Time-outs of the crate reset and of
the board ids of an ECAL document are caught nowhere. A change of the configuration that the database refuses, and a FEC document that could not be posted, are passed over in silence. Rows of
tests that are not critical all count, superseded ones too (`DB.cpp:849`). `SetupPedestals` ignores a fine delay that
is out of range, and starts the pulser before it has set the crate masks (`MTCModel.cpp:198`, `:202`). ECAL
returns without closing its log file when masks are given by half (`ECAL.cpp:90`) and when the detector database fails (`ECAL.cpp:117`), and leaves `ecalLogFile`
pointing to a closed file after a normal end.

## 7. What is not modelled, and why

* HTTP, JSON and SQL themselves, the TUBii link and the terminal client: libraries, or not reached from a command.
* The numerical analysis of the tests and their searches for thresholds: arithmetic on measured data, right or
  wrong by the response of the hardware. A test in `ECAL` is the row it posts.
* The read-out of pedestal runs (`ReadOutBundles`) and of `cald_test`, the Xilinx load: planned.
* `FinalTest`, macros, log files, start and exit: planned; their faults are mostly about memory, which is not modelled.
* Data races on `fConnected`, `fLock`, `count_tests`, the place of `strtok` and `std::queue`, which the C++ standard
  leaves undefined, are taken as interleavings of whole accesses; a call of `strtok` is one access.
* The wording of answers, and the exact form of documents.

## 8. The plan

In this order:

1. Read-out loops on top of `XL3Commands`: `ReadOutBundles` (repeats without end when nothing is queued)
   and `GetCaldTestResults` (after the wrap).
2. The crate half of `RunPedestals`, composed with `MTCCommands`: what a failure in one half leaves in the other.
3. `FinalTest`, the ECAL log file, macros and the exit of the program.
