---------------------------- MODULE CrateInit ----------------------------
(***************************************************************************)
(* CrateInit of xl3/XL3Cmds.cpp: one thread configures one crate.  It asks *)
(* the databases for the settings of every slot, sends the slots one by    *)
(* one to the XL3 without waiting for answers, and then tells the XL3 to   *)
(* load what it has been sent into the front end cards.  Databases fail,   *)
(* the XL3 times out or reboots, and between two commands the operator     *)
(* moves boards.  The XL3 and the databases are outside the repository.    *)
(***************************************************************************)
EXTENDS Naturals, FiniteSets

CONSTANTS
  LastSlot,    \* slots are 0 .. LastSlot; 15 in the code
  Boards,      \* mother boards
  NoBoard,     \* the id 0x0000 of a slot that has not been read
  Documents,   \* <<board, view>>: what the test database knows
  Menu,        \* the commands the operator may type
  MaxCommands, \* bound: commands in a session
  MaxSwaps,    \* bound: times the operator changes boards
  MaxLosses    \* bound: times the XL3 drops its connection

Slots == 0 .. LastSlot
Flags == {"x", "B", "T", "D", "C", "A", "N", "e", "t"}
Command == [flags : SUBSET Flags, mask : SUBSET Slots]
NoCommand == [flags |-> {}, mask |-> {}]

(* A view of the test database and the setting it gives. *)
SettingOf == [get_crate_cbal |-> "vbal", get_zdisc |-> "vthr",
              get_noise |-> "vthr", get_ttot |-> "tdisc", get_cmos |-> "tcmos"]
Views == DOMAIN SettingOf
Settings == {SettingOf[v] : v \in Views}

ASSUME CrateInitAssumption ==
  /\ LastSlot \in Nat
  /\ NoBoard \notin Boards
  /\ Documents \subseteq Boards \X Views
  /\ Menu \subseteq Command
  /\ MaxCommands \in Nat /\ MaxSwaps \in Nat /\ MaxLosses \in Nat

VARIABLES
  inSlot,  \* the board in each slot
  xilinx,  \* the slots whose board has its gate array loaded
  link,    \* whether packets reach the XL3 (fConnected stays set either way)
  table,   \* the XL3: the settings received for each slot
  loaded,  \* the settings each slot runs with
  fFECs,   \* XL3Model: the boards it believes to be in the slots
  pc, cmd, \* the thread
  slot,    \* the slot it fills next
  said,    \* "Crate configuration updated." has been printed
  number,  \* ghost: commands so far
  broken,  \* ghost: the link was down at some time during the command
  swaps, losses

outside == <<inSlot, xilinx, link, table, loaded, swaps, losses>>
vars == <<inSlot, xilinx, link, table, loaded, fFECs, pc, cmd, slot, said,
          number, broken, swaps, losses>>

Default == [from |-> "default", board |-> NoBoard]
Source == [from : {"default", "hw"} \cup Views, board : Boards \cup {NoBoard}]
Row == [values : [Settings -> Source], triggers : BOOLEAN, by : 0 .. MaxCommands]
BlankRow == [values |-> [k \in Settings |-> Default], triggers |-> FALSE, by |-> 0]

(* The switches of the command line that make CrateInit look into a view. *)
Asks(c, v) ==
  CASE v = "get_crate_cbal" -> c.flags \cap {"B", "A"} # {}
    [] v = "get_zdisc"      -> "N" \in c.flags \/ ("A" \in c.flags /\ "T" \notin c.flags)
    [] v = "get_noise"      -> "T" \in c.flags /\ "N" \notin c.flags
    [] v = "get_ttot"       -> c.flags \cap {"D", "A"} # {}
    [] v = "get_cmos"       -> c.flags \cap {"C", "A"} # {}

(* "make sure crate_config is up to date" *)
Refreshes(c) == c.flags \cap {"B", "T", "D", "C", "A"} # {}

(* The views a slot is looked up in, and the documents that are there. *)
LookUps(c, s) ==
  IF s \in c.mask /\ fFECs[s] # NoBoard THEN {v \in Views : Asks(c, v)} ELSE {}
Found(c, s) == {v \in LookUps(c, s) : <<fFECs[s], v>> \in Documents}

(* mb_consts of one slot: the defaults, then the hardware document, then   *)
(* whatever the test database knows of the board of that id.               *)
RowOf(c, s) ==
  LET start == IF "e" \in c.flags /\ s \in c.mask
               THEN [from |-> "hw", board |-> NoBoard] ELSE Default
  IN  [values |-> [k \in Settings |->
         IF \E v \in Found(c, s) : SettingOf[v] = k
         THEN [from |-> CHOOSE v \in Found(c, s) : SettingOf[v] = k,
               board |-> fFECs[s]]
         ELSE start],
       triggers |-> "t" \in c.flags,
       by |-> number]

TypeOK ==
  /\ inSlot \in [Slots -> Boards]
  /\ xilinx \subseteq Slots
  /\ link \in BOOLEAN /\ said \in BOOLEAN /\ broken \in BOOLEAN
  /\ table \in [Slots -> Row] /\ loaded \in [Slots -> Row]
  /\ fFECs \in [Slots -> Boards \cup {NoBoard}]
  /\ pc \in {"idle", "reset", "docs", "config", "slots", "ctc", "init", "dead"}
  /\ cmd \in Menu \cup {NoCommand}
  /\ slot \in 0 .. LastSlot + 1
  /\ number \in 0 .. MaxCommands
  /\ swaps \in 0 .. MaxSwaps /\ losses \in 0 .. MaxLosses

Init ==
  /\ inSlot \in {f \in [Slots -> Boards] : \A s, t \in Slots : f[s] = f[t] => s = t}
  /\ xilinx = {}
  /\ link = TRUE
  /\ table = [s \in Slots |-> BlankRow] /\ loaded = [s \in Slots |-> BlankRow]
  /\ fFECs = [s \in Slots |-> NoBoard]
  /\ pc = "idle" /\ cmd = NoCommand /\ slot = 0 /\ said = FALSE
  /\ number = 0 /\ broken = FALSE /\ swaps = 0 /\ losses = 0

----------------------------------------------------------------------------
(* The thread. *)

(* CrateInit is called, its crate locked. *)
Start(c) ==
  /\ pc = "idle" /\ number < MaxCommands
  /\ pc' = IF "x" \in c.flags THEN "reset" ELSE "docs"
  /\ cmd' = c /\ slot' = 0 /\ said' = FALSE
  /\ number' = number + 1 /\ broken' = ~link
  /\ UNCHANGED <<outside, fFECs>>

(* A return, early or not; what CrateInit returns is not looked at. *)
Return == pc' = "idle" /\ UNCHANGED <<cmd, slot, number, broken>>
GoOn(step) == pc' = step /\ UNCHANGED <<cmd, slot, number, broken>>

(* RESET_CRATE.  Nothing catches the exception of a time-out here: the     *)
(* process ends.                                                           *)
ResetCrate ==
  /\ pc = "reset"
  /\ \/ link /\ xilinx' = Slots /\ GoOn("docs")
     \/ link /\ xilinx' \in SUBSET Slots /\ Return
     \/ xilinx' \in {xilinx} \cup (IF link THEN {Slots} ELSE {}) /\ GoOn("dead")
  /\ UNCHANGED <<inSlot, link, table, loaded, swaps, losses, fFECs, said>>

(* The hardware documents of the slots (-e) and CRATE_INIT_DOC. *)
GetDocs ==
  /\ pc = "docs"
  /\ \/ GoOn(IF Refreshes(cmd) THEN "config" ELSE "slots")
     \/ Return
  /\ UNCHANGED <<outside, fFECs, said>>

(* Slip: slots that read 0 keep the id they had. *)
IdsReadKept(c) ==
  [s \in Slots |-> IF s \in c.mask /\ s \in xilinx THEN inSlot[s] ELSE fFECs[s]]

(* The ids BUILD_CRATE_CONFIG brings: a board without its gate array has 0. *)
IdsRead(c) ==
  [s \in Slots |-> IF s \notin c.mask THEN fFECs[s]
                   ELSE IF s \in xilinx THEN inSlot[s] ELSE NoBoard]

(* BUILD_CRATE_CONFIG, then the deselection of the slots; a time-out of    *)
(* either ends the command, with the ids of the first kept or not.         *)
UpdateCrateConfig ==
  /\ pc = "config"
  /\ \/ link /\ fFECs' = IdsRead(cmd) /\ GoOn("slots")
     \/ fFECs' \in {fFECs} \cup (IF link THEN {IdsRead(cmd)} ELSE {}) /\ Return
  /\ UNCHANGED <<outside, said>>

(* Slips: the loop stops one slot early, or one too late. *)
LastTurnEarly == LastSlot - 1
LastTurnLate == LastSlot + 1

(* The loop over the slots ends with this one. *)
LastTurn == LastSlot

(* One turn of the loop over the slots: the databases are asked, and the   *)
(* row is sent without waiting for an answer.  A database that fails ends  *)
(* the command where it stands.                                            *)
SendSlot ==
  /\ pc = "slots"
  /\ table' = IF link THEN [table EXCEPT ![slot] = RowOf(cmd, slot)] ELSE table
  /\ slot' = slot + 1
  /\ pc' = IF slot = LastTurn THEN "ctc" ELSE "slots"
  /\ UNCHANGED <<inSlot, xilinx, link, loaded, swaps, losses, fFECs, said, cmd,
                 number, broken>>

LookUpFails ==
  /\ pc = "slots" /\ LookUps(cmd, slot) # {}
  /\ Return
  /\ UNCHANGED <<outside, fFECs, said>>

GetCtcDoc ==
  /\ pc = "ctc"
  /\ GoOn("init") \/ Return
  /\ UNCHANGED <<outside, fFECs, said>>

(* Slip: the mask is sent without swapping its bytes. *)
LoadedUnswapped(c) ==
  [s \in Slots |-> IF LastSlot - s \in c.mask THEN table[s] ELSE loaded[s]]

(* CRATE_INIT with board number 666: the XL3 loads the slots of the mask.  *)
Loaded(c) == [s \in Slots |-> IF s \in c.mask THEN table[s] ELSE loaded[s]]

InitCrate ==
  /\ pc = "init"
  /\ \/ link /\ loaded' = Loaded(cmd) /\ said' = TRUE
     \/ loaded' \in {loaded} \cup (IF link THEN {Loaded(cmd)} ELSE {}) /\ said' = FALSE
  /\ Return
  /\ UNCHANGED <<inSlot, xilinx, link, table, swaps, losses, fFECs>>

----------------------------------------------------------------------------
(* The outside. *)

(* Another board is put into a slot, or two slots are exchanged, while no  *)
(* command runs.  A board that has been moved has lost its gate array.     *)
SwapBoards ==
  /\ pc = "idle" /\ swaps < MaxSwaps
  /\ \E s \in Slots : \E b \in Boards \ {inSlot[s]} :
       /\ inSlot' = [t \in Slots |-> IF t = s THEN b
                                     ELSE IF inSlot[t] = b THEN inSlot[s] ELSE inSlot[t]]
       /\ xilinx' = {t \in xilinx : inSlot'[t] = inSlot[t]}
  /\ swaps' = swaps + 1
  /\ UNCHANGED <<link, table, loaded, fFECs, pc, cmd, slot, said, number, broken, losses>>

(* The XL3 drops its connection, and may have rebooted. *)
LoseLink ==
  /\ link /\ losses < MaxLosses
  /\ link' = FALSE /\ broken' = TRUE /\ losses' = losses + 1
  /\ table' \in {table, [s \in Slots |-> BlankRow]}
  /\ UNCHANGED <<inSlot, xilinx, loaded, swaps, fFECs, pc, cmd, slot, said, number>>

(* AcceptCallback: the XL3 is back. *)
Reconnect ==
  /\ ~link /\ link' = TRUE
  /\ UNCHANGED <<inSlot, xilinx, table, loaded, swaps, losses, fFECs, pc, cmd, slot,
                 said, number, broken>>

Thread ==
  \/ ResetCrate \/ GetDocs \/ UpdateCrateConfig \/ SendSlot \/ LookUpFails
  \/ GetCtcDoc \/ InitCrate

Next ==
  \/ \E c \in Menu : Start(c)
  \/ Thread
  \/ SwapBoards \/ LoseLink \/ Reconnect

Spec == Init /\ [][Next]_vars

----------------------------------------------------------------------------
(* Properties. *)

(* When the cards are loaded, every slot of the XL3's table has been sent  *)
(* by this command, whatever earlier commands left there when a database   *)
(* failed them half way through the slots.  The rows are sent without an   *)
(* answer, so it takes a link that held for the whole command.             *)
InitUsesOwnRows ==
  [][ (loaded' # loaded /\ ~broken) => \A s \in Slots : table[s].by = number ]_vars

(* Settings measured on a board are loaded into that board and no other,   *)
(* after any exchange of boards, by every command that reads the board ids *)
(* first.                                                                  *)
SettingsBelongToBoard ==
  [][ (loaded' # loaded /\ ~broken /\ Refreshes(cmd)) =>
      \A s \in cmd.mask, k \in Settings :
        loaded'[s].values[k].from \in Views => loaded'[s].values[k].board = inSlot[s] ]_vars

(* "Crate configuration updated." is only printed when the slots of the    *)
(* mask run with rows of this command, and rows are not split: every slot  *)
(* has the trigger setting the command line asked for.                     *)
UpdatedMeansLoaded ==
  (said /\ ~broken) =>
    \A s \in cmd.mask : /\ loaded[s].by = number
                        /\ loaded[s].triggers = ("t" \in cmd.flags)
=============================================================================
