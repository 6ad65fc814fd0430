-------------------------- MODULE CrateInitProofs --------------------------
(***************************************************************************)
(* Proofs about CrateInit: any number of slots, boards, documents and      *)
(* commands, any exchange of boards and any loss of the link.              *)
(***************************************************************************)
EXTENDS CrateInit, TLAPS

(* Where the thread is in the loop over the slots. *)
SlotInStep ==
  /\ pc \in {"reset", "docs", "config"} => slot = 0
  /\ pc = "slots" => slot \in Slots
  /\ pc \in {"ctc", "init"} => slot = LastSlot + 1

LinkIsUp == ~broken => link

(* The row of a slot is of this command, and has the settings of the board *)
(* that XL3Model believes to be in the slot.                               *)
OwnRow(s) ==
  /\ table[s].by = number
  /\ table[s].triggers = ("t" \in cmd.flags)
  /\ \A k \in Settings :
       table[s].values[k].from \in Views
         => table[s].values[k].board = fFECs[s] /\ fFECs[s] # NoBoard

RowsAreOwn ==
  pc \in {"slots", "ctc", "init"} /\ ~broken => \A s \in Slots : s < slot => OwnRow(s)

(* A command that reads the board ids believes in the boards that are in   *)
(* the slots of its mask.                                                  *)
IdsAreRead ==
  pc \in {"slots", "ctc", "init"} /\ Refreshes(cmd) =>
    \A s \in cmd.mask : fFECs[s] \in {inSlot[s], NoBoard}

SaidAtTheEnd == said => pc = "idle"

IInv ==
  /\ TypeOK /\ SlotInStep /\ LinkIsUp /\ RowsAreOwn /\ IdsAreRead /\ SaidAtTheEnd
  /\ UpdatedMeansLoaded

----------------------------------------------------------------------------
(* Type correctness. *)

LEMMA ViewNames ==
  /\ Views = {"get_crate_cbal", "get_zdisc", "get_noise", "get_ttot", "get_cmos"}
  /\ "default" \notin Views /\ "hw" \notin Views
  /\ \A v \in Views : SettingOf[v] \in Settings
<1>1. Views = {"get_crate_cbal", "get_zdisc", "get_noise", "get_ttot", "get_cmos"}
  BY DEF Views, SettingOf
<1>2. \A v \in Views : SettingOf[v] \in Settings
  BY DEF Settings
<1> QED
  BY <1>1, <1>2

(* What the databases give for a slot. *)
LEMMA RowOfType ==
  ASSUME TypeOK, NEW s \in Slots
  PROVE  /\ RowOf(cmd, s) \in Row
         /\ RowOf(cmd, s).by = number
         /\ RowOf(cmd, s).triggers = ("t" \in cmd.flags)
         /\ \A k \in Settings :
              RowOf(cmd, s).values[k].from \in Views
                => RowOf(cmd, s).values[k].board = fFECs[s] /\ fFECs[s] # NoBoard
<1> DEFINE start == IF "e" \in cmd.flags /\ s \in cmd.mask
                    THEN [from |-> "hw", board |-> NoBoard] ELSE Default
           value(k) == IF \E v \in Found(cmd, s) : SettingOf[v] = k
                       THEN [from |-> CHOOSE v \in Found(cmd, s) : SettingOf[v] = k,
                             board |-> fFECs[s]]
                       ELSE start
<1>1. RowOf(cmd, s) = [values |-> [k \in Settings |-> value(k)],
                       triggers |-> "t" \in cmd.flags, by |-> number]
  BY DEF RowOf
<1>2. start \in Source /\ start.from \notin Views
  BY ViewNames DEF Source, Default
<1>3. Found(cmd, s) \subseteq Views /\ (Found(cmd, s) # {} => fFECs[s] # NoBoard)
  BY DEF Found, LookUps
<1>4. fFECs[s] \in Boards \cup {NoBoard} /\ number \in 0..MaxCommands
  BY DEF TypeOK
<1> HIDE DEF start
<1>5. ASSUME NEW k \in Settings
      PROVE  /\ value(k) \in Source
             /\ value(k).from \in Views => value(k).board = fFECs[s] /\ fFECs[s] # NoBoard
  <2>1. CASE \E v \in Found(cmd, s) : SettingOf[v] = k
    <3> DEFINE w == CHOOSE v \in Found(cmd, s) : SettingOf[v] = k
    <3>1. w \in Found(cmd, s)
      BY <2>1
    <3> HIDE DEF w
    <3>2. value(k) = [from |-> w, board |-> fFECs[s]]
      BY <2>1 DEF w
    <3> QED
      BY <1>3, <1>4, <3>1, <3>2 DEF Source
  <2>2. CASE ~\E v \in Found(cmd, s) : SettingOf[v] = k
    <3>1. value(k) = start
      BY <2>2
    <3> QED
      BY <1>2, <3>1
  <2> QED
    BY <2>1, <2>2
<1> HIDE DEF value
<1>6. [k \in Settings |-> value(k)] \in [Settings -> Source]
  BY <1>5
<1>7. RowOf(cmd, s) \in Row
  BY <1>1, <1>4, <1>6 DEF Row
<1>8. \A k \in Settings : RowOf(cmd, s).values[k] = value(k)
  BY <1>1
<1> QED
  BY <1>1, <1>5, <1>7, <1>8

LEMMA BlankRowType == BlankRow \in Row /\ [s \in Slots |-> BlankRow] \in [Slots -> Row]
<1>1. Default \in Source /\ 0 \in 0..MaxCommands
  BY CrateInitAssumption DEF Default, Source
<1>2. BlankRow \in Row
  BY <1>1 DEF BlankRow, Row
<1> QED
  BY <1>2

LEMMA CommandTypes ==
  ASSUME TypeOK
  PROVE  cmd.mask \subseteq Slots
<1>1. \A c \in Menu \cup {NoCommand} : c.mask \subseteq Slots
  BY CrateInitAssumption DEF Command, NoCommand
<1> QED
  BY <1>1 DEF TypeOK

LEMMA InitIInv == Init => IInv
<1> SUFFICES ASSUME Init PROVE IInv
  OBVIOUS
<1>1. TypeOK
  <2>1. inSlot \in [Slots -> Boards] /\ fFECs \in [Slots -> Boards \cup {NoBoard}]
    BY DEF Init
  <2>2. table \in [Slots -> Row] /\ loaded \in [Slots -> Row]
    BY BlankRowType DEF Init
  <2>3. slot \in 0 .. LastSlot + 1 /\ number \in 0 .. MaxCommands /\ swaps \in 0 .. MaxSwaps
        /\ losses \in 0 .. MaxLosses
    BY CrateInitAssumption DEF Init
  <2>4. /\ xilinx \subseteq Slots /\ link \in BOOLEAN /\ said \in BOOLEAN
        /\ broken \in BOOLEAN /\ cmd \in Menu \cup {NoCommand}
        /\ pc \in {"idle", "reset", "docs", "config", "slots", "ctc", "init", "dead"}
    BY DEF Init
  <2> QED
    BY <2>1, <2>2, <2>3, <2>4 DEF TypeOK
<1>2. SlotInStep /\ LinkIsUp /\ RowsAreOwn /\ IdsAreRead /\ SaidAtTheEnd /\ UpdatedMeansLoaded
  BY DEF Init, SlotInStep, LinkIsUp, RowsAreOwn, IdsAreRead, SaidAtTheEnd, UpdatedMeansLoaded
<1> QED
  BY <1>1, <1>2 DEF IInv

----------------------------------------------------------------------------
(* The steps of the thread. *)

LEMMA StartIInv ==
  ASSUME IInv, NEW c \in Menu, Start(c)
  PROVE  IInv'
<1>1. TypeOK /\ number < MaxCommands
  BY DEF IInv, Start
<1>2. /\ pc' \in {"reset", "docs"} /\ cmd' = c /\ slot' = 0 /\ said' = FALSE
      /\ broken' = ~link
      /\ UNCHANGED <<inSlot, xilinx, link, table, loaded, swaps, losses, fFECs>>
  BY DEF Start, outside
<1>3. number' \in 0 .. MaxCommands
  BY <1>1, CrateInitAssumption DEF Start, TypeOK
<1>4. TypeOK'
  <2>1. slot' \in 0 .. LastSlot + 1
    BY <1>2, CrateInitAssumption
  <2> QED
    BY <1>1, <1>2, <1>3, <2>1 DEF TypeOK
<1>5. SlotInStep' /\ LinkIsUp' /\ RowsAreOwn' /\ IdsAreRead' /\ SaidAtTheEnd'
      /\ UpdatedMeansLoaded'
  BY <1>2 DEF SlotInStep, LinkIsUp, RowsAreOwn, IdsAreRead, SaidAtTheEnd, UpdatedMeansLoaded
<1> QED
  BY <1>4, <1>5 DEF IInv

(* The steps before the loop over the slots. *)
LEMMA BeforeSlotsIInv ==
  ASSUME IInv, ResetCrate \/ GetDocs
  PROVE  IInv'
<1>1. TypeOK /\ slot = 0 /\ pc # "idle"
  BY DEF IInv, SlotInStep, ResetCrate, GetDocs
<1>2. UNCHANGED <<inSlot, link, table, loaded, swaps, losses, fFECs, said, cmd, slot, number,
                  broken>>
  BY DEF ResetCrate, GetDocs, GoOn, Return, outside
<1>3. /\ xilinx' \subseteq Slots
      /\ pc' \in {"idle", "docs", "dead", "config", "slots"}
      /\ pc' = "slots" => ~Refreshes(cmd)
  BY <1>1 DEF ResetCrate, GetDocs, GoOn, Return, outside, TypeOK
<1>4. TypeOK'
  BY <1>1, <1>2, <1>3 DEF TypeOK
<1>5. SlotInStep'
  BY <1>1, <1>2, <1>3, CrateInitAssumption DEF SlotInStep, Slots
<1>6. LinkIsUp' /\ SaidAtTheEnd' /\ UpdatedMeansLoaded'
  BY <1>1, <1>2 DEF IInv, LinkIsUp, SaidAtTheEnd, UpdatedMeansLoaded
<1>7. RowsAreOwn'
  <2>1. \A s \in Slots : ~(s < slot)
    BY <1>1, CrateInitAssumption DEF Slots
  <2> QED
    BY <1>2, <2>1 DEF RowsAreOwn
<1>8. IdsAreRead'
  BY <1>2, <1>3 DEF IdsAreRead, Refreshes
<1> QED
  BY <1>4, <1>5, <1>6, <1>7, <1>8 DEF IInv

LEMMA UpdateIInv ==
  ASSUME IInv, UpdateCrateConfig
  PROVE  IInv'
<1>1. TypeOK /\ slot = 0 /\ pc # "idle"
  BY DEF IInv, SlotInStep, UpdateCrateConfig
<1>2. UNCHANGED <<inSlot, xilinx, link, table, loaded, swaps, losses, said, cmd, slot, number,
                  broken>>
  BY DEF UpdateCrateConfig, GoOn, Return, outside
<1>3. /\ pc' \in {"idle", "slots"} /\ fFECs' \in {fFECs, IdsRead(cmd)}
      /\ pc' = "slots" => fFECs' = IdsRead(cmd)
  BY DEF UpdateCrateConfig, GoOn, Return
<1>4. IdsRead(cmd) \in [Slots -> Boards \cup {NoBoard}]
  BY <1>1 DEF IdsRead, TypeOK
<1>5. TypeOK'
  BY <1>1, <1>2, <1>3, <1>4 DEF TypeOK
<1>6. SlotInStep'
  BY <1>1, <1>2, <1>3, CrateInitAssumption DEF SlotInStep, Slots
<1>7. LinkIsUp' /\ SaidAtTheEnd' /\ UpdatedMeansLoaded'
  BY <1>1, <1>2 DEF IInv, LinkIsUp, SaidAtTheEnd, UpdatedMeansLoaded
<1>8. RowsAreOwn'
  <2>1. \A s \in Slots : ~(s < slot)
    BY <1>1, CrateInitAssumption DEF Slots
  <2> QED
    BY <1>2, <2>1 DEF RowsAreOwn
<1>9. IdsAreRead'
  <2>1. \A s \in cmd.mask : IdsRead(cmd)[s] \in {inSlot[s], NoBoard}
    BY <1>1, CommandTypes DEF IdsRead
  <2> QED
    BY <1>2, <1>3, <2>1 DEF IdsAreRead
<1> QED
  BY <1>5, <1>6, <1>7, <1>8, <1>9 DEF IInv

LEMMA SendSlotIInv ==
  ASSUME IInv, SendSlot
  PROVE  IInv'
<1>1. TypeOK /\ pc = "slots" /\ slot \in Slots
  BY DEF IInv, SlotInStep, SendSlot
<1>2. UNCHANGED <<inSlot, xilinx, link, loaded, swaps, losses, fFECs, said, cmd, number,
                  broken>>
  BY DEF SendSlot
<1>3. /\ table' = IF link THEN [table EXCEPT ![slot] = RowOf(cmd, slot)] ELSE table
      /\ slot' = slot + 1
      /\ pc' = IF slot = LastSlot THEN "ctc" ELSE "slots"
  BY DEF SendSlot, LastTurn
<1>4. RowOf(cmd, slot) \in Row /\ table \in [Slots -> Row]
  BY <1>1, RowOfType DEF TypeOK
<1>5. table' \in [Slots -> Row]
  BY <1>1, <1>3, <1>4
<1>6. slot' \in 0 .. LastSlot + 1
  BY <1>1, <1>3, CrateInitAssumption DEF Slots
<1>7. pc' \in {"ctc", "slots"}
  BY <1>3
<1>8. TypeOK'
  BY <1>1, <1>2, <1>5, <1>6, <1>7 DEF TypeOK
<1>9. SlotInStep'
  <2>1. CASE slot = LastSlot
    BY <1>3, <2>1 DEF SlotInStep
  <2>2. CASE slot # LastSlot
    <3>1. slot + 1 \in Slots
      BY <1>1, <2>2, CrateInitAssumption DEF Slots
    <3> QED
      BY <1>3, <2>2, <3>1 DEF SlotInStep
  <2> QED
    BY <2>1, <2>2
<1>10. LinkIsUp' /\ UpdatedMeansLoaded'
  BY <1>2 DEF IInv, LinkIsUp, UpdatedMeansLoaded
<1>11. SaidAtTheEnd' /\ IdsAreRead'
  BY <1>1, <1>2 DEF IInv, SaidAtTheEnd, IdsAreRead, Refreshes
<1>12. RowsAreOwn'
  <2> SUFFICES ASSUME ~broken, NEW s \in Slots, s < slot + 1 PROVE OwnRow(s)'
    BY <1>2, <1>3 DEF RowsAreOwn
  <2>1. table' = [table EXCEPT ![slot] = RowOf(cmd, slot)]
    BY <1>2, <1>3 DEF IInv, LinkIsUp
  <2>2. CASE s = slot
    <3>1. table'[s] = RowOf(cmd, s)
      BY <1>4, <2>1, <2>2
    <3> QED
      BY <1>1, <1>2, <3>1, RowOfType DEF OwnRow
  <2>3. CASE s # slot
    <3>1. s < slot
      BY <1>1, <2>3, CrateInitAssumption DEF Slots
    <3>2. OwnRow(s)
      BY <1>1, <3>1 DEF IInv, RowsAreOwn
    <3>3. table'[s] = table[s]
      BY <1>4, <2>1, <2>3
    <3> QED
      BY <1>2, <3>2, <3>3 DEF OwnRow
  <2> QED
    BY <2>2, <2>3
<1> QED
  BY <1>8, <1>9, <1>10, <1>11, <1>12 DEF IInv

(* The steps that only go on or return. *)
LEMMA GoOnIInv ==
  ASSUME IInv, LookUpFails \/ GetCtcDoc
  PROVE  IInv'
<1>1. TypeOK /\ pc \in {"slots", "ctc"}
  BY DEF IInv, LookUpFails, GetCtcDoc
<1>2. UNCHANGED <<inSlot, xilinx, link, table, loaded, swaps, losses, fFECs, said, cmd, slot,
                  number, broken>>
  BY DEF LookUpFails, GetCtcDoc, GoOn, Return, outside
<1>3. pc' = "idle" \/ (pc = "ctc" /\ pc' = "init")
  BY <1>1 DEF LookUpFails, GetCtcDoc, GoOn, Return
<1>4. TypeOK'
  BY <1>1, <1>2, <1>3 DEF TypeOK
<1>5. SlotInStep'
  BY <1>2, <1>3 DEF IInv, SlotInStep
<1>6. LinkIsUp' /\ SaidAtTheEnd' /\ UpdatedMeansLoaded'
  BY <1>1, <1>2 DEF IInv, LinkIsUp, SaidAtTheEnd, UpdatedMeansLoaded
<1>7. RowsAreOwn' /\ IdsAreRead'
  BY <1>1, <1>2, <1>3 DEF IInv, RowsAreOwn, OwnRow, IdsAreRead, Refreshes
<1> QED
  BY <1>4, <1>5, <1>6, <1>7 DEF IInv

(* When the cards are loaded, every row is of this command. *)
LEMMA AllRowsAreOwn ==
  ASSUME IInv, pc = "init", ~broken
  PROVE  \A s \in Slots : OwnRow(s)
<1>1. slot = LastSlot + 1
  BY DEF IInv, SlotInStep
<1>2. \A s \in Slots : s < slot
  BY <1>1, CrateInitAssumption DEF Slots
<1> QED
  BY <1>2 DEF IInv, RowsAreOwn

LEMMA InitCrateIInv ==
  ASSUME IInv, InitCrate
  PROVE  IInv'
<1>1. TypeOK /\ pc = "init"
  BY DEF IInv, InitCrate
<1>2. /\ UNCHANGED <<inSlot, xilinx, link, table, swaps, losses, fFECs, cmd, slot, number, broken>>
      /\ pc' = "idle"
  BY DEF InitCrate, Return
<1>3. /\ loaded' \in {loaded, Loaded(cmd)} /\ said' \in BOOLEAN
      /\ said' => loaded' = Loaded(cmd)
  BY DEF InitCrate
<1>4. Loaded(cmd) \in [Slots -> Row]
  BY <1>1 DEF Loaded, TypeOK
<1>5. TypeOK'
  BY <1>1, <1>2, <1>3, <1>4 DEF TypeOK
<1>6. SlotInStep' /\ LinkIsUp' /\ RowsAreOwn' /\ IdsAreRead' /\ SaidAtTheEnd'
  BY <1>2 DEF IInv, SlotInStep, LinkIsUp, RowsAreOwn, IdsAreRead, SaidAtTheEnd
<1>7. UpdatedMeansLoaded'
  <2> SUFFICES ASSUME said', ~broken, NEW s \in cmd.mask
               PROVE  loaded'[s].by = number /\ loaded'[s].triggers = ("t" \in cmd.flags)
    BY <1>2 DEF UpdatedMeansLoaded
  <2>1. s \in Slots
    BY <1>1, CommandTypes
  <2>2. loaded'[s] = table[s]
    BY <1>3, <2>1 DEF Loaded
  <2> QED
    BY <1>1, <2>1, <2>2, AllRowsAreOwn DEF OwnRow
<1> QED
  BY <1>5, <1>6, <1>7 DEF IInv

----------------------------------------------------------------------------
(* The outside. *)

LEMMA SwapBoardsIInv ==
  ASSUME IInv, SwapBoards
  PROVE  IInv'
<1>1. TypeOK /\ pc = "idle"
  BY DEF IInv, SwapBoards
<1>2. UNCHANGED <<link, table, loaded, fFECs, pc, cmd, slot, said, number, broken, losses>>
  BY DEF SwapBoards
<1>3. swaps' \in 0 .. MaxSwaps
  BY <1>1, CrateInitAssumption DEF SwapBoards, TypeOK
<1>4. inSlot' \in [Slots -> Boards] /\ xilinx' \subseteq Slots
  BY <1>1 DEF SwapBoards, TypeOK
<1>5. TypeOK'
  BY <1>1, <1>2, <1>3, <1>4 DEF TypeOK
<1>6. SlotInStep' /\ LinkIsUp' /\ RowsAreOwn' /\ IdsAreRead' /\ SaidAtTheEnd'
      /\ UpdatedMeansLoaded'
  BY <1>1, <1>2 DEF IInv, SlotInStep, LinkIsUp, RowsAreOwn, IdsAreRead, SaidAtTheEnd,
                    UpdatedMeansLoaded
<1> QED
  BY <1>5, <1>6 DEF IInv

LEMMA LoseLinkIInv ==
  ASSUME IInv, LoseLink
  PROVE  IInv'
<1>1. TypeOK
  BY DEF IInv
<1>2. /\ link' = FALSE /\ broken' = TRUE
      /\ UNCHANGED <<inSlot, xilinx, loaded, swaps, fFECs, pc, cmd, slot, said, number>>
  BY DEF LoseLink
<1>3. table' \in [Slots -> Row]
  BY <1>1, BlankRowType DEF LoseLink, TypeOK
<1>4. losses' \in 0 .. MaxLosses
  BY <1>1, CrateInitAssumption DEF LoseLink, TypeOK
<1>5. TypeOK'
  BY <1>1, <1>2, <1>3, <1>4 DEF TypeOK
<1>6. SlotInStep' /\ IdsAreRead' /\ SaidAtTheEnd'
  BY <1>2 DEF IInv, SlotInStep, IdsAreRead, SaidAtTheEnd, Refreshes
<1>7. LinkIsUp' /\ RowsAreOwn' /\ UpdatedMeansLoaded'
  BY <1>2 DEF LinkIsUp, RowsAreOwn, UpdatedMeansLoaded
<1> QED
  BY <1>5, <1>6, <1>7 DEF IInv

LEMMA ReconnectIInv ==
  ASSUME IInv, Reconnect
  PROVE  IInv'
<1>1. /\ link' = TRUE
      /\ UNCHANGED <<inSlot, xilinx, table, loaded, swaps, losses, fFECs, pc, cmd, slot, said,
                     number, broken>>
  BY DEF Reconnect
<1>2. TypeOK'
  BY <1>1 DEF IInv, TypeOK
<1>3. SlotInStep' /\ LinkIsUp' /\ RowsAreOwn' /\ IdsAreRead' /\ SaidAtTheEnd'
      /\ UpdatedMeansLoaded'
  BY <1>1 DEF IInv, SlotInStep, LinkIsUp, RowsAreOwn, OwnRow, IdsAreRead, SaidAtTheEnd,
              UpdatedMeansLoaded, Refreshes
<1> QED
  BY <1>2, <1>3 DEF IInv

LEMMA NextIInv ==
  ASSUME IInv, [Next]_vars
  PROVE  IInv'
<1>1. CASE UNCHANGED vars
  BY <1>1 DEF IInv, TypeOK, SlotInStep, LinkIsUp, RowsAreOwn, OwnRow, IdsAreRead, SaidAtTheEnd,
              UpdatedMeansLoaded, Refreshes, vars
<1> QED
  BY <1>1, StartIInv, BeforeSlotsIInv, UpdateIInv, SendSlotIInv, GoOnIInv, InitCrateIInv,
     SwapBoardsIInv, LoseLinkIInv, ReconnectIInv DEF Next, Thread

LEMMA SpecIInv == Spec => []IInv
  BY InitIInv, NextIInv, PTL DEF Spec

----------------------------------------------------------------------------
(* Theorems. *)

(* The thread is always at a slot of the crate, and the XL3's table holds  *)
(* rows (CrateInit).                                                       *)
THEOREM SpecTypeOK == Spec => []TypeOK
<1>1. IInv => TypeOK
  BY DEF IInv
<1> QED
  BY <1>1, SpecIInv, PTL

(* "Crate configuration updated." means that the slots of the mask run     *)
(* with rows of this command, on a link that held (CrateInit).             *)
THEOREM SpecUpdatedMeansLoaded == Spec => []UpdatedMeansLoaded
<1>1. IInv => UpdatedMeansLoaded
  BY DEF IInv
<1> QED
  BY <1>1, SpecIInv, PTL

(* Only CRATE_INIT with board number 666 loads the cards. *)
LEMMA OnlyInitLoads ==
  ASSUME [Next]_vars, loaded' # loaded
  PROVE  InitCrate /\ pc = "init" /\ loaded' = Loaded(cmd)
<1>1. InitCrate
  BY DEF Next, Thread, Start, ResetCrate, GetDocs, UpdateCrateConfig, SendSlot, LookUpFails,
         GetCtcDoc, SwapBoards, LoseLink, Reconnect, outside, vars
<1> QED
  BY <1>1 DEF InitCrate

(* When the cards are loaded over a link that held, every row of the XL3's *)
(* table is of this command (CrateInit).                                   *)
THEOREM SpecInitUsesOwnRows == Spec => InitUsesOwnRows
<1> DEFINE Own == (loaded' # loaded /\ ~broken) => \A s \in Slots : table[s].by = number
<1>1. IInv /\ [Next]_vars => Own
  BY OnlyInitLoads, AllRowsAreOwn DEF OwnRow
<1> HIDE DEF Own
<1>2. Spec => [][Own]_vars
  BY <1>1, SpecIInv, PTL DEF Spec
<1> QED
  BY <1>2 DEF InitUsesOwnRows, Own

(* Settings measured on a board are loaded into that board and no other,   *)
(* after any exchange of boards, by every command that reads the board ids *)
(* first (CrateInit, UpdateCrateConfig).                                   *)
THEOREM SpecSettingsBelongToBoard == Spec => SettingsBelongToBoard
<1> DEFINE Belong ==
      (loaded' # loaded /\ ~broken /\ Refreshes(cmd)) =>
        \A s \in cmd.mask, k \in Settings :
          loaded'[s].values[k].from \in Views => loaded'[s].values[k].board = inSlot[s]
<1>1. IInv /\ [Next]_vars => Belong
  <2> SUFFICES ASSUME IInv, [Next]_vars, loaded' # loaded, ~broken, Refreshes(cmd),
                      NEW s \in cmd.mask, NEW k \in Settings,
                      loaded'[s].values[k].from \in Views
               PROVE  loaded'[s].values[k].board = inSlot[s]
    OBVIOUS
  <2>1. pc = "init" /\ loaded' = Loaded(cmd)
    BY OnlyInitLoads
  <2>2. s \in Slots
    BY CommandTypes DEF IInv
  <2>3. loaded'[s] = table[s]
    BY <2>1, <2>2 DEF Loaded
  <2>4. table[s].values[k].board = fFECs[s] /\ fFECs[s] # NoBoard
    BY <2>1, <2>2, <2>3, AllRowsAreOwn DEF OwnRow
  <2>5. fFECs[s] \in {inSlot[s], NoBoard}
    BY <2>1 DEF IInv, IdsAreRead
  <2> QED
    BY <2>3, <2>4, <2>5
<1> HIDE DEF Belong
<1>2. Spec => [][Belong]_vars
  BY <1>1, SpecIInv, PTL DEF Spec
<1> QED
  BY <1>2 DEF SettingsBelongToBoard, Belong
=============================================================================
