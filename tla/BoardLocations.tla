-------------------------- MODULE BoardLocations --------------------------
(***************************************************************************)
(* board_id -l: BoardID of tests/BoardID.cpp reads which boards sit in the *)
(* slots of a crate, and UpdateLocation of db/DB.cpp enters them in the    *)
(* document of each board and in configuration_snoplus, the one document   *)
(* that says where every board of the detector is.  Commands on different  *)
(* crates run at the same time and share that document; the database       *)
(* refuses a document that is not built on its latest revision.            *)
(***************************************************************************)
EXTENDS Naturals, FiniteSets

CONSTANTS
  Crates, Slots,
  Positions,    \* 0 mother board, 1 .. 4 daughter boards, 5 PMTIC
  Boards, Empty,
  Documented,   \* the boards that have a document in the database
  Threads, NoCrate,
  MaxCommands,  \* bound: board_id commands
  MaxMoves,     \* bound: exchanges of boards
  MaxFaults     \* bound: failures of the database or the XL3

Spots == Crates \X Slots \X Positions
Table == [Spots -> Boards \cup {Empty}]

(* Every board in one spot at most. *)
OneSpotEach(table) == \A x, y \in Spots : table[x] = table[y] /\ table[x] # Empty => x = y

ASSUME LocationsAssumption ==
  /\ Crates \subseteq Nat /\ Slots \subseteq Nat /\ Positions \subseteq 0 .. 5
  /\ IsFiniteSet(Spots)
  /\ Empty \notin Boards /\ NoCrate \notin Crates /\ Documented \subseteq Boards
  /\ MaxCommands \in Nat /\ MaxMoves \in Nat /\ MaxFaults \in Nat

VARIABLES
  inSpot,    \* the boards as they sit in the crates
  config,    \* configuration_snoplus
  rev,       \* its revision
  located,   \* the boards whose document gives this site as their location
  pc, crate, \* per thread
  ids,       \* per thread: the boards to enter, by the spot they were read in
  doc,       \* per thread: configuration_snoplus as it was read
  docRev,    \* per thread: the revision that was read
  commands, moves, faults

vars == <<inSpot, config, rev, located, pc, crate, ids, doc, docRev, commands, moves, faults>>

Nothing == [x \in Spots |-> Empty]
Asked(t) == {x \in Spots : ids[t][x] # Empty}

TypeOK ==
  /\ inSpot \in Table /\ config \in Table
  /\ rev \in Nat /\ located \subseteq Boards
  /\ pc \in [Threads -> {"idle", "read", "locate", "get", "put"}]
  /\ crate \in [Threads -> Crates \cup {NoCrate}]
  /\ ids \in [Threads -> Table] /\ doc \in [Threads -> Table]
  /\ docRev \in [Threads -> Nat]
  /\ commands \in Nat /\ moves \in Nat /\ faults \in Nat

Init ==
  /\ inSpot \in Table /\ OneSpotEach(inSpot)
  /\ config \in Table /\ OneSpotEach(config)
  /\ \A x \in Spots : config[x] # Empty => config[x] \in Documented
  /\ rev = 0 /\ located = {}
  /\ pc = [t \in Threads |-> "idle"] /\ crate = [t \in Threads |-> NoCrate]
  /\ ids = [t \in Threads |-> Nothing] /\ doc = [t \in Threads |-> Nothing]
  /\ docRev = [t \in Threads |-> 0]
  /\ commands = 0 /\ moves = 0 /\ faults = 0

----------------------------------------------------------------------------
Go(t, there) == pc' = [pc EXCEPT ![t] = there]
Finish(t) == Go(t, "idle") /\ crate' = [crate EXCEPT ![t] = NoCrate]
Fault(n) == faults' = faults + n /\ faults' <= MaxFaults

(* board_id -c c -l, with the crate locked. *)
Start(t, c) ==
  /\ pc[t] = "idle" /\ commands < MaxCommands
  /\ \A u \in Threads : crate[u] # c
  /\ Go(t, "read") /\ crate' = [crate EXCEPT ![t] = c]
  /\ commands' = commands + 1
  /\ UNCHANGED <<inSpot, config, rev, located, ids, doc, docRev, moves, faults>>

(* The six ids of every slot of the mask.  An empty position does not pass *)
(* the test of the leading digit.  A time-out ends the command.            *)
ReadIds(t, mask) ==
  /\ pc[t] = "read"
  /\ \/ /\ ids' = [ids EXCEPT ![t] =
             [x \in Spots |-> IF x[1] = crate[t] /\ x[2] \in mask THEN inSpot[x] ELSE Empty]]
        /\ Go(t, "locate") /\ UNCHANGED <<crate, faults>>
     \/ Fault(1) /\ Finish(t) /\ UNCHANGED ids
  /\ UNCHANGED <<inSpot, config, rev, located, doc, docRev, commands, moves>>

Before(x, y) == x[2] < y[2] \/ (x[2] = y[2] /\ x[3] < y[3])
UpTo(t, y) == {x \in Asked(t) : Before(x, y)}

(* Slip: a board without a document is passed over. *)
LocateBoardsAll(t) ==
  /\ pc[t] = "locate"
  /\ located' = located \cup {ids[t][x] : x \in Asked(t)}
  /\ Go(t, "get")
  /\ UNCHANGED <<inSpot, config, rev, crate, ids, doc, docRev, commands, moves, faults>>

(* The first loop of UpdateLocation: the document of each board is read,   *)
(* and written with its location.  One that cannot be read ends the        *)
(* command, the boards before it entered; one that cannot be written is    *)
(* passed over.                                                            *)
LocateBoards(t) ==
  /\ pc[t] = "locate"
  /\ \/ /\ \A x \in Asked(t) : ids[t][x] \in Documented
        /\ \E lost \in SUBSET Asked(t) :
             /\ Fault(Cardinality(lost))
             /\ located' = located \cup {ids[t][x] : x \in Asked(t) \ lost}
        /\ Go(t, "get") /\ UNCHANGED crate
     \/ \E y \in Asked(t) :
          /\ \A x \in UpTo(t, y) : ids[t][x] \in Documented
          /\ IF ids[t][y] \in Documented THEN Fault(1) ELSE UNCHANGED faults
          /\ located' = located \cup {ids[t][x] : x \in UpTo(t, y)}
          /\ Finish(t)
  /\ UNCHANGED <<inSpot, config, rev, ids, doc, docRev, commands, moves>>

GetConfig(t) ==
  /\ pc[t] = "get"
  /\ \/ /\ doc' = [doc EXCEPT ![t] = config] /\ docRev' = [docRev EXCEPT ![t] = rev]
        /\ Go(t, "put") /\ UNCHANGED <<crate, faults>>
     \/ Fault(1) /\ Finish(t) /\ UNCHANGED <<doc, docRev>>
  /\ UNCHANGED <<inSpot, config, rev, located, ids, commands, moves>>

(* The ids of the boards become null wherever they are. *)
RemoveFromConfig(table, boards) ==
  [x \in Spots |-> IF table[x] \in boards THEN Empty ELSE table[x]]

Entries(table) == {table[x] : x \in Spots} \ {Empty}

(* Slip: the boards that were read stay where they were entered as well.   *)
UpdatedInPlace(table, new) ==
  [x \in Spots |-> IF new[x] # Empty THEN new[x] ELSE table[x]]

(* The second half of UpdateLocation: the boards are removed wherever they *)
(* are, then put in their spots, and the boards this replaces are removed  *)
(* wherever they may be as well.                                           *)
Updated(table, new) ==
  LET cleared == RemoveFromConfig(table, Entries(new))
      placed == [x \in Spots |-> IF new[x] # Empty THEN new[x] ELSE cleared[x]]
      replaced == {cleared[x] : x \in {y \in Spots : new[y] # Empty}} \ {Empty}
  IN  RemoveFromConfig(placed, replaced)

(* Slip: the database takes any revision. *)
AcceptsAny(t) == TRUE

(* The database takes a document that is built on the latest revision. *)
Accepts(t) == docRev[t] = rev

(* The document is written back; a refusal is not told to the operator,    *)
(* and the command ends as if it had been taken.                           *)
PutConfig(t) ==
  /\ pc[t] = "put"
  /\ \/ /\ Accepts(t)
        /\ config' = Updated(doc[t], ids[t]) /\ rev' = rev + 1
        /\ UNCHANGED faults
     \/ /\ IF Accepts(t) THEN Fault(1) ELSE UNCHANGED faults
        /\ UNCHANGED <<config, rev>>
  /\ Finish(t)
  /\ UNCHANGED <<inSpot, located, ids, doc, docRev, commands, moves>>

(* Two positions of the same kind exchange what is in them, in crates no   *)
(* command works on.                                                       *)
Alike(x, y) == x[3] = y[3] \/ {x[3], y[3]} \subseteq 1 .. 4

MoveBoards(x, y) ==
  /\ moves < MaxMoves /\ x # y /\ Alike(x, y)
  /\ \A t \in Threads : crate[t] \notin {x[1], y[1]}
  /\ inSpot' = [inSpot EXCEPT ![x] = inSpot[y], ![y] = inSpot[x]]
  /\ moves' = moves + 1
  /\ UNCHANGED <<config, rev, located, pc, crate, ids, doc, docRev, commands, faults>>

Thread(t) ==
  \/ \E c \in Crates : Start(t, c)
  \/ \E mask \in SUBSET Slots : ReadIds(t, mask)
  \/ LocateBoards(t) \/ GetConfig(t) \/ PutConfig(t)

Next == (\E t \in Threads : Thread(t)) \/ (\E x, y \in Spots : MoveBoards(x, y))

Spec == Init /\ [][Next]_vars

----------------------------------------------------------------------------
(* Properties. *)

(* No board is in two places of the configuration, whatever boards are     *)
(* exchanged between crates and whichever commands overlap or fail.        *)
OnePlaceEach == OneSpotEach(config)

(* Only boards the database knows are entered: a command that comes upon   *)
(* an unknown board enters none.                                           *)
EntriesAreKnown == Entries(config) \subseteq Documented

(* The configuration as a registry: where each board is.                   *)
Nowhere == <<>>
Places(table) ==
  [b \in Boards |->
     IF \E x \in Spots : table[x] = b THEN CHOOSE x \in Spots : table[x] = b ELSE Nowhere]

Registry == INSTANCE BoardRegistry WITH place <- Places(config)

(* Every change of the configuration registers what one command has read   *)
(* on top of all that was registered before: commands that overlap on      *)
(* different crates do not undo each other's entries.                      *)
ImplementsRegistry == Registry!Spec
=============================================================================
