----------------------- MODULE BoardLocationsProofs -----------------------
(***************************************************************************)
(* The configuration of the detector keeps every board in one place, for   *)
(* any number of crates, boards and overlapping board_id commands.         *)
(***************************************************************************)
EXTENDS BoardLocations, FiniteSetTheorems, TLAPS

(* The tables and what the threads have read of them. *)
Shapes ==
  /\ inSpot \in Table /\ config \in Table
  /\ ids \in [Threads -> Table] /\ doc \in [Threads -> Table]
  /\ rev \in Nat /\ docRev \in [Threads -> Nat]
  /\ pc \in [Threads -> {"idle", "read", "locate", "get", "put"}]

(* No table has a board twice: neither the crates nor the configuration,   *)
(* nor what a thread has read of either.                                   *)
EveryTableOneSpotEach ==
  /\ OneSpotEach(inSpot) /\ OneSpotEach(config)
  /\ \A t \in Threads : OneSpotEach(ids[t]) /\ OneSpotEach(doc[t])

(* Past the first loop of UpdateLocation the boards a thread enters are    *)
(* known, and so are those of every copy of the configuration.             *)
EveryEntryKnown ==
  /\ Entries(config) \subseteq Documented
  /\ \A t \in Threads :
       /\ Entries(doc[t]) \subseteq Documented
       /\ pc[t] \in {"get", "put"} => Entries(ids[t]) \subseteq Documented

(* A copy of the latest revision is the configuration. *)
LatestIsCurrent ==
  \A t \in Threads :
    /\ docRev[t] <= rev
    /\ pc[t] = "put" /\ docRev[t] = rev => doc[t] = config

IInv == Shapes /\ EveryTableOneSpotEach /\ EveryEntryKnown /\ LatestIsCurrent

----------------------------------------------------------------------------
LEMMA EmptyIsNoBoard == Empty \notin Boards
  BY LocationsAssumption

LEMMA RemoveFromConfigShape ==
  ASSUME NEW table \in Table, NEW boards
  PROVE  RemoveFromConfig(table, boards) \in Table
  BY DEF RemoveFromConfig, Table

(* Taking boards out leaves the rest where they were. *)
LEMMA RemoveFromConfigKeepsOneSpot ==
  ASSUME NEW table \in Table, OneSpotEach(table), NEW boards
  PROVE  OneSpotEach(RemoveFromConfig(table, boards))
  BY DEF RemoveFromConfig, OneSpotEach

LEMMA UpdatedShape ==
  ASSUME NEW table \in Table, NEW new \in Table
  PROVE  Updated(table, new) \in Table
<1> DEFINE cleared == RemoveFromConfig(table, Entries(new))
           placed == [x \in Spots |-> IF new[x] # Empty THEN new[x] ELSE cleared[x]]
<1>1. cleared \in Table
  BY RemoveFromConfigShape
<1>2. placed \in Table
  BY <1>1 DEF Table
<1> QED
  BY <1>2, RemoveFromConfigShape DEF Updated

(* UpdateLocation puts no board in a second place. *)
LEMMA UpdatedKeepsOneSpot ==
  ASSUME NEW table \in Table, NEW new \in Table, OneSpotEach(table), OneSpotEach(new)
  PROVE  OneSpotEach(Updated(table, new))
<1> DEFINE cleared == RemoveFromConfig(table, Entries(new))
           placed == [x \in Spots |-> IF new[x] # Empty THEN new[x] ELSE cleared[x]]
<1>1. cleared \in Table /\ OneSpotEach(cleared)
  BY RemoveFromConfigShape, RemoveFromConfigKeepsOneSpot
<1>2. placed \in Table
  BY <1>1 DEF Table
<1>3. \A x, y \in Spots : new[x] # Empty => cleared[y] # new[x]
  BY DEF RemoveFromConfig, Entries
<1>4. OneSpotEach(placed)
  <2> SUFFICES ASSUME NEW x \in Spots, NEW y \in Spots,
                      placed[x] = placed[y], placed[x] # Empty
               PROVE  x = y
    BY DEF OneSpotEach
  <2>1. CASE new[x] # Empty /\ new[y] # Empty
    BY <2>1 DEF OneSpotEach
  <2>2. CASE new[x] # Empty /\ new[y] = Empty
    BY <2>2, <1>3
  <2>3. CASE new[x] = Empty /\ new[y] # Empty
    BY <2>3, <1>3
  <2>4. CASE new[x] = Empty /\ new[y] = Empty
    BY <2>4, <1>1 DEF OneSpotEach
  <2> QED
    BY <2>1, <2>2, <2>3, <2>4
<1> QED
  BY <1>2, <1>4, RemoveFromConfigKeepsOneSpot DEF Updated

(* Every entry after an update was an entry of one of the two tables. *)
LEMMA UpdatedEntries ==
  ASSUME NEW table \in Table, NEW new \in Table
  PROVE  Entries(Updated(table, new)) \subseteq Entries(table) \cup Entries(new)
  BY DEF Updated, RemoveFromConfig, Entries

(* Exchanging what is in two spots keeps every board in one. *)
LEMMA ExchangeKeepsOneSpot ==
  ASSUME NEW table \in Table, OneSpotEach(table), NEW x \in Spots, NEW y \in Spots, x # y
  PROVE  LET after == [table EXCEPT ![x] = table[y], ![y] = table[x]]
         IN  after \in Table /\ OneSpotEach(after)
  BY DEF Table, OneSpotEach

----------------------------------------------------------------------------
LEMMA InitIInv == Init => IInv
<1> SUFFICES ASSUME Init PROVE IInv
  OBVIOUS
<1> USE DEF Init
<1>1. Nothing \in Table /\ OneSpotEach(Nothing) /\ Entries(Nothing) = {}
  BY DEF Nothing, Table, OneSpotEach, Entries
<1>2. Entries(config) \subseteq Documented
  BY DEF Entries
<1>3. Shapes
  BY <1>1 DEF Shapes
<1>4. EveryTableOneSpotEach
  BY <1>1 DEF EveryTableOneSpotEach
<1>5. EveryEntryKnown
  BY <1>1, <1>2 DEF EveryEntryKnown
<1>6. LatestIsCurrent
  BY DEF LatestIsCurrent
<1> QED
  BY <1>3, <1>4, <1>5, <1>6 DEF IInv

LEMMA StartIInv ==
  ASSUME IInv, NEW t \in Threads, NEW c \in Crates, Start(t, c)
  PROVE  IInv'
<1> USE DEF IInv, Start, Go
<1>1. Shapes'
  BY DEF Shapes
<1>2. EveryTableOneSpotEach'
  BY DEF EveryTableOneSpotEach
<1>3. EveryEntryKnown'
  BY DEF EveryEntryKnown, Shapes, Entries
<1>4. LatestIsCurrent'
  BY DEF LatestIsCurrent, Shapes
<1> QED
  BY <1>1, <1>2, <1>3, <1>4

(* What is read of a table with every board in one spot has it too. *)
LEMMA ReadIdsIInv ==
  ASSUME IInv, NEW t \in Threads, NEW mask \in SUBSET Slots, ReadIds(t, mask)
  PROVE  IInv'
<1> USE DEF IInv, Go
<1>1. CASE /\ ids' = [ids EXCEPT ![t] =
                [x \in Spots |-> IF x[1] = crate[t] /\ x[2] \in mask THEN inSpot[x] ELSE Empty]]
           /\ Go(t, "locate")
           /\ UNCHANGED <<inSpot, config, rev, doc, docRev>>
  <2> USE <1>1
  <2>1. ids'[t] \in Table /\ OneSpotEach(ids'[t])
    BY DEF Shapes, EveryTableOneSpotEach, Table, OneSpotEach
  <2>2. Shapes'
    BY <2>1 DEF Shapes
  <2>3. EveryTableOneSpotEach'
    BY <2>1 DEF EveryTableOneSpotEach, Shapes
  <2>4. EveryEntryKnown'
    BY DEF EveryEntryKnown, Shapes, Entries
  <2>5. LatestIsCurrent'
    BY DEF LatestIsCurrent, Shapes
  <2> QED
    BY <2>2, <2>3, <2>4, <2>5
<1>2. CASE Go(t, "idle") /\ UNCHANGED <<inSpot, config, rev, ids, doc, docRev>>
  <2> USE <1>2
  <2>1. Shapes'
    BY DEF Shapes
  <2>2. EveryTableOneSpotEach'
    BY DEF EveryTableOneSpotEach
  <2>3. EveryEntryKnown'
    BY DEF EveryEntryKnown, Shapes, Entries
  <2>4. LatestIsCurrent'
    BY DEF LatestIsCurrent, Shapes
  <2> QED
    BY <2>1, <2>2, <2>3, <2>4
<1> QED
  BY <1>1, <1>2 DEF ReadIds, Finish

(* Only a thread that has found a document for each of its boards goes on. *)
LEMMA LocateBoardsIInv ==
  ASSUME IInv, NEW t \in Threads, LocateBoards(t)
  PROVE  IInv'
<1> USE DEF IInv
<1>1. UNCHANGED <<inSpot, config, rev, ids, doc, docRev>>
  BY DEF LocateBoards
<1>2. \/ Go(t, "get") /\ \A x \in Asked(t) : ids[t][x] \in Documented
      \/ Go(t, "idle")
  BY DEF LocateBoards, Finish
<1>3. pc'[t] = "get" => Entries(ids[t]) \subseteq Documented
  BY <1>2 DEF Go, Asked, Entries, Shapes
<1>4. /\ pc'[t] \in {"get", "idle"}
      /\ \A u \in Threads : u # t => pc'[u] = pc[u]
      /\ pc' \in [Threads -> {"idle", "read", "locate", "get", "put"}]
  BY <1>2 DEF Go, Shapes
<1>5. Shapes'
  BY <1>1, <1>4 DEF Shapes
<1>6. EveryTableOneSpotEach'
  BY <1>1 DEF EveryTableOneSpotEach
<1>7. EveryEntryKnown'
  BY <1>1, <1>3, <1>4 DEF EveryEntryKnown, Entries
<1>8. LatestIsCurrent'
  BY <1>1, <1>4 DEF LatestIsCurrent
<1> QED
  BY <1>5, <1>6, <1>7, <1>8

LEMMA GetConfigIInv ==
  ASSUME IInv, NEW t \in Threads, GetConfig(t)
  PROVE  IInv'
<1> USE DEF IInv, Go
<1>1. CASE /\ pc[t] = "get"
           /\ doc' = [doc EXCEPT ![t] = config] /\ docRev' = [docRev EXCEPT ![t] = rev]
           /\ Go(t, "put") /\ UNCHANGED <<inSpot, config, rev, ids>>
  <2> USE <1>1
  <2>1. Shapes'
    BY DEF Shapes
  <2>2. EveryTableOneSpotEach'
    BY DEF EveryTableOneSpotEach, Shapes
  <2>3. EveryEntryKnown'
    BY DEF EveryEntryKnown, Shapes, Entries
  <2>4. LatestIsCurrent'
    BY DEF LatestIsCurrent, Shapes
  <2> QED
    BY <2>1, <2>2, <2>3, <2>4
<1>2. CASE Go(t, "idle") /\ UNCHANGED <<inSpot, config, rev, ids, doc, docRev>>
  <2> USE <1>2
  <2>1. Shapes'
    BY DEF Shapes
  <2>2. EveryTableOneSpotEach'
    BY DEF EveryTableOneSpotEach
  <2>3. EveryEntryKnown'
    BY DEF EveryEntryKnown, Shapes, Entries
  <2>4. LatestIsCurrent'
    BY DEF LatestIsCurrent, Shapes
  <2> QED
    BY <2>1, <2>2, <2>3, <2>4
<1> QED
  BY <1>1, <1>2 DEF GetConfig, Finish

LEMMA PutConfigIInv ==
  ASSUME IInv, NEW t \in Threads, PutConfig(t)
  PROVE  IInv'
<1> USE DEF IInv
<1>1. /\ UNCHANGED <<inSpot, ids, doc, docRev>>
      /\ pc[t] = "put" /\ Go(t, "idle")
      /\ \/ config' = Updated(doc[t], ids[t]) /\ rev' = rev + 1
         \/ UNCHANGED <<config, rev>>
  BY DEF PutConfig, Finish
<1>2. /\ Updated(doc[t], ids[t]) \in Table
      /\ OneSpotEach(Updated(doc[t], ids[t]))
      /\ Entries(Updated(doc[t], ids[t])) \subseteq Documented
  BY <1>1, UpdatedShape, UpdatedKeepsOneSpot, UpdatedEntries
     DEF Shapes, EveryTableOneSpotEach, EveryEntryKnown
<1>3. /\ pc'[t] = "idle" /\ \A u \in Threads : u # t => pc'[u] = pc[u]
      /\ pc' \in [Threads -> {"idle", "read", "locate", "get", "put"}]
  BY <1>1 DEF Go, Shapes
<1>4. Shapes'
  BY <1>1, <1>2, <1>3 DEF Shapes
<1>5. EveryTableOneSpotEach'
  BY <1>1, <1>2 DEF EveryTableOneSpotEach
<1>6. Entries(config)' \subseteq Documented
  BY <1>1, <1>2 DEF EveryEntryKnown, Entries
<1>7. EveryEntryKnown'
  BY <1>1, <1>3, <1>6 DEF EveryEntryKnown, Entries
<1>8. LatestIsCurrent'
  BY <1>1, <1>3 DEF LatestIsCurrent, Shapes
<1> QED
  BY <1>4, <1>5, <1>7, <1>8

LEMMA MoveBoardsIInv ==
  ASSUME IInv, NEW x \in Spots, NEW y \in Spots, MoveBoards(x, y)
  PROVE  IInv'
<1> USE DEF IInv, MoveBoards
<1>1. inSpot' \in Table /\ OneSpotEach(inSpot')
  BY ExchangeKeepsOneSpot DEF Shapes, EveryTableOneSpotEach
<1>2. Shapes'
  BY <1>1 DEF Shapes
<1>3. EveryTableOneSpotEach'
  BY <1>1 DEF EveryTableOneSpotEach
<1>4. EveryEntryKnown'
  BY DEF EveryEntryKnown, Entries
<1>5. LatestIsCurrent'
  BY DEF LatestIsCurrent
<1> QED
  BY <1>2, <1>3, <1>4, <1>5

LEMMA NextIInv == IInv /\ [Next]_vars => IInv'
<1> SUFFICES ASSUME IInv, [Next]_vars PROVE IInv'
  OBVIOUS
<1>1. CASE UNCHANGED vars
  BY <1>1 DEF vars, IInv, Shapes, EveryTableOneSpotEach, EveryEntryKnown, Entries, LatestIsCurrent
<1>2. CASE \E t \in Threads : Thread(t)
  BY <1>2, StartIInv, ReadIdsIInv, LocateBoardsIInv, GetConfigIInv, PutConfigIInv DEF Thread
<1>3. CASE \E x, y \in Spots : MoveBoards(x, y)
  BY <1>3, MoveBoardsIInv
<1> QED
  BY <1>1, <1>2, <1>3 DEF Next

LEMMA SpecIInv == Spec => []IInv
  BY InitIInv, NextIInv, PTL DEF Spec

(* No board is ever in two places of the configuration. *)
THEOREM SpecOnePlaceEach == Spec => []OnePlaceEach
<1>1. IInv => OnePlaceEach
  BY DEF IInv, EveryTableOneSpotEach, OnePlaceEach
<1> QED
  BY <1>1, SpecIInv, PTL

(* Only boards the database knows are ever entered. *)
THEOREM SpecEntriesAreKnown == Spec => []EntriesAreKnown
<1>1. IInv => EntriesAreKnown
  BY DEF IInv, EveryEntryKnown, EntriesAreKnown
<1> QED
  BY <1>1, SpecIInv, PTL

----------------------------------------------------------------------------
(* The refinement of the registry. *)
LEMMA NowhereIsNoSpot == Nowhere \notin Spots
  BY DEF Nowhere, Spots

(* The place of a board is the one spot it is in. *)
LEMMA PlacesOfBoards ==
  ASSUME NEW table \in Table, OneSpotEach(table), NEW b \in Boards
  PROVE  /\ \A x \in Spots : table[x] = b <=> Places(table)[b] = x
         /\ (\A x \in Spots : table[x] # b) <=> Places(table)[b] = Nowhere
         /\ Places(table)[b] \in Spots \cup {Nowhere}
<1>1. CASE \A x \in Spots : table[x] # b
  BY <1>1, NowhereIsNoSpot DEF Places
<1>2. ASSUME NEW y \in Spots, table[y] = b
      PROVE  Places(table)[b] = y
  <2>1. Places(table)[b] = CHOOSE x \in Spots : table[x] = b
    BY <1>2 DEF Places
  <2>2. Places(table)[b] \in Spots /\ table[Places(table)[b]] = b
    BY <2>1, <1>2
  <2> QED
    BY <2>2, <1>2, EmptyIsNoBoard DEF OneSpotEach
<1>3. CASE \E y \in Spots : table[y] = b
  BY <1>2, <1>3, NowhereIsNoSpot, EmptyIsNoBoard DEF OneSpotEach
<1> QED
  BY <1>1, <1>3

(* What one thread has read registers as the registry says. *)
LEMMA UpdatedRegisters ==
  ASSUME NEW table \in Table, OneSpotEach(table), NEW new \in Table, OneSpotEach(new)
  PROVE  LET found == Places(new)
         IN  /\ Registry!Finds(found)
             /\ Places(Updated(table, new)) =
                  [b \in Boards |->
                     IF found[b] # Nowhere THEN found[b]
                     ELSE IF \E c \in Boards : found[c] = Places(table)[b] THEN Nowhere
                     ELSE Places(table)[b]]
<1> DEFINE cleared == RemoveFromConfig(table, Entries(new))
           placed == [x \in Spots |-> IF new[x] # Empty THEN new[x] ELSE cleared[x]]
           replaced == {cleared[x] : x \in {y \in Spots : new[y] # Empty}} \ {Empty}
           after == Updated(table, new)
           found == Places(new)
<1>1. after \in Table /\ OneSpotEach(after)
  BY UpdatedShape, UpdatedKeepsOneSpot
<1>2. after = [x \in Spots |-> IF placed[x] \in replaced THEN Empty ELSE placed[x]]
  BY DEF Updated, RemoveFromConfig
<1>3. \A x \in Spots : cleared[x] = IF table[x] \in Entries(new) THEN Empty ELSE table[x]
  BY DEF RemoveFromConfig
<1>4. Registry!Finds(found)
  <2> SUFFICES ASSUME NEW b \in Boards, NEW c \in Boards, found[b] = found[c], found[b] # Nowhere
               PROVE  b = c
    BY DEF Registry!Finds
  <2> QED
    BY PlacesOfBoards
<1>5. ASSUME NEW b \in Boards
      PROVE  Places(after)[b] = IF found[b] # Nowhere THEN found[b]
               ELSE IF \E c \in Boards : found[c] = Places(table)[b] THEN Nowhere
               ELSE Places(table)[b]
  <2>1. CASE found[b] # Nowhere
    <3>1. PICK x \in Spots : found[b] = x /\ new[x] = b
      BY <2>1, PlacesOfBoards
    <3>2. b \in Entries(new)
      BY <3>1, EmptyIsNoBoard DEF Entries
    <3>3. placed[x] = b /\ b \notin replaced
      BY <3>1, <3>2, <1>3, EmptyIsNoBoard
    <3>4. after[x] = b
      BY <3>3, <1>2
    <3> QED
      BY <3>1, <3>4, <1>1, <2>1, PlacesOfBoards
  <2>2. CASE found[b] = Nowhere
    <3>1. \A x \in Spots : new[x] # b
      BY <2>2, PlacesOfBoards
    <3>2. b \notin Entries(new)
      BY <3>1 DEF Entries
    <3>3. CASE Places(table)[b] = Nowhere
      <4>1. \A x \in Spots : table[x] # b
        BY <3>3, PlacesOfBoards
      <4>2. b \notin Entries(after)
        BY <4>1, <3>1, UpdatedEntries DEF Entries
      <4>3. \A x \in Spots : after[x] # b
        BY <4>2, EmptyIsNoBoard DEF Entries
      <4>4. Places(after)[b] = Nowhere
        BY <4>3, <1>1, PlacesOfBoards
      <4> QED
        BY <4>4, <3>3, <2>2
    <3>4. CASE Places(table)[b] # Nowhere
      <4>1. PICK y \in Spots : Places(table)[b] = y /\ table[y] = b
        BY <3>4, PlacesOfBoards
      <4>2. cleared[y] = b
        BY <4>1, <3>2, <1>3
      <4>3. CASE new[y] # Empty
        <5>1. new[y] \in Boards /\ found[new[y]] = y
          BY <4>3, PlacesOfBoards DEF Table
        <5>2. b \in replaced
          BY <4>2, <4>3, EmptyIsNoBoard
        <5>3. \A x \in Spots : after[x] # b
          BY <5>2, <1>2, EmptyIsNoBoard
        <5>4. Places(after)[b] = Nowhere
          BY <5>3, <1>1, PlacesOfBoards
        <5> QED
          BY <5>1, <5>4, <4>1, <2>2
      <4>4. CASE new[y] = Empty
        <5>1. \A c \in Boards : found[c] # y
          BY <4>4, PlacesOfBoards, EmptyIsNoBoard
        <5>2. \A x \in Spots : cleared[x] = b => x = y
          BY <1>3, <4>1, EmptyIsNoBoard DEF OneSpotEach
        <5>3. placed[y] = b /\ b \notin replaced
          BY <4>2, <4>4, <5>2
        <5>4. after[y] = b
          BY <5>3, <1>2
        <5>5. Places(after)[b] = y
          BY <5>4, <1>1, PlacesOfBoards
        <5> QED
          BY <5>1, <5>5, <4>1, <2>2
      <4> QED
        BY <4>3, <4>4
    <3> QED
      BY <3>3, <3>4
  <2> QED
    BY <2>1, <2>2
<1>6. Places(after) = [b \in Boards |-> Places(after)[b]]
  BY DEF Places
<1> QED
  BY <1>4, <1>5, <1>6

LEMMA InitRegistry == Init => Registry!Init
<1> SUFFICES ASSUME Init PROVE Registry!Init
  OBVIOUS
<1>1. config \in Table /\ OneSpotEach(config)
  BY DEF Init
<1>2. Places(config) \in [Boards -> Spots \cup {Nowhere}]
  BY <1>1, PlacesOfBoards DEF Places
<1>3. Registry!Finds(Places(config))
  BY <1>1, PlacesOfBoards DEF Registry!Finds
<1> QED
  BY <1>2, <1>3 DEF Registry!Init

(* The one step that changes the configuration registers; the others leave *)
(* every board in its place.                                               *)
LEMMA NextRegistry ==
  ASSUME IInv, [Next]_vars
  PROVE  [Registry!Register]_(Places(config))
<1>1. CASE \E t \in Threads : PutConfig(t) /\ config' # config
  <2>1. PICK t \in Threads : PutConfig(t) /\ config' # config
    BY <1>1
  <2>2. /\ pc[t] = "put" /\ Accepts(t)
        /\ config' = Updated(doc[t], ids[t])
    BY <2>1 DEF PutConfig
  <2>3. doc[t] = config
    BY <2>2 DEF Accepts, IInv, LatestIsCurrent
  <2>4. /\ config \in Table /\ OneSpotEach(config)
        /\ ids[t] \in Table /\ OneSpotEach(ids[t])
    BY DEF IInv, Shapes, EveryTableOneSpotEach
  <2>5. Places(ids[t]) \in [Boards -> Spots \cup {Nowhere}]
    BY <2>4, PlacesOfBoards DEF Places
  <2>6. Registry!Finds(Places(ids[t]))
    BY <2>4, UpdatedRegisters
  <2>7. Places(config)' = Places(Updated(config, ids[t]))
    BY <2>2, <2>3 DEF Places
  <2>8. Places(Updated(config, ids[t])) = Registry!Registered(Places(ids[t]))
    BY <2>4, UpdatedRegisters DEF Registry!Registered
  <2> QED
    BY <2>5, <2>6, <2>7, <2>8 DEF Registry!Register
<1>2. CASE ~ \E t \in Threads : PutConfig(t) /\ config' # config
  <2>1. config' = config
    BY <1>2 DEF Next, Thread, Start, ReadIds, LocateBoards, GetConfig, MoveBoards, vars
  <2> QED
    BY <2>1 DEF Places
<1> QED
  BY <1>1, <1>2

(* The configuration implements the registry: commands that overlap on     *)
(* different crates do not undo each other's entries.                      *)
THEOREM SpecImplementsRegistry == Spec => ImplementsRegistry
<1>1. IInv /\ [Next]_vars => [Registry!Register]_(Places(config))
  BY NextRegistry
<1> QED
  BY <1>1, InitRegistry, SpecIInv, PTL DEF Spec, ImplementsRegistry, Registry!Spec
----------------------------------------------------------------------------
(* The steps that give the places of boards, and count what fails. *)
LEMMA LocateBoardsTypeOK ==
  ASSUME TypeOK, NEW t \in Threads, LocateBoards(t)
  PROVE  TypeOK'
<1>1. ids[t] \in Table /\ {ids[t][x] : x \in Asked(t)} \subseteq Boards
  BY DEF TypeOK, Table, Asked
<1>2. \A lost \in SUBSET Asked(t) : Cardinality(lost) \in Nat
  <2> SUFFICES ASSUME NEW lost \in SUBSET Asked(t) PROVE Cardinality(lost) \in Nat
    OBVIOUS
  <2>1. lost \subseteq Spots
    BY DEF Asked
  <2> QED
    BY <2>1, LocationsAssumption, FS_Subset, FS_CardinalityType
<1>3. located' \subseteq Boards
  <2>1. \A T \in SUBSET Asked(t) : {ids[t][x] : x \in T} \subseteq Boards
    BY <1>1
  <2> QED
    BY <2>1 DEF LocateBoards, TypeOK, UpTo
<1>4. faults' \in Nat
  BY <1>2 DEF LocateBoards, TypeOK, Fault
<1> QED
  BY <1>3, <1>4 DEF LocateBoards, TypeOK, Go, Finish

LEMMA NextTypeOK ==
  ASSUME TypeOK, [Next]_vars
  PROVE  TypeOK'
<1>1. ASSUME NEW t \in Threads, NEW c \in Crates, Start(t, c) PROVE TypeOK'
  BY <1>1 DEF Start, TypeOK, Go
<1>2. ASSUME NEW t \in Threads, NEW mask \in SUBSET Slots, ReadIds(t, mask) PROVE TypeOK'
  <2>1. [x \in Spots |-> IF x[1] = crate[t] /\ x[2] \in mask THEN inSpot[x] ELSE Empty] \in Table
    BY DEF TypeOK, Table
  <2> QED
    BY <1>2, <2>1 DEF ReadIds, TypeOK, Go, Finish, Fault
<1>3. ASSUME NEW t \in Threads, LocateBoards(t) PROVE TypeOK'
  BY <1>3, LocateBoardsTypeOK
<1>4. ASSUME NEW t \in Threads, GetConfig(t) PROVE TypeOK'
  BY <1>4 DEF GetConfig, TypeOK, Go, Finish, Fault
<1>5. ASSUME NEW t \in Threads, PutConfig(t) PROVE TypeOK'
  <2>1. Updated(doc[t], ids[t]) \in Table
    BY UpdatedShape DEF TypeOK
  <2> QED
    BY <1>5, <2>1 DEF PutConfig, TypeOK, Go, Finish, Fault
<1>6. ASSUME NEW x \in Spots, NEW y \in Spots, MoveBoards(x, y) PROVE TypeOK'
  <2>1. inSpot' \in Table
    BY <1>6 DEF MoveBoards, TypeOK, Table
  <2> QED
    BY <1>6, <2>1 DEF MoveBoards, TypeOK
<1>7. CASE UNCHANGED vars
  BY <1>7 DEF vars, TypeOK
<1> QED
  BY <1>1, <1>2, <1>3, <1>4, <1>5, <1>6, <1>7 DEF Next, Thread

(* Tables, copies and revisions keep to their types: board_id -l enters    *)
(* boards in the spots of the detector and nothing else.                   *)
THEOREM SpecTypeOK == Spec => []TypeOK
<1>1. Init => TypeOK
  BY LocationsAssumption DEF Init, TypeOK, Nothing, Table
<1> QED
  BY <1>1, NextTypeOK, PTL DEF Spec
=============================================================================
