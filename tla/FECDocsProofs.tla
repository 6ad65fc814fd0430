-------------------------- MODULE FECDocsProofs --------------------------
(***************************************************************************)
(* The ECAL and the documents made of its results, for any crates, slots,  *)
(* ECALs, threads and commands, and any number of failures: a test runs    *)
(* with the values measured last, and a document holds the newest rows of  *)
(* its slot.  That a document is complete, and that no slot is forgotten,  *)
(* holds as long as no two create_fec_docs run at once: they share         *)
(* count_tests.                                                            *)
(***************************************************************************)
EXTENDS FECDocs, FiniteSetTheorems, WellFoundedInduction, TLAPS

Row == [type : all_tests, at : Places, time : Nat, ecal : Ecals, bad : BOOLEAN]
Document == [at : Places \cup {<<>>}, ecal : Ecals \cup {NoEcal}, uses : SUBSET Row,
             problem : SUBSET all_tests, read : SUBSET Row, known : BOOLEAN]

(* A test posts one row per slot at a time of its own. *)
RowsHaveKeys ==
  /\ \A r \in rows : r.time \in 1 .. clock
  /\ \A r, s \in rows : r.type = s.type /\ r.at = s.at /\ r.time = s.time => r = s

(* The document of a new ECAL is posted once, at the first step. *)
NewEcalHasNoDoc == step = 1 /\ ecal.new => docs[ecal.id] = {}

(* Step i is the last initialisation of the script before step j. *)
Loads(i) == Script[i].test = "none"
LastLoad(i, j) ==
  /\ i \in Steps /\ i < j /\ Loads(i)
  /\ \A l \in Steps : i < l /\ l < j => ~Loads(l)

(* What was loaded last are still the newest measurements. *)
LatestIsLoaded ==
  step \in Steps =>
    \A i \in Steps : LastLoad(i, step) =>
      \A p \in ecal.places : p[1] \notin stale =>
        \A k \in Kinds : loaded[p][k] =
          IF k \in Script[i].kinds THEN TimeOf(Newest(rows, MeasuredBy[k], p)) ELSE 0

(* The script is run for an ECAL that has an id. *)
HasId == step \in Steps => ecal.id \in Ecals

EcalInv == RowsHaveKeys /\ NewEcalHasNoDoc /\ LatestIsLoaded /\ HasId

(* A thread in its loop over the slots.                                    *)
InLoop(t) == pc[t] \in {"slot", "add", "flag", "check", "load"}

(* The document of a slot of the ECAL document, before and after the       *)
(* results have been added.                                                *)
Filled(t, p) == [NewDoc(t, p) EXCEPT !.uses = Used(seen[t], p),
                                     !.problem = Problems(seen[t], p)]
InHand(t) ==
  /\ InLoop(t) => todo[t] # {} /\ \A r \in seen[t] : r.ecal = job[t].id
  /\ pc[t] = "add" /\ doc[t].known => doc[t] = NewDoc(t, Here(t))
  /\ pc[t] \in {"flag", "check", "load"} /\ doc[t].known => doc[t] = Filled(t, Here(t))

(* MostRecentCounts, for one document. *)
IsMostRecent(d) ==
  d.known =>
    \A r \in d.uses :
      /\ r.at = d.at /\ r.ecal = d.ecal
      /\ \A s \in d.read : s.type = r.type /\ s.at = r.at => s.time <= r.time
      /\ r.type # "find_noise_2" => (r.type \in d.problem <=> r.bad)

PostedAreMostRecent == \A d \in fecdb : IsMostRecent(d)

Shapes == /\ doc \in [Threads -> Document]
          /\ seen \in [Threads -> SUBSET Row] /\ offered \in [Threads -> SUBSET Places]

IInv == FecTypeOK /\ Shapes /\ EcalInv /\ (\A t \in Threads : InHand(t)) /\ PostedAreMostRecent

(* No two create_fec_docs run at once. *)
OneRunsAtATime ==
  \A t, u \in Threads : pc[t] # "idle" /\ pc[u] # "idle" => t = u

(* What has been counted is used, and what is posted is complete.          *)
TestsOf(set) == {r.type : r \in set}
IsComplete(d) == test_map \subseteq TestsOf(d.uses)
Counted(t) ==
  /\ pc[t] = "add" => count_tests = {}
  /\ pc[t] \in {"flag", "check"} =>
       /\ count_tests = TestsOf(Used(seen[t], Here(t)))
       /\ count_tests \subseteq TestsOf(doc[t].uses)
  /\ pc[t] = "load" => Complete(seen[t], Here(t)) /\ IsComplete(doc[t])
PostedAreComplete ==
  (\A d \in fecdb : IsComplete(d)) /\ (\A x \in detector : IsComplete(x[2]))

(* The slots before the one in hand have been dealt with, each as it       *)
(* deserves.                                                               *)
Deserving(t, places) == {p \in places : Complete(seen[t], p)}
DealtWith(t) ==
  /\ pc[t] = "masks" => NoMask(job[t]) /\ offered[t] = {}
  /\ pc[t] = "read" =>
       /\ offered[t] = {}
       /\ NoMask(job[t]) => docs[job[t].id] # {} /\ todo[t] = docs[job[t].id]
       /\ ~NoMask(job[t]) => todo[t] = Chosen(job[t].crates, job[t].slots)
  /\ InLoop(t) =>
       /\ todo[t] \subseteq Requested(t)
       /\ offered[t] = Deserving(t, (Requested(t) \ todo[t]) \cup
                                      (IF pc[t] = "load" THEN {Here(t)} ELSE {}))

AloneInv == PostedAreComplete /\ \A t \in Threads : Counted(t) /\ DealtWith(t)

----------------------------------------------------------------------------
(* Least elements: what the loops over the script and over the slots come  *)
(* to next.                                                                *)
LEMMA LeastNatural ==
  ASSUME NEW T \in SUBSET Nat, T # {}
  PROVE  \E x \in T : \A y \in T : x <= y
<1> DEFINE R == OpToRel(<, Nat)
<1>1. IsWellFoundedOn(R, Nat)
  BY NatLessThanWellFounded
<1>2. ASSUME NEW x \in Nat, NEW y \in Nat, x < y
      PROVE  <<x, y>> \in R
  BY <1>2, Zenon DEF OpToRel
<1> HIDE DEF R
<1>3. PICK x \in T : \A y \in T : ~ (<<y, x>> \in R)
  BY <1>1, WFMin
<1>4. ASSUME NEW y \in T
      PROVE  x <= y
  <2>1. ~(y < x)
    BY <1>2, <1>3, Zenon
  <2>2. x \in Nat /\ y \in Nat
    OBVIOUS
  <2> QED
    BY <2>1, <2>2
<1> QED
  BY <1>4

LEMMA PlaceParts ==
  ASSUME NEW p \in Places
  PROVE  /\ p[1] \in Crates /\ p[2] \in Slots /\ p = <<p[1], p[2]>>
         /\ p[1] \in Nat /\ p[2] \in Nat
<1>1. p[1] \in Crates /\ p[2] \in Slots /\ p = <<p[1], p[2]>>
  BY DEF Places
<1> QED
  BY <1>1, EcalAssumption

LEMMA HereIsTodo ==
  ASSUME NEW t \in Threads, todo[t] \subseteq Places, todo[t] # {}
  PROVE  Here(t) \in todo[t]
<1> DEFINE T == todo[t]
           C == {p[1] : p \in T}
<1>1. C \subseteq Nat /\ C # {}
  BY PlaceParts
<1>2. PICK c \in C : \A d \in C : c <= d
  BY <1>1, LeastNatural
<1> DEFINE S == {p[2] : p \in {q \in T : q[1] = c}}
<1>3. S \subseteq Nat /\ S # {}
  BY PlaceParts
<1>4. PICK s \in S : \A d \in S : s <= d
  BY <1>3, LeastNatural
<1>5. PICK p \in T : p[1] = c /\ p[2] = s
  OBVIOUS
<1>6. ASSUME NEW q \in T
      PROVE  p[1] < q[1] \/ (p[1] = q[1] /\ p[2] <= q[2])
  <2>1. p[1] \in Nat /\ q[1] \in Nat
    BY PlaceParts
  <2>2. p[1] <= q[1]
    BY <1>2, <1>5
  <2>3. q[1] = c => p[2] <= q[2]
    BY <1>4, <1>5
  <2> QED
    BY <1>5, <2>1, <2>2, <2>3
<1>7. \E x \in todo[t] : \A q \in todo[t] : x[1] < q[1] \/ (x[1] = q[1] /\ x[2] <= q[2])
  BY <1>6
<1> QED
  BY <1>7 DEF Here

----------------------------------------------------------------------------
(* The script. *)
LEMMA ScriptLength == Len(Script) = 20 /\ Steps = 1 .. 20
  BY DEF Script, Steps

LEMMA ScriptLoads ==
  /\ Loads(1) /\ Loads(5) /\ Loads(7) /\ Loads(9) /\ Loads(11) /\ Loads(13) /\ Loads(15)
  /\ Loads(17)
  /\ Script[1].kinds = {} /\ Script[5].kinds = {} /\ Script[7].kinds = {"vbal"}
  /\ Script[9].kinds = {"vbal"} /\ Script[11].kinds = {"vbal", "tdisc"}
  /\ Script[13].kinds = {"vbal", "tdisc"} /\ Script[15].kinds = {"vbal", "tdisc"}
  /\ Script[17].kinds = {"vbal", "tdisc", "tcmos"}
  BY DEF Script, Loads, Load, Test

LEMMA ScriptTests ==
  /\ Script[2].test = "fec_test" /\ Script[3].test = "board_id"
  /\ Script[4].test = "cgt_test" /\ Script[6].test = "crate_cbal"
  /\ Script[8].test = "ped_run" /\ Script[10].test = "set_ttot"
  /\ Script[12].test = "get_ttot" /\ Script[14].test = "disc_check"
  /\ Script[16].test = "cmos_m_gtvalid" /\ Script[18].test = "zdisc"
  /\ Script[19].test = "find_noise_2" /\ Script[20].test = "ped_run_by_channel"
  BY DEF Script, Load, Test

LEMMA KindsMeasured ==
  /\ Kinds = {"vbal", "tdisc", "tcmos"}
  /\ MeasuredBy["vbal"] = "crate_cbal" /\ MeasuredBy["tdisc"] = "set_ttot"
  /\ MeasuredBy["tcmos"] = "cmos_m_gtvalid"
  BY DEF Kinds, MeasuredBy

LEMMA ScriptTypes ==
  ASSUME NEW i \in Steps
  PROVE  /\ i \in Nat /\ Script[i].kinds \subseteq Kinds
         /\ Script[i].test \in all_tests \cup {"none"}
<1>1. i \in 1 .. 20
  BY ScriptLength
<1>2. \/ i = 1 \/ i = 5 \/ i = 7 \/ i = 9 \/ i = 11 \/ i = 13 \/ i = 15 \/ i = 17
      \/ i \in {2, 3, 4, 6, 8, 10, 12, 14, 16, 18, 19, 20}
  BY <1>1
<1>3. ASSUME i \in {2, 3, 4, 6, 8, 10, 12, 14, 16, 18, 19, 20}
      PROVE  Script[i].kinds = {}
  BY <1>3 DEF Script, Load, Test
<1>4. Script[i].kinds \subseteq Kinds
  BY <1>2, <1>3, ScriptLoads, KindsMeasured
<1>5. Script[i].test \in all_tests \cup {"none"}
  BY <1>2, ScriptLoads, ScriptTests DEF Loads, all_tests, quick_tests
<1> QED
  BY <1>1, <1>4, <1>5

(* Before every test the script loads the kinds the test needs, and from   *)
(* then on no test measures one of them.                                   *)
LEMMA TestsComeAfterLoads ==
  ASSUME NEW j \in Steps, ~Loads(j)
  PROVE  \E i \in Steps :
           /\ LastLoad(i, j) /\ Script[i].kinds = Needs(Script[j].test)
           /\ \A k \in Script[i].kinds : MeasuredBy[k] # Script[j].test
<1>1. j \in 1 .. 20 /\ Steps = 1 .. 20
  BY ScriptLength
<1>2. j \in {2, 3, 4, 6, 8, 10, 12, 14, 16, 18, 19, 20}
  BY <1>1, ScriptLoads
<1>3. ~Loads(2) /\ ~Loads(3) /\ ~Loads(18) /\ ~Loads(19)
  BY ScriptTests DEF Loads
<1>4. CASE j = 2
  <2>1. LastLoad(1, j)
    BY <1>1, <1>3, <1>4, ScriptLoads DEF LastLoad
  <2>2. Script[1].kinds = Needs(Script[j].test)
    BY <1>4, ScriptLoads, ScriptTests, KindsMeasured DEF Needs
  <2>3. \A k \in Script[1].kinds : MeasuredBy[k] # Script[j].test
    BY <1>4, ScriptLoads, ScriptTests, KindsMeasured
  <2> QED
    BY <1>1, <2>1, <2>2, <2>3
<1>5. CASE j = 3
  <2>1. LastLoad(1, j)
    BY <1>1, <1>3, <1>5, ScriptLoads DEF LastLoad
  <2>2. Script[1].kinds = Needs(Script[j].test)
    BY <1>5, ScriptLoads, ScriptTests, KindsMeasured DEF Needs
  <2>3. \A k \in Script[1].kinds : MeasuredBy[k] # Script[j].test
    BY <1>5, ScriptLoads, ScriptTests, KindsMeasured
  <2> QED
    BY <1>1, <2>1, <2>2, <2>3
<1>6. CASE j = 4
  <2>1. LastLoad(1, j)
    BY <1>1, <1>3, <1>6, ScriptLoads DEF LastLoad
  <2>2. Script[1].kinds = Needs(Script[j].test)
    BY <1>6, ScriptLoads, ScriptTests, KindsMeasured DEF Needs
  <2>3. \A k \in Script[1].kinds : MeasuredBy[k] # Script[j].test
    BY <1>6, ScriptLoads, ScriptTests, KindsMeasured
  <2> QED
    BY <1>1, <2>1, <2>2, <2>3
<1>7. CASE j = 6
  <2>1. LastLoad(5, j)
    BY <1>1, <1>3, <1>7, ScriptLoads DEF LastLoad
  <2>2. Script[5].kinds = Needs(Script[j].test)
    BY <1>7, ScriptLoads, ScriptTests, KindsMeasured DEF Needs
  <2>3. \A k \in Script[5].kinds : MeasuredBy[k] # Script[j].test
    BY <1>7, ScriptLoads, ScriptTests, KindsMeasured
  <2> QED
    BY <1>1, <2>1, <2>2, <2>3
<1>8. CASE j = 8
  <2>1. LastLoad(7, j)
    BY <1>1, <1>3, <1>8, ScriptLoads DEF LastLoad
  <2>2. Script[7].kinds = Needs(Script[j].test)
    BY <1>8, ScriptLoads, ScriptTests, KindsMeasured DEF Needs
  <2>3. \A k \in Script[7].kinds : MeasuredBy[k] # Script[j].test
    BY <1>8, ScriptLoads, ScriptTests, KindsMeasured
  <2> QED
    BY <1>1, <2>1, <2>2, <2>3
<1>9. CASE j = 10
  <2>1. LastLoad(9, j)
    BY <1>1, <1>3, <1>9, ScriptLoads DEF LastLoad
  <2>2. Script[9].kinds = Needs(Script[j].test)
    BY <1>9, ScriptLoads, ScriptTests, KindsMeasured DEF Needs
  <2>3. \A k \in Script[9].kinds : MeasuredBy[k] # Script[j].test
    BY <1>9, ScriptLoads, ScriptTests, KindsMeasured
  <2> QED
    BY <1>1, <2>1, <2>2, <2>3
<1>10. CASE j = 12
  <2>1. LastLoad(11, j)
    BY <1>1, <1>3, <1>10, ScriptLoads DEF LastLoad
  <2>2. Script[11].kinds = Needs(Script[j].test)
    BY <1>10, ScriptLoads, ScriptTests, KindsMeasured DEF Needs
  <2>3. \A k \in Script[11].kinds : MeasuredBy[k] # Script[j].test
    BY <1>10, ScriptLoads, ScriptTests, KindsMeasured
  <2> QED
    BY <1>1, <2>1, <2>2, <2>3
<1>11. CASE j = 14
  <2>1. LastLoad(13, j)
    BY <1>1, <1>3, <1>11, ScriptLoads DEF LastLoad
  <2>2. Script[13].kinds = Needs(Script[j].test)
    BY <1>11, ScriptLoads, ScriptTests, KindsMeasured DEF Needs
  <2>3. \A k \in Script[13].kinds : MeasuredBy[k] # Script[j].test
    BY <1>11, ScriptLoads, ScriptTests, KindsMeasured
  <2> QED
    BY <1>1, <2>1, <2>2, <2>3
<1>12. CASE j = 16
  <2>1. LastLoad(15, j)
    BY <1>1, <1>3, <1>12, ScriptLoads DEF LastLoad
  <2>2. Script[15].kinds = Needs(Script[j].test)
    BY <1>12, ScriptLoads, ScriptTests, KindsMeasured DEF Needs
  <2>3. \A k \in Script[15].kinds : MeasuredBy[k] # Script[j].test
    BY <1>12, ScriptLoads, ScriptTests, KindsMeasured
  <2> QED
    BY <1>1, <2>1, <2>2, <2>3
<1>13. CASE j = 18
  <2>1. LastLoad(17, j)
    BY <1>1, <1>3, <1>13, ScriptLoads DEF LastLoad
  <2>2. Script[17].kinds = Needs(Script[j].test)
    BY <1>13, ScriptLoads, ScriptTests, KindsMeasured DEF Needs
  <2>3. \A k \in Script[17].kinds : MeasuredBy[k] # Script[j].test
    BY <1>13, ScriptLoads, ScriptTests, KindsMeasured
  <2> QED
    BY <1>1, <2>1, <2>2, <2>3
<1>14. CASE j = 19
  <2>1. LastLoad(17, j)
    BY <1>1, <1>3, <1>14, ScriptLoads DEF LastLoad
  <2>2. Script[17].kinds = Needs(Script[j].test)
    BY <1>14, ScriptLoads, ScriptTests, KindsMeasured DEF Needs
  <2>3. \A k \in Script[17].kinds : MeasuredBy[k] # Script[j].test
    BY <1>14, ScriptLoads, ScriptTests, KindsMeasured
  <2> QED
    BY <1>1, <2>1, <2>2, <2>3
<1>15. CASE j = 20
  <2>1. LastLoad(17, j)
    BY <1>1, <1>3, <1>15, ScriptLoads DEF LastLoad
  <2>2. Script[17].kinds = Needs(Script[j].test)
    BY <1>15, ScriptLoads, ScriptTests, KindsMeasured DEF Needs
  <2>3. \A k \in Script[17].kinds : MeasuredBy[k] # Script[j].test
    BY <1>15, ScriptLoads, ScriptTests, KindsMeasured
  <2> QED
    BY <1>1, <2>1, <2>2, <2>3
<1> QED
  BY <1>2, <1>4, <1>5, <1>6, <1>7, <1>8, <1>9, <1>10, <1>11, <1>12, <1>13, <1>14, <1>15

----------------------------------------------------------------------------
(* The steps of an ECAL. *)
LEMMA EcalTypes ==
  ASSUME TypeOK
  PROVE  /\ docs \in [Ecals -> SUBSET Places] /\ rows \subseteq Row
         /\ loaded \in [Places -> [Kinds -> 0 .. clock]] /\ stale \subseteq Crates
         /\ step \in 0 .. Len(Script)
         /\ ecal \in [id : Ecals \cup {NoEcal}, places : SUBSET Places,
                      tests : SUBSET all_tests, new : BOOLEAN]
         /\ ecal.places \subseteq Places
         /\ clock \in Nat /\ sessions \in 0 .. MaxEcals
         /\ bad \in 0 .. MaxBad /\ faults \in 0 .. MaxFaults /\ alive \in BOOLEAN
<1>1. ecal \in [id : Ecals \cup {NoEcal}, places : SUBSET Places,
                tests : SUBSET all_tests, new : BOOLEAN]
  BY DEF TypeOK
<1>2. ecal.places \subseteq Places
  BY <1>1
<1> QED
  BY <1>1, <1>2 DEF TypeOK, Row

LEMMA NextStepIsNext ==
  ASSUME NEW i \in Steps
  PROVE  /\ NextStep(i) \in Steps \cup {0} /\ NextStep(i) \in 0 .. Len(Script)
         /\ NextStep(i) \in Steps =>
              /\ i < NextStep(i)
              /\ \A l \in Steps : i < l /\ l < NextStep(i) => ~Loads(l)
<1> DEFINE later == {j \in Steps : j > i /\ Runs(j, ecal.tests)}
           n == NextStep(i)
<1>1. Steps = 1 .. 20 /\ Len(Script) = 20 /\ later \subseteq Nat
  BY ScriptLength
<1>2. CASE later = {}
  BY <1>1, <1>2 DEF NextStep
<1>3. CASE later # {}
  <2>1. \E j \in later : \A k \in later : j <= k
    BY <1>1, <1>3, LeastNatural
  <2>2. n = CHOOSE j \in later : \A k \in later : j <= k
    BY <1>3 DEF NextStep
  <2> HIDE DEF later, n
  <2>3. n \in later /\ \A k \in later : n <= k
    BY <2>1, <2>2
  <2>4. n \in Steps /\ i < n
    BY <1>1, <2>3 DEF later
  <2>5. ASSUME NEW l \in Steps, i < l, l < n
        PROVE  ~Loads(l)
    <3>1. l \notin later
      BY <1>1, <2>3, <2>4, <2>5
    <3>2. ~Runs(l, ecal.tests)
      BY <1>1, <2>5, <3>1 DEF later
    <3> QED
      BY <3>2 DEF Runs, Loads
  <2>6. n \in 0 .. Len(Script)
    BY <1>1, <2>4
  <2> QED
    BY <2>4, <2>5, <2>6 DEF n
<1> QED
  BY <1>2, <1>3

(* The time of the newest row is a time that has been. *)
LEMMA TimeOfNewest ==
  ASSUME TypeOK, RowsHaveKeys, NEW type, NEW p
  PROVE  TimeOf(Newest(rows, type, p)) \in 0 .. clock
<1> DEFINE N == Newest(rows, type, p)
<1>1. \A r \in N : r.time \in 1 .. clock
  BY DEF Newest, RowsHaveKeys
<1>2. 0 \in 0 .. clock /\ 1 .. clock \subseteq 0 .. clock
  BY EcalTypes
<1>3. CASE N = {}
  BY <1>2, <1>3 DEF TimeOf
<1>4. CASE N # {}
  <2>1. (CHOOSE r \in N : TRUE) \in N
    BY <1>4
  <2>2. TimeOf(N) = (CHOOSE r \in N : TRUE).time
    BY <1>4 DEF TimeOf
  <2> HIDE DEF N
  <2>3. TimeOf(N) \in 1 .. clock
    BY <1>1, <2>1, <2>2
  <2> QED
    BY <1>2, <2>3 DEF N
<1> QED
  BY <1>3, <1>4

(* Rows of other tests do not count. *)
LEMMA NewestOfOthers ==
  ASSUME NEW all, NEW new, NEW type, NEW p, \A r \in new : r.type # type
  PROVE  Newest(all \cup new, type, p) = Newest(all, type, p)
  BY DEF Newest

LEMMA StartEcalInv ==
  ASSUME TypeOK, EcalInv, NEW c \in EcalMenu, StartEcal(c)
  PROVE  TypeOK' /\ EcalInv'
<1>1. UNCHANGED <<docs, rows, loaded, stale, clock, bad, faults, alive>> /\ step = 0
  BY DEF StartEcal
<1>2. c \in EcalCommand
  BY EcalAssumption
<1>3. c.load \in Ecals \cup {NoEcal} /\ c.tests \subseteq all_tests
  BY <1>2 DEF EcalCommand
<1> DEFINE id == IF c.load # NoEcal THEN c.load ELSE GetNewID
           old == c.load # NoEcal /\ NoMask(c)
           given == IF old THEN docs[id] ELSE Chosen(c.crates, c.slots)
           from == IF old THEN {p[1] : p \in docs[id]} ELSE c.crates
           more == IF c.detector THEN {p \in Installed : p[1] \in from} ELSE {}
<1>4. /\ id \in Ecals
      /\ ecal' = [id |-> id, places |-> given \cup more, tests |-> Selected(c),
                  new |-> c.load = NoEcal]
  BY DEF StartEcal
<1>5. given \cup more \subseteq Places
  <2>1. docs[id] \subseteq Places
    BY <1>4, EcalTypes
  <2>2. Chosen(c.crates, c.slots) \subseteq Places
    BY DEF Chosen
  <2>3. more \subseteq Places
    BY EcalAssumption
  <2> QED
    BY <2>1, <2>2, <2>3
<1>6. Selected(c) \subseteq all_tests
  BY <1>3 DEF Selected, all_tests
<1> HIDE DEF id, old, given, from, more
<1>7. ecal' \in [id : Ecals \cup {NoEcal}, places : SUBSET Places,
                 tests : SUBSET all_tests, new : BOOLEAN]
  BY <1>4, <1>5, <1>6
<1>8. step' \in {0, 1} /\ sessions' \in 0 .. MaxEcals
  BY EcalTypes, EcalAssumption DEF StartEcal
<1>9. TypeOK'
  <2>1. step' \in 0 .. Len(Script)
    BY <1>8, ScriptLength
  <2> QED
    BY <1>1, <1>7, <1>8, <2>1 DEF TypeOK
<1>10. RowsHaveKeys'
  BY <1>1 DEF EcalInv, RowsHaveKeys
<1>11. NewEcalHasNoDoc'
  <2> SUFFICES ASSUME ecal'.new PROVE docs[ecal'.id] = {}
    BY <1>1 DEF NewEcalHasNoDoc
  <2>1. c.load = NoEcal
    BY <1>4
  <2>2. id = GetNewID /\ ecal'.id = GetNewID /\ GetNewID \in Ecals
    BY <1>4, <2>1 DEF id
  <2> DEFINE unused == {u \in Ecals : docs[u] = {} /\ \A r \in rows : r.ecal # u}
             fits(e) == IF unused = {} THEN e = NoEcal ELSE e \in unused
  <2>3. GetNewID = CHOOSE e \in Ecals \cup {NoEcal} : fits(e)
    BY DEF GetNewID
  <2>4. \E e \in Ecals \cup {NoEcal} : fits(e)
    OBVIOUS
  <2>5. fits(GetNewID)
    <3> HIDE DEF fits
    <3> QED
      BY <2>3, <2>4
  <2>6. GetNewID \in unused
    BY <2>2, <2>5, EcalAssumption
  <2> QED
    BY <2>2, <2>6
<1>12. LatestIsLoaded'
  <2>1. step' \in Steps => \A i \in Steps : ~(i < step')
    BY <1>8, ScriptLength
  <2> QED
    BY <2>1 DEF LatestIsLoaded, LastLoad
<1>13. HasId'
  BY <1>4 DEF HasId
<1> QED
  BY <1>9, <1>10, <1>11, <1>12, <1>13 DEF EcalInv

LEMMA InitialiseInv ==
  ASSUME TypeOK, EcalInv, Initialise
  PROVE  TypeOK' /\ EcalInv'
<1>1. step \in Steps /\ Loads(step) /\ step' = NextStep(step)
      /\ UNCHANGED <<rows, ecal, clock, sessions, bad>>
  BY DEF Initialise, Loads
<1>2. PICK failing \in SUBSET (EcalCrates \cap Flaky), posted \in BOOLEAN :
        /\ Cardinality(failing) + (IF posted THEN 0 ELSE 1) \in 0 .. MaxFaults - faults
        /\ posted \/ (step = 1 /\ ecal.new)
        /\ faults' = faults + Cardinality(failing) + (IF posted THEN 0 ELSE 1)
        /\ loaded' = [p \in Places |->
             IF p \notin ecal.places \/ p[1] \in failing THEN loaded[p]
             ELSE [k \in Kinds |-> IF k \in Script[step].kinds
                                   THEN TimeOf(Newest(rows, MeasuredBy[k], p)) ELSE 0]]
        /\ stale' = (stale \ EcalCrates) \cup failing
        /\ docs' = EcalDocs(posted)
        /\ alive' \in IF step = 1 /\ faults' > faults THEN BOOLEAN ELSE {TRUE}
  BY DEF Initialise
<1>3. EcalCrates \subseteq Crates
  BY EcalTypes, PlaceParts DEF EcalCrates
<1>4. faults' \in 0 .. MaxFaults
  <2>1. IsFiniteSet(failing)
    BY <1>2, <1>3, EcalAssumption, FS_Subset
  <2>2. Cardinality(failing) \in Nat
    BY <2>1, FS_CardinalityType
  <2>3. faults \in Nat /\ MaxFaults \in Nat
    BY EcalTypes, EcalAssumption
  <2> QED
    BY <1>2, <2>2, <2>3
<1>5. stale' \subseteq Crates
  BY <1>2, <1>3, EcalTypes
<1>6. loaded' \in [Places -> [Kinds -> 0 .. clock']]
  <2>1. \A p \in Places : loaded[p] \in [Kinds -> 0 .. clock]
    BY EcalTypes
  <2>2. \A p \in Places : [k \in Kinds |->
           IF k \in Script[step].kinds THEN TimeOf(Newest(rows, MeasuredBy[k], p)) ELSE 0]
             \in [Kinds -> 0 .. clock]
    <3>1. 0 \in 0 .. clock
      BY EcalTypes
    <3> QED
      BY <3>1, TimeOfNewest DEF EcalInv
  <2> QED
    BY <1>1, <1>2, <2>1, <2>2
<1>7. docs' \in [Ecals -> SUBSET Places]
  BY <1>2, EcalTypes DEF EcalDocs
<1>8. alive' \in BOOLEAN
  BY <1>2
<1>9. TypeOK'
  <2>1. step' \in 0 .. Len(Script)
    BY <1>1, NextStepIsNext
  <2> QED
    BY <1>1, <1>4, <1>5, <1>6, <1>7, <1>8, <2>1 DEF TypeOK
<1>10. RowsHaveKeys'
  BY <1>1 DEF EcalInv, RowsHaveKeys
<1>11. step' # 1
  BY <1>1, NextStepIsNext, ScriptLength
<1>12. NewEcalHasNoDoc'
  BY <1>11 DEF NewEcalHasNoDoc
<1>13. LatestIsLoaded'
  <2> SUFFICES ASSUME step' \in Steps, NEW i \in Steps, LastLoad(i, step'),
                      NEW p \in ecal.places, p[1] \notin stale', NEW k \in Kinds
               PROVE  loaded'[p][k] = IF k \in Script[i].kinds
                                      THEN TimeOf(Newest(rows, MeasuredBy[k], p)) ELSE 0
    BY <1>1 DEF LatestIsLoaded
  <2>1. i = step
    <3>1. step < step' /\ \A l \in Steps : step < l /\ l < step' => ~Loads(l)
      BY <1>1, NextStepIsNext
    <3>2. i < step' /\ Loads(i) /\ \A l \in Steps : i < l /\ l < step' => ~Loads(l)
      BY DEF LastLoad
    <3>3. ~(step < i) /\ ~(i < step)
      BY <1>1, <3>1, <3>2
    <3> QED
      BY <1>1, <3>3, ScriptLength
  <2>2. p \in Places /\ p[1] \in EcalCrates
    BY EcalTypes DEF EcalCrates
  <2>3. p[1] \notin failing
    BY <1>2
  <2> QED
    BY <1>2, <2>1, <2>2, <2>3
<1>14. HasId'
  BY <1>1 DEF EcalInv, HasId
<1> QED
  BY <1>9, <1>10, <1>12, <1>13, <1>14 DEF EcalInv

LEMMA RunTestInv ==
  ASSUME TypeOK, EcalInv, RunTest
  PROVE  /\ TypeOK' /\ EcalInv' /\ rows \subseteq rows'
<1>1. step \in Steps /\ ~Loads(step) /\ step' = NextStep(step) /\ clock' = clock + 1
      /\ UNCHANGED <<docs, loaded, stale, ecal, sessions, alive>>
  BY DEF RunTest, Loads
<1> DEFINE New(missed, failed) ==
             IF Script[step].test = "board_id" THEN {}
             ELSE {RowOf(p, failed) : p \in ecal.places \ missed}
<1>2. PICK missed, failed :
        /\ faults' = faults + (IF missed = {} THEN 0 ELSE 1) /\ faults' <= MaxFaults
        /\ Cardinality(failed) \in 0 .. MaxBad - bad
        /\ bad' = bad + Cardinality(failed)
        /\ rows' = rows \cup New(missed, failed)
  <2> DEFINE Fails(missed) == {p \in ecal.places \ missed : <<Script[step].test, p>> \in Faulty}
             Outcome(missed, failed) ==
               /\ Cardinality(failed) \in 0 .. MaxBad - bad
               /\ bad' = bad + Cardinality(failed)
               /\ rows' = rows \cup New(missed, failed)
  <2>1. PICK missed \in Interrupted :
          /\ faults' = faults + (IF missed = {} THEN 0 ELSE 1)
          /\ faults' <= MaxFaults
          /\ \E failed \in SUBSET Fails(missed) : Outcome(missed, failed)
    BY DEF RunTest
  <2> HIDE DEF Fails, Outcome
  <2>2. PICK failed \in SUBSET Fails(missed) : Outcome(missed, failed)
    BY <2>1
  <2> HIDE DEF New
  <2> QED
    BY <2>1, <2>2, Zenon DEF Outcome
<1>3. /\ clock \in Nat /\ clock + 1 \in Nat /\ Script[step].test \in all_tests
      /\ ecal.id \in Ecals /\ ecal.places \subseteq Places
  BY <1>1, EcalTypes, ScriptTypes DEF Loads, EcalInv, HasId
<1>4. New(missed, failed) \subseteq Row
  <2>1. ASSUME NEW p \in ecal.places
        PROVE  RowOf(p, failed) \in Row
    <3>1. p \in Places /\ (p \in failed) \in BOOLEAN
      BY <1>3
    <3> QED
      BY <1>3, <3>1 DEF Row, RowOf
  <2> QED
    BY <2>1
<1>5. \A r \in New(missed, failed) : r.time = clock + 1 /\ r.type = Script[step].test
  BY DEF RowOf
<1>6. \A r, s \in New(missed, failed) : r.at = s.at => r = s
  BY DEF RowOf
<1> HIDE DEF New
<1>7. TypeOK'
  <2>1. rows' \subseteq Row
    BY <1>2, <1>4, EcalTypes
  <2>2. step' \in 0 .. Len(Script)
    BY <1>1, NextStepIsNext
  <2>3. loaded \in [Places -> [Kinds -> 0 .. clock']] /\ clock' \in Nat
    <3>1. 0 .. clock \subseteq 0 .. clock'
      BY <1>1, <1>3
    <3> QED
      BY <1>1, <1>3, <3>1, EcalTypes
  <2>4. bad' \in 0 .. MaxBad /\ faults' \in 0 .. MaxFaults
    <3>1. bad \in Nat /\ MaxBad \in Nat /\ faults \in Nat /\ MaxFaults \in Nat
      BY EcalTypes, EcalAssumption
    <3>2. bad' \in 0 .. MaxBad
      BY <1>2, <3>1
    <3>3. faults' \in 0 .. MaxFaults
      BY <1>2, <3>1
    <3> QED
      BY <3>2, <3>3
  <2> QED
    BY <1>1, <2>1, <2>2, <2>3, <2>4 DEF TypeOK, Row
<1>8. RowsHaveKeys'
  <2>1. \A r \in rows : r.time \in 1 .. clock
    BY DEF EcalInv, RowsHaveKeys
  <2>2. ASSUME NEW r \in rows' PROVE r.time \in 1 .. clock'
    BY <1>1, <1>2, <1>3, <1>5, <2>1
  <2>3. ASSUME NEW r \in rows', NEW s \in rows', r.type = s.type, r.at = s.at, r.time = s.time
        PROVE  r = s
    <3>1. CASE r \in rows /\ s \in rows
      BY <2>3, <3>1 DEF EcalInv, RowsHaveKeys
    <3>2. CASE r \in New(missed, failed) /\ s \in New(missed, failed)
      BY <1>6, <2>3, <3>2
    <3>3. CASE r \in rows /\ s \in New(missed, failed)
      BY <1>3, <1>5, <2>1, <2>3, <3>3
    <3>4. CASE r \in New(missed, failed) /\ s \in rows
      BY <1>3, <1>5, <2>1, <2>3, <3>4
    <3> QED
      BY <1>2, <3>1, <3>2, <3>3, <3>4
  <2> QED
    BY <2>2, <2>3 DEF RowsHaveKeys
<1>9. NewEcalHasNoDoc'
  <2>1. step' # 1
    BY <1>1, NextStepIsNext, ScriptLength
  <2> QED
    BY <2>1 DEF NewEcalHasNoDoc
<1>10. LatestIsLoaded'
  <2> SUFFICES ASSUME step' \in Steps, NEW i \in Steps, LastLoad(i, step'),
                      NEW p \in ecal.places, p[1] \notin stale, NEW k \in Kinds
               PROVE  loaded[p][k] = IF k \in Script[i].kinds
                                     THEN TimeOf(Newest(rows', MeasuredBy[k], p)) ELSE 0
    BY <1>1 DEF LatestIsLoaded
  <2>1. LastLoad(i, step)
    <3>1. step < step' /\ \A l \in Steps : step < l /\ l < step' => ~Loads(l)
      BY <1>1, NextStepIsNext
    <3>2. i < step' /\ Loads(i) /\ \A l \in Steps : i < l /\ l < step' => ~Loads(l)
      BY DEF LastLoad
    <3>3. ~(step < i) /\ i # step
      BY <1>1, <3>1, <3>2
    <3>4. i < step
      BY <1>1, <3>3, ScriptLength
    <3>5. \A l \in Steps : i < l /\ l < step => ~Loads(l)
      BY <1>1, <3>1, <3>2, ScriptLength
    <3> QED
      BY <3>2, <3>4, <3>5 DEF LastLoad
  <2>2. loaded[p][k] = IF k \in Script[i].kinds
                       THEN TimeOf(Newest(rows, MeasuredBy[k], p)) ELSE 0
    BY <1>1, <2>1 DEF EcalInv, LatestIsLoaded
  <2>3. k \in Script[i].kinds => MeasuredBy[k] # Script[step].test
    <3>1. PICK l \in Steps : /\ LastLoad(l, step)
                             /\ \A q \in Script[l].kinds : MeasuredBy[q] # Script[step].test
      BY <1>1, TestsComeAfterLoads
    <3>2. l = i
      BY <1>1, <2>1, <3>1, ScriptLength DEF LastLoad
    <3> QED
      BY <3>1, <3>2
  <2>4. k \in Script[i].kinds => Newest(rows', MeasuredBy[k], p) = Newest(rows, MeasuredBy[k], p)
    <3> SUFFICES ASSUME k \in Script[i].kinds
                 PROVE  Newest(rows', MeasuredBy[k], p) = Newest(rows, MeasuredBy[k], p)
      OBVIOUS
    <3> DEFINE new == New(missed, failed)
    <3>1. rows' = rows \cup new /\ \A r \in new : r.type # MeasuredBy[k]
      BY <1>2, <1>5, <2>3
    <3> HIDE DEF new
    <3>2. Newest(rows \cup new, MeasuredBy[k], p) = Newest(rows, MeasuredBy[k], p)
      BY <3>1 DEF Newest
    <3> QED
      BY <3>1, <3>2, Zenon
  <2> QED
    BY <2>2, <2>4
<1>11. HasId'
  BY <1>1 DEF EcalInv, HasId
<1> QED
  BY <1>2, <1>7, <1>8, <1>9, <1>10, <1>11 DEF EcalInv


(* What an ECAL adds leaves the rest alone: no row goes away, and the      *)
(* document of an ECAL, once there, stays.                                 *)
LEMMA EcalNextInv ==
  ASSUME TypeOK, EcalInv, EcalNext
  PROVE  /\ TypeOK' /\ EcalInv' /\ rows \subseteq rows'
         /\ \A e \in Ecals : docs[e] # {} => docs'[e] = docs[e]
<1>1. CASE \E c \in EcalMenu : StartEcal(c)
  BY <1>1, StartEcalInv DEF StartEcal
<1>2. CASE Initialise
  <2>1. PICK posted \in BOOLEAN : docs' = EcalDocs(posted)
    BY <1>2 DEF Initialise
  <2>2. step = 1 /\ ecal.new => docs[ecal.id] = {}
    BY DEF EcalInv, NewEcalHasNoDoc
  <2>3. \A e \in Ecals : docs[e] # {} => docs'[e] = docs[e]
    BY <2>1, <2>2, EcalTypes DEF EcalDocs
  <2>4. rows' = rows
    BY <1>2 DEF Initialise
  <2> QED
    BY <1>2, <2>3, <2>4, InitialiseInv
<1>3. CASE RunTest
  BY <1>3, RunTestInv DEF RunTest
<1> QED
  BY <1>1, <1>2, <1>3 DEF EcalNext

----------------------------------------------------------------------------
(* The rows of a slot. *)
LEMMA RowsOfSlot ==
  ASSUME NEW all \in SUBSET Row, NEW p
  PROVE  /\ Used(all, p) \subseteq all /\ Problems(all, p) \subseteq all_tests
         /\ \A r \in Used(all, p) :
              /\ r \in Newest(all, r.type, p) /\ r.at = p /\ r.type \in test_map
         /\ Blamed(all, p) = {} => Used(all, p) = {} /\ Problems(all, p) = {}
<1>1. Used(all, p) \subseteq all
  BY DEF Used, Newest
<1>2. ASSUME NEW r \in Used(all, p)
      PROVE  r \in Newest(all, r.type, p) /\ r.at = p /\ r.type \in test_map
  <2>1. PICK type \in test_map : r \in Newest(all, type, p)
    BY DEF Used
  <2>2. r.type = type /\ r.at = p
    BY <2>1 DEF Newest
  <2> QED
    BY <2>1, <2>2
<1>3. Problems(all, p) \subseteq all_tests
  <2>1. Blamed(all, p) \subseteq all
    BY <1>1 DEF Blamed
  <2>2. \A r \in all : r.type \in all_tests
    BY DEF Row
  <2> QED
    BY <2>1, <2>2 DEF Problems
<1>4. Blamed(all, p) = {} => Used(all, p) = {} /\ Problems(all, p) = {}
  BY DEF Blamed, Problems
<1> QED
  BY <1>1, <1>2, <1>3, <1>4

LEMMA CompleteIfUsed ==
  ASSUME NEW all \in SUBSET Row, NEW p
  PROVE  Complete(all, p) <=> test_map \subseteq TestsOf(Used(all, p))
<1>1. ASSUME Complete(all, p), NEW type \in test_map
      PROVE  type \in TestsOf(Used(all, p))
  <2>1. PICK r : r \in Newest(all, type, p)
    BY <1>1 DEF Complete
  <2>2. r \in Used(all, p) /\ r.type = type
    BY <2>1 DEF Used, Newest
  <2> QED
    BY <2>2 DEF TestsOf
<1>2. ASSUME test_map \subseteq TestsOf(Used(all, p)), NEW type \in test_map
      PROVE  Newest(all, type, p) # {}
  <2>1. PICK r \in Used(all, p) : r.type = type
    BY <1>2 DEF TestsOf
  <2> QED
    BY <2>1, RowsOfSlot
<1> QED
  BY <1>1, <1>2 DEF Complete

(* A document filled from the rows of its slot holds the newest of them,   *)
(* since a row is found by its test, its place and its time.               *)
LEMMA FilledIsMostRecent ==
  ASSUME NEW t \in Threads, NEW p, seen[t] \in SUBSET Row, seen[t] \subseteq rows,
         RowsHaveKeys, \A r \in seen[t] : r.ecal = job[t].id
  PROVE  IsMostRecent(Filled(t, p))
<1> DEFINE all == seen[t]
           d == Filled(t, p)
<1>1. /\ d.at = p /\ d.ecal = job[t].id /\ d.uses = Used(all, p)
      /\ d.problem = Problems(all, p) /\ d.read = all
  BY DEF Filled, NewDoc, NoDoc
<1>2. ASSUME NEW r \in Used(all, p)
      PROVE  /\ r.at = p /\ r.ecal = job[t].id
             /\ \A s \in all : s.type = r.type /\ s.at = r.at => s.time <= r.time
             /\ r.type # "find_noise_2" => (r.type \in Problems(all, p) <=> r.bad)
  <2>1. /\ r \in all /\ r.at = p /\ r.type \in test_map
        /\ \A s \in all : s.type = r.type /\ s.at = p => s.time <= r.time
    BY RowsOfSlot DEF Newest
  <2>2. r.bad /\ r.type # "find_noise_2" => r.type \in Problems(all, p)
    BY DEF Problems, Blamed
  <2>3. ASSUME r.type \in Problems(all, p)
        PROVE  r.bad
    <3>1. PICK s \in Blamed(all, p) : s.bad /\ s.type = r.type
      BY <2>3 DEF Problems
    <3>2. s \in Used(all, p)
      BY <2>1, <3>1 DEF Blamed, test_map, test_map_ncrit
    <3>3. /\ s \in all /\ s.at = p
          /\ \A q \in all : q.type = s.type /\ q.at = p => q.time <= s.time
      BY <3>2, RowsOfSlot DEF Newest
    <3>4. s.time <= r.time /\ r.time <= s.time /\ s.time \in Nat /\ r.time \in Nat
      BY <2>1, <3>1, <3>3 DEF Row
    <3>5. s.time = r.time
      BY <3>4
    <3>6. s = r
      BY <2>1, <3>1, <3>3, <3>5 DEF RowsHaveKeys
    <3> QED
      BY <3>1, <3>6
  <2> QED
    BY <2>1, <2>2, <2>3
<1> HIDE DEF d
<1> QED
  BY <1>1, <1>2 DEF IsMostRecent, d

----------------------------------------------------------------------------
(* The steps of create_fec_docs.                                           *)
LEMMA FecTypes ==
  ASSUME FecTypeOK, Shapes, NEW t \in Threads
  PROVE  /\ TypeOK /\ count_tests \subseteq test_map
         /\ pc \in [Threads -> {"idle", "masks", "read", "slot", "add", "flag", "check", "load"}]
         /\ job \in [Threads -> FecMenu] /\ job[t] \in FecMenu /\ job[t].id \in Ecals
         /\ todo \in [Threads -> SUBSET Places] /\ todo[t] \subseteq Places
         /\ config \in [Threads -> SUBSET Places] /\ config[t] \subseteq Places
         /\ doc \in [Threads -> Document] /\ doc[t] \in Document
         /\ seen \in [Threads -> SUBSET Row] /\ seen[t] \in SUBSET Row /\ seen[t] \subseteq rows
         /\ offered \in [Threads -> SUBSET Places] /\ offered[t] \subseteq Places
         /\ flagged \subseteq Places /\ jobs \in 0 .. MaxJobs
         /\ docs[job[t].id] \subseteq Places
<1>1. job[t] \in FecCommand
  BY FecDocsAssumption DEF FecTypeOK
<1>2. job[t].id \in Ecals
  BY <1>1 DEF FecCommand
<1>3. docs[job[t].id] \subseteq Places
  BY <1>2, EcalTypes DEF FecTypeOK
<1> QED
  BY <1>2, <1>3 DEF FecTypeOK, Shapes

(* What the threads that do not move have in hand.                         *)
LEMMA OthersKeep ==
  ASSUME NEW u \in Threads, InHand(u), pc'[u] = pc[u], job'[u] = job[u],
         todo'[u] = todo[u], doc'[u] = doc[u], seen'[u] = seen[u]
  PROVE  InHand(u)'
<1>1. Here(u)' = Here(u)
  BY DEF Here
<1>2. \A p : NewDoc(u, p)' = NewDoc(u, p) /\ Filled(u, p)' = Filled(u, p)
  BY DEF NewDoc, Filled
<1> QED
  BY <1>1, <1>2 DEF InHand, InLoop

LEMMA EcalInvKept ==
  ASSUME EcalInv, UNCHANGED ecalVars
  PROVE  EcalInv'
  BY DEF EcalInv, RowsHaveKeys, NewEcalHasNoDoc, LatestIsLoaded, HasId, ecalVars, LastLoad, Loads

LEMMA EcalStepInv ==
  ASSUME IInv, EcalNext, UNCHANGED fecVars
  PROVE  IInv'
<1>1. TypeOK' /\ EcalInv' /\ rows \subseteq rows'
  BY EcalNextInv DEF IInv, FecTypeOK
<1>2. FecTypeOK' /\ Shapes'
  BY <1>1 DEF IInv, FecTypeOK, Shapes, fecVars
<1>3. ASSUME NEW t \in Threads
      PROVE  InHand(t)'
  <2>1. InHand(t)
    BY DEF IInv
  <2> QED
    BY <2>1, OthersKeep DEF fecVars
<1>4. PostedAreMostRecent'
  BY DEF IInv, PostedAreMostRecent, fecVars
<1> QED
  BY <1>1, <1>2, <1>3, <1>4 DEF IInv

LEMMA FaultOK ==
  ASSUME TypeOK, Fault \/ NoFault
  PROVE  faults' \in 0 .. MaxFaults
<1>1. faults \in 0 .. MaxFaults /\ MaxFaults \in Nat
  BY EcalTypes, EcalAssumption
<1> QED
  BY <1>1 DEF Fault, NoFault

LEMMA TypeOKKept ==
  ASSUME TypeOK, UNCHANGED ecalVars, faults' \in 0 .. MaxFaults, alive' \in BOOLEAN
  PROVE  TypeOK'
  BY DEF TypeOK, ecalVars

LEMMA StartJobInv ==
  ASSUME IInv, NEW t \in Threads, NEW c \in FecMenu, StartJob(t, c), UNCHANGED ecalVars
  PROVE  IInv'
<1>1. FecTypeOK /\ Shapes
  BY DEF IInv
<1>2. /\ pc[t] = "idle" /\ jobs < MaxJobs /\ jobs' = jobs + 1
      /\ job' = [job EXCEPT ![t] = c] /\ offered' = [offered EXCEPT ![t] = {}]
      /\ doc' = [doc EXCEPT ![t] = NoDoc]
      /\ todo' = [todo EXCEPT ![t] = Chosen(c.crates, c.slots)]
      /\ pc' = [pc EXCEPT ![t] = IF NoMask(c) THEN "masks" ELSE IF HalfAMask(c) THEN "idle" ELSE "read"]
      /\ UNCHANGED <<count_tests, config, seen, fecdb, detector, flagged, alive, faults, rows>>
  BY DEF StartJob, At, Go, NoFault, Databases, ecalVars
<1>3. TypeOK' /\ EcalInv'
  <2>1. faults' \in 0 .. MaxFaults /\ alive' \in BOOLEAN /\ TypeOK
    BY <1>1, <1>2, FecTypes, EcalTypes
  <2> QED
    BY <2>1, TypeOKKept, EcalInvKept DEF IInv
<1>4. NoDoc \in Document /\ Chosen(c.crates, c.slots) \subseteq Places
  BY DEF NoDoc, Document, Chosen
<1>5. jobs' \in 0 .. MaxJobs
  BY <1>1, <1>2, FecTypes, FecDocsAssumption
<1>6. FecTypeOK' /\ Shapes'
  <2>1. pc' \in [Threads -> {"idle", "masks", "read", "slot", "add", "flag", "check", "load"}]
    BY <1>1, <1>2, FecTypes
  <2>2. job' \in [Threads -> FecMenu] /\ todo' \in [Threads -> SUBSET Places]
    BY <1>1, <1>2, <1>4, FecTypes
  <2>3. Shapes'
    BY <1>1, <1>2, <1>4 DEF Shapes
  <2>4. \A u \in Threads : seen'[u] \subseteq rows' /\ offered'[u] \subseteq Places
    BY <1>1, <1>2, <2>3 DEF FecTypeOK, Shapes
  <2> QED
    BY <1>1, <1>2, <1>3, <1>5, <2>1, <2>2, <2>3, <2>4 DEF FecTypeOK
<1>7. ASSUME NEW u \in Threads
      PROVE  InHand(u)'
  <2>1. CASE u = t
    <3>1. pc'[u] \in {"masks", "idle", "read"}
      BY <1>1, <1>2, <2>1, FecTypes
    <3> QED
      BY <3>1 DEF InHand, InLoop
  <2>2. CASE u # t
    <3>1. /\ pc'[u] = pc[u] /\ job'[u] = job[u] /\ todo'[u] = todo[u]
          /\ doc'[u] = doc[u] /\ seen'[u] = seen[u] /\ InHand(u)
      BY <1>1, <1>2, <2>2, FecTypes DEF IInv
    <3> QED
      BY <3>1, OthersKeep
  <2> QED
    BY <2>1, <2>2
<1>8. PostedAreMostRecent'
  BY <1>2 DEF IInv, PostedAreMostRecent
<1> QED
  BY <1>3, <1>6, <1>7, <1>8 DEF IInv

(* The part of a step that concerns the other threads, and the types.      *)
Labels == {"idle", "masks", "read", "slot", "add", "flag", "check", "load"}
LEMMA StepFrame ==
  ASSUME IInv, NEW t \in Threads, UNCHANGED <<ecalVars, job, jobs>>,
         faults' \in 0 .. MaxFaults, alive' \in BOOLEAN, count_tests' \subseteq test_map,
         NEW there \in Labels, Go(t, there),
         todo' \in [Threads -> SUBSET Places], doc' \in [Threads -> Document],
         seen' \in [Threads -> SUBSET Row], seen'[t] \subseteq rows,
         config' \in [Threads -> SUBSET Places], offered' \in [Threads -> SUBSET Places],
         flagged' \subseteq Places,
         \A u \in Threads : u # t =>
           todo'[u] = todo[u] /\ doc'[u] = doc[u] /\ seen'[u] = seen[u],
         InHand(t)', PostedAreMostRecent'
  PROVE  IInv'
<1>1. FecTypeOK /\ Shapes
  BY DEF IInv
<1>2. TypeOK' /\ EcalInv' /\ rows' = rows
  <2>1. TypeOK
    BY <1>1, FecTypes
  <2> QED
    BY <2>1, TypeOKKept, EcalInvKept DEF IInv, ecalVars
<1>3. Shapes'
  BY DEF Shapes
<1>4. pc' \in [Threads -> {"idle", "masks", "read", "slot", "add", "flag", "check", "load"}]
  BY <1>1, FecTypes DEF Go, Labels
<1>5. job' \in [Threads -> FecMenu] /\ jobs' \in 0 .. MaxJobs
  BY <1>1, FecTypes
<1>6. \A u \in Threads : seen'[u] \subseteq rows' /\ offered'[u] \subseteq Places
  BY <1>1, <1>2, FecTypes
<1>7. FecTypeOK'
  BY <1>2, <1>4, <1>5, <1>6 DEF FecTypeOK
<1>8. ASSUME NEW u \in Threads
      PROVE  InHand(u)'
  <2>1. CASE u # t
    <3>1. pc'[u] = pc[u] /\ InHand(u)
      BY <1>1, <2>1, FecTypes DEF Go, IInv
    <3> QED
      BY <2>1, <3>1, OthersKeep
  <2> QED
    BY <2>1
<1> QED
  BY <1>2, <1>3, <1>7, <1>8 DEF IInv

LEMMA GetMasksInv ==
  ASSUME IInv, NEW t \in Threads, GetMasks(t), UNCHANGED ecalVars
  PROVE  IInv'
<1>1. FecTypeOK /\ Shapes /\ TypeOK
  BY DEF IInv, FecTypeOK
<1>2. UNCHANGED <<count_tests, job, doc, config, seen, offered, fecdb, detector, flagged, jobs>>
  BY DEF GetMasks, Databases
<1>3. PICK there \in {"read", "idle"} : Go(t, there)
  BY DEF GetMasks
<1>4. (Fault \/ NoFault) /\ alive' \in BOOLEAN
  BY <1>1, EcalTypes DEF GetMasks
<1>5. /\ todo' \in [Threads -> SUBSET Places]
      /\ \A u \in Threads : u # t => todo'[u] = todo[u]
  BY <1>1, FecTypes DEF GetMasks
<1>6. InHand(t)'
  <2>1. pc'[t] \in {"read", "idle"}
    BY <1>1, <1>3, FecTypes DEF Go
  <2> QED
    BY <2>1 DEF InHand, InLoop
<1>7. PostedAreMostRecent'
  BY <1>2 DEF IInv, PostedAreMostRecent
<1>8. there \in Labels
  BY <1>3 DEF Labels
<1> QED
  BY <1>1, <1>2, <1>3, <1>4, <1>5, <1>6, <1>7, <1>8, FecTypes, FaultOK, StepFrame

LEMMA ReadEcalInv ==
  ASSUME IInv, NEW t \in Threads, ReadEcal(t), UNCHANGED ecalVars
  PROVE  IInv'
<1>1. FecTypeOK /\ Shapes /\ TypeOK /\ rows \subseteq Row
  BY EcalTypes DEF IInv, FecTypeOK
<1>2. UNCHANGED <<count_tests, job, todo, doc, offered, fecdb, detector, flagged, jobs, alive>>
  BY DEF ReadEcal, Databases
<1> DEFINE mine == {r \in rows : r.ecal = job[t].id}
<1>3. PICK there \in {"slot", "idle"} :
        Go(t, there) /\ (there = "slot" => todo[t] # {} /\ seen'[t] = mine)
  <2>1. CASE NoFault /\ seen' = [seen EXCEPT ![t] = mine] /\ Go(t, IF todo[t] = {} THEN "idle" ELSE "slot")
    <3>1. seen'[t] = mine
      BY <1>1, <2>1, FecTypes
    <3> QED
      BY <2>1, <3>1
  <2>2. CASE Go(t, "idle")
    BY <2>2
  <2> QED
    BY <2>1, <2>2 DEF ReadEcal
<1>4. (Fault \/ NoFault) /\ alive' \in BOOLEAN
  BY <1>1, <1>2, EcalTypes DEF ReadEcal
<1>5. /\ seen' \in [Threads -> SUBSET Row] /\ seen'[t] \subseteq rows
      /\ \A u \in Threads : u # t => seen'[u] = seen[u]
  BY <1>1, FecTypes DEF ReadEcal
<1>6. config' \in [Threads -> SUBSET Places]
  BY <1>1, FecTypes DEF ReadEcal
<1>7. InHand(t)'
  <2>1. pc'[t] = there
    BY <1>1, <1>3, FecTypes DEF Go
  <2> QED
    BY <1>2, <1>3, <2>1 DEF InHand, InLoop
<1>8. PostedAreMostRecent'
  BY <1>2 DEF IInv, PostedAreMostRecent
<1>9. there \in Labels
  BY <1>3 DEF Labels
<1> QED
  BY <1>1, <1>2, <1>3, <1>4, <1>5, <1>6, <1>7, <1>8, <1>9, FecTypes, FaultOK, StepFrame

LEMMA CreateFECDBDocInv ==
  ASSUME IInv, NEW t \in Threads, CreateFECDBDoc(t), UNCHANGED ecalVars
  PROVE  IInv'
<1>1. FecTypeOK /\ Shapes /\ TypeOK /\ InHand(t)
  BY DEF IInv, FecTypeOK
<1>2. /\ UNCHANGED <<job, todo, config, seen, offered, fecdb, detector, flagged, jobs>>
      /\ NoFault /\ pc[t] = "slot" /\ Go(t, "add") /\ count_tests' = {}
  BY DEF CreateFECDBDoc, Databases, At, CountsAtSlot
<1>3. alive' \in BOOLEAN
  BY <1>1, EcalTypes DEF CreateFECDBDoc
<1>4. todo[t] # {} /\ Here(t) \in Places /\ \A r \in seen[t] : r.ecal = job[t].id
  BY <1>1, <1>2, FecTypes, HereIsTodo DEF InHand, InLoop
<1>5. NewDoc(t, Here(t)) \in Document
  BY <1>1, <1>4, FecTypes DEF NewDoc, NoDoc, Document
<1>6. PICK d \in Document : doc' = [doc EXCEPT ![t] = d] /\ (d.known => d = NewDoc(t, Here(t)))
  <2>1. CASE doc' = [doc EXCEPT ![t] = NewDoc(t, Here(t))]
    BY <1>5, <2>1
  <2>2. CASE doc' = [doc EXCEPT ![t].known = FALSE]
    <3> DEFINE d == [doc[t] EXCEPT !.known = FALSE]
    <3>1. doc[t] \in Document
      BY <1>1, FecTypes
    <3>2. d \in Document /\ ~d.known
      BY <3>1 DEF Document
    <3> QED
      BY <2>2, <3>2
  <2> QED
    BY <2>1, <2>2 DEF CreateFECDBDoc
<1>7. doc' \in [Threads -> Document] /\ doc'[t] = d /\ \A u \in Threads : u # t => doc'[u] = doc[u]
  BY <1>1, <1>6, FecTypes
<1>8. InHand(t)'
  <2>1. pc'[t] = "add"
    BY <1>1, <1>2, FecTypes DEF Go
  <2>2. Here(t)' = Here(t) /\ NewDoc(t, Here(t))' = NewDoc(t, Here(t))
    BY <1>2 DEF Here, NewDoc
  <2> QED
    BY <1>2, <1>4, <1>6, <1>7, <2>1, <2>2 DEF InHand, InLoop
<1>9. PostedAreMostRecent'
  BY <1>2 DEF IInv, PostedAreMostRecent
<1>10. "add" \in Labels
  BY DEF Labels
<1> QED
  BY <1>1, <1>2, <1>3, <1>7, <1>8, <1>9, <1>10, FecTypes, FaultOK, StepFrame

LEMMA AddResultsInv ==
  ASSUME IInv, NEW t \in Threads, AddResults(t), UNCHANGED ecalVars
  PROVE  IInv'
<1> DEFINE p == Here(t)
           uses == Used(seen[t], p)
           problem == IF Blamed(seen[t], p) = {} THEN doc[t].problem ELSE Problems(seen[t], p)
           d == [doc[t] EXCEPT !.uses = @ \cup uses, !.problem = problem]
<1>1. FecTypeOK /\ Shapes /\ TypeOK /\ InHand(t)
  BY DEF IInv, FecTypeOK
<1>2. /\ UNCHANGED <<job, todo, config, seen, offered, fecdb, detector, flagged, jobs, alive>>
      /\ NoFault /\ pc[t] = "add" /\ count_tests' = count_tests \cup {r.type : r \in uses}
  BY DEF AddResults, Databases, At
<1>3. PICK there \in {"flag", "check"} : Go(t, there)
  BY DEF AddResults
<1>4. todo[t] # {} /\ \A r \in seen[t] : r.ecal = job[t].id
  BY <1>1, <1>2 DEF InHand, InLoop
<1>5. doc' = [doc EXCEPT ![t] = d]
  BY DEF AddResults
<1>6. /\ uses \subseteq Row /\ \A r \in uses : r.type \in test_map
      /\ Problems(seen[t], p) \subseteq all_tests
      /\ Blamed(seen[t], p) = {} => uses = {} /\ Problems(seen[t], p) = {}
  BY <1>1, FecTypes, RowsOfSlot
<1>7. d \in Document
  <2>1. doc[t] \in Document
    BY <1>1, FecTypes
  <2>2. doc[t].uses \cup uses \in SUBSET Row /\ problem \in SUBSET all_tests
    BY <1>6, <2>1 DEF Document
  <2> HIDE DEF uses, problem
  <2> QED
    BY <2>1, <2>2 DEF Document
<1>8. d.known => d = Filled(t, p)
  <2> SUFFICES ASSUME d.known PROVE d = Filled(t, p)
    OBVIOUS
  <2>1. doc[t] \in Document
    BY <1>1, FecTypes
  <2>2. doc[t].known
    BY <2>1 DEF Document
  <2>3. doc[t] = NewDoc(t, p)
    BY <1>1, <1>2, <2>2 DEF InHand
  <2>4. doc[t].uses = {} /\ doc[t].problem = {}
    BY <2>3 DEF NewDoc, NoDoc
  <2>5. problem = Problems(seen[t], p) /\ doc[t].uses \cup uses = uses
    BY <1>6, <2>4
  <2> HIDE DEF uses, problem
  <2>6. d = [NewDoc(t, p) EXCEPT !.uses = uses, !.problem = Problems(seen[t], p)]
    BY <2>3, <2>5
  <2> QED
    BY <2>6 DEF Filled, uses
<1> HIDE DEF d, uses, problem
<1>9. doc' \in [Threads -> Document] /\ doc'[t] = d /\ \A u \in Threads : u # t => doc'[u] = doc[u]
  BY <1>1, <1>5, <1>7, FecTypes
<1>10. InHand(t)'
  <2>1. pc'[t] = there
    BY <1>1, <1>3, FecTypes DEF Go
  <2>2. Here(t)' = p /\ Filled(t, p)' = Filled(t, p)
    BY <1>2 DEF Here, Filled, NewDoc
  <2>3. doc'[t].known => doc'[t] = Filled(t, Here(t))'
    <3>1. Filled(t, Here(t))' = Filled(t, p)'
      BY <2>2 DEF Filled, NewDoc, p, Here
    <3> QED
      BY <1>8, <1>9, <2>2, <3>1
  <2> QED
    BY <1>2, <1>3, <1>4, <2>1, <2>3 DEF InHand, InLoop
<1>11. PostedAreMostRecent'
  BY <1>2 DEF IInv, PostedAreMostRecent
<1>12. there \in Labels /\ count_tests' \subseteq test_map
  BY <1>1, <1>2, <1>3, <1>6, FecTypes DEF Labels
<1>13. alive' \in BOOLEAN
  BY <1>1, <1>2, EcalTypes
<1> QED
  BY <1>1, <1>2, <1>3, <1>9, <1>10, <1>11, <1>12, <1>13, FecTypes, FaultOK, StepFrame

LEMMA FlagInv ==
  ASSUME IInv, NEW t \in Threads, FlagBadDiscriminators(t), UNCHANGED ecalVars
  PROVE  IInv'
<1>1. FecTypeOK /\ Shapes /\ TypeOK /\ InHand(t)
  BY DEF IInv, FecTypeOK
<1>2. /\ UNCHANGED <<count_tests, job, todo, doc, config, seen, offered, fecdb, detector, jobs, alive>>
      /\ pc[t] = "flag" /\ Go(t, "check") /\ (Fault \/ NoFault)
  BY DEF FlagBadDiscriminators, At
<1>3. todo[t] # {} /\ \A r \in seen[t] : r.ecal = job[t].id
  BY <1>1, <1>2 DEF InHand, InLoop
<1>4. flagged' \subseteq Places
  <2>1. Here(t) \in Places /\ flagged \subseteq Places
    BY <1>1, <1>3, FecTypes, HereIsTodo
  <2> QED
    BY <2>1 DEF FlagBadDiscriminators
<1>5. InHand(t)'
  <2>1. pc'[t] = "check"
    BY <1>1, <1>2, FecTypes DEF Go
  <2>2. Filled(t, Here(t))' = Filled(t, Here(t))
    BY <1>2 DEF Here, Filled, NewDoc
  <2> QED
    BY <1>1, <1>2, <1>3, <2>1, <2>2 DEF InHand, InLoop
<1>6. PostedAreMostRecent'
  BY <1>2 DEF IInv, PostedAreMostRecent
<1>7. "check" \in Labels /\ alive' \in BOOLEAN
  BY <1>1, <1>2, EcalTypes DEF Labels
<1> QED
  BY <1>1, <1>2, <1>4, <1>5, <1>6, <1>7, FecTypes, FaultOK, StepFrame

LEMMA NextSlotInv ==
  ASSUME FecTypeOK, Shapes, NEW t \in Threads, NextSlot(t), UNCHANGED <<seen, job>>,
         todo[t] # {}, \A r \in seen[t] : r.ecal = job[t].id
  PROVE  /\ todo' \in [Threads -> SUBSET Places] /\ todo'[t] = todo[t] \ {Here(t)}
         /\ \A u \in Threads : u # t => todo'[u] = todo[u]
         /\ \E there \in {"idle", "slot"} : Go(t, there) /\ pc'[t] = there
         /\ pc'[t] = "idle" <=> todo[t] = {Here(t)}
         /\ InHand(t)'
<1>1. todo' \in [Threads -> SUBSET Places] /\ todo'[t] = todo[t] \ {Here(t)}
      /\ \A u \in Threads : u # t => todo'[u] = todo[u]
  BY FecTypes DEF NextSlot
<1>2. pc'[t] = IF todo[t] = {Here(t)} THEN "idle" ELSE "slot"
  BY FecTypes DEF NextSlot, Go
<1>3. \E there \in {"idle", "slot"} : Go(t, there) /\ pc'[t] = there
  BY <1>2 DEF NextSlot
<1>4. pc'[t] = "slot" => todo'[t] # {}
  BY <1>1, <1>2
<1> QED
  BY <1>1, <1>2, <1>3, <1>4 DEF InHand, InLoop

LEMMA CheckAndPostInv ==
  ASSUME IInv, NEW t \in Threads, CheckAndPost(t), UNCHANGED ecalVars
  PROVE  IInv'
<1>1. FecTypeOK /\ Shapes /\ TypeOK /\ InHand(t)
  BY DEF IInv, FecTypeOK
<1>2. /\ UNCHANGED <<count_tests, job, doc, config, seen, detector, flagged, jobs, alive>>
      /\ pc[t] = "check" /\ (Fault \/ NoFault)
  BY DEF CheckAndPost, At
<1>3. /\ todo[t] # {} /\ (\A r \in seen[t] : r.ecal = job[t].id)
      /\ (doc[t].known => doc[t] = Filled(t, Here(t)))
  BY <1>1, <1>2 DEF InHand, InLoop
<1>4. alive' \in BOOLEAN
  BY <1>1, <1>2, EcalTypes
<1>5. CASE NextSlot(t) /\ UNCHANGED <<fecdb, offered>>
  <2>1. PICK there \in {"idle", "slot"} : Go(t, there) /\ pc'[t] = there
    BY <1>1, <1>2, <1>3, <1>5, NextSlotInv
  <2>2. PostedAreMostRecent'
    BY <1>5 DEF IInv, PostedAreMostRecent
  <2>3. there \in Labels
    BY <2>1 DEF Labels
  <2>4. /\ todo' \in [Threads -> SUBSET Places] /\ InHand(t)'
        /\ \A u \in Threads : u # t => todo'[u] = todo[u]
    BY <1>1, <1>2, <1>3, <1>5, NextSlotInv
  <2> QED
    BY <1>1, <1>2, <1>4, <1>5, <2>1, <2>2, <2>3, <2>4, FecTypes, FaultOK, StepFrame
<1>6. CASE /\ fecdb' = fecdb \cup {doc[t]} \/ UNCHANGED fecdb
           /\ offered' = [offered EXCEPT ![t] = @ \cup {Here(t)}]
           /\ Go(t, "load") /\ UNCHANGED todo
  <2>1. Here(t) \in Places
    BY <1>1, <1>3, FecTypes, HereIsTodo
  <2>2. offered' \in [Threads -> SUBSET Places]
    BY <1>1, <1>6, <2>1, FecTypes
  <2>3. IsMostRecent(doc[t])
    <3>1. CASE doc[t].known
      <4>1. seen[t] \in SUBSET Row /\ seen[t] \subseteq rows /\ RowsHaveKeys
        BY <1>1, FecTypes DEF IInv, EcalInv
      <4>2. IsMostRecent(Filled(t, Here(t)))
        BY <1>3, <4>1, FilledIsMostRecent
      <4> QED
        BY <1>3, <3>1, <4>2
    <3>2. CASE ~doc[t].known
      BY <3>2 DEF IsMostRecent
    <3> QED
      BY <3>1, <3>2
  <2>4. PostedAreMostRecent'
    <3> SUFFICES ASSUME NEW d \in fecdb' PROVE IsMostRecent(d)
      BY DEF PostedAreMostRecent, IsMostRecent
    <3> QED
      BY <1>6, <2>3 DEF IInv, PostedAreMostRecent
  <2>5. InHand(t)'
    <3>1. pc'[t] = "load"
      BY <1>1, <1>6, FecTypes DEF Go
    <3>2. Filled(t, Here(t))' = Filled(t, Here(t))
      BY <1>2, <1>6 DEF Here, Filled, NewDoc
    <3> QED
      BY <1>2, <1>3, <1>6, <3>1, <3>2 DEF InHand, InLoop
  <2>6. "load" \in Labels
    BY DEF Labels
  <2> QED
    BY <1>1, <1>2, <1>4, <1>6, <2>2, <2>4, <2>5, <2>6, FecTypes, FaultOK, StepFrame
<1> QED
  BY <1>5, <1>6 DEF CheckAndPost

LEMMA LoadDetectorDBInv ==
  ASSUME IInv, NEW t \in Threads, LoadDetectorDB(t), UNCHANGED ecalVars
  PROVE  IInv'
<1>1. FecTypeOK /\ Shapes /\ TypeOK /\ InHand(t)
  BY DEF IInv, FecTypeOK
<1>2. /\ UNCHANGED <<count_tests, job, doc, config, seen, offered, fecdb, flagged, jobs, alive>>
      /\ pc[t] = "load" /\ NextSlot(t)
  BY DEF LoadDetectorDB, At
<1>3. todo[t] # {} /\ \A r \in seen[t] : r.ecal = job[t].id
  BY <1>1, <1>2 DEF InHand, InLoop
<1>4. faults' \in 0 .. MaxFaults
  <2>1. PICK done \in SUBSET Tables :
          faults' = faults + Cardinality(Tables \ done) /\ faults' <= MaxFaults
    BY DEF LoadDetectorDB
  <2>2. IsFiniteSet({"fecdoc", "zdisc", "test_status"})
    <3>1. IsFiniteSet({"fecdoc"})
      BY FS_Singleton
    <3>2. IsFiniteSet({"fecdoc"} \cup {"zdisc"})
      BY <3>1, FS_AddElement
    <3>3. IsFiniteSet(({"fecdoc"} \cup {"zdisc"}) \cup {"test_status"})
      BY <3>2, FS_AddElement
    <3>4. ({"fecdoc"} \cup {"zdisc"}) \cup {"test_status"} = {"fecdoc", "zdisc", "test_status"}
      OBVIOUS
    <3> QED
      BY <3>3, <3>4, Zenon
  <2>3. Cardinality(Tables \ done) \in Nat
    BY <2>2, FS_Subset, FS_CardinalityType DEF Tables
  <2>4. faults \in Nat /\ MaxFaults \in Nat
    BY <1>1, EcalTypes, EcalAssumption
  <2> QED
    BY <2>1, <2>3, <2>4
<1>5. PICK there \in {"idle", "slot"} : Go(t, there) /\ pc'[t] = there
  BY <1>1, <1>2, <1>3, NextSlotInv
<1>6. PostedAreMostRecent'
  BY <1>2 DEF IInv, PostedAreMostRecent
<1>7. there \in Labels /\ alive' \in BOOLEAN
  BY <1>1, <1>2, <1>5, EcalTypes DEF Labels
<1>8. /\ todo' \in [Threads -> SUBSET Places] /\ InHand(t)'
      /\ \A u \in Threads : u # t => todo'[u] = todo[u]
  BY <1>1, <1>2, <1>3, NextSlotInv
<1> QED
  BY <1>1, <1>2, <1>4, <1>5, <1>6, <1>7, <1>8, FecTypes, FaultOK, StepFrame

LEMMA FecInitInv == Init => IInv
<1> SUFFICES ASSUME Init PROVE IInv
  OBVIOUS
<1>1. TypeOK
  <2>1. Len(Script) = 20 /\ Kinds = DOMAIN MeasuredBy
    BY ScriptLength DEF Kinds
  <2>2. 0 \in 0 .. Len(Script) /\ 0 \in 0 .. MaxEcals /\ 0 \in 0 .. MaxBad
        /\ 0 \in 0 .. MaxFaults /\ 0 \in 0 .. 0
    BY <2>1, EcalAssumption
  <2>3. NoSession \in [id : Ecals \cup {NoEcal}, places : SUBSET Places,
                       tests : SUBSET all_tests, new : BOOLEAN]
    BY DEF NoSession
  <2>4. [p \in Places |-> [k \in Kinds |-> 0]] \in [Places -> [Kinds -> 0 .. 0]]
    BY <2>2
  <2> QED
    BY <2>2, <2>3, <2>4 DEF Init, EcalInit, TypeOK
<1>2. FecTypeOK
  <2>1. (CHOOSE c \in FecMenu : TRUE) \in FecMenu
    BY FecDocsAssumption
  <2>2. 0 \in 0 .. MaxJobs
    BY FecDocsAssumption
  <2> QED
    BY <1>1, <2>1, <2>2 DEF Init, FecInit, FecTypeOK
<1>3. Shapes
  <2>1. NoDoc \in Document
    BY DEF NoDoc, Document
  <2> QED
    BY <2>1 DEF Init, FecInit, Shapes
<1>4. EcalInv
  BY ScriptLength DEF Init, EcalInit, EcalInv, RowsHaveKeys, NewEcalHasNoDoc, LatestIsLoaded, HasId
<1>5. (\A t \in Threads : InHand(t)) /\ PostedAreMostRecent
  BY DEF Init, FecInit, InHand, InLoop, PostedAreMostRecent
<1> QED
  BY <1>2, <1>3, <1>4, <1>5 DEF IInv

LEMMA FecNextInv == IInv /\ [Next]_vars => IInv'
<1> SUFFICES ASSUME IInv, [Next]_vars PROVE IInv'
  OBVIOUS
<1>1. CASE EcalNext /\ UNCHANGED fecVars
  BY <1>1, EcalStepInv
<1>2. CASE FecNext /\ UNCHANGED ecalVars
  <2>1. PICK t \in Threads : FecStep(t) \/ \E c \in FecMenu : StartJob(t, c)
    BY <1>2 DEF FecNext
  <2>2. CASE \E c \in FecMenu : StartJob(t, c)
    BY <1>2, <2>2, StartJobInv
  <2>3. CASE GetMasks(t)
    BY <1>2, <2>3, GetMasksInv
  <2>4. CASE ReadEcal(t)
    BY <1>2, <2>4, ReadEcalInv
  <2>5. CASE CreateFECDBDoc(t)
    BY <1>2, <2>5, CreateFECDBDocInv
  <2>6. CASE AddResults(t)
    BY <1>2, <2>6, AddResultsInv
  <2>7. CASE FlagBadDiscriminators(t)
    BY <1>2, <2>7, FlagInv
  <2>8. CASE CheckAndPost(t)
    BY <1>2, <2>8, CheckAndPostInv
  <2>9. CASE LoadDetectorDB(t)
    BY <1>2, <2>9, LoadDetectorDBInv
  <2> QED
    BY <2>1, <2>2, <2>3, <2>4, <2>5, <2>6, <2>7, <2>8, <2>9 DEF FecStep
<1>3. CASE UNCHANGED vars
  <2>1. UNCHANGED <<ecalVars, fecVars, faults, alive>>
    BY <1>3 DEF vars
  <2>2. TypeOK' /\ EcalInv'
    <3>1. TypeOK /\ faults' \in 0 .. MaxFaults /\ alive' \in BOOLEAN
      BY <2>1, EcalTypes DEF IInv, FecTypeOK
    <3> QED
      BY <2>1, <3>1, TypeOKKept, EcalInvKept DEF IInv
  <2>3. FecTypeOK' /\ Shapes'
    BY <2>1, <2>2 DEF IInv, FecTypeOK, Shapes, fecVars, ecalVars
  <2>4. \A t \in Threads : InHand(t)'
    BY <2>1, OthersKeep DEF IInv, fecVars
  <2>5. PostedAreMostRecent'
    BY <2>1 DEF IInv, PostedAreMostRecent, fecVars
  <2> QED
    BY <2>2, <2>3, <2>4, <2>5 DEF IInv
<1> QED
  BY <1>1, <1>2, <1>3 DEF Next

LEMMA SpecIInv == Spec => []IInv
  BY FecInitInv, FecNextInv, PTL DEF Spec

(* Every variable of the ECAL and of create_fec_docs keeps its type, and   *)
(* the rows a thread has read are rows of the data base.                   *)
THEOREM SpecFecTypeOK == Spec => []FecTypeOK
<1>1. IInv => FecTypeOK
  BY DEF IInv
<1> QED
  BY <1>1, SpecIInv, PTL

(* However often a test was repeated, by whichever ECAL and while the      *)
(* command runs, and whatever fails: a document posted for a slot of its   *)
(* ECAL holds the newest row of each critical test, and the bit of a test  *)
(* says what that row says.                                                *)
THEOREM SpecMostRecentCounts == Spec => []MostRecentCounts
<1>1. IInv => MostRecentCounts
  BY DEF IInv, PostedAreMostRecent, IsMostRecent, MostRecentCounts
<1> QED
  BY <1>1, SpecIInv, PTL

(* In a crate whose latest initialisation has not failed, a slot is tested *)
(* with what was measured last on it, of every kind the script promises:   *)
(* no measurement can come between the initialisation that loads a value   *)
(* and the tests that need it, whichever tests are selected.  ECAL does    *)
(* not look at the result of CrateInit, and tests a crate for which it has *)
(* failed with whatever is loaded there.                                   *)
THEOREM SpecTestedWithLatest == Spec => TestedWithLatest
<1> DEFINE Tested ==
             \A r \in rows' \ rows : r.at[1] \notin stale =>
               \A k \in Kinds : loaded[r.at][k] =
                 IF k \in Needs(r.type) THEN TimeOf(Newest(rows, MeasuredBy[k], r.at)) ELSE 0
<1>1. IInv /\ [Next]_vars => [Tested]_rows
  <2> SUFFICES ASSUME IInv, [Next]_vars, rows' # rows PROVE Tested
    OBVIOUS
  <2>1. RunTest
    <3>1. EcalNext
      BY DEF Next, ecalVars, vars
    <3> QED
      BY <3>1 DEF EcalNext, StartEcal, Initialise
  <2>2. TypeOK /\ LatestIsLoaded /\ step \in Steps /\ ~Loads(step)
    BY <2>1 DEF IInv, FecTypeOK, EcalInv, RunTest, Loads
  <2>3. ASSUME NEW r \in rows' \ rows
        PROVE  r.type = Script[step].test /\ r.at \in ecal.places
    BY <2>1, <2>3 DEF RunTest, RowOf
  <2>4. PICK i \in Steps : LastLoad(i, step) /\ Script[i].kinds = Needs(Script[step].test)
    BY <2>2, TestsComeAfterLoads
  <2> SUFFICES ASSUME NEW r \in rows' \ rows, r.at[1] \notin stale, NEW k \in Kinds
               PROVE  loaded[r.at][k] =
                 IF k \in Needs(r.type) THEN TimeOf(Newest(rows, MeasuredBy[k], r.at)) ELSE 0
    OBVIOUS
  <2>5. r.type = Script[step].test /\ r.at \in ecal.places
    BY <2>3
  <2>6. loaded[r.at][k] = IF k \in Script[i].kinds
                          THEN TimeOf(Newest(rows, MeasuredBy[k], r.at)) ELSE 0
    BY <2>2, <2>4, <2>5 DEF LatestIsLoaded
  <2> QED
    BY <2>4, <2>5, <2>6
<1> HIDE DEF Tested
<1>2. Spec => [][Tested]_rows
  BY <1>1, SpecIInv, PTL DEF Spec
<1> QED
  BY <1>2 DEF Tested, TestedWithLatest

----------------------------------------------------------------------------
(* One create_fec_docs at a time.                                          *)
LEMMA OthersCounted ==
  ASSUME NEW u \in Threads, Counted(u), pc'[u] = pc[u], todo'[u] = todo[u],
         doc'[u] = doc[u], seen'[u] = seen[u], pc[u] = "idle" \/ count_tests' = count_tests
  PROVE  Counted(u)'
<1>1. Here(u)' = Here(u)
  BY DEF Here
<1> QED
  BY <1>1 DEF Counted

LEMMA OthersDealtWith ==
  ASSUME NEW u \in Threads, DealtWith(u), pc'[u] = pc[u], job'[u] = job[u],
         todo'[u] = todo[u], seen'[u] = seen[u], offered'[u] = offered[u],
         config'[u] = config[u],
         docs[job[u].id] # {} => docs'[job[u].id] = docs[job[u].id]
  PROVE  DealtWith(u)'
<1>1. Here(u)' = Here(u) /\ Requested(u)' = Requested(u)
  BY DEF Here, Requested
<1>2. \A places : Deserving(u, places)' = Deserving(u, places)
  BY DEF Deserving
<1>3. CASE InLoop(u)
  <2> DEFINE before == (Requested(u) \ todo[u]) \cup (IF pc[u] = "load" THEN {Here(u)} ELSE {})
  <2>1. todo[u] \subseteq Requested(u) /\ offered[u] = Deserving(u, before)
    BY <1>3 DEF DealtWith
  <2>2. before' = before
    BY <1>1
  <2>3. Deserving(u, before)' = Deserving(u, before)
    BY <2>2 DEF Deserving
  <2>4. offered'[u] = Deserving(u, before)'
    BY <2>1, <2>3
  <2>5. todo'[u] \subseteq Requested(u)'
    BY <1>1, <2>1
  <2>6. pc'[u] # "masks" /\ pc'[u] # "read"
    BY <1>3 DEF InLoop
  <2> QED
    BY <2>4, <2>5, <2>6 DEF DealtWith
<1>4. CASE ~InLoop(u)
  BY <1>4 DEF DealtWith, InLoop
<1> QED
  BY <1>3, <1>4

(* What is left to show of a step of a thread: the rest of the invariant   *)
(* concerns threads that are idle, or is left as it is.                    *)
LEMMA AloneFrame ==
  ASSUME IInv, AloneInv, OneRunsAtATime, NEW t \in Threads, pc[t] # "idle",
         UNCHANGED <<ecalVars, job>>, NEW there \in Labels, Go(t, there),
         \A u \in Threads : u # t =>
           /\ todo'[u] = todo[u] /\ doc'[u] = doc[u] /\ seen'[u] = seen[u]
           /\ offered'[u] = offered[u] /\ config'[u] = config[u],
         Counted(t)', DealtWith(t)', PostedAreComplete'
  PROVE  AloneInv'
<1>1. ASSUME NEW u \in Threads, u # t
      PROVE  Counted(u)' /\ DealtWith(u)'
  <2>1. pc'[u] = pc[u]
    BY <1>1, FecTypes DEF Go, IInv
  <2>2. pc[u] = "idle"
    BY <1>1 DEF OneRunsAtATime
  <2>3. Counted(u)'
    BY <1>1, <2>1, <2>2, OthersCounted DEF AloneInv
  <2>4. DealtWith(u)'
    BY <1>1, <2>1, OthersDealtWith DEF AloneInv, ecalVars
  <2> QED
    BY <2>3, <2>4
<1> QED
  BY <1>1 DEF AloneInv

LEMMA StartJobAlone ==
  ASSUME IInv, AloneInv, NEW t \in Threads, NEW c \in FecMenu, StartJob(t, c),
         UNCHANGED ecalVars
  PROVE  AloneInv'
<1>1. FecTypeOK /\ Shapes
  BY DEF IInv
<1> DEFINE there == IF NoMask(c) THEN "masks" ELSE IF HalfAMask(c) THEN "idle" ELSE "read"
<1>2. /\ pc' = [pc EXCEPT ![t] = there] /\ job' = [job EXCEPT ![t] = c]
      /\ offered' = [offered EXCEPT ![t] = {}] /\ doc' = [doc EXCEPT ![t] = NoDoc]
      /\ todo' = [todo EXCEPT ![t] = Chosen(c.crates, c.slots)]
      /\ UNCHANGED <<count_tests, config, seen, fecdb, detector, docs>>
  BY DEF StartJob, At, Go, Databases, ecalVars
<1>3. /\ pc'[t] = there /\ job'[t] = c /\ offered'[t] = {}
      /\ todo'[t] = Chosen(c.crates, c.slots)
  BY <1>1, <1>2, FecTypes
<1>4. PostedAreComplete'
  BY <1>2 DEF AloneInv, PostedAreComplete
<1>5. there \in {"masks", "idle", "read"}
      /\ (there = "masks" => NoMask(c)) /\ (there = "read" => ~NoMask(c))
  OBVIOUS
<1> HIDE DEF there
<1>6. Counted(t)'
  BY <1>3, <1>5 DEF Counted
<1>7. DealtWith(t)'
  BY <1>3, <1>5 DEF DealtWith, InLoop
<1>8. ASSUME NEW u \in Threads, u # t
      PROVE  Counted(u)' /\ DealtWith(u)'
  <2>1. /\ pc'[u] = pc[u] /\ job'[u] = job[u] /\ todo'[u] = todo[u]
        /\ doc'[u] = doc[u] /\ seen'[u] = seen[u] /\ offered'[u] = offered[u]
        /\ config'[u] = config[u]
    BY <1>1, <1>2, <1>8, FecTypes
  <2>2. Counted(u) /\ DealtWith(u)
    BY DEF AloneInv
  <2> QED
    BY <1>2, <2>1, <2>2, OthersCounted, OthersDealtWith
<1> QED
  BY <1>4, <1>6, <1>7, <1>8 DEF AloneInv

LEMMA GetMasksAlone ==
  ASSUME IInv, AloneInv, OneRunsAtATime, NEW t \in Threads, GetMasks(t), UNCHANGED ecalVars
  PROVE  AloneInv'
<1>1. FecTypeOK /\ Shapes /\ Counted(t) /\ DealtWith(t)
  BY DEF IInv, AloneInv
<1>2. /\ UNCHANGED <<count_tests, job, doc, config, seen, offered, fecdb, detector, docs>>
      /\ pc[t] = "masks"
  BY DEF GetMasks, Databases, At, ecalVars
<1>3. PICK there \in {"read", "idle"} :
        Go(t, there) /\ (there = "read" => docs[job[t].id] # {} /\ todo'[t] = docs[job[t].id])
  <2>1. CASE /\ docs[job[t].id] # {} /\ todo' = [todo EXCEPT ![t] = docs[job[t].id]]
             /\ Go(t, "read")
    BY <1>1, <2>1, FecTypes
  <2>2. CASE Go(t, "idle")
    BY <2>2
  <2> QED
    BY <2>1, <2>2 DEF GetMasks
<1>4. \A u \in Threads : u # t => todo'[u] = todo[u]
  BY <1>1, FecTypes DEF GetMasks
<1>5. pc'[t] = there
  BY <1>1, <1>3, FecTypes DEF Go
<1>6. NoMask(job[t]) /\ offered[t] = {}
  BY <1>1, <1>2 DEF DealtWith
<1>7. Counted(t)'
  BY <1>3, <1>5 DEF Counted
<1>8. DealtWith(t)'
  BY <1>2, <1>3, <1>5, <1>6 DEF DealtWith, InLoop
<1>9. PostedAreComplete' /\ there \in Labels
  BY <1>2, <1>3 DEF AloneInv, PostedAreComplete, Labels
<1> QED
  BY <1>2, <1>3, <1>4, <1>7, <1>8, <1>9, AloneFrame

LEMMA ReadEcalAlone ==
  ASSUME IInv, AloneInv, OneRunsAtATime, NEW t \in Threads, ReadEcal(t), UNCHANGED ecalVars
  PROVE  AloneInv'
<1>1. FecTypeOK /\ Shapes /\ Counted(t) /\ DealtWith(t)
  BY DEF IInv, AloneInv
<1>2. /\ UNCHANGED <<count_tests, job, todo, doc, offered, fecdb, detector, docs>>
      /\ pc[t] = "read"
  BY DEF ReadEcal, Databases, At, ecalVars
<1>3. PICK there \in {"slot", "idle"} :
        Go(t, there) /\ (there = "slot" => config'[t] = docs[job[t].id])
  <2>1. CASE /\ config' = [config EXCEPT ![t] = docs[job[t].id]]
             /\ Go(t, IF todo[t] = {} THEN "idle" ELSE "slot")
    <3>1. config'[t] = docs[job[t].id]
      BY <1>1, <2>1, FecTypes
    <3> QED
      BY <2>1, <3>1
  <2>2. CASE Go(t, "idle")
    BY <2>2
  <2> QED
    BY <2>1, <2>2 DEF ReadEcal
<1>4. \A u \in Threads : u # t => seen'[u] = seen[u] /\ config'[u] = config[u]
  BY <1>1, FecTypes DEF ReadEcal
<1>5. pc'[t] = there
  BY <1>1, <1>3, FecTypes DEF Go
<1>6. Counted(t)'
  BY <1>3, <1>5 DEF Counted
<1>7. DealtWith(t)'
  <2> SUFFICES ASSUME there = "slot" PROVE DealtWith(t)'
    BY <1>3, <1>5 DEF DealtWith, InLoop
  <2>1. /\ offered[t] = {}
        /\ todo[t] = IF NoMask(job[t]) THEN docs[job[t].id]
                                       ELSE Chosen(job[t].crates, job[t].slots)
    BY <1>1, <1>2 DEF DealtWith
  <2>2. Requested(t)' = todo[t]
    BY <1>2, <1>3, <2>1 DEF Requested
  <2>3. Deserving(t, {})' = {}
    BY DEF Deserving
  <2>4. (Requested(t) \ todo[t])' \cup {} = {}
    BY <1>2, <2>2
  <2> QED
    BY <1>2, <1>5, <2>1, <2>2, <2>3, <2>4 DEF DealtWith, InLoop, Deserving
<1>8. PostedAreComplete' /\ there \in Labels
  BY <1>2, <1>3 DEF AloneInv, PostedAreComplete, Labels
<1>9. UNCHANGED job
  BY DEF ReadEcal
<1> QED
  BY <1>2, <1>3, <1>4, <1>6, <1>7, <1>8, <1>9, AloneFrame

(* Within a slot nothing changes of what has been dealt with.              *)
LEMMA DealtWithInSlot ==
  ASSUME NEW t \in Threads, DealtWith(t), pc[t] \in {"slot", "add", "flag"},
         pc'[t] \in {"add", "flag", "check"},
         UNCHANGED <<job, todo, seen, offered, config>>
  PROVE  DealtWith(t)'
<1> DEFINE before == Requested(t) \ todo[t]
<1>1. todo[t] \subseteq Requested(t) /\ offered[t] = Deserving(t, before \cup {})
  BY DEF DealtWith, InLoop
<1>2. Requested(t)' = Requested(t)
  BY DEF Requested
<1>3. before' = before
  BY <1>2
<1>4. Deserving(t, before \cup {})' = Deserving(t, before \cup {})
  BY <1>3 DEF Deserving
<1>5. offered'[t] = Deserving(t, before \cup {})'
  BY <1>1, <1>4
<1>6. todo'[t] \subseteq Requested(t)'
  BY <1>1, <1>2
<1> QED
  BY <1>5, <1>6 DEF DealtWith

LEMMA CreateFECDBDocAlone ==
  ASSUME IInv, AloneInv, OneRunsAtATime, NEW t \in Threads, CreateFECDBDoc(t),
         UNCHANGED ecalVars
  PROVE  AloneInv'
<1>1. FecTypeOK /\ Shapes /\ DealtWith(t)
  BY DEF IInv, AloneInv
<1>2. /\ UNCHANGED <<job, todo, config, seen, offered, fecdb, detector>>
      /\ pc[t] = "slot" /\ Go(t, "add") /\ count_tests' = {}
  BY DEF CreateFECDBDoc, Databases, At, CountsAtSlot
<1>3. \A u \in Threads : u # t => doc'[u] = doc[u]
  BY <1>1, FecTypes DEF CreateFECDBDoc
<1>4. pc'[t] = "add"
  BY <1>1, <1>2, FecTypes DEF Go
<1>5. Counted(t)'
  BY <1>2, <1>4 DEF Counted
<1>6. DealtWith(t)'
  BY <1>1, <1>2, <1>4, DealtWithInSlot
<1>7. PostedAreComplete' /\ "add" \in Labels
  BY <1>2 DEF AloneInv, PostedAreComplete, Labels
<1> QED
  BY <1>2, <1>3, <1>5, <1>6, <1>7, AloneFrame

LEMMA AddResultsAlone ==
  ASSUME IInv, AloneInv, OneRunsAtATime, NEW t \in Threads, AddResults(t),
         UNCHANGED ecalVars
  PROVE  AloneInv'
<1> DEFINE uses == Used(seen[t], Here(t))
<1>1. FecTypeOK /\ Shapes /\ Counted(t) /\ DealtWith(t)
  BY DEF IInv, AloneInv
<1>2. /\ UNCHANGED <<job, todo, config, seen, offered, fecdb, detector>>
      /\ pc[t] = "add" /\ count_tests' = count_tests \cup TestsOf(uses)
  BY DEF AddResults, Databases, At, TestsOf
<1>3. PICK there \in {"flag", "check"} : Go(t, there)
  BY DEF AddResults
<1>4. pc'[t] = there
  BY <1>1, <1>3, FecTypes DEF Go
<1>5. \A u \in Threads : u # t => doc'[u] = doc[u]
  BY <1>1, FecTypes DEF AddResults
<1>6. Counted(t)'
  <2>1. count_tests' = TestsOf(uses)
    BY <1>1, <1>2 DEF Counted
  <2>2. uses \subseteq doc'[t].uses
    <3>1. /\ doc \in [Threads -> Document] /\ doc[t] \in Document
      BY <1>1, FecTypes
    <3>2. doc'[t].uses = doc[t].uses \cup uses
      BY <3>1 DEF AddResults, Document
    <3> QED
      BY <3>2
  <2>3. TestsOf(uses) \subseteq TestsOf(doc'[t].uses)
    BY <2>2 DEF TestsOf
  <2>4. Used(seen[t], Here(t))' = uses
    BY <1>2 DEF Used, Newest, Here
  <2>5. TestsOf(Used(seen[t], Here(t)))' = TestsOf(uses)
    BY <2>4 DEF TestsOf
  <2>6. TestsOf(doc[t].uses)' = TestsOf(doc'[t].uses)
    BY DEF TestsOf
  <2> HIDE DEF uses
  <2> QED
    BY <1>3, <1>4, <2>1, <2>3, <2>5, <2>6 DEF Counted
<1>7. DealtWith(t)'
  BY <1>1, <1>2, <1>3, <1>4, DealtWithInSlot
<1>8. PostedAreComplete' /\ there \in Labels
  BY <1>2, <1>3 DEF AloneInv, PostedAreComplete, Labels
<1> QED
  BY <1>2, <1>3, <1>5, <1>6, <1>7, <1>8, AloneFrame

LEMMA FlagAlone ==
  ASSUME IInv, AloneInv, OneRunsAtATime, NEW t \in Threads, FlagBadDiscriminators(t),
         UNCHANGED ecalVars
  PROVE  AloneInv'
<1>1. FecTypeOK /\ Shapes /\ Counted(t) /\ DealtWith(t)
  BY DEF IInv, AloneInv
<1>2. /\ UNCHANGED <<count_tests, job, todo, doc, config, seen, offered, fecdb, detector>>
      /\ pc[t] = "flag" /\ Go(t, "check")
  BY DEF FlagBadDiscriminators, At
<1>3. pc'[t] = "check"
  BY <1>1, <1>2, FecTypes DEF Go
<1>4. Counted(t)'
  <2>1. /\ count_tests = TestsOf(Used(seen[t], Here(t)))
        /\ count_tests \subseteq TestsOf(doc[t].uses)
    BY <1>1, <1>2 DEF Counted
  <2>2. /\ TestsOf(Used(seen[t], Here(t)))' = TestsOf(Used(seen[t], Here(t)))
        /\ TestsOf(doc[t].uses)' = TestsOf(doc[t].uses)
    BY <1>2 DEF TestsOf, Used, Newest, Here
  <2> QED
    BY <1>2, <1>3, <2>1, <2>2 DEF Counted
<1>5. DealtWith(t)'
  BY <1>1, <1>2, <1>3, DealtWithInSlot
<1>6. PostedAreComplete' /\ "check" \in Labels
  BY <1>2 DEF AloneInv, PostedAreComplete, Labels
<1> QED
  BY <1>2, <1>4, <1>5, <1>6, AloneFrame

(* The slot in hand is taken from the list: all before it, and itself if   *)
(* it deserved it, have been offered.                                      *)
LEMMA NextSlotDealtWith ==
  ASSUME FecTypeOK, Shapes, NEW t \in Threads, DealtWith(t), NextSlot(t),
         pc[t] \in {"check", "load"}, UNCHANGED <<job, seen, offered, config>>,
         todo[t] # {}, pc[t] = "check" => ~Complete(seen[t], Here(t))
  PROVE  /\ DealtWith(t)' /\ Counted(t)'
         /\ offered'[t] = Deserving(t, Requested(t) \ (todo[t] \ {Here(t)}))
<1>1. Here(t) \in todo[t]
  BY FecTypes, HereIsTodo
<1>2. /\ todo[t] \subseteq Requested(t)
      /\ offered[t] = Deserving(t, (Requested(t) \ todo[t]) \cup
                                     (IF pc[t] = "load" THEN {Here(t)} ELSE {}))
  BY DEF DealtWith, InLoop
<1> DEFINE after == Requested(t) \ (todo[t] \ {Here(t)})
<1>3. offered[t] = Deserving(t, after)
  <2>1. after = (Requested(t) \ todo[t]) \cup {Here(t)}
    BY <1>1, <1>2
  <2>2. CASE pc[t] = "load"
    BY <1>2, <2>1, <2>2
  <2>3. CASE pc[t] = "check"
    <3>1. offered[t] = Deserving(t, Requested(t) \ todo[t])
      BY <1>2, <2>3 DEF Deserving
    <3>2. Deserving(t, after) = Deserving(t, Requested(t) \ todo[t])
      BY <2>1, <2>3 DEF Deserving
    <3> QED
      BY <3>1, <3>2
  <2> QED
    BY <2>2, <2>3
<1>4. todo'[t] = todo[t] \ {Here(t)} /\ pc'[t] \in {"idle", "slot"}
  BY FecTypes DEF NextSlot, Go
<1>5. Requested(t)' = Requested(t)
  BY DEF Requested
<1>6. (Requested(t) \ todo[t])' = after
  BY <1>4, <1>5
<1>7. DealtWith(t)'
  <2>1. Deserving(t, Requested(t) \ todo[t])' = Deserving(t, after)
    BY <1>6 DEF Deserving
  <2>2. offered'[t] = Deserving(t, Requested(t) \ todo[t])'
    BY <1>3, <2>1
  <2>3. todo'[t] \subseteq Requested(t)'
    BY <1>2, <1>4, <1>5
  <2>4. Deserving(t, (Requested(t) \ todo[t]) \cup {})' = Deserving(t, Requested(t) \ todo[t])'
    BY DEF Deserving
  <2> QED
    BY <1>4, <2>2, <2>3, <2>4 DEF DealtWith, InLoop
<1>8. Counted(t)'
  BY <1>4 DEF Counted
<1> QED
  BY <1>3, <1>7, <1>8

LEMMA CheckAndPostAlone ==
  ASSUME IInv, AloneInv, OneRunsAtATime, NEW t \in Threads, CheckAndPost(t),
         UNCHANGED ecalVars
  PROVE  AloneInv'
<1>1. FecTypeOK /\ Shapes /\ Counted(t) /\ DealtWith(t) /\ InHand(t)
  BY DEF IInv, AloneInv
<1>2. /\ UNCHANGED <<count_tests, job, doc, config, seen, detector>>
      /\ pc[t] = "check"
  BY DEF CheckAndPost, At
<1>3. /\ count_tests = TestsOf(Used(seen[t], Here(t)))
      /\ count_tests \subseteq TestsOf(doc[t].uses)
  BY <1>1, <1>2 DEF Counted
<1>4. Complains(count_tests) <=> ~Complete(seen[t], Here(t))
  <2>1. seen[t] \in SUBSET Row
    BY <1>1, FecTypes
  <2>2. Complete(seen[t], Here(t)) <=> test_map \subseteq count_tests
    BY <1>3, <2>1, CompleteIfUsed
  <2> QED
    BY <2>2 DEF Complains
<1>5. todo[t] # {} /\ \A r \in seen[t] : r.ecal = job[t].id
  BY <1>1, <1>2 DEF InHand, InLoop
<1>6. CASE Complains(count_tests) /\ NextSlot(t) /\ UNCHANGED <<fecdb, offered>>
  <2>1. PICK there \in {"idle", "slot"} : Go(t, there) /\ pc'[t] = there
    BY <1>1, <1>2, <1>5, <1>6, NextSlotInv
  <2>2. \A u \in Threads : u # t => todo'[u] = todo[u]
    BY <1>1, <1>2, <1>5, <1>6, NextSlotInv
  <2>3. DealtWith(t)' /\ Counted(t)'
    BY <1>1, <1>2, <1>4, <1>5, <1>6, NextSlotDealtWith
  <2>4. PostedAreComplete' /\ there \in Labels
    BY <1>2, <1>6, <2>1 DEF AloneInv, PostedAreComplete, Labels
  <2> QED
    BY <1>2, <1>6, <2>1, <2>2, <2>3, <2>4, AloneFrame
<1>7. CASE /\ ~Complains(count_tests)
           /\ fecdb' = fecdb \cup {doc[t]} \/ UNCHANGED fecdb
           /\ offered' = [offered EXCEPT ![t] = @ \cup {Here(t)}]
           /\ Go(t, "load") /\ UNCHANGED todo
  <2>1. Complete(seen[t], Here(t)) /\ IsComplete(doc[t])
    BY <1>3, <1>4, <1>7 DEF Complains, IsComplete
  <2>2. pc'[t] = "load" /\ offered'[t] = offered[t] \cup {Here(t)}
        /\ \A u \in Threads : u # t => offered'[u] = offered[u]
    BY <1>1, <1>7, FecTypes DEF Go
  <2>3. Here(t)' = Here(t) /\ Requested(t)' = Requested(t)
    BY <1>2, <1>7 DEF Here, Requested
  <2>4. Counted(t)'
    <3>1. Complete(seen[t], Here(t))' /\ IsComplete(doc[t])'
      BY <1>2, <2>1, <2>3 DEF Complete, Newest, IsComplete, TestsOf
    <3> QED
      BY <2>2, <3>1 DEF Counted
  <2>5. DealtWith(t)'
    <3> DEFINE before == Requested(t) \ todo[t]
    <3>1. todo[t] \subseteq Requested(t) /\ offered[t] = Deserving(t, before \cup {})
      BY <1>1, <1>2 DEF DealtWith, InLoop
    <3>2. offered'[t] = Deserving(t, before \cup {Here(t)})
      BY <2>1, <2>2, <3>1 DEF Deserving
    <3>3. (before \cup {Here(t)})' = before \cup {Here(t)}
      BY <1>7, <2>3
    <3>4. Deserving(t, before \cup {Here(t)})' = Deserving(t, before \cup {Here(t)})
      BY <1>2, <3>3 DEF Deserving
    <3>5. offered'[t] = Deserving(t, before \cup {Here(t)})'
      BY <3>2, <3>4
    <3>6. todo'[t] \subseteq Requested(t)'
      BY <1>7, <2>3, <3>1
    <3> QED
      BY <2>2, <3>5, <3>6 DEF DealtWith
  <2>6. PostedAreComplete' /\ "load" \in Labels
    <3>1. \A d \in fecdb' : IsComplete(d)
      BY <1>7, <2>1 DEF AloneInv, PostedAreComplete
    <3>2. \A x \in detector' : IsComplete(x[2])
      BY <1>2 DEF AloneInv, PostedAreComplete
    <3> QED
      BY <3>1, <3>2 DEF PostedAreComplete, IsComplete, Labels
  <2> QED
    BY <1>2, <1>7, <2>2, <2>4, <2>5, <2>6, AloneFrame
<1> QED
  BY <1>6, <1>7 DEF CheckAndPost

LEMMA LoadDetectorDBAlone ==
  ASSUME IInv, AloneInv, OneRunsAtATime, NEW t \in Threads, LoadDetectorDB(t),
         UNCHANGED ecalVars
  PROVE  AloneInv'
<1>1. FecTypeOK /\ Shapes /\ Counted(t) /\ DealtWith(t) /\ InHand(t)
  BY DEF IInv, AloneInv
<1>2. /\ UNCHANGED <<count_tests, job, doc, config, seen, offered, fecdb>>
      /\ pc[t] = "load" /\ NextSlot(t)
  BY DEF LoadDetectorDB, At
<1>3. todo[t] # {} /\ \A r \in seen[t] : r.ecal = job[t].id
  BY <1>1, <1>2 DEF InHand, InLoop
<1>4. PICK there \in {"idle", "slot"} : Go(t, there) /\ pc'[t] = there
  BY <1>1, <1>2, <1>3, NextSlotInv
<1>5. \A u \in Threads : u # t => todo'[u] = todo[u]
  BY <1>1, <1>2, <1>3, NextSlotInv
<1>6. DealtWith(t)' /\ Counted(t)'
  BY <1>1, <1>2, <1>3, NextSlotDealtWith
<1>7. PostedAreComplete' /\ there \in Labels
  <2>1. IsComplete(doc[t])
    BY <1>1, <1>2 DEF Counted
  <2>2. PICK done \in SUBSET Tables : detector' = detector \cup (done \X {doc[t]})
    BY DEF LoadDetectorDB
  <2>3. \A x \in detector' : IsComplete(x[2])
    BY <2>1, <2>2 DEF AloneInv, PostedAreComplete
  <2>4. \A d \in fecdb' : IsComplete(d)
    BY <1>2 DEF AloneInv, PostedAreComplete
  <2> QED
    BY <1>4, <2>3, <2>4 DEF PostedAreComplete, IsComplete, Labels
<1> QED
  BY <1>2, <1>4, <1>5, <1>6, <1>7, AloneFrame

LEMMA EcalAlone ==
  ASSUME IInv, AloneInv, EcalNext, UNCHANGED fecVars
  PROVE  AloneInv'
<1>1. \A e \in Ecals : docs[e] # {} => docs'[e] = docs[e]
  BY EcalNextInv DEF IInv, FecTypeOK
<1>2. ASSUME NEW u \in Threads
      PROVE  Counted(u)' /\ DealtWith(u)'
  <2>1. Counted(u) /\ DealtWith(u) /\ job[u].id \in Ecals
    BY FecTypes DEF AloneInv, IInv
  <2> QED
    BY <1>1, <2>1, OthersCounted, OthersDealtWith DEF fecVars
<1>3. PostedAreComplete'
  BY DEF AloneInv, PostedAreComplete, fecVars
<1> QED
  BY <1>2, <1>3 DEF AloneInv

LEMMA AloneNextInv == IInv /\ AloneInv /\ OneRunsAtATime /\ [Next]_vars => AloneInv'
<1> SUFFICES ASSUME IInv, AloneInv, OneRunsAtATime, [Next]_vars PROVE AloneInv'
  OBVIOUS
<1>1. CASE EcalNext /\ UNCHANGED fecVars
  BY <1>1, EcalAlone
<1>2. CASE FecNext /\ UNCHANGED ecalVars
  <2>1. PICK t \in Threads : FecStep(t) \/ \E c \in FecMenu : StartJob(t, c)
    BY <1>2 DEF FecNext
  <2>2. CASE \E c \in FecMenu : StartJob(t, c)
    BY <1>2, <2>2, StartJobAlone
  <2>3. CASE GetMasks(t)
    BY <1>2, <2>3, GetMasksAlone
  <2>4. CASE ReadEcal(t)
    BY <1>2, <2>4, ReadEcalAlone
  <2>5. CASE CreateFECDBDoc(t)
    BY <1>2, <2>5, CreateFECDBDocAlone
  <2>6. CASE AddResults(t)
    BY <1>2, <2>6, AddResultsAlone
  <2>7. CASE FlagBadDiscriminators(t)
    BY <1>2, <2>7, FlagAlone
  <2>8. CASE CheckAndPost(t)
    BY <1>2, <2>8, CheckAndPostAlone
  <2>9. CASE LoadDetectorDB(t)
    BY <1>2, <2>9, LoadDetectorDBAlone
  <2> QED
    BY <2>1, <2>2, <2>3, <2>4, <2>5, <2>6, <2>7, <2>8, <2>9 DEF FecStep
<1>3. CASE UNCHANGED vars
  <2>1. UNCHANGED <<ecalVars, fecVars>>
    BY <1>3 DEF vars
  <2>2. ASSUME NEW u \in Threads
        PROVE  Counted(u)' /\ DealtWith(u)'
    <3>1. Counted(u) /\ DealtWith(u)
      BY DEF AloneInv
    <3> QED
      BY <2>1, <3>1, OthersCounted, OthersDealtWith DEF fecVars, ecalVars
  <2>3. PostedAreComplete'
    BY <2>1 DEF AloneInv, PostedAreComplete, fecVars
  <2> QED
    BY <2>2, <2>3 DEF AloneInv
<1> QED
  BY <1>1, <1>2, <1>3 DEF Next

LEMMA SpecAloneInv == Spec /\ []OneRunsAtATime => []AloneInv
<1>1. Init => AloneInv
  BY DEF Init, FecInit, AloneInv, PostedAreComplete, Counted, DealtWith, InLoop
<1> QED
  BY <1>1, SpecIInv, AloneNextInv, PTL DEF Spec

(* As long as no two create_fec_docs run at once, a document is posted,    *)
(* and rows of the detector database are written, only for a slot of which *)
(* every critical test has left a row.                                     *)
THEOREM SpecPostedIsComplete == Spec /\ []OneRunsAtATime => []PostedIsComplete
<1>1. AloneInv => PostedIsComplete
  BY DEF AloneInv, PostedAreComplete, IsComplete, TestsOf, PostedIsComplete
<1> QED
  BY <1>1, SpecAloneInv, PTL

(* As long as no two create_fec_docs run at once, a command that has gone  *)
(* through its slots has offered a document for exactly those requested    *)
(* slots that have all the critical tests.                                 *)
THEOREM SpecNoSlotForgotten == Spec /\ []OneRunsAtATime => NoSlotForgotten
<1> DEFINE Served ==
             \A t \in Threads :
               (pc[t] \in {"check", "load"} /\ pc'[t] = "idle") =>
                 offered'[t] = {p \in Requested(t) : Complete(seen[t], p)}
<1>1. IInv /\ AloneInv /\ [Next]_vars => [Served]_vars
  <2> SUFFICES ASSUME IInv, AloneInv, [Next]_vars, vars' # vars,
                      NEW t \in Threads, pc[t] \in {"check", "load"}, pc'[t] = "idle"
               PROVE  offered'[t] = {p \in Requested(t) : Complete(seen[t], p)}
    OBVIOUS
  <2>1. FecTypeOK /\ Shapes /\ Counted(t) /\ DealtWith(t) /\ InHand(t)
    BY DEF IInv, AloneInv
  <2>2. FecNext /\ UNCHANGED ecalVars
    BY DEF Next, fecVars
  <2>3. CheckAndPost(t) \/ LoadDetectorDB(t)
    <3>1. PICK u \in Threads : FecStep(u) \/ \E c \in FecMenu : StartJob(u, c)
      BY <2>2 DEF FecNext
    <3>2. \E there : Go(u, there)
      BY <3>1 DEF FecStep, StartJob, GetMasks, ReadEcal, CreateFECDBDoc, AddResults,
                  FlagBadDiscriminators, CheckAndPost, LoadDetectorDB, NextSlot
    <3>3. u = t
      BY <2>1, <3>2, FecTypes DEF Go
    <3> QED
      BY <3>1, <3>3 DEF FecStep, StartJob, GetMasks, ReadEcal, CreateFECDBDoc, AddResults,
                        FlagBadDiscriminators, At
  <2>4. todo[t] # {} /\ \A r \in seen[t] : r.ecal = job[t].id
    BY <2>1 DEF InHand, InLoop
  <2>5. /\ NextSlot(t) /\ UNCHANGED <<job, seen, offered, config>>
        /\ pc[t] = "check" => Complains(count_tests)
    BY <2>1, <2>3, FecTypes DEF CheckAndPost, LoadDetectorDB, At, Go
  <2>6. pc[t] = "check" => ~Complete(seen[t], Here(t))
    <3> SUFFICES ASSUME pc[t] = "check" PROVE ~Complete(seen[t], Here(t))
      OBVIOUS
    <3>1. count_tests = TestsOf(Used(seen[t], Here(t))) /\ seen[t] \in SUBSET Row
      BY <2>1, FecTypes DEF Counted
    <3> QED
      BY <2>5, <3>1, CompleteIfUsed DEF Complains
  <2>7. offered'[t] = Deserving(t, Requested(t) \ (todo[t] \ {Here(t)}))
    BY <2>1, <2>4, <2>5, <2>6, NextSlotDealtWith
  <2>8. todo[t] = {Here(t)}
    BY <2>1, <2>4, <2>5, NextSlotInv
  <2>9. Requested(t) \ (todo[t] \ {Here(t)}) = Requested(t)
    BY <2>8
  <2> QED
    BY <2>7, <2>9 DEF Deserving
<1> HIDE DEF Served
<1>2. Spec /\ []OneRunsAtATime => [][Served]_vars
  BY <1>1, SpecIInv, SpecAloneInv, PTL DEF Spec
<1> QED
  BY <1>2, PTL DEF Served, NoSlotForgotten
=============================================================================
