------------------------------- MODULE ECAL -------------------------------
(***************************************************************************)
(* ECAL of tests/ECAL.cpp, the calibration of the electronics: a fixed     *)
(* script of crate initialisations and tests, in which each initialisation *)
(* loads what the tests before it have measured and posted.  A test posts  *)
(* one row per slot; what a test measures is outside this module, only     *)
(* whether it found fault with the slot is kept.  Initialisations and      *)
(* tests fail half way and the script goes on.                             *)
(***************************************************************************)
EXTENDS Naturals, Sequences, FiniteSets

CONSTANTS
  Crates,     \* crate numbers; 0 is one of them
  Slots,
  Ecals,      \* the ids GetNewID may give
  NoEcal,     \* no -l on the command line
  Installed,  \* places the detector database has in its latest run
  EcalMenu,   \* the ecal commands the operator may type
  Faulty,     \* <<test, place>>: the tests that may find fault with the slot
  Flaky,      \* the crates whose commands may fail
  MaxEcals,   \* bound: ecal commands in a session
  MaxBad,     \* bound: rows that find fault with a slot
  MaxFaults   \* bound: data base and board failures

Places == Crates \X Slots

(* testList, by the type of the documents the tests post; board_id posts none. *)
quick_tests == {"crate_cbal", "set_ttot", "cmos_m_gtvalid", "zdisc",
                "find_noise_2", "ped_run_by_channel"}
all_tests == quick_tests \cup {"fec_test", "board_id", "cgt_test", "ped_run",
                               "get_ttot", "disc_check"}

(* The test that measures a setting of the front end. *)
MeasuredBy == [vbal |-> "crate_cbal", tdisc |-> "set_ttot", tcmos |-> "cmos_m_gtvalid"]
Kinds == DOMAIN MeasuredBy

EcalCommand == [load : Ecals \cup {NoEcal}, crates : SUBSET Crates,
                slots : [Crates -> SUBSET Slots], tests : SUBSET all_tests,
                quick : BOOLEAN, detector : BOOLEAN]

ASSUME EcalAssumption ==
  /\ Crates \subseteq Nat /\ 0 \in Crates /\ IsFiniteSet(Crates)
  /\ Slots \subseteq Nat /\ IsFiniteSet(Slots)
  /\ NoEcal \notin Ecals
  /\ Installed \subseteq Places
  /\ EcalMenu \subseteq EcalCommand /\ Faulty \subseteq all_tests \X Places
  /\ Flaky \subseteq Crates
  /\ MaxEcals \in Nat /\ MaxBad \in Nat /\ MaxFaults \in Nat

VARIABLES
  docs,    \* the debug database: the places of each ECAL document, {} if none
  rows,    \* the debug database: the rows the tests have posted
  loaded,  \* per place and kind, the row whose value was loaded; 0 is the default
  stale,   \* ghost: crates whose latest initialisation failed
  step,    \* the thread: a step of the script; 0 is idle
  ecal,    \* the thread: ecalID, the slots and the tests
  clock,   \* ghost for time(): the number of the latest test
  sessions, bad, faults, alive

ecalVars == <<docs, rows, loaded, stale, step, ecal, clock, sessions, bad>>

(* Rows may be missing and may find fault, so that [type, at, time] is a key. *)
Newest(all, type, p) ==
  {r \in all : /\ r.type = type /\ r.at = p
               /\ \A s \in all : s.type = type /\ s.at = p => s.time <= r.time}
TimeOf(set) == IF set = {} THEN 0 ELSE (CHOOSE r \in set : TRUE).time

(* The two kinds of steps, with what an initialisation takes from the database. *)
Load(kinds) == [test |-> "none", kinds |-> kinds]
Test(type) == [test |-> type, kinds |-> {}]

(* Slip: the initialisation before get_ttot forgets the time over threshold. *)
ScriptWithoutTDisc ==
  <<Load({}), Test("fec_test"), Test("board_id"), Test("cgt_test"),
    Load({}), Test("crate_cbal"), Load({"vbal"}), Test("ped_run"),
    Load({"vbal"}), Test("set_ttot"), Test("get_ttot"),
    Load({"vbal", "tdisc"}), Test("disc_check"),
    Load({"vbal", "tdisc"}), Test("cmos_m_gtvalid"),
    Load({"vbal", "tdisc", "tcmos"}), Test("zdisc"), Test("find_noise_2"),
    Test("ped_run_by_channel")>>

(* The script.  Every initialisation is run, whatever tests are selected. *)
Script ==
  <<Load({}), Test("fec_test"), Test("board_id"), Test("cgt_test"),
    Load({}), Test("crate_cbal"), Load({"vbal"}), Test("ped_run"),
    Load({"vbal"}), Test("set_ttot"), Load({"vbal", "tdisc"}), Test("get_ttot"),
    Load({"vbal", "tdisc"}), Test("disc_check"),
    Load({"vbal", "tdisc"}), Test("cmos_m_gtvalid"),
    Load({"vbal", "tdisc", "tcmos"}), Test("zdisc"), Test("find_noise_2"),
    Test("ped_run_by_channel")>>

Steps == 1 .. Len(Script)
Runs(i, tests) == Script[i].test \in tests \cup {"none"}

(* The step after this one, the tests that are not selected skipped. *)
NextStep(i) ==
  LET later == {j \in Steps : j > i /\ Runs(j, ecal.tests)}
  IN  IF later = {} THEN 0 ELSE CHOOSE j \in later : \A k \in later : j <= k

(* The tests -t and -q select. *)
Selected(c) ==
  IF c.tests = {} THEN (IF c.quick THEN quick_tests ELSE {})
  ELSE IF c.quick THEN c.tests \cap quick_tests ELSE c.tests

(* Masks given per crate.  Whether a slot mask was given at all is judged  *)
(* by that of crate 0 alone.                                               *)
Chosen(crates, slots) == {p \in Places : p[1] \in crates /\ p[2] \in slots[p[1]]}
NoMask(c) == c.crates = {} /\ c.slots[0] = {}
HalfAMask(c) == (c.crates = {}) # (c.slots[0] = {})

NoSession == [id |-> NoEcal, places |-> {}, tests |-> {}, new |-> FALSE]

TypeOK ==
  /\ docs \in [Ecals -> SUBSET Places]
  /\ rows \subseteq [type : all_tests, at : Places, time : Nat, ecal : Ecals, bad : BOOLEAN]
  /\ loaded \in [Places -> [Kinds -> 0 .. clock]]
  /\ stale \subseteq Crates
  /\ step \in 0 .. Len(Script)
  /\ ecal \in [id : Ecals \cup {NoEcal}, places : SUBSET Places,
               tests : SUBSET all_tests, new : BOOLEAN]
  /\ clock \in Nat /\ sessions \in 0 .. MaxEcals
  /\ bad \in 0 .. MaxBad /\ faults \in 0 .. MaxFaults /\ alive \in BOOLEAN

EcalInit ==
  /\ docs = [e \in Ecals |-> {}] /\ rows = {}
  /\ loaded = [p \in Places |-> [k \in Kinds |-> 0]] /\ stale = {}
  /\ step = 0 /\ ecal = NoSession
  /\ clock = 0 /\ sessions = 0 /\ bad = 0 /\ faults = 0 /\ alive = TRUE

----------------------------------------------------------------------------
(* An id that has not been used. *)
GetNewID ==
  CHOOSE e \in Ecals \cup {NoEcal} :
    LET unused == {u \in Ecals : docs[u] = {} /\ \A r \in rows : r.ecal # u}
    IN  IF unused = {} THEN e = NoEcal ELSE e \in unused

(* ecal is called with the operator's boards locked, up to the question    *)
(* whether to start: a new id, or the document of -l with its slots unless *)
(* both masks are given, and with -z the slots of the detector database.   *)
(* When the document or those slots cannot be had, when one mask is given  *)
(* alone or the operator types quit, nothing happens.                      *)
StartEcal(c) ==
  /\ step = 0 /\ sessions < MaxEcals
  /\ c.load # NoEcal => ~HalfAMask(c) /\ docs[c.load] # {}
  /\ LET id == IF c.load # NoEcal THEN c.load ELSE GetNewID
         old == c.load # NoEcal /\ NoMask(c)
         given == IF old THEN docs[id] ELSE Chosen(c.crates, c.slots)
         from == IF old THEN {p[1] : p \in docs[id]} ELSE c.crates
         more == IF c.detector THEN {p \in Installed : p[1] \in from} ELSE {}
     IN  /\ id \in Ecals
         /\ ecal' = [id |-> id, places |-> given \cup more, tests |-> Selected(c),
                     new |-> c.load = NoEcal]
  /\ step' = IF ecal'.tests = {} THEN 0 ELSE 1
  /\ sessions' = sessions + 1
  /\ UNCHANGED <<docs, rows, loaded, stale, clock, bad, faults, alive>>

EcalCrates == {p[1] : p \in ecal.places}

(* PostECALDoc, for a new ECAL only, after the first initialisation.  Its  *)
(* failure is not noticed.                                                 *)
EcalDocs(posted) ==
  IF step = 1 /\ ecal.new /\ posted THEN [docs EXCEPT ![ecal.id] = ecal.places] ELSE docs

(* The crates are initialised, one after the other: a crate of `failing`   *)
(* keeps what it had.  Nothing catches a time-out of the first one, which  *)
(* resets the crates, or of the board ids for the new document: the        *)
(* process ends.                                                           *)
Initialise ==
  /\ step \in Steps /\ Script[step].test = "none"
  /\ \E failing \in SUBSET (EcalCrates \cap Flaky), posted \in BOOLEAN :
       /\ Cardinality(failing) + (IF posted THEN 0 ELSE 1) \in 0 .. MaxFaults - faults
       /\ posted \/ (step = 1 /\ ecal.new)
       /\ faults' = faults + Cardinality(failing) + (IF posted THEN 0 ELSE 1)
       /\ loaded' = [p \in Places |->
            IF p \notin ecal.places \/ p[1] \in failing THEN loaded[p]
            ELSE [k \in Kinds |-> IF k \in Script[step].kinds
                                  THEN TimeOf(Newest(rows, MeasuredBy[k], p)) ELSE 0]]
       /\ stale' = (stale \ EcalCrates) \cup failing
       /\ docs' = EcalDocs(posted)
       /\ alive' \in IF step = 1 /\ faults' > faults THEN BOOLEAN ELSE {TRUE}
  /\ step' = NextStep(step)
  /\ UNCHANGED <<rows, ecal, clock, sessions, bad>>

(* What a test may miss: a failure ends it for the rest of one crate.      *)
Interrupted ==
  {{}} \cup {{p \in ecal.places : p[1] = c /\ p[2] >= s} :
               c \in EcalCrates \cap Flaky, s \in Slots}

(* The row the running test posts for a place. *)
RowOf(p, failed) ==
  [type |-> Script[step].test, at |-> p, time |-> clock + 1, ecal |-> ecal.id,
   bad |-> p \in failed]

(* A test is run on the crates, one after the other, and posts a row for   *)
(* every slot it gets to.                                                  *)
RunTest ==
  /\ step \in Steps /\ Script[step].test # "none"
  /\ \E missed \in Interrupted :
       /\ faults' = faults + (IF missed = {} THEN 0 ELSE 1)
       /\ faults' <= MaxFaults
       /\ \E failed \in SUBSET {p \in ecal.places \ missed : <<Script[step].test, p>> \in Faulty} :
            /\ Cardinality(failed) \in 0 .. MaxBad - bad
            /\ bad' = bad + Cardinality(failed)
            /\ rows' = rows \cup IF Script[step].test = "board_id" THEN {}
                              ELSE {RowOf(p, failed) : p \in ecal.places \ missed}
  /\ clock' = clock + 1
  /\ step' = NextStep(step)
  /\ UNCHANGED <<docs, loaded, stale, ecal, sessions, alive>>

EcalNext == \/ \E c \in EcalMenu : StartEcal(c)
            \/ Initialise \/ RunTest

----------------------------------------------------------------------------
(* What the comments of the script say is loaded during a test: "load cbal *)
(* values", "load cbal and tdisc values", "load cbal, tdisc, tcmos values". *)
Needs(type) ==
  CASE type \in {"ped_run", "set_ttot"} -> {"vbal"}
    [] type \in {"get_ttot", "disc_check", "cmos_m_gtvalid"} -> {"vbal", "tdisc"}
    [] type \in {"zdisc", "find_noise_2", "ped_run_by_channel"} -> Kinds
    [] OTHER -> {}

(* A slot is tested with the values that were measured last on the very    *)
(* slot, by this ECAL or by the one it completes, of every kind the script *)
(* promises and of no other; unless the latest CrateInit of its crate has  *)
(* failed, which ECAL does not notice.                                     *)
TestedWithLatest ==
  [][ \A r \in rows' \ rows : r.at[1] \notin stale =>
        \A k \in Kinds : loaded[r.at][k] =
          IF k \in Needs(r.type) THEN TimeOf(Newest(rows, MeasuredBy[k], r.at)) ELSE 0 ]_rows
=============================================================================
