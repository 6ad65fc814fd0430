----------------------------- MODULE FECDocs -----------------------------
(***************************************************************************)
(* create_fec_docs: CreateFECDocs of tests/CreateFECDocs.cpp and           *)
(* GenerateFECDocFromECAL of db/DB.cpp turn the rows of an ECAL into one   *)
(* document per slot in the FEC database, and into rows of the detector    *)
(* database.  The command locks no board: it runs beside an ECAL, and      *)
(* beside another create_fec_docs with which it shares count_tests.        *)
(***************************************************************************)
EXTENDS ECAL

CONSTANTS
  Threads,  \* threads that run create_fec_docs
  FecMenu,  \* the create_fec_docs commands the operator may type
  MaxJobs   \* bound: create_fec_docs commands in a session

(* test_map: "Critical ECAL tests, must run with each ECAL".  The other    *)
(* tests that are looked at only contribute their faults.                  *)
test_map == {"crate_cbal", "zdisc", "set_ttot", "cmos_m_gtvalid", "find_noise_2"}
test_map_ncrit == {"ped_run", "cgt_test", "get_ttot", "fec_test",
                   "disc_check", "ped_run_by_channel"}

FecCommand == [id : Ecals, crates : SUBSET Crates, slots : [Crates -> SUBSET Slots]]
Tables == {"fecdoc", "zdisc", "test_status"}

ASSUME FecDocsAssumption ==
  FecMenu \subseteq FecCommand /\ FecMenu # {} /\ MaxJobs \in Nat

VARIABLES
  count_tests, \* the global of DB.cpp: the critical tests counted
  pc, job,     \* per thread: where it is, the command with its slots
  todo,        \* per thread: the slots that are left, first the one in hand
  doc,         \* per thread: the document in hand
  config,      \* per thread: the slots in the ECAL document it has read
  seen,        \* per thread: the rows it has read
  offered,     \* ghost, per thread: the slots whose document it tried to post
  fecdb,       \* the FEC database: the documents posted
  detector,    \* the detector database: <<table, document>>
  flagged,     \* the detector database: channel_status has bad_discriminator
  jobs

fecVars == <<count_tests, pc, job, todo, doc, config, seen, offered, fecdb, detector, flagged, jobs>>
vars == <<ecalVars, fecVars, faults, alive>>

(* A document: the slot it is of, what it takes from which rows, and the   *)
(* tests that have set their bit for some channel.                         *)
NoDoc == [at |-> <<>>, ecal |-> NoEcal, uses |-> {}, problem |-> {}, read |-> {},
          known |-> FALSE]
NewDoc(t, p) ==
  [NoDoc EXCEPT !.at = p, !.ecal = job[t].id, !.read = seen[t], !.known = TRUE]

Here(t) == CHOOSE p \in todo[t] : \A q \in todo[t] :
             p[1] < q[1] \/ (p[1] = q[1] /\ p[2] <= q[2])

FecTypeOK ==
  /\ TypeOK
  /\ count_tests \subseteq test_map
  /\ pc \in [Threads -> {"idle", "masks", "read", "slot", "add", "flag", "check", "load"}]
  /\ job \in [Threads -> FecMenu]
  /\ todo \in [Threads -> SUBSET Places] /\ config \in [Threads -> SUBSET Places]
  /\ \A t \in Threads : seen[t] \subseteq rows /\ offered[t] \subseteq Places
  /\ flagged \subseteq Places /\ jobs \in 0 .. MaxJobs

FecInit ==
  /\ count_tests = {} /\ pc = [t \in Threads |-> "idle"]
  /\ job = [t \in Threads |-> CHOOSE c \in FecMenu : TRUE]
  /\ todo = [t \in Threads |-> {}] /\ doc = [t \in Threads |-> NoDoc]
  /\ config = [t \in Threads |-> {}] /\ seen = [t \in Threads |-> {}]
  /\ offered = [t \in Threads |-> {}]
  /\ fecdb = {} /\ detector = {} /\ flagged = {} /\ jobs = 0

----------------------------------------------------------------------------
At(t, here) == pc[t] = here
Go(t, there) == pc' = [pc EXCEPT ![t] = there]
Fault == faults < MaxFaults /\ faults' = faults + 1
NoFault == UNCHANGED faults
Databases == <<fecdb, detector, flagged>>

(* create_fec_docs -l id, with masks or without.                           *)
StartJob(t, c) ==
  /\ At(t, "idle") /\ jobs < MaxJobs /\ jobs' = jobs + 1
  /\ job' = [job EXCEPT ![t] = c]
  /\ offered' = [offered EXCEPT ![t] = {}]
  /\ doc' = [doc EXCEPT ![t] = NoDoc]
  /\ todo' = [todo EXCEPT ![t] = Chosen(c.crates, c.slots)]
  /\ Go(t, IF NoMask(c) THEN "masks" ELSE IF HalfAMask(c) THEN "idle" ELSE "read")
  /\ NoFault /\ UNCHANGED <<count_tests, config, seen, Databases, alive>>

(* Without masks: all slots of the ECAL document.  When it cannot be had   *)
(* the log file of the ECAL is closed, whether it is open or not.          *)
GetMasks(t) ==
  /\ At(t, "masks")
  /\ \/ /\ docs[job[t].id] # {} /\ NoFault
        /\ todo' = [todo EXCEPT ![t] = docs[job[t].id]] /\ Go(t, "read")
        /\ UNCHANGED alive
     \/ /\ IF docs[job[t].id] # {} THEN Fault ELSE NoFault
        /\ Go(t, "idle") /\ alive' \in BOOLEAN /\ UNCHANGED todo
  /\ UNCHANGED <<count_tests, job, doc, config, seen, offered, Databases, jobs>>

(* The ECAL document again, and all rows of the ECAL.                      *)
ReadEcal(t) ==
  /\ At(t, "read")
  /\ LET mine == {r \in rows : r.ecal = job[t].id}
     IN  \/ /\ docs[job[t].id] # {} /\ mine # {} /\ NoFault
            /\ config' = [config EXCEPT ![t] = docs[job[t].id]]
            /\ seen' = [seen EXCEPT ![t] = mine]
            /\ Go(t, IF todo[t] = {} THEN "idle" ELSE "slot")
         \/ /\ IF docs[job[t].id] # {} /\ mine # {} THEN Fault ELSE NoFault
            /\ Go(t, "idle") /\ UNCHANGED <<config, seen>>
  /\ UNCHANGED <<count_tests, job, todo, doc, offered, Databases, jobs, alive>>

(* Slip: the tests are counted on from the slot before. *)
CountsAtSlotKept(t) == count_tests

(* The tests counted when a slot is begun. *)
CountsAtSlot(t) == {}

(* CreateFECDBDoc, and the counts are reset.  For a slot the ECAL document *)
(* does not have, doc is left unset: it may still be the address of the    *)
(* document before, and any use of it may end the process.                 *)
CreateFECDBDoc(t) ==
  /\ At(t, "slot") /\ NoFault
  /\ IF Here(t) \in config[t]
     THEN doc' = [doc EXCEPT ![t] = NewDoc(t, Here(t))] /\ UNCHANGED alive
     ELSE doc' = [doc EXCEPT ![t].known = FALSE] /\ alive' \in BOOLEAN
  /\ count_tests' = CountsAtSlot(t)
  /\ Go(t, "add")
  /\ UNCHANGED <<job, todo, config, seen, offered, Databases, jobs>>

(* Slip: every test is taken for a critical one. *)
UsedAnyTest(all, p) == UNION {Newest(all, type, p) : type \in all_tests}

(* The rows a document takes its settings from. *)
Used(all, p) == UNION {Newest(all, type, p) : type \in test_map}

(* The rows a document takes faults from: superseded rows of the tests     *)
(* that are not critical count as well.                                    *)
Blamed(all, p) == Used(all, p) \cup {r \in all : r.at = p /\ r.type \in test_map_ncrit}

(* Slip: rows that were superseded count for every test. *)
ProblemsOfAll(all, p) == {r.type : r \in {s \in all : s.at = p /\ s.bad}}

(* The bits set in chan_prob_array.  find_noise_2 has none. *)
Problems(all, p) ==
  {r.type : r \in {s \in Blamed(all, p) : s.bad /\ s.type # "find_noise_2"}}

(* The bit that makes a bad discriminator. *)
BadDisc(problem) == "zdisc" \in problem

(* AddECALTestResults for all the rows of the slot: every row replaces the *)
(* document's bits by those of the slot so far.                            *)
AddResults(t) ==
  /\ At(t, "add") /\ NoFault
  /\ LET p == Here(t) IN
     /\ doc' = [doc EXCEPT ![t].uses = @ \cup Used(seen[t], p),
                           ![t].problem = IF Blamed(seen[t], p) = {} THEN @
                                          ELSE Problems(seen[t], p)]
     /\ count_tests' = count_tests \cup {r.type : r \in Used(seen[t], p)}
     /\ Go(t, IF BadDisc(Problems(seen[t], p)) THEN "flag" ELSE "check")
  /\ UNCHANGED <<job, todo, config, seen, offered, Databases, jobs, alive>>

(* LoadBadDiscToDetectorDB; a failure is only warned of. *)
FlagBadDiscriminators(t) ==
  /\ At(t, "flag")
  /\ \/ NoFault /\ flagged' = flagged \cup {Here(t)}
     \/ Fault /\ UNCHANGED flagged
  /\ Go(t, "check")
  /\ UNCHANGED <<count_tests, job, todo, doc, config, seen, offered, fecdb, detector, jobs, alive>>

(* The loop goes on to the next slot, or the command ends. *)
NextSlot(t) ==
  /\ todo' = [todo EXCEPT ![t] = @ \ {Here(t)}]
  /\ Go(t, IF todo[t] = {Here(t)} THEN "idle" ELSE "slot")

(* Slip: one test missing is not taken as a reason. *)
ComplainsLess(counted) == Cardinality(test_map \ counted) > 1

(* Some critical test has not been counted. *)
Complains(counted) == test_map \ counted # {}

(* All critical tests counted, or "not posting a FEC doc".  Whether the    *)
(* document could be posted is not looked at.                              *)
CheckAndPost(t) ==
  /\ At(t, "check")
  /\ IF Complains(count_tests)
     THEN NoFault /\ NextSlot(t) /\ UNCHANGED <<fecdb, offered>>
     ELSE /\ \/ NoFault /\ fecdb' = fecdb \cup {doc[t]}
             \/ Fault /\ UNCHANGED fecdb
          /\ offered' = [offered EXCEPT ![t] = @ \cup {Here(t)}]
          /\ Go(t, "load") /\ UNCHANGED todo
  /\ UNCHANGED <<count_tests, job, doc, config, seen, detector, flagged, jobs, alive>>

(* The three insertions into the detector database; each may fail alone.   *)
LoadDetectorDB(t) ==
  /\ At(t, "load")
  /\ \E done \in SUBSET Tables :
       /\ faults' = faults + Cardinality(Tables \ done) /\ faults' <= MaxFaults
       /\ detector' = detector \cup (done \X {doc[t]})
  /\ NextSlot(t)
  /\ UNCHANGED <<count_tests, job, doc, config, seen, offered, fecdb, flagged, jobs, alive>>

FecStep(t) == GetMasks(t) \/ ReadEcal(t) \/ CreateFECDBDoc(t) \/ AddResults(t)
              \/ FlagBadDiscriminators(t) \/ CheckAndPost(t) \/ LoadDetectorDB(t)
FecNext == \E t \in Threads : FecStep(t) \/ \E c \in FecMenu : StartJob(t, c)

Init == EcalInit /\ FecInit
Next == alive /\ \/ EcalNext /\ UNCHANGED fecVars
                 \/ FecNext /\ UNCHANGED ecalVars

Spec == Init /\ [][Next]_vars

----------------------------------------------------------------------------
(* Properties. *)

Complete(all, p) == \A type \in test_map : Newest(all, type, p) # {}
Requested(t) ==
  IF NoMask(job[t]) THEN config[t] ELSE Chosen(job[t].crates, job[t].slots)

(* "Critical ECAL tests, must run with each ECAL": a document is posted,   *)
(* and rows of the detector database are written, only for a slot of which *)
(* every critical test has left a row.                                     *)
PostedIsComplete ==
  \A d \in fecdb \cup {x[2] : x \in detector} : test_map \subseteq {r.type : r \in d.uses}

(* "this makes sure you grab the most recent version of the test": for     *)
(* each critical test a document holds the values of the newest row of its *)
(* own slot in its own ECAL, however often the test was repeated and       *)
(* whatever runs in the meantime, and the bit of the test says what that   *)
(* row says: a repetition without fault clears it.                         *)
MostRecentCounts ==
  \A d \in fecdb : d.known =>
    \A r \in d.uses :
      /\ r.at = d.at /\ r.ecal = d.ecal
      /\ \A s \in d.read : s.type = r.type /\ s.at = r.at => s.time <= r.time
      /\ r.type # "find_noise_2" => (r.type \in d.problem <=> r.bad)

(* A command that has gone through its slots has offered a document for    *)
(* exactly the requested slots that have all the critical tests.           *)
NoSlotForgotten ==
  [][ \A t \in Threads :
        (pc[t] \in {"check", "load"} /\ pc'[t] = "idle") =>
          offered'[t] = {p \in Requested(t) : Complete(seen[t], p)} ]_vars
=============================================================================
