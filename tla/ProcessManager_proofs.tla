------------------------ MODULE ProcessManager_proofs ------------------------
(***************************************************************************)
(* The process table for every size and every history.  What depends on    *)
(* the pid counter not wrapping round is proved from the hypothesis that   *)
(* fewer processes are created than there are pids; the rest needs none.   *)
(***************************************************************************)
EXTENDS ProcessManager, FiniteSetTheorems, TLAPS

(* Without the kernel there is no process. *)
DownIsEmpty == ~ready => Occupied = {} /\ current = Nobody /\ count = 0

IInv == TypeOK /\ DownIsEmpty /\ CurrentIsAlive /\ CountIsExact

LEMMA SlotsFinite ==
  /\ IsFiniteSet(Slot) /\ Cardinality(Slot) = MaxProcesses
  /\ \A S \in SUBSET Slot : /\ IsFiniteSet(S)
                            /\ Cardinality(S) \in 0 .. MaxProcesses
                            /\ S # Slot => Cardinality(S) < MaxProcesses
  <1>1. IsFiniteSet(Slot) /\ Cardinality(Slot) = MaxProcesses
    BY ProcessAssumption, FS_Interval DEF Slot
  <1>2. ASSUME NEW S \in SUBSET Slot
        PROVE  /\ IsFiniteSet(S)
               /\ Cardinality(S) \in 0 .. MaxProcesses
               /\ S # Slot => Cardinality(S) < MaxProcesses
    <2>1. IsFiniteSet(S) /\ Cardinality(S) \in Nat /\ Cardinality(S) <= MaxProcesses
      BY <1>1, FS_Subset, FS_CardinalityType
    <2>2. S # Slot => Cardinality(S) # MaxProcesses
      BY <1>1, FS_Subset
    <2> QED BY <2>1, <2>2, ProcessAssumption
  <1> QED BY <1>1, <1>2

LEMMA InitInv == Init => IInv
  <1> SUFFICES ASSUME Init PROVE IInv
    OBVIOUS
  <1>1. Free \in Process /\ 1 \in Pid /\ 0 \in Pid
    BY ProcessAssumption DEF Free, Process, Pid
  <1>2. TypeOK
    <2>1. procs \in [Slot -> Process]
      BY <1>1 DEF Init
    <2>2. last \in Result
      BY <1>1 DEF Init, Result, Status
    <2>3. ready \in BOOLEAN
      BY DEF Init
    <2>4. current \in Slot \cup {Nobody}
      BY DEF Init
    <2>5. count \in 0 .. MaxProcesses /\ created \in 0 .. MaxCreates
      BY ProcessAssumption DEF Init
    <2>6. nextPid \in Pid
      BY <1>1 DEF Init
    <2> QED BY <2>1, <2>2, <2>3, <2>4, <2>5, <2>6 DEF TypeOK
  <1>3. Occupied = {}
    BY DEF Init, Occupied, Free
  <1> QED BY <1>2, <1>3, FS_EmptySet
          DEF Init, IInv, DownIsEmpty, CurrentIsAlive, CountIsExact

(* baios_proc_create: one more slot is in use. *)
LEMMA CreateInv ==
  ASSUME IInv, ready, ready' = ready, NEW i \in Slot, Create("SPAWN", i)
  PROVE  IInv'
  <1> DEFINE p == [state |-> "READY", pid |-> nextPid, ppid |-> CurrentPid]
  <1>1. CurrentPid \in Pid /\ nextPid \in Pid /\ (nextPid + 1) % PidModulus \in Pid
    BY ProcessAssumption DEF IInv, TypeOK, CurrentPid, Pid, Process
  <1>2. p \in Process
    BY <1>1 DEF Process
  <1>3. procs' = [procs EXCEPT ![i] = p] /\ procs \in [Slot -> Process]
    BY DEF Create, IInv, TypeOK
  <1>4. i \notin Occupied /\ Occupied' = Occupied \cup {i}
    BY <1>3 DEF Create, IsFirstFree, Occupied
  <1>5. Occupied \in SUBSET Slot /\ Occupied # Slot
    BY <1>4 DEF Occupied
  <1>6. /\ IsFiniteSet(Occupied) /\ Cardinality(Occupied) \in 0 .. MaxProcesses
        /\ Cardinality(Occupied) < MaxProcesses
    BY <1>5, SlotsFinite
  <1>7. Cardinality(Occupied') = Cardinality(Occupied) + 1
    BY <1>4, <1>6, FS_AddElement
  <1>8. count' = Cardinality(Occupied') /\ count' \in 0 .. MaxProcesses
    BY <1>6, <1>7, ProcessAssumption DEF Create, IInv, CountIsExact
  <1>9. TypeOK'
    <2>1. procs' \in [Slot -> Process]
      BY <1>2, <1>3
    <2>2. current' \in Slot \cup {Nobody}
      BY DEF Create, IInv, TypeOK
    <2>3. created' \in 0 .. MaxCreates
      BY ProcessAssumption DEF Create, IInv, TypeOK
    <2>4. last' \in Result
      BY <1>1 DEF Create, Answer, Result, Status
    <2>5. nextPid' \in Pid /\ ready' \in BOOLEAN
      BY <1>1 DEF Create, IInv, TypeOK
    <2> QED BY <1>8, <2>1, <2>2, <2>3, <2>4, <2>5 DEF TypeOK
  <1>10. CurrentIsAlive'
    BY <1>3 DEF Create, IInv, TypeOK, CurrentIsAlive
  <1> QED BY <1>8, <1>9, <1>10 DEF IInv, DownIsEmpty, CountIsExact

(* baios_proc_exit: the same slots are in use. *)
LEMMA ExitInv ==
  ASSUME IInv, ready, NEW i \in Occupied, Exits(i), last' \in Result
  PROVE  IInv'
  <1>1. /\ i \in Slot /\ procs \in [Slot -> Process]
        /\ procs' = [procs EXCEPT ![i].state = "ZOMBIE"]
    BY DEF Exits, IInv, TypeOK, Occupied
  <1>2. procs' \in [Slot -> Process]
    BY <1>1 DEF Process
  <1>3. Occupied' = Occupied
    BY <1>1 DEF Occupied, Process
  <1>4. TypeOK'
    BY <1>2 DEF Exits, IInv, TypeOK
  <1>5. CurrentIsAlive'
    BY <1>1 DEF Exits, IInv, TypeOK, CurrentIsAlive, Nobody
  <1> QED BY <1>3, <1>4, <1>5 DEF Exits, IInv, DownIsEmpty, CountIsExact

(* baios_proc_kill: one slot less is in use. *)
LEMMA KillInv ==
  ASSUME IInv, NEW pid \in Pid, ProcKill(pid)
  PROVE  IInv'
  <1>1. PICK i \in Slot :
          /\ ready /\ i \in Occupied
          /\ procs' = [procs EXCEPT ![i] = Free]
          /\ current' = IF current = i THEN Nobody ELSE current
          /\ count' = count - 1
          /\ Answer("proc_kill", "OK", 0)
          /\ UNCHANGED <<ready, nextPid, created>>
    BY DEF ProcKill, Gets
  <1>2. Free \in Process /\ procs \in [Slot -> Process] /\ 0 \in Pid
    BY ProcessAssumption DEF Free, Process, Pid, IInv, TypeOK
  <1>3. Occupied' = Occupied \ {i}
    BY <1>1, <1>2 DEF Occupied, Free
  <1>4. IsFiniteSet(Occupied) /\ Cardinality(Occupied) \in 0 .. MaxProcesses
    BY SlotsFinite DEF Occupied
  <1>5. /\ IsFiniteSet(Occupied') /\ Cardinality(Occupied') = Cardinality(Occupied) - 1
        /\ Cardinality(Occupied') \in 0 .. MaxProcesses
    <2>1. Cardinality(Occupied') = Cardinality(Occupied) - 1
      BY <1>1, <1>3, <1>4, FS_RemoveElement
    <2>2. Occupied' \in SUBSET Slot
      BY <1>3 DEF Occupied
    <2> QED BY <2>1, <2>2, SlotsFinite
  <1>6. TypeOK'
    <2>1. count' \in 0 .. MaxProcesses
      BY <1>1, <1>5 DEF IInv, CountIsExact
    <2>2. last' \in Result
      BY <1>1, <1>2 DEF Answer, Result, Status
    <2> QED BY <1>1, <1>2, <2>1, <2>2 DEF IInv, TypeOK
  <1>7. CurrentIsAlive'
    BY <1>1, <1>2 DEF IInv, TypeOK, CurrentIsAlive
  <1> QED BY <1>1, <1>5, <1>6, <1>7 DEF IInv, DownIsEmpty, CountIsExact

(* Calls that only report. *)
LEMMA TableInv ==
  ASSUME IInv, UNCHANGED table, last' \in Result
  PROVE  IInv'
  <1>1. Occupied' = Occupied
    BY DEF table, Occupied
  <1> QED BY <1>1 DEF table, IInv, TypeOK, DownIsEmpty, CurrentIsAlive, CountIsExact

LEMMA StepInv == IInv /\ [Next]_vars => IInv'
  <1> SUFFICES ASSUME IInv, [Next]_vars PROVE IInv'
    OBVIOUS
  <1>0. /\ 0 \in Pid /\ 1 \in Pid /\ 2 % PidModulus \in Pid
        /\ Free \in Process /\ 0 \in Slot
        /\ CurrentPid \in Pid /\ last.ret \in Pid
    BY ProcessAssumption DEF Pid, Free, Process, Slot, CurrentPid, IInv, TypeOK, Result
  <1>1. CASE SwInit
    <2>1. procs' \in [Slot -> Process]
      BY <1>0, <1>1 DEF SwInit, Process
    <2>2. Occupied' = {0}
      BY <1>0, <1>1 DEF SwInit, Occupied, Free
    <2>3. Cardinality({0}) = 1
      BY FS_Singleton
    <2>4. TypeOK'
      BY <1>0, <1>1, <2>1, ProcessAssumption DEF SwInit, Answer, Result, Status, TypeOK
    <2>5. CurrentIsAlive'
      BY <1>0, <1>1 DEF SwInit, CurrentIsAlive
    <2> QED BY <1>1, <2>2, <2>3, <2>4, <2>5 DEF SwInit, IInv, DownIsEmpty, CountIsExact
  <1>2. CASE SwInitFails
    <2>1. Occupied' = Occupied
      BY <1>2 DEF SwInitFails, Occupied
    <2>2. TypeOK'
      BY <1>0, <1>2, ProcessAssumption
         DEF SwInitFails, Answer, Result, Status, IInv, TypeOK
    <2> QED BY <1>2, <2>1, <2>2
            DEF SwInitFails, IInv, DownIsEmpty, CurrentIsAlive, CountIsExact
  <1>3. CASE SwShutdown
    <2>1. Occupied' = {}
      BY <1>3 DEF SwShutdown, Occupied, Free
    <2>2. TypeOK'
      <3>1. procs' \in [Slot -> Process]
        BY <1>0, <1>3 DEF SwShutdown
      <3>2. ready' \in BOOLEAN /\ current' \in Slot \cup {Nobody}
        BY <1>3 DEF SwShutdown
      <3>3. count' \in 0 .. MaxProcesses
        BY <1>3, ProcessAssumption DEF SwShutdown
      <3>4. UNCHANGED <<nextPid, created, last>>
        BY <1>3 DEF SwShutdown
      <3> QED BY <3>1, <3>2, <3>3, <3>4 DEF IInv, TypeOK
    <2> QED BY <1>3, <2>1, <2>2, FS_EmptySet
            DEF SwShutdown, IInv, DownIsEmpty, CurrentIsAlive, CountIsExact
  <1>4. CASE Refused \/ Getpid \/ SpawnFails \/ ExitFails
    <2>1. UNCHANGED table /\ last' \in Result
      BY <1>0, <1>4 DEF Refused, Getpid, SpawnFails, ExitFails, Answer, Result, Status
    <2> QED BY <2>1, TableInv
  <1>5. CASE Spawn
    BY <1>5, CreateInv DEF Spawn
  <1>6. CASE Exit
    <2>1. PICK i \in Slot : ready /\ Gets(CurrentPid, i) /\ Exits(i)
                            /\ Answer("EXIT", "OK", 0)
      BY <1>6 DEF Exit
    <2>2. i \in Occupied /\ last' \in Result
      BY <1>0, <2>1 DEF Gets, Answer, Result, Status
    <2> QED BY <2>1, <2>2, ExitInv
  <1>7. ASSUME NEW pid \in Pid, ProcExit(pid) PROVE IInv'
    <2>1. PICK i \in Slot : ready /\ Gets(pid, i) /\ Exits(i)
                            /\ Answer("proc_exit", "OK", 0)
      BY <1>7 DEF ProcExit
    <2>2. i \in Occupied /\ last' \in Result
      BY <1>0, <2>1 DEF Gets, Answer, Result, Status
    <2> QED BY <2>1, <2>2, ExitInv
  <1>8. ASSUME NEW pid \in Pid, ProcKill(pid) PROVE IInv'
    BY <1>8, KillInv
  <1>9. ASSUME NEW pid \in Pid, ProcNotFound(pid) PROVE IInv'
    <2>1. UNCHANGED table /\ last' \in Result
      BY <1>0, <1>9 DEF ProcNotFound, Answer, Result, Status
    <2> QED BY <2>1, TableInv
  <1>10. CASE UNCHANGED vars
    <2>1. UNCHANGED table /\ last' \in Result
      BY <1>10 DEF vars, table, IInv, TypeOK
    <2> QED BY <2>1, TableInv
  <1> QED BY <1>1, <1>2, <1>3, <1>4, <1>5, <1>6, <1>7, <1>8, <1>9, <1>10 DEF Next

(* The table keeps its types: in particular g_proc_count never leaves      *)
(* 0 .. BAIOS_MAX_PROCESSES.                                               *)
THEOREM TypeCorrect == Spec => []TypeOK
  <1>1. IInv => TypeOK
    BY DEF IInv
  <1> QED BY <1>1, InitInv, StepInv, PTL DEF Spec

(* Whoever ends which process, and even after the pid counter has wrapped  *)
(* round, g_current is NULL or points to a READY process.                  *)
THEOREM CurrentAlive == Spec => []CurrentIsAlive
  <1>1. IInv => CurrentIsAlive
    BY DEF IInv
  <1> QED BY <1>1, InitInv, StepInv, PTL DEF Spec

(* g_proc_count is the number of slots in use after any history.           *)
THEOREM CountExact == Spec => []CountIsExact
  <1>1. IInv => CountIsExact
    BY DEF IInv
  <1> QED BY <1>1, InitInv, StepInv, PTL DEF Spec

------------------------------------------------------------------------------
(* Pids, as long as the 32-bit counter has not wrapped round.  Every pid   *)
(* in the table is one that was handed out since proc_init, and the        *)
(* counter is ahead of all of them.                                        *)
CounterAhead == ready => nextPid = created + 1

PidsHandedOut == \A i \in Occupied : /\ procs[i].pid # InvalidPid
                                     /\ procs[i].ppid < procs[i].pid

PidInv == IInv /\ CounterAhead /\ PidsHandedOut /\ PidsUnique

LEMMA PidInit == Init => PidInv
  <1> SUFFICES ASSUME Init PROVE PidInv
    OBVIOUS
  <1>1. Occupied = {}
    BY DEF Init, Occupied, Free
  <1> QED BY <1>1, InitInv
          DEF Init, PidInv, CounterAhead, PidsHandedOut, PidsUnique

(* When the table is unchanged but for states, or loses processes, the     *)
(* pids that remain are pids that were there.                              *)
LEMMA PidFrame ==
  ASSUME PidInv, IInv', ready' => ready, nextPid' = nextPid, created' = created,
         \A i \in Occupied' : /\ i \in Occupied
                             /\ procs'[i].pid = procs[i].pid
                             /\ procs'[i].ppid = procs[i].ppid
  PROVE  PidInv'
  BY DEF PidInv, CounterAhead, PidsHandedOut, PidsUnique

LEMMA PidCreate ==
  ASSUME MaxCreates < PidModulus - 1,
         PidInv, IInv', ready, ready' = ready, NEW i \in Slot, Create("SPAWN", i)
  PROVE  PidInv'
  <1>1. /\ created \in Nat /\ nextPid = created + 1 /\ created < MaxCreates
        /\ MaxCreates \in Nat /\ PidModulus \in Nat
    BY ProcessAssumption
       DEF Create, PidInv, CounterAhead, IInv, TypeOK, Pid
  <1>2. nextPid' = nextPid + 1
    <2>1. nextPid' = (nextPid + 1) % PidModulus
      BY DEF Create
    <2>2. nextPid + 1 \in Nat /\ nextPid + 1 < PidModulus
      BY <1>1
    <2> QED BY <1>1, <2>1, <2>2
  <1>3. /\ i \notin Occupied /\ procs \in [Slot -> Process]
        /\ procs' = [procs EXCEPT ![i] = [state |-> "READY", pid |-> nextPid,
                                          ppid |-> CurrentPid]]
    BY DEF Create, IsFirstFree, PidInv, IInv, TypeOK
  <1>4. Occupied' = Occupied \cup {i}
    BY <1>3 DEF Occupied
  <1>5. CurrentPid < nextPid
    <2>1. current # Nobody => current \in Occupied
      BY DEF PidInv, IInv, TypeOK, CurrentIsAlive, Occupied
    <2>2. current # Nobody => procs[current].pid < nextPid
      BY <2>1 DEF PidInv, PidsUnique
    <2> QED BY <1>1, <2>2 DEF CurrentPid, CounterAhead, IInv, TypeOK
  <1>6. CounterAhead'
    BY <1>1, <1>2 DEF Create, CounterAhead
  <1>7. \A j \in Occupied : procs'[j] = procs[j] /\ procs[j].pid \in Nat
    BY <1>3 DEF Occupied, Process, Pid
  <1>8. PidsHandedOut'
    <2>1. procs'[i].pid = nextPid /\ procs'[i].ppid = CurrentPid
      BY <1>3
    <2>2. nextPid # InvalidPid
      BY <1>1 DEF InvalidPid, PidInv, IInv, TypeOK
    <2> QED BY <1>4, <1>5, <1>7, <2>1, <2>2 DEF PidInv, PidsHandedOut
  <1>9. PidsUnique'
    BY <1>1, <1>2, <1>3, <1>4, <1>7 DEF PidInv, PidsUnique
  <1> QED BY <1>6, <1>8, <1>9 DEF PidInv

LEMMA PidStep ==
  ASSUME MaxCreates < PidModulus - 1
  PROVE  PidInv /\ [Next]_vars => PidInv'
  <1> SUFFICES ASSUME PidInv, [Next]_vars PROVE PidInv'
    OBVIOUS
  <1>0. IInv /\ IInv'
    BY StepInv DEF PidInv
  <1>1. CASE SwInit
    <2>1. 2 % PidModulus = 2
      BY ProcessAssumption
    <2>2. Occupied' = {0}
      BY <1>1, ProcessAssumption DEF SwInit, Occupied, Free, Slot
    <2>3. procs'[0] = [state |-> "READY", pid |-> 1, ppid |-> 0]
      BY <1>1, ProcessAssumption DEF SwInit, Slot
    <2> QED BY <1>0, <1>1, <2>1, <2>2, <2>3
            DEF SwInit, PidInv, CounterAhead, PidsHandedOut, PidsUnique, InvalidPid
  <1>2. CASE SwInitFails
    <2>1. Occupied' = {}
      BY <1>0, <1>2 DEF SwInitFails, IInv, DownIsEmpty
    <2> QED BY <1>0, <1>2, <2>1
            DEF SwInitFails, PidInv, CounterAhead, PidsHandedOut, PidsUnique
  <1>3. CASE SwShutdown
    <2>1. Occupied' = {}
      BY <1>3 DEF SwShutdown, Occupied, Free
    <2> QED BY <1>0, <1>3, <2>1, PidFrame DEF SwShutdown
  <1>4. CASE Spawn
    BY <1>0, <1>4, PidCreate DEF Spawn
  <1>5. ASSUME NEW i \in Occupied, Exits(i) PROVE PidInv'
    <2>1. /\ procs \in [Slot -> Process] /\ i \in Slot
          /\ procs' = [procs EXCEPT ![i].state = "ZOMBIE"]
      BY <1>0, <1>5 DEF Exits, IInv, TypeOK, Occupied
    <2>2. \A j \in Slot : procs'[j].pid = procs[j].pid /\ procs'[j].ppid = procs[j].ppid
      BY <2>1 DEF Process
    <2>3. Occupied' = Occupied
      BY <2>1 DEF Occupied, Process
    <2> QED BY <1>0, <1>5, <2>2, <2>3, PidFrame DEF Exits, Occupied
  <1>6. CASE Exit
    BY <1>5, <1>6 DEF Exit, Gets
  <1>7. ASSUME NEW pid \in Pid, ProcExit(pid) PROVE PidInv'
    BY <1>5, <1>7 DEF ProcExit, Gets
  <1>8. ASSUME NEW pid \in Pid, ProcKill(pid) PROVE PidInv'
    <2>1. PICK i \in Slot : /\ procs' = [procs EXCEPT ![i] = Free]
                            /\ UNCHANGED <<ready, nextPid, created>>
      BY <1>8 DEF ProcKill
    <2>2. \A j \in Occupied' : j \in Occupied /\ procs'[j] = procs[j]
      BY <1>0, <2>1 DEF Occupied, Free, IInv, TypeOK
    <2> QED BY <1>0, <2>1, <2>2, PidFrame
  <1>9. ASSUME UNCHANGED table PROVE PidInv'
    BY <1>0, <1>9, PidFrame DEF table, Occupied
  <1>10. CASE Refused \/ Getpid \/ SpawnFails \/ ExitFails
    BY <1>9, <1>10 DEF Refused, Getpid, SpawnFails, ExitFails
  <1>11. ASSUME NEW pid \in Pid, ProcNotFound(pid) PROVE PidInv'
    BY <1>9, <1>11 DEF ProcNotFound
  <1>12. CASE UNCHANGED vars
    BY <1>9, <1>12 DEF vars, table
  <1> QED BY <1>1, <1>2, <1>3, <1>4, <1>6, <1>7, <1>8, <1>10, <1>11, <1>12 DEF Next

(* Below 2^32 - 1 creations, for any table size: every process has a pid   *)
(* of its own, which no earlier process of this boot had, and a parent     *)
(* older than itself.                                                      *)
THEOREM PidsAreUnique ==
  ASSUME MaxCreates < PidModulus - 1
  PROVE  Spec => [](PidsUnique /\ ParentsOlder)
  <1>1. PidInv => PidsUnique /\ ParentsOlder
    BY DEF PidInv, PidsHandedOut, ParentsOlder
  <1>2. PidInv /\ [Next]_vars => PidInv'
    BY PidStep
  <1> QED BY <1>1, <1>2, PidInit, PTL DEF Spec

------------------------------------------------------------------------------
(* One step, without the wrapper of an action property.                    *)
SlotsAge == \A i \in Occupied :
              procs'[i].pid = procs[i].pid /\ procs'[i].state # "FREE" =>
                /\ procs'[i].ppid = procs[i].ppid
                /\ procs[i].state = "ZOMBIE" => procs'[i].state = "ZOMBIE"

LEMMA StepAges == IInv /\ [Next]_vars => SlotsAge
  <1> SUFFICES ASSUME IInv, [Next]_vars PROVE SlotsAge
    OBVIOUS
  <1>1. procs \in [Slot -> Process] /\ Occupied \subseteq Slot
    BY DEF IInv, TypeOK, Occupied
  <1>2. CASE SwInit
    BY <1>2 DEF SwInit, IInv, DownIsEmpty, SlotsAge
  <1>3. CASE SwShutdown
    BY <1>1, <1>3 DEF SwShutdown, SlotsAge, Free
  <1>4. CASE Spawn
    <2>1. PICK i \in Slot : Create("SPAWN", i)
      BY <1>4 DEF Spawn
    <2>2. \A j \in Occupied : procs'[j] = procs[j]
      BY <1>1, <2>1 DEF Create, IsFirstFree
    <2> QED BY <2>2 DEF SlotsAge
  <1>5. ASSUME NEW i \in Slot, Exits(i) PROVE SlotsAge
    <2>1. \A j \in Slot : /\ procs'[j].ppid = procs[j].ppid
                          /\ procs'[j].state \in {procs[j].state, "ZOMBIE"}
      BY <1>1, <1>5 DEF Exits, Process
    <2> QED BY <1>1, <2>1 DEF SlotsAge
  <1>6. CASE Exit \/ \E pid \in Pid : ProcExit(pid)
    BY <1>5, <1>6 DEF Exit, ProcExit
  <1>7. ASSUME NEW pid \in Pid, ProcKill(pid) PROVE SlotsAge
    <2>1. PICK i \in Slot : procs' = [procs EXCEPT ![i] = Free]
      BY <1>7 DEF ProcKill
    <2>2. \A j \in Occupied : procs'[j] = procs[j] \/ procs'[j].state = "FREE"
      BY <1>1, <2>1 DEF Free
    <2> QED BY <2>2 DEF SlotsAge
  <1>8. CASE UNCHANGED procs
    BY <1>8 DEF SlotsAge
  <1>9. ASSUME SwInitFails \/ Refused \/ Getpid \/ SpawnFails \/ ExitFails
                 \/ (\E pid \in Pid : ProcNotFound(pid)) \/ UNCHANGED vars
        PROVE  UNCHANGED procs
    BY <1>9 DEF SwInitFails, Refused, Getpid, SpawnFails, ExitFails, ProcNotFound, table, vars
  <1> QED BY <1>2, <1>3, <1>4, <1>6, <1>7, <1>8, <1>9 DEF Next

(* A process that has exited never runs again, and keeps its pid's parent  *)
(* until its slot is freed, whatever is spawned, killed or restarted.      *)
THEOREM ZombiesStay == Spec => NoResurrection
  <1>1. IInv /\ [Next]_vars => [SlotsAge]_procs
    BY StepAges
  <1> QED BY <1>1, InitInv, StepInv, PTL DEF Spec, NoResurrection, SlotsAge
==============================================================================
