--------------------------- MODULE ProcessManager ---------------------------
(***************************************************************************)
(* The process table of BIOS/src/sw/process_manager.c and the system calls *)
(* of BIOS/src/sw/sw_kernel.cpp that are answered from it.  The table is   *)
(* used by one thread at a time; what is hard here is a long history of    *)
(* legal calls: slots are reused, pids are not, exited processes stay, the *)
(* current process comes and goes, and the pid counter is 32 bits wide.    *)
(***************************************************************************)
EXTENDS Integers, FiniteSets

CONSTANTS MaxProcesses,   \* BAIOS_MAX_PROCESSES
          PidModulus,     \* 2^32: baios_pid_t is u32
          MaxCreates      \* bound: processes created after one proc_init

ASSUME ProcessAssumption == /\ MaxProcesses \in Nat \ {0}
                            /\ PidModulus \in Nat \ {0, 1}
                            /\ MaxCreates \in Nat \ {0}

Slot == 0 .. MaxProcesses - 1
Pid == 0 .. PidModulus - 1
InvalidPid == 0
Nobody == -1

VARIABLES ready,      \* g_proc_ready, and with it the SW kernel's initialized
          procs,      \* g_procs; a NULL pointer is a process in state "FREE"
          current,    \* g_current: the slot of the process it points to
          count,      \* g_proc_count
          nextPid,    \* g_next_pid
          created,    \* how many processes were created since proc_init
          last        \* the last system call: its status and *ret

vars == <<ready, procs, current, count, nextPid, created, last>>

Process == [state : {"FREE", "READY", "ZOMBIE"}, pid : Pid, ppid : Pid]
Free == [state |-> "FREE", pid |-> 0, ppid |-> 0]

Status == {"OK", "NOMEM", "INVAL", "NOTFOUND", "OVERFLOW", "STATE"}
Result == [call : {"INIT", "SPAWN", "EXIT", "GETPID", "proc_exit", "proc_kill"},
           status : Status, ret : Pid]

TypeOK == /\ ready \in BOOLEAN
          /\ procs \in [Slot -> Process]
          /\ current \in Slot \cup {Nobody}
          /\ count \in 0 .. MaxProcesses
          /\ nextPid \in Pid
          /\ created \in 0 .. MaxCreates
          /\ last \in Result

Init == /\ ready = FALSE
        /\ procs = [i \in Slot |-> Free]
        /\ current = Nobody
        /\ count = 0
        /\ nextPid = 1
        /\ created = 0
        /\ last = [call |-> "INIT", status |-> "OK", ret |-> 0]

------------------------------------------------------------------------------
Occupied == {i \in Slot : procs[i].state # "FREE"}

(* find_slot: the first NULL pointer of the table. *)
IsFirstFree(i) == /\ i \in Slot \ Occupied
                  /\ \A j \in Slot \ Occupied : i <= j

(* baios_proc_get: the first process with that pid; nobody has pid 0. *)
Gets(pid, i) == /\ pid # InvalidPid
                /\ i \in Occupied /\ procs[i].pid = pid
                /\ \A j \in Occupied : procs[j].pid = pid => i <= j

Known(pid) == \E i \in Slot : Gets(pid, i)

CurrentPid == IF current = Nobody THEN 0 ELSE procs[current].pid

Answer(call, status, ret) ==
    last' = [call |-> call, status |-> status, ret |-> ret]

(* Fault: pids are taken from the number of processes. *)
CreateNumberedByCount(call, i) ==
    /\ IsFirstFree(i)
    /\ created < MaxCreates
    /\ procs' = [procs EXCEPT ![i] = [state |-> "READY", pid |-> count + 1,
                                      ppid |-> CurrentPid]]
    /\ nextPid' = (nextPid + 1) % PidModulus
    /\ count' = count + 1
    /\ current' = IF current = Nobody THEN i ELSE current
    /\ created' = created + 1
    /\ Answer(call, "OK", count + 1)

(* baios_proc_create when calloc succeeds: the process is READY when the   *)
(* call returns, and becomes the current one if there is none.             *)
Create(call, i) ==
    /\ IsFirstFree(i)
    /\ created < MaxCreates
    /\ procs' = [procs EXCEPT ![i] = [state |-> "READY", pid |-> nextPid,
                                      ppid |-> CurrentPid]]
    /\ nextPid' = (nextPid + 1) % PidModulus
    /\ count' = count + 1
    /\ current' = IF current = Nobody THEN i ELSE current
    /\ created' = created + 1
    /\ Answer(call, "OK", nextPid)

(* baios_sw_init: an empty table, and in it the init process ... *)
SwInit == /\ ~ready
          /\ ready' = TRUE
          /\ procs' = [i \in Slot |-> IF i = 0
                         THEN [state |-> "READY", pid |-> 1, ppid |-> 0]
                         ELSE Free]
          /\ current' = 0
          /\ count' = 1
          /\ nextPid' = 2 % PidModulus
          /\ created' = 1
          /\ Answer("INIT", "OK", 0)

(* ... or, when there is no memory for that one, nothing: the error path   *)
(* shuts the table down again.                                             *)
SwInitFails == /\ ~ready
               /\ nextPid' = 1
               /\ created' = 0
               /\ Answer("INIT", "NOMEM", 0)
               /\ UNCHANGED <<ready, procs, current, count>>

(* baios_sw_shutdown: baios_proc_shutdown frees every process. *)
SwShutdown == /\ ready
              /\ ready' = FALSE
              /\ procs' = [i \in Slot |-> Free]
              /\ current' = Nobody
              /\ count' = 0
              /\ UNCHANGED <<nextPid, created, last>>

------------------------------------------------------------------------------
(* System calls, made through baios_syscall. *)

table == <<ready, procs, current, count, nextPid, created>>

(* The software kernel is not up; *ret is left alone. *)
Refused == /\ ~ready
           /\ \E call \in {"GETPID", "SPAWN", "EXIT"} :
                Answer(call, "STATE", last.ret)
           /\ UNCHANGED table

Getpid == /\ ready
          /\ Answer("GETPID", "OK", CurrentPid)
          /\ UNCHANGED table

Spawn == /\ ready
         /\ \E i \in Slot : Create("SPAWN", i)
         /\ UNCHANGED ready

(* No name, no free slot, no memory: the table stays as it is. *)
SpawnFails == /\ ready
              /\ \E status \in {"INVAL", "OVERFLOW", "NOMEM"} :
                   /\ status = "OVERFLOW" => Occupied = Slot
                   /\ status = "NOMEM" => Occupied # Slot
                   /\ Answer("SPAWN", status, 0)
              /\ UNCHANGED table

(* Fault: an exited process stays the current one. *)
ExitsStayingCurrent(i) ==
    /\ procs' = [procs EXCEPT ![i].state = "ZOMBIE"]
    /\ UNCHANGED <<ready, current, count, nextPid, created>>

(* Fault: a zombie, which keeps its slot, is no longer counted. *)
ExitsUncounted(i) ==
    /\ procs' = [procs EXCEPT ![i].state = "ZOMBIE"]
    /\ current' = IF current = i THEN Nobody ELSE current
    /\ count' = count - 1
    /\ UNCHANGED <<ready, nextPid, created>>

(* Fault: the children of an exiting process are given to init. *)
ExitsReparenting(i) ==
    /\ procs' = [j \in Slot |->
                   IF j = i THEN [procs[j] EXCEPT !.state = "ZOMBIE"]
                   ELSE IF procs[j].ppid = procs[i].pid
                          THEN [procs[j] EXCEPT !.ppid = 1] ELSE procs[j]]
    /\ current' = IF current = i THEN Nobody ELSE current
    /\ UNCHANGED <<ready, count, nextPid, created>>

(* baios_proc_exit of slot i: a zombie keeps its slot.                     *)
Exits(i) == /\ procs' = [procs EXCEPT ![i].state = "ZOMBIE"]
            /\ current' = IF current = i THEN Nobody ELSE current
            /\ UNCHANGED <<ready, count, nextPid, created>>

(* SYS_EXIT: the current process exits, by its pid.                        *)
Exit == \E i \in Slot : /\ ready
                        /\ current # Nobody
                        /\ Gets(CurrentPid, i)
                        /\ Exits(i)
                        /\ Answer("EXIT", "OK", 0)

ExitFails == /\ ready
             /\ current = Nobody \/ ~Known(CurrentPid)
             /\ Answer("EXIT", IF current = Nobody THEN "STATE" ELSE "NOTFOUND", 0)
             /\ UNCHANGED table

------------------------------------------------------------------------------
(* The process interface itself, which takes any pid. *)

ProcExit(pid) == \E i \in Slot : /\ ready
                                 /\ Gets(pid, i)
                                 /\ Exits(i)
                                 /\ Answer("proc_exit", "OK", 0)

(* Fault: the slot is freed and the process still counted. *)
ProcKillUncounted(pid) ==
    \E i \in Slot : /\ ready
                    /\ Gets(pid, i)
                    /\ procs' = [procs EXCEPT ![i] = Free]
                    /\ current' = IF current = i THEN Nobody ELSE current
                    /\ Answer("proc_kill", "OK", 0)
                    /\ UNCHANGED <<ready, count, nextPid, created>>

(* baios_proc_kill frees the slot. *)
ProcKill(pid) == \E i \in Slot :
                   /\ ready
                   /\ Gets(pid, i)
                   /\ procs' = [procs EXCEPT ![i] = Free]
                   /\ current' = IF current = i THEN Nobody ELSE current
                   /\ count' = count - 1
                   /\ Answer("proc_kill", "OK", 0)
                   /\ UNCHANGED <<ready, nextPid, created>>

ProcNotFound(pid) == /\ ~(ready /\ Known(pid))
                     /\ \E call \in {"proc_exit", "proc_kill"} :
                          Answer(call, "NOTFOUND", 0)
                     /\ UNCHANGED table

Next == \/ SwInit \/ SwInitFails \/ SwShutdown
        \/ Refused \/ Getpid \/ Spawn \/ SpawnFails \/ Exit \/ ExitFails
        \/ \E pid \in Pid : ProcExit(pid) \/ ProcKill(pid) \/ ProcNotFound(pid)

Spec == Init /\ [][Next]_vars

------------------------------------------------------------------------------
(* The current process is one that runs: neither a freed descriptor nor a  *)
(* process that has exited, whoever ended it and in whatever order         *)
(* (process_manager.c:91-93, 104-106).                                     *)
CurrentIsAlive == current # Nobody => procs[current].state = "READY"

(* A pid names one process, and a pid that was given out once is not given *)
(* out again, not even after the slot was reused.                          *)
PidsUnique == \A i, j \in Occupied :
                /\ procs[i].pid = procs[j].pid => i = j
                /\ procs[i].pid < nextPid

(* The parent of a process is older than the process.                      *)
ParentsOlder == \A i \in Occupied : procs[i].ppid < procs[i].pid

(* g_proc_count, which the statistics report, is the number of descriptors *)
(* in use, zombies included, over any history of spawns, exits and kills.  *)
CountIsExact == count = Cardinality(Occupied)

(* A process that has exited never runs again, and a process keeps its pid *)
(* and its parent for as long as it has its slot.                          *)
NoResurrection ==
    [][\A i \in Occupied :
         LET p == procs[i]  q == procs'[i]
         IN  q.pid = p.pid /\ q.state # "FREE" =>
               /\ q.ppid = p.ppid
               /\ p.state = "ZOMBIE" => q.state = "ZOMBIE"]_procs

==============================================================================
