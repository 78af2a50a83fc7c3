--------------------------- MODULE FirstGenProcesses ---------------------------
(***************************************************************************)
(* The first generation's process table and round-robin scheduler          *)
(* (BIOS/sw/process_manager.cpp), its system calls (BIOS/sw/main.cpp) and  *)
(* its permission records (BIOS/sw/permissions.cpp), used by one thread.   *)
(* Slots are taken in order and never given back, and the list starts with *)
(* the youngest process: process i is the i-th that was created, and its   *)
(* next is process i - 1.  A capability that is granted, revoked or asked  *)
(* for is a word of bits: a set.  Pending requests, which nothing reads,   *)
(* are left out.                                                           *)
(***************************************************************************)
EXTENDS Integers, Sequences, FiniteSets

CONSTANTS Caps,          \* capabilities, one bit each
          Dangerous,     \* those of perm_is_dangerous
          Root,          \* BAIOS_CAP_ROOT, which stands for all
          UserDefault,   \* BAIOS_PERM_DEFAULT_USER
          MaxProcesses,  \* BAIOS_MAX_PROCESSES
          MaxRecords,    \* MAX_PERM_RECORDS
          MaxStacks,     \* stacks that fit the heap of baios_kmalloc
          MaxPid         \* bound: pids used since sw_kernel_init

ASSUME ProcessesAssumption == /\ Root \in Dangerous /\ Dangerous \subseteq Caps
                              /\ UserDefault \subseteq Caps \ Dangerous
                              /\ {MaxRecords, MaxStacks} \subseteq Nat \ {0}
                              /\ {MaxProcesses, MaxPid} \subseteq Nat \ {0, 1}

VARIABLES
    procs,    \* g_proc_pool, as far as it is used
    current,  \* g_sw.current: an index of procs, 0 for NULL
    nextPid,  \* g_sw.next_pid
    stacks,   \* how many more stacks the heap has room for
    records,  \* g_perms up to g_perm_count, by pid: what is granted
    waited,   \* ghost: scheduling decisions a process has been READY for
    approved, \* ghost: dangerous capabilities from perm_grant itself, by pid
    combined  \* ghost: those that came with others in a perm_request, by pid

table == <<procs, current, nextPid, stacks>>
permissions == <<records, approved, combined>>
vars == <<table, waited, permissions>>

Pid == 1 .. MaxPid
System == {Root}   \* BAIOS_PERM_DEFAULT_SYSTEM

Process == [pid : Pid, state : {"READY", "RUNNING", "TERMINATED"},
            permissions : {UserDefault, System}]

TypeOK == /\ procs \in Seq(Process) /\ Len(procs) <= MaxProcesses
          /\ current \in 0 .. Len(procs)
          /\ nextPid \in 1 .. MaxPid + 1
          /\ stacks \in 0 .. MaxStacks
          /\ DOMAIN records \subseteq Pid /\ Cardinality(DOMAIN records) <= MaxRecords
          /\ \A pid \in DOMAIN records : records[pid] \subseteq Caps
          /\ waited \in [1 .. MaxProcesses -> Nat]
          /\ approved \in [Pid -> SUBSET Dangerous]
          /\ combined \in [Pid -> SUBSET Dangerous]

NoWait == [i \in 1 .. MaxProcesses |-> 0]
NoRecords == [pid \in {} |-> {}]
NoneDangerous == [pid \in Pid |-> {}]

(* Before sw_full_init the table is empty. *)
Init == /\ procs = <<>> /\ current = 0 /\ nextPid = 1
        /\ stacks = MaxStacks
        /\ waited = NoWait
        /\ records = NoRecords /\ approved = NoneDangerous /\ combined = NoneDangerous

------------------------------------------------------------------------------
(* Processes. *)

Booted == nextPid > 1   \* g_perm_ready, and the kernel is initialised

New(pid, perms) == [pid |-> pid, state |-> "READY", permissions |-> perms]

(* sw_process_create: the pid is used, and only then may the stack be      *)
(* refused; the slot is then not taken.                                    *)
Create == /\ Booted /\ nextPid <= MaxPid
          /\ Len(procs) < MaxProcesses
          /\ nextPid' = nextPid + 1
          /\ IF stacks = 0 THEN UNCHANGED <<procs, stacks>>
             ELSE /\ procs' = Append(procs, New(nextPid, UserDefault))
                  /\ stacks' = stacks - 1
          /\ UNCHANGED <<current, waited, permissions>>

(* Another user of the heap takes what a stack would have needed. *)
HeapUsed == /\ stacks > 0 /\ stacks' = stacks - 1
            /\ UNCHANGED <<procs, current, nextPid, waited, permissions>>

(* sw_full_init as far as it changes this state: perm_init, then           *)
(* sw_kernel_init with its idle process and its init process.              *)
Boots(created, at, left) == /\ procs' = created /\ current' = at /\ stacks' = left
                            /\ nextPid' = 3
                            /\ waited' = NoWait
                            /\ records' = NoRecords
                            /\ approved' = NoneDangerous /\ combined' = NoneDangerous

SwInit == /\ stacks > 1
          /\ Boots(<<New(1, UserDefault), New(2, System)>>, 2, stacks - 2)

(* The heap ran out: nobody looks at the status of the two creations, and  *)
(* init_pid is used uninitialised.  It may be the pid of idle, by chance.  *)
SwInitShort ==
    /\ stacks <= 1
    /\ \/ /\ stacks = 1
          /\ Boots(<<New(1, System)>>, 1, 0)
       \/ Boots(IF stacks = 1 THEN <<New(1, UserDefault)>> ELSE <<>>, 0, 0)

Terminate(i) == /\ procs' = [procs EXCEPT ![i].state = "TERMINATED"]
                /\ waited' = [waited EXCEPT ![i] = 0]
                /\ UNCHANGED <<current, nextPid, stacks, permissions>>

(* sw_process_kill: the process keeps its slot and its place in the list.  *)
Kill(pid) == \E i \in DOMAIN procs : procs[i].pid = pid /\ Terminate(i)

(* SYS_EXIT: sw_process_kill of the current process, which stays current.  *)
Exit == current # 0 /\ Kill(procs[current].pid)

------------------------------------------------------------------------------
(* Scheduling. *)

Runnable(ps) == {i \in DOMAIN ps : ps[i].state # "TERMINATED"}

(* Where the search starts: behind the current process, or at the head.    *)
Start == IF current <= 1 THEN Len(procs) ELSE current - 1

(* How many list elements it passes before it comes to process i. *)
Passed(i) == IF i <= Start THEN Start - i ELSE Start - i + Len(procs)

IsNext(ps, p) == /\ p \in Runnable(ps)
                 /\ \A j \in Runnable(ps) : Passed(p) <= Passed(j)

(* The process that was current becomes READY, also when it has been       *)
(* terminated.                                                             *)
Run(ps, p) ==
    /\ procs' = [i \in DOMAIN ps |->
                   IF i = p THEN [ps[i] EXCEPT !.state = "RUNNING"]
                   ELSE IF i = current THEN [ps[i] EXCEPT !.state = "READY"]
                   ELSE ps[i]]
    /\ current' = p
    /\ waited' = [i \in DOMAIN waited |->
                    IF i \in DOMAIN procs /\ i # p /\ procs[i].state = "READY"
                      THEN waited[i] + 1 ELSE 0]
    /\ UNCHANGED <<nextPid, stacks, permissions>>

(* Fault: the search always starts at the head of the list. *)
TickFromHead ==
    \E p \in Runnable(procs) : (\A j \in Runnable(procs) : p >= j) /\ Run(procs, p)

(* Fault: the process that ran before is not made ready. *)
TickKeepingState ==
    \E p \in DOMAIN procs :
      /\ IsNext(procs, p)
      /\ procs' = [procs EXCEPT ![p].state = "RUNNING"]
      /\ current' = p
      /\ UNCHANGED <<nextPid, stacks, waited, permissions>>

(* sw_scheduler_tick; it finds nobody when all are terminated.             *)
Tick == \E p \in DOMAIN procs : IsNext(procs, p) /\ Run(procs, p)

(* Fault: yield makes every process ready, to be fair to all. *)
YieldAll ==
    LET ps == [i \in DOMAIN procs |-> [procs[i] EXCEPT !.state = "READY"]]
    IN  current # 0 /\ \E p \in DOMAIN ps : IsNext(ps, p) /\ Run(ps, p)

(* sw_scheduler_yield: the same, with the current process made READY       *)
(* before the choice.                                                      *)
Yield == LET ps == [procs EXCEPT ![current].state = "READY"]
         IN  current # 0 /\ \E p \in DOMAIN ps : IsNext(ps, p) /\ Run(ps, p)

------------------------------------------------------------------------------
(* Permissions. *)

(* perm_check: a record, if there is one, replaces the process's default.  *)
Holds(pid, cap) ==
    IF pid \in DOMAIN records THEN {cap, Root} \cap records[pid] # {}
    ELSE \E i \in DOMAIN procs : /\ procs[i].pid = pid
                                 /\ {cap, Root} \cap procs[i].permissions # {}

HasRoomFor(pid) == pid \in DOMAIN records \/ Cardinality(DOMAIN records) < MaxRecords

Recorded(pid) == IF pid \in DOMAIN records THEN records[pid] ELSE {}

SetRecord(pid, granted) ==
    records' = [q \in DOMAIN records \cup {pid} |-> IF q = pid THEN granted ELSE records[q]]

Origins(pid, granted, brought) == /\ approved' = [approved EXCEPT ![pid] = granted]
                                  /\ combined' = [combined EXCEPT ![pid] = brought]

(* perm_is_dangerous compares the whole word. *)
IsDangerous(caps) == \E cap \in Dangerous : caps = {cap}

(* Fault: a record is taken without a look at how many there are. *)
PermGrantUnbounded(pid, caps) ==
    /\ Booted
    /\ SetRecord(pid, Recorded(pid) \cup caps)
    /\ Origins(pid, approved[pid] \cup (caps \cap Dangerous), combined[pid] \ caps)
    /\ UNCHANGED <<table, waited>>

(* perm_grant: a new record starts without the defaults. *)
PermGrant(pid, caps) ==
    /\ Booted /\ HasRoomFor(pid)
    /\ SetRecord(pid, Recorded(pid) \cup caps)
    /\ Origins(pid, approved[pid] \cup (caps \cap Dangerous), combined[pid] \ caps)
    /\ UNCHANGED <<table, waited>>

PermRevoke(pid, caps) == /\ pid \in DOMAIN records
                         /\ SetRecord(pid, records[pid] \ caps)
                         /\ Origins(pid, approved[pid] \ caps, combined[pid] \ caps)
                         /\ UNCHANGED <<table, waited>>

(* What a granted request for caps brings that was not approved before.    *)
Brought(pid, caps) == IF \E c, d \in caps : c # d THEN (caps \cap Dangerous) \ approved[pid]
                                                  ELSE {}

GrantRequest(pid, caps) ==
    /\ Booted /\ HasRoomFor(pid)
    /\ SetRecord(pid, Recorded(pid) \cup caps)
    /\ Origins(pid, approved[pid], combined[pid] \cup Brought(pid, caps))
    /\ UNCHANGED <<table, waited>>

(* Fault: only the power over everything has to be approved. *)
PermRequestLax(pid, caps) == caps # {Root} /\ GrantRequest(pid, caps)

(* perm_request: what is dangerous waits, in a record that is created for  *)
(* it, before perm_init too; the rest is granted as perm_grant does it.    *)
PermRequest(pid, caps) ==
    \/ ~IsDangerous(caps) /\ GrantRequest(pid, caps)
    \/ /\ IsDangerous(caps) /\ HasRoomFor(pid)
       /\ SetRecord(pid, Recorded(pid))
       /\ UNCHANGED <<table, waited, approved, combined>>

------------------------------------------------------------------------------
Next == \/ SwInit \/ SwInitShort \/ Create \/ HeapUsed
        \/ Exit \/ Tick \/ Yield
        \/ \E pid \in Pid :
             \/ Kill(pid)
             \/ \E caps \in SUBSET Caps :
                  PermGrant(pid, caps) \/ PermRevoke(pid, caps) \/ PermRequest(pid, caps)

Spec == Init /\ [][Next]_vars

------------------------------------------------------------------------------
(* At most one process runs, and it is the one that sw_process_current     *)
(* returns, whatever is killed or created between two ticks.               *)
OneRunning == \A i \in DOMAIN procs : procs[i].state = "RUNNING" => i = current

(* Round robin: a ready process is passed over less often than there are   *)
(* processes before it runs, also when the list grows at its head in the   *)
(* meantime and terminated processes stay in it (100-114).                 *)
BoundedWait == \A i \in DOMAIN procs : waited[i] < Len(procs)

(* A terminated process stays so unless it was the current one, which the  *)
(* next tick or yield makes READY again (107, 119): an exit, or a kill of  *)
(* the current process, is undone.                                         *)
OnlyCurrentRevived ==
    [][\A i \in DOMAIN procs :
         /\ procs[i].state = "TERMINATED" /\ i # current
         /\ ~(SwInit \/ SwInitShort)
         => procs'[i].state = "TERMINATED"]_vars

(* The process that boots has all of them by default. *)
IsBooting(pid) == /\ pid \notin DOMAIN records
                  /\ \E i \in DOMAIN procs : procs[i].pid = pid /\ procs[i].permissions = System

(* Who holds a dangerous capability, or the power over everything, was     *)
(* granted it, or got it as one of several in a single request, and has    *)
(* not lost it since, or has no record and is the process that boots.  It  *)
(* never comes from asking for it alone, from a pid that somebody had      *)
(* before, or with a record that replaces the defaults                     *)
(* (permissions.cpp:34-85).  A comment there asks for an approval in every *)
(* case (73); the comparison (101-107) makes a request for several an      *)
(* exception, which "combined" stands for.                                 *)
DangerousTraced ==
    \A pid \in Pid, cap \in Dangerous :
      Holds(pid, cap) => \/ {cap, Root} \cap (approved[pid] \cup combined[pid]) # {}
                         \/ IsBooting(pid)
==============================================================================
