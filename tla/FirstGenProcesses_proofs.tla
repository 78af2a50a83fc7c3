----------------------- MODULE FirstGenProcesses_proofs -----------------------
(***************************************************************************)
(* For every number of processes, stacks, pids and permission records: the *)
(* first generation's scheduler runs one process at a time and starves     *)
(* none, and a dangerous capability does not come from asking for it alone.*)
(***************************************************************************)
EXTENDS FirstGenProcesses, SequenceTheorems, FiniteSetTheorems, TLAPS

(* What a process has waited, and how far the search still is from it: no  *)
(* decision makes the sum larger than a round through the list.            *)
RoundLeft ==
    /\ \A i \in DOMAIN procs :
         IF procs[i].state = "READY" THEN waited[i] + Passed(i) < Len(procs)
                                     ELSE waited[i] = 0
    /\ \A i \in 1 .. MaxProcesses : i > Len(procs) => waited[i] = 0

(* What a record has of the dangerous capabilities was approved, or came   *)
(* with others in a request.                                               *)
RecordsTraced == \A pid \in DOMAIN records :
                   records[pid] \cap Dangerous \subseteq approved[pid] \cup combined[pid]

IInv == TypeOK /\ IsFiniteSet(DOMAIN records) /\ OneRunning /\ RoundLeft /\ RecordsTraced

------------------------------------------------------------------------------
(* The list search. *)

(* The search passes less than the whole list. *)
LEMMA PassedInRound ==
  ASSUME TypeOK, NEW i \in DOMAIN procs
  PROVE  Passed(i) \in 0 .. Len(procs) - 1
  <1>1. /\ Len(procs) \in Nat /\ DOMAIN procs = 1 .. Len(procs)
        /\ current \in 0 .. Len(procs)
    BY DEF TypeOK
  <1>2. Start \in 1 .. Len(procs)
    BY <1>1 DEF Start
  <1> QED BY <1>1, <1>2 DEF Passed

(* After p was chosen, a process that the search would have met later is   *)
(* nearer by p and what was passed before p.                               *)
LEMMA PassedAfterRun ==
  ASSUME TypeOK, NEW p \in DOMAIN procs, NEW i \in DOMAIN procs, i # p,
         Passed(p) <= Passed(i),
         current' = p, Len(procs') = Len(procs)
  PROVE  Passed(i)' = Passed(i) - Passed(p) - 1
  <1>1. /\ Len(procs) \in Nat /\ DOMAIN procs = 1 .. Len(procs)
        /\ current \in 0 .. Len(procs)
    BY DEF TypeOK
  <1>2. Start \in 1 .. Len(procs)
    BY <1>1 DEF Start
  <1>3. Start' = IF p <= 1 THEN Len(procs) ELSE p - 1
    BY DEF Start
  <1> DEFINE s == Start
             t == Start'
  <1>4. Passed(i)' = IF i <= t THEN t - i ELSE t - i + Len(procs)
    BY DEF Passed
  <1>5. /\ Passed(i) = IF i <= s THEN s - i ELSE s - i + Len(procs)
        /\ Passed(p) = IF p <= s THEN s - p ELSE s - p + Len(procs)
    BY DEF Passed
  <1> HIDE DEF s, t
  <1>6. s \in 1 .. Len(procs) /\ t = IF p <= 1 THEN Len(procs) ELSE p - 1
    BY <1>2, <1>3 DEF s, t
  <1> QED BY <1>1, <1>4, <1>5, <1>6

(* The current process is the last that the search comes to. *)
LEMMA CurrentLast ==
  ASSUME TypeOK, current # 0
  PROVE  /\ current \in DOMAIN procs
         /\ Passed(current) = Len(procs) - 1
  <1>1. /\ Len(procs) \in Nat /\ DOMAIN procs = 1 .. Len(procs)
        /\ current \in 1 .. Len(procs)
    BY DEF TypeOK
  <1> QED BY <1>1 DEF Passed, Start

------------------------------------------------------------------------------
(* Scheduling.  ps is the table the choice is made from: it may differ     *)
(* from procs in the state of the current process.                         *)

LEMMA RunKeepsRound ==
  ASSUME TypeOK, RoundLeft,
         NEW ps \in Seq(Process), Len(ps) = Len(procs),
         \A i \in DOMAIN procs : i # current => ps[i] = procs[i],
         NEW p \in DOMAIN ps, IsNext(ps, p), Run(ps, p)
  PROVE  RoundLeft'
  <1>1. /\ Len(procs) \in Nat /\ DOMAIN procs = 1 .. Len(procs) /\ Len(procs) <= MaxProcesses
        /\ DOMAIN ps = 1 .. Len(procs)
        /\ waited \in [1 .. MaxProcesses -> Nat]
        /\ MaxProcesses \in Nat
        /\ \A i \in DOMAIN procs : ps[i] \in Process /\ procs[i] \in Process
    BY ProcessesAssumption DEF TypeOK
  <1>2. /\ DOMAIN procs' = 1 .. Len(procs) /\ Len(procs') = Len(procs)
        /\ current' = p
        /\ \A i \in 1 .. Len(procs) : procs'[i] =
              IF i = p THEN [ps[i] EXCEPT !.state = "RUNNING"]
              ELSE IF i = current THEN [ps[i] EXCEPT !.state = "READY"]
              ELSE ps[i]
        /\ \A i \in 1 .. MaxProcesses : waited'[i] =
              IF i \in DOMAIN procs /\ i # p /\ procs[i].state = "READY"
                THEN waited[i] + 1 ELSE 0
    BY <1>1 DEF Run
  <1>3. ASSUME NEW i \in DOMAIN procs'
        PROVE  IF procs'[i].state = "READY" THEN waited'[i] + Passed(i)' < Len(procs')
                                            ELSE waited'[i] = 0
    <2>1. i \in DOMAIN procs /\ i \in 1 .. MaxProcesses
      BY <1>1, <1>2
    <2>2. CASE i = p
      <3>1. procs'[i].state = "RUNNING"
        BY <1>1, <1>2, <2>1, <2>2 DEF Process
      <3> QED BY <1>2, <2>1, <2>2, <3>1
    <2>3. CASE i # p /\ procs'[i].state # "READY"
      <3>1. procs'[i] = procs[i]
        BY <1>1, <1>2, <2>1, <2>3 DEF Process
      <3> QED BY <1>2, <2>1, <2>3, <3>1
    <2>4. CASE i # p /\ procs'[i].state = "READY"
      <3>1. Passed(p) <= Passed(i)
        <4>1. CASE i = current
          <5>1. current # 0
            BY <1>1, <2>1, <4>1
          <5>2. Passed(current) = Len(procs) - 1
            BY <5>1, CurrentLast
          <5>3. Passed(p) \in 0 .. Len(procs) - 1
            BY <1>1, PassedInRound
          <5> QED BY <1>1, <4>1, <5>2, <5>3
        <4>2. CASE i # current
          <5>1. i \in Runnable(ps)
            BY <1>1, <1>2, <2>1, <2>4, <4>2 DEF Runnable
          <5> QED BY <5>1 DEF IsNext
        <4> QED BY <4>1, <4>2
      <3>2. Passed(i)' = Passed(i) - Passed(p) - 1
        BY <1>1, <1>2, <2>1, <2>4, <3>1, PassedAfterRun
      <3>3. Passed(i) \in 0 .. Len(procs) - 1 /\ Passed(p) \in 0 .. Len(procs) - 1
        BY <1>1, <2>1, PassedInRound
      <3>4. procs[i].state = "READY" => waited[i] + Passed(i) < Len(procs)
        BY <2>1 DEF RoundLeft
      <3>5. waited'[i] = IF procs[i].state = "READY" THEN waited[i] + 1 ELSE 0
        BY <1>2, <2>1, <2>4
      <3>6. waited[i] \in Nat
        BY <1>1, <2>1
      <3> QED BY <1>1, <1>2, <2>4, <3>2, <3>3, <3>4, <3>5, <3>6
    <2> QED BY <2>2, <2>3, <2>4
  <1>4. \A i \in 1 .. MaxProcesses : i > Len(procs') => waited'[i] = 0
    BY <1>1, <1>2
  <1> QED BY <1>3, <1>4 DEF RoundLeft

LEMMA RunKeepsRest ==
  ASSUME TypeOK, IsFiniteSet(DOMAIN records), OneRunning, RecordsTraced,
         NEW ps \in Seq(Process), Len(ps) = Len(procs),
         \A i \in DOMAIN procs : i # current => ps[i] = procs[i],
         NEW p \in DOMAIN ps, Run(ps, p)
  PROVE  (TypeOK /\ IsFiniteSet(DOMAIN records) /\ OneRunning /\ RecordsTraced)'
  <1>1. /\ Len(procs) \in Nat /\ DOMAIN procs = 1 .. Len(procs) /\ Len(procs) <= MaxProcesses
        /\ DOMAIN ps = 1 .. Len(procs)
        /\ \A i \in DOMAIN procs : ps[i] \in Process
    BY DEF TypeOK
  <1>2. /\ DOMAIN procs' = 1 .. Len(procs) /\ Len(procs') = Len(procs)
        /\ current' = p
        /\ procs' = [i \in 1 .. Len(procs) |->
              IF i = p THEN [ps[i] EXCEPT !.state = "RUNNING"]
              ELSE IF i = current THEN [ps[i] EXCEPT !.state = "READY"]
              ELSE ps[i]]
    BY <1>1 DEF Run
  <1>3. procs' \in Seq(Process)
    <2>1. \A i \in 1 .. Len(procs) : procs'[i] \in Process
      BY <1>1, <1>2 DEF Process
    <2> QED BY <1>1, <1>2, <2>1
  <1>4. waited' \in [1 .. MaxProcesses -> Nat]
    BY DEF TypeOK, Run
  <1>5. UNCHANGED <<nextPid, stacks, records, approved, combined>>
    BY DEF Run, permissions
  <1>6. TypeOK'
    <2>1. Len(procs') <= MaxProcesses /\ current' \in 0 .. Len(procs')
      BY <1>1, <1>2
    <2>2. nextPid' = nextPid /\ stacks' = stacks /\ records' = records
          /\ approved' = approved /\ combined' = combined
      BY <1>5
    <2> QED BY <1>3, <1>4, <2>1, <2>2 DEF TypeOK
  <1>7. OneRunning'
    BY <1>1, <1>2 DEF OneRunning, Process
  <1> QED BY <1>5, <1>6, <1>7 DEF RecordsTraced

LEMMA TickKeeps == IInv /\ Tick => IInv'
  <1> SUFFICES ASSUME IInv, NEW p \in DOMAIN procs, IsNext(procs, p), Run(procs, p)
               PROVE  IInv'
    BY DEF Tick
  <1>1. procs \in Seq(Process)
    BY DEF IInv, TypeOK
  <1> QED BY <1>1, RunKeepsRound, RunKeepsRest DEF IInv

LEMMA YieldKeeps == IInv /\ Yield => IInv'
  <1> DEFINE ps == [procs EXCEPT ![current].state = "READY"]
  <1> SUFFICES ASSUME IInv, current # 0, NEW p \in DOMAIN ps, IsNext(ps, p), Run(ps, p)
               PROVE  IInv'
    BY DEF Yield
  <1>1. /\ procs \in Seq(Process) /\ Len(procs) \in Nat /\ DOMAIN procs = 1 .. Len(procs)
        /\ current \in 1 .. Len(procs)
    BY DEF IInv, TypeOK
  <1>2. /\ DOMAIN ps = 1 .. Len(procs)
        /\ \A i \in 1 .. Len(procs) : ps[i] \in Process
        /\ \A i \in DOMAIN procs : i # current => ps[i] = procs[i]
    <2>1. ASSUME NEW r \in Process
          PROVE  [r EXCEPT !.state = "READY"] \in Process
      BY DEF Process
    <2>2. \A i \in 1 .. Len(procs) : procs[i] \in Process
      BY <1>1
    <2>3. ps = [i \in 1 .. Len(procs) |->
                  IF i = current THEN [procs[i] EXCEPT !.state = "READY"] ELSE procs[i]]
      BY <1>1
    <2> HIDE DEF ps
    <2> QED BY <1>1, <2>1, <2>2, <2>3
  <1>3. ps \in Seq(Process) /\ Len(ps) = Len(procs)
    BY <1>1, <1>2
  <1> HIDE DEF ps
  <1> QED BY <1>2, <1>3, RunKeepsRound, RunKeepsRest DEF IInv

------------------------------------------------------------------------------
(* Processes come and end. *)

LEMMA BootKeeps ==
  ASSUME NEW created \in Seq(Process), Len(created) <= MaxProcesses,
         \A i \in DOMAIN created : created[i].state = "READY",
         NEW at \in 0 .. Len(created), NEW left \in 0 .. MaxStacks,
         Boots(created, at, left)
  PROVE  IInv'
  <1>1. /\ procs' = created /\ current' = at /\ stacks' = left /\ nextPid' = 3
        /\ waited' = NoWait /\ records' = NoRecords
        /\ approved' = NoneDangerous /\ combined' = NoneDangerous
    BY DEF Boots
  <1>2. DOMAIN records' = {} /\ IsFiniteSet(DOMAIN records') /\ Cardinality(DOMAIN records') = 0
    BY <1>1, FS_EmptySet DEF NoRecords
  <1>3. waited' \in [1 .. MaxProcesses -> Nat]
        /\ approved' \in [Pid -> SUBSET Dangerous] /\ combined' \in [Pid -> SUBSET Dangerous]
    BY <1>1 DEF NoWait, NoneDangerous
  <1>4. MaxRecords \in Nat /\ MaxPid \in Nat /\ MaxPid > 1 /\ MaxProcesses \in Nat
    BY ProcessesAssumption
  <1>5. TypeOK'
    BY <1>1, <1>2, <1>3, <1>4 DEF TypeOK
  <1>6. ASSUME NEW i \in DOMAIN procs'
        PROVE  Passed(i)' \in 0 .. Len(procs') - 1
    <2>1. /\ Len(procs') \in Nat /\ DOMAIN procs' = 1 .. Len(procs')
          /\ current' \in 0 .. Len(procs') /\ i \in 1 .. Len(procs')
      BY <1>1
    <2>2. Start' = IF current' <= 1 THEN Len(procs') ELSE current' - 1
      BY DEF Start
    <2>3. Passed(i)' = IF i <= Start' THEN Start' - i ELSE Start' - i + Len(procs')
      BY DEF Passed
    <2> DEFINE n == Len(procs')
               c == current'
               s == Start'
    <2>4. n \in Nat /\ c \in 0 .. n /\ i \in 1 .. n /\ s = IF c <= 1 THEN n ELSE c - 1
      BY <2>1, <2>2
    <2>5. Passed(i)' = IF i <= s THEN s - i ELSE s - i + n
      BY <2>3
    <2> HIDE DEF n, c, s
    <2>6. Passed(i)' \in 0 .. n - 1
      BY <2>4, <2>5
    <2> QED BY <2>6 DEF n
  <1>7. RoundLeft'
    <2>1. Len(procs') \in Nat /\ DOMAIN procs' = 1 .. Len(procs')
      BY <1>1
    <2>2. \A i \in 1 .. MaxProcesses : waited'[i] = 0
      BY <1>1 DEF NoWait
    <2>3. \A i \in DOMAIN procs' : procs'[i].state = "READY" /\ i \in 1 .. MaxProcesses
      BY <1>1, <1>4, <2>1
    <2> QED BY <1>6, <2>1, <2>2, <2>3 DEF RoundLeft
  <1>8. OneRunning' /\ RecordsTraced'
    BY <1>1, <1>2 DEF OneRunning, RecordsTraced
  <1> QED BY <1>2, <1>5, <1>7, <1>8 DEF IInv

LEMMA NewIsProcess ==
  ASSUME NEW pid \in Pid, NEW perms \in {UserDefault, System}
  PROVE  New(pid, perms) \in Process /\ New(pid, perms).state = "READY"
  BY DEF New, Process

LEMMA SwInitKeeps == TypeOK /\ (SwInit \/ SwInitShort) => IInv'
  <1> SUFFICES ASSUME TypeOK, SwInit \/ SwInitShort PROVE IInv'
    OBVIOUS
  <1>1. 1 \in Pid /\ 2 \in Pid /\ MaxProcesses \in Nat /\ MaxProcesses > 1
    BY ProcessesAssumption DEF Pid
  <1>2. stacks \in 0 .. MaxStacks /\ MaxStacks \in Nat
    BY ProcessesAssumption DEF TypeOK
  <1> DEFINE a == New(1, UserDefault)
             b == New(2, System)
             c == New(1, System)
  <1>3. /\ a \in Process /\ b \in Process /\ c \in Process
        /\ a.state = "READY" /\ b.state = "READY" /\ c.state = "READY"
    BY <1>1, NewIsProcess
  <1> HIDE DEF a, b, c
  <1>4. CASE SwInit
    <2>1. stacks > 1 /\ Boots(<<a, b>>, 2, stacks - 2)
      BY <1>4 DEF SwInit, a, b
    <2>2. /\ <<a, b>> \in Seq(Process) /\ Len(<<a, b>>) = 2
          /\ \A i \in DOMAIN <<a, b>> : <<a, b>>[i].state = "READY"
      BY <1>3
    <2>3. 2 \in 0 .. Len(<<a, b>>) /\ Len(<<a, b>>) <= MaxProcesses /\ stacks - 2 \in 0 .. MaxStacks
      BY <1>1, <1>2, <2>1, <2>2
    <2> QED BY <2>1, <2>2, <2>3, BootKeeps
  <1>5. CASE SwInitShort
    <2>1. \/ Boots(<<c>>, 1, 0)
          \/ Boots(<<a>>, 0, 0)
          \/ Boots(<<>>, 0, 0)
      BY <1>5 DEF SwInitShort, a, c
    <2>2. ASSUME NEW p \in Process, p.state = "READY", NEW at \in {0, 1}, Boots(<<p>>, at, 0)
          PROVE  IInv'
      <3>1. /\ <<p>> \in Seq(Process) /\ Len(<<p>>) = 1
            /\ \A i \in DOMAIN <<p>> : <<p>>[i].state = "READY"
        BY <2>2
      <3>2. at \in 0 .. Len(<<p>>) /\ Len(<<p>>) <= MaxProcesses /\ 0 \in 0 .. MaxStacks
        BY <1>1, <1>2, <3>1
      <3> QED BY <2>2, <3>1, <3>2, BootKeeps
    <2>3. ASSUME Boots(<<>>, 0, 0)
          PROVE  IInv'
      <3>1. /\ <<>> \in Seq(Process) /\ Len(<<>>) = 0 /\ DOMAIN <<>> = {}
        OBVIOUS
      <3>2. 0 \in 0 .. Len(<<>>) /\ Len(<<>>) <= MaxProcesses /\ 0 \in 0 .. MaxStacks
        BY <1>1, <1>2, <3>1
      <3> QED BY <2>3, <3>1, <3>2, BootKeeps
    <2> QED BY <1>3, <2>1, <2>2, <2>3
  <1> QED BY <1>4, <1>5

(* The new process is at the head of the list: the search from the current *)
(* process comes to it after all that are behind, and to those in front a  *)
(* step later.                                                             *)
LEMMA CreateKeeps == IInv /\ Create => IInv'
  <1> SUFFICES ASSUME IInv, Create PROVE IInv'
    OBVIOUS
  <1>1. /\ Len(procs) \in Nat /\ DOMAIN procs = 1 .. Len(procs)
        /\ current \in 0 .. Len(procs) /\ procs \in Seq(Process)
        /\ waited \in [1 .. MaxProcesses -> Nat]
    BY DEF IInv, TypeOK
  <1>2. /\ nextPid \in Pid /\ nextPid' = nextPid + 1 /\ Len(procs) < MaxProcesses
        /\ UNCHANGED <<current, waited, records, approved, combined>>
        /\ MaxProcesses \in Nat /\ MaxPid \in Nat
    BY ProcessesAssumption DEF IInv, TypeOK, Create, Booted, Pid, permissions
  <1>3. CASE stacks = 0
    <2>1. UNCHANGED <<procs, stacks>>
      BY <1>3 DEF Create
    <2>2. TypeOK'
      BY <1>2, <2>1 DEF IInv, TypeOK, Pid
    <2>3. OneRunning' /\ RoundLeft' /\ RecordsTraced'
      BY <1>2, <2>1 DEF IInv, OneRunning, RoundLeft, RecordsTraced, Passed, Start
    <2> QED BY <1>2, <2>2, <2>3 DEF IInv
  <1>4. CASE stacks # 0
    <2> DEFINE new == New(nextPid, UserDefault)
    <2>1. procs' = Append(procs, new) /\ stacks' = stacks - 1
      BY <1>4 DEF Create
    <2>2. new \in Process /\ new.state = "READY"
      BY <1>2, NewIsProcess
    <2> HIDE DEF new
    <2>3. /\ procs' \in Seq(Process) /\ Len(procs') = Len(procs) + 1
          /\ DOMAIN procs' = 1 .. Len(procs) + 1
          /\ \A i \in 1 .. Len(procs) : procs'[i] = procs[i]
          /\ procs'[Len(procs) + 1] = new
      BY <1>1, <2>1, <2>2
    <2>4. TypeOK'
      <3>1. /\ Len(procs') <= MaxProcesses /\ current' \in 0 .. Len(procs')
            /\ nextPid' \in 1 .. MaxPid + 1
        BY <1>1, <1>2, <2>3 DEF Pid
      <3>2. stacks' \in 0 .. MaxStacks
        BY <1>4, <2>1, ProcessesAssumption DEF IInv, TypeOK
      <3> QED BY <1>2, <2>3, <3>1, <3>2 DEF IInv, TypeOK
    <2>5. OneRunning'
      <3> SUFFICES ASSUME NEW i \in DOMAIN procs', procs'[i].state = "RUNNING"
                   PROVE  i = current'
        BY DEF OneRunning
      <3>1. i # Len(procs) + 1
        BY <2>2, <2>3
      <3>2. i \in DOMAIN procs /\ procs'[i] = procs[i]
        BY <1>1, <2>3, <3>1
      <3> QED BY <1>2, <3>2 DEF IInv, OneRunning
    <2>10. RecordsTraced'
      BY <1>2 DEF IInv, RecordsTraced
    <2>6. Start' = IF current <= 1 THEN Len(procs) + 1 ELSE current - 1
      BY <1>2, <2>3 DEF Start
    <2>7. ASSUME NEW i \in DOMAIN procs'
          PROVE  IF procs'[i].state = "READY" THEN waited'[i] + Passed(i)' < Len(procs')
                                              ELSE waited'[i] = 0
      <3>1. Passed(i)' = IF i <= Start' THEN Start' - i ELSE Start' - i + Len(procs) + 1
        BY <1>1, <2>3, <2>6 DEF Passed
      <3>2. CASE i = Len(procs) + 1
        <4>1. i \in 1 .. MaxProcesses /\ i > Len(procs)
          BY <1>1, <1>2, <3>2
        <4>2. waited'[i] = 0
          BY <1>2, <4>1 DEF IInv, RoundLeft
        <4> QED BY <1>1, <2>3, <2>6, <3>1, <3>2, <4>2
      <3>3. CASE i # Len(procs) + 1
        <4>1. i \in DOMAIN procs /\ waited[i] \in Nat
          BY <1>1, <1>2, <2>3, <3>3
        <4>2. IF procs[i].state = "READY" THEN waited[i] + Passed(i) < Len(procs)
                                          ELSE waited[i] = 0
          BY <4>1 DEF IInv, RoundLeft
        <4>3. Passed(i)' <= Passed(i) + 1 /\ Passed(i) \in Int /\ Passed(i)' \in Int
          <5> DEFINE s == Start
                     u == Start'
          <5>1. Passed(i) = IF i <= s THEN s - i ELSE s - i + Len(procs)
            BY DEF Passed
          <5>2. Passed(i)' = IF i <= u THEN u - i ELSE u - i + Len(procs) + 1
            BY <3>1
          <5>3. /\ s = IF current <= 1 THEN Len(procs) ELSE current - 1
                /\ u = IF current <= 1 THEN Len(procs) + 1 ELSE current - 1
                /\ i \in 1 .. Len(procs)
            BY <1>1, <2>6, <4>1 DEF Start
          <5> HIDE DEF s, u
          <5> QED BY <1>1, <5>1, <5>2, <5>3
        <4> QED BY <1>1, <1>2, <2>3, <4>1, <4>2, <4>3
      <3> QED BY <3>2, <3>3
    <2>8. \A i \in 1 .. MaxProcesses : i > Len(procs') => waited'[i] = 0
      BY <1>1, <1>2, <2>3 DEF IInv, RoundLeft
    <2>9. RoundLeft'
      BY <2>7, <2>8 DEF RoundLeft
    <2> QED BY <1>2, <2>4, <2>5, <2>9, <2>10 DEF IInv
  <1> QED BY <1>3, <1>4

LEMMA TerminateKeeps ==
  ASSUME IInv, NEW k \in DOMAIN procs, Terminate(k)
  PROVE  IInv'
  <1>1. /\ Len(procs) \in Nat /\ DOMAIN procs = 1 .. Len(procs) /\ procs \in Seq(Process)
        /\ Len(procs) <= MaxProcesses /\ MaxProcesses \in Nat
        /\ waited \in [1 .. MaxProcesses -> Nat]
        /\ \A i \in 1 .. Len(procs) : procs[i] \in Process
    BY ProcessesAssumption DEF IInv, TypeOK
  <1> DEFINE ended == [procs[k] EXCEPT !.state = "TERMINATED"]
  <1>2. ended \in Process /\ ended.state = "TERMINATED"
    <2>1. ASSUME NEW r \in Process
          PROVE  /\ [r EXCEPT !.state = "TERMINATED"] \in Process
                 /\ [r EXCEPT !.state = "TERMINATED"].state = "TERMINATED"
      BY DEF Process
    <2> QED BY <1>1, <2>1
  <1>3. /\ procs' = [procs EXCEPT ![k] = ended]
        /\ waited' = [waited EXCEPT ![k] = 0]
        /\ UNCHANGED <<current, nextPid, stacks, records, approved, combined>>
    BY DEF Terminate, permissions
  <1> HIDE DEF ended
  <1>4. /\ procs' \in Seq(Process) /\ Len(procs') = Len(procs)
        /\ DOMAIN procs' = 1 .. Len(procs)
        /\ \A i \in 1 .. Len(procs) : procs'[i] = IF i = k THEN ended ELSE procs[i]
        /\ waited' \in [1 .. MaxProcesses -> Nat]
        /\ \A i \in 1 .. MaxProcesses : waited'[i] = IF i = k THEN 0 ELSE waited[i]
    BY <1>1, <1>2, <1>3
  <1>5. TypeOK'
    BY <1>3, <1>4 DEF IInv, TypeOK
  <1>6. OneRunning' /\ RecordsTraced'
    BY <1>1, <1>2, <1>3, <1>4 DEF IInv, OneRunning, RecordsTraced
  <1>7. RoundLeft'
    <2>1. \A i \in DOMAIN procs : Passed(i)' = Passed(i)
      BY <1>3, <1>4 DEF Passed, Start
    <2> QED BY <1>1, <1>2, <1>4, <2>1 DEF IInv, RoundLeft
  <1> QED BY <1>3, <1>5, <1>6, <1>7 DEF IInv

LEMMA HeapUsedKeeps == IInv /\ HeapUsed => IInv'
  <1> SUFFICES ASSUME IInv, HeapUsed PROVE IInv'
    OBVIOUS
  <1>1. /\ stacks' = stacks - 1 /\ stacks > 0 /\ stacks \in 0 .. MaxStacks
        /\ UNCHANGED <<procs, current, nextPid, waited, records, approved, combined>>
        /\ MaxStacks \in Nat
    BY ProcessesAssumption DEF IInv, TypeOK, HeapUsed, permissions
  <1>2. TypeOK'
    BY <1>1 DEF IInv, TypeOK
  <1> QED BY <1>1, <1>2 DEF IInv, OneRunning, RoundLeft, RecordsTraced, Passed, Start

------------------------------------------------------------------------------
(* Permissions. *)

(* A record set for pid leaves the others as they are, and there is room.  *)
LEMMA RecordKept ==
  ASSUME TypeOK, IsFiniteSet(DOMAIN records), NEW pid \in Pid, HasRoomFor(pid),
         NEW granted \in SUBSET Caps, SetRecord(pid, granted)
  PROVE  /\ IsFiniteSet(DOMAIN records') /\ Cardinality(DOMAIN records') <= MaxRecords
         /\ DOMAIN records' = DOMAIN records \cup {pid}
         /\ \A q \in DOMAIN records' :
              records'[q] = IF q = pid THEN granted ELSE records[q]
  <1>1. /\ DOMAIN records' = DOMAIN records \cup {pid}
        /\ \A q \in DOMAIN records' : records'[q] = IF q = pid THEN granted ELSE records[q]
    BY DEF SetRecord
  <1>2. CASE pid \in DOMAIN records
    <2>1. DOMAIN records' = DOMAIN records
      BY <1>1, <1>2
    <2> QED BY <1>1, <2>1 DEF TypeOK
  <1>3. CASE pid \notin DOMAIN records
    <2>1. /\ IsFiniteSet(DOMAIN records \cup {pid})
          /\ Cardinality(DOMAIN records \cup {pid}) = Cardinality(DOMAIN records) + 1
      BY <1>3, FS_AddElement
    <2>2. Cardinality(DOMAIN records) < MaxRecords /\ Cardinality(DOMAIN records) \in Nat
      BY <1>3, FS_CardinalityType DEF HasRoomFor
    <2>3. MaxRecords \in Nat
      BY ProcessesAssumption
    <2> QED BY <1>1, <2>1, <2>2, <2>3
  <1> QED BY <1>2, <1>3

(* It suffices that what the new record has of the dangerous capabilities  *)
(* is accounted for.                                                       *)
LEMMA RecordKeeps ==
  ASSUME IInv, NEW pid \in Pid, HasRoomFor(pid),
         NEW granted \in SUBSET Caps, SetRecord(pid, granted),
         NEW ap \in SUBSET Dangerous, NEW co \in SUBSET Dangerous, Origins(pid, ap, co),
         granted \cap Dangerous \subseteq ap \cup co, UNCHANGED <<table, waited>>
  PROVE  IInv'
  <1>1. /\ IsFiniteSet(DOMAIN records') /\ Cardinality(DOMAIN records') <= MaxRecords
        /\ DOMAIN records' = DOMAIN records \cup {pid}
        /\ \A q \in DOMAIN records' : records'[q] = IF q = pid THEN granted ELSE records[q]
    BY RecordKept DEF IInv
  <1>2. /\ approved' = [approved EXCEPT ![pid] = ap]
        /\ combined' = [combined EXCEPT ![pid] = co]
        /\ approved \in [Pid -> SUBSET Dangerous] /\ combined \in [Pid -> SUBSET Dangerous]
    BY DEF Origins, IInv, TypeOK
  <1>3. /\ approved' \in [Pid -> SUBSET Dangerous]
        /\ approved'[pid] = ap
        /\ \A q \in Pid : q # pid => approved'[q] = approved[q]
    BY <1>2
  <1>4. /\ combined' \in [Pid -> SUBSET Dangerous]
        /\ combined'[pid] = co
        /\ \A q \in Pid : q # pid => combined'[q] = combined[q]
    BY <1>2
  <1>5. UNCHANGED <<procs, current, nextPid, stacks, waited>>
    BY DEF table
  <1>6. TypeOK'
    <2>1. DOMAIN records' \subseteq Pid
      BY <1>1 DEF IInv, TypeOK
    <2>2. \A q \in DOMAIN records' : records'[q] \subseteq Caps
      BY <1>1 DEF IInv, TypeOK
    <2>3. /\ procs' \in Seq(Process) /\ Len(procs') <= MaxProcesses
          /\ current' \in 0 .. Len(procs') /\ nextPid' \in 1 .. MaxPid + 1
          /\ stacks' \in 0 .. MaxStacks /\ waited' \in [1 .. MaxProcesses -> Nat]
      BY <1>5 DEF IInv, TypeOK
    <2>4. Cardinality(DOMAIN records') <= MaxRecords
      BY <1>1
    <2> QED BY <2>1, <2>2, <2>3, <2>4, <1>3, <1>4, Zenon DEF TypeOK
  <1>7. OneRunning' /\ RoundLeft'
    BY <1>5 DEF IInv, OneRunning, RoundLeft, Passed, Start
  <1>8. RecordsTraced'
    <2>1. ASSUME NEW q \in DOMAIN records'
          PROVE  records'[q] \cap Dangerous \subseteq approved'[q] \cup combined'[q]
      <3>1. q \in Pid
        BY <1>1, <2>1 DEF IInv, TypeOK
      <3>2. records'[q] = IF q = pid THEN granted ELSE records[q]
        BY <1>1, <2>1
      <3>3. CASE q = pid
        BY <1>3, <1>4, <3>2, <3>3
      <3>4. CASE q # pid
        <4>1. q \in DOMAIN records
          BY <1>1, <2>1, <3>4
        <4>2. records[q] \cap Dangerous \subseteq approved[q] \cup combined[q]
          BY <4>1 DEF IInv, RecordsTraced
        <4>3. approved'[q] = approved[q] /\ combined'[q] = combined[q]
          BY <1>3, <1>4, <3>1, <3>4
        <4> QED BY <3>2, <3>4, <4>2, <4>3
      <3> QED BY <3>3, <3>4
    <2> QED BY <2>1 DEF RecordsTraced
  <1> QED BY <1>1, <1>6, <1>7, <1>8 DEF IInv

LEMMA PermissionsKeep ==
  ASSUME IInv, NEW pid \in Pid, NEW caps \in SUBSET Caps,
         PermGrant(pid, caps) \/ PermRevoke(pid, caps) \/ PermRequest(pid, caps)
  PROVE  IInv'
  <1> DEFINE before == Recorded(pid)
             ap == approved[pid]
             co == combined[pid]
  <1>1. before \subseteq Caps /\ before \cap Dangerous \subseteq ap \cup co
    BY DEF Recorded, IInv, TypeOK, RecordsTraced
  <1>2. /\ approved \in [Pid -> SUBSET Dangerous] /\ combined \in [Pid -> SUBSET Dangerous]
        /\ ap \in SUBSET Dangerous /\ co \in SUBSET Dangerous
    BY DEF IInv, TypeOK
  <1>3. CASE PermGrant(pid, caps)
    <2>1. /\ HasRoomFor(pid) /\ SetRecord(pid, before \cup caps)
          /\ Origins(pid, ap \cup (caps \cap Dangerous), co \ caps)
          /\ UNCHANGED <<table, waited>>
      BY <1>3 DEF PermGrant
    <2> HIDE DEF before, ap, co
    <2> QED BY <1>1, <1>2, <2>1, RecordKeeps
  <1>4. CASE PermRevoke(pid, caps)
    <2>1. /\ pid \in DOMAIN records /\ SetRecord(pid, records[pid] \ caps)
          /\ Origins(pid, ap \ caps, co \ caps)
          /\ UNCHANGED <<table, waited>>
      BY <1>4 DEF PermRevoke
    <2>2. HasRoomFor(pid) /\ records[pid] = before
      BY <2>1 DEF HasRoomFor, Recorded
    <2> HIDE DEF before, ap, co
    <2> QED BY <1>1, <1>2, <2>1, <2>2, RecordKeeps
  <1>5. CASE ~IsDangerous(caps) /\ GrantRequest(pid, caps)
    <2> DEFINE brought == Brought(pid, caps)
    <2>1. /\ HasRoomFor(pid) /\ SetRecord(pid, before \cup caps)
          /\ Origins(pid, ap, co \cup brought)
          /\ UNCHANGED <<table, waited>>
      BY <1>5 DEF GrantRequest
    <2>2. caps \cap Dangerous \subseteq ap \cup brought
      <3> SUFFICES ASSUME NEW cap \in caps \cap Dangerous
                   PROVE  cap \in ap \cup brought
        OBVIOUS
      <3>1. caps # {cap}
        BY <1>5 DEF IsDangerous
      <3>2. \E c, d \in caps : c # d
        BY <3>1
      <3> QED BY <3>2 DEF Brought
    <2>3. brought \in SUBSET Dangerous
      BY DEF Brought
    <2> HIDE DEF before, ap, co, brought
    <2> QED BY <1>1, <1>2, <2>1, <2>2, <2>3, RecordKeeps
  <1>6. CASE IsDangerous(caps) /\ HasRoomFor(pid) /\ SetRecord(pid, before)
             /\ UNCHANGED <<table, waited, approved, combined>>
    <2>1. Origins(pid, ap, co)
      BY <1>2, <1>6 DEF Origins
    <2> HIDE DEF before, ap, co
    <2> QED BY <1>1, <1>2, <1>6, <2>1, RecordKeeps
  <1> QED BY <1>3, <1>4, <1>5, <1>6 DEF PermRequest

------------------------------------------------------------------------------
(* The invariant. *)

LEMMA InitInv == Init => IInv
  <1> SUFFICES ASSUME Init PROVE IInv
    OBVIOUS
  <1>1. /\ procs = <<>> /\ current = 0 /\ nextPid = 1 /\ stacks = MaxStacks
        /\ waited = NoWait /\ records = NoRecords
        /\ approved = NoneDangerous /\ combined = NoneDangerous
    BY DEF Init
  <1>2. /\ MaxRecords \in Nat /\ MaxPid \in Nat /\ MaxPid > 1
        /\ MaxProcesses \in Nat /\ MaxStacks \in Nat
    BY ProcessesAssumption
  <1>3. /\ procs \in Seq(Process) /\ Len(procs) = 0 /\ DOMAIN procs = {}
    BY <1>1
  <1>4. DOMAIN records = {} /\ IsFiniteSet(DOMAIN records) /\ Cardinality(DOMAIN records) = 0
    BY <1>1, FS_EmptySet DEF NoRecords
  <1>5. waited \in [1 .. MaxProcesses -> Nat]
        /\ approved \in [Pid -> SUBSET Dangerous] /\ combined \in [Pid -> SUBSET Dangerous]
    BY <1>1 DEF NoWait, NoneDangerous
  <1>6. TypeOK
    BY <1>1, <1>2, <1>3, <1>4, <1>5 DEF TypeOK
  <1>7. OneRunning /\ RoundLeft /\ RecordsTraced
    BY <1>1, <1>3, <1>4 DEF OneRunning, RoundLeft, RecordsTraced, NoWait
  <1> QED BY <1>4, <1>6, <1>7 DEF IInv

LEMMA NextInv == IInv /\ [Next]_vars => IInv'
  <1> SUFFICES ASSUME IInv, [Next]_vars PROVE IInv'
    OBVIOUS
  <1>1. CASE SwInit \/ SwInitShort
    BY <1>1, SwInitKeeps DEF IInv
  <1>2. CASE Create
    BY <1>2, CreateKeeps
  <1>3. CASE HeapUsed
    BY <1>3, HeapUsedKeeps
  <1>4. ASSUME NEW pid, Kill(pid)
        PROVE  IInv'
    BY <1>4, TerminateKeeps DEF Kill
  <1>5. CASE Exit
    BY <1>4, <1>5 DEF Exit
  <1>6. CASE Tick
    BY <1>6, TickKeeps
  <1>7. CASE Yield
    BY <1>7, YieldKeeps
  <1>8. ASSUME NEW pid \in Pid, NEW caps \in SUBSET Caps,
               PermGrant(pid, caps) \/ PermRevoke(pid, caps) \/ PermRequest(pid, caps)
        PROVE  IInv'
    BY <1>8, PermissionsKeep
  <1>9. CASE UNCHANGED vars
    <2>1. UNCHANGED <<procs, current, nextPid, stacks, waited, records, approved, combined>>
      BY <1>9 DEF vars, table, permissions
    <2>2. TypeOK'
      BY <2>1 DEF IInv, TypeOK
    <2> QED BY <2>1, <2>2 DEF IInv, OneRunning, RoundLeft, RecordsTraced, Passed, Start
  <1> QED BY <1>1, <1>2, <1>3, <1>4, <1>5, <1>6, <1>7, <1>8, <1>9 DEF Next

LEMMA Invariance == Spec => []IInv
  BY InitInv, NextInv, PTL DEF Spec

(* The table, the permission records and the counters stay in their       *)
(* bounds, whatever is created, killed, granted and refused.               *)
THEOREM TypeCorrect == Spec => []TypeOK
  <1>1. IInv => TypeOK
    BY DEF IInv
  <1> QED BY <1>1, Invariance, PTL

(* Only the process that sw_process_current returns is RUNNING, also after *)
(* it was killed, after a creation, and after a boot with an empty heap.   *)
THEOREM OneRunsAtATime == Spec => []OneRunning
  <1>1. IInv => OneRunning
    BY DEF IInv
  <1> QED BY <1>1, Invariance, PTL

(* Round robin: a READY process is passed over fewer times than there are  *)
(* processes, for every order of ticks, yields, kills and creations.       *)
THEOREM RoundRobinIsFair == Spec => []BoundedWait
  <1>1. IInv => BoundedWait
    <2> SUFFICES ASSUME IInv, NEW i \in DOMAIN procs
                 PROVE  waited[i] < Len(procs)
      BY DEF BoundedWait
    <2>1. Passed(i) \in 0 .. Len(procs) - 1
      BY PassedInRound DEF IInv
    <2>2. /\ Len(procs) \in Nat /\ DOMAIN procs = 1 .. Len(procs)
          /\ Len(procs) <= MaxProcesses /\ MaxProcesses \in Nat
          /\ waited \in [1 .. MaxProcesses -> Nat]
      BY ProcessesAssumption DEF IInv, TypeOK
    <2>3. waited[i] \in Nat
      BY <2>2
    <2> QED BY <2>1, <2>2, <2>3 DEF IInv, RoundLeft
  <1> QED BY <1>1, Invariance, PTL

(* One step, without the wrapper of an action property.                    *)
OthersStayDead == \A i \in DOMAIN procs :
                    /\ procs[i].state = "TERMINATED" /\ i # current
                    /\ ~(SwInit \/ SwInitShort)
                    => procs'[i].state = "TERMINATED"

LEMMA StepKeepsDead == IInv /\ [Next]_vars => OthersStayDead
  <1> SUFFICES ASSUME IInv, [Next]_vars, ~(SwInit \/ SwInitShort),
                      NEW i \in DOMAIN procs, procs[i].state = "TERMINATED", i # current
               PROVE  procs'[i].state = "TERMINATED"
    BY DEF OthersStayDead
  <1>1. /\ procs \in Seq(Process) /\ Len(procs) \in Nat /\ DOMAIN procs = 1 .. Len(procs)
        /\ current \in 0 .. Len(procs)
    BY DEF IInv, TypeOK
  <1>2. CASE UNCHANGED procs
    BY <1>2
  <1>3. CASE Create
    BY <1>1, <1>3 DEF Create
  <1>4. ASSUME NEW k \in DOMAIN procs, Terminate(k)
        PROVE  procs'[i].state = "TERMINATED"
    <2>1. procs'[i] = IF i = k THEN [procs[i] EXCEPT !.state = "TERMINATED"] ELSE procs[i]
      BY <1>1, <1>4 DEF Terminate
    <2>2. procs[i] \in Process
      BY <1>1
    <2> QED BY <2>1, <2>2 DEF Process
  <1>5. ASSUME NEW pid, Kill(pid)
        PROVE  procs'[i].state = "TERMINATED"
    BY <1>4, <1>5 DEF Kill
  <1>6. ASSUME NEW ps, DOMAIN ps = DOMAIN procs, ps[i] = procs[i],
               NEW p \in DOMAIN ps, IsNext(ps, p), Run(ps, p)
        PROVE  procs'[i].state = "TERMINATED"
    <2>1. i # p
      BY <1>6 DEF IsNext, Runnable
    <2> QED BY <1>6, <2>1 DEF Run
  <1>7. CASE Tick
    BY <1>6, <1>7 DEF Tick
  <1>8. CASE Yield
    <2> DEFINE ps == [procs EXCEPT ![current].state = "READY"]
    <2>1. DOMAIN ps = DOMAIN procs /\ ps[i] = procs[i]
      BY <1>1
    <2>2. PICK p \in DOMAIN ps : IsNext(ps, p) /\ Run(ps, p)
      BY <1>8 DEF Yield
    <2> HIDE DEF ps
    <2> QED BY <1>6, <2>1, <2>2
  <1>9. CASE Exit
    BY <1>5, <1>9 DEF Exit
  <1>10. ASSUME HeapUsed \/ (\E pid \in Pid, caps \in SUBSET Caps :
                  PermGrant(pid, caps) \/ PermRevoke(pid, caps) \/ PermRequest(pid, caps))
                \/ UNCHANGED vars
         PROVE  UNCHANGED procs
    BY <1>10 DEF HeapUsed, PermGrant, PermRevoke, PermRequest, GrantRequest, table, vars
  <1> QED BY <1>2, <1>3, <1>5, <1>7, <1>8, <1>9, <1>10 DEF Next

(* Who was terminated while another process was current stays so through   *)
(* every tick, yield, kill and creation, until the kernel boots again.     *)
THEOREM DeadStayDead == Spec => OnlyCurrentRevived
  <1>1. IInv /\ [Next]_vars => [OthersStayDead]_vars
    BY StepKeepsDead
  <1> QED BY <1>1, InitInv, NextInv, PTL DEF Spec, OnlyCurrentRevived, OthersStayDead

(* A dangerous capability that perm_check confirms was granted with        *)
(* perm_grant, came as one of several in a perm_request, or belongs to the *)
(* process that boots: perm_request for it alone never gives it, also not  *)
(* through a record that somebody else's grant created                     *)
(* (permissions.cpp:34-86).                                                *)
THEOREM DangerousIsTraced == Spec => []DangerousTraced
  <1>1. IInv => DangerousTraced
    <2> SUFFICES ASSUME IInv, NEW pid \in Pid, NEW cap \in Dangerous, Holds(pid, cap)
                 PROVE  \/ {cap, Root} \cap (approved[pid] \cup combined[pid]) # {}
                        \/ IsBooting(pid)
      BY DEF DangerousTraced
    <2>1. {cap, Root} \subseteq Dangerous /\ UserDefault \cap Dangerous = {}
      BY ProcessesAssumption
    <2>2. CASE pid \in DOMAIN records
      BY <2>1, <2>2 DEF Holds, IInv, RecordsTraced
    <2>3. CASE pid \notin DOMAIN records
      <3>1. PICK i \in DOMAIN procs : /\ procs[i].pid = pid
                                      /\ {cap, Root} \cap procs[i].permissions # {}
        BY <2>3 DEF Holds
      <3>2. procs[i] \in Process
        BY DEF IInv, TypeOK
      <3>3. procs[i].permissions \in {UserDefault, System}
        BY <3>2 DEF Process
      <3> QED BY <2>1, <2>3, <3>1, <3>3 DEF IsBooting
    <2> QED BY <2>2, <2>3
  <1> QED BY <1>1, Invariance, PTL
==============================================================================
