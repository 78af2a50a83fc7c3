-------------------------- MODULE DualKernel_proofs --------------------------
(***************************************************************************)
(* For every ring size and number of system calls: a boot is all or        *)
(* nothing, and on their way through two rings and three threads requests  *)
(* and replies are not lost before the hardware kernel, not made up and    *)
(* not reordered.                                                          *)
(***************************************************************************)
EXTENDS DualKernel, TLAPS

------------------------------------------------------------------------------
(* What a ring holds. *)

LEMMA RangeOfEmpty == Range(<<>>) = {}
  BY DEF Range

LEMMA RangeOfAppend ==
  ASSUME NEW s \in Seq(Nat), NEW e \in Nat
  PROVE  Range(Append(s, e)) = Range(s) \cup {e}
  <1>1. /\ DOMAIN s = 1 .. Len(s) /\ Len(s) \in Nat
        /\ DOMAIN Append(s, e) = 1 .. Len(s) + 1
        /\ \A i \in 1 .. Len(s) : Append(s, e)[i] = s[i]
        /\ Append(s, e)[Len(s) + 1] = e
    OBVIOUS
  <1> QED BY <1>1 DEF Range

LEMMA RangeOfTail ==
  ASSUME NEW s \in Seq(Nat), s # <<>>
  PROVE  Range(s) = {Head(s)} \cup Range(Tail(s))
  <1>1. /\ DOMAIN s = 1 .. Len(s) /\ Len(s) \in Nat \ {0}
        /\ Tail(s) \in Seq(Nat) /\ DOMAIN Tail(s) = 1 .. Len(s) - 1
        /\ \A i \in 1 .. Len(s) - 1 : Tail(s)[i] = s[i + 1]
        /\ Head(s) = s[1]
    OBVIOUS
  <1>2. ASSUME NEW i \in 1 .. Len(s)
        PROVE  s[i] = Head(s) \/ s[i] \in Range(Tail(s))
    <2>1. CASE i = 1
      BY <1>1, <2>1
    <2>2. CASE i # 1
      <3>1. i - 1 \in 1 .. Len(s) - 1 /\ Tail(s)[i - 1] = s[i]
        BY <1>1, <2>2
      <3> QED BY <1>1, <3>1 DEF Range
    <2> QED BY <2>1, <2>2
  <1>3. ASSUME NEW i \in 1 .. Len(s) - 1
        PROVE  Tail(s)[i] \in Range(s)
    <2>1. i + 1 \in 1 .. Len(s)
      BY <1>1
    <2> QED BY <1>1, <2>1 DEF Range
  <1>4. Head(s) \in Range(s)
    BY <1>1 DEF Range
  <1>5. Range(s) \subseteq {Head(s)} \cup Range(Tail(s))
    BY <1>1, <1>2 DEF Range
  <1>6. Range(Tail(s)) \subseteq Range(s)
    BY <1>1, <1>3 DEF Range
  <1> QED BY <1>4, <1>5, <1>6

(* The order of calls: in a sequence, and between what is at two places.   *)
Ordered(s) == \A i, j \in DOMAIN s : i < j => s[i] < s[j]
Before(S, T) == \A a \in S, b \in T : a < b

LEMMA OrderedAppend ==
  ASSUME NEW s \in Seq(Nat), NEW e \in Nat, Ordered(s), Before(Range(s), {e})
  PROVE  Ordered(Append(s, e))
  <1>1. /\ DOMAIN s = 1 .. Len(s) /\ Len(s) \in Nat
        /\ DOMAIN Append(s, e) = 1 .. Len(s) + 1
        /\ \A i \in 1 .. Len(s) : Append(s, e)[i] = s[i] /\ s[i] \in Range(s)
        /\ Append(s, e)[Len(s) + 1] = e
    BY DEF Range
  <1> QED BY <1>1 DEF Ordered, Before

LEMMA OrderedTail ==
  ASSUME NEW s \in Seq(Nat), s # <<>>, Ordered(s)
  PROVE  Ordered(Tail(s)) /\ Before({Head(s)}, Range(Tail(s)))
  <1>1. /\ DOMAIN s = 1 .. Len(s) /\ Len(s) \in Nat \ {0}
        /\ DOMAIN Tail(s) = 1 .. Len(s) - 1
        /\ \A i \in 1 .. Len(s) - 1 : Tail(s)[i] = s[i + 1]
        /\ Head(s) = s[1]
    OBVIOUS
  <1>2. \A i \in 1 .. Len(s) - 1 : i + 1 \in 1 .. Len(s)
    BY <1>1
  <1>3. Ordered(Tail(s))
    BY <1>1, <1>2 DEF Ordered
  <1>4. \A i \in 1 .. Len(s) - 1 : Head(s) < Tail(s)[i]
    BY <1>1, <1>2 DEF Ordered
  <1>5. \A b \in Range(Tail(s)) : \E i \in 1 .. Len(s) - 1 : b = Tail(s)[i]
    BY <1>1 DEF Range
  <1> QED BY <1>3, <1>4, <1>5 DEF Before

LEMMA OrderedJoin ==
  ASSUME NEW s \in Seq(Nat), NEW t \in Seq(Nat), Ordered(s), Ordered(t),
         Before(Range(s), Range(t))
  PROVE  /\ s \o t \in Seq(Nat) /\ Ordered(s \o t)
         /\ Range(s \o t) = Range(s) \cup Range(t)
  <1>1. /\ Len(s) \in Nat /\ Len(t) \in Nat /\ s \o t \in Seq(Nat)
        /\ DOMAIN s = 1 .. Len(s) /\ DOMAIN t = 1 .. Len(t)
        /\ DOMAIN (s \o t) = 1 .. Len(s) + Len(t)
        /\ \A i \in 1 .. Len(s) : (s \o t)[i] = s[i]
        /\ \A i \in 1 .. Len(s) + Len(t) :
             i > Len(s) => (s \o t)[i] = t[i - Len(s)] /\ i - Len(s) \in 1 .. Len(t)
    OBVIOUS
  <1>2. Ordered(s \o t)
    <2> SUFFICES ASSUME NEW i \in 1 .. Len(s) + Len(t), NEW j \in 1 .. Len(s) + Len(t), i < j
                 PROVE  (s \o t)[i] < (s \o t)[j]
      BY <1>1 DEF Ordered
    <2>1. CASE j <= Len(s)
      <3>1. i \in 1 .. Len(s) /\ j \in 1 .. Len(s)
        BY <1>1, <2>1
      <3>2. (s \o t)[i] = s[i] /\ (s \o t)[j] = s[j]
        BY <1>1, <3>1
      <3>3. s[i] < s[j]
        BY <1>1, <3>1 DEF Ordered
      <3> QED BY <3>2, <3>3
    <2>2. CASE i > Len(s)
      <3>1. /\ (s \o t)[i] = t[i - Len(s)] /\ (s \o t)[j] = t[j - Len(s)]
            /\ i - Len(s) \in DOMAIN t /\ j - Len(s) \in DOMAIN t /\ i - Len(s) < j - Len(s)
        BY <1>1, <2>2
      <3> QED BY <3>1 DEF Ordered
    <2>3. CASE i <= Len(s) /\ j > Len(s)
      <3>1. s[i] \in Range(s) /\ t[j - Len(s)] \in Range(t)
        <4>1. i \in DOMAIN s /\ j - Len(s) \in DOMAIN t
          BY <1>1, <2>3
        <4> QED BY <4>1 DEF Range
      <3>2. (s \o t)[i] = s[i] /\ (s \o t)[j] = t[j - Len(s)]
        BY <1>1, <2>3
      <3> QED BY <3>1, <3>2 DEF Before
    <2> QED BY <1>1, <2>1, <2>2, <2>3
  <1>3. ASSUME NEW i \in 1 .. Len(t)
        PROVE  t[i] \in Range(s \o t)
    <2>1. i + Len(s) \in 1 .. Len(s) + Len(t) /\ (i + Len(s)) - Len(s) = i /\ i + Len(s) > Len(s)
      BY <1>1
    <2>2. (s \o t)[i + Len(s)] = t[i]
      BY <1>1, <2>1
    <2> QED BY <1>1, <2>1, <2>2 DEF Range
  <1>4. Range(s) \subseteq Range(s \o t) /\ Range(t) \subseteq Range(s \o t)
    <2>1. ASSUME NEW i \in 1 .. Len(s)
          PROVE  s[i] \in Range(s \o t)
      <3>1. i \in DOMAIN (s \o t) /\ (s \o t)[i] = s[i]
        BY <1>1
      <3> QED BY <3>1 DEF Range
    <2>2. /\ \A a \in Range(s) : \E i \in 1 .. Len(s) : a = s[i]
          /\ \A a \in Range(t) : \E i \in 1 .. Len(t) : a = t[i]
      BY <1>1 DEF Range
    <2> QED BY <1>3, <2>1, <2>2
  <1>5. Range(s \o t) \subseteq Range(s) \cup Range(t)
    <2> SUFFICES ASSUME NEW i \in 1 .. Len(s) + Len(t)
                 PROVE  (s \o t)[i] \in Range(s) \cup Range(t)
      BY <1>1 DEF Range
    <2>1. CASE i <= Len(s)
      BY <1>1, <2>1 DEF Range
    <2>2. CASE i > Len(s)
      BY <1>1, <2>2 DEF Range
    <2> QED BY <1>1, <2>1, <2>2
  <1> QED BY <1>1, <1>2, <1>4, <1>5

------------------------------------------------------------------------------
(* The invariant. *)

(* What is up when main comes to a step of the boot. *)
UpAt == [ipc    |-> {},
         mm     |-> {"ipc"},
         irq    |-> {"ipc", "mm"},
         driver |-> {"ipc", "mm", "irq"},
         hw     |-> {"ipc", "mm", "irq", "driver"},
         proc   |-> {"ipc", "mm", "irq", "driver", "hw"},
         init   |-> {"ipc", "mm", "irq", "driver", "hw", "proc"},
         sw     |-> {"ipc", "mm", "irq", "driver", "hw", "proc", "init"}]

(* A boot goes through its steps with nobody else about and nothing sent,  *)
(* and the system is RUNNING only from its end to the shutdown.            *)
BootPhase ==
    /\ main \in BootStep =>
         /\ up = UpAt[main] /\ (rings <=> "ipc" \in up)
         /\ main = "ipc" => state = "UNINITIALIZED"
         /\ hw = "none" /\ sw = "none" /\ hwMsg = None /\ swMsg = None
         /\ issued = 0 /\ counting = None /\ accepted = {} /\ served = {} /\ answered = {}
         /\ toHw = <<>> /\ toSw = <<>>
    /\ main = "ready" => hw = "none"
    /\ main \in {"ready", "spawning"} => sw = "none"
    /\ main \in {"ready", "spawning", "live"} => up = BootStep /\ rings
    /\ state = "RUNNING" => main \in {"ready", "spawning", "live"}

(* A loop holds a message exactly while it works on one. *)
Holding == /\ hwMsg # None <=> hw \in {"handle", "send", "push"}
           /\ swMsg # None <=> sw = "handle"

(* Where a message is tells what has happened to its call. *)
Known == /\ Sent \subseteq 1 .. issued
         /\ Range(toHw) \cup Hand(hwMsg) \subseteq Sent
         /\ served \subseteq Sent /\ answered \subseteq served
         /\ Range(toSw) \cup Hand(swMsg) \subseteq served
         /\ hw \in {"send", "push"} => hwMsg \in served

(* InOrder, place by place. *)
Sorted ==
    /\ Ordered(toSw) /\ Ordered(toHw)
    /\ Before(answered, Hand(swMsg) \cup Range(toSw) \cup Hand(hwMsg) \cup Range(toHw))
    /\ Before(Hand(swMsg), Range(toSw) \cup Hand(hwMsg) \cup Range(toHw))
    /\ Before(Range(toSw), Hand(hwMsg) \cup Range(toHw))
    /\ Before(Hand(hwMsg), Range(toHw))

IInv == TypeOK /\ BootPhase /\ Holding /\ Known /\ RequestsKept /\ Sorted

(* Most steps move no message: they leave what is said about messages.     *)
LEMMA NoMessageMoves ==
  ASSUME IInv, UNCHANGED <<toHw, toSw, hwMsg, swMsg, issued, counting, accepted, served, answered>>,
         hw' \in {"send", "push"} => hw \in {"send", "push"},
         hw' = "handle" <=> hw = "handle",
         "hw" \in up' => "hw" \in up
  PROVE  Known' /\ RequestsKept' /\ Sorted'
  <1>1. Known'
    BY DEF IInv, Known, Sent, Hand
  <1>2. RequestsKept'
    BY DEF IInv, RequestsKept, Sent
  <1>3. Sorted'
    BY DEF IInv, Sorted, Hand, Ordered
  <1> QED BY <1>1, <1>2, <1>3

LEMMA Steps ==
  /\ BootStep = {"ipc", "mm", "irq", "driver", "hw", "proc", "init", "sw"}
  /\ After("ipc") = "mm" /\ After("mm") = "irq" /\ After("irq") = "driver"
  /\ After("driver") = "hw" /\ After("hw") = "proc" /\ After("proc") = "init"
  /\ After("init") = "sw" /\ After("sw") = "ready"
  <1>1. /\ DOMAIN BootOrder = 1 .. 8 /\ Len(BootOrder) = 8
        /\ BootOrder[1] = "ipc" /\ BootOrder[2] = "mm" /\ BootOrder[3] = "irq"
        /\ BootOrder[4] = "driver" /\ BootOrder[5] = "hw" /\ BootOrder[6] = "proc"
        /\ BootOrder[7] = "init" /\ BootOrder[8] = "sw"
    BY DEF BootOrder
  <1>2. 1 .. 8 = {1, 2, 3, 4, 5, 6, 7, 8}
    OBVIOUS
  <1>3. BootStep = {"ipc", "mm", "irq", "driver", "hw", "proc", "init", "sw"}
    BY <1>1, <1>2 DEF BootStep, Range
  <1>4. ASSUME NEW n \in 1 .. 8
        PROVE  After(BootOrder[n]) = IF n = 8 THEN "ready" ELSE BootOrder[n + 1]
    <2>1. \A i \in 1 .. 8 : BootOrder[i] = BootOrder[n] => i = n
      BY <1>1, <1>2
    <2>2. (CHOOSE i \in DOMAIN BootOrder : BootOrder[i] = BootOrder[n]) = n
      BY <1>1, <2>1
    <2> QED BY <1>1, <2>2 DEF After
  <1> QED BY <1>1, <1>2, <1>3, <1>4

LEMMA InitInv == Init => IInv
  <1> SUFFICES ASSUME Init PROVE IInv
    OBVIOUS
  <1>1. TypeOK
    <2>1. <<>> \in Seq(Call) /\ Len(<<>>) = 0
      OBVIOUS
    <2>2. main \in MainStep /\ hw \in LoopStep /\ sw \in LoopStep
      BY Steps DEF Init, MainStep, LoopStep
    <2>3. 0 <= RingBound /\ 0 \in 0 .. MaxCalls
      BY RingBoundAssumption, MaxCallsAssumption
    <2> QED BY <2>1, <2>2, <2>3 DEF Init, TypeOK
  <1>2. BootPhase
    BY Steps DEF Init, BootPhase, UpAt
  <1>3. Holding
    BY DEF Init, Holding
  <1>4. Known /\ RequestsKept /\ Sorted
    BY RangeOfEmpty DEF Init, Known, RequestsKept, Sorted, Sent, Hand, Ordered, Before, None
  <1> QED BY <1>1, <1>2, <1>3, <1>4 DEF IInv

------------------------------------------------------------------------------
(* The main thread. *)

(* While main boots there are no messages.                                 *)
LEMMA NothingSent ==
  ASSUME IInv, main \in BootStep,
         UNCHANGED <<hwRunning, swRunning, hwVars, swVars, calls>>,
         toHw' = <<>>, toSw' = <<>>
  PROVE  /\ Holding' /\ Known' /\ RequestsKept' /\ Sorted'
         /\ hw' = "none" /\ sw' = "none" /\ hwMsg' = None /\ swMsg' = None
         /\ issued' = 0 /\ counting' = None /\ accepted' = {} /\ served' = {} /\ answered' = {}
  <1>1. /\ hw' = "none" /\ sw' = "none" /\ hwMsg' = None /\ swMsg' = None
        /\ issued' = 0 /\ counting' = None /\ accepted' = {} /\ served' = {} /\ answered' = {}
    BY DEF IInv, BootPhase, hwVars, swVars, calls
  <1>2. Range(toHw') = {} /\ Range(toSw') = {}
    BY RangeOfEmpty
  <1>3. Holding'
    BY <1>1 DEF Holding
  <1>4. Known' /\ RequestsKept'
    BY <1>1, <1>2 DEF Known, Sent, RequestsKept, Hand
  <1>5. Sorted'
    BY <1>1, <1>2 DEF Sorted, Hand, Ordered, Before
  <1> QED BY <1>1, <1>3, <1>4, <1>5

LEMMA BootTypes ==
  ASSUME IInv, UNCHANGED <<hwRunning, swRunning, hwVars, swVars, calls>>,
         toHw' = <<>>, toSw' = <<>>,
         state' \in {"UNINITIALIZED", "HW_INIT", "SW_INIT", "RUNNING", "SHUTDOWN"},
         up' \in SUBSET BootStep, rings' \in BOOLEAN, main' \in MainStep
  PROVE  TypeOK'
  <1>1. <<>> \in Seq(Call) /\ Len(<<>>) = 0 /\ 0 <= RingBound
    BY RingBoundAssumption
  <1> QED BY <1>1 DEF IInv, TypeOK, hwVars, swVars, calls

LEMMA BootKeeps ==
  ASSUME IInv, NEW x \in BootStep, Boot(x)
  PROVE  IInv'
  <1>1. /\ main = x /\ main \in BootStep /\ up = UpAt[x] /\ (rings <=> "ipc" \in up)
        /\ toHw' = <<>> /\ toSw' = <<>>
        /\ UNCHANGED <<hwRunning, swRunning, hwVars, swVars, calls>>
    BY DEF IInv, BootPhase, Boot
  <1>2. /\ up' = UpAt[x] \cup {x} /\ main' = After(x) /\ state' = StateAfter(x)
        /\ rings' = IF x = "ipc" THEN TRUE ELSE rings
    BY <1>1 DEF Boot
  <1>3. /\ Holding' /\ Known' /\ RequestsKept' /\ Sorted'
        /\ hw' = "none" /\ sw' = "none" /\ hwMsg' = None /\ swMsg' = None
        /\ issued' = 0 /\ counting' = None /\ accepted' = {} /\ served' = {} /\ answered' = {}
    BY <1>1, NothingSent
  <1>4. /\ state' \in {"UNINITIALIZED", "HW_INIT", "SW_INIT", "RUNNING", "SHUTDOWN"}
        /\ state' = "RUNNING" <=> x = "sw"
    <2>1. state # "RUNNING"
      BY <1>1, Steps DEF IInv, BootPhase
    <2> QED BY <1>2, <2>1, Steps DEF StateAfter, IInv, TypeOK
  <1>5. main' \in MainStep /\ up' \in SUBSET BootStep /\ rings' \in BOOLEAN
    BY <1>1, <1>2, Steps DEF MainStep, UpAt, IInv, TypeOK
  <1>6. TypeOK'
    BY <1>1, <1>4, <1>5, BootTypes
  <1>7. BootPhase'
    <2>1. /\ main' \in BootStep => up' = UpAt[main'] /\ (rings' <=> "ipc" \in up') /\ main' # "ipc"
          /\ main' \in {"ready", "spawning", "live"} => up' = BootStep /\ rings'
          /\ x = "sw" => main' = "ready"
      BY <1>1, <1>2, Steps DEF UpAt
    <2> QED BY <1>1, <1>3, <1>4, <2>1 DEF BootPhase
  <1> QED BY <1>3, <1>6, <1>7 DEF IInv

LEMMA BootFailsKeeps ==
  ASSUME IInv, NEW x \in BootStep, BootFails(x)
  PROVE  IInv'
  <1>1. /\ main = x /\ main \in BootStep /\ up = UpAt[x] /\ (rings <=> "ipc" \in up)
        /\ UNCHANGED <<hwRunning, swRunning, toHw, toSw, hwVars, swVars, calls>>
        /\ toHw' = <<>> /\ toSw' = <<>>
        /\ state' = "UNINITIALIZED" /\ main' = "ipc"
        /\ up' = up \ Undo(x) /\ rings' = (rings /\ "ipc" \notin Undo(x))
    BY DEF IInv, BootPhase, BootFails
  <1>2. x \in {"mm", "init"}
    BY <1>1, Steps DEF BootFails, AlreadyUp, UpAt
  <1>3. up' = {} /\ rings' = FALSE
    <2>1. CASE x = "mm"
      <3>1. UpAt[x] = {"ipc"} /\ Undo(x) = {"ipc"}
        BY <2>1 DEF UpAt, Undo
      <3> QED BY <1>1, <3>1
    <2>2. CASE x = "init"
      <3>1. /\ UpAt[x] = {"ipc", "mm", "irq", "driver", "hw", "proc"}
            /\ Undo(x) = {"proc", "init", "ipc"} \cup HwSubsystems
        BY <2>2 DEF UpAt, Undo
      <3> QED BY <1>1, <3>1 DEF HwSubsystems
    <2> QED BY <1>2, <2>1, <2>2
  <1>4. /\ Holding' /\ Known' /\ RequestsKept' /\ Sorted'
        /\ hw' = "none" /\ sw' = "none" /\ hwMsg' = None /\ swMsg' = None
        /\ issued' = 0 /\ counting' = None /\ accepted' = {} /\ served' = {} /\ answered' = {}
    BY <1>1, NothingSent
  <1>5. TypeOK'
    <2>1. main' \in MainStep
      BY <1>1, Steps DEF MainStep
    <2> QED BY <1>1, <1>3, <2>1, BootTypes
  <1>6. BootPhase'
    BY <1>1, <1>3, <1>4, Steps DEF BootPhase, UpAt
  <1> QED BY <1>4, <1>5, <1>6 DEF IInv

(* The steps of main after the boot move no message and take down only.    *)
LEMMA MainMoves ==
  ASSUME IInv, UNCHANGED <<toHw, toSw, hwMsg, served, swMsg, answered, calls>>,
         hw' = hw \/ (hw \notin {"handle", "send", "push"} /\ hw' = "start"),
         sw' = sw \/ (sw # "handle" /\ sw' = "start"),
         up' \subseteq up, rings' \in BOOLEAN, hwRunning' \in BOOLEAN, swRunning' \in BOOLEAN,
         main' \in MainStep \ BootStep, main' # "ready",
         main' = "spawning" => sw' = "none",
         state' \in {state, "SHUTDOWN", "UNINITIALIZED"},
         main' \in {"ready", "spawning", "live"} => up' = BootStep /\ rings',
         state' = "RUNNING" => main' \in {"ready", "spawning", "live"}
  PROVE  IInv'
  <1>1. UNCHANGED <<toHw, toSw, hwMsg, swMsg, issued, counting, accepted, served, answered>>
    BY DEF calls
  <1>2. TypeOK'
    BY <1>1 DEF IInv, TypeOK, LoopStep
  <1>3. BootPhase'
    BY DEF BootPhase
  <1>4. Holding'
    BY <1>1 DEF IInv, Holding
  <1>5. Known' /\ RequestsKept' /\ Sorted'
    <2>1. /\ hw' \in {"send", "push"} => hw \in {"send", "push"}
          /\ hw' = "handle" <=> hw = "handle"
          /\ "hw" \in up' => "hw" \in up
      OBVIOUS
    <2> QED BY <1>1, <2>1, NoMessageMoves
  <1> QED BY <1>2, <1>3, <1>4, <1>5 DEF IInv

LEMMA StartsKeep ==
  ASSUME IInv, StartHw \/ StartSw
  PROVE  IInv'
  <1>1. /\ UNCHANGED <<toHw, toSw, hwMsg, served, swMsg, answered, calls>>
        /\ UNCHANGED <<state, up, rings, hwRunning, swRunning>>
    BY DEF StartHw, StartSw, flags, hwVars, swVars
  <1>2. main \in {"ready", "spawning"} /\ sw = "none" /\ up = BootStep /\ rings
    BY DEF IInv, BootPhase, StartHw, StartSw
  <1>3. CASE StartHw
    <2>1. hw = "none" /\ hw' = "start" /\ sw' = sw /\ main' = "spawning"
      BY <1>3 DEF IInv, BootPhase, StartHw, swVars
    <2>2. main' \in MainStep \ BootStep
      BY <2>1, Steps DEF MainStep
    <2> QED BY <1>1, <1>2, <2>1, <2>2, MainMoves DEF IInv, TypeOK
  <1>4. CASE StartSw
    <2>1. hw' = hw /\ sw' = "start" /\ main' = "live"
      BY <1>4 DEF StartSw, hwVars
    <2>2. main' \in MainStep \ BootStep
      BY <2>1, Steps DEF MainStep
    <2> QED BY <1>1, <1>2, <2>1, <2>2, MainMoves DEF IInv, TypeOK
  <1> QED BY <1>3, <1>4

LEMMA ShutdownKeeps ==
  ASSUME IInv, Shutdown \/ ShutdownNext
  PROVE  IInv'
  <1> USE DEF ShutdownNext, Goto
  <1>1. UNCHANGED <<toHw, toSw, hw, hwMsg, served, sw, swMsg, answered, calls>>
    BY DEF Shutdown, StopSw, DownSw, StopHw, DownHw, CloseIpc, ClearIpc, Closed,
           JoinHw, JoinSw, Unchanged, hwVars, swVars
  <1>2. main' \in {"stop_sw", "down_sw", "stop_hw", "down_hw", "close_ipc", "clear_ipc",
                   "closed", "join_hw", "join_sw", "end"}
    BY DEF Shutdown, StopSw, DownSw, StopHw, DownHw, CloseIpc, ClearIpc, Closed, JoinHw, JoinSw
  <1>3. main' \in MainStep \ BootStep
    BY <1>2, Steps DEF MainStep
  <1>4. up' \subseteq up
    BY DEF Shutdown, StopSw, DownSw, StopHw, DownHw, CloseIpc, ClearIpc, Closed,
           JoinHw, JoinSw, flags
  <1>5. rings' \in BOOLEAN /\ hwRunning' \in BOOLEAN /\ swRunning' \in BOOLEAN
    BY DEF Shutdown, StopSw, DownSw, StopHw, DownHw, CloseIpc, ClearIpc, Closed,
           JoinHw, JoinSw, flags, IInv, TypeOK
  <1>6. state' \in {state, "SHUTDOWN", "UNINITIALIZED"} /\ state' # "RUNNING"
    <2>1. CASE Shutdown
      BY <2>1 DEF Shutdown
    <2>2. CASE ShutdownNext
      <3>1. state # "RUNNING"
        BY <2>2 DEF IInv, BootPhase, StopSw, DownSw, StopHw, DownHw, CloseIpc, ClearIpc,
                    Closed, JoinHw, JoinSw
      <3> QED BY <2>2, <3>1 DEF StopSw, DownSw, StopHw, DownHw, CloseIpc, ClearIpc,
                                Closed, JoinHw, JoinSw, flags
    <2> QED BY <2>1, <2>2
  <1> QED BY <1>1, <1>2, <1>3, <1>4, <1>5, <1>6, MainMoves

(* A new request is the newest message.                                    *)
LEMMA SyscallKeeps ==
  ASSUME IInv, Syscall
  PROVE  IInv'
  <1> DEFINE c == issued + 1
  <1>1. /\ main \in {"ready", "live"} /\ issued < MaxCalls /\ issued' = c
        /\ counting = None /\ Sent = accepted
        /\ UNCHANGED <<state, up, rings, hwRunning, swRunning, toSw, main,
                       hw, hwMsg, served, sw, swMsg, answered, accepted>>
    BY DEF Syscall, flags, hwVars, swVars, Sent, Hand
  <1>2. /\ issued \in Nat /\ MaxCalls \in Nat /\ c \in Call /\ c \in Nat /\ c # None
        /\ toHw \in Seq(Call) /\ toHw \in Seq(Nat) /\ Call \subseteq Nat
        /\ toSw \in Seq(Call) /\ toSw \in Seq(Nat)
    BY <1>1, MaxCallsAssumption DEF IInv, TypeOK, Call, None
  <1>3. BootPhase' /\ Holding'
    BY <1>1, Steps DEF IInv, BootPhase, Holding
  <1>4. CASE "ipc" \in up /\ Len(toHw) < RingBound
    <2>1. toHw' = Append(toHw, c) /\ counting' = c
      BY <1>4 DEF Syscall
    <2>2. Range(toHw') = Range(toHw) \cup {c} /\ Sent' = Sent \cup {c}
      <3>1. Sent' = accepted' \cup {c}
        BY <1>2, <2>1 DEF Sent, Hand
      <3> QED BY <1>1, <1>2, <2>1, <3>1, RangeOfAppend
    <2>3. TypeOK'
      <3>1. toHw' \in Seq(Call) /\ Len(toHw') <= RingBound
        BY <1>2, <1>4, <2>1, RingBoundAssumption
      <3>2. c \in 0 .. MaxCalls /\ counting' \in Call
        BY <1>1, <1>2, <2>1
      <3> QED BY <1>1, <3>1, <3>2 DEF IInv, TypeOK
    <2>4. \A m \in Sent : m \in Nat /\ m < c
      BY <1>2 DEF IInv, Known
    <2>5. Known'
      <3>1. Sent' \subseteq 1 .. issued'
        BY <1>1, <1>2, <2>2 DEF IInv, Known
      <3> QED BY <1>1, <2>2, <3>1 DEF IInv, Known, Hand
    <2>6. RequestsKept'
      <3>1. c \notin served
        BY <1>2, <2>4 DEF IInv, Known
      <3> QED BY <1>1, <2>2, <3>1 DEF IInv, RequestsKept
    <2>7. Sorted'
      <3>1. /\ \A m \in answered \cup Hand(swMsg) \cup Range(toSw) \cup Hand(hwMsg) \cup Range(toHw) :
                 m \in Sent
        BY DEF IInv, Known
      <3>2. Ordered(toHw')
        <4>1. Before(Range(toHw), {c})
          BY <2>4, <3>1 DEF Before
        <4> QED BY <1>2, <2>1, <4>1, OrderedAppend DEF IInv, Sorted
      <3>3. /\ Ordered(toSw')
            /\ Hand(swMsg)' = Hand(swMsg) /\ Hand(hwMsg)' = Hand(hwMsg)
            /\ Range(toSw') = Range(toSw) /\ answered' = answered
        BY <1>1 DEF IInv, Sorted, Hand, Ordered
      <3> QED BY <2>2, <2>4, <3>1, <3>2, <3>3 DEF IInv, Sorted, Before
    <2> QED BY <1>3, <2>3, <2>5, <2>6, <2>7 DEF IInv
  <1>5. CASE ~("ipc" \in up /\ Len(toHw) < RingBound)
    <2>1. UNCHANGED <<toHw, counting>> /\ Sent' = Sent
      BY <1>1, <1>5 DEF Syscall, Sent, Hand
    <2>2. TypeOK'
      BY <1>1, <1>2, <2>1 DEF IInv, TypeOK
    <2>3. Known'
      <3>1. Sent' \subseteq 1 .. issued'
        BY <1>1, <1>2, <2>1 DEF IInv, Known
      <3> QED BY <1>1, <2>1, <3>1 DEF IInv, Known, Hand
    <2>4. RequestsKept'
      BY <1>1, <2>1 DEF IInv, RequestsKept
    <2>5. Sorted'
      BY <1>1, <2>1 DEF IInv, Sorted, Hand, Ordered
    <2> QED BY <1>3, <2>2, <2>3, <2>4, <2>5 DEF IInv
  <1> QED BY <1>4, <1>5

(* Counting a call takes it from main's hand: what was sent is the same.   *)
LEMMA SyscallCountedKeeps ==
  ASSUME IInv, SyscallCounted
  PROVE  IInv'
  <1>1. /\ counting # None /\ counting' = None /\ accepted' = accepted \cup {counting}
        /\ UNCHANGED <<state, up, rings, hwRunning, swRunning, toHw, toSw, main,
                       hw, hwMsg, served, sw, swMsg, answered, issued>>
    BY DEF SyscallCounted, flags, hwVars, swVars
  <1>2. Sent' = Sent
    BY <1>1 DEF Sent, Hand
  <1>3. TypeOK'
    BY <1>1 DEF IInv, TypeOK
  <1>4. BootPhase' /\ Holding'
    BY <1>1 DEF IInv, BootPhase, Holding
  <1>5. Known' /\ RequestsKept'
    BY <1>1, <1>2 DEF IInv, Known, RequestsKept, Hand
  <1>6. Sorted'
    BY <1>1 DEF IInv, Sorted, Hand, Ordered
  <1> QED BY <1>3, <1>4, <1>5, <1>6 DEF IInv

------------------------------------------------------------------------------
(* The hardware kernel's loop. *)

LEMMA HwMoves ==
  ASSUME IInv, HwStart \/ HwEnter \/ HwLoop \/ HwRecv \/ HwTimeout
  PROVE  IInv'
  <1>1. /\ hw \notin {"none", "handle", "send", "push"}
        /\ hw' \in LoopStep \ {"none", "handle", "send", "push"}
        /\ hwRunning' \in BOOLEAN
        /\ UNCHANGED <<state, up, rings, swRunning, main, toHw, toSw, hwMsg, served,
                       sw, swMsg, answered, issued, counting, accepted>>
    BY DEF HwStart, HwEnter, HwLoop, HwRecv, HwTimeout, HwAt, HwOnly, swVars, calls, LoopStep,
           IInv, TypeOK
  <1>2. TypeOK'
    BY <1>1 DEF IInv, TypeOK
  <1>3. BootPhase' /\ Holding'
    BY <1>1 DEF IInv, BootPhase, Holding
  <1>4. Known' /\ RequestsKept' /\ Sorted'
    BY <1>1, NoMessageMoves
  <1> QED BY <1>2, <1>3, <1>4 DEF IInv

(* The oldest request is taken.                                            *)
LEMMA HwPopKeeps ==
  ASSUME IInv, HwPop
  PROVE  IInv'
  <1>1. /\ hw = "poll" /\ hw' = "handle" /\ toHw # <<>>
        /\ hwMsg' = Head(toHw) /\ toHw' = Tail(toHw)
        /\ UNCHANGED <<state, up, rings, hwRunning, swRunning, main, toSw, served,
                       sw, swMsg, answered, issued, counting, accepted>>
    BY DEF HwPop, HwAt, HwOnly, swVars, calls
  <1>2. /\ toHw \in Seq(Call) /\ toHw \in Seq(Nat) /\ Call \subseteq Nat /\ None \notin Call
    BY MaxCallsAssumption DEF IInv, TypeOK, Call, None
  <1>3. /\ hwMsg' \in Call /\ hwMsg' # None
        /\ toHw' \in Seq(Call) /\ Len(toHw') <= RingBound
    BY <1>1, <1>2, RingBoundAssumption DEF IInv, TypeOK
  <1>4. hwMsg = None /\ Hand(hwMsg) = {} /\ Hand(hwMsg)' = {hwMsg'}
    BY <1>1, <1>3 DEF IInv, Holding, Hand
  <1>5. Range(toHw) = {hwMsg'} \cup Range(toHw')
    BY <1>1, <1>2, RangeOfTail
  <1>6. Ordered(toHw') /\ Before({hwMsg'}, Range(toHw'))
    BY <1>1, <1>2, OrderedTail DEF IInv, Sorted
  <1>7. TypeOK'
    BY <1>1, <1>3 DEF IInv, TypeOK, LoopStep
  <1>8. BootPhase' /\ Holding'
    BY <1>1, <1>3 DEF IInv, BootPhase, Holding
  <1>9. Known'
    BY <1>1, <1>4, <1>5 DEF IInv, Known, Sent, Hand
  <1>10. RequestsKept'
    BY <1>1, <1>5 DEF IInv, RequestsKept, Sent
  <1>11. Sorted'
    <2>1. /\ Ordered(toSw') /\ Hand(swMsg)' = Hand(swMsg)
          /\ Range(toSw') = Range(toSw) /\ answered' = answered
      BY <1>1 DEF IInv, Sorted, Hand, Ordered
    <2> QED BY <1>4, <1>5, <1>6, <2>1 DEF IInv, Sorted, Before
  <1> QED BY <1>7, <1>8, <1>9, <1>10, <1>11 DEF IInv

(* The request in hand is counted, or dropped by a kernel that is down.    *)
LEMMA HwHandleKeeps ==
  ASSUME IInv, HwHandle
  PROVE  IInv'
  <1>1. /\ hw = "handle" /\ hwMsg # None /\ Hand(hwMsg) = {hwMsg}
        /\ UNCHANGED <<state, up, rings, hwRunning, swRunning, main, toHw, toSw,
                       sw, swMsg, answered, issued, counting, accepted>>
    BY DEF HwHandle, HwAt, HwOnly, swVars, calls, IInv, Holding, Hand
  <1>2. hwMsg \in Call /\ None = 0
    BY <1>1 DEF IInv, TypeOK, None
  <1>3. CASE "hw" \in up
    <2>1. hw' = "send" /\ hwMsg' = hwMsg /\ served' = served \cup {hwMsg}
      BY <1>3 DEF HwHandle, HwAt
    <2>2. TypeOK'
      BY <1>1, <1>2, <2>1 DEF IInv, TypeOK, LoopStep
    <2>3. BootPhase' /\ Holding'
      BY <1>1, <2>1 DEF IInv, BootPhase, Holding
    <2>4. Known'
      BY <1>1, <2>1 DEF IInv, Known, Sent, Hand
    <2>5. RequestsKept'
      <3>1. hwMsg \notin Range(toHw)
        <4>1. Before({hwMsg}, Range(toHw)) /\ hwMsg \in Nat
          BY <1>1, <1>2 DEF IInv, Sorted, Call
        <4> QED BY <4>1 DEF Before
      <3> QED BY <1>1, <1>3, <2>1, <3>1 DEF IInv, RequestsKept, Sent
    <2>6. Sorted'
      BY <1>1, <2>1 DEF IInv, Sorted, Hand, Ordered
    <2> QED BY <2>2, <2>3, <2>4, <2>5, <2>6 DEF IInv
  <1>4. CASE "hw" \notin up
    <2>1. hw' = "loop" /\ hwMsg' = None /\ served' = served
      BY <1>4 DEF HwHandle, HwAt
    <2>2. TypeOK'
      BY <1>1, <2>1 DEF IInv, TypeOK, LoopStep
    <2>3. BootPhase' /\ Holding'
      BY <1>1, <2>1 DEF IInv, BootPhase, Holding
    <2>4. Known' /\ RequestsKept'
      BY <1>1, <1>4, <2>1 DEF IInv, Known, Sent, RequestsKept, Hand
    <2>5. Sorted'
      BY <1>1, <2>1 DEF IInv, Sorted, Hand, Ordered, Before
    <2> QED BY <2>2, <2>3, <2>4, <2>5 DEF IInv
  <1> QED BY <1>3, <1>4

(* The reply goes on to the push, or is dropped.                           *)
LEMMA HwSendKeeps ==
  ASSUME IInv, HwSend
  PROVE  IInv'
  <1>1. /\ hw = "send" /\ hwMsg # None
        /\ UNCHANGED <<state, up, rings, hwRunning, swRunning, main, toHw, toSw, served,
                       sw, swMsg, answered, issued, counting, accepted>>
    BY DEF HwSend, HwAt, HwOnly, swVars, calls, IInv, Holding
  <1>2. \/ hw' = "push" /\ hwMsg' = hwMsg
        \/ hw' = "loop" /\ hwMsg' = None
    BY DEF HwSend, HwAt
  <1>3. TypeOK'
    BY <1>1, <1>2 DEF IInv, TypeOK, LoopStep
  <1>4. BootPhase' /\ Holding'
    BY <1>1, <1>2 DEF IInv, BootPhase, Holding
  <1>5. Known' /\ RequestsKept'
    BY <1>1, <1>2 DEF IInv, Known, Sent, RequestsKept, Hand
  <1>6. Sorted'
    BY <1>1, <1>2 DEF IInv, Sorted, Hand, Ordered, Before
  <1> QED BY <1>3, <1>4, <1>5, <1>6 DEF IInv

(* The reply becomes the newest one in its ring, or is dropped.            *)
LEMMA HwPushKeeps ==
  ASSUME IInv, HwPush
  PROVE  IInv'
  <1>1. /\ hw = "push" /\ hw' = "loop" /\ hwMsg # None /\ hwMsg' = None
        /\ Hand(hwMsg) = {hwMsg} /\ Hand(hwMsg)' = {}
        /\ UNCHANGED <<state, up, rings, hwRunning, swRunning, main, toHw, served,
                       sw, swMsg, answered, issued, counting, accepted>>
    BY DEF HwPush, HwAt, HwOnly, swVars, calls, IInv, Holding, Hand
  <1>2. /\ hwMsg \in Call /\ Call \subseteq Nat /\ toSw \in Seq(Call) /\ toSw \in Seq(Nat)
        /\ Len(toSw) \in Nat /\ RingBound \in Nat
    BY <1>1, MaxCallsAssumption, RingBoundAssumption DEF IInv, TypeOK, Call, None
  <1>3. /\ toSw' \in Seq(Call) /\ Len(toSw') <= RingBound
        /\ Ordered(toSw') /\ Range(toSw') \subseteq Range(toSw) \cup {hwMsg}
    <2>1. CASE Len(toSw) < RingBound
      <3>1. toSw' = Append(toSw, hwMsg)
        BY <2>1 DEF HwPush
      <3>2. Before(Range(toSw), {hwMsg}) /\ Ordered(toSw)
        BY <1>1 DEF IInv, Sorted, Before
      <3>3. toSw' \in Seq(Call) /\ Len(toSw') <= RingBound
        BY <1>2, <2>1, <3>1
      <3>4. Ordered(toSw') /\ Range(toSw') = Range(toSw) \cup {hwMsg}
        BY <1>2, <3>1, <3>2, OrderedAppend, RangeOfAppend
      <3> QED BY <3>3, <3>4
    <2>2. CASE ~(Len(toSw) < RingBound)
      <3>1. toSw' = toSw
        BY <2>2 DEF HwPush
      <3>2. Ordered(toSw)
        BY DEF IInv, Sorted
      <3> QED BY <1>2, <3>1, <3>2 DEF IInv, TypeOK
    <2> QED BY <2>1, <2>2
  <1>4. TypeOK'
    BY <1>1, <1>3 DEF IInv, TypeOK, LoopStep
  <1>5. BootPhase' /\ Holding'
    BY <1>1 DEF IInv, BootPhase, Holding
  <1>6. Known' /\ RequestsKept'
    BY <1>1, <1>3 DEF IInv, Known, Sent, RequestsKept, Hand
  <1>7. Sorted'
    <2>1. /\ Ordered(toHw') /\ Hand(swMsg)' = Hand(swMsg)
          /\ Range(toHw') = Range(toHw) /\ answered' = answered
      BY <1>1 DEF IInv, Sorted, Hand, Ordered
    <2> QED BY <1>1, <1>3, <2>1 DEF IInv, Sorted, Before
  <1> QED BY <1>4, <1>5, <1>6, <1>7 DEF IInv

------------------------------------------------------------------------------
(* The software kernel's loop. *)

LEMMA SwMoves ==
  ASSUME IInv, SwStart \/ SwEnter \/ SwLoop \/ SwRecv \/ SwTimeout \/ SwFault
  PROVE  IInv'
  <1>1. /\ sw \notin {"none", "handle"} /\ sw' \in LoopStep \ {"none", "handle"}
        /\ swRunning' \in BOOLEAN
        /\ UNCHANGED <<state, up, rings, hwRunning, main, toHw, toSw, hw, hwMsg, served,
                       swMsg, answered, issued, counting, accepted>>
    BY DEF SwStart, SwEnter, SwLoop, SwRecv, SwTimeout, SwFault, SwAt, SwOnly, hwVars, calls,
           LoopStep, IInv, TypeOK
  <1>2. TypeOK'
    BY <1>1 DEF IInv, TypeOK
  <1>3. BootPhase' /\ Holding'
    BY <1>1 DEF IInv, BootPhase, Holding
  <1>4. Known' /\ RequestsKept' /\ Sorted'
    BY <1>1, NoMessageMoves
  <1> QED BY <1>2, <1>3, <1>4 DEF IInv

(* The oldest reply is taken.                                              *)
LEMMA SwPopKeeps ==
  ASSUME IInv, SwPop
  PROVE  IInv'
  <1>1. /\ sw = "poll" /\ sw' = "handle" /\ toSw # <<>>
        /\ swMsg' = Head(toSw) /\ toSw' = Tail(toSw)
        /\ UNCHANGED <<state, up, rings, hwRunning, swRunning, main, toHw, hw, hwMsg, served,
                       answered, issued, counting, accepted>>
    BY DEF SwPop, SwAt, SwOnly, hwVars, calls
  <1>2. /\ toSw \in Seq(Call) /\ toSw \in Seq(Nat) /\ None \notin Call
    BY MaxCallsAssumption DEF IInv, TypeOK, Call, None
  <1>3. /\ swMsg' \in Call /\ swMsg' # None
        /\ toSw' \in Seq(Call) /\ Len(toSw') <= RingBound
    BY <1>1, <1>2, RingBoundAssumption DEF IInv, TypeOK
  <1>4. swMsg = None /\ Hand(swMsg) = {} /\ Hand(swMsg)' = {swMsg'}
    BY <1>1, <1>3 DEF IInv, Holding, Hand
  <1>5. Range(toSw) = {swMsg'} \cup Range(toSw')
    BY <1>1, <1>2, RangeOfTail
  <1>6. Ordered(toSw') /\ Before({swMsg'}, Range(toSw'))
    BY <1>1, <1>2, OrderedTail DEF IInv, Sorted
  <1>7. TypeOK'
    BY <1>1, <1>3 DEF IInv, TypeOK, LoopStep
  <1>8. BootPhase' /\ Holding'
    BY <1>1, <1>3 DEF IInv, BootPhase, Holding
  <1>9. Known'
    BY <1>1, <1>4, <1>5 DEF IInv, Known, Sent, Hand
  <1>10. RequestsKept'
    BY <1>1 DEF IInv, RequestsKept, Sent
  <1>11. Sorted'
    <2>1. /\ Ordered(toHw') /\ Hand(hwMsg)' = Hand(hwMsg)
          /\ Range(toHw') = Range(toHw) /\ answered' = answered
      BY <1>1 DEF IInv, Sorted, Hand, Ordered
    <2> QED BY <1>4, <1>5, <1>6, <2>1 DEF IInv, Sorted, Before
  <1> QED BY <1>7, <1>8, <1>9, <1>10, <1>11 DEF IInv

LEMMA SwHandleKeeps ==
  ASSUME IInv, SwHandle
  PROVE  IInv'
  <1>1. /\ sw = "handle" /\ sw' = "loop" /\ swMsg # None /\ swMsg' = None
        /\ Hand(swMsg) = {swMsg} /\ Hand(swMsg)' = {}
        /\ answered' \in {answered, answered \cup {swMsg}}
        /\ UNCHANGED <<state, up, rings, hwRunning, swRunning, main, toHw, toSw,
                       hw, hwMsg, served, issued, counting, accepted>>
    BY DEF SwHandle, SwAt, SwOnly, hwVars, calls, IInv, Holding, Hand
  <1>2. TypeOK'
    BY <1>1 DEF IInv, TypeOK, LoopStep
  <1>3. BootPhase' /\ Holding'
    BY <1>1 DEF IInv, BootPhase, Holding
  <1>4. Known' /\ RequestsKept'
    BY <1>1 DEF IInv, Known, Sent, RequestsKept, Hand
  <1>5. Sorted'
    <2>1. /\ Ordered(toHw') /\ Ordered(toSw') /\ Hand(hwMsg)' = Hand(hwMsg)
          /\ Range(toHw') = Range(toHw) /\ Range(toSw') = Range(toSw)
      BY <1>1 DEF IInv, Sorted, Hand, Ordered
    <2> QED BY <1>1, <2>1 DEF IInv, Sorted, Before
  <1> QED BY <1>2, <1>3, <1>4, <1>5 DEF IInv

------------------------------------------------------------------------------
LEMMA NextInv == IInv /\ [Next]_vars => IInv'
  <1> SUFFICES ASSUME IInv, [Next]_vars PROVE IInv'
    OBVIOUS
  <1>1. ASSUME NEW x \in BootStep, Boot(x) \/ BootFails(x)
        PROVE  IInv'
    BY <1>1, BootKeeps, BootFailsKeeps
  <1>2. CASE StartHw \/ StartSw
    BY <1>2, StartsKeep
  <1>3. CASE Shutdown \/ ShutdownNext
    BY <1>3, ShutdownKeeps
  <1>4. CASE Syscall \/ SyscallCounted
    BY <1>4, SyscallKeeps, SyscallCountedKeeps
  <1>5. CASE HwNext
    BY <1>5, HwMoves, HwPopKeeps, HwHandleKeeps, HwSendKeeps, HwPushKeeps DEF HwNext
  <1>6. CASE SwNext
    BY <1>6, SwMoves, SwPopKeeps, SwHandleKeeps DEF SwNext
  <1>7. CASE UNCHANGED vars
    <2>1. TypeOK'
      BY <1>7 DEF vars, IInv, TypeOK
    <2>2. BootPhase' /\ Holding'
      BY <1>7 DEF vars, IInv, BootPhase, Holding
    <2>3. Known' /\ RequestsKept' /\ Sorted'
      BY <1>7, NoMessageMoves DEF vars
    <2> QED BY <2>1, <2>2, <2>3 DEF IInv
  <1> QED BY <1>1, <1>2, <1>3, <1>4, <1>5, <1>6, <1>7 DEF Next, MainNext, BootNext, Ended

LEMMA Invariance == Spec => []IInv
  BY InitInv, NextInv, PTL DEF Spec, Safety

(* The rings hold whole calls and never more than they have slots for, and *)
(* every thread is at a step of its code.                                  *)
THEOREM TypeCorrect == Spec => []TypeOK
  <1>1. IInv => TypeOK
    BY DEF IInv
  <1> QED BY <1>1, Invariance, PTL

(* A baios_init that fails undoes everything it did, and RUNNING means     *)
(* that every subsystem is up, whichever steps of the boot fail and        *)
(* however often it is tried again.                                        *)
THEOREM BootIsAtomic == Spec => []BootAllOrNothing
  <1>1. IInv => BootAllOrNothing
    <2> SUFFICES ASSUME IInv PROVE BootAllOrNothing
      OBVIOUS
    <2>1. main = "ipc" => main \in BootStep /\ UpAt[main] = {}
      BY Steps DEF UpAt
    <2>2. main = "ipc" => up = {} /\ ~rings /\ state = "UNINITIALIZED"
      BY <2>1 DEF IInv, BootPhase
    <2>3. state = "RUNNING" => up = BootStep /\ rings
      BY DEF IInv, BootPhase
    <2> QED BY <2>2, <2>3 DEF BootAllOrNothing
  <1> QED BY <1>1, Invariance, PTL

(* Until the hardware kernel goes down, every call whose push succeeded,   *)
(* whether or not its caller has come back to count it, has been handled,  *)
(* or is in the ring or in the HW loop's hand.                             *)
THEOREM RequestsAreKept == Spec => []RequestsKept
  <1>1. IInv => RequestsKept
    BY DEF IInv
  <1> QED BY <1>1, Invariance, PTL

LEMMA RangeOfHeld == ASSUME NEW m PROVE Range(Held(m)) = Hand(m)
  <1>1. CASE m = None
    BY <1>1, RangeOfEmpty DEF Held, Hand
  <1>2. CASE m # None
    <2>1. DOMAIN <<m>> = {1} /\ <<m>>[1] = m
      OBVIOUS
    <2> QED BY <1>2, <2>1 DEF Held, Hand, Range
  <1> QED BY <1>1, <1>2

(* Every reply that travels or was delivered answers a call that the       *)
(* hardware kernel has handled, and all that it has handled was pushed: it *)
(* is ahead of ipc_tx by no more than the call that is being counted.      *)
THEOREM RepliesAreGenuine == Spec => []RepliesGenuine
  <1>1. IInv => RepliesGenuine
    <2> SUFFICES ASSUME IInv PROVE Range(Held(swMsg) \o toSw) \subseteq served
      BY DEF IInv, Known, RepliesGenuine
    <2>1. Held(swMsg) \in Seq(Nat) /\ toSw \in Seq(Nat) /\ Ordered(Held(swMsg)) /\ Ordered(toSw)
      BY MaxCallsAssumption DEF IInv, TypeOK, Call, Held, None, Sorted, Ordered
    <2>2. Range(Held(swMsg)) = Hand(swMsg)
      BY RangeOfHeld
    <2>3. Before(Range(Held(swMsg)), Range(toSw))
      BY <2>2 DEF IInv, Sorted, Before
    <2>4. Range(Held(swMsg) \o toSw) = Hand(swMsg) \cup Range(toSw)
      BY <2>1, <2>2, <2>3, OrderedJoin
    <2> QED BY <2>4 DEF IInv, Known
  <1> QED BY <1>1, Invariance, PTL

(* Along the whole way, through both rings and the hands of both loops,    *)
(* calls keep the order in which they were made, none travels twice, and   *)
(* none travels that has been answered.                                    *)
THEOREM TrafficInOrder == Spec => []InOrder
  <1>1. IInv => InOrder
    <2> SUFFICES ASSUME IInv PROVE InOrder
      OBVIOUS
    <2> DEFINE a == Held(swMsg)
               b == Held(hwMsg)
    <2>1. /\ a \in Seq(Nat) /\ b \in Seq(Nat) /\ toSw \in Seq(Nat) /\ toHw \in Seq(Nat)
          /\ Ordered(a) /\ Ordered(b) /\ Ordered(toSw) /\ Ordered(toHw)
      BY MaxCallsAssumption DEF IInv, TypeOK, Call, Held, None, Sorted, Ordered
    <2>2. Range(a) = Hand(swMsg) /\ Range(b) = Hand(hwMsg)
      BY RangeOfHeld
    <2> HIDE DEF a, b
    <2> DEFINE c == a \o toSw
               d == c \o b
    <2>3. c \in Seq(Nat) /\ Ordered(c) /\ Range(c) = Hand(swMsg) \cup Range(toSw)
      <3>1. Before(Range(a), Range(toSw))
        BY <2>2 DEF IInv, Sorted, Before
      <3> QED BY <2>1, <2>2, <3>1, OrderedJoin
    <2>4. Flight = d \o toHw
      BY DEF Flight, a, b
    <2> HIDE DEF c
    <2>5. /\ d \in Seq(Nat) /\ Ordered(d)
          /\ Range(d) = Hand(swMsg) \cup Range(toSw) \cup Hand(hwMsg)
      <3>1. Before(Range(c), Range(b))
        BY <2>2, <2>3 DEF IInv, Sorted, Before
      <3>2. d \in Seq(Nat) /\ Ordered(d) /\ Range(d) = Range(c) \cup Range(b)
        BY <2>1, <2>3, <3>1, OrderedJoin
      <3> QED BY <2>2, <2>3, <3>2
    <2> HIDE DEF d
    <2>6. /\ Flight \in Seq(Nat) /\ Ordered(Flight)
          /\ Range(Flight)
               = Hand(swMsg) \cup Range(toSw) \cup Hand(hwMsg) \cup Range(toHw)
      <3>1. Before(Range(d), Range(toHw))
        BY <2>5 DEF IInv, Sorted, Before
      <3> QED BY <2>1, <2>5, <2>4, <3>1, OrderedJoin
    <2>7. \A i \in DOMAIN Flight : Flight[i] \in Range(Flight)
      BY DEF Range
    <2>8. Before(answered, Range(Flight))
      BY <2>6 DEF IInv, Sorted
    <2> QED BY <2>6, <2>7, <2>8 DEF InOrder, Ordered, Before
  <1> QED BY <1>1, Invariance, PTL
==============================================================================
