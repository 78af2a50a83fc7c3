----------------------------- MODULE DualKernel -----------------------------
(***************************************************************************)
(* The dual microkernel as BIOS/src/boot/entry.c runs it: a main thread    *)
(* that boots the subsystems, issues system calls and shuts everything     *)
(* down, and the main loops of the hardware and the software kernel, each  *)
(* in a thread of its own, joined only by the two rings of the zero-copy   *)
(* IPC and by plain global flags.  A ring is the bounded queue that        *)
(* ZeroCopyRing implements; a step of this module is one access to what    *)
(* the threads share, since nothing in the code is locked.                 *)
(***************************************************************************)
EXTENDS Naturals, Sequences, FiniteSets, Functions

CONSTANTS RingBound,    \* messages a ring holds: BAIOS_IPC_SLOT_COUNT - 1
          MaxCalls      \* bound: forwarded system calls in a run

ASSUME RingBoundAssumption == RingBound \in Nat \ {0}
ASSUME MaxCallsAssumption == MaxCalls \in Nat

VARIABLES
    state,       \* g_state
    up,          \* the subsystems whose ready (initialized) flag is set
    rings,       \* whether g_channels[0] points at its two rings
    hwRunning,   \* g_hw_running
    swRunning,   \* g_sw_running
    toHw, toSw,  \* g_sw_to_hw_ring and g_hw_to_sw_ring, oldest message first
    main,        \* where the main thread is
    hw, hwMsg,   \* where the HW loop is, and the message it holds (or None)
    sw, swMsg,   \* the same for the SW loop
    issued,      \* forwarded system calls so far; the last one's number
    counting,    \* the call main has pushed and not yet counted (or None)
    accepted,    \* calls that returned BAIOS_OK, which ipc_tx counts
    served,      \* calls the HW kernel has handled, which syscall_fwd counts
    answered     \* calls whose reply the SW kernel has handled (ipc_rx)

flags == <<state, up, rings, hwRunning, swRunning>>
calls == <<issued, counting, accepted>>
hwVars == <<hw, hwMsg, served>>
swVars == <<sw, swMsg, answered>>
vars == <<state, up, rings, hwRunning, swRunning, toHw, toSw, main,
          hw, hwMsg, sw, swMsg, issued, counting, accepted, served, answered>>

None == 0
Call == 1 .. MaxCalls

BootOrder == <<"ipc", "mm", "irq", "driver", "hw", "proc", "init", "sw">>
BootStep == Range(BootOrder)
MainStep == BootStep \cup {"ready", "spawning", "live", "stop_sw", "down_sw",
              "stop_hw", "down_hw", "close_ipc", "clear_ipc", "closed",
              "join_hw", "join_sw", "end"}
LoopStep == {"none", "start", "enter", "loop", "recv", "poll", "handle",
             "send", "push", "done", "crashed"}

TypeOK == /\ state \in {"UNINITIALIZED", "HW_INIT", "SW_INIT", "RUNNING",
                        "SHUTDOWN"}
          /\ up \in SUBSET BootStep
          /\ rings \in BOOLEAN
          /\ hwRunning \in BOOLEAN /\ swRunning \in BOOLEAN
          /\ toHw \in Seq(Call) /\ Len(toHw) <= RingBound
          /\ toSw \in Seq(Call) /\ Len(toSw) <= RingBound
          /\ main \in MainStep
          /\ hw \in LoopStep /\ hwMsg \in Call \cup {None}
          /\ sw \in LoopStep /\ swMsg \in Call \cup {None}
          /\ issued \in 0 .. MaxCalls
          /\ counting \in Call \cup {None}
          /\ accepted \in SUBSET Call
          /\ served \in SUBSET Call
          /\ answered \in SUBSET Call

Init == /\ state = "UNINITIALIZED"
        /\ up = {} /\ rings = FALSE
        /\ hwRunning = FALSE /\ swRunning = FALSE
        /\ toHw = <<>> /\ toSw = <<>>
        /\ main = "ipc"
        /\ hw = "none" /\ hwMsg = None
        /\ sw = "none" /\ swMsg = None
        /\ issued = 0 /\ counting = None
        /\ accepted = {} /\ served = {} /\ answered = {}

------------------------------------------------------------------------------
(* baios_init: the subsystems come up one by one, before any thread runs.  *)

After(x) == LET at == CHOOSE i \in DOMAIN BootOrder : BootOrder[i] = x
            IN  IF at = Len(BootOrder) THEN "ready" ELSE BootOrder[at + 1]

StateAfter(x) == CASE x = "ipc"  -> "HW_INIT"
                   [] x = "hw"   -> "SW_INIT"
                   [] x = "sw"   -> "RUNNING"
                   [] OTHER      -> state

(* Every init function refuses to run twice.  baios_hw_init looks at its   *)
(* own flag before the memory's, baios_sw_init before the process table's. *)
AlreadyUp(x) == \/ x \in up
                \/ x = "mm" /\ "hw" \in up
                \/ x = "proc" /\ "sw" \in up

HwSubsystems == {"mm", "irq", "driver", "hw"}
SwSubsystems == {"proc", "init", "sw"}

(* Fault: the error path behind the init process forgets the IRQs. *)
UndoForgetsIrq(x) == CASE x = "ipc" -> {}
                       [] x = "mm"  -> {"ipc"}
                       [] OTHER     -> {"proc", "init", "ipc", "mm", "driver", "hw"}

(* What the error path behind a failed step shuts down again. *)
Undo(x) == CASE x = "ipc"    -> {}
             [] x = "mm"     -> {"ipc"}
             [] x = "irq"    -> {"mm", "ipc"}
             [] x = "driver" -> {"irq", "mm", "ipc"}
             [] x = "proc"   -> HwSubsystems \cup {"ipc"}
             [] OTHER        -> {"proc", "init", "ipc"} \cup HwSubsystems

Boot(x) == /\ main = x
           /\ ~AlreadyUp(x)
           /\ up' = up \cup {x}
           /\ state' = StateAfter(x)
           /\ main' = After(x)
           /\ rings' = IF x = "ipc" THEN TRUE ELSE rings
           /\ toHw' = IF x = "ipc" THEN <<>> ELSE toHw
           /\ toSw' = IF x = "ipc" THEN <<>> ELSE toSw
           /\ UNCHANGED <<hwRunning, swRunning, hwVars, swVars, calls>>

(* The page array and the init process are allocated, which may fail; the  *)
(* caller may try baios_init again.                                        *)
BootFails(x) == /\ main = x
                /\ AlreadyUp(x) \/ x \in {"mm", "init"}
                /\ up' = up \ Undo(x)
                /\ rings' = (rings /\ "ipc" \notin Undo(x))
                /\ state' = "UNINITIALIZED"
                /\ main' = "ipc"
                /\ UNCHANGED <<hwRunning, swRunning, toHw, toSw,
                               hwVars, swVars, calls>>

------------------------------------------------------------------------------
(* The main thread between boot and shutdown. *)

(* Fault: the call is counted before the status of the push is known. *)
SyscallCountsFirst ==
    /\ main \in {"ready", "live"}
    /\ counting = None
    /\ "sw" \in up
    /\ issued < MaxCalls
    /\ issued' = issued + 1
    /\ counting' = issued + 1
    /\ toHw' = IF "ipc" \in up /\ Len(toHw) < RingBound
                 THEN Append(toHw, issued + 1) ELSE toHw
    /\ UNCHANGED <<flags, toSw, main, accepted, hwVars, swVars>>

(* baios_syscall with a number that is forwarded (SEND, WRITE, READ, OPEN, *)
(* CLOSE, MMAP), up to the store of head: the request is in the ring, or   *)
(* refused because the ring is full, and the caller gets that status.  The *)
(* numbers handled in place do not touch what the threads share:           *)
(* ProcessManager models them.                                             *)
Syscall == /\ main \in {"ready", "live"}
           /\ counting = None
           /\ "sw" \in up
           /\ issued < MaxCalls
           /\ issued' = issued + 1
           /\ IF "ipc" \in up /\ Len(toHw) < RingBound
                THEN /\ toHw' = Append(toHw, issued + 1)
                     /\ counting' = issued + 1
                ELSE UNCHANGED <<toHw, counting>>
           /\ UNCHANGED <<flags, toSw, main, accepted, hwVars, swVars>>

(* The push has returned BAIOS_OK: ipc_tx is counted and the caller told.  *)
(* The HW loop may have taken, handled and answered the call by now.       *)
SyscallCounted == /\ counting # None
                  /\ accepted' = accepted \cup {counting}
                  /\ counting' = None
                  /\ UNCHANGED <<flags, toHw, toSw, main, issued, hwVars, swVars>>

(* pthread_create, twice. *)
StartHw == /\ main = "ready" /\ counting = None
           /\ hw' = "start"
           /\ main' = "spawning"
           /\ UNCHANGED <<flags, toHw, toSw, hwMsg, served, swVars, calls>>

StartSw == /\ main = "spawning"
           /\ sw' = "start"
           /\ main' = "live"
           /\ UNCHANGED <<flags, toHw, toSw, hwVars, swMsg, answered, calls>>

------------------------------------------------------------------------------
(* baios_shutdown and the joins.  The loops are not waited for in between. *)

Goto(from, to) == main = from /\ main' = to

Unchanged == UNCHANGED <<toHw, toSw, hwVars, swVars, calls>>

Shutdown == /\ Goto("live", "stop_sw")
            /\ counting = None
            /\ state = "RUNNING"
            /\ state' = "SHUTDOWN"
            /\ UNCHANGED <<up, rings, hwRunning, swRunning>>
            /\ Unchanged

StopSw == /\ Goto("stop_sw", "down_sw")
          /\ "sw" \in up
          /\ swRunning' = FALSE
          /\ UNCHANGED <<state, up, rings, hwRunning>>
          /\ Unchanged

DownSw == /\ Goto("down_sw", "stop_hw")
          /\ up' = up \ SwSubsystems
          /\ UNCHANGED <<state, rings, hwRunning, swRunning>>
          /\ Unchanged

(* Fault: the HW loop is not told to stop. *)
StopHwForgotten == /\ Goto("stop_hw", "down_hw")
                   /\ UNCHANGED <<state, up, rings, hwRunning, swRunning>>
                   /\ Unchanged

StopHw == /\ Goto("stop_hw", "down_hw")
          /\ "hw" \in up
          /\ hwRunning' = FALSE
          /\ UNCHANGED <<state, up, rings, swRunning>>
          /\ Unchanged

DownHw == /\ Goto("down_hw", "close_ipc")
          /\ up' = up \ HwSubsystems
          /\ UNCHANGED <<state, rings, hwRunning, swRunning>>
          /\ Unchanged

(* g_ipc_ready and g_channel_count, which together admit a caller ...      *)
CloseIpc == /\ Goto("close_ipc", "clear_ipc")
            /\ up' = up \ {"ipc"}
            /\ UNCHANGED <<state, rings, hwRunning, swRunning>>
            /\ Unchanged

(* ... and the channel table, wiped under whoever is still inside.         *)
ClearIpc == /\ Goto("clear_ipc", "closed")
            /\ rings' = FALSE
            /\ UNCHANGED <<state, up, hwRunning, swRunning>>
            /\ Unchanged

Closed == /\ Goto("closed", "join_hw")
          /\ state' = "UNINITIALIZED"
          /\ UNCHANGED <<up, rings, hwRunning, swRunning>>
          /\ Unchanged

JoinHw == /\ Goto("join_hw", "join_sw")
          /\ hw = "done"
          /\ UNCHANGED flags
          /\ Unchanged

JoinSw == /\ Goto("join_sw", "end")
          /\ sw = "done"
          /\ UNCHANGED flags
          /\ Unchanged

------------------------------------------------------------------------------
(* baios_hw_main_loop in its thread. *)

HwAt(from, to) == hw = from /\ hw' = to

HwOnly == UNCHANGED <<state, up, rings, swRunning, main, swVars, calls>>

(* The flag is looked at once, before running is set. *)
HwStart == /\ HwAt("start", IF "hw" \in up THEN "enter" ELSE "done")
           /\ UNCHANGED <<hwRunning, toHw, toSw, hwMsg, served>>
           /\ HwOnly

HwEnter == /\ HwAt("enter", "loop")
           /\ hwRunning' = TRUE
           /\ UNCHANGED <<toHw, toSw, hwMsg, served>>
           /\ HwOnly

HwLoop == /\ HwAt("loop", IF hwRunning THEN "recv" ELSE "done")
          /\ UNCHANGED <<hwRunning, toHw, toSw, hwMsg, served>>
          /\ HwOnly

(* baios_ipc_recv_from_sw: ready is checked once, then the ring is polled  *)
(* until a message is there or the 50 ms are over.                         *)
HwRecv == /\ HwAt("recv", IF "ipc" \in up THEN "poll" ELSE "loop")
          /\ UNCHANGED <<hwRunning, toHw, toSw, hwMsg, served>>
          /\ HwOnly

(* Fault: the message is copied out and tail is not advanced. *)
HwPopKeepsSlot == /\ HwAt("poll", "handle")
                  /\ toHw # <<>>
                  /\ hwMsg' = Head(toHw)
                  /\ UNCHANGED <<hwRunning, toHw, toSw, served>>
                  /\ HwOnly

HwPop == /\ HwAt("poll", "handle")
         /\ toHw # <<>>
         /\ hwMsg' = Head(toHw)
         /\ toHw' = Tail(toHw)
         /\ UNCHANGED <<hwRunning, toSw, served>>
         /\ HwOnly

(* Fault: a loop that takes a timeout for the end. *)
HwTimeoutLeaves == /\ HwAt("poll", "done")
                   /\ toHw = <<>>
                   /\ UNCHANGED <<hwRunning, toHw, toSw, hwMsg, served>>
                   /\ HwOnly

HwTimeout == /\ HwAt("poll", "loop")
             /\ toHw = <<>>
             /\ UNCHANGED <<hwRunning, toHw, toSw, hwMsg, served>>
             /\ HwOnly

(* Fault: the call is answered and not counted. *)
HwHandleUncounted == /\ HwAt("handle", "send")
                     /\ UNCHANGED <<hwRunning, toHw, toSw, hwMsg, served>>
                     /\ HwOnly

(* baios_hw_handle_ipc of a SYSCALL: count it and answer it; a kernel that *)
(* has gone down in the meantime drops it.                                 *)
HwHandle == /\ HwAt("handle", IF "hw" \in up THEN "send" ELSE "loop")
            /\ served' = IF "hw" \in up THEN served \cup {hwMsg} ELSE served
            /\ hwMsg' = IF "hw" \in up THEN hwMsg ELSE None
            /\ UNCHANGED <<hwRunning, toHw, toSw>>
            /\ HwOnly

(* baios_ipc_send_to_sw: the ready check, then the push into the static    *)
(* ring.  The handler ignores the status, so a reply that finds the ring   *)
(* full or the IPC closed is gone.                                         *)
HwSend == /\ HwAt("send", IF "ipc" \in up THEN "push" ELSE "loop")
          /\ hwMsg' = IF "ipc" \in up THEN hwMsg ELSE None
          /\ UNCHANGED <<hwRunning, toHw, toSw, served>>
          /\ HwOnly

(* Fault: a push that does not look whether there is room. *)
HwPushUnchecked == /\ HwAt("push", "loop")
                   /\ toSw' = Append(toSw, hwMsg)
                   /\ hwMsg' = None
                   /\ UNCHANGED <<hwRunning, toHw, served>>
                   /\ HwOnly

HwPush == /\ HwAt("push", "loop")
          /\ toSw' = IF Len(toSw) < RingBound THEN Append(toSw, hwMsg) ELSE toSw
          /\ hwMsg' = None
          /\ UNCHANGED <<hwRunning, toHw, served>>
          /\ HwOnly

------------------------------------------------------------------------------
(* baios_sw_main_loop in its thread. *)

SwAt(from, to) == sw = from /\ sw' = to

SwOnly == UNCHANGED <<state, up, rings, hwRunning, main, toHw, hwVars, calls>>

SwStart == /\ SwAt("start", IF "sw" \in up THEN "enter" ELSE "done")
           /\ UNCHANGED <<swRunning, toSw, swMsg, answered>>
           /\ SwOnly

SwEnter == /\ SwAt("enter", "loop")
           /\ swRunning' = TRUE
           /\ UNCHANGED <<toSw, swMsg, answered>>
           /\ SwOnly

SwLoop == /\ SwAt("loop", IF swRunning THEN "recv" ELSE "done")
          /\ UNCHANGED <<swRunning, toSw, swMsg, answered>>
          /\ SwOnly

(* baios_ipc_recv on channel 0: ready and the channel count are checked    *)
(* once ...                                                                *)
SwRecv == /\ SwAt("recv", IF "ipc" \in up THEN "poll" ELSE "loop")
          /\ UNCHANGED <<swRunning, toSw, swMsg, answered>>
          /\ SwOnly

(* ... but every poll loads the ring's address from the channel again.     *)
SwPop == /\ SwAt("poll", "handle")
         /\ rings
         /\ toSw # <<>>
         /\ swMsg' = Head(toSw)
         /\ toSw' = Tail(toSw)
         /\ UNCHANGED <<swRunning, answered>>
         /\ SwOnly

(* Fault: a loop that takes a timeout for the end. *)
SwTimeoutLeaves == /\ SwAt("poll", "done")
                   /\ rings
                   /\ toSw = <<>>
                   /\ UNCHANGED <<swRunning, toSw, swMsg, answered>>
                   /\ SwOnly

SwTimeout == /\ SwAt("poll", "loop")
             /\ rings
             /\ toSw = <<>>
             /\ UNCHANGED <<swRunning, toSw, swMsg, answered>>
             /\ SwOnly

(* The address is NULL: ring_empty(NULL) faults and the process dies. *)
SwFault == /\ SwAt("poll", "crashed")
           /\ ~rings
           /\ UNCHANGED <<swRunning, toSw, swMsg, answered>>
           /\ SwOnly

(* baios_sw_handle_ipc of a REPLY. *)
SwHandle == /\ SwAt("handle", "loop")
            /\ answered' = IF "sw" \in up THEN answered \cup {swMsg} ELSE answered
            /\ swMsg' = None
            /\ UNCHANGED <<swRunning, toSw>>
            /\ SwOnly

------------------------------------------------------------------------------
BootNext == \E x \in BootStep : Boot(x) \/ BootFails(x)

ShutdownNext == StopSw \/ DownSw \/ StopHw \/ DownHw
                  \/ CloseIpc \/ ClearIpc \/ Closed \/ JoinHw \/ JoinSw

MainNext == BootNext \/ SyscallCounted \/ StartHw \/ StartSw \/ ShutdownNext

HwNext == HwStart \/ HwEnter \/ HwLoop \/ HwRecv \/ HwPop \/ HwTimeout
            \/ HwHandle \/ HwSend \/ HwPush

SwNext == SwStart \/ SwEnter \/ SwLoop \/ SwRecv \/ SwPop \/ SwTimeout
            \/ SwFault \/ SwHandle

Crashed == sw = "crashed"

Ended == (main = "end" \/ Crashed) /\ UNCHANGED vars

Next == \/ ~Crashed /\ (MainNext \/ Syscall \/ Shutdown \/ HwNext \/ SwNext)
        \/ Ended

Safety == Init /\ [][Next]_vars

(* The three threads are scheduled: main gets on with booting, starting    *)
(* the loops, a system call it is inside and, once it has begun, shutting  *)
(* down; the loops go round.                                               *)
(* Nobody has to issue a system call, and the system may run for ever.     *)
Spec == /\ Safety
        /\ WF_vars(~Crashed /\ MainNext)
        /\ WF_vars(~Crashed /\ HwNext)
        /\ WF_vars(~Crashed /\ SwNext)

------------------------------------------------------------------------------
(* Boot is all or nothing: a baios_init that fails part of the way leaves  *)
(* no subsystem up, so that it can be called again, and RUNNING means that *)
(* all of them are (entry.c:48-82, hw_kernel.c:13-40, sw_kernel.cpp:31-53).*)
BootAllOrNothing == /\ main = "ipc" => up = {} /\ ~rings /\ state = "UNINITIALIZED"
                    /\ state = "RUNNING" => up = BootStep /\ rings

Held(m) == IF m = None THEN <<>> ELSE <<m>>

(* From the reply the SW loop holds back to the newest request.            *)
Flight == Held(swMsg) \o toSw \o Held(hwMsg) \o toHw

(* Requests and replies overtake one another nowhere on their way through  *)
(* two rings and three threads, nothing travels twice, and whatever is     *)
(* still travelling is newer than all that has been answered.              *)
InOrder == /\ \A i, j \in DOMAIN Flight : i < j => Flight[i] < Flight[j]
           /\ \A c \in answered, i \in DOMAIN Flight : c < Flight[i]

Hand(m) == IF m = None THEN {} ELSE {m}

(* What went into the ring: the calls that are counted, and the one whose  *)
(* caller stands between the push and ipc_tx++.                            *)
Sent == accepted \cup Hand(counting)

(* No answer is made up, though a call may be handled and answered before  *)
(* it is counted: a reply that travels or has been handled belongs to a    *)
(* call that the HW kernel handled, and what it handled was pushed; the    *)
(* count of the SW side is behind that of the HW side by at most the one   *)
(* call whose caller has not come back from the push (sw_kernel.cpp:145-   *)
(* 148, hw_kernel.c:59).                                                   *)
RepliesGenuine == /\ served \subseteq Sent
                  /\ answered \subseteq served
                  /\ Range(Held(swMsg) \o toSw) \subseteq served

(* The way to the hardware loses nothing: until shutdown takes the HW      *)
(* kernel down, every call whose push succeeded, counted or not, has been  *)
(* handled or is in the ring or in the HW loop's hand, and nothing else is *)
(* there (zero_copy.c:46-55, sw_kernel.cpp:145-148, hw_kernel.c:100-106).  *)
RequestsKept == "hw" \in up =>
                  Sent \ served = Range(toHw) \cup
                    (IF hw = "handle" THEN {hwMsg} ELSE {})

(* While the system runs, a call whose push succeeded is handled by the HW *)
(* loop and counted ...                                                    *)
RequestsServed == \A c \in Call :
                    c \in Sent ~> (c \in served \cap accepted \/ state # "RUNNING")

(* ... and a reply that made it into the ring is handled by the SW loop.   *)
RepliesDelivered == \A c \in Call :
                      c \in Range(toSw) ~> (c \in answered \/ state # "RUNNING")

(* A shutdown that begins when both loops are inside their while ends: the *)
(* loops see their flag cleared and the joins return, unless the SW loop   *)
(* faults on the way.                                                      *)
InLoop == {"loop", "recv", "poll", "handle", "send", "push"}
RunningLoopsStop == (main = "stop_sw" /\ hw \in InLoop /\ sw \in InLoop)
                      ~> (main = "end" \/ Crashed)

------------------------------------------------------------------------------
(* What the comments promise and the code does not keep. *)

(* "Canal IPC (par de aneis: SW->HW e HW->SW)": a loop that polls a        *)
(* channel finds the channel's rings.                                      *)
PolledChannelHasRings == sw = "poll" => rings

(* "Forca saida dos loops": after baios_shutdown the joins return.         *)
ShutdownStopsLoops == main = "join_hw" ~> (main = "end" \/ Crashed)

(* The HW kernel "responderia via IPC_MSG_REPLY": every accepted call is   *)
(* answered.                                                               *)
CallsAnswered == \A c \in Call :
                   c \in accepted ~> (c \in answered \/ state # "RUNNING")
==============================================================================
