------------------------------ MODULE HwServices ------------------------------
(***************************************************************************)
(* The driver registry of BIOS/src/hw/driver_compat.c and the interrupt    *)
(* lines of BIOS/src/hw/interrupt.c, the two services of the hardware      *)
(* kernel that call back into driver code.  One thread runs them; what is  *)
(* hard is re-entrance: a probe, a remove or an interrupt handler may use  *)
(* both services again, in the middle of an unlink or of the walk of a     *)
(* shutdown.  The stack holds the callbacks that are running and what the  *)
(* C function that made each call remembers across it.  A call that is     *)
(* refused changes nothing and is not a step; the counts of interrupts,    *)
(* which are only reported, are left out.                                  *)
(***************************************************************************)
EXTENDS Integers, Sequences, FiniteSetsExt

CONSTANTS Drivers,       \* driver descriptors; each has a name of its own
          Irqs,          \* 0 .. BAIOS_MAX_IRQ - 1
          Null,          \* the NULL pointer
          MaxDrivers,    \* BAIOS_MAX_DRIVERS
          CountModulus,  \* 2^32: g_driver_count is u32
          MaxDepth       \* bound: callbacks inside one another

ASSUME ServicesAssumption == /\ IsFiniteSet(Drivers) /\ Null \notin Drivers
                             /\ MaxDrivers \in Nat \ {0}
                             /\ CountModulus \in Nat /\ CountModulus > MaxDrivers
                             /\ MaxDepth \in Nat \ {0}

VARIABLES
    drvReady,  \* g_drv_ready
    irqReady,  \* g_irq_ready
    head,      \* g_drivers
    next,      \* drv->next; what an unlinked driver's field was left with, too
    loaded,    \* the drivers with BAIOS_DRV_FLAG_LOADED
    count,     \* g_driver_count
    lines,     \* g_irqs: is there a handler, and its opaque pointer; ghost:
               \* was it requested for a driver no longer on the list ("late")
    stack,     \* the callbacks in progress, the running one last
    owed,      \* ghost: registrations of a driver minus calls of its remove
    spoiled    \* ghost: a callback has changed the list under the caller's feet

list == <<head, next, loaded, count>>
vars == <<drvReady, irqReady, list, lines, stack, owed, spoiled>>

Pointer == Drivers \cup {Null}
Line == [handler : BOOLEAN, opaque : Pointer, late : BOOLEAN]
Unused == [handler |-> FALSE, opaque |-> Null, late |-> FALSE]

(* who is the driver called back; link is, for "remove", the predecessor   *)
(* whose next field will be rewritten (Null for g_drivers itself) and, for *)
(* "walk", the driver to look at next.  A "walk" with who = Null is        *)
(* between two callbacks.                                                  *)
Frame == [kind : {"probe", "remove", "walk", "handler"}, who : Pointer, link : Pointer]

TypeOK == /\ drvReady \in BOOLEAN /\ irqReady \in BOOLEAN
          /\ head \in Pointer
          /\ next \in [Drivers -> Pointer]
          /\ loaded \subseteq Drivers
          /\ count \in 0 .. CountModulus - 1
          /\ lines \in [Irqs -> Line]
          /\ stack \in Seq(Frame) /\ Len(stack) <= MaxDepth
          /\ owed \in [Drivers -> -1 .. 2]
          /\ spoiled \in BOOLEAN

Init == /\ drvReady = FALSE /\ irqReady = FALSE
        /\ head = Null
        /\ next = [d \in Drivers |-> Null]
        /\ loaded = {}
        /\ count = 0
        /\ lines = [i \in Irqs |-> Unused]
        /\ stack = <<>>
        /\ owed = [d \in Drivers |-> 0]
        /\ spoiled = FALSE

------------------------------------------------------------------------------
(* The list, and who is calling. *)

(* What following the next fields n from pointer p on leads to: the        *)
(* smallest set of drivers that p and the fields of its members stay in.   *)
Closed(S, n, p) == {p} \cup {n[d] : d \in S} \subseteq S \cup {Null}

Reach(n, p) == {d \in Drivers : \A S \in SUBSET Drivers : Closed(S, n, p) => d \in S}

Linked == Reach(next, head)

(* Where the search for d ends: *pp is d, and pp is reached from g_drivers. *)
StopsAt(p, d) == IF p = Null THEN head = d ELSE p \in Linked /\ next[p] = d

Store(p, d) == IF p = Null THEN /\ head' = d /\ UNCHANGED next
               ELSE /\ next' = [next EXCEPT ![p] = d] /\ UNCHANGED head

Top == stack[Len(stack)]
InWalk == stack # <<>> /\ Top.kind = "walk"
Walking == \E k \in DOMAIN stack : stack[k].kind = "walk"

(* Code outside the two services is running: the rest of the kernel, or a  *)
(* callback.  What happens after the list was spoiled is left out.         *)
Calls == /\ drvReady /\ irqReady /\ ~spoiled
         /\ ~(InWalk /\ Top.who = Null)

(* A callback acts for its driver; the kernel may act for any registered   *)
(* one, or for none.                                                       *)
For(d) == IF stack = <<>> THEN d \in Linked \cup {Null} ELSE d = Top.who

Call(kind, d, link) == /\ Len(stack) < MaxDepth
                       /\ stack' = Append(stack, [kind |-> kind, who |-> d, link |-> link])

(* What is owed is no longer kept once the list is spoiled, or once a      *)
(* driver was removed too often.                                           *)
Owes(d, n) == owed' = IF spoiled \/ owed[d] + n < -1 THEN owed
                      ELSE [owed EXCEPT ![d] = @ + n]

Returned == SubSeq(stack, 1, Len(stack) - 1)

(* baios_irq_init and baios_driver_init, one after the other. *)
HwInit == /\ ~drvReady /\ ~irqReady
          /\ drvReady' = TRUE /\ irqReady' = TRUE
          /\ head' = Null /\ count' = 0
          /\ lines' = [i \in Irqs |-> Unused]
          /\ owed' = [d \in Drivers |-> 0] /\ spoiled' = FALSE
          /\ UNCHANGED <<next, loaded, stack>>

------------------------------------------------------------------------------
(* Registration. *)

(* Fault: a driver whose name is taken is put on the list again.           *)
RegisterTwice(d) ==
    /\ Calls /\ count < MaxDrivers
    /\ next' = [next EXCEPT ![d] = head]
    /\ head' = d
    /\ loaded' = loaded \cup {d}
    /\ count' = count + 1
    /\ Call("probe", d, Null)
    /\ Owes(d, 1)
    /\ spoiled' = Walking
    /\ UNCHANGED <<drvReady, irqReady, lines>>

(* baios_driver_register: linked first, then probed. *)
Register(d) == /\ Calls /\ count < MaxDrivers /\ d \notin Linked
               /\ next' = [next EXCEPT ![d] = head]
               /\ head' = d
               /\ loaded' = loaded \cup {d}
               /\ count' = count + 1
               /\ Call("probe", d, Null)
               /\ Owes(d, 1)
               /\ spoiled' = Walking
               /\ UNCHANGED <<drvReady, irqReady, lines>>

(* The status of the probe is logged, and the driver stays. *)
ProbeReturns == /\ stack # <<>> /\ Top.kind = "probe"
                /\ stack' = Returned
                /\ UNCHANGED <<drvReady, irqReady, list, lines, owed, spoiled>>

(* baios_driver_unregister, up to the callback: the search stops at pp,    *)
(* and keeps it.                                                           *)
Unregister(d) == /\ Calls /\ d \in Linked
                 /\ \E p \in Pointer : StopsAt(p, d) /\ Call("remove", d, p)
                 /\ Owes(d, -1)
                 /\ spoiled' = (owed[d] = 0)
                 /\ UNCHANGED <<drvReady, irqReady, list, lines>>

(* The last thing a remove does is to free the lines the driver holds.     *)
Freed(d) == [i \in Irqs |-> IF lines[i].handler /\ lines[i].opaque = d
                              THEN Unused ELSE lines[i]]

(* Fault: the flag is left set. *)
RemoveReturnsLoaded ==
    /\ stack # <<>> /\ Top.kind = "remove"
    /\ Store(Top.link, next[Top.who])
    /\ spoiled' = (spoiled \/ ~StopsAt(Top.link, Top.who))
    /\ count' = (count - 1) % CountModulus
    /\ lines' = Freed(Top.who)
    /\ stack' = Returned
    /\ UNCHANGED <<drvReady, irqReady, loaded, owed>>

(* Fault: the driver that was removed is still counted. *)
RemoveReturnsUncounted ==
    /\ stack # <<>> /\ Top.kind = "remove"
    /\ Store(Top.link, next[Top.who])
    /\ spoiled' = (spoiled \/ ~StopsAt(Top.link, Top.who))
    /\ loaded' = loaded \ {Top.who}
    /\ lines' = Freed(Top.who)
    /\ stack' = Returned
    /\ UNCHANGED <<drvReady, irqReady, count, owed>>

(* baios_driver_unregister, after the callback: *pp = drv->next. *)
RemoveReturns ==
    /\ stack # <<>> /\ Top.kind = "remove"
    /\ Store(Top.link, next[Top.who])
    /\ spoiled' = (spoiled \/ ~StopsAt(Top.link, Top.who))
    /\ loaded' = loaded \ {Top.who}
    /\ count' = (count - 1) % CountModulus
    /\ lines' = Freed(Top.who)
    /\ stack' = Returned
    /\ UNCHANGED <<drvReady, irqReady, owed>>

------------------------------------------------------------------------------
(* baios_hw_shutdown: the drivers first, then the interrupts. *)

WalkOn(d, link) == stack' = [stack EXCEPT ![Len(stack)] =
                               [kind |-> "walk", who |-> d, link |-> link]]

ShutdownBegins == /\ drvReady /\ irqReady /\ stack = <<>>
                  /\ Call("walk", Null, head)
                  /\ UNCHANGED <<drvReady, irqReady, list, lines, owed, spoiled>>

(* The next driver of the walk: its next is saved, and it is removed ...   *)
WalkCalls(d) == /\ InWalk /\ Top.who = Null /\ Top.link = d
                /\ d \in loaded
                /\ WalkOn(d, next[d])
                /\ Owes(d, -1)
                /\ UNCHANGED <<drvReady, irqReady, list, lines, spoiled>>

(* ... unless it is not loaded. *)
WalkSkips(d) == /\ InWalk /\ Top.who = Null /\ Top.link = d
                /\ d \notin loaded
                /\ WalkOn(Null, next[d])
                /\ UNCHANGED <<drvReady, irqReady, list, lines, owed, spoiled>>

(* Fault: the walk takes the first driver of the list each time. *)
WalkRestarts ==
    /\ InWalk /\ Top.who # Null
    /\ WalkOn(Null, head)
    /\ lines' = Freed(Top.who)
    /\ UNCHANGED <<drvReady, irqReady, list, owed, spoiled>>

WalkReturns == /\ InWalk /\ Top.who # Null
               /\ WalkOn(Null, Top.link)
               /\ lines' = Freed(Top.who)
               /\ UNCHANGED <<drvReady, irqReady, list, owed, spoiled>>

(* Fault: the last driver of the list is not removed. *)
WalkEndsEarly == /\ InWalk /\ Top.who = Null
                 /\ Top.link # Null => next[Top.link] = Null
                 /\ head' = Null /\ count' = 0
                 /\ drvReady' = FALSE
                 /\ stack' = <<>>
                 /\ UNCHANGED <<irqReady, next, loaded, lines, owed, spoiled>>

(* The list is dropped; next and LOADED stay in the descriptors. *)
WalkEnds == /\ InWalk /\ Top.who = Null /\ Top.link = Null
            /\ head' = Null /\ count' = 0
            /\ drvReady' = FALSE
            /\ stack' = <<>>
            /\ UNCHANGED <<irqReady, next, loaded, lines, owed, spoiled>>

IrqShutdown == /\ irqReady /\ ~drvReady
               /\ irqReady' = FALSE
               /\ lines' = [i \in Irqs |-> Unused]
               /\ UNCHANGED <<drvReady, list, stack, owed, spoiled>>

------------------------------------------------------------------------------
(* Interrupt lines. *)

(* baios_irq_request by or for d: a shared request takes a line over from  *)
(* whoever has it.  Nobody asks whether d is registered: a probe or a      *)
(* handler may have unregistered its driver before.                        *)
IrqRequest(i, d, shared) ==
    /\ Calls /\ For(d)
    /\ lines[i].handler => shared
    /\ lines' = [lines EXCEPT ![i] = [handler |-> TRUE, opaque |-> d,
                                     late |-> d \notin Linked \cup {Null}]]
    /\ UNCHANGED <<drvReady, irqReady, list, stack, owed, spoiled>>

(* baios_irq_free: a NULL opaque frees any line. *)
IrqFree(i, d) == /\ Calls /\ For(d)
                 /\ lines[i].opaque = d \/ d = Null
                 /\ lines' = [lines EXCEPT ![i] = Unused]
                 /\ UNCHANGED <<drvReady, irqReady, list, stack, owed, spoiled>>

(* baios_irq_dispatch, up to the handler. *)
IrqDispatch(i) == /\ Calls /\ lines[i].handler
                  /\ Call("handler", lines[i].opaque, Null)
                  /\ UNCHANGED <<drvReady, irqReady, list, lines, owed, spoiled>>

HandlerReturns == /\ stack # <<>> /\ Top.kind = "handler"
                  /\ stack' = Returned
                  /\ UNCHANGED <<drvReady, irqReady, list, lines, owed, spoiled>>

------------------------------------------------------------------------------
CallbackReturns == ProbeReturns \/ RemoveReturns \/ WalkReturns \/ HandlerReturns

WalkSteps == (\E d \in Drivers : WalkCalls(d) \/ WalkSkips(d)) \/ WalkEnds

Next == \/ HwInit \/ ShutdownBegins \/ IrqShutdown
        \/ CallbackReturns \/ WalkSteps
        \/ \E d \in Drivers : Register(d) \/ Unregister(d)
        \/ \E i \in Irqs : \/ IrqDispatch(i)
                           \/ \E d \in Pointer :
                                IrqFree(i, d) \/ \E shared \in BOOLEAN : IrqRequest(i, d, shared)

(* A callback returns, however often it calls first; the walk goes on. *)
Fairness == /\ WF_vars(WalkSteps)
            /\ \A k \in 1 .. MaxDepth : SF_vars(Len(stack) = k /\ CallbackReturns)

Spec == Init /\ [][Next]_vars /\ Fairness

------------------------------------------------------------------------------
(* All of this holds until a callback spoils the list, which takes one of  *)
(* three things: unregistering, in the remove of a driver, the driver in   *)
(* front of it, or registering one in front of it; registering during the  *)
(* walk of a shutdown; unregistering a driver whose remove was called      *)
(* already, which calls it again.  What the code does after one of these   *)
(* is not modelled, and nothing is claimed of it.                          *)

(* The count is the length of the list, and what is on the list is loaded, *)
(* in the middle of every callback too (driver_compat.c:54-57, 83-85).     *)
RegistryExact == drvReady /\ ~spoiled => /\ count = Cardinality(Linked)
                                         /\ Linked \subseteq loaded

(* The remove of d has been called by baios_driver_unregister and runs.    *)
Removing(d) == \E k \in DOMAIN stack : stack[k].kind = "remove" /\ stack[k].who = d

(* Until the list is spoiled, the shutdown removes nobody whom another     *)
(* remove unregistered in the middle of its walk, and forgets nobody: a    *)
(* registration is followed by one remove, whether its probe succeeded or  *)
(* not.  A driver that is on the list and had its remove called, which an  *)
(* unregister would call a second time, is met nowhere but in that very    *)
(* remove and in a shutdown (driver_compat.c:28-34, 76-85).                *)
RemovedOnce == ~spoiled => \A d \in Drivers :
                 /\ owed[d] \in {0, 1}
                 /\ owed[d] = 1 => d \in Linked
                 /\ d \in Linked /\ owed[d] = 0 => Removing(d) \/ Walking

(* Until the list is spoiled, an interrupt is delivered to a driver that   *)
(* is gone only on a line that a callback of that driver requested after   *)
(* the driver was gone: whoever else owns a line is registered, also when  *)
(* lines change hands by shared requests, and when the drivers are down    *)
(* and the interrupts are not (interrupt.c:34-61).                         *)
HandlersOwned == ~spoiled => \A i \in Irqs :
                   lines[i].handler /\ ~lines[i].late
                     => lines[i].opaque \in Linked \cup {Null}

(* A shutdown ends, whatever the removes unregister while it walks the     *)
(* list, unless they spoil it.                                             *)
ShutdownEnds == Walking ~> ~drvReady \/ spoiled
==============================================================================
