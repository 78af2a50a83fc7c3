----------------------------- MODULE FirstGenIpc -----------------------------
(***************************************************************************)
(* The first generation of the zero-copy IPC: named, counted regions of a  *)
(* heap that only grows (BIOS/ipc/shared_memory.c), channels made of a     *)
(* region each, with two rings and one payload area for all of their       *)
(* messages (BIOS/ipc/zero_copy.c), and the software side's bridge         *)
(* (BIOS/sw/ipc_bridge.cpp).  One thread at a time is inside.  A message   *)
(* is its payload; a ring used by one thread is the queue of its published *)
(* slots.  A call that is refused changes nothing and is not a step.       *)
(*                                                                         *)
(* Code that uses a region keeps to the rules of a counted object: it      *)
(* detaches what it attached, once, and leaves the two references of a     *)
(* channel alone.  It does not learn that the memory manager was started   *)
(* again, which hands the same handles and the same memory out again.      *)
(***************************************************************************)
EXTENDS Integers, FiniteSets, Sequences

CONSTANTS Names,        \* what regions are called, besides MainName
          MainName,     \* "hw-sw-main"
          NoName,       \* the name of a destroyed entry
          Payloads,     \* contents of a payload
          Oversized,    \* those that do not fit the payload area
          Empty,        \* no payload
          HeapPages,    \* pages of g_sim_heap
          MaxRegions,   \* MAX_SHM_REGIONS
          MaxChannels,  \* MAX_CHANNELS
          RingSlots,    \* BAIOS_IPC_RING_SLOTS: one of them stays empty
          MaxHeld,      \* bound: attachments to one region at a time
          MaxLives      \* bound: times hw_kernel_init is run

(* In units of pages: what a driver record, a ring, a payload area takes.  *)
DriverPages == 2    \* two records, allocated by linux_compat_init
ChannelPages == 3   \* the tx ring, the rx ring, the payload area

ASSUME IpcAssumption == /\ MainName \notin Names /\ NoName \notin Names \cup {MainName}
                        /\ Empty \notin Payloads /\ Oversized \subseteq Payloads
                        /\ {HeapPages, MaxRegions, MaxChannels, MaxLives} \subseteq Nat \ {0}
                        /\ RingSlots \in Nat /\ RingSlots > 1
                        /\ MaxHeld \in Nat
                        /\ HeapPages >= DriverPages + ChannelPages

VARIABLES
    regions,     \* g_shm_table up to g_shm_count
    nextHandle,  \* g_next_handle
    heapUsed,    \* g_sim_heap_used, in pages
    ipcReady,    \* g_ipc_ready
    channels,    \* g_channels up to g_channel_count
    queue,       \* the rings of the main channel, by direction
    own,         \* those of them that nobody was given the memory of
    area,        \* its payload area
    newest,      \* ghost: the direction the area was last written for
    held,        \* ghost: attachments that users hold, by handle
    old,         \* ghost: those from before baios_mem_init ran last
    robbed,      \* ghost: handles that a user of an old region detached
    life         \* how often hw_kernel_init ran

table == <<regions, nextHandle, heapUsed>>
main == <<queue, own, area, newest>>
users == <<held, old, robbed>>
vars == <<table, ipcReady, channels, main, users, life>>

Name == Names \cup {MainName}
Handle == 1 .. MaxRegions   \* handles are counted from 1, regions are not reused
Region == [handle : Handle \cup {0}, base : 0 .. HeapPages, size : 0 .. HeapPages,
           refs : 0 .. MaxHeld + 2, name : Name \cup {NoName}]
Wiped == [handle |-> 0, base |-> 0, size |-> 0, refs |-> 0, name |-> NoName]

(* stale (a ghost): the memory manager was started again since.            *)
Channel == [handle : Handle, base : 0 .. HeapPages, active : BOOLEAN, stale : BOOLEAN]

Direction == {"tx", "rx"}
Message == Payloads \cup {Empty}

TypeOK == /\ regions \in Seq(Region) /\ Len(regions) <= MaxRegions
          /\ nextHandle \in 1 .. MaxRegions + 1
          /\ heapUsed \in 0 .. HeapPages
          /\ ipcReady \in BOOLEAN
          /\ channels \in Seq(Channel) /\ Len(channels) <= MaxChannels
          /\ queue \in [Direction -> Seq(Message)]
          /\ \A dir \in Direction : Len(queue[dir]) < RingSlots
          /\ own \in SUBSET Direction
          /\ area \in Message
          /\ newest \in Direction \cup {"none"}
          /\ held \in [Handle -> 0 .. MaxHeld]
          /\ old \in [Handle -> Nat]
          /\ robbed \in SUBSET Handle
          /\ life \in 0 .. MaxLives

NoTraffic == [dir \in Direction |-> <<>>]

Init == /\ regions = <<>> /\ nextHandle = 1 /\ heapUsed = 0
        /\ ipcReady = FALSE
        /\ channels = <<>>
        /\ queue = NoTraffic /\ own = {} /\ area = Empty
        /\ newest = "none"
        /\ held = [h \in Handle |-> 0] /\ old = held /\ robbed = {}
        /\ life = 0

------------------------------------------------------------------------------
(* Memory. *)

MainHandle == 1   \* g_hw_sw_channel
MainBase == DriverPages
RingPage(dir) == IF dir = "tx" THEN MainBase ELSE MainBase + 1
AreaPage == MainBase + 2

(* sim_alloc: the memory that is handed out is zeroed, also where the main *)
(* channel of the life before still has its rings and its payload area; a  *)
(* ring is set up again only by who makes a channel of the same memory.    *)
Alloc(size, rings) ==
    LET zeroed == heapUsed .. heapUsed + size - 1
        lost == {dir \in Direction : RingPage(dir) \in zeroed}
    IN  /\ heapUsed + size <= HeapPages
        /\ heapUsed' = heapUsed + size
        /\ queue' = [dir \in Direction |-> IF dir \in lost THEN <<>> ELSE queue[dir]]
        /\ own' = (own \ lost) \cup rings
        /\ area' = IF AreaPage \in zeroed THEN Empty ELSE area
        /\ UNCHANGED newest

(* baios_kmalloc, from the same heap; what is freed does not come back.    *)
Kmalloc == /\ life > 0
           /\ Alloc(1, {})
           /\ UNCHANGED <<regions, nextHandle, ipcReady, channels, users, life>>

------------------------------------------------------------------------------
(* Regions. *)

Live(r) == r.handle # 0
LiveRegions == {i \in DOMAIN regions : Live(regions[i])}
Has(h) == \E i \in LiveRegions : regions[i].handle = h
IndexOf(h) == CHOOSE i \in LiveRegions : regions[i].handle = h

(* What baios_shm_create checks before it allocates: room in the table,    *)
(* and a name that no entry has.                                           *)
CanCreate(name) == /\ life > 0
                   /\ Len(regions) < MaxRegions
                   /\ \A i \in DOMAIN regions : regions[i].name # name

Created(name, size, refs) ==
    /\ regions' = Append(regions, [handle |-> nextHandle, base |-> heapUsed,
                                   size |-> size, refs |-> refs, name |-> name])
    /\ nextHandle' = nextHandle + 1

ShmCreate == \E name \in Name, size \in 1 .. 2 :
               /\ CanCreate(name)
               /\ Alloc(size, {})
               /\ Created(name, size, 1)
               /\ UNCHANGED <<ipcReady, channels, users, life>>

(* The table with n more on the count of h, which stays at 0 there.        *)
Refs(h, n) == IF Has(h) /\ regions[IndexOf(h)].refs + n >= 0
                THEN [regions EXCEPT ![IndexOf(h)].refs = @ + n] ELSE regions

ShmAttach(h) == /\ Has(h) /\ held[h] < MaxHeld
                /\ regions' = Refs(h, 1)
                /\ held' = [held EXCEPT ![h] = @ + 1]
                /\ UNCHANGED <<nextHandle, heapUsed, ipcReady, channels, main, old, robbed, life>>

ShmDetach(h) == /\ held[h] > 0
                /\ regions' = Refs(h, -1)
                /\ held' = [held EXCEPT ![h] = @ - 1]
                /\ UNCHANGED <<nextHandle, heapUsed, ipcReady, channels, main, old, robbed, life>>

(* baios_shm_detach again, by a user of a region that baios_mem_init has   *)
(* forgotten: the count that goes down is that of the region which has the *)
(* handle now, if one has.                                                 *)
OldDetach(h) == /\ old[h] > 0
                /\ regions' = Refs(h, -1)
                /\ old' = [old EXCEPT ![h] = @ - 1]
                /\ robbed' = IF Has(h) THEN robbed \cup {h} ELSE robbed
                /\ UNCHANGED <<nextHandle, heapUsed, ipcReady, channels, main, held, life>>

(* Fault: a region that one user still has is destroyed. *)
DestroyedInUse(i) == IF regions[i].refs > 2 THEN regions
                     ELSE [regions EXCEPT ![i] = Wiped]

(* The table after baios_shm_destroy: BUSY when others have the region;    *)
(* the entry is not used again.                                            *)
Destroyed(i) == IF regions[i].refs > 1 THEN regions
                ELSE [regions EXCEPT ![i] = Wiped]

ShmDestroy(h) == /\ Has(h)
                 /\ regions' = Destroyed(IndexOf(h))
                 /\ UNCHANGED <<nextHandle, heapUsed, ipcReady, channels, main, users, life>>

------------------------------------------------------------------------------
(* Channels. *)

(* find_channel: the first active channel of that handle. *)
Finds(h, c) == /\ c \in DOMAIN channels /\ channels[c].active /\ channels[c].handle = h
               /\ \A b \in 1 .. c - 1 : ~(channels[b].active /\ channels[b].handle = h)

Opened == [handle |-> nextHandle, base |-> heapUsed, active |-> TRUE, stale |-> FALSE]

RingsOf(base) == IF base = MainBase THEN Direction ELSE {}

(* Fault: a channel is made of a region that nobody attached to. *)
CreateUnattached(name) ==
    /\ Len(channels) < MaxChannels
    /\ CanCreate(name)
    /\ Alloc(ChannelPages, RingsOf(heapUsed))
    /\ Created(name, ChannelPages, 1)
    /\ channels' = Append(channels, Opened)
    /\ UNCHANGED <<ipcReady, users, life>>

(* baios_ipc_create_channel: the region is created and attached, and its   *)
(* rings are set up.                                                       *)
CreateChannel(name) ==
    /\ Len(channels) < MaxChannels
    /\ CanCreate(name)
    /\ Alloc(ChannelPages, RingsOf(heapUsed))
    /\ Created(name, ChannelPages, 2)
    /\ channels' = Append(channels, Opened)
    /\ UNCHANGED <<ipcReady, users, life>>

(* baios_ipc_destroy_channel: the channel is closed, and then its region   *)
(* is destroyed, which the channel's own attachment prevents.              *)
DestroyChannel(h) ==
    \E c \in DOMAIN channels :
      /\ Finds(h, c)
      /\ channels' = [channels EXCEPT ![c].active = FALSE]
      /\ regions' = IF Has(h) THEN Destroyed(IndexOf(h)) ELSE regions
      /\ UNCHANGED <<nextHandle, heapUsed, ipcReady, main, users, life>>

------------------------------------------------------------------------------
(* hw_kernel_init: baios_mem_init forgets every region, whoever uses it    *)
(* and goes on using it.  Nothing in hw_kernel_init can fail: its steps    *)
(* return BAIOS_OK, and the heap has room for the main channel.            *)

Restarted == /\ life < MaxLives /\ life' = life + 1
             /\ held' = [h \in Handle |-> 0]
             /\ old' = [h \in Handle |-> old[h] + held[h]]
             /\ robbed' = {}

Forgotten == [c \in DOMAIN channels |-> [channels[c] EXCEPT !.stale = TRUE]]

MainRegion == [handle |-> MainHandle, base |-> MainBase, size |-> ChannelPages,
               refs |-> 2, name |-> MainName]
MainChannel == [handle |-> MainHandle, base |-> MainBase, active |-> TRUE, stale |-> FALSE]

(* Fault: an IPC that is up is set up again, as the memory is. *)
HwInitAgain ==
    /\ Restarted
    /\ regions' = <<MainRegion>>
    /\ nextHandle' = MainHandle + 1 /\ heapUsed' = DriverPages + ChannelPages
    /\ channels' = Append(channels, MainChannel)
    /\ ipcReady' = TRUE
    /\ queue' = NoTraffic /\ own' = Direction /\ area' = Empty
    /\ UNCHANGED newest

(* The first time, baios_ipc_init creates the main channel, in the memory  *)
(* after the records of linux_compat_init ...                              *)
HwInit == /\ Restarted /\ ~ipcReady
          /\ regions' = <<MainRegion>>
          /\ nextHandle' = MainHandle + 1 /\ heapUsed' = DriverPages + ChannelPages
          /\ channels' = <<MainChannel>>
          /\ ipcReady' = TRUE
          /\ queue' = NoTraffic /\ own' = Direction /\ area' = Empty
          /\ UNCHANGED newest

(* ... later it does nothing: the channels of the life before stay.        *)
HwInitWithoutIpc == /\ Restarted /\ ipcReady
                    /\ regions' = <<>> /\ nextHandle' = 1 /\ heapUsed' = DriverPages
                    /\ channels' = Forgotten
                    /\ UNCHANGED <<ipcReady, main>>

------------------------------------------------------------------------------
(* Messages on the main channel.  The two ends of a channel run the same   *)
(* code with the rings exchanged: the end that the repository has sends on *)
(* "tx" and receives on "rx".  On a ring whose memory was given to others  *)
(* there is nothing to receive, a send divides by its capacity of 0, and  *)
(* what the others write there is not modelled.                            *)

MainOpen == \E c \in DOMAIN channels :
              /\ Finds(MainHandle, c)
              /\ channels[c].base = MainBase

(* The bridge looks the main channel up by its region's name. *)
NamedMain == Has(MainHandle) /\ regions[IndexOf(MainHandle)].name = MainName

(* Fault: the payload is copied before its length is checked. *)
TransmitCopyingFirst(dir, m) ==
    /\ MainOpen /\ dir \in own /\ Len(queue[dir]) < RingSlots - 1
    /\ queue' = IF m \in Oversized THEN queue ELSE [queue EXCEPT ![dir] = Append(@, m)]
    /\ IF m = Empty THEN UNCHANGED <<area, newest>>
       ELSE /\ area' = m
            /\ newest' = IF m \in Oversized THEN newest ELSE dir
    /\ UNCHANGED <<table, ipcReady, channels, own, users, life>>

(* baios_ipc_send: the payload goes where the one before it went. *)
Transmit(dir, m) ==
    /\ MainOpen /\ dir \in own /\ Len(queue[dir]) < RingSlots - 1
    /\ m \notin Oversized
    /\ queue' = [queue EXCEPT ![dir] = Append(@, m)]
    /\ IF m = Empty THEN UNCHANGED <<area, newest>> ELSE area' = m /\ newest' = dir
    /\ UNCHANGED <<table, ipcReady, channels, own, users, life>>

(* baios_ipc_try_recv: what is read is the area as it is now, and a        *)
(* checksum that differs (or a buffer too short) refuses the message and   *)
(* leaves it in front.  Checksums of the payloads compared are distinct.   *)
Receive(dir, buffer) ==
    /\ MainOpen /\ dir \in own /\ queue[dir] # <<>>
    /\ buffer /\ Head(queue[dir]) # Empty => area = Head(queue[dir])
    /\ queue' = [queue EXCEPT ![dir] = Tail(@)]
    /\ UNCHANGED <<table, ipcReady, channels, own, area, newest, users, life>>

(* baios_ipc_hw_to_sw and baios_ipc_sw_to_hw, by the handle kept at init. *)
SendOnMain(m) == ipcReady /\ Transmit("tx", m)

NotifyEvent(m) == NamedMain /\ Transmit("tx", m)

Poll == NamedMain /\ Receive("rx", TRUE)

(* The other end. *)
PeerSends(m) == Transmit("rx", m)
PeerReceives == \E buffer \in BOOLEAN : Receive("tx", buffer)

------------------------------------------------------------------------------
Next == \/ HwInit \/ HwInitWithoutIpc
        \/ ShmCreate \/ Kmalloc
        \/ \E h \in Handle : ShmAttach(h) \/ ShmDetach(h) \/ OldDetach(h)
                              \/ ShmDestroy(h) \/ DestroyChannel(h)
        \/ \E name \in Name : CreateChannel(name)
        \/ \E m \in Message : SendOnMain(m) \/ NotifyEvent(m) \/ PeerSends(m)
        \/ Poll \/ PeerReceives

Spec == Init /\ [][Next]_vars

------------------------------------------------------------------------------
Pages(r) == r.base .. r.base + r.size - 1

(* An open channel has its memory to itself: there is a live region behind *)
(* it and no other region has a page of it, as long as no user of the life *)
(* before detached its handle, and the main rings are nobody else's.  This *)
(* ends when the memory manager is started again under the channel         *)
(* (shared_memory.c:27-36, 102-119, 134-142; zero_copy.c:50, 110-116).     *)
ChannelBacked ==
    \A c \in DOMAIN channels : LET ch == channels[c] IN
      ch.active /\ ~ch.stale =>
        /\ ch.base = MainBase => own = Direction
        /\ ch.handle \notin robbed =>
             /\ Has(ch.handle)
             /\ LET i == IndexOf(ch.handle)
                IN  /\ regions[i].base = ch.base
                    /\ \A j \in LiveRegions \ {i} :
                         Pages(regions[j]) \cap Pages(regions[i]) = {}

(* The references of h: its creator's, its users', and that of the channel *)
(* made of it, open or closed.                                             *)
References(h) == 1 + held[h] + Cardinality({c \in DOMAIN channels :
                                              channels[c].handle = h /\ ~channels[c].stale})

(* The count of a live region is that of its references, and no user has a *)
(* region that is gone, so that a closed channel's region is never free    *)
(* again.  A user left over from before the memory manager was started     *)
(* takes one that is not its own from the region which has the handle now: *)
(* then the count is too low, and the region may go under its users, but   *)
(* it is never too high (shared_memory.c:82-119, 137-139; zero_copy.c:81). *)
RefsExact ==
    /\ \A h \in Handle \ robbed : held[h] > 0 => Has(h)
    /\ \A i \in LiveRegions : LET r == regions[i] IN
         /\ r.refs <= References(r.handle)
         /\ r.handle \notin robbed => r.refs = References(r.handle)

(* All messages of a channel, in both directions, share one payload area:  *)
(* a later one spoils the earlier ones.  The payload sent last is intact,  *)
(* whatever was refused since and whatever memory was given to others, and *)
(* is read when its message comes to the front.  It need not get there: a  *)
(* spoiled message before it is refused for ever                           *)
(* (zero_copy.c:132-159, 195-201; shared_memory.c:32-34).                  *)
NewestIntact ==
    newest # "none" =>
      LET sent == queue[newest]
      IN  \A i \in DOMAIN sent :
            /\ sent[i] # Empty
            /\ \A j \in DOMAIN sent : j > i => sent[j] = Empty
            => sent[i] = area
==============================================================================
