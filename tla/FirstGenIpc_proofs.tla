-------------------------- MODULE FirstGenIpc_proofs --------------------------
(***************************************************************************)
(* For every heap, table, ring and number of restarts: the count of a      *)
(* region is that of those who have it, except where a user from before a  *)
(* restart took one away; an open channel has memory of its own, until the *)
(* next restart; and the payload that was sent last is intact.             *)
(***************************************************************************)
EXTENDS FirstGenIpc, FiniteSetTheorems, TLAPS

(* Regions get their handles in the order of the table, and memory in that *)
(* order too.                                                              *)
TableInOrder ==
    /\ nextHandle = Len(regions) + 1
    /\ \A i \in DOMAIN regions : Live(regions[i]) =>
         /\ regions[i].handle = i
         /\ regions[i].size > 0
         /\ regions[i].base + regions[i].size <= heapUsed
    /\ \A i, j \in DOMAIN regions :
         i < j /\ Live(regions[i]) /\ Live(regions[j]) =>
           regions[i].base + regions[i].size <= regions[j].base

(* A channel keeps its region, closed or open, and nobody shares it.       *)
ChannelsOwn ==
    /\ \A c \in DOMAIN channels : ~channels[c].stale =>
         /\ channels[c].handle \in DOMAIN regions
         /\ channels[c].handle \notin robbed =>
              /\ Live(regions[channels[c].handle])
              /\ regions[channels[c].handle].base = channels[c].base
    /\ \A c, d \in DOMAIN channels :
         ~channels[c].stale /\ ~channels[d].stale /\ channels[c].handle = channels[d].handle
           => c = d

ChannelOf(h) == IF \E c \in DOMAIN channels : ~channels[c].stale /\ channels[c].handle = h
                  THEN 1 ELSE 0

(* RefsExact without a cardinality. *)
Counted == /\ robbed \subseteq DOMAIN regions
           /\ \A h \in Handle : held[h] > 0 =>
                /\ h \in DOMAIN regions
                /\ h \notin robbed => Live(regions[h])
           /\ \A i \in DOMAIN regions : Live(regions[i]) =>
                /\ regions[i].refs <= 1 + held[i] + ChannelOf(i)
                /\ i \notin robbed => regions[i].refs = 1 + held[i] + ChannelOf(i)

(* A ring whose memory was given away is empty.  Where the payload area is *)
(* still to be handed out, the rings before it that were are given away.   *)
RingsOwned ==
    /\ \A dir \in Direction \ own : queue[dir] = <<>>
    /\ \A dir \in Direction : RingPage(dir) < heapUsed /\ heapUsed <= AreaPage => dir \notin own
    /\ \A c \in DOMAIN channels : ~channels[c].stale =>
         /\ channels[c].base + ChannelPages <= heapUsed
         /\ channels[c].base = MainBase => own = Direction

Tables == TableInOrder /\ ChannelsOwn /\ Counted
IInv == TypeOK /\ TableInOrder /\ ChannelsOwn /\ Counted /\ RingsOwned

------------------------------------------------------------------------------
LEMMA Types ==
  ASSUME IInv
  PROVE  /\ Len(regions) \in Nat /\ DOMAIN regions = 1 .. Len(regions)
         /\ \A i \in DOMAIN regions : regions[i] \in Region
         /\ Len(channels) \in Nat /\ DOMAIN channels = 1 .. Len(channels)
         /\ \A c \in DOMAIN channels : channels[c] \in Channel
         /\ HeapPages \in Nat \ {0} /\ MaxRegions \in Nat \ {0} /\ MaxHeld \in Nat
         /\ DOMAIN regions \subseteq Handle
         /\ \A h \in Handle : held[h] \in 0 .. MaxHeld
         /\ heapUsed \in 0 .. HeapPages
  <1>1. /\ regions \in Seq(Region) /\ channels \in Seq(Channel) /\ Len(regions) <= MaxRegions
        /\ held \in [Handle -> 0 .. MaxHeld] /\ heapUsed \in 0 .. HeapPages
    BY DEF IInv, TypeOK
  <1>2. HeapPages \in Nat \ {0} /\ MaxRegions \in Nat \ {0} /\ MaxHeld \in Nat
    BY IpcAssumption
  <1> QED BY <1>1, <1>2 DEF Handle

(* The handle of a live region is its place in the table. *)
LEMMA HandleIsIndex ==
  ASSUME IInv, NEW h, Has(h)
  PROVE  h \in DOMAIN regions /\ Live(regions[h]) /\ IndexOf(h) = h
  <1>1. PICK i \in LiveRegions : regions[i].handle = h
    BY DEF Has
  <1>2. \A j \in LiveRegions : regions[j].handle = j
    BY DEF IInv, TableInOrder, LiveRegions
  <1>3. IndexOf(h) \in LiveRegions /\ regions[IndexOf(h)].handle = h
    BY <1>1 DEF IndexOf
  <1> QED BY <1>1, <1>2, <1>3 DEF LiveRegions

LEMMA LiveHas ==
  ASSUME IInv, NEW h \in DOMAIN regions, Live(regions[h])
  PROVE  Has(h)
  BY DEF IInv, TableInOrder, LiveRegions, Has

LEMMA InitInv == Init => IInv
  <1> SUFFICES ASSUME Init PROVE IInv
    OBVIOUS
  <1>1. /\ HeapPages \in Nat \ {0} /\ MaxRegions \in Nat \ {0} /\ MaxHeld \in Nat
        /\ RingSlots \in Nat /\ RingSlots > 1 /\ MaxLives \in Nat \ {0} /\ MaxChannels \in Nat \ {0}
    BY IpcAssumption
  <1>2. /\ <<>> \in Seq(Region) /\ <<>> \in Seq(Channel) /\ <<>> \in Seq(Message)
        /\ Len(<<>>) = 0 /\ DOMAIN <<>> = {}
    OBVIOUS
  <1>3. TypeOK
    <2>1. queue \in [Direction -> Seq(Message)] /\ \A d \in Direction : Len(queue[d]) < RingSlots
      <3>1. 0 < RingSlots
        BY <1>1
      <3> QED BY <1>2, <3>1 DEF Init, NoTraffic
    <2>2. /\ held \in [Handle -> 0 .. MaxHeld] /\ old \in [Handle -> Nat]
          /\ own \in SUBSET Direction /\ robbed \in SUBSET Handle
      BY <1>1 DEF Init
    <2>3. area \in Message /\ newest \in Direction \cup {"none"}
      BY DEF Init, Message
    <2>4. ipcReady \in BOOLEAN
      BY DEF Init
    <2> QED BY <1>1, <1>2, <2>1, <2>2, <2>3, <2>4 DEF Init, TypeOK
  <1>4. TableInOrder /\ ChannelsOwn /\ Counted
    BY <1>2 DEF Init, TableInOrder, ChannelsOwn, Counted
  <1>5. RingsOwned
    BY <1>2 DEF Init, RingsOwned, NoTraffic
  <1> QED BY <1>3, <1>4, <1>5 DEF IInv

------------------------------------------------------------------------------
(* Regions. *)

(* A step that leaves the regions and whose they are alone. *)
LEMMA TableStays ==
  ASSUME IInv, UNCHANGED <<regions, nextHandle, channels, held, robbed>>,
         heapUsed' \in Nat, heapUsed' >= heapUsed
  PROVE  Tables'
  <1>1. heapUsed \in Nat /\ \A i \in DOMAIN regions : regions[i] \in Region
    BY Types
  <1>2. TableInOrder'
    BY <1>1 DEF IInv, TableInOrder, Live, Region
  <1>3. ChannelsOwn' /\ Counted'
    BY DEF IInv, ChannelsOwn, Counted, ChannelOf, Live
  <1> QED BY <1>2, <1>3 DEF Tables

(* What an allocation takes, for a channel or not, nobody uses: the rings  *)
(* that lose their memory are those of a channel from before a restart.    *)
LEMMA AllocKeeps ==
  ASSUME IInv, NEW size \in 1 .. ChannelPages, NEW rings, Alloc(size, rings),
         \/ rings = {} /\ UNCHANGED channels
         \/ /\ rings = RingsOf(heapUsed) /\ size = ChannelPages
            /\ channels' = Append(channels, Opened)
  PROVE  /\ heapUsed' = heapUsed + size /\ heapUsed' \in 0 .. HeapPages
         /\ queue' \in [Direction -> Seq(Message)]
         /\ \A dir \in Direction : Len(queue'[dir]) < RingSlots
         /\ own' \in SUBSET Direction /\ area' \in Message
         /\ newest' \in Direction \cup {"none"}
         /\ RingsOwned'
  <1> DEFINE lost == {dir \in Direction : RingPage(dir) \in heapUsed .. heapUsed + size - 1}
  <1>1. /\ heapUsed + size <= HeapPages /\ heapUsed' = heapUsed + size
        /\ queue' = [dir \in Direction |-> IF dir \in lost THEN <<>> ELSE queue[dir]]
        /\ own' = (own \ lost) \cup rings
        /\ area' \in {Empty, area} /\ newest' = newest
    BY DEF Alloc
  <1>2. /\ heapUsed \in Nat /\ HeapPages \in Nat /\ size \in Nat
        /\ ChannelPages = 3 /\ MainBase = 2 /\ AreaPage = 4
        /\ \A dir \in Direction : RingPage(dir) \in {2, 3}
    BY Types DEF ChannelPages, MainBase, AreaPage, RingPage, DriverPages
  <1>3. rings \subseteq Direction
    BY DEF RingsOf
  <1>4. heapUsed' \in 0 .. HeapPages
    BY <1>1, <1>2
  <1>5. /\ queue' \in [Direction -> Seq(Message)]
        /\ \A dir \in Direction : Len(queue'[dir]) < RingSlots
    <2>1. <<>> \in Seq(Message) /\ Len(<<>>) = 0 /\ 0 < RingSlots
      BY IpcAssumption
    <2>2. \A dir \in Direction : queue[dir] \in Seq(Message) /\ Len(queue[dir]) < RingSlots
      BY DEF IInv, TypeOK
    <2> HIDE DEF lost
    <2> QED BY <1>1, <2>1, <2>2
  <1>6. own' \in SUBSET Direction /\ area' \in Message /\ newest' \in Direction \cup {"none"}
    BY <1>1, <1>3 DEF IInv, TypeOK, Message
  <1>7. \A dir \in Direction \ own' : queue'[dir] = <<>>
    <2> SUFFICES ASSUME NEW dir \in Direction, dir \notin own', dir \notin lost
                 PROVE  queue[dir] = <<>>
      BY <1>1
    <2>1. dir \notin own
      BY <1>1
    <2> QED BY <2>1 DEF IInv, RingsOwned
  <1>8. ASSUME NEW dir \in Direction, RingPage(dir) < heapUsed', heapUsed' <= AreaPage
        PROVE  dir \notin own'
    <2>1. rings = {}
      BY <1>1, <1>2, <1>8 DEF RingsOf
    <2>2. CASE RingPage(dir) < heapUsed
      <3>1. heapUsed <= AreaPage
        BY <1>1, <1>2, <1>8
      <3>2. dir \notin own
        BY <2>2, <3>1 DEF IInv, RingsOwned
      <3> QED BY <1>1, <2>1, <3>2
    <2>3. CASE ~(RingPage(dir) < heapUsed)
      <3>1. dir \in lost
        BY <1>1, <1>2, <1>8, <2>3
      <3> QED BY <1>1, <2>1, <3>1
    <2> QED BY <2>2, <2>3
  <1>9. ASSUME NEW c \in DOMAIN channels, ~channels[c].stale
        PROVE  /\ channels[c].base + ChannelPages <= heapUsed'
               /\ channels[c].base = MainBase => own' = Direction
    <2>1. /\ channels[c].base \in Nat /\ channels[c].base + ChannelPages <= heapUsed
          /\ channels[c].base = MainBase => own = Direction
      BY <1>9, Types DEF IInv, RingsOwned, Channel
    <2>2. channels[c].base = MainBase => lost = {}
      BY <1>2, <2>1
    <2> HIDE DEF lost
    <2> QED BY <1>1, <1>2, <1>3, <2>1, <2>2
  <1>10. ASSUME NEW c \in DOMAIN channels', ~channels'[c].stale
         PROVE  /\ channels'[c].base + ChannelPages <= heapUsed'
                /\ channels'[c].base = MainBase => own' = Direction
    <2>1. CASE rings = {} /\ UNCHANGED channels
      BY <1>9, <1>10, <2>1
    <2>2. CASE /\ rings = RingsOf(heapUsed) /\ size = ChannelPages
               /\ channels' = Append(channels, Opened)
      <3>1. \A S, q, e : q \in Seq(S) =>
              /\ DOMAIN q = 1 .. Len(q) /\ DOMAIN Append(q, e) = 1 .. Len(q) + 1 /\ Len(q) \in Nat
              /\ \A i \in 1 .. Len(q) : Append(q, e)[i] = q[i]
              /\ Append(q, e)[Len(q) + 1] = e
        OBVIOUS
      <3>2. channels \in Seq(Channel)
        BY DEF IInv, TypeOK
      <3>3. \/ c \in DOMAIN channels /\ channels'[c] = channels[c]
            \/ channels'[c] = Opened
        BY <1>10, <2>2, <3>1, <3>2
      <3>4. Opened.base = heapUsed
        BY DEF Opened
      <3>5. heapUsed = MainBase => own' = Direction
        BY <1>1, <1>6, <2>2 DEF RingsOf
      <3>6. CASE channels'[c] = Opened
        BY <1>1, <1>2, <2>2, <3>4, <3>5, <3>6
      <3> QED BY <1>9, <1>10, <3>3, <3>6
    <2> QED BY <2>1, <2>2
  <1> QED BY <1>1, <1>4, <1>5, <1>6, <1>7, <1>8, <1>10 DEF RingsOwned

LEMMA KmallocKeeps ==
  ASSUME IInv, Kmalloc
  PROVE  IInv'
  <1>1. Alloc(1, {})
        /\ UNCHANGED <<regions, nextHandle, ipcReady, channels, held, old, robbed, life>>
    BY DEF Kmalloc, users
  <1>2. 1 \in 1 .. ChannelPages
    BY DEF ChannelPages
  <1>3. /\ heapUsed' = heapUsed + 1 /\ heapUsed' \in 0 .. HeapPages
        /\ queue' \in [Direction -> Seq(Message)]
        /\ \A dir \in Direction : Len(queue'[dir]) < RingSlots
        /\ own' \in SUBSET Direction /\ area' \in Message
        /\ newest' \in Direction \cup {"none"}
        /\ RingsOwned'
    BY <1>1, <1>2, AllocKeeps
  <1>4. heapUsed' \in Nat /\ heapUsed' >= heapUsed
    BY <1>3, Types
  <1>5. TypeOK'
    BY <1>1, <1>3 DEF IInv, TypeOK
  <1> QED BY <1>1, <1>3, <1>4, <1>5, TableStays DEF Tables, IInv

(* One more region, with a channel made of it or without.                  *)
LEMMA CreatedKeeps ==
  ASSUME IInv, NEW name \in Name, NEW size \in {1, 2, 3}, NEW refs \in {1, 2},
         CanCreate(name), Created(name, size, refs), heapUsed' = heapUsed + size,
         UNCHANGED <<held, robbed>>,
         \/ refs = 1 /\ UNCHANGED channels
         \/ refs = 2 /\ channels' = Append(channels, Opened)
  PROVE  Tables'
  <1>0. PICK n \in Nat : n = Len(regions)
    BY Types
  <1> DEFINE new == [handle |-> nextHandle, base |-> heapUsed,
                     size |-> size, refs |-> refs, name |-> name]
  <1>1. /\ n = Len(regions) /\ DOMAIN regions = 1 .. n /\ nextHandle = n + 1
        /\ heapUsed \in Nat /\ heapUsed' = heapUsed + size
        /\ \A i \in DOMAIN regions : regions[i] \in Region
        /\ n < MaxRegions /\ MaxRegions \in Nat
        /\ Len(channels) \in Nat /\ DOMAIN channels = 1 .. Len(channels)
        /\ channels \in Seq(Channel)
        /\ \A c \in DOMAIN channels : channels[c] \in Channel
    BY <1>0, Types DEF IInv, TypeOK, TableInOrder, CanCreate, Created
  <1>2. /\ Len(regions') = n + 1 /\ DOMAIN regions' = 1 .. n + 1 /\ nextHandle' = n + 2
        /\ \A i \in 1 .. n : regions'[i] = regions[i]
        /\ regions'[n + 1] = new
    <2>1. regions' = Append(regions, new) /\ regions \in Seq(Region) /\ nextHandle' = nextHandle + 1
      BY DEF Created, IInv, TypeOK
    <2> HIDE DEF new
    <2> QED BY <1>1, <2>1
  <1>3. new.handle = n + 1 /\ new.base = heapUsed /\ new.size = size /\ new.refs = refs
    BY <1>1
  <1> HIDE DEF new
  <1>4. TableInOrder'
    <2>1. \A i \in 1 .. n : Live(regions[i]) =>
            /\ regions[i].handle = i /\ regions[i].size > 0
            /\ regions[i].base + regions[i].size <= heapUsed
            /\ regions[i].base \in Nat /\ regions[i].size \in Nat
      BY <1>1 DEF IInv, TableInOrder, Region
    <2>2. \A i \in 1 .. n + 1 : Live(regions'[i]) =>
            /\ regions'[i].handle = i /\ regions'[i].size > 0
            /\ regions'[i].base + regions'[i].size <= heapUsed'
      <3> SUFFICES ASSUME NEW i \in 1 .. n + 1, Live(regions'[i])
                   PROVE  /\ regions'[i].handle = i /\ regions'[i].size > 0
                          /\ regions'[i].base + regions'[i].size <= heapUsed'
        OBVIOUS
      <3>1. CASE i = n + 1
        BY <1>1, <1>2, <1>3, <3>1
      <3>2. CASE i \in 1 .. n
        <4>1. Live(regions[i]) /\ regions'[i] = regions[i]
          BY <1>2, <3>2
        <4> QED BY <1>1, <2>1, <3>2, <4>1
      <3> QED BY <1>1, <3>1, <3>2
    <2>3. \A i, j \in 1 .. n + 1 :
            i < j /\ Live(regions'[i]) /\ Live(regions'[j]) =>
              regions'[i].base + regions'[i].size <= regions'[j].base
      <3> SUFFICES ASSUME NEW i \in 1 .. n + 1, NEW j \in 1 .. n + 1,
                          i < j, Live(regions'[i]), Live(regions'[j])
                   PROVE  regions'[i].base + regions'[i].size <= regions'[j].base
        OBVIOUS
      <3>1. i \in 1 .. n /\ Live(regions[i]) /\ regions'[i] = regions[i]
        BY <1>1, <1>2
      <3>2. CASE j = n + 1
        BY <1>2, <1>3, <2>1, <3>1, <3>2
      <3>3. CASE j \in 1 .. n
        <4>1. Live(regions[j]) /\ regions'[j] = regions[j]
          BY <1>2, <3>3
        <4> QED BY <1>1, <3>1, <3>3, <4>1 DEF IInv, TableInOrder
      <3> QED BY <1>1, <3>2, <3>3
    <2>4. nextHandle' = Len(regions') + 1
      BY <1>1, <1>2
    <2> QED BY <1>2, <2>2, <2>3, <2>4 DEF TableInOrder
  <1>5. /\ \A c \in DOMAIN channels : c \in DOMAIN channels' /\ channels'[c] = channels[c]
        /\ \A c \in DOMAIN channels' :
             \/ c \in DOMAIN channels
             \/ /\ refs = 2 /\ c = Len(channels) + 1
                /\ channels'[c].handle = n + 1
                /\ channels'[c].base = heapUsed /\ ~channels'[c].stale
        /\ refs = 2 => \E c \in DOMAIN channels' :
                         ~channels'[c].stale /\ channels'[c].handle = n + 1
        /\ refs = 1 => channels' = channels
    <2>1. CASE refs = 1
      BY <2>1
    <2>2. CASE refs = 2
      <3> DEFINE ch == Opened
      <3>1. channels' = Append(channels, ch)
        BY <2>2
      <3>2. ch.handle = n + 1 /\ ch.base = heapUsed /\ ~ch.stale
        BY <1>1 DEF Opened
      <3>4. channels \in Seq(Channel)
        BY <1>1
      <3> HIDE DEF ch
      <3>3. /\ DOMAIN channels' = 1 .. Len(channels) + 1
            /\ \A c \in 1 .. Len(channels) : channels'[c] = channels[c]
            /\ channels'[Len(channels) + 1] = ch
        <4>1. \A S, s, e : s \in Seq(S) =>
                /\ DOMAIN Append(s, e) = 1 .. Len(s) + 1
                /\ \A c \in 1 .. Len(s) : Append(s, e)[c] = s[c]
                /\ Append(s, e)[Len(s) + 1] = e
          OBVIOUS
        <4> QED BY <3>1, <3>4, <4>1
      <3> QED BY <1>1, <2>2, <3>2, <3>3
    <2> QED BY <2>1, <2>2
  <1>6. \A c \in DOMAIN channels : ~channels[c].stale => channels[c].handle \in 1 .. n
    BY <1>1 DEF IInv, ChannelsOwn
  <1>7. ChannelsOwn'
    <2>1. Live(new)
      BY <1>1, <1>3 DEF Live
    <2>2. ASSUME NEW c \in DOMAIN channels', ~channels'[c].stale
          PROVE  /\ channels'[c].handle \in DOMAIN regions'
                 /\ channels'[c].handle \notin robbed' =>
                      /\ Live(regions'[channels'[c].handle])
                      /\ regions'[channels'[c].handle].base = channels'[c].base
      <3>1. CASE c \in DOMAIN channels
        <4> DEFINE h == channels[c].handle
        <4>1. channels'[c] = channels[c] /\ ~channels[c].stale
          BY <1>5, <2>2, <3>1
        <4>2. /\ h \in 1 .. n
              /\ h \notin robbed => Live(regions[h]) /\ regions[h].base = channels[c].base
          BY <1>1, <3>1, <4>1 DEF IInv, ChannelsOwn
        <4>3. h \in 1 .. n + 1 /\ regions'[h] = regions[h]
          BY <1>1, <1>2, <4>2
        <4> QED BY <1>2, <4>1, <4>2, <4>3
      <3>2. CASE c \notin DOMAIN channels
        <4>1. channels'[c].handle = n + 1 /\ channels'[c].base = heapUsed
          BY <1>5, <2>2, <3>2
        <4>2. n + 1 \in 1 .. n + 1
          BY <1>1
        <4> QED BY <1>2, <1>3, <2>1, <4>1, <4>2
      <3> QED BY <3>1, <3>2
    <2>3. ASSUME NEW c \in DOMAIN channels', NEW d \in DOMAIN channels', ~channels'[c].stale,
                 ~channels'[d].stale, channels'[c].handle = channels'[d].handle
          PROVE  c = d
      <3>1. n + 1 \notin 1 .. n
        BY <1>1
      <3>2. CASE c \in DOMAIN channels /\ d \in DOMAIN channels
        BY <1>5, <2>3, <3>2 DEF IInv, ChannelsOwn
      <3>3. CASE c \notin DOMAIN channels /\ d \notin DOMAIN channels
        BY <1>5, <3>3
      <3>4. CASE c \in DOMAIN channels /\ d \notin DOMAIN channels
        BY <1>5, <1>6, <2>3, <3>1, <3>4
      <3>5. CASE c \notin DOMAIN channels /\ d \in DOMAIN channels
        BY <1>5, <1>6, <2>3, <3>1, <3>5
      <3> QED BY <3>2, <3>3, <3>4, <3>5
    <2> QED BY <2>2, <2>3 DEF ChannelsOwn
  <1>8. Counted'
    <2>1. /\ robbed' \subseteq DOMAIN regions'
          /\ \A h \in Handle : held'[h] > 0 =>
               h \in DOMAIN regions' /\ (h \notin robbed' => Live(regions'[h]))
      BY <1>1, <1>2 DEF IInv, Counted
    <2>2. ASSUME NEW i \in 1 .. n
          PROVE  ChannelOf(i)' = ChannelOf(i)
      <3>1. i # n + 1
        BY <1>1
      <3>2. (\E c \in DOMAIN channels : ~channels[c].stale /\ channels[c].handle = i)
              <=> \E c \in DOMAIN channels' : ~channels'[c].stale /\ channels'[c].handle = i
        BY <1>5, <3>1
      <3> QED BY <3>2 DEF ChannelOf
    <2>3. ChannelOf(n + 1)' = refs - 1
      <3>1. n + 1 \notin 1 .. n
        BY <1>1
      <3>2. CASE refs = 1
        <4>1. ~\E c \in DOMAIN channels' : ~channels'[c].stale /\ channels'[c].handle = n + 1
          BY <1>5, <1>6, <3>1, <3>2
        <4> QED BY <3>2, <4>1 DEF ChannelOf
      <3>3. CASE refs = 2
        <4>1. \E c \in DOMAIN channels' : ~channels'[c].stale /\ channels'[c].handle = n + 1
          BY <1>5, <3>3
        <4> QED BY <3>3, <4>1 DEF ChannelOf
      <3> QED BY <3>2, <3>3
    <2>4. held[n + 1] = 0
      <3>1. n + 1 \in Handle /\ n + 1 \notin DOMAIN regions
        BY <1>1 DEF Handle
      <3> QED BY <3>1, Types DEF IInv, Counted
    <2>5. ASSUME NEW i \in 1 .. n + 1, Live(regions'[i])
          PROVE  /\ regions'[i].refs <= 1 + held'[i] + ChannelOf(i)'
                 /\ i \notin robbed' => regions'[i].refs = 1 + held'[i] + ChannelOf(i)'
      <3>1. CASE i = n + 1
        BY <1>2, <1>3, <2>3, <2>4, <3>1
      <3>2. CASE i \in 1 .. n
        <4>1. Live(regions[i]) /\ regions'[i] = regions[i]
          BY <1>2, <2>5, <3>2
        <4>2. /\ regions[i].refs <= 1 + held[i] + ChannelOf(i)
              /\ i \notin robbed => regions[i].refs = 1 + held[i] + ChannelOf(i)
          BY <1>1, <3>2, <4>1 DEF IInv, Counted
        <4> QED BY <2>2, <3>2, <4>1, <4>2
      <3> QED BY <1>1, <3>1, <3>2
    <2> QED BY <1>2, <2>1, <2>5 DEF Counted
  <1> QED BY <1>4, <1>7, <1>8 DEF Tables

(* The same table with another count, which Refs gives it.                 *)
LEMMA RefsGives ==
  ASSUME IInv, NEW h \in Handle, NEW d \in {-1, 1}
  PROVE  LET z == Refs(h, d)
         IN  /\ DOMAIN z = DOMAIN regions /\ Len(z) = Len(regions)
             /\ \A i \in DOMAIN regions :
                  /\ z[i].handle = regions[i].handle /\ z[i].base = regions[i].base
                  /\ z[i].size = regions[i].size /\ z[i].name = regions[i].name
                  /\ z[i].refs = IF i = h /\ Has(h) /\ regions[i].refs + d >= 0
                                   THEN regions[i].refs + d ELSE regions[i].refs
  <1> DEFINE z == Refs(h, d)
             k == regions[h].refs + d
             r == [regions[h] EXCEPT !.refs = k]
  <1>1. regions \in Seq(Region) /\ \A i \in DOMAIN regions : regions[i] \in Region
    BY Types DEF IInv, TypeOK
  <1>2. CASE ~(Has(h) /\ k >= 0)
    <2>1. z = regions
      BY <1>2, HandleIsIndex DEF Refs
    <2> QED BY <1>2, <2>1
  <1>3. CASE Has(h) /\ k >= 0
    <2>1. h \in DOMAIN regions /\ IndexOf(h) = h
      BY <1>3, HandleIsIndex
    <2>2. z = [regions EXCEPT ![h] = r]
      BY <1>3, <2>1 DEF Refs
    <2>3. ASSUME NEW q \in Region, NEW n
          PROVE  LET s == [q EXCEPT !.refs = n]
                 IN  /\ s.handle = q.handle /\ s.base = q.base /\ s.size = q.size
                     /\ s.name = q.name /\ s.refs = n
      BY DEF Region
    <2>4. /\ r.handle = regions[h].handle /\ r.base = regions[h].base
          /\ r.size = regions[h].size /\ r.name = regions[h].name /\ r.refs = k
      BY <1>1, <2>1, <2>3
    <2> HIDE DEF r, z
    <2>5. /\ DOMAIN z = DOMAIN regions /\ Len(z) = Len(regions)
          /\ z[h] = r /\ \A i \in DOMAIN regions : i # h => z[i] = regions[i]
      BY <1>1, <2>1, <2>2
    <2> QED BY <1>3, <2>1, <2>4, <2>5 DEF z
  <1> QED BY <1>2, <1>3

(* A count may change while the table keeps its shape, and a handle may    *)
(* become a robbed one.                                                    *)
LEMMA RefsKeep ==
  ASSUME IInv, NEW h \in Handle, NEW d \in {-1, 1}, regions' = Refs(h, d),
         UNCHANGED <<nextHandle, heapUsed, ipcReady, channels, main, life>>,
         robbed \subseteq robbed', robbed' \subseteq robbed \cup (DOMAIN regions \cap {h}),
         held' \in [Handle -> 0 .. MaxHeld], old' \in [Handle -> Nat],
         \A i \in Handle \ {h} : held'[i] = held[i],
         held'[h] > 0 => held[h] > 0 \/ Has(h),
         Has(h) => LET n == regions'[h].refs
                   IN  /\ n <= 1 + held'[h] + ChannelOf(h)
                       /\ h \notin robbed' => n = 1 + held'[h] + ChannelOf(h)
  PROVE  IInv'
  <1>1. /\ DOMAIN regions' = DOMAIN regions /\ Len(regions') = Len(regions)
        /\ \A i \in DOMAIN regions :
             /\ regions'[i].handle = regions[i].handle /\ regions'[i].base = regions[i].base
             /\ regions'[i].size = regions[i].size /\ regions'[i].name = regions[i].name
             /\ regions'[i].refs = IF i = h /\ Has(h) /\ regions[i].refs + d >= 0
                                     THEN regions[i].refs + d ELSE regions[i].refs
    BY RefsGives
  <1>2. \A i : ChannelOf(i)' = ChannelOf(i)
    BY DEF ChannelOf
  <1>3. ChannelOf(h) \in {0, 1}
    BY DEF ChannelOf
  <1>4. TypeOK'
    <2>1. regions' \in Seq(Region)
      <3>1. CASE ~(Has(h) /\ regions[h].refs + d >= 0)
        <4>1. regions' = regions
          BY <3>1, HandleIsIndex DEF Refs
        <4> QED BY <4>1 DEF IInv, TypeOK
      <3>2. CASE Has(h) /\ regions[h].refs + d >= 0
        <4> DEFINE k == regions[h].refs + d
        <4>1. h \in DOMAIN regions /\ IndexOf(h) = h
          BY <3>2, HandleIsIndex
        <4>2. regions' = [regions EXCEPT ![h] = [regions[h] EXCEPT !.refs = k]]
          BY <3>2, <4>1 DEF Refs
        <4>3. k = regions'[h].refs /\ k <= 1 + held'[h] + ChannelOf(h)
          BY <1>1, <3>2, <4>1
        <4>4. k \in 0 .. MaxHeld + 2
          <5>1. regions[h].refs \in Nat /\ held'[h] \in 0 .. MaxHeld /\ MaxHeld \in Nat
            BY <4>1, Types DEF Region
          <5> HIDE DEF k
          <5>2. k \in Int
            BY <5>1 DEF k
          <5>3. k >= 0
            BY <3>2 DEF k
          <5> QED BY <1>3, <4>3, <5>1, <5>2, <5>3
        <4> HIDE DEF k
        <4>5. [regions[h] EXCEPT !.refs = k] \in Region
          BY <4>1, <4>4, Types DEF Region
        <4> QED BY <4>1, <4>2, <4>5 DEF IInv, TypeOK
      <3> QED BY <3>1, <3>2
    <2>2. robbed' \in SUBSET Handle
      BY DEF IInv, TypeOK
    <2> QED BY <1>1, <2>1, <2>2 DEF IInv, TypeOK, main
  <1>5. TableInOrder'
    BY <1>1 DEF IInv, TableInOrder, Live
  <1>6. ChannelsOwn'
    BY <1>1 DEF IInv, ChannelsOwn, Live
  <1>7. RingsOwned'
    BY DEF IInv, RingsOwned, main
  <1>8. Counted'
    <2>1. robbed' \subseteq DOMAIN regions'
      BY <1>1 DEF IInv, Counted
    <2>2. ASSUME NEW i \in Handle, held'[i] > 0
          PROVE  i \in DOMAIN regions' /\ (i \notin robbed' => Live(regions'[i]))
      <3>1. CASE held[i] > 0
        BY <1>1, <3>1 DEF IInv, Counted, Live
      <3>2. CASE i = h /\ Has(h)
        BY <1>1, <3>2, HandleIsIndex DEF Live
      <3> QED BY <2>2, <3>1, <3>2
    <2>3. ASSUME NEW i \in DOMAIN regions', Live(regions'[i])
          PROVE  /\ regions'[i].refs <= 1 + held'[i] + ChannelOf(i)'
                 /\ i \notin robbed' => regions'[i].refs = 1 + held'[i] + ChannelOf(i)'
      <3>1. i \in DOMAIN regions /\ Live(regions[i]) /\ i \in Handle
        BY <1>1, <2>3, Types DEF Live
      <3>2. CASE i = h
        <4>1. Has(h)
          BY <3>1, <3>2, LiveHas
        <4> QED BY <1>2, <3>2, <4>1
      <3>3. CASE i # h
        <4>1. regions'[i].refs = regions[i].refs /\ held'[i] = held[i]
          BY <1>1, <3>1, <3>3
        <4> QED BY <1>2, <3>1, <4>1 DEF IInv, Counted
      <3> QED BY <3>2, <3>3
    <2> QED BY <2>1, <2>2, <2>3 DEF Counted
  <1> QED BY <1>4, <1>5, <1>6, <1>7, <1>8 DEF IInv

LEMMA CreatedTypes ==
  ASSUME IInv, NEW name \in Name, NEW size \in {1, 2, 3}, NEW refs \in {1, 2},
         CanCreate(name), Created(name, size, refs), heapUsed + size <= HeapPages
  PROVE  /\ regions' \in Seq(Region) /\ Len(regions') <= MaxRegions
         /\ nextHandle' \in 1 .. MaxRegions + 1
  <1> DEFINE new == [handle |-> nextHandle, base |-> heapUsed,
                     size |-> size, refs |-> refs, name |-> name]
  <1>1. /\ regions \in Seq(Region) /\ Len(regions) < MaxRegions /\ Len(regions) \in Nat
        /\ nextHandle = Len(regions) + 1
        /\ heapUsed \in 0 .. HeapPages
        /\ MaxRegions \in Nat /\ HeapPages \in Nat /\ MaxHeld \in Nat
    BY Types DEF IInv, TypeOK, TableInOrder, CanCreate
  <1>2. regions' = Append(regions, new) /\ nextHandle' = nextHandle + 1
    BY DEF Created
  <1>3. new \in Region
    <2>1. /\ nextHandle \in Handle \cup {0} /\ heapUsed \in 0 .. HeapPages
          /\ size \in 0 .. HeapPages /\ refs \in 0 .. MaxHeld + 2 /\ name \in Name \cup {NoName}
      BY <1>1 DEF Handle
    <2> QED BY <2>1 DEF Region
  <1> HIDE DEF new
  <1>4. Len(regions') = Len(regions) + 1 /\ regions' \in Seq(Region)
    BY <1>1, <1>2, <1>3
  <1> QED BY <1>1, <1>2, <1>4

LEMMA ShmCreateKeeps ==
  ASSUME IInv, ShmCreate
  PROVE  IInv'
  <1>1. PICK name \in Name, size \in 1 .. 2 :
          CanCreate(name) /\ Alloc(size, {}) /\ Created(name, size, 1)
    BY DEF ShmCreate
  <1>2. UNCHANGED <<ipcReady, channels, held, old, robbed, life>>
    BY DEF ShmCreate, users
  <1>3. size \in {1, 2, 3} /\ size \in 1 .. ChannelPages
    BY DEF ChannelPages
  <1>4. /\ heapUsed' = heapUsed + size /\ heapUsed' \in 0 .. HeapPages
        /\ queue' \in [Direction -> Seq(Message)]
        /\ \A dir \in Direction : Len(queue'[dir]) < RingSlots
        /\ own' \in SUBSET Direction /\ area' \in Message
        /\ newest' \in Direction \cup {"none"}
        /\ RingsOwned'
    BY <1>1, <1>2, <1>3, AllocKeeps
  <1>5. heapUsed + size <= HeapPages
    BY <1>1 DEF Alloc
  <1>6. TypeOK'
    BY <1>1, <1>2, <1>3, <1>4, <1>5, CreatedTypes DEF IInv, TypeOK
  <1>7. Tables'
    BY <1>1, <1>2, <1>3, <1>4, CreatedKeeps
  <1> QED BY <1>4, <1>6, <1>7 DEF Tables, IInv

LEMMA CreateChannelKeeps ==
  ASSUME IInv, NEW name \in Name, CreateChannel(name)
  PROVE  IInv'
  <1> DEFINE rings == RingsOf(heapUsed)
  <1>1. /\ CanCreate(name) /\ Created(name, ChannelPages, 2) /\ Len(channels) < MaxChannels
        /\ Alloc(ChannelPages, rings)
        /\ channels' = Append(channels, Opened)
        /\ UNCHANGED <<ipcReady, held, old, robbed, life>>
    BY DEF CreateChannel, users
  <1>2. ChannelPages = 3 /\ ChannelPages \in 1 .. ChannelPages
    BY DEF ChannelPages
  <1>3. /\ heapUsed' = heapUsed + ChannelPages /\ heapUsed' \in 0 .. HeapPages
        /\ queue' \in [Direction -> Seq(Message)]
        /\ \A dir \in Direction : Len(queue'[dir]) < RingSlots
        /\ own' \in SUBSET Direction /\ area' \in Message
        /\ newest' \in Direction \cup {"none"}
        /\ RingsOwned'
    BY <1>1, <1>2, AllocKeeps
  <1>4. heapUsed + ChannelPages <= HeapPages
    BY <1>1 DEF Alloc
  <1>5. Opened \in Channel
    <2>1. nextHandle \in Handle /\ heapUsed \in 0 .. HeapPages
      BY <1>1, Types DEF IInv, TypeOK, TableInOrder, CanCreate, Handle
    <2> QED BY <2>1 DEF Channel, Opened
  <1>6. channels' \in Seq(Channel) /\ Len(channels') <= MaxChannels
    <2>1. channels \in Seq(Channel) /\ MaxChannels \in Nat
      BY IpcAssumption DEF IInv, TypeOK
    <2> QED BY <1>1, <1>5, <2>1
  <1>7. TypeOK'
    BY <1>1, <1>2, <1>3, <1>4, <1>6, CreatedTypes DEF IInv, TypeOK
  <1>8. Tables'
    BY <1>1, <1>2, <1>3, CreatedKeeps
  <1> QED BY <1>3, <1>7, <1>8 DEF Tables, IInv

LEMMA AttachKeeps ==
  ASSUME IInv, NEW h \in Handle, ShmAttach(h)
  PROVE  IInv'
  <1>1. /\ Has(h) /\ held[h] < MaxHeld /\ regions' = Refs(h, 1)
        /\ held' = [held EXCEPT ![h] = held[h] + 1]
        /\ UNCHANGED <<nextHandle, heapUsed, ipcReady, channels, main, old, robbed, life>>
    BY DEF ShmAttach
  <1>2. h \in DOMAIN regions /\ Live(regions[h])
    BY <1>1, HandleIsIndex
  <1>3. /\ held[h] \in 0 .. MaxHeld /\ MaxHeld \in Nat /\ regions[h].refs \in Nat
        /\ held \in [Handle -> 0 .. MaxHeld] /\ old \in [Handle -> Nat]
    <2>1. regions[h].refs \in Nat
      BY <1>2, Types DEF Region
    <2> QED BY <2>1, Types DEF IInv, TypeOK
  <1>4. regions'[h].refs = regions[h].refs + 1
    <2>1. regions[h].refs + 1 >= 0 /\ 1 \in {-1, 1}
      BY <1>3
    <2> QED BY <1>1, <1>2, <2>1, RefsGives
  <1>5. /\ regions[h].refs <= 1 + held[h] + ChannelOf(h) /\ ChannelOf(h) \in {0, 1}
        /\ h \notin robbed => regions[h].refs = 1 + held[h] + ChannelOf(h)
    BY <1>2 DEF IInv, Counted, ChannelOf
  <1>6. held'[h] = held[h] + 1 /\ held' \in [Handle -> 0 .. MaxHeld]
    BY <1>1, <1>3
  <1>7. /\ regions'[h].refs <= 1 + held'[h] + ChannelOf(h)
        /\ h \notin robbed' => regions'[h].refs = 1 + held'[h] + ChannelOf(h)
    BY <1>1, <1>3, <1>4, <1>5, <1>6
  <1>8. 1 \in {-1, 1} /\ \A i \in Handle \ {h} : held'[i] = held[i]
    BY <1>1, <1>3
  <1> QED BY <1>1, <1>3, <1>6, <1>7, <1>8, RefsKeep

(* The count follows a user that detaches, unless somebody else took the   *)
(* last one away; one that detaches by an old handle leaves it too low.    *)
LEMMA DetachKeeps ==
  ASSUME IInv, NEW h \in Handle, ShmDetach(h) \/ OldDetach(h)
  PROVE  IInv'
  <1> DEFINE d == -1
  <1>1. /\ regions' = Refs(h, d) /\ d \in {-1, 1}
        /\ UNCHANGED <<nextHandle, heapUsed, ipcReady, channels, main, life>>
    BY DEF ShmDetach, OldDetach
  <1>2. /\ held \in [Handle -> 0 .. MaxHeld] /\ old \in [Handle -> Nat] /\ MaxHeld \in Nat
        /\ held[h] \in 0 .. MaxHeld
    BY Types DEF IInv, TypeOK
  <1>3. ASSUME Has(h)
        PROVE  /\ h \in DOMAIN regions /\ regions[h].refs \in Nat /\ ChannelOf(h) \in {0, 1}
               /\ regions'[h].refs = IF regions[h].refs = 0 THEN 0 ELSE regions[h].refs - 1
               /\ regions[h].refs <= 1 + held[h] + ChannelOf(h)
               /\ h \notin robbed => regions[h].refs = 1 + held[h] + ChannelOf(h)
    <2>1. h \in DOMAIN regions /\ Live(regions[h])
      BY <1>3, HandleIsIndex
    <2>2. regions[h].refs \in Nat
      BY <2>1, Types DEF Region
    <2>3. regions'[h].refs = IF regions[h].refs + d >= 0 THEN regions[h].refs + d ELSE regions[h].refs
      <3> HIDE DEF d
      <3> QED BY <1>1, <1>3, <2>1, RefsGives
    <2>4. ChannelOf(h) \in {0, 1}
      BY DEF ChannelOf
    <2> QED BY <2>1, <2>2, <2>3, <2>4 DEF IInv, Counted
  <1>4. CASE ShmDetach(h)
    <2>1. held[h] > 0 /\ held' = [held EXCEPT ![h] = held[h] - 1] /\ UNCHANGED <<old, robbed>>
      BY <1>4 DEF ShmDetach
    <2>2. /\ held' \in [Handle -> 0 .. MaxHeld] /\ held'[h] = held[h] - 1
          /\ \A i \in Handle \ {h} : held'[i] = held[i]
      BY <1>2, <2>1
    <2>3. Has(h) => /\ regions'[h].refs <= 1 + held'[h] + ChannelOf(h)
                    /\ h \notin robbed' => regions'[h].refs = 1 + held'[h] + ChannelOf(h)
      BY <1>2, <1>3, <2>1, <2>2
    <2> HIDE DEF d
    <2> QED BY <1>1, <1>2, <2>1, <2>2, <2>3, RefsKeep
  <1>5. CASE OldDetach(h)
    <2>1. /\ held' = held /\ old[h] > 0 /\ old' = [old EXCEPT ![h] = old[h] - 1]
          /\ robbed' = IF Has(h) THEN robbed \cup {h} ELSE robbed
      BY <1>5 DEF OldDetach
    <2>2. old' \in [Handle -> Nat]
      BY <1>2, <2>1
    <2>3. robbed' \subseteq robbed \cup (DOMAIN regions \cap {h})
      BY <1>3, <2>1
    <2>4. Has(h) => /\ regions'[h].refs <= 1 + held'[h] + ChannelOf(h)
                    /\ h \in robbed'
      BY <1>2, <1>3, <2>1
    <2> HIDE DEF d
    <2> QED BY <1>1, <1>2, <2>1, <2>2, <2>3, <2>4, RefsKeep
  <1> QED BY <1>4, <1>5

(* Nobody has what is destroyed, if it was not robbed: its count was its   *)
(* creator alone.  A channel may be closed in the same step.               *)
LEMMA DestroyedKeeps ==
  ASSUME IInv, TypeOK', UNCHANGED <<nextHandle, heapUsed, queue, own, held, robbed>>,
         \/ regions' = regions
         \/ \E h : Has(h) /\ regions' = Destroyed(h),
         DOMAIN channels' = DOMAIN channels,
         \A c \in DOMAIN channels : /\ channels'[c].handle = channels[c].handle
                                    /\ channels'[c].base = channels[c].base
                                    /\ channels'[c].stale = channels[c].stale
  PROVE  IInv'
  <1>1. \A i : ChannelOf(i)' = ChannelOf(i)
    BY DEF ChannelOf
  <1>4. RingsOwned'
    BY DEF IInv, RingsOwned
  <1>2. CASE regions' = regions
    <2>1. TableInOrder'
      BY <1>2 DEF IInv, TableInOrder, Live
    <2>2. ChannelsOwn'
      BY <1>2 DEF IInv, ChannelsOwn, Live
    <2>3. Counted'
      BY <1>1, <1>2 DEF IInv, Counted, Live
    <2> QED BY <1>4, <2>1, <2>2, <2>3 DEF IInv
  <1>3. CASE regions' # regions
    <2>1. PICK h : Has(h) /\ regions' = Destroyed(h)
      BY <1>3
    <2>2. h \in DOMAIN regions /\ Live(regions[h])
      BY <2>1, HandleIsIndex
    <2>3. regions' = [regions EXCEPT ![h] = Wiped] /\ ~(regions[h].refs > 1)
      BY <1>3, <2>1 DEF Destroyed
    <2>4. h \notin robbed => held[h] = 0 /\ ChannelOf(h) = 0
      <3>1. /\ h \notin robbed => regions[h].refs = 1 + held[h] + ChannelOf(h)
            /\ ChannelOf(h) \in {0, 1}
        BY <2>2 DEF IInv, Counted, ChannelOf
      <3>2. held[h] \in Nat /\ regions[h].refs \in Nat
        BY <2>2, Types DEF Region
      <3> QED BY <2>3, <3>1, <3>2
    <2>5. /\ DOMAIN regions' = DOMAIN regions /\ Len(regions') = Len(regions)
          /\ \A i \in DOMAIN regions : i # h => regions'[i] = regions[i]
          /\ ~Live(regions'[h])
      <3>1. regions \in Seq(Region)
        BY DEF IInv, TypeOK
      <3>2. Wiped.handle = 0
        BY DEF Wiped
      <3> QED BY <2>2, <2>3, <3>1, <3>2 DEF Live
    <2>6. h \notin robbed =>
            \A c \in DOMAIN channels : ~channels[c].stale => channels[c].handle # h
      BY <2>4 DEF ChannelOf
    <2>7. \A i \in DOMAIN regions : Live(regions'[i]) => Live(regions[i]) /\ regions'[i] = regions[i]
      BY <2>2, <2>5
    <2>8. TableInOrder'
      BY <2>5, <2>7 DEF IInv, TableInOrder
    <2>9. ChannelsOwn'
      BY <2>5, <2>6 DEF IInv, ChannelsOwn
    <2>10. Counted'
      <3>1. ASSUME NEW k \in Handle, held[k] > 0
            PROVE  k \in DOMAIN regions' /\ (k \notin robbed => Live(regions'[k]))
        <4>1. k \in DOMAIN regions /\ (k \notin robbed => k # h /\ Live(regions[k]))
          BY <2>4, <3>1 DEF IInv, Counted
        <4> QED BY <2>5, <4>1
      <3>2. ASSUME NEW i \in DOMAIN regions', Live(regions'[i])
            PROVE  /\ regions'[i].refs <= 1 + held'[i] + ChannelOf(i)'
                   /\ i \notin robbed' => regions'[i].refs = 1 + held'[i] + ChannelOf(i)'
        <4>1. i \in DOMAIN regions /\ Live(regions[i]) /\ regions'[i] = regions[i]
          BY <2>5, <2>7, <3>2
        <4> QED BY <1>1, <4>1 DEF IInv, Counted
      <3>3. robbed' \subseteq DOMAIN regions'
        BY <2>5 DEF IInv, Counted
      <3> QED BY <3>1, <3>2, <3>3 DEF Counted
    <2> QED BY <1>4, <2>8, <2>9, <2>10 DEF IInv
  <1> QED BY <1>2, <1>3

LEMMA DestroyedTypes ==
  ASSUME IInv, NEW h, Has(h)
  PROVE  Destroyed(h) \in Seq(Region) /\ Len(Destroyed(h)) <= MaxRegions
  <1>1. regions \in Seq(Region) /\ Len(regions) <= MaxRegions /\ h \in DOMAIN regions
    BY HandleIsIndex DEF IInv, TypeOK
  <1>2. Wiped \in Region
    BY IpcAssumption DEF Wiped, Region
  <1>3. /\ [regions EXCEPT ![h] = Wiped] \in Seq(Region)
        /\ Len([regions EXCEPT ![h] = Wiped]) = Len(regions)
    BY <1>1, <1>2
  <1> QED BY <1>1, <1>3 DEF Destroyed

LEMMA ShmDestroyKeeps ==
  ASSUME IInv, NEW h \in Handle, ShmDestroy(h)
  PROVE  IInv'
  <1>1. Has(h) /\ regions' = Destroyed(h)
        /\ UNCHANGED <<nextHandle, heapUsed, ipcReady, channels, queue, own, area, newest,
                       held, old, robbed, life>>
    BY HandleIsIndex DEF ShmDestroy, main, users
  <1>2. TypeOK'
    BY <1>1, DestroyedTypes DEF IInv, TypeOK
  <1> QED BY <1>1, <1>2, DestroyedKeeps

LEMMA DestroyChannelKeeps ==
  ASSUME IInv, NEW h \in Handle, DestroyChannel(h)
  PROVE  IInv'
  <1>1. PICK c \in DOMAIN channels :
          /\ channels' = [channels EXCEPT ![c].active = FALSE]
          /\ regions' = IF Has(h) THEN Destroyed(IndexOf(h)) ELSE regions
          /\ UNCHANGED <<nextHandle, heapUsed, ipcReady, queue, own, area, newest,
                         held, old, robbed, life>>
    BY DEF DestroyChannel, main, users
  <1>2. \/ regions' = regions
        \/ Has(h) /\ regions' = Destroyed(h)
    BY <1>1, HandleIsIndex
  <1>3. channels \in Seq(Channel) /\ \A d \in DOMAIN channels : channels[d] \in Channel
    BY Types DEF IInv, TypeOK
  <1>4. ASSUME NEW ch \in Channel
        PROVE  LET closed == [ch EXCEPT !.active = FALSE]
               IN  /\ closed \in Channel
                   /\ closed.handle = ch.handle /\ closed.base = ch.base /\ closed.stale = ch.stale
    BY DEF Channel
  <1>5. channels' = [channels EXCEPT ![c] = [channels[c] EXCEPT !.active = FALSE]]
    BY <1>1
  <1>6. channels' \in Seq(Channel) /\ Len(channels') = Len(channels)
    BY <1>3, <1>4, <1>5
  <1>7. /\ DOMAIN channels' = DOMAIN channels
        /\ \A d \in DOMAIN channels : /\ channels'[d].handle = channels[d].handle
                                      /\ channels'[d].base = channels[d].base
                                      /\ channels'[d].stale = channels[d].stale
    BY <1>3, <1>4, <1>5
  <1>8. TypeOK'
    BY <1>1, <1>2, <1>6, DestroyedTypes DEF IInv, TypeOK
  <1> QED BY <1>1, <1>2, <1>7, <1>8, DestroyedKeeps

------------------------------------------------------------------------------
(* The memory manager starts again: no region, no user of one, and what    *)
(* channels there were have nothing behind them.                           *)
LEMMA RestartedTypes ==
  ASSUME IInv, Restarted
  PROVE  /\ held' = [h \in Handle |-> 0] /\ held' \in [Handle -> 0 .. MaxHeld]
         /\ old' \in [Handle -> Nat] /\ robbed' = {} /\ robbed' \in SUBSET Handle
         /\ life' \in 0 .. MaxLives
  <1>1. life \in 0 .. MaxLives /\ MaxLives \in Nat /\ MaxHeld \in Nat
    BY IpcAssumption DEF IInv, TypeOK
  <1>2. \A h \in Handle : old[h] \in Nat /\ held[h] \in Nat
    BY <1>1 DEF IInv, TypeOK
  <1> QED BY <1>1, <1>2 DEF Restarted

LEMMA HwInitKeeps ==
  ASSUME IInv, HwInit
  PROVE  IInv'
  <1> DEFINE r == MainRegion
             ch == MainChannel
  <1>1. /\ Restarted
        /\ regions' = <<r>> /\ nextHandle' = 2 /\ heapUsed' = 5
        /\ channels' = <<ch>> /\ ipcReady' = TRUE
        /\ queue' = NoTraffic /\ own' = Direction /\ newest' = newest /\ area' = Empty
    BY DEF HwInit, MainHandle, DriverPages, ChannelPages
  <1>2. /\ HeapPages \in Nat \ {0} /\ MaxRegions \in Nat \ {0} /\ MaxHeld \in Nat
        /\ MaxChannels \in Nat \ {0} /\ RingSlots \in Nat /\ RingSlots > 1
        /\ HeapPages >= 5
    BY IpcAssumption DEF DriverPages, ChannelPages
  <1>4. /\ r.handle = 1 /\ r.base = 2 /\ r.size = 3 /\ r.refs = 2 /\ r.name = MainName
        /\ ch.handle = 1 /\ ch.base = 2 /\ ch.active = TRUE /\ ch.stale = FALSE
    BY DEF MainRegion, MainChannel, MainHandle, MainBase, DriverPages, ChannelPages
  <1>3. r \in Region /\ ch \in Channel
    <2>1. /\ 1 \in Handle /\ 2 \in 0 .. HeapPages /\ 3 \in 0 .. HeapPages
          /\ 2 \in 0 .. MaxHeld + 2 /\ MainName \in Name
      BY <1>2 DEF Handle, Name
    <2>2. /\ r = [handle |-> 1, base |-> 2, size |-> 3, refs |-> 2, name |-> MainName]
          /\ ch = [handle |-> 1, base |-> 2, active |-> TRUE, stale |-> FALSE]
      BY DEF MainRegion, MainChannel, MainHandle, MainBase, DriverPages, ChannelPages
    <2> HIDE DEF r, ch
    <2> QED BY <2>1, <2>2 DEF Region, Channel
  <1> HIDE DEF r, ch
  <1>5. /\ regions' \in Seq(Region) /\ Len(regions') = 1 /\ DOMAIN regions' = {1}
        /\ regions'[1] = r
    BY <1>1, <1>3
  <1>6. /\ channels' \in Seq(Channel) /\ Len(channels') = 1 /\ DOMAIN channels' = {1}
        /\ channels'[1] = ch
    BY <1>1, <1>3
  <1>7. TypeOK'
    <2>1. queue' \in [Direction -> Seq(Message)]
          /\ \A dir \in Direction : Len(queue'[dir]) < RingSlots
      <3>1. <<>> \in Seq(Message) /\ Len(<<>>) = 0
        OBVIOUS
      <3> QED BY <1>1, <1>2, <3>1 DEF NoTraffic
    <2>2. /\ nextHandle' \in 1 .. MaxRegions + 1 /\ heapUsed' \in 0 .. HeapPages
          /\ 1 <= MaxRegions /\ 1 <= MaxChannels
      BY <1>1, <1>2
    <2>3. own' \in SUBSET Direction /\ area' \in Message
      BY <1>1 DEF Message
    <2> QED BY <1>1, <1>5, <1>6, <2>1, <2>2, <2>3, RestartedTypes DEF IInv, TypeOK
  <1>8. TableInOrder'
    BY <1>1, <1>4, <1>5 DEF TableInOrder
  <1>9. ChannelsOwn'
    BY <1>4, <1>5, <1>6 DEF ChannelsOwn, Live
  <1>10. Counted'
    <2>1. ChannelOf(1)' = 1
      BY <1>4, <1>6 DEF ChannelOf
    <2>2. 1 \in Handle /\ \A h \in Handle : held'[h] = 0
      BY <1>1, <1>2, RestartedTypes DEF Handle
    <2> QED BY <1>1, <1>4, <1>5, <2>1, <2>2, RestartedTypes DEF Counted
  <1>11. RingsOwned'
    BY <1>1, <1>4, <1>6 DEF RingsOwned, MainBase, AreaPage, DriverPages, ChannelPages
  <1> QED BY <1>7, <1>8, <1>9, <1>10, <1>11 DEF IInv

LEMMA HwInitWithoutIpcKeeps ==
  ASSUME IInv, HwInitWithoutIpc
  PROVE  IInv'
  <1>1. /\ Restarted /\ regions' = <<>> /\ nextHandle' = 1 /\ heapUsed' = 2
        /\ channels' = Forgotten /\ UNCHANGED <<ipcReady, queue, own, area, newest>>
    BY DEF HwInitWithoutIpc, main, DriverPages
  <1>2. channels \in Seq(Channel) /\ \A c \in DOMAIN channels : channels[c] \in Channel
    BY Types DEF IInv, TypeOK
  <1>3. ASSUME NEW ch \in Channel
        PROVE  [ch EXCEPT !.stale = TRUE] \in Channel /\ [ch EXCEPT !.stale = TRUE].stale
    BY DEF Channel
  <1>4. /\ channels' \in Seq(Channel) /\ Len(channels') = Len(channels)
        /\ \A c \in DOMAIN channels' : channels'[c].stale
    <2>1. DOMAIN channels' = DOMAIN channels
      BY <1>1 DEF Forgotten
    <2>2. \A c \in DOMAIN channels : channels'[c] \in Channel /\ channels'[c].stale
      BY <1>1, <1>2, <1>3 DEF Forgotten
    <2>3. channels' = [c \in 1 .. Len(channels) |-> channels'[c]] /\ Len(channels) \in Nat
          /\ DOMAIN channels = 1 .. Len(channels)
      BY <1>1, <1>2 DEF Forgotten
    <2> QED BY <2>1, <2>2, <2>3
  <1>5. Len(<<>>) = 0 /\ DOMAIN <<>> = {} /\ <<>> \in Seq(Region)
    OBVIOUS
  <1>6. /\ HeapPages \in Nat /\ MaxRegions \in Nat /\ HeapPages >= 2
    BY IpcAssumption DEF DriverPages, ChannelPages
  <1>7. TypeOK'
    BY <1>1, <1>4, <1>5, <1>6, RestartedTypes DEF IInv, TypeOK
  <1>8. robbed' = {} /\ \A h \in Handle : held'[h] = 0
    BY <1>1, RestartedTypes
  <1>9. TableInOrder' /\ ChannelsOwn' /\ Counted'
    BY <1>1, <1>4, <1>5, <1>8 DEF TableInOrder, ChannelsOwn, Counted
  <1>10. RingsOwned'
    <2>1. \A dir \in Direction : ~(RingPage(dir) < heapUsed')
      BY <1>1 DEF RingPage, MainBase, DriverPages
    <2> QED BY <1>1, <1>4, <2>1 DEF IInv, RingsOwned
  <1> QED BY <1>7, <1>9, <1>10 DEF IInv

------------------------------------------------------------------------------
(* Messages leave the regions alone. *)
LEMMA TransmitKeeps ==
  ASSUME IInv, NEW dir \in Direction, NEW m \in Message, Transmit(dir, m)
  PROVE  IInv'
  <1>1. /\ queue' = [queue EXCEPT ![dir] = Append(queue[dir], m)]
        /\ dir \in own /\ Len(queue[dir]) < RingSlots - 1
        /\ area' \in {area, m} /\ newest' \in {newest, dir}
        /\ UNCHANGED <<regions, nextHandle, heapUsed, ipcReady, channels, own,
                       held, old, robbed, life>>
    BY DEF Transmit, table, users
  <1>2. queue[dir] \in Seq(Message) /\ RingSlots \in Nat
    BY IpcAssumption DEF IInv, TypeOK
  <1>3. Append(queue[dir], m) \in Seq(Message) /\ Len(Append(queue[dir], m)) < RingSlots
    BY <1>1, <1>2
  <1>4. TypeOK'
    BY <1>1, <1>3 DEF IInv, TypeOK
  <1>5. heapUsed' \in Nat /\ heapUsed' >= heapUsed
    BY <1>1, Types
  <1>6. RingsOwned'
    BY <1>1 DEF IInv, TypeOK, RingsOwned
  <1> QED BY <1>1, <1>4, <1>5, <1>6, TableStays DEF Tables, IInv

LEMMA ReceiveKeeps ==
  ASSUME IInv, NEW dir \in Direction, NEW buffer, Receive(dir, buffer)
  PROVE  IInv'
  <1>1. /\ queue' = [queue EXCEPT ![dir] = Tail(queue[dir])]
        /\ dir \in own /\ queue[dir] # <<>>
        /\ UNCHANGED <<regions, nextHandle, heapUsed, ipcReady, channels, own, area, newest,
                       held, old, robbed, life>>
    BY DEF Receive, table, users
  <1>2. queue[dir] \in Seq(Message) /\ RingSlots \in Nat /\ Len(queue[dir]) < RingSlots
    BY IpcAssumption DEF IInv, TypeOK
  <1>3. Tail(queue[dir]) \in Seq(Message) /\ Len(Tail(queue[dir])) < RingSlots
    BY <1>1, <1>2
  <1>4. TypeOK'
    BY <1>1, <1>3 DEF IInv, TypeOK
  <1>5. heapUsed' \in Nat /\ heapUsed' >= heapUsed
    BY <1>1, Types
  <1>6. RingsOwned'
    BY <1>1 DEF IInv, TypeOK, RingsOwned
  <1> QED BY <1>1, <1>4, <1>5, <1>6, TableStays DEF Tables, IInv

LEMMA NextInv == IInv /\ [Next]_vars => IInv'
  <1> SUFFICES ASSUME IInv, [Next]_vars PROVE IInv'
    OBVIOUS
  <1>1. CASE HwInit
    BY <1>1, HwInitKeeps
  <1>2. CASE HwInitWithoutIpc
    BY <1>2, HwInitWithoutIpcKeeps
  <1>3. CASE ShmCreate
    BY <1>3, ShmCreateKeeps
  <1>4. CASE Kmalloc
    BY <1>4, KmallocKeeps
  <1>5. ASSUME NEW h \in Handle, ShmAttach(h) \/ ShmDetach(h) \/ OldDetach(h)
        PROVE  IInv'
    BY <1>5, AttachKeeps, DetachKeeps
  <1>6. ASSUME NEW h \in Handle, ShmDestroy(h)
        PROVE  IInv'
    BY <1>6, ShmDestroyKeeps
  <1>7. ASSUME NEW h \in Handle, DestroyChannel(h)
        PROVE  IInv'
    BY <1>7, DestroyChannelKeeps
  <1>8. ASSUME NEW name \in Name, CreateChannel(name)
        PROVE  IInv'
    BY <1>8, CreateChannelKeeps
  <1>9. ASSUME NEW m \in Message, SendOnMain(m) \/ NotifyEvent(m) \/ PeerSends(m)
        PROVE  IInv'
    <2>1. \E dir \in Direction : Transmit(dir, m)
      BY <1>9 DEF SendOnMain, NotifyEvent, PeerSends, Direction
    <2> QED BY <2>1, TransmitKeeps
  <1>10. CASE Poll \/ PeerReceives
    <2>1. \E dir \in Direction, buffer \in BOOLEAN : Receive(dir, buffer)
      BY <1>10 DEF Poll, PeerReceives, Direction
    <2> QED BY <2>1, ReceiveKeeps
  <1>11. CASE UNCHANGED vars
    <2>1. UNCHANGED <<regions, nextHandle, heapUsed, ipcReady, channels, queue, own, area, newest,
                      held, old, robbed, life>>
      BY <1>11 DEF vars, table, main, users
    <2>2. TypeOK' /\ RingsOwned'
      BY <2>1 DEF IInv, TypeOK, RingsOwned
    <2>3. heapUsed' \in Nat /\ heapUsed' >= heapUsed
      BY <2>1, Types
    <2> QED BY <2>1, <2>2, <2>3, TableStays DEF Tables, IInv
  <1> QED BY <1>1, <1>2, <1>3, <1>4, <1>5, <1>6, <1>7, <1>8, <1>9, <1>10, <1>11 DEF Next

LEMMA Invariance == Spec => []IInv
  BY InitInv, NextInv, PTL DEF Spec

------------------------------------------------------------------------------
(* The table, the heap, the channels and the rings stay within their bounds *)
(* (shared_memory.c:62-72, zero_copy.c:41, 54).                             *)
THEOREM TypeCorrect == Spec => []TypeOK
  <1>1. IInv => TypeOK
    BY DEF IInv
  <1> QED BY <1>1, Invariance, PTL

(* The count of a live region is that of its creator, its channel and its  *)
(* users, none of whom has a region that is gone; it is too low, and never *)
(* too high, when a user from before a restart detached by that handle     *)
(* (shared_memory.c:82-119, 137).                                          *)
THEOREM CountsAreExact == Spec => []RefsExact
  <1>1. ASSUME IInv PROVE RefsExact
    <2>1. ASSUME NEW h \in Handle \ robbed, held[h] > 0
          PROVE  Has(h)
      BY <1>1, <2>1, LiveHas DEF IInv, Counted
    <2>2. ASSUME NEW i \in LiveRegions
          PROVE  LET r == regions[i]
                 IN  /\ r.refs <= References(r.handle)
                     /\ r.handle \notin robbed => r.refs = References(r.handle)
      <3> DEFINE mine == {c \in DOMAIN channels : channels[c].handle = i /\ ~channels[c].stale}
      <3>1. /\ i \in DOMAIN regions /\ regions[i].handle = i
            /\ regions[i].refs <= 1 + held[i] + ChannelOf(i)
            /\ i \notin robbed => regions[i].refs = 1 + held[i] + ChannelOf(i)
        BY <1>1 DEF LiveRegions, IInv, TableInOrder, Counted
      <3>2. Cardinality(mine) = ChannelOf(i)
        <4>1. CASE mine = {}
          <5>1. ChannelOf(i) = 0
            BY <4>1 DEF ChannelOf
          <5> QED BY <4>1, <5>1, FS_EmptySet
        <4>2. CASE mine # {}
          <5>1. PICK c \in DOMAIN channels : channels[c].handle = i /\ ~channels[c].stale
            BY <4>2
          <5>2. mine = {c}
            BY <1>1, <5>1 DEF IInv, ChannelsOwn
          <5>3. ChannelOf(i) = 1
            BY <5>1 DEF ChannelOf
          <5>4. Cardinality({c}) = 1
            BY FS_Singleton
          <5> QED BY <5>2, <5>3, <5>4
        <4> QED BY <4>1, <4>2
      <3>3. References(i) = 1 + held[i] + ChannelOf(i)
        BY <3>2 DEF References
      <3> QED BY <3>1, <3>3
    <2> QED BY <2>1, <2>2 DEF RefsExact
  <1> QED BY <1>1, Invariance, PTL

(* Whatever is created, destroyed, allocated and detached late, an open    *)
(* channel that was made since the last restart has a live region behind   *)
(* it that overlaps no other, if no user from before the restart detached  *)
(* its handle, and the main rings are still rings                          *)
(* (shared_memory.c:27-36, 102-119; zero_copy.c:65-108).                   *)
THEOREM ChannelsAreBacked == Spec => []ChannelBacked
  <1>1. ASSUME IInv PROVE ChannelBacked
    <2> SUFFICES ASSUME NEW c \in DOMAIN channels, ~channels[c].stale,
                        channels[c].handle \notin robbed
                 PROVE  LET h == channels[c].handle
                        IN  /\ Has(h)
                            /\ regions[IndexOf(h)].base = channels[c].base
                            /\ \A j \in LiveRegions \ {IndexOf(h)} :
                                 Pages(regions[j]) \cap Pages(regions[IndexOf(h)]) = {}
      BY <1>1 DEF ChannelBacked, IInv, RingsOwned
    <2> DEFINE h == channels[c].handle
    <2>1. h \in DOMAIN regions /\ Live(regions[h]) /\ regions[h].base = channels[c].base
      BY <1>1 DEF IInv, ChannelsOwn
    <2>2. Has(h) /\ IndexOf(h) = h
      BY <1>1, <2>1, LiveHas, HandleIsIndex
    <2> HIDE DEF h
    <2>3. ASSUME NEW j \in LiveRegions, j # h
          PROVE  Pages(regions[j]) \cap Pages(regions[h]) = {}
      <3>1. /\ j \in DOMAIN regions /\ Live(regions[j]) /\ j \in Nat /\ h \in Nat
            /\ regions[j].base \in Nat /\ regions[j].size \in Nat
            /\ regions[h].base \in Nat /\ regions[h].size \in Nat
        BY <1>1, <2>1, Types DEF LiveRegions, Region
      <3>2. \/ regions[j].base + regions[j].size <= regions[h].base
            \/ regions[h].base + regions[h].size <= regions[j].base
        <4>1. j < h \/ h < j
          BY <2>3, <3>1
        <4> QED BY <1>1, <2>1, <3>1, <4>1 DEF IInv, TableInOrder
      <3> QED BY <3>1, <3>2 DEF Pages
    <2> QED BY <2>1, <2>2, <2>3 DEF h
  <1> QED BY <1>1, Invariance, PTL

------------------------------------------------------------------------------
(* The payload area. *)

(* The last message of q that has a payload is the one in the area.        *)
NewestIs(q) == \A i \in DOMAIN q :
                 /\ q[i] # Empty
                 /\ \A j \in DOMAIN q : j > i => q[j] = Empty
                 => q[i] = area

LEMMA IntactSame ==
  ASSUME NewestIntact, UNCHANGED <<queue, area, newest>>
  PROVE  NewestIntact'
  BY DEF NewestIntact

(* Who takes the memory of the area took that of the rings before.         *)
LEMMA AllocIntact ==
  ASSUME IInv, NewestIntact, NEW size \in Nat, NEW rings, Alloc(size, rings)
  PROVE  NewestIntact'
  <1> DEFINE zeroed == heapUsed .. heapUsed + size - 1
             lost == {dir \in Direction : RingPage(dir) \in zeroed}
  <1>1. /\ queue' = [dir \in Direction |-> IF dir \in lost THEN <<>> ELSE queue[dir]]
        /\ area' = IF AreaPage \in zeroed THEN Empty ELSE area
        /\ newest' = newest /\ newest \in Direction \cup {"none"}
    BY DEF Alloc, IInv, TypeOK
  <1> SUFFICES ASSUME newest # "none", queue'[newest] # <<>>
               PROVE  queue'[newest] = queue[newest] /\ area' = area
    <2>1. CASE newest = "none"
      BY <1>1, <2>1 DEF NewestIntact
    <2>2. CASE newest # "none" /\ queue'[newest] = <<>>
      <3>1. DOMAIN queue'[newest] = {}
        BY <2>2
      <3> QED BY <1>1, <3>1 DEF NewestIntact
    <2>3. CASE newest # "none" /\ queue'[newest] # <<>>
      <3> HIDE DEF lost, zeroed
      <3> QED BY <1>1, <2>3 DEF NewestIntact
    <2> HIDE DEF lost, zeroed
    <2> QED BY <2>1, <2>2, <2>3
  <1>2. newest \in Direction /\ newest \notin lost /\ queue'[newest] = queue[newest]
    BY <1>1
  <1>3. newest \in own
    BY <1>2 DEF IInv, RingsOwned
  <1>4. RingPage(newest) \in Nat /\ RingPage(newest) < AreaPage /\ AreaPage \in Nat /\ heapUsed \in Nat
    BY Types DEF RingPage, AreaPage, MainBase, DriverPages
  <1>5. ~(RingPage(newest) < heapUsed /\ heapUsed <= AreaPage)
    BY <1>2, <1>3 DEF IInv, RingsOwned
  <1>6. AreaPage \notin zeroed
    BY <1>2, <1>4, <1>5
  <1> QED BY <1>1, <1>2, <1>6

LEMMA TransmitIntact ==
  ASSUME IInv, NewestIntact, NEW dir \in Direction, NEW m \in Message, Transmit(dir, m)
  PROVE  NewestIntact'
  <1>1. /\ queue \in [Direction -> Seq(Message)]
        /\ queue' = [queue EXCEPT ![dir] = Append(queue[dir], m)]
        /\ m = Empty => area' = area /\ newest' = newest
        /\ m # Empty => area' = m /\ newest' = dir
    BY DEF Transmit, IInv, TypeOK
  <1> DEFINE q == queue[dir]
             z == queue'[dir]
  <1>2. PICK n \in Nat : n = Len(q)
    BY <1>1
  <1>3. /\ DOMAIN q = 1 .. n /\ DOMAIN z = 1 .. n + 1
        /\ z[n + 1] = m /\ \A i \in 1 .. n : z[i] = q[i]
    <2>1. z = Append(q, m) /\ q \in Seq(Message)
      BY <1>1
    <2> HIDE DEF q, z
    <2> QED BY <1>2, <2>1
  <1>4. CASE m # Empty
    <2>1. \A i \in DOMAIN z :
            /\ z[i] # Empty
            /\ \A j \in DOMAIN z : j > i => z[j] = Empty
            => z[i] = m
      <3> HIDE DEF q, z
      <3> SUFFICES ASSUME NEW i \in 1 .. n + 1, \A j \in 1 .. n + 1 : j > i => z[j] = Empty
                   PROVE  z[i] = m
        BY <1>3
      <3>1. n + 1 \in 1 .. n + 1 /\ z[n + 1] # Empty
        BY <1>3, <1>4
      <3>2. i = n + 1
        BY <3>1
      <3> QED BY <1>3, <3>2
    <2> QED BY <1>1, <1>4, <2>1 DEF NewestIntact
  <1>5. CASE m = Empty /\ newest = dir
    <2>1. NewestIs(q)
      BY <1>5 DEF NewestIntact, NewestIs, Direction
    <2>2. \A i \in DOMAIN z :
            /\ z[i] # Empty
            /\ \A j \in DOMAIN z : j > i => z[j] = Empty
            => z[i] = area
      <3> HIDE DEF q, z
      <3> SUFFICES ASSUME NEW i \in 1 .. n + 1, z[i] # Empty,
                          \A j \in 1 .. n + 1 : j > i => z[j] = Empty
                   PROVE  z[i] = area
        BY <1>3
      <3>1. i \in 1 .. n
        BY <1>3, <1>5
      <3>2. \A j \in 1 .. n : j > i => q[j] = Empty
        BY <1>3
      <3> QED BY <1>3, <2>1, <3>1, <3>2 DEF NewestIs
    <2> QED BY <1>1, <1>5, <2>2 DEF NewestIntact
  <1>6. CASE m = Empty /\ newest # dir
    <2>1. newest # "none" => queue'[newest] = queue[newest]
      <3>1. newest \in Direction \cup {"none"}
        BY DEF IInv, TypeOK
      <3> QED BY <1>1, <1>6, <3>1
    <2> QED BY <1>1, <1>6, <2>1 DEF NewestIntact
  <1> QED BY <1>4, <1>5, <1>6

LEMMA ReceiveIntact ==
  ASSUME IInv, NewestIntact, NEW dir \in Direction, NEW buffer, Receive(dir, buffer)
  PROVE  NewestIntact'
  <1>1. /\ queue \in [Direction -> Seq(Message)] /\ queue[dir] # <<>>
        /\ queue' = [queue EXCEPT ![dir] = Tail(queue[dir])]
        /\ area' = area /\ newest' = newest
        /\ newest \in Direction \cup {"none"}
    BY DEF Receive, IInv, TypeOK
  <1> DEFINE q == queue[dir]
             z == queue'[dir]
  <1>2. PICK n \in Nat : n = Len(q)
    BY <1>1
  <1>3. /\ DOMAIN q = 1 .. n /\ DOMAIN z = 1 .. n - 1
        /\ \A i \in 1 .. n - 1 : z[i] = q[i + 1]
    <2>1. z = Tail(q) /\ q \in Seq(Message) /\ q # <<>>
      BY <1>1
    <2> HIDE DEF q, z
    <2> QED BY <1>2, <2>1
  <1>4. CASE newest = dir
    <2>1. NewestIs(q)
      BY <1>4 DEF NewestIntact, NewestIs, Direction
    <2>2. \A i \in DOMAIN z :
            /\ z[i] # Empty
            /\ \A j \in DOMAIN z : j > i => z[j] = Empty
            => z[i] = area
      <3> HIDE DEF q, z
      <3> SUFFICES ASSUME NEW i \in 1 .. n - 1, z[i] # Empty,
                          \A j \in 1 .. n - 1 : j > i => z[j] = Empty
                   PROVE  z[i] = area
        BY <1>3
      <3>1. i + 1 \in 1 .. n /\ z[i] = q[i + 1]
        BY <1>3
      <3>2. ASSUME NEW j \in 1 .. n, j > i + 1
            PROVE  q[j] = Empty
        <4>1. j - 1 \in 1 .. n - 1 /\ j - 1 > i /\ (j - 1) + 1 = j
          BY <3>2
        <4> QED BY <1>3, <4>1
      <3> QED BY <1>3, <2>1, <3>1, <3>2 DEF NewestIs
    <2> QED BY <1>1, <1>4, <2>2 DEF NewestIntact
  <1>5. CASE newest # dir
    <2>1. newest # "none" => queue'[newest] = queue[newest]
      BY <1>1, <1>5
    <2> QED BY <1>1, <1>5, <2>1 DEF NewestIntact
  <1> QED BY <1>4, <1>5

LEMMA NextIntact == IInv /\ NewestIntact /\ [Next]_vars => NewestIntact'
  <1> SUFFICES ASSUME IInv, NewestIntact, [Next]_vars PROVE NewestIntact'
    OBVIOUS
  <1>1. CASE HwInit
    <2>1. \A dir \in Direction : queue'[dir] = <<>>
      BY <1>1 DEF HwInit, NoTraffic
    <2>2. newest' \in Direction \cup {"none"} /\ DOMAIN <<>> = {}
      BY <1>1 DEF HwInit, IInv, TypeOK
    <2> QED BY <2>1, <2>2 DEF NewestIntact
  <1>2. ASSUME NEW m \in Message, SendOnMain(m) \/ NotifyEvent(m) \/ PeerSends(m)
        PROVE  NewestIntact'
    <2>1. \E dir \in Direction : Transmit(dir, m)
      BY <1>2 DEF SendOnMain, NotifyEvent, PeerSends, Direction
    <2> QED BY <2>1, TransmitIntact
  <1>3. CASE Poll \/ PeerReceives
    <2>1. \E dir \in Direction, buffer \in BOOLEAN : Receive(dir, buffer)
      BY <1>3 DEF Poll, PeerReceives, Direction
    <2> QED BY <2>1, ReceiveIntact
  <1>4. CASE ShmCreate \/ Kmalloc \/ \E name \in Name : CreateChannel(name)
    <2>1. \E size \in Nat, rings \in SUBSET Direction : Alloc(size, rings)
      <3>1. CASE ShmCreate
        BY <3>1 DEF ShmCreate
      <3>2. CASE Kmalloc
        BY <3>2 DEF Kmalloc
      <3>3. ASSUME NEW name \in Name, CreateChannel(name)
            PROVE  \E size \in Nat, rings \in SUBSET Direction : Alloc(size, rings)
        <4>1. Alloc(ChannelPages, RingsOf(heapUsed)) /\ RingsOf(heapUsed) \in SUBSET Direction
          BY <3>3 DEF CreateChannel, RingsOf
        <4>2. ChannelPages \in Nat
          BY DEF ChannelPages
        <4> QED BY <4>1, <4>2
      <3> QED BY <1>4, <3>1, <3>2, <3>3
    <2> QED BY <2>1, AllocIntact
  <1>5. CASE \/ HwInitWithoutIpc \/ UNCHANGED vars
             \/ \E h \in Handle : \/ ShmAttach(h) \/ ShmDetach(h) \/ OldDetach(h)
                                  \/ ShmDestroy(h) \/ DestroyChannel(h)
    <2>1. UNCHANGED <<queue, area, newest>>
      BY <1>5 DEF HwInitWithoutIpc, vars, main,
                  ShmAttach, ShmDetach, OldDetach, ShmDestroy, DestroyChannel
    <2> QED BY <2>1, IntactSame
  <1> QED BY <1>1, <1>2, <1>3, <1>4, <1>5 DEF Next

(* Whatever is sent, received, refused, allocated and restarted, in either *)
(* direction, the payload that was written last is the one in the payload  *)
(* area as long as its message is in the ring, which a message in front of *)
(* it may keep it in for ever (zero_copy.c:144-159, 199-201;               *)
(* shared_memory.c:32-34).                                                 *)
THEOREM NewestIsIntact == Spec => []NewestIntact
  <1>1. Init => IInv /\ NewestIntact
    BY InitInv DEF Init, NewestIntact
  <1>2. IInv /\ NewestIntact /\ [Next]_vars => (IInv /\ NewestIntact)'
    BY NextInv, NextIntact
  <1> QED BY <1>1, <1>2, PTL DEF Spec
==============================================================================
