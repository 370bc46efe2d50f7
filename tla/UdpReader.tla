----------------------------- MODULE UdpReader -----------------------------
(***************************************************************************)
(* Mk5DataStream's reader of UDP packets (mk5.cpp): readnetwork puts the    *)
(* packets it receives where their sequence numbers say in the databuffer   *)
(* segment that networkToMemory asks it to fill, keeps what of the last     *)
(* packet belongs to the next segment, and puts a fill pattern where a      *)
(* packet is missing.  A packet is recognised as late, duplicate, good, the *)
(* segment's last or beyond it; either of the last two ends the segment.    *)
(*                                                                          *)
(* The network loses, repeats and reorders packets.  Bytes are counted in   *)
(* units; a unit of the stream is <<packet, offset in it>>.                 *)
(***************************************************************************)
EXTENDS Integers, Sequences, FiniteSets, FiniteSetsExt

CONSTANTS
    udpsize,      \* units of a packet
    readbytes,    \* units of a segment
    First, Last,  \* sequence numbers of the packets that are sent
    Losses,       \* the sets of packets that may be lost
    Kept,         \* packets that are not overtaken
    MaxRepeated,  \* packets that may come twice
    Reach         \* how far a packet may overtake others

ASSUME UdpAssumption ==
    /\ udpsize \in Nat \ {0} /\ readbytes \in Nat \ {0}
    /\ First \in Nat \ {0} /\ Last \in Nat /\ First < Last
    /\ Losses \subseteq SUBSET (First .. Last)
    /\ MaxRepeated \in Nat /\ Reach \in Nat

VARIABLES
    net,                  \* packets on their way
    repeated,             \* how many packets came twice
    packet_segmentstart,  \* packet the segment starts in
    packet_head,          \* newest packet seen
    udp_offset,           \* units from the segment's start to the end of what is left over
    udp_buf,              \* the last packet received, or what is left of it
    memory,               \* the segment
    pc,                   \* "call", "receive", "fill" or "closed"
    segmentend,           \* local: the segment's last packet
    offset,               \* local: udp_offset while the segment is read
    arrived,              \* local: packets_arrived
    next,                 \* local: next_segmentstart and next_udpoffset
    origin,               \* history: the packet the stream was found to start with
    base,                 \* history: units of the stream before the next segment
    received              \* history: packets received

netVars   == <<net, repeated>>
leftVars  == <<packet_segmentstart, udp_offset>>
localVars == <<segmentend, offset, arrived, next>>
vars == <<netVars, leftVars, packet_head, udp_buf, memory, pc, localVars, origin, base, received>>

Fill  == <<"fill">>
Stale == <<"stale">>
Packet(p) == [j \in 1 .. udpsize |-> <<p, j - 1>>]

(* memcpy(ptr + at, from, n) and memmove(udp_buf, udp_buf + n, ...).        *)
Copy(to, at, from, n) ==
    [j \in DOMAIN to |-> IF j \in at + 1 .. at + n THEN from[j - at] ELSE to[j]]
Rest(buf, n) == [j \in DOMAIN buf |-> IF j + n \in DOMAIN buf THEN buf[j + n] ELSE buf[j]]

Segmentsize == segmentend - packet_segmentstart + 1

Nothing == [start |-> 0, offset |-> 0]

Init ==
    /\ \E lost \in Losses : net = (First .. Last) \ lost
    /\ repeated = 0
    /\ packet_segmentstart = 0 /\ packet_head = 0 /\ udp_offset = 0
    /\ udp_buf = [j \in 1 .. udpsize |-> Stale]
    /\ memory = [j \in 1 .. readbytes |-> Stale]
    /\ pc = "call"
    /\ segmentend = 0 /\ offset = 0 /\ arrived = {} /\ next = Nothing
    /\ origin = 0 /\ base = 0 /\ received = {}

(***************************************************************************)
(* The network.                                                             *)
(***************************************************************************)
Deliverable(p) ==
    /\ p \in net
    /\ p <= Min(net) + Reach
    /\ \A q \in net : q < p => q \notin Kept
    /\ p \in Kept => p = Min(net)

(* Delivered, and perhaps to come again.                                    *)
Deliver(p) ==
    /\ Deliverable(p)
    /\ \/ net' = net \ {p} /\ UNCHANGED repeated
       \/ repeated < MaxRepeated /\ repeated' = repeated + 1 /\ UNCHANGED net
    /\ received' = received \cup {p}

(***************************************************************************)
(* networkToMemory and the start of readnetwork.                            *)
(***************************************************************************)
Ceiling(start, off, n) ==
    start + ((n - (off % udpsize) - 1) \div udpsize) + (IF off > 0 /\ off < n THEN 1 ELSE 0)

(* Several whole segments are missing: networkToMemory passes over them.    *)
Skip == IF udp_offset > readbytes THEN udp_offset - (udp_offset % readbytes) ELSE 0

(* What is left over of the last packet is copied first.  If the packet is  *)
(* beyond the segment, or ends beyond it, there is nothing to receive.      *)
LeftOver(start, off, end) ==
    LET index == (off - 1) \div udpsize
        part  == ((off - 1) % udpsize) + 1
        size  == end - start + 1
        taken == IF index < size THEN {index} ELSE {}
    IN  IF off = 0
        THEN [offset |-> udpsize, arrived |-> {}, memory |-> memory, buf |-> udp_buf,
              done |-> FALSE, next |-> next]
        ELSE IF readbytes >= part + index * udpsize
        THEN [offset |-> part, arrived |-> taken, done |-> FALSE, next |-> next, buf |-> udp_buf,
              memory |-> IF index = 0 THEN Copy(memory, 0, udp_buf, part)
                         ELSE Copy(memory, part + (index - 1) * udpsize, udp_buf, udpsize)]
        ELSE IF index >= size
        THEN [offset |-> part, arrived |-> taken, memory |-> memory, buf |-> udp_buf, done |-> TRUE,
              next |-> [start |-> IF part = udpsize THEN end + 1 ELSE end,
                        offset |-> off - readbytes]]
        ELSE IF index = 0
        THEN [offset |-> part - readbytes, arrived |-> taken, done |-> TRUE,
              memory |-> Copy(memory, 0, udp_buf, readbytes), buf |-> Rest(udp_buf, readbytes),
              next |-> [start |-> IF part > readbytes THEN end ELSE end + 1,
                        offset |-> part - readbytes]]
        ELSE LET n == (readbytes - part) % udpsize
             IN  [offset |-> udpsize - n, arrived |-> taken, done |-> TRUE,
                  memory |-> Copy(memory, part + (index - 1) * udpsize, udp_buf, n),
                  buf |-> Rest(udp_buf, n), next |-> [start |-> packet_head, offset |-> 0]]

Call ==
    /\ pc = "call"
    /\ LET start == packet_segmentstart + (Skip - (udp_offset % udpsize)) \div udpsize
           from  == IF Skip > 0 THEN start ELSE packet_segmentstart
           off   == IF Skip > 0 THEN udp_offset % readbytes ELSE udp_offset
           end   == Ceiling(from, off, readbytes)
           left  == LeftOver(from, off, end)
       IN  /\ packet_segmentstart' = from
           /\ udp_offset' = off
           /\ segmentend' = end
           /\ offset' = left.offset
           /\ arrived' = left.arrived
           /\ memory' = left.memory
           /\ udp_buf' = left.buf
           /\ next' = left.next
           /\ pc' = IF left.done THEN "fill" ELSE "receive"
           /\ base' = base + Skip
    /\ UNCHANGED <<netVars, packet_head, origin, received>>

(***************************************************************************)
(* The loop of readnetwork: one packet received.  The first packet ever     *)
(* says where the stream starts.                                            *)
(***************************************************************************)
IsFirst(p) == packet_head = 0 /\ p # 0

Start(p)  == IF IsFirst(p) THEN p ELSE packet_segmentstart
End(p)    == IF IsFirst(p) THEN p + (readbytes - 1) \div udpsize ELSE segmentend
Newest(p) == IF IsFirst(p) THEN p ELSE packet_head

At(p) == p - Start(p)

Place(p) == offset + (At(p) - 1) * udpsize

Receive(p) ==
    /\ pc = "receive"
    /\ Deliver(p)
    /\ packet_segmentstart' = Start(p)
    /\ segmentend' = End(p)
    /\ origin' = IF IsFirst(p) THEN p ELSE origin

(* Whatever is behind the newest packet is taken for a duplicate.           *)
IgnoredBehind(p) == At(p) < 0 \/ (p < End(p) /\ p <= packet_head)

Ignored(p) == At(p) < 0 \/ (p < End(p) /\ At(p) < Segmentsize /\ At(p) \in arrived)

Late(p) ==
    /\ Receive(p) /\ Ignored(p)
    /\ udp_buf' = Packet(p)
    /\ packet_head' = Newest(p)
    /\ UNCHANGED <<udp_offset, memory, pc, offset, arrived, next, base>>

Units(p) ==
    IF offset = udpsize /\ Segmentsize = 1 THEN readbytes
    ELSE ((readbytes - offset - 1) % udpsize) + 1

(* What remains of the segment's last packet is kept for the next segment.  *)
LastOne(p) ==
    /\ Receive(p) /\ At(p) >= 0 /\ p = End(p)
    /\ memory' = Copy(memory, Place(p), Packet(p), Units(p))
    /\ udp_buf' = Rest(Packet(p), Units(p))
    /\ next' = [start |-> IF Units(p) = udpsize THEN p + 1 ELSE p, offset |-> udpsize - Units(p)]
    /\ packet_head' = p
    /\ arrived' = arrived \cup {At(p)}
    /\ pc' = "fill"
    /\ UNCHANGED <<udp_offset, offset, base>>

(* The rest of the segment is missing: the packet is for a later one.       *)
Beyond(p) ==
    /\ Receive(p) /\ p > End(p) /\ At(p) >= Segmentsize
    /\ udp_buf' = Packet(p)
    /\ next' = [start |-> IF offset = udpsize THEN End(p) + 1 ELSE End(p),
                offset |-> udpsize - ((readbytes - offset) % udpsize) + udpsize * (p - End(p))]
    /\ packet_head' = p
    /\ pc' = "fill"
    /\ UNCHANGED <<udp_offset, memory, offset, arrived, base>>

Good(p) ==
    /\ Receive(p) /\ At(p) >= 0 /\ p < End(p) /\ ~Ignored(p)
    /\ udp_buf' = Packet(p)
    /\ memory' = Copy(memory, Place(p), Packet(p), udpsize)
    /\ arrived' = arrived \cup {At(p)}
    /\ packet_head' = Max({Newest(p), p})
    /\ UNCHANGED <<udp_offset, pc, offset, next, base>>

(***************************************************************************)
(* The end of readnetwork: fill for every packet that did not come.         *)
(***************************************************************************)

(* The rest of the segment is left as it was.                               *)
FillAllButLast(i) ==
    IF i = 0 THEN {0} \X {offset}
    ELSE IF i = segmentend - packet_segmentstart THEN {}
    ELSE {offset + (i - 1) * udpsize} \X {udpsize}

FillUnits(i) ==
    IF i = 0 THEN {0} \X {offset}
    ELSE IF i = segmentend - packet_segmentstart
    THEN {offset + (i - 1) * udpsize} \X {(readbytes - offset) % udpsize}
    ELSE {offset + (i - 1) * udpsize} \X {udpsize}

Missing == (0 .. Segmentsize - 1) \ arrived

FillIn ==
    /\ pc = "fill"
    /\ LET filled == UNION {UNION {f[1] + 1 .. f[1] + f[2] : f \in FillUnits(i)} : i \in Missing}
       IN  memory' = [j \in DOMAIN memory |-> IF j \in filled THEN Fill ELSE memory[j]]
    /\ packet_segmentstart' = next.start
    /\ udp_offset' = next.offset
    /\ base' = base + readbytes
    /\ pc' = "check"
    /\ segmentend' = 0 /\ offset' = 0 /\ arrived' = {} /\ next' = Nothing
    /\ UNCHANGED <<netVars, packet_head, udp_buf, origin, received>>

(* The segment is complete; another lap's data are in the next one.         *)
NextSegment ==
    /\ pc = "check"
    /\ pc' = "call"
    /\ memory' = [j \in 1 .. readbytes |-> Stale]
    /\ UNCHANGED <<netVars, leftVars, packet_head, udp_buf, localVars, origin, base, received>>

(* Nothing more comes: the read waits for a packet.                          *)
Waits == pc = "receive" /\ net = {} /\ UNCHANGED vars

Next ==
    \/ Call \/ FillIn \/ NextSegment \/ Waits
    \/ \E p \in First .. Last : Late(p) \/ LastOne(p) \/ Beyond(p) \/ Good(p)

Spec == Init /\ [][Next]_vars

(***************************************************************************)
(* Properties.                                                              *)
(***************************************************************************)
(* The place in the stream of place j of the segment that was filled last.  *)
InStream(j) == base - readbytes + j - 1

(* A segment that is complete holds the stream's own data, each unit at its *)
(* place, or the fill pattern: nothing of another lap of the ring, nothing  *)
(* shifted, whatever was lost, repeated or overtaken before.                *)
DataInPlace ==
    pc = "check" => \A j \in 1 .. readbytes :
        \/ memory[j] = Fill
        \/ /\ Len(memory[j]) = 2
           /\ udpsize * (memory[j][1] - origin) + memory[j][2] = InStream(j)

(* Where there is fill the packet had not come before the segment ended.    *)
NothingDropped ==
    pc = "check" => \A j \in 1 .. readbytes :
        memory[j] = Fill => origin + (InStream(j) \div udpsize) \notin received

=============================================================================
