---------------------------- MODULE MCUdpReader ----------------------------
EXTENDS UdpReader

(* The last packets of the segments, if the stream begins with a segment.   *)
LastOf(n) == First + (n * readbytes - 1) \div udpsize
Ends == {LastOf(n) : n \in 1 .. (Last * udpsize) \div readbytes} \cap First .. Last

(* Those of a segment that begins or ends where a packet does.              *)
Aligned == {LastOf(n) : n \in {m \in 1 .. Last : (m * readbytes) % udpsize = 0
                                               \/ ((m - 1) * readbytes) % udpsize = 0}}

(* The losses that readnetwork accounts for: never the last packet of such  *)
(* a segment, and when a segment's last packet is lost then one comes from  *)
(* the next segment that its last packet cannot overtake.                   *)
McLosses ==
    {L \in UNION {kSubset(k, First + 1 .. Last) : k \in 0 .. 2} :
        \A e \in Ends \cap L :
            /\ e \notin Aligned
            /\ \A f \in Ends : f > e => \E p \in e + 1 .. f - 1 - Reach : p \notin L}
(* Any run of packets.                                                      *)

McKept == {First} \cup Aligned
=============================================================================
