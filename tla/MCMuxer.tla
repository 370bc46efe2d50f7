------------------------------ MODULE MCMuxer ------------------------------
(* Muxer on every file that differs from a regular one in one way.          *)
EXTENDS Muxer

CONSTANTS
    Formats,    \* <<threads, bits>> that are tried
    Faulty,     \* those of them whose files have faults too
    Times,      \* times in a regular file
    MaxJunk,    \* longest run of words that are no frame
    MaxGap      \* most times lost in a row

Regular(T) == [i \in 1 .. T * Times |-> <<(i - 1) % T, 1 + (i - 1) \div T>>]

Drop(s, i) == SubSeq(s, 1, i - 1) \o SubSeq(s, i + 1, Len(s))
Late(s, i, d) == SubSeq(s, 1, i - 1) \o SubSeq(s, i + 1, i + d) \o <<s[i]>> \o SubSeq(s, i + d + 1, Len(s))

Written(s) ==
    [p \in 1 .. Len(s) * FrameWords |->
       LET i == 1 + (p - 1) \div FrameWords
       IN  FrameOf(s[i][1], s[i][2])[1 + ((p - 1) % FrameWords)]]

Clean(T) == {Regular(T)}
Lost(T)  == {Drop(Regular(T), i) : i \in 2 .. T * Times}
Gaps(T)  == {SelectSeq(Regular(T), LAMBDA f : f[2] \notin t .. t + g - 1) :
                t \in 2 .. Times, g \in 1 .. MaxGap}
(* A frame may come as late as the two reads that are ahead of the output.  *)
Ahead(T)  == 2 * ReadTimes * T
Delays(T) == {Late(Regular(T), i, d) : i \in 2 .. T * Times - Ahead(T), d \in 1 .. Ahead(T)}
Others(T) == {[Regular(T) EXCEPT ![i] = <<T, @[2]>>] : i \in 2 .. T * Times}

WithJunk(T) ==
    {Written(SubSeq(Regular(T), 1, i)) \o [j \in 1 .. n |-> Junk]
        \o Written(SubSeq(Regular(T), i + 1, T * Times)) : i \in 1 .. T * Times, n \in 1 .. MaxJunk}

Files(f) ==
    LET T == f[1]
        orders == Clean(T) \cup IF f \in Faulty
                                THEN Lost(T) \cup Gaps(T) \cup Delays(T) \cup Others(T) ELSE {}
    IN  {Written(s) : s \in orders} \cup IF f \in Faulty THEN WithJunk(T) ELSE {}

McInputs == UNION {{[threads |-> f[1], bits |-> f[2], words |-> w] : w \in Files(f)} : f \in Formats}

McFormats == {<<1, 2>>, <<2, 2>>, <<4, 2>>, <<8, 2>>, <<16, 2>>, <<2, 1>>, <<4, 4>>}
McFaulty == {<<1, 2>>, <<2, 2>>, <<2, 1>>}
=============================================================================
