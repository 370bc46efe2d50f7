------------------------------- MODULE Muxer -------------------------------
(***************************************************************************)
(* VDIFMuxer: a file in which several threads' VDIF frames are interlaced   *)
(* becomes one stream of single-thread frames (datamuxer.cpp), as           *)
(* DataStream's reader drives it (readonedemux and diskToMemory).           *)
(*                                                                          *)
(* Two reads ahead of the output, each read is cleaned of bytes that are no *)
(* frame (datacheck), its frames are filed by thread and time in rings of   *)
(* thread buffers (deinterlace), and the oldest times are taken out of the  *)
(* rings, their samples interleaved into one frame per time (multiplex,     *)
(* cornerturn).                                                             *)
(*                                                                          *)
(* The file is a sequence of words: a frame is a header followed by         *)
(* W 32-bit words of samples, and a word that is neither is junk.           *)
(***************************************************************************)
EXTENDS Integers, Sequences, FiniteSets, SequencesExt

CONSTANTS
    W,              \* 32-bit words of samples in an input frame
    ReadTimes,      \* readframes / numthreads: the times one read holds
    FramesPerSecond,\* frames per second of one thread
    Inputs          \* the files: [threads, bits, words], threads a power of two

ASSUME MuxerAssumption ==
    /\ W \in Nat \ {0} /\ ReadTimes \in Nat \ {0} /\ FramesPerSecond \in Nat \ {0}
    /\ \A i \in Inputs : i.threads \in {1, 2, 4, 8, 16} /\ 32 % (i.bits * i.threads) = 0

VARIABLES
    input,              \* the file
    at,                 \* words of it read
    ref,                \* frame number of the first frame (refframesecond, refframenumber)
    threadbuffers,      \* thread -> index -> the frame there
    bufferframefull,    \* thread -> index -> whether it waits to be multiplexed
    threadbufferfree,   \* thread -> free part of the ring, in frames
    processframenumber, \* times taken out so far
    pc,                 \* "open", "second", "read", "mux", "done" or "abort"
    segment,            \* what multiplex wrote last
    previous,           \* history: the last time written before that
    written             \* history: the times written as valid

fileVars == <<input, at, ref>>
ringVars == <<threadbuffers, bufferframefull, threadbufferfree, processframenumber>>
outVars  == <<segment, previous, written>>
vars     == <<fileVars, ringVars, pc, outVars>>

(***************************************************************************)
(* Words and frames.                                                        *)
(***************************************************************************)
Junk == [is |-> "junk"]
IsHeader(w) == w.is = "header"
Header(thread, time) ==
    [is |-> "header", thread |-> thread,
     second |-> time \div FramesPerSecond, number |-> time % FramesPerSecond]
Data(thread, time, i) == [is |-> "data", thread |-> thread, time |-> time, word |-> i]
FrameOf(thread, time) ==
    <<Header(thread, time)>> \o [i \in 1 .. W |-> Data(thread, time, i - 1)]

FrameWords == W + 1
ReadWords  == ReadTimes * input.threads * FrameWords    \* segmentbytes
RingTimes  == 4 * ReadTimes                             \* numthreadbufframes
Threads    == 0 .. input.threads - 1
TimeOf(h)  == h.second * FramesPerSecond + h.number
Sample(w, k) == IF w.is = "data" THEN <<w.thread, w.time, w.word * (32 \div input.bits) + k>>
                                 ELSE <<"junk">>

(***************************************************************************)
(* datacheck: every place where a frame should start and does not is closed *)
(* up to the next one; the words now missing at the end are to be read.     *)
(***************************************************************************)
FrameStarts(buffer, p) == IsHeader(buffer[p + 1])

CloseUp(buffer, p, next, left) ==
    SubSeq(buffer, 1, p) \o SubSeq(buffer, next + 1, left)
        \o SubSeq(buffer, left - (next - p) + 1, Len(buffer))

RECURSIVE DataCheck(_, _, _)
DataCheck(buffer, p, missing) ==
    LET left == Len(buffer) - missing
    IN  IF p > left - FrameWords THEN [buffer |-> buffer, missing |-> missing]
        ELSE IF FrameStarts(buffer, p) THEN DataCheck(buffer, p + FrameWords, missing)
        ELSE LET next == CHOOSE q \in p + 1 .. left :
                             /\ q = left \/ FrameStarts(buffer, q)
                             /\ \A r \in p + 1 .. q - 1 : ~FrameStarts(buffer, r)
             IN  DataCheck(CloseUp(buffer, p, next, left), p + FrameWords, missing + (next - p))

Get(from, n) == SubSeq(input.words, from + 1, Min({from + n, Len(input.words)}))

(* The loop of readonedemux that refills the buffer until datacheck is content. *)
RECURSIVE Refill(_, _)
Refill(checked, from) ==
    LET buffer == checked.buffer
        kept   == Len(buffer) - checked.missing
        more   == Get(from, checked.missing)
        filled == SubSeq(buffer, 1, kept) \o more \o SubSeq(buffer, kept + Len(more) + 1, Len(buffer))
    IN  IF checked.missing = 0 THEN [buffer |-> buffer, at |-> from]
        ELSE Refill(DataCheck(filled, (kept \div FrameWords) * FrameWords, 0), from + Len(more))

(***************************************************************************)
(* deinterlace: a frame goes to its thread's ring by its time, unless it is *)
(* of no wanted thread or before what is being taken out.  One that is      *)
(* beyond the ring stops the correlator.                                    *)
(***************************************************************************)
FrameAt(buffer, i) == SubSeq(buffer, (i - 1) * FrameWords + 1, i * FrameWords)

Frames(buffer) == [i \in 1 .. Len(buffer) \div FrameWords |-> FrameAt(buffer, i)]

FrameNumber(frame, first) == TimeOf(frame[1]) - first

Offset(frame, first) == FrameNumber(frame, first) - processframenumber

(* A frame of the time that is taken out next is late already.              *)
WantedLater(frame, first) ==
    /\ frame[1].thread \in Threads
    /\ Offset(frame, first) > 0

Wanted(frame, first) ==
    /\ frame[1].thread \in Threads
    /\ FrameNumber(frame, first) >= 0
    /\ Offset(frame, first) >= 0

TooFar(frame, first) == Wanted(frame, first) /\ Offset(frame, first) >= RingTimes

Place(frame, first) == <<frame[1].thread, FrameNumber(frame, first) % RingTimes>>

(* Of two frames for a place the later one stays.                           *)
Deinterlace(frames, first) ==
    LET filed  == {n \in DOMAIN frames : Wanted(frames[n], first)}
        at_(p) == {n \in filed : Place(frames[n], first) = p}
        of(t)  == {n \in filed : frames[n][1].thread = t}
    IN  [buffers |-> [t \in Threads |-> [i \in 0 .. RingTimes - 1 |->
                        IF at_(<<t, i>>) = {} THEN threadbuffers[t][i]
                        ELSE frames[Max(at_(<<t, i>>))]]],
         full    |-> [t \in Threads |-> [i \in 0 .. RingTimes - 1 |->
                        bufferframefull[t][i] \/ at_(<<t, i>>) # {}]],
         free    |-> [t \in Threads |->
                        IF of(t) = {} THEN threadbufferfree[t]
                        ELSE RingTimes - Offset(frames[Max(of(t))], first)]]

(***************************************************************************)
(* Corner turns.  A word is a function from the places of its samples to    *)
(* the samples; of a thread's frame, byte b holds samples 4b to 4b + 3      *)
(* when a sample has two bits.                                              *)
(***************************************************************************)
PerWord == 32 \div input.bits

InputSample(frame, k) == Sample(frame[2 + k \div PerWord], k % PerWord)

Byte(frame, b) == [r \in 0 .. 3 |-> InputSample(frame, 4 * b + r)]

Assemble(bytes) == [f \in 0 .. 15 |-> bytes[f \div 4 + 1][f % 4]]

(* cornerturn_generic: word j of the turn of the threads' word i.           *)
TurnGeneric(frames) ==
    LET T       == input.threads
        perTurn == PerWord \div T
    IN  [o \in 0 .. W * T - 1 |->
           [f \in 0 .. PerWord - 1 |->
              Sample(frames[f % T][2 + o \div T], (o % T) * perTurn + f \div T)]]

TurnOne(frames) == [o \in 0 .. W - 1 |-> [f \in 0 .. PerWord - 1 |-> Sample(frames[0][2 + o], f)]]

(* The masks, as how far each sample of the assembled word is shifted.      *)
Shift2 == [f \in 0 .. 15 |-> CASE f \in {0, 7, 8, 15} -> 0
                               [] f \in {6, 14} -> -1 [] f \in {1, 9}  -> 1
                               [] f \in {5, 13} -> -2 [] f \in {2, 10} -> 2
                               [] f \in {4, 12} -> -3 [] f \in {3, 11} -> 3]
Shift4 == [f \in 0 .. 15 |-> CASE f \in {0, 5, 10, 15} -> 0
                               [] f \in {4, 9, 14} -> -3 [] f \in {1, 6, 11} -> 3
                               [] f \in {8, 13} -> -6 [] f \in {2, 7} -> 6
                               [] f = 12 -> -9 [] f = 3 -> 9]

Shifted(x, shift) == [g \in 0 .. 15 |-> x[CHOOSE f \in 0 .. 15 : f + shift[f] = g]]

TurnTwo(frames) ==
    [o \in 0 .. 2 * W - 1 |->
       Shifted(Assemble(<<Byte(frames[0], 2 * o), Byte(frames[1], 2 * o),
                          Byte(frames[0], 2 * o + 1), Byte(frames[1], 2 * o + 1)>>), Shift2)]

(* Four threads from t on, byte i of each.                                  *)
Quad(frames, t, i) == Shifted(Assemble([n \in 1 .. 4 |-> Byte(frames[t + n - 1], i)]), Shift4)
QuadByte(frames, t, i, b) == [r \in 0 .. 3 |-> Quad(frames, t, i)[4 * b + r]]

TurnFour(frames) == [o \in 0 .. 4 * W - 1 |-> Quad(frames, 0, o)]

TurnEight(frames) ==
    [o \in 0 .. 8 * W - 1 |->
       LET b == 2 * (o % 2)
       IN  Assemble(<<QuadByte(frames, 0, o \div 2, b), QuadByte(frames, 4, o \div 2, b),
                      QuadByte(frames, 0, o \div 2, b + 1), QuadByte(frames, 4, o \div 2, b + 1)>>)]

(* The bytes of the threads in the order the eight-thread turn takes them.  *)
TurnSixteenPairs(frames) ==
    [o \in 0 .. 16 * W - 1 |->
       Assemble([n \in 1 .. 4 |-> QuadByte(frames, 4 * ((n - 1) % 2), o \div 4, o % 4)])]

TurnSixteen(frames) ==
    [o \in 0 .. 16 * W - 1 |->
       Assemble([n \in 1 .. 4 |-> QuadByte(frames, 4 * (n - 1), o \div 4, o % 4)])]

CornerTurn(frames) ==
    CASE input.threads = 1                      -> TurnOne(frames)
      [] input.threads = 2 /\ input.bits = 2    -> TurnTwo(frames)
      [] input.threads = 4 /\ input.bits = 2    -> TurnFour(frames)
      [] input.threads = 8 /\ input.bits = 2    -> TurnEight(frames)
      [] input.threads = 16 /\ input.bits = 2   -> TurnSixteen(frames)
      [] OTHER                                  -> TurnGeneric(frames)

(***************************************************************************)
(* multiplex.                                                               *)
(***************************************************************************)
ValidData(full, i) == \A t \in Threads : full[t][i]

Invalid(h) == [second |-> h.second, number |-> h.number, valid |-> FALSE, words |-> <<>>]

(* The number starts again without the next second.                         *)
FollowingSameSecond(o) ==
    [o EXCEPT !.valid = FALSE, !.words = <<>>, !.number = (@ + 1) % FramesPerSecond]

Following(o) ==
    IF o.number + 1 = FramesPerSecond
    THEN [o EXCEPT !.valid = FALSE, !.words = <<>>, !.number = 0, !.second = @ + 1]
    ELSE [o EXCEPT !.valid = FALSE, !.words = <<>>, !.number = @ + 1]

FirstFull(i) == CHOOSE t \in Threads : bufferframefull[t][i]
                                       /\ \A u \in 0 .. t - 1 : ~bufferframefull[u][i]

Append1(out, i) ==
    LET h == threadbuffers[0][i][1]
    IN  IF ValidData(bufferframefull, i)
        THEN Append(out, [second |-> h.second, number |-> h.number, valid |-> TRUE,
                          words |-> CornerTurn([t \in Threads |-> threadbuffers[t][i]])])
        ELSE IF \E t \in Threads : bufferframefull[t][i]
        THEN Append(out, Invalid(threadbuffers[FirstFull(i)][i][1]))
        ELSE IF out # <<>> THEN Append(out, Following(Last(out)))
        ELSE out

Index(f) == (processframenumber + f) % RingTimes

Multiplexed == FoldLeft(Append1, <<>>, [f \in 1 .. ReadTimes |-> Index(f - 1)])

(***************************************************************************)
(* Steps.                                                                   *)
(***************************************************************************)
NoFrame == <<>>

Init ==
    /\ input \in Inputs
    /\ at = 0 /\ ref = 0
    /\ threadbuffers = [t \in Threads |-> [i \in 0 .. RingTimes - 1 |-> NoFrame]]
    /\ bufferframefull = [t \in Threads |-> [i \in 0 .. RingTimes - 1 |-> FALSE]]
    /\ threadbufferfree = [t \in Threads |-> RingTimes]
    /\ processframenumber = 0
    /\ pc = "open"
    /\ segment = <<>> /\ previous = -1 /\ written = {}

(* min over the threads of the free part is less than 3/8 *)
GettingFull == \E t \in Threads : 8 * threadbufferfree[t] < 3 * RingTimes

SkipRead(next) == GettingFull /\ pc' = next /\ UNCHANGED <<fileVars, ringVars>>

ReadOneDemux(isfirst, next) ==
    /\ ~GettingFull
    /\ LET got    == Get(at, ReadWords)
           first  == IF isfirst THEN TimeOf(got[1]) ELSE ref
           read   == Refill(DataCheck(got, 0, 0), at + Len(got))
           frames == Frames(read.buffer)
       IN  /\ at' = read.at
           /\ ref' = first
           /\ IF \E i \in DOMAIN frames : TooFar(frames[i], first)
              THEN pc' = "abort" /\ UNCHANGED <<threadbuffers, bufferframefull, threadbufferfree>>
              ELSE LET rings == Deinterlace(frames, first)
                   IN  /\ threadbuffers' = rings.buffers
                       /\ bufferframefull' = rings.full
                       /\ threadbufferfree' = rings.free
                       /\ pc' = next
           /\ UNCHANGED <<input, processframenumber>>

OpenRead   == pc = "open" /\ ReadOneDemux(TRUE, "second") /\ UNCHANGED outVars
SecondRead == pc = "second" /\ ReadOneDemux(FALSE, "read") /\ UNCHANGED outVars
Read       == pc = "read" /\ ReadOneDemux(FALSE, "mux") /\ UNCHANGED outVars
Skip       == pc = "read" /\ SkipRead("mux") /\ UNCHANGED outVars

Multiplex ==
    /\ pc = "mux"
    /\ segment' = Multiplexed
    /\ previous' = IF segment = <<>> THEN previous ELSE TimeOf(Last(segment))
    /\ written' = written \cup {TimeOf(o) : o \in {s \in Range(Multiplexed) : s.valid}}
    /\ LET used == {Index(f) : f \in 0 .. ReadTimes - 1}
       IN  bufferframefull' = [t \in Threads |-> [i \in 0 .. RingTimes - 1 |->
                                  bufferframefull[t][i] /\ i \notin used]]
    /\ threadbufferfree' = [t \in Threads |-> threadbufferfree[t] + ReadTimes]
    /\ processframenumber' = processframenumber + ReadTimes
    /\ pc' = IF at = Len(input.words) THEN "done" ELSE "read"
    /\ UNCHANGED <<fileVars, threadbuffers>>

Stop == pc \in {"done", "abort"} /\ UNCHANGED vars

Next == OpenRead \/ SecondRead \/ Read \/ Skip \/ Multiplex \/ Stop

Spec == Init /\ [][Next]_vars

(***************************************************************************)
(* Properties.                                                              *)
(***************************************************************************)
(* The frames a segment receives are of consecutive times, after all the    *)
(* times of the segments before it, whatever frames the file lacks, whatever*)
(* order they come in and whatever lies between them: the second of a frame *)
(* that was made up for a lost one is right at the end of a second too.     *)
InOrder ==
    \A n \in DOMAIN segment :
        IF n = 1 THEN TimeOf(segment[1]) > previous
        ELSE TimeOf(segment[n]) = TimeOf(segment[n - 1]) + 1

(* In a valid frame every channel's samples are its thread's of the frame's *)
(* time, in order: the rings never mix two times, and each corner turn puts *)
(* sample k of thread l at place k * numthreads + l.                        *)
SamplesTurned ==
    \A o \in {s \in Range(segment) : s.valid} :
        \A l \in Threads : \A k \in 0 .. PerWord * W - 1 :
            LET place == k * input.threads + l
            IN  o.words[place \div PerWord][place % PerWord] = <<l, TimeOf(o), k>>

(* The times for which the file holds a frame of every thread.              *)
Complete ==
    LET onFile == {<<w.thread, TimeOf(w)>> : w \in {v \in Range(input.words) : IsHeader(v)}}
    IN  {time \in ref .. ref + processframenumber - 1 : Threads \X {time} \subseteq onFile}

(* Every time that has been taken out and for which the file holds a frame  *)
(* of each thread was written as valid: reading ahead of the output is      *)
(* enough for frames that come late, and reads skipped because the rings    *)
(* were getting full lose nothing.                                          *)
NothingLost == pc \notin {"open", "abort"} => Complete \subseteq written
=============================================================================
