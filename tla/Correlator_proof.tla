-------------------------- MODULE Correlator_proof --------------------------
(***************************************************************************)
(* Proofs about the messages between the processes, for every number of    *)
(* datastreams and cores: instruction and data meet at the core, nothing   *)
(* is left when the manager ends, and no core is passed over more often    *)
(* than twice by another.                                                  *)
(***************************************************************************)
EXTENDS Correlator, Sums

(***************************************************************************)
(* The types.                                                              *)
(***************************************************************************)
Messages == [core : Cores \cup {MANAGERID}, subint : Nat]
Stages == {"reading", "inconsistent", "barrier", "bcast", "waiting", "caughtup",
           "made", "execute", "finalize", "exit"}
ManagerSteps == {"loop", "time", "tell", "probe", "stopcores", "stopdatastreams", "end"}
DatastreamSteps == {"fill", "request", "post", "waitpost", "waitall", "drain", "end"}
CoreSteps == {"time", "data", "offer", "drain", "end"}

TypeInv ==
    /\ stage \in [Procs -> Stages]
    /\ mpc \in ManagerSteps
    /\ target \in Cores \cup {MANAGERID}
    /\ mpc \in {"time", "tell", "stopcores"} => target \in Cores
    /\ telling \in Nat
    /\ mpc \in {"tell", "stopdatastreams"} => telling \in Datastreams
    /\ sendcount \in 0 .. Subints
    /\ mpc \in {"time", "tell"} \/ (mpc = "probe" /\ owed = 0) => sendcount < Subints
    /\ terminatenow \in BOOLEAN
    /\ lastsource \in numdatastreams .. numdatastreams + numcores
    /\ probed \in 0 .. numcores
    /\ owed \in Nat
    /\ times \in [Cores -> Seq(Messages)]
    /\ instruction \in [Datastreams -> Seq(Messages)]
    /\ sends \in [Datastreams -> Seq(Messages)]
    /\ dpc \in [Datastreams -> DatastreamSteps]
    /\ doing \in [Datastreams -> Messages]
    /\ cpc \in [Cores -> CoreSteps]
    /\ got \in [Cores -> Nat]
    /\ ret \in [Cores -> Nat]
    /\ held \in [Cores -> [Datastreams -> Nat \cup {-1}]]
    /\ passed \in [Cores -> [Cores -> Nat]]

(***************************************************************************)
(* What is on its way.                                                     *)
(***************************************************************************)
(* A queue of messages in the order of the subintegrations they are for,   *)
(* the word to terminate last.                                             *)
InSequence(q) ==
    /\ \A i \in 1 .. Len(q) : q[i] # Terminate => q[i].core \in Cores
    /\ \A i \in 1 .. Len(q) : q[i] = Terminate => i = Len(q)
    /\ \A i, j \in 1 .. Len(q) : i < j /\ q[j] # Terminate => q[i].subint < q[j].subint
Contents(q) == {q[i] : i \in 1 .. Len(q)} \ {Terminate}
HasStop(q) == \E i \in 1 .. Len(q) : q[i] = Terminate

Doing(d) == IF dpc[d] \in {"post", "waitpost"} THEN {doing[d]} ELSE {}
Untold(d) == IF mpc = "tell" /\ telling <= d THEN {Process(target, sendcount)} ELSE {}
Held(c, d) ==
    IF cpc[c] = "data" /\ held[c][d] # -1 THEN {Process(c, held[c][d])} ELSE {}

(* What is on its way to the cores by datastream d.                        *)
Coming(d) == Contents(sends[d]) \cup Doing(d) \cup Contents(instruction[d]) \cup Untold(d)

(* The numbers grow along every queue, from the core back to the manager.  *)
GivenTo(d) == IF mpc = "tell" /\ d < telling THEN sendcount + 1 ELSE sendcount
TimesInv(c) ==
    /\ InSequence(times[c])
    /\ \A m \in Contents(times[c]) :
         m.core = c /\ m.subint < (IF mpc = "tell" THEN sendcount + 1 ELSE sendcount)
StreamInv(d) ==
    /\ InSequence(sends[d]) /\ ~HasStop(sends[d])
    /\ InSequence(instruction[d])
    /\ \A m \in Doing(d) : m.core \in Cores
    /\ \A m \in Contents(sends[d]), n \in Doing(d) : m.subint < n.subint
    /\ \A m \in Contents(sends[d]) \cup Doing(d), n \in Contents(instruction[d]) :
         m.subint < n.subint
    /\ \A m \in Contents(sends[d]) \cup Doing(d) \cup Contents(instruction[d]) :
         m.subint < GivenTo(d)
OrderInv == (\A c \in Cores : TimesInv(c)) /\ (\A d \in Datastreams : StreamInv(d))

(* What core c has been told of and has not done is what it holds of each  *)
(* datastream's data and what is still to come from there.                 *)
HeadInv(c) == cpc[c] = "data" => times[c] # << >> /\ Head(times[c]) # Terminate
Matched(c, d) ==
    /\ Contents(times[c]) = {m \in Coming(d) : m.core = c} \cup Held(c, d)
    /\ Held(c, d) \cap Coming(d) = {}
    /\ cpc[c] = "data" => held[c][d] \in {-1, Head(times[c]).subint}
MatchInv == \A c \in Cores : HeadInv(c) /\ \A d \in Datastreams : Matched(c, d)
LinkInv == OrderInv /\ MatchInv

(***************************************************************************)
(* The end.                                                                *)
(***************************************************************************)
(* The cores and the datastreams that have been told to terminate.         *)
Over == mpc \in {"stopdatastreams", "end"} \/ (mpc = "probe" /\ owed > 0)
Stopped(c) == Over \/ (mpc = "stopcores" /\ c < target)
StoppedToo(d) == mpc = "end" \/ (mpc = "probe" /\ owed > 0) \/ (mpc = "stopdatastreams" /\ d < telling)

StopInv ==
    /\ \A c \in Cores :
         /\ HasStop(times[c]) => Stopped(c)
         /\ cpc[c] \in {"drain", "end"} => times[c] = << >> /\ Stopped(c)
    /\ \A d \in Datastreams :
         HasStop(instruction[d]) => StoppedToo(d)
    /\ mpc = "end" => owed = 0
    /\ mpc \in {"loop", "time", "tell", "stopcores", "stopdatastreams"} => owed = 0
    /\ mpc = "probe" /\ owed = 0 => sendcount >= FillUp
    /\ terminatenow => sendcount >= FillUp
    /\ mpc = "stopcores" \/ Over => sendcount = Subints \/ sendcount >= FillUp

(* Subintegrations given to core c.                                        *)
Asked(c) == IF HasStop(times[c]) THEN Len(times[c]) - 1 ELSE Len(times[c])
Given(c) == got[c] + Asked(c)

(* The results of the ring that are still to be taken.                     *)
RingInv ==
    \A c \in Cores :
        /\ cpc[c] \in {"time", "data"} =>
             IF got[c] < RING THEN ret[c] = 0 ELSE got[c] = ret[c] + RING - 1
        /\ cpc[c] = "offer" => got[c] = ret[c] + RING
        /\ cpc[c] = "drain" => ret[c] < got[c]
        /\ cpc[c] = "end" => ret[c] = got[c]

(* Results that are to come.                                               *)
Missing == {r \in Cores \X Nat : ret[r[1]] <= r[2] /\ r[2] < Given(r[1])}
Number ==
    IF mpc = "end" \/ (mpc = "probe" /\ owed > 0) THEN owed
    ELSE IF sendcount < FillUp THEN (IF mpc = "tell" THEN sendcount + 1 ELSE sendcount)
    ELSE IF mpc = "time" THEN FillUp - 1 ELSE FillUp

CountInv ==
    /\ IsFiniteSet(Missing) /\ Cardinality(Missing) = Number
    /\ mpc = "time" /\ sendcount < numcores => target = numdatastreams + 1 + sendcount
    /\ \A c \in Cores : c - numdatastreams <= sendcount => Given(c) > 0
    /\ mpc = "tell" /\ sendcount < numcores =>
         Given(numdatastreams + 1 + sendcount) > 0

(***************************************************************************)
(* The turns.                                                              *)
(***************************************************************************)
(* After how many probes core x is the one that is probed.                 *)
Turn(x) == IF x > lastsource THEN x - lastsource ELSE x - lastsource + numcores
(* It has been probed since a result was taken last.                       *)
BehindProbe(c) == mpc = "probe" /\ probed > 0 /\ Turn(c) > numcores - probed

TurnInv ==
    \A b, c \in Cores : Offers(c) =>
        passed[c][b] <= (IF BehindProbe(c) THEN 0 ELSE 1) + (IF Turn(b) >= Turn(c) THEN 1 ELSE 0)

(***************************************************************************)
(* Facts.                                                                  *)
(***************************************************************************)
LEMMA Numbers ==
    /\ numdatastreams \in Nat /\ numdatastreams > 0
    /\ numcores \in Nat /\ numcores > 0
    /\ RING \in Nat /\ RING >= 2
    /\ Subints \in Nat
BY CorrelatorAssumption

LEMMA Ranks ==
    /\ \A c \in Cores : c \in Nat /\ numdatastreams < c /\ c <= numdatastreams + numcores
    /\ \A d \in Datastreams : d \in Nat /\ 1 <= d /\ d <= numdatastreams
    /\ MANAGERID \notin Cores
BY Numbers DEF Cores, Datastreams, MANAGERID, FIRSTTELESCOPEID

LEMMA MessageFacts ==
    /\ Terminate \in Messages
    /\ Terminate.core \notin Cores
    /\ \A c \in Cores, n \in Nat :
         /\ Process(c, n) \in Messages /\ Process(c, n) # Terminate
         /\ Process(c, n).core = c /\ Process(c, n).subint = n
    /\ \A m \in Messages : m.core \in Cores =>
         m # Terminate /\ m = Process(m.core, m.subint) /\ m.subint \in Nat
BY Ranks DEF Messages, Terminate, Process, MANAGERID

LEMMA FillFacts == FillUp \in Nat /\ FillUp >= numcores
<1>1. \A m, n \in Nat : m >= 1 => m * n \in Nat /\ m * n >= n
  OBVIOUS
<1> QED
  BY <1>1, Numbers DEF FillUp

(***************************************************************************)
(* Queues of messages.                                                     *)
(***************************************************************************)
LEMMA AppendQueue ==
  ASSUME NEW q \in Seq(Messages), NEW m \in Messages
  PROVE  /\ Append(q, m) \in Seq(Messages)
         /\ Len(Append(q, m)) = Len(q) + 1
         /\ Contents(Append(q, m)) = Contents(q) \cup ({m} \ {Terminate})
         /\ HasStop(Append(q, m)) <=> HasStop(q) \/ m = Terminate
         /\ q # << >> => Append(q, m) # << >> /\ Head(Append(q, m)) = Head(q)
         /\ InSequence(q) /\ ~HasStop(q)
              /\ (m # Terminate => m.core \in Cores /\ \A n \in Contents(q) : n.subint < m.subint)
              => InSequence(Append(q, m))
<1> DEFINE r == Append(q, m)
<1>1. /\ r \in Seq(Messages) /\ Len(r) = Len(q) + 1 /\ Len(q) \in Nat
      /\ \A i \in 1 .. Len(q) : r[i] = q[i]
      /\ r[Len(q) + 1] = m
      /\ q # << >> => r # << >> /\ Head(r) = Head(q)
  OBVIOUS
<1>2. 1 .. Len(r) = (1 .. Len(q)) \cup {Len(q) + 1}
  BY <1>1
<1> HIDE DEF r
<1>3. Contents(r) = Contents(q) \cup ({m} \ {Terminate})
  <2>1. \A i \in 1 .. Len(r) : r[i] \in {q[j] : j \in 1 .. Len(q)} \cup {m}
    BY <1>1, <1>2
  <2>2. \A i \in 1 .. Len(q) : q[i] \in {r[j] : j \in 1 .. Len(r)}
    BY <1>1, <1>2
  <2>3. m \in {r[j] : j \in 1 .. Len(r)}
    BY <1>1, <1>2
  <2> QED
    BY <2>1, <2>2, <2>3 DEF Contents
<1>4. HasStop(r) <=> HasStop(q) \/ m = Terminate
  BY <1>1, <1>2 DEF HasStop
<1>5. ASSUME InSequence(q), ~HasStop(q),
             m # Terminate => m.core \in Cores /\ \A n \in Contents(q) : n.subint < m.subint
      PROVE  InSequence(r)
  <2>1. \A i \in 1 .. Len(q) : q[i] # Terminate /\ q[i].core \in Cores /\ q[i] \in Contents(q)
    BY <1>5 DEF HasStop, InSequence, Contents
  <2>2. \A i \in 1 .. Len(r) : r[i] # Terminate => r[i].core \in Cores
    BY <1>1, <1>2, <1>5, <2>1
  <2>3. \A i \in 1 .. Len(r) : r[i] = Terminate => i = Len(r)
    BY <1>1, <1>2, <2>1
  <2>4. ASSUME NEW i \in 1 .. Len(r), NEW j \in 1 .. Len(r), i < j, r[j] # Terminate
        PROVE  r[i].subint < r[j].subint
    <3>1. CASE j = Len(q) + 1
      BY <3>1, <1>1, <1>2, <1>5, <2>1, <2>4
    <3>2. CASE j # Len(q) + 1
      BY <3>2, <1>1, <1>2, <1>5, <2>4 DEF InSequence
    <3> QED
      BY <3>1, <3>2
  <2> QED
    BY <2>2, <2>3, <2>4 DEF InSequence
<1> QED
  BY <1>1, <1>3, <1>4, <1>5 DEF r

LEMMA StopQueue ==
  ASSUME NEW q \in Seq(Messages), InSequence(q), ~HasStop(q)
  PROVE  LET r == Append(q, Terminate) IN
         /\ InSequence(r) /\ HasStop(r) /\ Len(r) = Len(q) + 1
         /\ Contents(r) = Contents(q)
         /\ q # << >> => r # << >> /\ Head(r) = Head(q)
<1>1. Terminate \in Messages
  BY MessageFacts
<1>2. Contents(q) \cup ({Terminate} \ {Terminate}) = Contents(q)
  OBVIOUS
<1> QED
  BY <1>1, <1>2, AppendQueue

LEMMA TailQueue ==
  ASSUME NEW q \in Seq(Messages), q # << >>, InSequence(q)
  PROVE  /\ Tail(q) \in Seq(Messages) /\ Head(q) \in Messages
         /\ Len(q) \in Nat /\ Len(q) > 0 /\ Len(Tail(q)) = Len(q) - 1
         /\ Contents(q) = Contents(Tail(q)) \cup ({Head(q)} \ {Terminate})
         /\ InSequence(Tail(q))
         /\ Head(q) = Terminate => Tail(q) = << >> /\ Contents(q) = {} /\ HasStop(q)
         /\ Head(q) # Terminate =>
              /\ Head(q).core \in Cores
              /\ HasStop(Tail(q)) <=> HasStop(q)
              /\ \A n \in Contents(Tail(q)) : Head(q).subint < n.subint
<1> DEFINE r == Tail(q)
<1>1. /\ r \in Seq(Messages) /\ Len(r) = Len(q) - 1 /\ Len(q) \in Nat /\ Len(q) > 0
      /\ \A i \in 1 .. Len(r) : r[i] = q[i + 1]
      /\ Head(q) = q[1] /\ q[1] \in Messages
  OBVIOUS
<1> HIDE DEF r
<1>2. /\ 1 \in 1 .. Len(q)
      /\ \A i \in 1 .. Len(r) : i + 1 \in 1 .. Len(q)
      /\ \A i \in 1 .. Len(q) : i = 1 \/ (i - 1 \in 1 .. Len(r) /\ q[i] = r[i - 1])
  BY <1>1
<1>3. Contents(q) = Contents(r) \cup ({Head(q)} \ {Terminate})
  <2>1. \A i \in 1 .. Len(r) : r[i] \in {q[j] : j \in 1 .. Len(q)}
    BY <1>1, <1>2
  <2>2. Head(q) \in {q[j] : j \in 1 .. Len(q)}
    BY <1>1, <1>2
  <2>3. \A i \in 1 .. Len(q) : q[i] \in {r[j] : j \in 1 .. Len(r)} \cup {Head(q)}
    BY <1>1, <1>2
  <2> QED
    BY <2>1, <2>2, <2>3 DEF Contents
<1>4. InSequence(r)
  <2>1. \A i \in 1 .. Len(r) : r[i] # Terminate => r[i].core \in Cores
    BY <1>1, <1>2 DEF InSequence
  <2>2. \A i \in 1 .. Len(r) : r[i] = Terminate => i = Len(r)
    BY <1>1, <1>2 DEF InSequence
  <2>3. \A i, j \in 1 .. Len(r) : i < j /\ r[j] # Terminate => r[i].subint < r[j].subint
    <3> TAKE i, j \in 1 .. Len(r)
    <3>1. i + 1 \in 1 .. Len(q) /\ j + 1 \in 1 .. Len(q)
      BY <1>2
    <3> QED
      BY <1>1, <3>1 DEF InSequence
  <2> QED
    BY <2>1, <2>2, <2>3 DEF InSequence
<1>5. ASSUME Head(q) = Terminate PROVE r = << >> /\ Contents(q) = {} /\ HasStop(q)
  <2>1. Len(q) = 1
    BY <1>1, <1>2, <1>5 DEF InSequence
  <2>2. r = << >>
    BY <1>1, <2>1
  <2> QED
    BY <1>1, <1>2, <1>3, <1>5, <2>1, <2>2 DEF Contents, HasStop
<1>6. ASSUME Head(q) # Terminate
      PROVE  /\ Head(q).core \in Cores /\ (HasStop(r) <=> HasStop(q))
             /\ \A n \in Contents(r) : Head(q).subint < n.subint
  <2>1. Head(q).core \in Cores
    BY <1>1, <1>2, <1>6 DEF InSequence
  <2>2. HasStop(r) <=> HasStop(q)
    BY <1>1, <1>2, <1>6 DEF HasStop
  <2>3. ASSUME NEW n \in Contents(r) PROVE Head(q).subint < n.subint
    <3>1. PICK i \in 1 .. Len(r) : n = r[i] /\ n # Terminate
      BY DEF Contents
    <3>2. i + 1 \in 1 .. Len(q) /\ 1 < i + 1 /\ q[i + 1] = n
      BY <1>1, <1>2, <3>1
    <3> QED
      BY <1>1, <1>2, <3>1, <3>2 DEF InSequence
  <2> QED
    BY <2>1, <2>2, <2>3
<1> QED
  BY <1>1, <1>3, <1>4, <1>5, <1>6 DEF r

LEMMA EmptyQueue ==
    << >> \in Seq(Messages) /\ Contents(<< >>) = {} /\ ~HasStop(<< >>) /\ InSequence(<< >>)
BY DEF Contents, HasStop, InSequence

(* MPI_Irecv of core c matches the oldest message for it.                  *)
OldestFor(c, q) == SelectInSeq(q, LAMBDA s : s.core = c)

LEMMA OldestIsFirst ==
  ASSUME NEW q \in Seq(Messages), NEW c, OldestFor(c, q) # 0
  PROVE  /\ OldestFor(c, q) \in 1 .. Len(q) /\ q[OldestFor(c, q)].core = c
         /\ \A i \in 1 .. Len(q) : q[i].core = c => OldestFor(c, q) <= i
<1> DEFINE I == {i \in 1 .. Len(q) : q[i].core = c}
           k == OldestFor(c, q)
<1>1. k = IF I # {} THEN Min(I) ELSE 0
  BY DEF SelectInSeq, OldestFor
<1>2. I # {} /\ I \in SUBSET Nat
  BY <1>1
<1>3. PICK m \in I : \A i \in I : m <= i
  BY <1>2, LeastOf
<1>4. Min(I) \in I /\ \A i \in I : Min(I) <= i
  BY <1>3 DEF Min
<1> QED
  BY <1>1, <1>2, <1>4

LEMMA Joined ==
  ASSUME NEW S, NEW a \in Seq(S), NEW b \in Seq(S)
  PROVE  /\ a \o b \in Seq(S) /\ Len(a \o b) = Len(a) + Len(b)
         /\ \A i \in 1 .. Len(a) + Len(b) :
              (a \o b)[i] = IF i <= Len(a) THEN a[i] ELSE b[i - Len(a)]
OBVIOUS

LEMMA RemoveQueue ==
  ASSUME NEW q \in Seq(Messages), InSequence(q), ~HasStop(q), NEW k \in 1 .. Len(q)
  PROVE  /\ RemoveAt(q, k) \in Seq(Messages) /\ InSequence(RemoveAt(q, k))
         /\ ~HasStop(RemoveAt(q, k))
         /\ Contents(RemoveAt(q, k)) = Contents(q) \ {q[k]}
<1> DEFINE r == RemoveAt(q, k)
           At(i) == IF i < k THEN i ELSE i + 1
<1>1. /\ r \in Seq(Messages) /\ Len(r) = Len(q) - 1 /\ Len(q) \in Nat
      /\ \A i \in 1 .. Len(r) : r[i] = q[At(i)]
  <2> DEFINE a == SubSeq(q, 1, k - 1)   b == SubSeq(q, k + 1, Len(q))
  <2>1. /\ a \in Seq(Messages) /\ Len(a) = k - 1
        /\ \A i \in 1 .. k - 1 : a[i] = q[i]
    OBVIOUS
  <2>2. /\ b \in Seq(Messages) /\ Len(b) = Len(q) - k
        /\ \A i \in 1 .. Len(q) - k : b[i] = q[k + i]
    OBVIOUS
  <2>3. r = a \o b
    BY DEF RemoveAt
  <2> HIDE DEF a, b, r
  <2>4. /\ a \o b \in Seq(Messages) /\ Len(a \o b) = Len(a) + Len(b)
        /\ \A i \in 1 .. Len(a) + Len(b) :
             (a \o b)[i] = IF i <= Len(a) THEN a[i] ELSE b[i - Len(a)]
    BY <2>1, <2>2, Joined
  <2> QED
    BY <2>1, <2>2, <2>3, <2>4
<1> HIDE DEF r
<1>2. \A i \in 1 .. Len(r) : At(i) \in 1 .. Len(q) /\ At(i) # k
  BY <1>1
<1>3. \A j \in 1 .. Len(q) : j # k => \E i \in 1 .. Len(r) : At(i) = j
  <2> SUFFICES ASSUME NEW j \in 1 .. Len(q), j # k
               PROVE  \E i \in 1 .. Len(r) : At(i) = j
    OBVIOUS
  <2>1. CASE j < k
    <3>1. j \in 1 .. Len(r) /\ At(j) = j
      BY <1>1, <2>1
    <3> QED
      BY <3>1
  <2>2. CASE j > k
    <3>1. j - 1 \in 1 .. Len(r) /\ At(j - 1) = j
      BY <1>1, <2>2
    <3> QED
      BY <3>1
  <2> QED
    BY <2>1, <2>2
<1>4. \A i, j \in 1 .. Len(r) : i < j => At(i) < At(j)
  BY <1>1
<1> HIDE DEF At
<1>5. \A i \in 1 .. Len(q) : q[i] # Terminate
  BY DEF HasStop
<1>6. \A i, j \in 1 .. Len(q) : i < j => q[i].subint < q[j].subint
  BY <1>5 DEF InSequence
<1>7. InSequence(r) /\ ~HasStop(r)
  <2>1. \A i \in 1 .. Len(r) : r[i] # Terminate /\ r[i].core \in Cores
    BY <1>1, <1>2, <1>5 DEF InSequence
  <2>2. \A i, j \in 1 .. Len(r) : i < j => r[i].subint < r[j].subint
    BY <1>1, <1>2, <1>4, <1>6
  <2>3. ~HasStop(r)
    BY <2>1 DEF HasStop
  <2>4. InSequence(r)
    <3>1. \A i \in 1 .. Len(r) : r[i] # Terminate => r[i].core \in Cores
      BY <2>1
    <3>2. \A i \in 1 .. Len(r) : r[i] = Terminate => i = Len(r)
      BY <2>1
    <3>3. \A i, j \in 1 .. Len(r) : i < j /\ r[j] # Terminate => r[i].subint < r[j].subint
      BY <1>1, <2>2
    <3> QED
      BY <3>1, <3>2, <3>3 DEF InSequence
  <2> QED
    BY <2>3, <2>4
<1>8. Contents(r) = Contents(q) \ {q[k]}
  <2>1. \A i \in 1 .. Len(q) : i # k => q[i] # q[k]
    <3> TAKE i \in 1 .. Len(q)
    <3>1. q[i] \in Messages /\ q[k] \in Messages
      OBVIOUS
    <3>2. q[i].subint \in Nat /\ q[k].subint \in Nat
      BY <3>1 DEF Messages
    <3>3. i # k => i < k \/ k < i
      OBVIOUS
    <3> QED
      BY <1>6, <3>2, <3>3
  <2>2. \A i \in 1 .. Len(r) : r[i] \in {q[j] : j \in 1 .. Len(q)} \ {q[k]}
    BY <1>1, <1>2, <2>1
  <2>3. \A j \in 1 .. Len(q) : j # k => q[j] \in {r[i] : i \in 1 .. Len(r)}
    <3> SUFFICES ASSUME NEW j \in 1 .. Len(q), j # k
                 PROVE  \E i \in 1 .. Len(r) : r[i] = q[j]
      OBVIOUS
    <3> QED
      BY <1>1, <1>3
  <2> QED
    BY <2>2, <2>3 DEF Contents
<1> QED
  BY <1>1, <1>7, <1>8 DEF r

(***************************************************************************)
(* Types.                                                                  *)
(***************************************************************************)
LEMMA TypeInit == Init => TypeInv
<1> SUFFICES ASSUME Init PROVE TypeInv
  OBVIOUS
<1>1. \A q \in {<< >>} : q \in Seq(Messages)
  OBVIOUS
<1>2. /\ MANAGERID \in Procs /\ Terminate \in Messages
      /\ 0 \in 0 .. Subints /\ 0 \in 0 .. numcores
      /\ numdatastreams \in numdatastreams .. numdatastreams + numcores
  BY Numbers, MessageFacts DEF Procs
<1> QED
  BY <1>1, <1>2 DEF Init, TypeInv, Stages, ManagerSteps, DatastreamSteps, CoreSteps

(* The steps outside execute.                                              *)
LEMMA StartTypes ==
  ASSUME TypeInv, NEW p \in Procs, StartStep(p) \/ OpenSocket(p) \/ CannotOpen \/ Abort
  PROVE  TypeInv' /\ UNCHANGED runVars
<1>1. UNCHANGED runVars
  BY DEF StartStep, OpenSocket, CannotOpen, Abort, Read, LeaveCall, LaunchCommandThread,
    Waiting, MakeObject, Execute, Executed, Exit, runVars
<1>2. stage' \in [Procs -> Stages]
  BY DEF TypeInv, StartStep, OpenSocket, CannotOpen, Abort, Read, LeaveCall,
    LaunchCommandThread, Waiting, MakeObject, Execute, Executed, Exit, Goto, Stages
<1> QED
  BY <1>1, <1>2 DEF TypeInv, runVars, managerVars, datastreamVars, coreVars, messageVars

LEMMA TookTypes ==
  ASSUME TypeInv, NEW c \in Cores, Took(c)
  PROVE  /\ ret' \in [Cores -> Nat] /\ got' \in [Cores -> Nat]
         /\ cpc' \in [Cores -> CoreSteps]
         /\ held' \in [Cores -> [Datastreams -> Nat \cup {-1}]]
         /\ passed' \in [Cores -> [Cores -> Nat]]
<1>0. /\ ret \in [Cores -> Nat] /\ got \in [Cores -> Nat] /\ cpc \in [Cores -> CoreSteps]
      /\ held \in [Cores -> [Datastreams -> Nat \cup {-1}]]
  BY DEF TypeInv
<1>1. ret' \in [Cores -> Nat] /\ got' \in [Cores -> Nat]
  <2>1. ret[c] + 1 \in Nat
    BY <1>0
  <2> QED
    BY <1>0, <2>1 DEF Took
<1>2. cpc' \in [Cores -> CoreSteps]
  BY <1>0 DEF Took, CoreSteps
<1>3. held' \in [Cores -> [Datastreams -> Nat \cup {-1}]]
  BY <1>0 DEF Took
<1>4. passed' \in [Cores -> [Cores -> Nat]]
  <2>1. \A b \in Cores : passed[b] \in [Cores -> Nat] /\ passed[b][c] + 1 \in Nat
    <3> TAKE b \in Cores
    <3>1. passed[b] \in [Cores -> Nat]
      BY DEF TypeInv
    <3>2. passed[b][c] \in Nat
      BY <3>1
    <3> QED
      BY <3>1, <3>2
  <2>2. \A b \in Cores :
          [passed[b] EXCEPT ![c] = IF Offers(b) THEN @ + 1 ELSE @] \in [Cores -> Nat]
    BY <2>1
  <2> QED
    BY <2>2 DEF Took
<1> QED
  BY <1>1, <1>2, <1>3, <1>4

LEMMA TakeTypes ==
  ASSUME TypeInv, NEW c \in Cores, mpc = "probe", Take(c)
  PROVE  /\ mpc' \in ManagerSteps /\ owed' \in Nat /\ probed' \in 0 .. numcores
         /\ target' \in Cores \cup {MANAGERID}
         /\ mpc' \in {"time", "tell", "stopcores"} => target' \in Cores
         /\ mpc' \notin {"tell", "stopdatastreams"}
BY Numbers DEF TypeInv, Take, ManagerSteps

LEMMA NextSourceFacts ==
  ASSUME TypeInv
  PROVE  NextSource \in Cores
BY Numbers DEF TypeInv, NextSource, Cores

LEMMA ManagerTypes ==
  ASSUME TypeInv, ManagerStep \/ Interrupt
  PROVE  TypeInv'
<1>1. CASE Interrupt
  BY <1>1 DEF TypeInv, Interrupt, startVars, datastreamVars, coreVars, messageVars
<1>2. CASE Loop
  <2>1. numdatastreams + 1 + (sendcount % numcores) \in Cores
    <3>1. \A m, n \in Nat : n > 0 => m % n \in 0 .. n - 1
      OBVIOUS
    <3>2. sendcount % numcores \in 0 .. numcores - 1
      BY <3>1, Numbers DEF TypeInv
    <3> QED
      BY <3>2, Numbers DEF Cores
  <2>2. 0 \in 0 .. numcores
    BY Numbers
  <2> QED
    BY <1>2, <2>1, <2>2 DEF TypeInv, Loop, ManagerAt, ManagerSteps, startVars,
      datastreamVars, coreVars, messageVars
<1>3. CASE SendTime
  <2>1. times' \in [Cores -> Seq(Messages)]
    <3>1. target \in Cores /\ sendcount \in Nat
      BY <1>3, Numbers DEF TypeInv, SendTime, ManagerAt
    <3>2. Append(times[target], Process(target, sendcount)) \in Seq(Messages)
      BY <3>1, MessageFacts DEF TypeInv
    <3> QED
      BY <1>3, <3>1, <3>2 DEF TypeInv, SendTime
  <2>2. FIRSTTELESCOPEID \in Datastreams /\ FIRSTTELESCOPEID \in Nat
    BY Numbers DEF Datastreams, FIRSTTELESCOPEID
  <2> QED
    BY <1>3, <2>1, <2>2 DEF TypeInv, SendTime, ManagerAt, ManagerSteps, startVars,
      datastreamVars, coreVars, messageVars
<1>4. CASE SendInstruction
  <2>1. telling \in Datastreams /\ target \in Cores /\ sendcount \in Nat
    BY <1>4, Numbers DEF TypeInv, SendInstruction, ManagerAt
  <2>2. instruction' \in [Datastreams -> Seq(Messages)]
    <3>1. Append(instruction[telling], Process(target, sendcount)) \in Seq(Messages)
      BY <2>1, MessageFacts DEF TypeInv
    <3> QED
      BY <1>4, <2>1, <3>1 DEF TypeInv, SendInstruction
  <2>3. /\ telling' \in Nat /\ mpc' \in ManagerSteps
        /\ mpc' \in {"tell", "stopdatastreams"} => telling' \in Datastreams
        /\ mpc' # "stopcores"
    <3>1. telling \in Nat /\ (telling < numdatastreams => telling + 1 \in Datastreams)
      BY <2>1, Ranks, Numbers DEF Datastreams, FIRSTTELESCOPEID
    <3> QED
      BY <1>4, <2>1, <3>1 DEF SendInstruction, ManagerAt, ManagerSteps
  <2>4. sendcount < Subints /\ sendcount' \in 0 .. Subints
    BY <1>4, Numbers DEF TypeInv, SendInstruction, ManagerAt
  <2>5. mpc' \notin {"time", "probe"} /\ (mpc' = "tell" => sendcount' = sendcount)
    BY <1>4 DEF SendInstruction, ManagerAt
  <2> QED
    BY <1>4, <2>1, <2>2, <2>3, <2>4, <2>5 DEF TypeInv, SendInstruction, ManagerAt,
      startVars, datastreamVars, coreVars
<1>5. ASSUME NEW c \in Cores, Take(c), Took(c), mpc = "probe",
             lastsource' \in numdatastreams .. numdatastreams + numcores,
             UNCHANGED <<startVars, telling, sendcount, terminatenow, datastreamVars,
                         messageVars>>
      PROVE  TypeInv'
  <2>1. mpc' = "time" \/ (mpc' = "probe" /\ owed' = 0) => sendcount < Subints
    <3>1. owed \in Nat /\ (owed = 0 => sendcount < Subints)
      BY <1>5 DEF TypeInv
    <3> QED
      BY <1>5, <3>1 DEF Take
  <2> QED
    BY <1>5, <2>1, TookTypes, TakeTypes DEF TypeInv, startVars, datastreamVars, messageVars
<1>6. CASE Probe
  <2>1. lastsource' \in numdatastreams .. numdatastreams + numcores /\ mpc = "probe"
    BY <1>6, NextSourceFacts, Numbers DEF Probe, Cores, ManagerAt
  <2>2. CASE Offers(NextSource)
    BY <1>5, <1>6, <2>1, <2>2, NextSourceFacts DEF Probe
  <2>3. CASE ~Offers(NextSource)
    <3>1. probed' \in 0 .. numcores
      BY <1>6, <2>3, Numbers DEF Probe, TypeInv
    <3> QED
      BY <1>6, <2>1, <2>3, <3>1 DEF Probe, TypeInv, startVars, datastreamVars,
        messageVars, coreVars
  <2> QED
    BY <2>2, <2>3
<1>7. ASSUME NEW c \in Cores, ReceiveAny(c) PROVE TypeInv'
  BY <1>5, <1>7 DEF ReceiveAny, ManagerAt, TypeInv
<1>8. CASE StopSending
  <2>1. numdatastreams + 1 \in Cores
    BY Numbers DEF Cores
  <2> QED
    BY <1>8, <2>1 DEF TypeInv, StopSending, ManagerAt, ManagerSteps, startVars,
      datastreamVars, coreVars, messageVars
<1>9. CASE TerminateCore
  <2>1. times' \in [Cores -> Seq(Messages)]
    <3>1. target \in Cores
      BY <1>9 DEF TypeInv, TerminateCore, ManagerAt
    <3>2. Append(times[target], Terminate) \in Seq(Messages)
      BY <3>1, MessageFacts DEF TypeInv
    <3> QED
      BY <1>9, <3>1, <3>2 DEF TypeInv, TerminateCore
  <2>2. /\ target' \in Cores /\ telling' \in Nat
        /\ mpc' = "stopdatastreams" => telling' \in Datastreams
        /\ mpc' \in {"stopcores", "stopdatastreams"}
    <3>1. target \in Cores /\ telling \in Nat
      BY <1>9 DEF TypeInv, TerminateCore, ManagerAt
    <3>2. target < numdatastreams + numcores => target + 1 \in Cores
      BY <3>1, Numbers DEF Cores
    <3>3. FIRSTTELESCOPEID \in Datastreams /\ FIRSTTELESCOPEID \in Nat
      BY Numbers DEF Datastreams, FIRSTTELESCOPEID
    <3> QED
      BY <1>9, <3>1, <3>2, <3>3 DEF TerminateCore, ManagerAt
  <2> QED
    BY <1>9, <2>1, <2>2 DEF TypeInv, TerminateCore, ManagerSteps, startVars,
      datastreamVars, coreVars
<1>10. CASE TerminateDatastream
  <2>1. telling \in Datastreams
    BY <1>10 DEF TypeInv, TerminateDatastream, ManagerAt
  <2>2. instruction' \in [Datastreams -> Seq(Messages)]
    <3>1. Append(instruction[telling], Terminate) \in Seq(Messages)
      BY <2>1, MessageFacts DEF TypeInv
    <3> QED
      BY <1>10, <2>1, <3>1 DEF TypeInv, TerminateDatastream
  <2>3. /\ telling' \in Nat /\ owed' \in Nat /\ probed' \in 0 .. numcores
        /\ mpc' = "stopdatastreams" => telling' \in Datastreams
        /\ mpc' \in {"stopdatastreams", "probe", "end"}
        /\ mpc' = "probe" => owed' # 0
    <3>1. telling \in Nat /\ owed \in Nat /\ probed \in 0 .. numcores /\ 0 \in 0 .. numcores
      BY Numbers DEF TypeInv
    <3>2. telling < numdatastreams => telling + 1 \in Datastreams /\ telling + 1 \in Nat
      BY <2>1, Numbers DEF Datastreams, FIRSTTELESCOPEID
    <3>3. Owed \in Nat
      BY FillFacts, Numbers DEF Owed, TypeInv
    <3> QED
      BY <1>10, <3>1, <3>2, <3>3 DEF TerminateDatastream, ManagerAt
  <2> QED
    BY <1>10, <2>2, <2>3 DEF TypeInv, TerminateDatastream, ManagerSteps, startVars,
      datastreamVars, coreVars
<1> QED
  BY <1>1, <1>2, <1>3, <1>4, <1>6, <1>7, <1>8, <1>9, <1>10 DEF ManagerStep

LEMMA DatastreamTypes ==
  ASSUME TypeInv, NEW d \in Datastreams, DatastreamStep(d)
  PROVE  TypeInv'
<1> USE DEF DatastreamAt, DsGoto, DatastreamSteps, startVars, managerVars, coreVars, messageVars
<1>1. CASE FillBuffer(d)
  BY <1>1 DEF TypeInv, FillBuffer
<1>2. CASE Request(d)
  <2>1. /\ Head(instruction[d]) \in Messages /\ Tail(instruction[d]) \in Seq(Messages)
    BY <1>2 DEF TypeInv, Request
  <2> QED
    BY <1>2, <2>1 DEF TypeInv, Request
<1>3. CASE WaitEarlier(d)
  BY <1>3 DEF TypeInv, WaitEarlier
<1>4. CASE Post(d)
  <2>1. Append(sends[d], doing[d]) \in Seq(Messages)
    BY DEF TypeInv
  <2> QED
    BY <1>4, <2>1 DEF TypeInv, Post, Told
<1>5. CASE WaitAll(d)
  BY <1>5 DEF TypeInv, WaitAll
<1>6. CASE Drain(d)
  BY <1>6 DEF TypeInv, Drain
<1> QED
  BY <1>1, <1>2, <1>3, <1>4, <1>5, <1>6 DEF DatastreamStep

LEMMA CoreTypes ==
  ASSUME TypeInv, OrderInv, MatchInv, NEW c \in Cores, CoreStep(c)
  PROVE  TypeInv'
<1> USE DEF CoreAt, CoreGoto, CoreSteps, startVars, managerVars, datastreamVars, messageVars
<1>0. [b \in Cores |-> 0] \in [Cores -> Nat]
  OBVIOUS
<1>1. CASE ReceiveTime(c)
  BY <1>1 DEF TypeInv, ReceiveTime
<1>2. CASE ReceiveTerminate(c)
  <2>1. Tail(times[c]) \in Seq(Messages)
    BY <1>2 DEF TypeInv, ReceiveTerminate
  <2> QED
    BY <1>0, <1>2, <2>1 DEF TypeInv, ReceiveTerminate
<1>3. CASE SlotFull(c)
  <2>1. times[c] # << >>
    BY <1>3 DEF MatchInv, HeadInv, SlotFull
  <2>2. Tail(times[c]) \in Seq(Messages)
    BY <2>1 DEF TypeInv
  <2>3. /\ times' \in [Cores -> Seq(Messages)] /\ got' \in [Cores -> Nat]
        /\ passed' \in [Cores -> [Cores -> Nat]] /\ cpc' \in [Cores -> CoreSteps]
    <3>1. /\ times \in [Cores -> Seq(Messages)] /\ got \in [Cores -> Nat]
          /\ passed \in [Cores -> [Cores -> Nat]] /\ cpc \in [Cores -> CoreSteps]
      BY DEF TypeInv
    <3>2. got[c] + 1 \in Nat
      BY <3>1
    <3> QED
      BY <1>0, <1>3, <2>2, <3>1, <3>2 DEF SlotFull
  <2>4. UNCHANGED <<startVars, managerVars, datastreamVars, ret, held, instruction>>
    BY <1>3 DEF SlotFull
  <2> QED
    BY <2>3, <2>4 DEF TypeInv
<1>4. ASSUME NEW d \in Datastreams, ReceiveData(c, d) PROVE TypeInv'
  <2>1. PICK k : /\ k = OldestFor(c, sends[d]) /\ k # 0
                 /\ held' = [held EXCEPT ![c][d] = sends[d][k].subint]
                 /\ sends' = [sends EXCEPT ![d] = RemoveAt(@, k)]
    BY <1>4 DEF ReceiveData, OldestFor
  <2>2. sends[d] \in Seq(Messages)
    BY DEF TypeInv
  <2>3. k \in 1 .. Len(sends[d])
    BY <2>1, <2>2, OldestIsFirst
  <2>4. sends[d][k].subint \in Nat
    <3>1. sends[d][k] \in Messages
      BY <2>2, <2>3
    <3> QED
      BY <3>1 DEF Messages
  <2>5. RemoveAt(sends[d], k) \in Seq(Messages)
    BY <2>2, <2>3, RemoveQueue DEF OrderInv, StreamInv
  <2>6. held' \in [Cores -> [Datastreams -> Nat \cup {-1}]] /\ sends' \in [Datastreams -> Seq(Messages)]
    BY <2>1, <2>4, <2>5 DEF TypeInv
  <2> QED
    BY <1>4, <2>6 DEF ReceiveData, TypeInv
<1> QED
  BY <1>1, <1>2, <1>3, <1>4 DEF CoreStep

(***************************************************************************)
(* Instructions and data.                                                  *)
(***************************************************************************)
LEMMA LinkInit == Init => LinkInv
<1> SUFFICES ASSUME Init PROVE LinkInv
  OBVIOUS
<1>1. \A d \in Datastreams : Doing(d) = {} /\ Untold(d) = {}
  BY DEF Init, Doing, Untold
<1>2. \A d \in Datastreams : Coming(d) = {} /\ StreamInv(d)
  BY <1>1, EmptyQueue DEF Init, Coming, StreamInv
<1>3. \A c \in Cores : TimesInv(c) /\ HeadInv(c)
  BY EmptyQueue DEF Init, TimesInv, HeadInv
<1>4. \A c \in Cores, d \in Datastreams : Matched(c, d)
  BY <1>2, EmptyQueue DEF Init, Matched, Held
<1> QED
  BY <1>2, <1>3, <1>4 DEF LinkInv, OrderInv, MatchInv

(* Steps that leave the queues and what is taken from them alone.          *)
LEMMA LinkFrame ==
  ASSUME LinkInv, UNCHANGED <<times, instruction, sends, sendcount>>,
         \A d \in Datastreams : Doing(d)' = Doing(d),
         mpc' = "tell" <=> mpc = "tell",
         mpc = "tell" => telling' = telling /\ target' = target,
         \A c \in Cores : cpc'[c] = "data" <=> cpc[c] = "data",
         UNCHANGED held
  PROVE  LinkInv'
<1>1. \A d \in Datastreams : Untold(d)' = Untold(d) /\ GivenTo(d)' = GivenTo(d)
  BY DEF Untold, GivenTo
<1>2. \A d \in Datastreams : Coming(d)' = Coming(d)
  BY <1>1 DEF Coming
<1>3. \A c \in Cores, d \in Datastreams : Held(c, d)' = Held(c, d)
  BY DEF Held
<1>4. \A d \in Datastreams : StreamInv(d)'
  BY <1>1 DEF LinkInv, OrderInv, StreamInv
<1>5. \A c \in Cores : TimesInv(c)' /\ HeadInv(c)'
  BY DEF LinkInv, OrderInv, MatchInv, TimesInv, HeadInv
<1>6. \A c \in Cores, d \in Datastreams : Matched(c, d)'
  BY <1>2, <1>3 DEF LinkInv, MatchInv, Matched
<1> QED
  BY <1>4, <1>5, <1>6 DEF LinkInv, OrderInv, MatchInv

LEMMA QuietLinks ==
  ASSUME TypeInv, LinkInv,
         \/ UNCHANGED runVars \/ Interrupt \/ Loop \/ StopSending \/ Probe
         \/ \E c \in Cores : ReceiveAny(c)
         \/ \E d \in Datastreams : FillBuffer(d) \/ WaitEarlier(d) \/ WaitAll(d) \/ Drain(d)
  PROVE  LinkInv'
<1> USE DEF startVars, managerVars, datastreamVars, coreVars, messageVars
<1>1. CASE UNCHANGED runVars
  BY <1>1, LinkFrame DEF runVars, Doing
<1>2. CASE Interrupt
  BY <1>2, LinkFrame DEF Interrupt, Doing
<1>3. CASE Loop
  BY <1>3, LinkFrame DEF Loop, ManagerAt, Doing
<1>4. CASE StopSending
  BY <1>4, LinkFrame DEF StopSending, ManagerAt, Doing
<1>5. ASSUME NEW c \in Cores, Offers(c), Took(c), Take(c), mpc = "probe",
             UNCHANGED <<sendcount, datastreamVars, messageVars>>
      PROVE  LinkInv'
  <2>1. \A b \in Cores : cpc'[b] = "data" <=> cpc[b] = "data"
    BY <1>5 DEF TypeInv, Took, Offers
  <2>2. mpc' # "tell" /\ \A d \in Datastreams : Doing(d)' = Doing(d)
    BY <1>5 DEF Take, Doing
  <2>3. UNCHANGED held
    BY <1>5 DEF Took
  <2> QED
    BY <1>5, <2>1, <2>2, <2>3, LinkFrame
<1>6. CASE Probe
  <2>1. CASE Offers(NextSource)
    BY <1>5, <1>6, <2>1, NextSourceFacts DEF Probe, ManagerAt
  <2>2. CASE ~Offers(NextSource)
    BY <1>6, <2>2, LinkFrame DEF Probe, ManagerAt, Doing
  <2> QED
    BY <2>1, <2>2
<1>7. ASSUME NEW c \in Cores, ReceiveAny(c) PROVE LinkInv'
  BY <1>5, <1>7 DEF ReceiveAny, ManagerAt
<1>8. ASSUME NEW d \in Datastreams,
             FillBuffer(d) \/ WaitEarlier(d) \/ WaitAll(d) \/ Drain(d)
      PROVE  LinkInv'
  <2>1. /\ UNCHANGED <<managerVars, doing, sends, coreVars, messageVars>>
        /\ \A e \in Datastreams :
             dpc'[e] \in {"post", "waitpost"} <=> dpc[e] \in {"post", "waitpost"}
    <3>1. dpc \in [Datastreams -> DatastreamSteps]
      BY DEF TypeInv
    <3> QED
      BY <1>8, <3>1 DEF FillBuffer, WaitEarlier, WaitAll, Drain, DatastreamAt, DsGoto
  <2> QED
    BY <2>1, LinkFrame DEF Doing
<1> QED
  BY <1>1, <1>2, <1>3, <1>4, <1>6, <1>7, <1>8

LEMMA SendTimeLinks ==
  ASSUME TypeInv, LinkInv, StopInv, SendTime
  PROVE  LinkInv'
<1> DEFINE m == Process(target, sendcount)   q == times[target]
<1>1. /\ mpc = "time" /\ mpc' = "tell" /\ telling' = FIRSTTELESCOPEID
      /\ target \in Cores /\ sendcount \in Nat
      /\ times' = [times EXCEPT ![target] = Append(q, m)]
      /\ UNCHANGED <<target, sendcount, instruction, sends, dpc, doing, cpc, held>>
  BY Numbers DEF SendTime, ManagerAt, TypeInv, datastreamVars, coreVars
<1>2. q \in Seq(Messages) /\ m \in Messages /\ m # Terminate /\ m.core = target /\ m.subint = sendcount
  BY <1>1, MessageFacts DEF TypeInv
<1>3. ~HasStop(q) /\ InSequence(q) /\ \A n \in Contents(q) : n.core = target /\ n.subint < sendcount
  BY <1>1 DEF LinkInv, OrderInv, TimesInv, StopInv, Stopped, Over
<1> HIDE DEF m, q
<1>4. /\ InSequence(Append(q, m)) /\ Contents(Append(q, m)) = Contents(q) \cup {m}
      /\ q # << >> => Append(q, m) # << >> /\ Head(Append(q, m)) = Head(q)
  BY <1>1, <1>2, <1>3, AppendQueue
<1>5. /\ times'[target] = Append(q, m)
      /\ \A c \in Cores : c # target => times'[c] = times[c]
      /\ q = times[target]
  BY <1>1 DEF TypeInv, q
<1>6. \A c \in Cores : TimesInv(c)' /\ HeadInv(c)'
  <2> TAKE c \in Cores
  <2>1. TimesInv(c) /\ HeadInv(c)
    BY DEF LinkInv, OrderInv, MatchInv
  <2>2. \A n \in Contents(times[c]) : n.subint < sendcount
    BY <1>1, <2>1 DEF TimesInv
  <2>3. \A n \in Contents(times[c]) : n.subint < sendcount + 1
    <3> TAKE n \in Contents(times[c])
    <3>1. n \in Messages
      BY DEF TypeInv, Contents
    <3>2. n.subint \in Nat
      BY <3>1 DEF Messages
    <3> QED
      BY <1>1, <2>2, <3>2
  <2>4. CASE c = target
    BY <1>1, <1>2, <1>4, <1>5, <2>1, <2>3, <2>4 DEF TimesInv, HeadInv
  <2>5. CASE c # target
    BY <1>1, <1>5, <2>1, <2>3, <2>5 DEF TimesInv, HeadInv
  <2> QED
    BY <2>4, <2>5
<1>7. \A d \in Datastreams : /\ Untold(d) = {} /\ Untold(d)' = {m}
                             /\ Doing(d)' = Doing(d) /\ GivenTo(d)' = GivenTo(d)
  BY <1>1, Ranks DEF Untold, Doing, GivenTo, m, FIRSTTELESCOPEID
<1>8. \A d \in Datastreams : StreamInv(d)' /\ Coming(d)' = Coming(d) \cup {m}
  BY <1>1, <1>7 DEF LinkInv, OrderInv, StreamInv, Coming
<1>9. \A c \in Cores, d \in Datastreams : Matched(c, d)'
  <2> TAKE c \in Cores, d \in Datastreams
  <2>1. Matched(c, d) /\ HeadInv(c) /\ TimesInv(c)
    BY DEF LinkInv, MatchInv, OrderInv
  <2>2. Held(c, d)' = Held(c, d)
    BY <1>1 DEF Held
  <2>3. Held(c, d) \subseteq Contents(times[c])
    BY <2>1 DEF Matched
  <2>4. m \notin Held(c, d)
    <3>1. m \notin Contents(times[c])
      BY <1>1, <1>2, <2>1 DEF TimesInv
    <3> QED
      BY <2>3, <3>1
  <2>5. CASE c = target
    BY <1>1, <1>2, <1>4, <1>5, <1>8, <2>1, <2>2, <2>4, <2>5 DEF Matched, HeadInv
  <2>6. CASE c # target
    BY <1>1, <1>2, <1>5, <1>8, <2>1, <2>2, <2>4, <2>6 DEF Matched
  <2> QED
    BY <2>5, <2>6
<1> QED
  BY <1>6, <1>8, <1>9 DEF LinkInv, OrderInv, MatchInv

LEMMA SendInstructionLinks ==
  ASSUME TypeInv, LinkInv, SendInstruction
  PROVE  LinkInv'
<1> DEFINE m == Process(target, sendcount)
<1>1. /\ mpc = "tell" /\ telling \in Datastreams /\ instruction[telling] = << >>
      /\ target \in Cores /\ sendcount \in Nat
      /\ instruction' = [instruction EXCEPT ![telling] = Append(@, m)]
      /\ IF telling < numdatastreams
         THEN telling' = telling + 1 /\ mpc' = "tell" /\ sendcount' = sendcount
         ELSE telling' = telling /\ mpc' = "loop" /\ sendcount' = sendcount + 1
      /\ UNCHANGED <<target, times, sends, dpc, doing, cpc, held>>
  BY Numbers DEF SendInstruction, ManagerAt, Listening, TypeInv, datastreamVars, coreVars
<1>2. m \in Messages /\ m # Terminate /\ m.core = target /\ m.subint = sendcount
  BY <1>1, MessageFacts
<1> HIDE DEF m
<1>3. /\ InSequence(Append(<< >>, m)) /\ Contents(Append(<< >>, m)) = {m}
  BY <1>1, <1>2, AppendQueue, EmptyQueue
<1>4. \A d \in Datastreams :
        instruction'[d] = IF d = telling THEN Append(<< >>, m) ELSE instruction[d]
  BY <1>1 DEF TypeInv
<1>5. \A d \in Datastreams :
        /\ Doing(d)' = Doing(d)
        /\ Untold(d) = IF telling <= d THEN {m} ELSE {}
        /\ Untold(d)' = IF telling < d THEN {m} ELSE {}
        /\ GivenTo(d) = IF d < telling THEN sendcount + 1 ELSE sendcount
        /\ GivenTo(d)' = IF d <= telling THEN sendcount + 1 ELSE sendcount
  <2> TAKE d \in Datastreams
  <2>1. d \in Nat /\ telling \in Nat /\ d <= numdatastreams /\ telling <= numdatastreams
    BY <1>1, Ranks
  <2>2. Doing(d)' = Doing(d)
    BY <1>1 DEF Doing
  <2>3. Untold(d) = IF telling <= d THEN {m} ELSE {}
    BY <1>1 DEF Untold, m
  <2>4. Untold(d)' = IF telling < d THEN {m} ELSE {}
    <3>1. CASE telling < numdatastreams
      <4>1. Untold(d)' = IF telling + 1 <= d THEN {m} ELSE {}
        BY <1>1, <3>1 DEF Untold, m
      <4> QED
        BY <2>1, <4>1
    <3>2. CASE ~(telling < numdatastreams)
      <4>1. Untold(d)' = {} /\ ~(telling < d)
        BY <1>1, <2>1, <3>2, Numbers DEF Untold
      <4> QED
        BY <4>1
    <3> QED
      BY <3>1, <3>2
  <2>5. GivenTo(d) = IF d < telling THEN sendcount + 1 ELSE sendcount
    BY <1>1 DEF GivenTo
  <2>6. GivenTo(d)' = IF d <= telling THEN sendcount + 1 ELSE sendcount
    BY <1>1, <2>1, Numbers DEF GivenTo
  <2> QED
    BY <2>2, <2>3, <2>4, <2>5, <2>6
<1>6. \A c \in Cores : TimesInv(c)' /\ HeadInv(c)'
  BY <1>1 DEF LinkInv, OrderInv, MatchInv, TimesInv, HeadInv
<1>7. \A d \in Datastreams : Coming(d)' = Coming(d)
  <2> TAKE d \in Datastreams
  <2>1. CASE d = telling
    BY <1>1, <1>3, <1>4, <1>5, <2>1, EmptyQueue, Ranks DEF Coming
  <2>2. CASE d # telling
    BY <1>1, <1>4, <1>5, <2>2, Ranks DEF Coming
  <2> QED
    BY <2>1, <2>2
<1>8. \A d \in Datastreams : StreamInv(d)'
  <2> TAKE d \in Datastreams
  <2>1. StreamInv(d)
    BY DEF LinkInv, OrderInv
  <2>2. CASE d = telling
    <3>1. d \in Nat /\ GivenTo(d) = sendcount /\ GivenTo(d)' = sendcount + 1
      BY <1>5, <2>2, Ranks
    <3>2. \A n \in Contents(sends[d]) \cup Doing(d) : n.subint \in Nat /\ n.subint < sendcount
      <4>1. \A n \in Contents(sends[d]) \cup Doing(d) : n \in Messages
        BY DEF TypeInv, Contents, Doing
      <4> QED
        BY <2>1, <3>1, <4>1 DEF StreamInv, Messages
    <3>3. \A n \in Contents(sends[d]) \cup Doing(d) : n.subint < sendcount + 1
      BY <1>1, <3>2
    <3>4. instruction'[d] = Append(<< >>, m) /\ Doing(d)' = Doing(d) /\ sends'[d] = sends[d]
      BY <1>1, <1>4, <1>5, <2>2
    <3> QED
      BY <1>1, <1>2, <1>3, <2>1, <3>1, <3>2, <3>3, <3>4 DEF StreamInv
  <2>3. CASE d # telling
    <3>1. GivenTo(d)' = GivenTo(d)
      BY <1>1, <1>5, <2>3, Ranks
    <3> QED
      BY <1>1, <1>4, <1>5, <2>1, <2>3, <3>1 DEF StreamInv
  <2> QED
    BY <2>2, <2>3
<1>9. \A c \in Cores, d \in Datastreams : Matched(c, d)'
  BY <1>1, <1>7 DEF LinkInv, MatchInv, Matched, Held
<1> QED
  BY <1>6, <1>8, <1>9 DEF LinkInv, OrderInv, MatchInv

LEMMA TerminateCoreLinks ==
  ASSUME TypeInv, LinkInv, StopInv, TerminateCore
  PROVE  LinkInv'
<1>1. /\ mpc = "stopcores" /\ mpc' # "tell" /\ target \in Cores
      /\ times' = [times EXCEPT ![target] = Append(@, Terminate)]
      /\ UNCHANGED <<sendcount, instruction, sends, dpc, doing, cpc, held>>
  BY DEF TerminateCore, ManagerAt, TypeInv, datastreamVars, coreVars
<1>2. times[target] \in Seq(Messages) /\ ~HasStop(times[target]) /\ InSequence(times[target])
  BY <1>1, Ranks DEF TypeInv, LinkInv, OrderInv, TimesInv, StopInv, Stopped, Over
<1>3. /\ InSequence(times'[target]) /\ Contents(times'[target]) = Contents(times[target])
      /\ times[target] # << >> => times'[target] # << >>
                                  /\ Head(times'[target]) = Head(times[target])
      /\ \A c \in Cores : c # target => times'[c] = times[c]
  <2>1. times'[target] = Append(times[target], Terminate)
    BY <1>1 DEF TypeInv
  <2>2. \A c \in Cores : c # target => times'[c] = times[c]
    BY <1>1 DEF TypeInv
  <2>3. /\ InSequence(Append(times[target], Terminate))
        /\ Contents(Append(times[target], Terminate)) = Contents(times[target])
        /\ times[target] # << >> =>
             /\ Append(times[target], Terminate) # << >>
             /\ Head(Append(times[target], Terminate)) = Head(times[target])
    BY <1>2, StopQueue
  <2> QED
    BY <2>1, <2>2, <2>3
<1>4. \A c \in Cores : /\ InSequence(times'[c]) /\ Contents(times'[c]) = Contents(times[c])
                       /\ times[c] # << >> => times'[c] # << >> /\ Head(times'[c]) = Head(times[c])
  BY <1>3 DEF LinkInv, OrderInv, TimesInv
<1>5. \A d \in Datastreams : /\ Doing(d)' = Doing(d) /\ Untold(d)' = Untold(d)
                             /\ GivenTo(d)' = GivenTo(d)
  BY <1>1 DEF Doing, Untold, GivenTo
<1>6. \A d \in Datastreams : StreamInv(d)' /\ Coming(d)' = Coming(d)
  BY <1>1, <1>5 DEF LinkInv, OrderInv, StreamInv, Coming
<1>7. \A c \in Cores : TimesInv(c)' /\ HeadInv(c)'
  BY <1>1, <1>4 DEF LinkInv, OrderInv, MatchInv, TimesInv, HeadInv
<1>8. \A c \in Cores, d \in Datastreams : Matched(c, d)'
  BY <1>1, <1>4, <1>6 DEF LinkInv, MatchInv, Matched, Held, HeadInv
<1> QED
  BY <1>6, <1>7, <1>8 DEF LinkInv, OrderInv, MatchInv

LEMMA TerminateDatastreamLinks ==
  ASSUME TypeInv, LinkInv, StopInv, TerminateDatastream
  PROVE  LinkInv'
<1>1. /\ mpc = "stopdatastreams" /\ mpc' # "tell" /\ telling \in Datastreams
      /\ instruction' = [instruction EXCEPT ![telling] = Append(@, Terminate)]
      /\ UNCHANGED <<sendcount, times, sends, dpc, doing, cpc, held>>
  BY DEF TerminateDatastream, ManagerAt, TypeInv, datastreamVars, coreVars
<1>2. /\ instruction[telling] \in Seq(Messages) /\ ~HasStop(instruction[telling])
      /\ InSequence(instruction[telling])
  BY <1>1, Ranks DEF TypeInv, LinkInv, OrderInv, StreamInv, StopInv, StoppedToo
<1>3. \A d \in Datastreams : /\ InSequence(instruction'[d])
                             /\ Contents(instruction'[d]) = Contents(instruction[d])
  <2>1. instruction'[telling] = Append(instruction[telling], Terminate)
    BY <1>1 DEF TypeInv
  <2>2. \A d \in Datastreams : d # telling => instruction'[d] = instruction[d]
    BY <1>1 DEF TypeInv
  <2>3. /\ InSequence(Append(instruction[telling], Terminate))
        /\ Contents(Append(instruction[telling], Terminate)) = Contents(instruction[telling])
    BY <1>2, StopQueue
  <2> QED
    BY <2>1, <2>2, <2>3 DEF LinkInv, OrderInv, StreamInv
<1>4. \A d \in Datastreams : /\ Doing(d)' = Doing(d) /\ Untold(d)' = Untold(d)
                             /\ GivenTo(d)' = GivenTo(d)
  BY <1>1 DEF Doing, Untold, GivenTo
<1>5. \A d \in Datastreams : StreamInv(d)' /\ Coming(d)' = Coming(d)
  BY <1>1, <1>3, <1>4 DEF LinkInv, OrderInv, StreamInv, Coming
<1>6. \A c \in Cores : TimesInv(c)' /\ HeadInv(c)'
  BY <1>1 DEF LinkInv, OrderInv, MatchInv, TimesInv, HeadInv
<1>7. \A c \in Cores, d \in Datastreams : Matched(c, d)'
  BY <1>1, <1>5 DEF LinkInv, MatchInv, Matched, Held
<1> QED
  BY <1>5, <1>6, <1>7 DEF LinkInv, OrderInv, MatchInv

(* What a datastream has been told stays on its way to the core.           *)
LEMMA StreamMoves ==
  ASSUME LinkInv, NEW d \in Datastreams,
         UNCHANGED <<mpc, telling, target, sendcount, times, cpc, held>>,
         \A e \in Datastreams : e # d =>
           /\ sends'[e] = sends[e] /\ instruction'[e] = instruction[e]
           /\ dpc'[e] = dpc[e] /\ doing'[e] = doing[e],
         StreamInv(d)', Coming(d)' = Coming(d)
  PROVE  LinkInv'
<1>1. \A e \in Datastreams : Untold(e)' = Untold(e) /\ GivenTo(e)' = GivenTo(e)
  BY DEF Untold, GivenTo
<1>2. \A e \in Datastreams : e # d => Doing(e)' = Doing(e)
  BY DEF Doing
<1>3. \A e \in Datastreams : StreamInv(e)' /\ Coming(e)' = Coming(e)
  BY <1>1, <1>2 DEF LinkInv, OrderInv, StreamInv, Coming
<1>4. \A c \in Cores : TimesInv(c)' /\ HeadInv(c)'
  BY DEF LinkInv, OrderInv, MatchInv, TimesInv, HeadInv
<1>5. \A c \in Cores, e \in Datastreams : Matched(c, e)'
  BY <1>3 DEF LinkInv, MatchInv, Matched, Held
<1> QED
  BY <1>3, <1>4, <1>5 DEF LinkInv, OrderInv, MatchInv

LEMMA RequestLinks ==
  ASSUME TypeInv, LinkInv, NEW d \in Datastreams, Request(d)
  PROVE  LinkInv'
<1> DEFINE q == instruction[d]
<1>1. /\ dpc[d] = "request" /\ q # << >> /\ q \in Seq(Messages) /\ StreamInv(d)
      /\ doing'[d] = Head(q) /\ instruction'[d] = Tail(q) /\ sends'[d] = sends[d]
      /\ dpc'[d] = IF Head(q) = Terminate THEN "drain" ELSE "post"
      /\ \A e \in Datastreams : e # d =>
           /\ sends'[e] = sends[e] /\ instruction'[e] = instruction[e]
           /\ dpc'[e] = dpc[e] /\ doing'[e] = doing[e]
      /\ UNCHANGED <<mpc, telling, target, sendcount, times, cpc, held>>
  BY DEF Request, DatastreamAt, DsGoto, TypeInv, LinkInv, OrderInv, managerVars, coreVars
<1>2. InSequence(q)
  BY <1>1 DEF StreamInv
<1> HIDE DEF q
<1>3. Untold(d)' = Untold(d) /\ GivenTo(d)' = GivenTo(d) /\ Doing(d) = {}
  BY <1>1 DEF Untold, GivenTo, Doing
<1>4. CASE Head(q) = Terminate
  <2>1. Doing(d)' = {} /\ Contents(q) = {} /\ instruction'[d] = << >>
    BY <1>1, <1>2, <1>4, TailQueue DEF Doing
  <2>2. Coming(d)' = Coming(d)
    BY <1>1, <1>3, <2>1, EmptyQueue DEF Coming, q
  <2>3. StreamInv(d)'
    BY <1>1, <1>3, <2>1, EmptyQueue DEF StreamInv, q
  <2> QED
    BY <1>1, <2>2, <2>3, StreamMoves
<1>5. CASE Head(q) # Terminate
  <2>1. Doing(d)' = {Head(q)}
    BY <1>1, <1>5 DEF Doing
  <2>2. /\ Contents(q) = Contents(instruction'[d]) \cup {Head(q)}
        /\ InSequence(instruction'[d]) /\ Head(q).core \in Cores
        /\ \A n \in Contents(instruction'[d]) : Head(q).subint < n.subint
    BY <1>1, <1>2, <1>5, TailQueue
  <2>3. Coming(d)' = Coming(d)
    BY <1>1, <1>3, <2>1, <2>2 DEF Coming, q
  <2>4. StreamInv(d)'
    BY <1>1, <1>3, <2>1, <2>2 DEF StreamInv, q
  <2> QED
    BY <1>1, <2>3, <2>4, StreamMoves
<1> QED
  BY <1>4, <1>5

LEMMA PostLinks ==
  ASSUME TypeInv, LinkInv, NEW d \in Datastreams, Post(d)
  PROVE  LinkInv'
<1> DEFINE m == doing[d]
<1>1. /\ dpc[d] \in {"post", "waitpost"} /\ dpc'[d] \in {"request", "waitall"}
      /\ sends[d] \in Seq(Messages) /\ m \in Messages /\ StreamInv(d)
      /\ doing'[d] = doing[d] /\ instruction'[d] = instruction[d]
      /\ sends'[d] = Append(sends[d], m)
      /\ \A e \in Datastreams : e # d =>
           /\ sends'[e] = sends[e] /\ instruction'[e] = instruction[e]
           /\ dpc'[e] = dpc[e] /\ doing'[e] = doing[e]
      /\ UNCHANGED <<mpc, telling, target, sendcount, times, cpc, held>>
  BY DEF Post, Told, DatastreamAt, DsGoto, TypeInv, LinkInv, OrderInv, managerVars,
    coreVars, messageVars
<1>2. Untold(d)' = Untold(d) /\ GivenTo(d)' = GivenTo(d) /\ Doing(d) = {m} /\ Doing(d)' = {}
  BY <1>1 DEF Untold, GivenTo, Doing
<1>3. m.core \in Cores /\ m # Terminate /\ \A n \in Contents(sends[d]) : n.subint < m.subint
  BY <1>1, <1>2, MessageFacts DEF StreamInv
<1> HIDE DEF m
<1>4. /\ Contents(sends'[d]) = Contents(sends[d]) \cup {m}
      /\ InSequence(sends'[d]) /\ ~HasStop(sends'[d])
  BY <1>1, <1>3, AppendQueue DEF StreamInv
<1>5. Coming(d)' = Coming(d)
  BY <1>1, <1>2, <1>4 DEF Coming
<1>6. StreamInv(d)'
  BY <1>1, <1>2, <1>3, <1>4 DEF StreamInv
<1> QED
  BY <1>1, <1>5, <1>6, StreamMoves

LEMMA ReceiveTimeLinks ==
  ASSUME TypeInv, LinkInv, NEW c \in Cores, ReceiveTime(c)
  PROVE  LinkInv'
<1>1. /\ cpc[c] = "time" /\ times[c] # << >> /\ Head(times[c]) # Terminate
      /\ \A d \in Datastreams : held'[c][d] = -1
      /\ \A b \in Cores : b # c => cpc'[b] = cpc[b] /\ held'[b] = held[b]
      /\ UNCHANGED <<mpc, telling, target, sendcount, times, instruction, sends, dpc, doing>>
  BY DEF ReceiveTime, CoreAt, CoreGoto, TypeInv, managerVars, datastreamVars, messageVars
<1>2. \A b \in Cores, d \in Datastreams : Held(b, d)' = Held(b, d)
  BY <1>1 DEF Held
<1>3. \A d \in Datastreams : Coming(d)' = Coming(d) /\ StreamInv(d)'
  BY <1>1 DEF LinkInv, OrderInv, StreamInv, Coming, Untold, Doing, GivenTo
<1>4. \A b \in Cores : TimesInv(b)' /\ HeadInv(b)'
  BY <1>1 DEF LinkInv, OrderInv, MatchInv, TimesInv, HeadInv
<1>5. \A b \in Cores, d \in Datastreams : Matched(b, d)'
  BY <1>1, <1>2, <1>3 DEF LinkInv, MatchInv, Matched
<1> QED
  BY <1>3, <1>4, <1>5 DEF LinkInv, OrderInv, MatchInv

(* Core c is done with the first of its instructions.                      *)
LEMMA TimeDone ==
  ASSUME TypeInv, LinkInv, NEW c \in Cores,
         times[c] # << >>, times' = [times EXCEPT ![c] = Tail(@)],
         cpc[c] \in {"time", "data"}, cpc'[c] # "data",
         \A b \in Cores : b # c => cpc'[b] = cpc[b],
         UNCHANGED <<mpc, telling, target, sendcount, instruction, sends, dpc, doing, held>>,
         Head(times[c]) = Terminate
           \/ (cpc[c] = "data" /\ \A d \in Datastreams : held[c][d] # -1)
  PROVE  LinkInv'
<1> DEFINE q == times[c]   m == Head(times[c])
<1>1. q \in Seq(Messages) /\ q # << >> /\ InSequence(q) /\ TimesInv(c) /\ HeadInv(c)
  BY DEF TypeInv, LinkInv, OrderInv, MatchInv, TimesInv
<1>2. times'[c] = Tail(q) /\ \A b \in Cores : b # c => times'[b] = times[b]
  BY DEF TypeInv
<1>3. \A d \in Datastreams : Coming(d)' = Coming(d) /\ StreamInv(d)'
  BY DEF LinkInv, OrderInv, StreamInv, Coming, Untold, Doing, GivenTo
<1>4. /\ InSequence(Tail(q)) /\ Contents(q) = Contents(Tail(q)) \cup ({m} \ {Terminate})
      /\ m = Terminate => Contents(q) = {}
      /\ m # Terminate => m.core \in Cores /\ m \in Messages /\ m \notin Contents(Tail(q))
  <2>1. /\ InSequence(Tail(q)) /\ Contents(q) = Contents(Tail(q)) \cup ({m} \ {Terminate})
        /\ m = Terminate => Contents(q) = {}
        /\ m \in Messages
        /\ m # Terminate =>
             m.core \in Cores /\ \A n \in Contents(Tail(q)) : m.subint < n.subint
    BY <1>1, TailQueue
  <2>2. m.subint \in Nat
    BY <2>1 DEF Messages
  <2> QED
    BY <2>1, <2>2
<1>5. \A b \in Cores : TimesInv(b)' /\ HeadInv(b)'
  <2> TAKE b \in Cores
  <2>1. TimesInv(b) /\ HeadInv(b)
    BY DEF LinkInv, OrderInv, MatchInv
  <2>2. CASE b = c
    BY <1>1, <1>2, <1>4, <2>2 DEF TimesInv, HeadInv
  <2>3. CASE b # c
    BY <1>2, <2>1, <2>3 DEF TimesInv, HeadInv
  <2> QED
    BY <2>2, <2>3
<1>6. \A b \in Cores, d \in Datastreams : Matched(b, d)'
  <2> TAKE b \in Cores, d \in Datastreams
  <2>1. Matched(b, d) /\ Matched(c, d)
    BY DEF LinkInv, MatchInv
  <2>2. CASE b # c
    <3>1. Held(b, d)' = Held(b, d)
      BY <2>2 DEF Held
    <3> QED
      BY <1>2, <1>3, <2>1, <2>2, <3>1 DEF Matched
  <2>3. CASE b = c /\ m = Terminate
    <3>1. Contents(Tail(q)) = {} /\ Held(c, d)' = {}
      BY <1>4, <2>3 DEF Held
    <3> QED
      BY <1>2, <1>3, <1>4, <2>1, <2>3, <3>1 DEF Matched
  <2>4. CASE b = c /\ m # Terminate
    <3>1. cpc[c] = "data" /\ held[c][d] = m.subint /\ held[c][d] # -1
      BY <2>1, <2>4 DEF Matched
    <3>2. m.core = c /\ m = Process(c, held[c][d])
      <4>1. m \in Contents(q)
        BY <1>4, <2>4
      <4>2. m.core = c
        BY <1>1, <4>1 DEF TimesInv
      <4> QED
        BY <1>4, <2>4, <3>1, <4>2, MessageFacts
    <3>3. Held(c, d) = {m} /\ Held(c, d)' = {}
      BY <3>1, <3>2 DEF Held
    <3>4. Contents(Tail(q)) = {n \in Coming(d) : n.core = c}
      BY <1>4, <2>1, <2>4, <3>3 DEF Matched
    <3> QED
      BY <1>2, <1>3, <2>4, <3>3, <3>4 DEF Matched
  <2> QED
    BY <2>2, <2>3, <2>4
<1> QED
  BY <1>3, <1>5, <1>6 DEF LinkInv, OrderInv, MatchInv

LEMMA ReceiveTerminateLinks ==
  ASSUME TypeInv, LinkInv, NEW c \in Cores, ReceiveTerminate(c)
  PROVE  LinkInv'
<1>1. /\ times[c] # << >> /\ times' = [times EXCEPT ![c] = Tail(@)]
      /\ cpc[c] = "time" /\ cpc'[c] \in {"end", "drain"} /\ Head(times[c]) = Terminate
      /\ \A b \in Cores : b # c => cpc'[b] = cpc[b]
      /\ UNCHANGED <<mpc, telling, target, sendcount, instruction, sends, dpc, doing, held>>
  BY DEF ReceiveTerminate, CoreAt, CoreGoto, TypeInv, managerVars, datastreamVars
<1> QED
  BY <1>1, TimeDone

LEMMA SlotFullLinks ==
  ASSUME TypeInv, LinkInv, NEW c \in Cores, SlotFull(c)
  PROVE  LinkInv'
<1>1. /\ times' = [times EXCEPT ![c] = Tail(@)]
      /\ cpc[c] = "data" /\ cpc'[c] \in {"time", "offer"}
      /\ \A d \in Datastreams : held[c][d] # -1
      /\ \A b \in Cores : b # c => cpc'[b] = cpc[b]
      /\ UNCHANGED <<mpc, telling, target, sendcount, instruction, sends, dpc, doing, held>>
  BY DEF SlotFull, CoreAt, CoreGoto, TypeInv, managerVars, datastreamVars
<1>2. times[c] # << >>
  BY <1>1 DEF LinkInv, MatchInv, HeadInv
<1> QED
  BY <1>1, <1>2, TimeDone

(* The oldest message of a datastream for a core is of the instruction the *)
(* core is at.                                                             *)
LEMMA DataOfHead ==
  ASSUME TypeInv, LinkInv, NEW c \in Cores, NEW d \in Datastreams,
         cpc[c] = "data", held[c][d] = -1, OldestFor(c, sends[d]) # 0
  PROVE  LET m == sends[d][OldestFor(c, sends[d])] IN
         /\ m \in Contents(sends[d]) /\ m.core = c /\ m \in Messages
         /\ m = Head(times[c])
<1> DEFINE q == sends[d]   k == OldestFor(c, q)   m == q[k]   h == Head(times[c])
<1>1. /\ q \in Seq(Messages) /\ InSequence(q) /\ ~HasStop(q) /\ StreamInv(d)
      /\ times[c] \in Seq(Messages) /\ InSequence(times[c]) /\ TimesInv(c)
      /\ times[c] # << >> /\ h # Terminate /\ Matched(c, d)
  BY DEF TypeInv, LinkInv, OrderInv, MatchInv, StreamInv, TimesInv, HeadInv
<1>2. k \in 1 .. Len(q) /\ m.core = c /\ \A i \in 1 .. Len(q) : q[i].core = c => k <= i
  BY <1>1, OldestIsFirst
<1>3. m \in Messages /\ m # Terminate /\ m \in Contents(q)
  <2>1. m \in Messages
    BY <1>1, <1>2
  <2> QED
    BY <1>2, <2>1, MessageFacts DEF Contents
<1>4. h \in Messages /\ h \in Contents(times[c]) /\ h.core = c
  <2>1. h \in Messages /\ Contents(times[c]) = Contents(Tail(times[c])) \cup ({h} \ {Terminate})
    BY <1>1, TailQueue
  <2> QED
    BY <1>1, <2>1 DEF TimesInv
<1>5. \A n \in Contents(times[c]) : n = h \/ h.subint < n.subint
  <2>1. /\ Contents(times[c]) = Contents(Tail(times[c])) \cup ({h} \ {Terminate})
        /\ \A n \in Contents(Tail(times[c])) : h.subint < n.subint
    BY <1>1, TailQueue
  <2> QED
    BY <2>1
<1>6. Contents(times[c]) = {n \in Coming(d) : n.core = c}
  BY <1>1 DEF Matched, Held
<1>7. m \in Contents(times[c])
  BY <1>2, <1>3, <1>6 DEF Coming
<1>8. m.subint \in Nat /\ h.subint \in Nat
  BY <1>3, <1>4 DEF Messages
<1>9. h \in Coming(d)
  BY <1>4, <1>6
<1> HIDE DEF k, m, h
<1>10. m.subint <= h.subint
  <2>1. CASE h \in Contents(q)
    <3>1. PICK i \in 1 .. Len(q) : h = q[i]
      BY <2>1 DEF Contents
    <3>2. k <= i
      BY <1>2, <1>4, <3>1
    <3>3. i = k \/ k < i
      BY <1>1, <1>2, <3>2
    <3>4. k < i => q[k].subint < q[i].subint
      BY <1>1, <1>2, <3>1 DEF InSequence, HasStop
    <3> QED
      BY <1>8, <3>1, <3>3, <3>4 DEF m
  <2>2. CASE h \in Doing(d) \cup Contents(instruction[d])
    BY <1>1, <1>3, <1>8, <2>2 DEF StreamInv
  <2>3. CASE h \in Untold(d)
    <3>1. mpc = "tell" /\ telling <= d /\ h.subint = sendcount
      BY <2>3 DEF Untold, Process
    <3>2. m.subint < GivenTo(d) /\ GivenTo(d) = sendcount
      <4>1. telling \in Nat /\ d \in Nat
        BY Ranks DEF TypeInv
      <4> QED
        BY <1>1, <1>3, <3>1, <4>1 DEF StreamInv, GivenTo
    <3> QED
      BY <1>8, <3>1, <3>2
  <2> QED
    BY <1>9, <2>1, <2>2, <2>3 DEF Coming
<1>11. m = h
  BY <1>5, <1>7, <1>8, <1>10
<1> QED
  BY <1>2, <1>3, <1>11 DEF k, m, h

LEMMA ReceiveDataLinks ==
  ASSUME TypeInv, LinkInv, NEW c \in Cores, NEW d \in Datastreams, ReceiveData(c, d)
  PROVE  LinkInv'
<1> DEFINE q == sends[d]   k == OldestFor(c, q)   m == q[k]
<1>1. /\ cpc[c] = "data" /\ held[c][d] = -1 /\ k # 0
      /\ held' = [held EXCEPT ![c][d] = m.subint]
      /\ sends' = [sends EXCEPT ![d] = RemoveAt(@, k)]
      /\ UNCHANGED <<mpc, telling, target, sendcount, times, instruction, dpc, doing, cpc>>
  BY DEF ReceiveData, CoreAt, OldestFor, managerVars, messageVars
<1>2. /\ m \in Contents(q) /\ m.core = c /\ m \in Messages /\ m = Head(times[c])
  BY <1>1, DataOfHead
<1>3. q \in Seq(Messages) /\ InSequence(q) /\ ~HasStop(q) /\ k \in 1 .. Len(q) /\ StreamInv(d)
  BY <1>1, OldestIsFirst DEF TypeInv, LinkInv, OrderInv, StreamInv
<1>4. /\ InSequence(RemoveAt(q, k)) /\ ~HasStop(RemoveAt(q, k))
      /\ Contents(RemoveAt(q, k)) = Contents(q) \ {m}
  BY <1>3, RemoveQueue
<1>5. /\ sends'[d] = RemoveAt(q, k)
      /\ \A e \in Datastreams : e # d => sends'[e] = sends[e]
      /\ held'[c][d] = m.subint
      /\ \A b \in Cores, e \in Datastreams : b # c \/ e # d => held'[b][e] = held[b][e]
  <2>1. sends'[d] = RemoveAt(q, k) /\ \A e \in Datastreams : e # d => sends'[e] = sends[e]
    BY <1>1 DEF TypeInv
  <2>2. \A b \in Cores : held[b] \in [Datastreams -> Nat \cup {-1}]
    BY DEF TypeInv
  <2> QED
    BY <1>1, <2>1, <2>2 DEF TypeInv
<1> HIDE DEF k, m, q
<1>6. \A e \in Datastreams : /\ Untold(e)' = Untold(e) /\ Doing(e)' = Doing(e)
                             /\ GivenTo(e)' = GivenTo(e)
  BY <1>1 DEF Untold, Doing, GivenTo
<1>7. m \notin Doing(d) \cup Contents(instruction[d]) \cup Untold(d)
  <2>1. m.subint \in Nat
    BY <1>2 DEF Messages
  <2>2. m \notin Doing(d) \cup Contents(instruction[d])
    BY <1>2, <1>3, <2>1 DEF StreamInv, q
  <2>3. m \notin Untold(d)
    <3>1. CASE mpc = "tell" /\ telling <= d
      <4>1. telling \in Nat /\ d \in Nat
        BY Ranks DEF TypeInv
      <4>2. m.subint < sendcount
        BY <1>2, <1>3, <3>1, <4>1 DEF StreamInv, GivenTo, q
      <4> QED
        BY <2>1, <4>2 DEF Untold, Process
    <3>2. CASE ~(mpc = "tell" /\ telling <= d)
      BY <3>2 DEF Untold
    <3> QED
      BY <3>1, <3>2
  <2> QED
    BY <2>2, <2>3
<1>8. Coming(d)' = Coming(d) \ {m} /\ m \in Coming(d)
      /\ \A e \in Datastreams : e # d => Coming(e)' = Coming(e)
  BY <1>1, <1>2, <1>4, <1>5, <1>6, <1>7 DEF Coming, q
<1>9. \A e \in Datastreams : StreamInv(e)'
  <2> TAKE e \in Datastreams
  <2>1. CASE e = d
    BY <1>1, <1>3, <1>4, <1>5, <1>6, <2>1 DEF StreamInv, q
  <2>2. CASE e # d
    BY <1>1, <1>5, <1>6, <2>2 DEF LinkInv, OrderInv, StreamInv
  <2> QED
    BY <2>1, <2>2
<1>10. \A b \in Cores : TimesInv(b)' /\ HeadInv(b)'
  BY <1>1 DEF LinkInv, OrderInv, MatchInv, TimesInv, HeadInv
<1>11. \A b \in Cores, e \in Datastreams : Matched(b, e)'
  <2> TAKE b \in Cores, e \in Datastreams
  <2>1. Matched(b, e)
    BY DEF LinkInv, MatchInv
  <2>2. CASE b = c /\ e = d
    <3>1. m = Process(c, m.subint) /\ m.subint # -1
      BY <1>2, MessageFacts
    <3>2. Held(c, d) = {} /\ Held(c, d)' = {m}
      BY <1>1, <1>5, <3>1 DEF Held
    <3> QED
      BY <1>1, <1>2, <1>5, <1>8, <2>1, <2>2, <3>2 DEF Matched
  <2>3. CASE b # c /\ e = d
    <3>1. Held(b, e)' = Held(b, e)
      BY <1>1, <1>5, <2>3 DEF Held
    <3>2. {n \in Coming(e)' : n.core = b} = {n \in Coming(e) : n.core = b}
      BY <1>2, <1>8, <2>3
    <3>3. Held(b, e)' \cap Coming(e)' = {}
      BY <1>8, <2>1, <2>3, <3>1 DEF Matched
    <3> QED
      BY <1>1, <1>5, <2>1, <2>3, <3>1, <3>2, <3>3 DEF Matched
  <2>4. CASE e # d
    <3>1. Held(b, e)' = Held(b, e)
      BY <1>1, <1>5, <2>4 DEF Held
    <3> QED
      BY <1>1, <1>5, <1>8, <2>1, <2>4, <3>1 DEF Matched
  <2> QED
    BY <2>2, <2>3, <2>4
<1> QED
  BY <1>9, <1>10, <1>11 DEF LinkInv, OrderInv, MatchInv

(***************************************************************************)
(* Nothing is sent after the word to terminate.                            *)
(***************************************************************************)
LEMMA StopInit == Init => StopInv
<1> SUFFICES ASSUME Init PROVE StopInv
  OBVIOUS
<1>1. (\A c \in Cores : ~HasStop(times[c])) /\ \A d \in Datastreams : ~HasStop(instruction[d])
  BY EmptyQueue DEF Init
<1> QED
  BY <1>1 DEF Init, StopInv, Over

(* Steps that leave the instructions and the manager alone.                *)
LEMMA StopFrame ==
  ASSUME StopInv, UNCHANGED <<mpc, target, telling, sendcount, owed, times, instruction>>,
         terminatenow' => terminatenow \/ sendcount >= FillUp,
         \A c \in Cores : cpc'[c] \in {"drain", "end"} => cpc[c] \in {"drain", "end"}
  PROVE  StopInv'
<1>1. (\A c \in Cores : Stopped(c)' = Stopped(c)) /\ Over' = Over
  BY DEF Stopped, Over
<1>2. \A d \in Datastreams : StoppedToo(d)' = StoppedToo(d)
  BY DEF StoppedToo
<1> QED
  BY <1>1, <1>2 DEF StopInv, FillUp

LEMMA TakeStop ==
  ASSUME TypeInv, StopInv, NEW c \in Cores, mpc = "probe", Offers(c), Take(c), Took(c),
         UNCHANGED <<telling, sendcount, terminatenow, times, instruction>>
  PROVE  StopInv'
<1>1. owed \in Nat /\ sendcount \in Nat /\ FillUp \in Nat
  BY Numbers, FillFacts DEF TypeInv
<1>2. /\ \A b \in Cores : cpc'[b] \in {"drain", "end"} => cpc[b] \in {"drain", "end"}
  BY DEF Took, Offers, TypeInv
<1>3. CASE owed = 0
  <2>1. ~Over /\ mpc' = "time" /\ owed' = 0
    BY <1>3 DEF Over, Take
  <2>2. \A b \in Cores : ~Stopped(b)
    BY <2>1 DEF Stopped
  <2>3. \A d \in Datastreams : ~StoppedToo(d)
    BY <1>3 DEF StoppedToo
  <2> QED
    BY <1>2, <2>1, <2>2, <2>3 DEF StopInv, FillUp, Over
<1>4. CASE owed > 0
  <2>1. /\ Over' /\ Over /\ mpc' \in {"probe", "end"} /\ owed' = owed - 1
        /\ mpc' = "end" <=> owed' = 0
    BY <1>1, <1>4 DEF Over, Take
  <2>2. \A b \in Cores : Stopped(b)'
    BY <2>1 DEF Stopped
  <2>3. mpc' = "end" \/ (mpc' = "probe" /\ owed' > 0)
    BY <1>1, <1>4, <2>1
  <2>4. \A d \in Datastreams : StoppedToo(d)'
    BY <2>3 DEF StoppedToo
  <2> QED
    BY <1>1, <1>2, <2>1, <2>2, <2>4 DEF StopInv, FillUp
<1> QED
  BY <1>1, <1>3, <1>4

LEMMA ManagerStop ==
  ASSUME TypeInv, LinkInv, StopInv, ManagerStep \/ Interrupt
  PROVE  StopInv'
<1> USE DEF ManagerAt, startVars, datastreamVars, coreVars, messageVars
<1>1. CASE Interrupt
  BY <1>1, StopFrame DEF Interrupt
<1>2. CASE Loop
  <2>1. ~Over /\ ~Over' /\ mpc' \in {"time", "probe"} /\ owed' = 0 /\ owed = 0
    BY <1>2 DEF Loop, Over, StopInv
  <2>2. (\A c \in Cores : ~Stopped(c)) /\ \A d \in Datastreams : ~StoppedToo(d)
    BY <1>2, <2>1 DEF Loop, Stopped, StoppedToo
  <2>3. mpc' = "probe" => sendcount >= FillUp
    BY <1>2, FillFacts, Numbers DEF Loop, TypeInv
  <2> QED
    BY <1>2, <2>1, <2>2, <2>3 DEF Loop, StopInv, FillUp
<1>3. CASE SendTime
  <2>1. /\ mpc = "time" /\ mpc' = "tell" /\ target \in Cores /\ sendcount \in Nat
        /\ times' = [times EXCEPT ![target] = Append(@, Process(target, sendcount))]
        /\ UNCHANGED <<sendcount, terminatenow, owed, instruction, cpc>>
    BY <1>3, Numbers DEF SendTime, TypeInv
  <2>2. ~Over /\ ~Over' /\ (\A c \in Cores : ~Stopped(c)) /\ \A d \in Datastreams : ~StoppedToo(d)
    BY <2>1 DEF Over, Stopped, StoppedToo
  <2>3. HasStop(times'[target]) => HasStop(times[target])
    BY <2>1, AppendQueue, MessageFacts DEF TypeInv
  <2>4. \A c \in Cores : ~HasStop(times'[c])
    BY <2>1, <2>2, <2>3 DEF StopInv, TypeInv
  <2> QED
    BY <2>1, <2>2, <2>4 DEF StopInv, FillUp
<1>4. CASE SendInstruction
  <2>1. /\ mpc = "tell" /\ mpc' \in {"tell", "loop"} /\ target \in Cores /\ sendcount \in Nat
        /\ telling \in Datastreams
        /\ instruction' = [instruction EXCEPT ![telling] = Append(@, Process(target, sendcount))]
        /\ sendcount' \in {sendcount, sendcount + 1}
        /\ UNCHANGED <<terminatenow, owed, times, cpc>>
    BY <1>4, Numbers DEF SendInstruction, TypeInv
  <2>2. ~Over /\ ~Over' /\ (\A c \in Cores : ~Stopped(c)) /\ \A d \in Datastreams : ~StoppedToo(d)
    BY <2>1 DEF Over, Stopped, StoppedToo
  <2>3. HasStop(instruction'[telling]) => HasStop(instruction[telling])
    BY <2>1, AppendQueue, MessageFacts DEF TypeInv
  <2>4. \A d \in Datastreams : ~HasStop(instruction'[d])
    BY <2>1, <2>2, <2>3 DEF StopInv, TypeInv
  <2> QED
    BY <2>1, <2>2, <2>4, FillFacts DEF StopInv, FillUp
<1>5. CASE Probe
  <2>1. CASE Offers(NextSource)
    BY <1>5, <2>1, NextSourceFacts, TakeStop DEF Probe
  <2>2. CASE ~Offers(NextSource)
    BY <1>5, <2>2, StopFrame DEF Probe
  <2> QED
    BY <2>1, <2>2
<1>6. ASSUME NEW c \in Cores, ReceiveAny(c) PROVE StopInv'
  BY <1>6, TakeStop DEF ReceiveAny
<1>7. CASE StopSending
  <2>1. ~Over /\ ~Over' /\ mpc = "loop" /\ mpc' = "stopcores" /\ owed' = 0 /\ owed = 0
    BY <1>7 DEF StopSending, Over, StopInv
  <2>2. (\A c \in Cores : ~Stopped(c)) /\ \A d \in Datastreams : ~StoppedToo(d)
    BY <2>1 DEF Stopped, StoppedToo
  <2> QED
    BY <1>7, <2>1, <2>2 DEF StopSending, StopInv, FillUp
<1>8. CASE TerminateCore
  <2>1. /\ mpc = "stopcores" /\ target \in Cores
        /\ times' = [times EXCEPT ![target] = Append(@, Terminate)]
        /\ \/ mpc' = "stopcores" /\ target' = target + 1
           \/ mpc' = "stopdatastreams" /\ target = numdatastreams + numcores
              /\ telling' = FIRSTTELESCOPEID
        /\ UNCHANGED <<sendcount, terminatenow, owed, instruction, cpc>>
    <3>1. mpc = "stopcores" /\ target \in Cores
      BY <1>8 DEF TerminateCore, TypeInv
    <3>2. ~(target < numdatastreams + numcores) => target = numdatastreams + numcores
      BY <3>1, Ranks, Numbers
    <3> QED
      BY <1>8, <3>1, <3>2 DEF TerminateCore
  <2>2. /\ \A c \in Cores : Stopped(c) <=> c < target
        /\ \A c \in Cores : Stopped(c)' <=> c <= target
        /\ \A d \in Datastreams : ~StoppedToo(d)
        /\ owed = 0
    BY <2>1, Ranks, Numbers DEF Stopped, Over, StoppedToo, StopInv
  <2>3. \A c \in Cores : c # target => times'[c] = times[c]
    BY <2>1 DEF TypeInv
  <2>4. \A c \in Cores : cpc[c] \in {"drain", "end"} => c # target /\ times'[c] = << >>
    BY <2>1, <2>2, <2>3, Ranks DEF StopInv
  <2>5. \A c \in Cores : HasStop(times'[c]) => Stopped(c)'
    BY <2>1, <2>2, <2>3, Ranks DEF StopInv
  <2>6. \A c \in Cores : Stopped(c) => Stopped(c)'
    BY <2>1, <2>2, Ranks
  <2> QED
    BY <2>1, <2>2, <2>4, <2>5, <2>6 DEF StopInv, FillUp, Over
<1>9. CASE TerminateDatastream
  <2>1. /\ mpc = "stopdatastreams" /\ telling \in Datastreams
        /\ instruction' = [instruction EXCEPT ![telling] = Append(@, Terminate)]
        /\ \/ mpc' = "stopdatastreams" /\ telling' = telling + 1 /\ owed' = owed
           \/ /\ telling = numdatastreams
              /\ owed' = Owed
              /\ mpc' = IF Owed = 0 THEN "end" ELSE "probe"
        /\ UNCHANGED <<sendcount, terminatenow, times, cpc>>
    BY <1>9, Ranks, Numbers DEF TerminateDatastream, TypeInv
  <2>2. owed = 0 /\ Over /\ Over' /\ Owed \in Nat
    <3>1. Owed \in Nat
      BY FillFacts, Numbers DEF Owed, TypeInv
    <3> QED
      BY <2>1, <3>1 DEF StopInv, Over
  <2>3. (\A c \in Cores : Stopped(c)') /\ \A d \in Datastreams : StoppedToo(d)' <=> d <= telling
    BY <2>1, <2>2, Ranks, Numbers DEF Stopped, Over, StoppedToo
  <2>4. \A d \in Datastreams : HasStop(instruction'[d]) => d <= telling
    BY <2>1, Ranks DEF TypeInv, StopInv, StoppedToo
  <2> QED
    BY <2>1, <2>2, <2>3, <2>4 DEF StopInv, FillUp
<1> QED
  BY <1>1, <1>2, <1>3, <1>4, <1>5, <1>6, <1>7, <1>8, <1>9 DEF ManagerStep

LEMMA DatastreamStop ==
  ASSUME TypeInv, LinkInv, StopInv, NEW d \in Datastreams, DatastreamStep(d)
  PROVE  StopInv'
<1> USE DEF startVars, managerVars, coreVars, messageVars
<1>1. CASE FillBuffer(d) \/ WaitEarlier(d) \/ Post(d) \/ WaitAll(d) \/ Drain(d)
  BY <1>1, StopFrame DEF FillBuffer, WaitEarlier, Post, WaitAll, Drain
<1>2. CASE Request(d)
  <2>1. /\ instruction[d] # << >> /\ instruction[d] \in Seq(Messages) /\ InSequence(instruction[d])
        /\ instruction' = [instruction EXCEPT ![d] = Tail(@)]
        /\ UNCHANGED <<mpc, target, telling, sendcount, owed, times, terminatenow, cpc>>
    BY <1>2 DEF Request, TypeInv, LinkInv, OrderInv, StreamInv
  <2>2. HasStop(Tail(instruction[d])) => HasStop(instruction[d])
    BY <2>1, TailQueue, EmptyQueue
  <2>3. \A e \in Datastreams : HasStop(instruction'[e]) => HasStop(instruction[e])
    BY <2>1, <2>2 DEF TypeInv
  <2>4. (\A c \in Cores : Stopped(c)' = Stopped(c)) /\ Over' = Over
    BY <2>1 DEF Stopped, Over
  <2>5. \A e \in Datastreams : StoppedToo(e)' = StoppedToo(e)
    BY <2>1 DEF StoppedToo
  <2> QED
    BY <2>1, <2>3, <2>4, <2>5 DEF StopInv, FillUp
<1> QED
  BY <1>1, <1>2 DEF DatastreamStep

LEMMA CoreStop ==
  ASSUME TypeInv, LinkInv, StopInv, NEW c \in Cores, CoreStep(c)
  PROVE  StopInv'
<1> USE DEF CoreAt, CoreGoto, startVars, managerVars, datastreamVars, messageVars
<1>1. CASE ReceiveTime(c)
  BY <1>1, StopFrame DEF ReceiveTime, TypeInv
<1>2. ASSUME NEW d \in Datastreams, ReceiveData(c, d) PROVE StopInv'
  BY <1>2, StopFrame DEF ReceiveData
<1>3. ASSUME times[c] # << >>, times' = [times EXCEPT ![c] = Tail(@)],
             cpc'[c] \in {"drain", "end"} => Head(times[c]) = Terminate,
             \A b \in Cores : b # c => cpc'[b] = cpc[b],
             UNCHANGED <<mpc, target, telling, sendcount, owed, instruction, terminatenow>>
      PROVE  StopInv'
  <2>1. times[c] \in Seq(Messages) /\ InSequence(times[c])
    BY DEF TypeInv, LinkInv, OrderInv, TimesInv
  <2>2. /\ HasStop(Tail(times[c])) => HasStop(times[c])
        /\ Head(times[c]) = Terminate => Tail(times[c]) = << >> /\ HasStop(times[c])
    BY <1>3, <2>1, TailQueue, EmptyQueue
  <2>3. \A b \in Cores : b # c => times'[b] = times[b]
    BY <1>3 DEF TypeInv
  <2>4. times'[c] = Tail(times[c])
    BY <1>3 DEF TypeInv
  <2>5. (\A b \in Cores : Stopped(b)' = Stopped(b)) /\ Over' = Over
    BY <1>3 DEF Stopped, Over
  <2>6. \A e \in Datastreams : StoppedToo(e)' = StoppedToo(e)
    BY <1>3 DEF StoppedToo
  <2>7. \A b \in Cores :
          /\ HasStop(times'[b]) => Stopped(b)
          /\ cpc'[b] \in {"drain", "end"} => times'[b] = << >> /\ Stopped(b)
    BY <1>3, <2>2, <2>3, <2>4 DEF StopInv
  <2> QED
    BY <1>3, <2>5, <2>6, <2>7 DEF StopInv, FillUp
<1>4. CASE ReceiveTerminate(c)
  BY <1>3, <1>4 DEF ReceiveTerminate, TypeInv
<1>5. CASE SlotFull(c)
  <2>1. times[c] # << >>
    BY <1>5 DEF SlotFull, LinkInv, MatchInv, HeadInv
  <2> QED
    BY <1>3, <1>5, <2>1 DEF SlotFull, TypeInv
<1> QED
  BY <1>1, <1>2, <1>4, <1>5 DEF CoreStep

(***************************************************************************)
(* Instruction and data meet.                                              *)
(***************************************************************************)
MessageInv == TypeInv /\ LinkInv /\ StopInv

LEMMA MessageStep == MessageInv /\ [Next]_vars => MessageInv'
<1> SUFFICES ASSUME MessageInv, [Next]_vars PROVE MessageInv'
  OBVIOUS
<1>1. TypeInv /\ LinkInv /\ StopInv
  BY DEF MessageInv
<1>2. ASSUME TypeInv', UNCHANGED runVars PROVE MessageInv'
  BY <1>1, <1>2, QuietLinks, StopFrame DEF MessageInv, runVars, managerVars, coreVars,
    messageVars
<1>3. CASE UNCHANGED vars
  <2>1. TypeInv' /\ UNCHANGED runVars
    BY <1>1, <1>3 DEF TypeInv, vars, runVars, startVars, managerVars, datastreamVars,
      coreVars, messageVars
  <2> QED
    BY <1>2, <2>1
<1>4. ASSUME NEW p \in Procs, StartStep(p) \/ OpenSocket(p) \/ CannotOpen \/ Abort
      PROVE  MessageInv'
  BY <1>1, <1>2, <1>4, StartTypes
<1>5. CASE ManagerStep \/ Interrupt
  <2>1. LinkInv'
    BY <1>1, <1>5, QuietLinks, SendTimeLinks, SendInstructionLinks, TerminateCoreLinks,
      TerminateDatastreamLinks DEF ManagerStep
  <2> QED
    BY <1>1, <1>5, <2>1, ManagerTypes, ManagerStop DEF MessageInv
<1>6. ASSUME NEW d \in Datastreams, DatastreamStep(d) PROVE MessageInv'
  <2>1. LinkInv'
    BY <1>1, <1>6, QuietLinks, RequestLinks, PostLinks DEF DatastreamStep
  <2> QED
    BY <1>1, <1>6, <2>1, DatastreamTypes, DatastreamStop DEF MessageInv
<1>7. ASSUME NEW c \in Cores, CoreStep(c) PROVE MessageInv'
  <2>1. LinkInv'
    BY <1>1, <1>7, ReceiveTimeLinks, ReceiveTerminateLinks, SlotFullLinks,
      ReceiveDataLinks DEF CoreStep
  <2> QED
    BY <1>1, <1>7, <2>1, CoreTypes, CoreStop DEF MessageInv, LinkInv
<1>8. MANAGERID \in Procs
  BY DEF Procs
<1> QED
  BY <1>3, <1>4, <1>5, <1>6, <1>7, <1>8 DEF Next, Ended

(* The queues between manager, datastreams and cores stay in order and     *)
(* agree with each other at every step of execute, and nothing follows the *)
(* word to terminate.                                                      *)
THEOREM Messaging == Spec => []MessageInv
<1>1. Init => MessageInv
  BY TypeInit, LinkInit, StopInit DEF MessageInv
<1> QED
  BY <1>1, MessageStep, PTL DEF Spec

(* The data receivedata stores are of the subintegration of the core's     *)
(* instruction, from every datastream.                                     *)
THEOREM DataMatches == Spec => []DataMatch
<1>1. MessageInv => DataMatch
  BY DEF MessageInv, LinkInv, MatchInv, Matched, DataMatch
<1> QED
  BY <1>1, Messaging, PTL

(***************************************************************************)
(* Every core has its turn.                                                *)
(***************************************************************************)
LEMMA TurnFacts ==
  ASSUME TypeInv
  PROVE  /\ \A x \in Cores : Turn(x) \in 1 .. numcores
         /\ \A x \in Cores : Turn(x) = 1 <=> x = NextSource
         /\ lastsource' = NextSource =>
              \A x \in Cores :
                Turn(x)' = IF x = NextSource THEN numcores ELSE Turn(x) - 1
<1>1. lastsource \in Nat /\ numdatastreams <= lastsource /\ lastsource <= numdatastreams + numcores
  BY Numbers DEF TypeInv
<1>2. ASSUME NEW x \in Cores
      PROVE  x \in Nat /\ numdatastreams < x /\ x <= numdatastreams + numcores
  BY Ranks
<1>3. ASSUME NEW x \in Cores PROVE Turn(x) \in 1 .. numcores
  BY <1>1, <1>2, Numbers DEF Turn
<1>4. ASSUME NEW x \in Cores PROVE Turn(x) = 1 <=> x = NextSource
  BY <1>1, <1>2, Numbers DEF Turn, NextSource
<1>5. ASSUME NEW x \in Cores, lastsource' = NextSource
      PROVE  Turn(x)' = IF x = NextSource THEN numcores ELSE Turn(x) - 1
  BY <1>1, <1>2, <1>5, Numbers DEF Turn, NextSource
<1> QED
  BY <1>3, <1>4, <1>5

(* Steps that take no result and begin no probing.                         *)
LEMMA TurnFrame ==
  ASSUME TypeInv, TurnInv, UNCHANGED lastsource,
         mpc' = "probe" => probed' = 0 \/ (mpc = "probe" /\ probed' = probed),
         \A c \in Cores :
           \/ cpc'[c] = cpc[c] /\ passed'[c] = passed[c]
           \/ Offers(c)' => passed'[c] = [b \in Cores |-> 0]
  PROVE  TurnInv'
<1> SUFFICES ASSUME NEW b \in Cores, NEW c \in Cores, Offers(c)'
             PROVE  passed'[c][b] <= (IF BehindProbe(c)' THEN 0 ELSE 1)
                                       + (IF Turn(b)' >= Turn(c)' THEN 1 ELSE 0)
  BY DEF TurnInv
<1>1. Turn(b)' = Turn(b) /\ Turn(c)' = Turn(c)
  BY DEF Turn
<1>2. BehindProbe(c)' => BehindProbe(c)
  BY <1>1 DEF BehindProbe
<1>3. CASE cpc'[c] = cpc[c] /\ passed'[c] = passed[c]
  <2>1. Offers(c)
    BY <1>3 DEF Offers
  <2>2. passed[c][b] \in Nat
    BY DEF TypeInv
  <2> QED
    BY <1>1, <1>2, <1>3, <2>1, <2>2 DEF TurnInv
<1>4. CASE passed'[c] = [x \in Cores |-> 0]
  BY <1>4
<1> QED
  BY <1>3, <1>4

(* A result is taken: the turn that follows is behind nobody's probe.      *)
LEMMA TakeTurn ==
  ASSUME TypeInv, TurnInv, NEW x \in Cores, Offers(x), Take(x), Took(x),
         \/ probed = numcores /\ mpc = "probe" /\ UNCHANGED lastsource
         \/ x = NextSource /\ lastsource' = NextSource
  PROVE  TurnInv'
<1> SUFFICES ASSUME NEW b \in Cores, NEW c \in Cores, Offers(c)'
             PROVE  passed'[c][b] <= (IF BehindProbe(c)' THEN 0 ELSE 1)
                                       + (IF Turn(b)' >= Turn(c)' THEN 1 ELSE 0)
  BY DEF TurnInv
<1>1. ~BehindProbe(c)'
  BY DEF BehindProbe, Take
<1>2. CASE c = x
  <2>1. passed'[c][b] = 0
    BY <1>2 DEF Took
  <2> QED
    BY <1>1, <2>1
<1>3. CASE c # x
  <2>1. /\ Offers(c)
        /\ passed'[c][b] = IF b = x THEN passed[c][b] + 1 ELSE passed[c][b]
        /\ passed[c][b] \in Nat
    BY <1>3 DEF Took, Offers, TypeInv
  <2>2. passed[c][b] <= (IF BehindProbe(c) THEN 0 ELSE 1)
                          + (IF Turn(b) >= Turn(c) THEN 1 ELSE 0)
    BY <2>1 DEF TurnInv
  <2>3. Turn(b) \in 1 .. numcores /\ Turn(c) \in 1 .. numcores
    BY TurnFacts
  <2>4. CASE probed = numcores /\ mpc = "probe" /\ UNCHANGED lastsource
    <3>1. BehindProbe(c)
      BY <2>3, <2>4, Numbers DEF BehindProbe
    <3>2. Turn(b)' = Turn(b) /\ Turn(c)' = Turn(c)
      BY <2>4 DEF Turn
    <3> QED
      BY <1>1, <2>1, <2>2, <2>3, <3>1, <3>2
  <2>5. CASE x = NextSource /\ lastsource' = NextSource
    <3>1. /\ Turn(c) # 1 /\ Turn(c)' = Turn(c) - 1
          /\ Turn(b)' = IF b = x THEN numcores ELSE Turn(b) - 1
          /\ b = x => Turn(b) = 1
      BY <1>3, <2>5, TurnFacts
    <3> QED
      BY <1>1, <2>1, <2>2, <2>3, <3>1, Numbers
  <2> QED
    BY <2>4, <2>5
<1> QED
  BY <1>2, <1>3

LEMMA MissTurn ==
  ASSUME TypeInv, TurnInv, Probe, ~Offers(NextSource)
  PROVE  TurnInv'
<1>1. /\ mpc = "probe" /\ mpc' = "probe" /\ probed' = probed + 1 /\ probed \in Nat
      /\ probed < numcores /\ lastsource' = NextSource /\ UNCHANGED <<cpc, passed>>
  BY Numbers DEF Probe, ManagerAt, TypeInv, coreVars
<1> SUFFICES ASSUME NEW b \in Cores, NEW c \in Cores, Offers(c)'
             PROVE  passed'[c][b] <= (IF BehindProbe(c)' THEN 0 ELSE 1)
                                       + (IF Turn(b)' >= Turn(c)' THEN 1 ELSE 0)
  BY DEF TurnInv
<1>2. Offers(c) /\ c # NextSource /\ passed[c][b] \in Nat /\ passed'[c][b] = passed[c][b]
  BY <1>1 DEF Offers, TypeInv
<1>3. passed[c][b] <= (IF BehindProbe(c) THEN 0 ELSE 1)
                        + (IF Turn(b) >= Turn(c) THEN 1 ELSE 0)
  BY <1>2 DEF TurnInv
<1>4. Turn(b) \in 1 .. numcores /\ Turn(c) \in 1 .. numcores
  BY TurnFacts
<1>5. /\ Turn(c)' = Turn(c) - 1
      /\ Turn(b)' = IF b = NextSource THEN numcores ELSE Turn(b) - 1
  BY <1>1, <1>2, TurnFacts
<1>6. BehindProbe(c)' => BehindProbe(c)
  BY <1>1, <1>4, <1>5, Numbers DEF BehindProbe
<1> QED
  BY <1>2, <1>3, <1>4, <1>5, <1>6, Numbers

LEMMA TurnInit == Init => TurnInv
BY DEF Init, TurnInv, Offers

LEMMA TurnStep == MessageInv /\ TurnInv /\ [Next]_vars => TurnInv'
<1> SUFFICES ASSUME MessageInv, TurnInv, [Next]_vars PROVE TurnInv'
  OBVIOUS
<1> USE DEF ManagerAt, startVars, managerVars, datastreamVars, coreVars, messageVars
<1>1. TypeInv
  BY DEF MessageInv
<1>2. CASE UNCHANGED runVars
  BY <1>1, <1>2, TurnFrame DEF runVars
<1>3. CASE UNCHANGED vars
  BY <1>2, <1>3 DEF vars, runVars
<1>4. ASSUME NEW p \in Procs, StartStep(p) \/ OpenSocket(p) \/ CannotOpen \/ Abort
      PROVE  TurnInv'
  BY <1>1, <1>2, <1>4, StartTypes
<1>5. CASE ManagerStep \/ Interrupt
  <2>1. CASE Interrupt \/ Loop \/ StopSending \/ SendTime \/ SendInstruction
             \/ TerminateCore \/ TerminateDatastream
    <3>1. /\ UNCHANGED <<lastsource, cpc, passed>>
          /\ mpc' = "probe" => probed' = 0 \/ (mpc = "probe" /\ probed' = probed)
      BY <2>1 DEF Interrupt, Loop, StopSending, SendTime, SendInstruction,
        TerminateCore, TerminateDatastream
    <3> QED
      BY <1>1, <3>1, TurnFrame
  <2>2. CASE Probe
    <3>1. CASE Offers(NextSource)
      <4>1. Take(NextSource) /\ Took(NextSource) /\ lastsource' = NextSource
        BY <2>2, <3>1 DEF Probe
      <4> QED
        BY <1>1, <3>1, <4>1, NextSourceFacts, TakeTurn
    <3> QED
      BY <1>1, <2>2, <3>1, MissTurn
  <2>3. ASSUME NEW c \in Cores, ReceiveAny(c) PROVE TurnInv'
    BY <1>1, <2>3, TakeTurn DEF ReceiveAny
  <2> QED
    BY <1>5, <2>1, <2>2, <2>3 DEF ManagerStep
<1>6. ASSUME NEW d \in Datastreams, DatastreamStep(d) PROVE TurnInv'
  <2>1. UNCHANGED <<managerVars, coreVars, passed>>
    BY <1>6 DEF DatastreamStep, FillBuffer, Request, WaitEarlier, Post, WaitAll, Drain
  <2> QED
    BY <1>1, <2>1, TurnFrame
<1>7. ASSUME NEW c \in Cores, CoreStep(c) PROVE TurnInv'
  <2>1. /\ UNCHANGED managerVars
        /\ \A b \in Cores : b # c => cpc'[b] = cpc[b] /\ passed'[b] = passed[b]
        /\ \/ cpc'[c] = cpc[c] /\ passed'[c] = passed[c]
           \/ cpc'[c] = "data"
           \/ passed'[c] = [b \in Cores |-> 0]
    BY <1>1, <1>7 DEF CoreStep, ReceiveTime, ReceiveTerminate, SlotFull, ReceiveData,
      CoreAt, CoreGoto, TypeInv
  <2>2. Offers(c)' => cpc'[c] # "data"
    BY DEF Offers
  <2> QED
    BY <1>1, <2>1, <2>2, TurnFrame
<1>8. MANAGERID \in Procs
  BY DEF Procs
<1> QED
  BY <1>3, <1>4, <1>5, <1>6, <1>7, <1>8 DEF Next, Ended

(* "Work around MPI_Recv's desire to prioritize receives by MPI rank"      *)
(* (receiveData) does: while a result of a core waits each other core's    *)
(* results are taken twice at most.                                        *)
THEOREM TurnsAreFair == Spec => []FairTurns
<1>1. Init => MessageInv /\ TurnInv
  BY TypeInit, LinkInit, StopInit, TurnInit DEF MessageInv
<1>2. MessageInv /\ TurnInv /\ [Next]_vars => (MessageInv /\ TurnInv)'
  BY MessageStep, TurnStep
<1>3. MessageInv /\ TurnInv => FairTurns
  <2> SUFFICES ASSUME MessageInv, TurnInv, NEW b \in Cores, NEW c \in Cores, Offers(c)
               PROVE  passed[c][b] <= 2
    BY DEF FairTurns
  <2>1. passed[c][b] \in Nat
    BY DEF MessageInv, TypeInv
  <2> QED
    BY <2>1 DEF TurnInv
<1> QED
  BY <1>1, <1>2, <1>3, PTL DEF Spec

(***************************************************************************)
(* What is in a core's ring.                                               *)
(***************************************************************************)
LEMMA RingInit == Init => RingInv
BY Numbers DEF Init, RingInv

LEMMA RingFrame ==
  ASSUME RingInv, UNCHANGED <<cpc, got, ret>>
  PROVE  RingInv'
BY DEF RingInv

LEMMA TookRing ==
  ASSUME TypeInv, RingInv, NEW c \in Cores, Offers(c), Took(c)
  PROVE  RingInv'
<1>1. /\ ret'[c] = ret[c] + 1 /\ got'[c] = got[c] /\ ret[c] \in Nat /\ got[c] \in Nat
      /\ cpc[c] \in {"offer", "drain"}
      /\ cpc'[c] = IF cpc[c] = "offer" THEN "time"
                   ELSE IF ret'[c] = got[c] THEN "end" ELSE "drain"
      /\ \A b \in Cores : b # c => cpc'[b] = cpc[b] /\ ret'[b] = ret[b] /\ got'[b] = got[b]
  BY DEF Took, TypeInv, Offers
<1> QED
  BY <1>1, Numbers DEF RingInv

LEMMA CoreRing ==
  ASSUME TypeInv, RingInv, NEW c \in Cores, CoreStep(c)
  PROVE  RingInv'
<1> USE DEF CoreAt, CoreGoto, managerVars, datastreamVars, messageVars
<1>0. got[c] \in Nat /\ ret[c] \in Nat
  BY DEF TypeInv
<1>1. CASE ReceiveTime(c)
  BY <1>1 DEF ReceiveTime, RingInv, TypeInv
<1>2. ASSUME NEW d \in Datastreams, ReceiveData(c, d) PROVE RingInv'
  BY <1>2, RingFrame DEF ReceiveData
<1>3. CASE ReceiveTerminate(c)
  <2>1. /\ cpc[c] = "time" /\ cpc'[c] = IF got[c] = ret[c] THEN "end" ELSE "drain"
        /\ \A b \in Cores : b # c => cpc'[b] = cpc[b]
        /\ UNCHANGED <<got, ret>>
    BY <1>3 DEF ReceiveTerminate, TypeInv
  <2> QED
    BY <1>0, <2>1, Numbers DEF RingInv
<1>4. CASE SlotFull(c)
  <2>1. /\ cpc[c] = "data" /\ cpc'[c] = IF got[c] + 1 < RING THEN "time" ELSE "offer"
        /\ got'[c] = got[c] + 1 /\ UNCHANGED ret
        /\ \A b \in Cores : b # c => cpc'[b] = cpc[b] /\ got'[b] = got[b]
    BY <1>4 DEF SlotFull, TypeInv
  <2> QED
    BY <1>0, <2>1, Numbers DEF RingInv
<1> QED
  BY <1>1, <1>2, <1>3, <1>4 DEF CoreStep

LEMMA RingStep == MessageInv /\ RingInv /\ [Next]_vars => RingInv'
<1> SUFFICES ASSUME MessageInv, RingInv, [Next]_vars PROVE RingInv'
  OBVIOUS
<1>1. TypeInv
  BY DEF MessageInv
<1>2. CASE UNCHANGED runVars \/ UNCHANGED vars
  BY <1>2, RingFrame DEF runVars, vars, coreVars
<1>3. ASSUME NEW p \in Procs, StartStep(p) \/ OpenSocket(p) \/ CannotOpen \/ Abort
      PROVE  RingInv'
  BY <1>1, <1>2, <1>3, StartTypes
<1>4. CASE ManagerStep \/ Interrupt
  <2>1. CASE Interrupt \/ Loop \/ StopSending \/ SendTime \/ SendInstruction
             \/ TerminateCore \/ TerminateDatastream
    BY <2>1, RingFrame DEF Interrupt, Loop, StopSending, SendTime, SendInstruction,
      TerminateCore, TerminateDatastream, coreVars
  <2>2. CASE Probe
    <3>1. CASE Offers(NextSource)
      BY <1>1, <2>2, <3>1, NextSourceFacts, TookRing DEF Probe
    <3>2. CASE ~Offers(NextSource)
      BY <2>2, <3>2, RingFrame DEF Probe, coreVars
    <3> QED
      BY <3>1, <3>2
  <2>3. ASSUME NEW c \in Cores, ReceiveAny(c) PROVE RingInv'
    BY <1>1, <2>3, TookRing DEF ReceiveAny
  <2> QED
    BY <1>4, <2>1, <2>2, <2>3 DEF ManagerStep
<1>5. ASSUME NEW d \in Datastreams, DatastreamStep(d) PROVE RingInv'
  <2>1. UNCHANGED coreVars
    BY <1>5 DEF DatastreamStep, FillBuffer, Request, WaitEarlier, Post, WaitAll, Drain
  <2> QED
    BY <2>1, RingFrame DEF coreVars
<1>6. MANAGERID \in Procs
  BY DEF Procs
<1> QED
  BY <1>1, <1>2, <1>3, <1>4, <1>5, <1>6, CoreRing DEF Next, Ended

(***************************************************************************)
(* Nothing is lost on the way.                                             *)
(***************************************************************************)
LEMMA AskedFacts ==
  ASSUME TypeInv, NEW c \in Cores
  PROVE  Asked(c) \in Nat /\ Given(c) \in Nat /\ (times[c] = << >> => Asked(c) = 0)
<1>1. times[c] \in Seq(Messages) /\ got[c] \in Nat
  BY DEF TypeInv
<1>2. Len(times[c]) \in Nat /\ (HasStop(times[c]) => Len(times[c]) >= 1)
      /\ (times[c] = << >> => Len(times[c]) = 0)
  BY <1>1 DEF HasStop
<1> QED
  BY <1>1, <1>2 DEF Asked, Given

LEMMA CountInit == Init => CountInv
<1> SUFFICES ASSUME Init PROVE CountInv
  OBVIOUS
<1>1. \A c \in Cores : Given(c) = 0 /\ ret[c] = 0
  BY EmptyQueue DEF Init, Given, Asked
<1>2. Missing = {}
  BY <1>1 DEF Missing
<1>3. Number = 0
  <2>1. FillUp > 0 /\ sendcount = 0 /\ mpc = "loop"
    BY FillFacts, Numbers DEF Init
  <2> QED
    BY <2>1 DEF Number
<1> QED
  <2>1. IsFiniteSet(Missing) /\ Cardinality(Missing) = Number
    BY <1>2, <1>3, FS_EmptySet
  <2>2. \A c \in Cores : ~(c - numdatastreams <= sendcount)
    BY Ranks, Numbers DEF Init
  <2> QED
    BY <2>1, <2>2 DEF Init, CountInv

(* Steps that give nothing to a core and take nothing from it.             *)
LEMMA CountFrame ==
  ASSUME CountInv, UNCHANGED <<ret, sendcount>>, \A c \in Cores : Given(c)' = Given(c),
         sendcount \in Nat, Number' = Number,
         mpc' = "time" /\ sendcount < numcores =>
            target' = numdatastreams + 1 + sendcount,
         mpc' = "tell" => mpc = "tell"
  PROVE  CountInv'
<1>1. Missing' = Missing
  BY DEF Missing
<1>2. sendcount < numcores => numdatastreams + 1 + sendcount \in Cores
  BY Numbers DEF Cores
<1> QED
  BY <1>1, <1>2 DEF CountInv

(* The numbers of subintegrations given and of results to come.            *)
LEMMA SameNumber ==
  ASSUME TypeInv, StopInv,
         Interrupt \/ Loop \/ StopSending \/ SendInstruction \/ TerminateCore
         \/ TerminateDatastream
  PROVE  Number' = Number
<1> USE DEF ManagerAt
<1>1. sendcount \in Nat /\ owed \in Nat /\ FillUp \in Nat /\ FillUp' = FillUp
  BY FillFacts, Numbers DEF TypeInv, FillUp
<1>2. CASE Interrupt
  BY <1>1, <1>2 DEF Interrupt, Number
<1>3. CASE Loop
  BY <1>1, <1>3 DEF Loop, Number, StopInv
<1>4. CASE StopSending
  BY <1>1, <1>4 DEF StopSending, Number
<1>5. CASE SendInstruction
  <2>1. /\ mpc = "tell"
        /\ \/ mpc' = "tell" /\ sendcount' = sendcount
           \/ mpc' = "loop" /\ sendcount' = sendcount + 1
    BY <1>5 DEF SendInstruction
  <2> QED
    BY <1>1, <2>1 DEF Number
<1>6. CASE TerminateCore
  <2>1. /\ mpc = "stopcores" /\ mpc' \in {"stopcores", "stopdatastreams"}
        /\ sendcount' = sendcount
    BY <1>6 DEF TerminateCore
  <2> QED
    BY <1>1, <2>1 DEF Number
<1>7. CASE TerminateDatastream
  <2>1. Owed \in Nat
    BY <1>1 DEF Owed, FillUp
  <2>2. /\ mpc = "stopdatastreams" /\ sendcount' = sendcount
        /\ \/ mpc' = "stopdatastreams"
           \/ owed' = Owed /\ mpc' = IF Owed = 0 THEN "end" ELSE "probe"
    BY <1>7 DEF TerminateDatastream
  <2>3. Number = Owed
    BY <2>2 DEF Number, Owed
  <2>4. mpc' = "stopdatastreams" => Number' = Owed
    BY <1>1, <2>2 DEF Number, Owed
  <2>5. owed' = Owed /\ mpc' = (IF Owed = 0 THEN "end" ELSE "probe") => Number' = Owed
    BY <2>1 DEF Number
  <2> QED
    BY <2>2, <2>3, <2>4, <2>5
<1> QED
  BY <1>2, <1>3, <1>4, <1>5, <1>6, <1>7

LEMMA SendTimeCount ==
  ASSUME MessageInv, RingInv, CountInv, SendTime
  PROVE  CountInv'
<1>1. TypeInv /\ LinkInv /\ StopInv /\ TypeInv'
  BY ManagerTypes DEF MessageInv, ManagerStep
<1>2. /\ mpc = "time" /\ mpc' = "tell" /\ target \in Cores /\ sendcount \in Nat
      /\ times' = [times EXCEPT ![target] = Append(@, Process(target, sendcount))]
      /\ UNCHANGED <<target, sendcount, owed, got, ret, cpc>>
  BY <1>1, Numbers DEF SendTime, ManagerAt, TypeInv, coreVars
<1>3. \A c \in Cores : Given(c)' = IF c = target THEN Given(c) + 1 ELSE Given(c)
  <2>1. times[target] \in Seq(Messages) /\ Process(target, sendcount) \in Messages
        /\ Process(target, sendcount) # Terminate
    BY <1>1, <1>2, MessageFacts DEF TypeInv
  <2>2. /\ HasStop(times'[target]) <=> HasStop(times[target])
        /\ Len(times'[target]) = Len(times[target]) + 1 /\ Len(times[target]) \in Nat
    <3>1. times'[target] = Append(times[target], Process(target, sendcount))
      BY <1>1, <1>2 DEF TypeInv
    <3>2. Len(times[target]) \in Nat
      BY <2>1
    <3> QED
      BY <2>1, <3>1, <3>2, AppendQueue
  <2>3. \A c \in Cores : c # target => times'[c] = times[c]
    BY <1>1, <1>2 DEF TypeInv
  <2>4. Asked(target)' = Asked(target) + 1
    BY <1>2, <2>2 DEF Asked
  <2>5. got[target] \in Nat /\ Asked(target) \in Nat
    BY <1>1, <1>2, AskedFacts DEF TypeInv
  <2> QED
    <3>1. got' = got /\ target' = target
      BY <1>2
    <3>2. ASSUME NEW c \in Cores, c = target PROVE Given(c)' = Given(c) + 1
      BY <2>4, <2>5, <3>1, <3>2 DEF Given
    <3>3. ASSUME NEW c \in Cores, c # target PROVE Given(c)' = Given(c)
      BY <2>3, <3>1, <3>3 DEF Given, Asked
    <3> QED
      BY <3>2, <3>3
<1>4. \A c \in Cores : Given(c) \in Nat /\ ret[c] \in Nat /\ ret[c] <= Given(c)
  <2> TAKE c \in Cores
  <2>1. got[c] \in Nat /\ ret[c] \in Nat /\ Asked(c) \in Nat /\ cpc[c] \in CoreSteps
    BY <1>1, AskedFacts DEF TypeInv
  <2>2. ret[c] <= got[c]
    BY <2>1, Numbers DEF RingInv, CoreSteps
  <2> QED
    BY <2>1, <2>2 DEF Given
<1>5. /\ Missing' = Missing \cup {<<target, Given(target)>>}
      /\ <<target, Given(target)>> \notin Missing
  BY <1>2, <1>3, <1>4 DEF Missing
<1>6. /\ IsFiniteSet(Missing') /\ Cardinality(Missing') = Number + 1
  BY <1>5, FS_AddElement DEF CountInv
<1>7. Number' = Number + 1
  <2>1. FillUp \in Nat /\ FillUp' = FillUp
    BY FillFacts DEF FillUp
  <2> QED
    BY <1>1, <1>2, <2>1 DEF Number
<1>8. \A c \in Cores : c - numdatastreams <= sendcount => Given(c)' > 0
  BY <1>3, <1>4 DEF CountInv
<1>9. sendcount < numcores => Given(target)' > 0 /\ target = numdatastreams + 1 + sendcount
  BY <1>2, <1>3, <1>4 DEF CountInv
<1> QED
  BY <1>2, <1>6, <1>7, <1>8, <1>9 DEF CountInv

LEMMA SendInstructionCount ==
  ASSUME TypeInv, StopInv, CountInv, SendInstruction
  PROVE  CountInv'
<1>1. /\ mpc = "tell" /\ sendcount \in Nat
      /\ \/ mpc' = "tell" /\ sendcount' = sendcount
         \/ mpc' = "loop" /\ sendcount' = sendcount + 1
      /\ UNCHANGED <<got, ret, times>>
  BY Numbers DEF SendInstruction, ManagerAt, TypeInv, coreVars
<1>2. (\A c \in Cores : Given(c)' = Given(c)) /\ Missing' = Missing
  BY <1>1 DEF Given, Asked, Missing
<1>3. sendcount < numcores => numdatastreams + 1 + sendcount \in Cores
  BY <1>1, Numbers DEF Cores
<1>4. \A c \in Cores : c - numdatastreams <= sendcount + 1 =>
        c - numdatastreams <= sendcount
        \/ (c = numdatastreams + 1 + sendcount /\ sendcount < numcores)
  BY <1>1, Ranks, Numbers
<1>5. \A c \in Cores : c - numdatastreams <= sendcount' => Given(c)' > 0
  BY <1>1, <1>2, <1>4 DEF CountInv
<1>6. mpc' = "tell" /\ sendcount' < numcores => Given(numdatastreams + 1 + sendcount)' > 0
  BY <1>1, <1>2, <1>3 DEF CountInv
<1> QED
  BY <1>1, <1>2, <1>5, <1>6, SameNumber DEF CountInv

LEMMA TakeCount ==
  ASSUME TypeInv, StopInv, RingInv, CountInv, mpc = "probe",
         NEW c \in Cores, Offers(c), Take(c), Took(c), UNCHANGED <<sendcount, times>>
  PROVE  CountInv'
<1>1. /\ ret' = [ret EXCEPT ![c] = @ + 1] /\ got' = got /\ sendcount \in Nat /\ owed \in Nat
      /\ FillUp \in Nat /\ FillUp >= numcores /\ FillUp' = FillUp
  BY FillFacts, Numbers DEF Took, TypeInv, FillUp
<1>2. \A b \in Cores : Given(b)' = Given(b)
  BY <1>1 DEF Given, Asked
<1>3. \A b \in Cores : ret[b] \in Nat /\ got[b] \in Nat /\ Asked(b) \in Nat /\ Given(b) \in Nat
  BY AskedFacts DEF TypeInv
<1>4. ret[c] < Given(c)
  <2>1. ret[c] < got[c]
    BY <1>3, Numbers DEF RingInv, Offers
  <2> QED
    BY <1>3, <2>1 DEF Given
<1>5. <<c, ret[c]>> \in Missing /\ Missing' = Missing \ {<<c, ret[c]>>}
  <2>1. ret[c] \in Nat /\ c \in Cores
    BY <1>3
  <2>2. ret'[c] = ret[c] + 1 /\ \A b \in Cores : b # c => ret'[b] = ret[b]
    BY <1>1 DEF TypeInv
  <2>3. ASSUME NEW b \in Cores, NEW k \in Nat
        PROVE  <<b, k>> \in Missing' <=> <<b, k>> \in Missing /\ <<b, k>> # <<c, ret[c]>>
    <3>1. <<b, k>> \in Missing' <=> ret'[b] <= k /\ k < Given(b)
      BY <1>2 DEF Missing
    <3>2. <<b, k>> \in Missing <=> ret[b] <= k /\ k < Given(b)
      BY DEF Missing
    <3>3. CASE b # c
      BY <2>2, <3>1, <3>2, <3>3
    <3>4. CASE b = c
      BY <1>3, <2>2, <3>1, <3>2, <3>4
    <3> QED
      BY <3>3, <3>4
  <2>4. Missing \subseteq Cores \X Nat /\ Missing' \subseteq Cores \X Nat
    BY DEF Missing
  <2>5. <<c, ret[c]>> \in Missing
    BY <1>4, <2>1 DEF Missing
  <2>6. ASSUME NEW x \in Cores \X Nat PROVE x \in Missing' <=> x \in Missing \ {<<c, ret[c]>>}
    <3>1. PICK b \in Cores, k \in Nat : x = <<b, k>>
      OBVIOUS
    <3> QED
      BY <2>3, <3>1
  <2> QED
    BY <2>4, <2>5, <2>6
<1>6. IsFiniteSet(Missing') /\ Cardinality(Missing') = Number - 1
  BY <1>5, FS_RemoveElement DEF CountInv
<1>7. Number' = Number - 1 /\ mpc' # "tell" /\ (mpc' = "time" => sendcount >= FillUp)
  <2>1. CASE owed = 0
    BY <1>1, <2>1 DEF Number, Take, StopInv
  <2>2. CASE owed > 0
    BY <1>1, <2>2 DEF Number, Take
  <2> QED
    BY <1>1, <2>1, <2>2
<1> QED
  BY <1>1, <1>2, <1>6, <1>7, Numbers DEF CountInv

LEMMA CountStep == MessageInv /\ RingInv /\ CountInv /\ [Next]_vars => CountInv'
<1> SUFFICES ASSUME MessageInv, RingInv, CountInv, [Next]_vars PROVE CountInv'
  OBVIOUS
<1> USE DEF ManagerAt, startVars, managerVars, datastreamVars, coreVars, messageVars
<1>1. TypeInv /\ LinkInv /\ StopInv /\ sendcount \in Nat
  BY Numbers DEF MessageInv, TypeInv
<1>2. ASSUME UNCHANGED <<mpc, target, sendcount, owed, got, ret, times>> PROVE CountInv'
  <2>1. (\A c \in Cores : Given(c)' = Given(c)) /\ Number' = Number
    BY <1>2 DEF Given, Asked, Number, FillUp
  <2> QED
    BY <1>1, <1>2, <2>1, CountFrame DEF CountInv
<1>3. CASE UNCHANGED runVars \/ UNCHANGED vars
  BY <1>2, <1>3 DEF runVars, vars
<1>4. ASSUME NEW p \in Procs, StartStep(p) \/ OpenSocket(p) \/ CannotOpen \/ Abort
      PROVE  CountInv'
  BY <1>1, <1>3, <1>4, StartTypes
<1>5. CASE ManagerStep \/ Interrupt
  <2>1. CASE Interrupt
    BY <1>2, <2>1 DEF Interrupt
  <2>2. CASE Loop
    <3>1. mpc' = "time" /\ sendcount < numcores => target' = numdatastreams + 1 + sendcount
      <4>1. \A m, n \in Nat : m < n => m % n = m
        OBVIOUS
      <4> QED
        BY <1>1, <2>2, <4>1, FillFacts, Numbers DEF Loop
    <3>2. mpc' # "tell" /\ UNCHANGED <<ret, sendcount, got, times>>
      BY <2>2 DEF Loop
    <3>3. \A c \in Cores : Given(c)' = Given(c)
      BY <3>2 DEF Given, Asked
    <3> QED
      BY <1>1, <2>2, <3>1, <3>2, <3>3, CountFrame, SameNumber
  <2>3. CASE SendTime
    BY <2>3, SendTimeCount
  <2>4. CASE SendInstruction
    BY <1>1, <2>4, SendInstructionCount
  <2>5. CASE Probe
    <3>1. CASE Offers(NextSource)
      BY <1>1, <2>5, <3>1, NextSourceFacts, TakeCount DEF Probe
    <3>2. CASE ~Offers(NextSource)
      BY <1>2, <2>5, <3>2 DEF Probe
    <3> QED
      BY <3>1, <3>2
  <2>6. ASSUME NEW c \in Cores, ReceiveAny(c) PROVE CountInv'
    BY <1>1, <2>6, TakeCount DEF ReceiveAny
  <2>7. CASE StopSending
    <3>1. /\ mpc' \notin {"time", "tell"} /\ UNCHANGED <<ret, sendcount>>
          /\ \A c \in Cores : Given(c)' = Given(c)
      BY <2>7 DEF StopSending, Given, Asked
    <3> QED
      BY <1>1, <2>7, <3>1, CountFrame, SameNumber
  <2>8. CASE TerminateCore
    <3>1. /\ mpc = "stopcores" /\ target \in Cores /\ mpc' \notin {"time", "tell"}
          /\ times' = [times EXCEPT ![target] = Append(@, Terminate)]
          /\ UNCHANGED <<ret, sendcount, got>>
      BY <1>1, <2>8 DEF TerminateCore, TypeInv
    <3>2. times[target] \in Seq(Messages) /\ ~HasStop(times[target]) /\ InSequence(times[target])
      BY <1>1, <3>1, Ranks DEF TypeInv, LinkInv, OrderInv, TimesInv, StopInv, Stopped, Over
    <3>3. /\ HasStop(times'[target]) /\ Len(times'[target]) = Len(times[target]) + 1
          /\ Len(times[target]) \in Nat
      BY <1>1, <3>1, <3>2, StopQueue DEF TypeInv
    <3>4. \A c \in Cores : c # target => times'[c] = times[c]
      BY <1>1, <3>1 DEF TypeInv
    <3>5. \A c \in Cores : Given(c)' = Given(c)
      BY <3>1, <3>2, <3>3, <3>4 DEF Given, Asked
    <3> QED
      BY <1>1, <2>8, <3>1, <3>5, CountFrame, SameNumber
  <2>9. CASE TerminateDatastream
    <3>1. /\ mpc' \notin {"time", "tell"} /\ UNCHANGED <<ret, sendcount>>
          /\ \A c \in Cores : Given(c)' = Given(c)
      BY <2>9 DEF TerminateDatastream, Given, Asked
    <3> QED
      BY <1>1, <2>9, <3>1, CountFrame, SameNumber
  <2> QED
    BY <1>5, <2>1, <2>2, <2>3, <2>4, <2>5, <2>6, <2>7, <2>8, <2>9 DEF ManagerStep
<1>6. ASSUME NEW d \in Datastreams, DatastreamStep(d) PROVE CountInv'
  <2>1. UNCHANGED <<mpc, target, sendcount, owed, got, ret, times>>
    BY <1>6 DEF DatastreamStep, FillBuffer, Request, WaitEarlier, Post, WaitAll, Drain
  <2> QED
    BY <1>2, <2>1
<1>7. ASSUME NEW c \in Cores, CoreStep(c) PROVE CountInv'
  <2> USE DEF CoreAt, CoreGoto
  <2>1. CASE ReceiveTime(c) \/ \E d \in Datastreams : ReceiveData(c, d)
    BY <1>2, <2>1 DEF ReceiveTime, ReceiveData
  <2>2. ASSUME times[c] # << >>, times' = [times EXCEPT ![c] = Tail(@)],
               UNCHANGED <<mpc, target, sendcount, owed, ret>>,
               got' = [got EXCEPT ![c] = IF Head(times[c]) = Terminate THEN @ ELSE @ + 1]
        PROVE  CountInv'
    <3>1. times[c] \in Seq(Messages) /\ InSequence(times[c]) /\ got[c] \in Nat
      BY <1>1 DEF TypeInv, LinkInv, OrderInv, TimesInv
    <3>2. times'[c] = Tail(times[c]) /\ \A b \in Cores : b # c => times'[b] = times[b] /\ got'[b] = got[b]
      BY <1>1, <2>2 DEF TypeInv
    <3>3. got'[c] = IF Head(times[c]) = Terminate THEN got[c] ELSE got[c] + 1
      BY <1>1, <2>2 DEF TypeInv
    <3>4. Given(c)' = Given(c)
      <4>1. /\ Len(times[c]) \in Nat /\ Len(Tail(times[c])) = Len(times[c]) - 1
            /\ Head(times[c]) # Terminate => (HasStop(Tail(times[c])) <=> HasStop(times[c]))
            /\ Head(times[c]) = Terminate => Tail(times[c]) = << >> /\ HasStop(times[c])
        BY <2>2, <3>1, TailQueue
      <4>2. Len(<< >>) = 0 /\ ~HasStop(<< >>)
        BY EmptyQueue
      <4>3. CASE Head(times[c]) = Terminate
        BY <3>1, <3>2, <3>3, <4>1, <4>2, <4>3 DEF Given, Asked
      <4>4. CASE Head(times[c]) # Terminate
        <5>1. times'[c] = Tail(times[c]) /\ got'[c] = got[c] + 1 /\ got[c] \in Nat
          BY <3>1, <3>2, <3>3, <4>4
        <5>2. HasStop(times[c])' <=> HasStop(times[c])
          BY <4>1, <4>4, <5>1 DEF HasStop
        <5>3. Asked(c)' = Asked(c) - 1 /\ Asked(c) \in Int
          BY <4>1, <5>1, <5>2 DEF Asked
        <5> QED
          BY <5>1, <5>3 DEF Given
      <4> QED
        BY <4>3, <4>4
    <3>5. \A b \in Cores : Given(b)' = Given(b)
      BY <3>2, <3>4 DEF Given, Asked
    <3>6. Number' = Number
      BY <2>2 DEF Number, FillUp
    <3> QED
      BY <1>1, <2>2, <3>5, <3>6, CountFrame DEF CountInv
  <2>3. CASE ReceiveTerminate(c)
    <3>1. got' = [got EXCEPT ![c] = IF Head(times[c]) = Terminate THEN @ ELSE @ + 1]
      BY <1>1, <2>3 DEF ReceiveTerminate, TypeInv
    <3> QED
      BY <2>2, <2>3, <3>1 DEF ReceiveTerminate
  <2>4. CASE SlotFull(c)
    <3>1. times[c] # << >> /\ Head(times[c]) # Terminate
      BY <1>1, <2>4 DEF SlotFull, LinkInv, MatchInv, HeadInv
    <3>2. got' = [got EXCEPT ![c] = IF Head(times[c]) = Terminate THEN @ ELSE @ + 1]
      BY <1>1, <2>4, <3>1 DEF SlotFull, TypeInv
    <3> QED
      BY <2>2, <2>4, <3>1, <3>2 DEF SlotFull
  <2> QED
    BY <1>7, <2>1, <2>3, <2>4 DEF CoreStep
<1>8. MANAGERID \in Procs
  BY DEF Procs
<1> QED
  BY <1>3, <1>4, <1>5, <1>6, <1>7, <1>8 DEF Next, Ended

(* When the manager's execute ends the results of all that was handed out  *)
(* have come back, no data wait for a core, and a core has at most the     *)
(* word to terminate still to read.                                        *)
Returned ==
    mpc = "end" =>
        /\ \A c \in Cores : got[c] = ret[c] /\ Contents(times[c]) = {}
        /\ \A d \in Datastreams : sends[d] = << >>

LEMMA AllTaken == MessageInv /\ RingInv /\ CountInv => Returned
<1> SUFFICES ASSUME MessageInv, RingInv, CountInv, mpc = "end"
             PROVE  /\ \A c \in Cores : got[c] = ret[c] /\ Contents(times[c]) = {}
                    /\ \A d \in Datastreams : sends[d] = << >>
  BY DEF Returned
<1>1. TypeInv /\ LinkInv /\ StopInv
  BY DEF MessageInv
<1>2. Missing = {}
  <2>1. Number = 0
    BY <1>1 DEF StopInv, Number
  <2> QED
    BY <2>1, FS_EmptySet DEF CountInv
<1>3. ASSUME NEW c \in Cores PROVE got[c] = ret[c] /\ Contents(times[c]) = {}
  <2>1. got[c] \in Nat /\ ret[c] \in Nat /\ Asked(c) \in Nat /\ cpc[c] \in CoreSteps
    BY <1>1, AskedFacts DEF TypeInv
  <2>2. Given(c) <= ret[c]
    <3>1. <<c, ret[c]>> \notin Missing
      BY <1>2
    <3>2. ~(ret[c] < Given(c))
      BY <2>1, <3>1 DEF Missing
    <3> QED
      BY <2>1, <3>2 DEF Given
  <2>3. ret[c] <= got[c]
    BY <2>1, Numbers DEF RingInv, CoreSteps
  <2>4. got[c] = ret[c] /\ Asked(c) = 0
    BY <2>1, <2>2, <2>3 DEF Given
  <2>5. times[c] \in Seq(Messages) /\ Len(times[c]) \in Nat
    BY <1>1 DEF TypeInv
  <2>6. \A i \in 1 .. Len(times[c]) : times[c][i] = Terminate
    BY <2>4, <2>5 DEF Asked, HasStop
  <2> QED
    BY <2>4, <2>6 DEF Contents
<1>4. ASSUME NEW d \in Datastreams PROVE sends[d] = << >>
  <2>1. /\ sends[d] \in Seq(Messages) /\ InSequence(sends[d]) /\ ~HasStop(sends[d])
    BY <1>1 DEF TypeInv, LinkInv, OrderInv, StreamInv
  <2>2. SUFFICES ASSUME Len(sends[d]) > 0 PROVE FALSE
    BY <2>1
  <2> DEFINE m == sends[d][1]
  <2>3. 1 \in 1 .. Len(sends[d])
    BY <2>1, <2>2
  <2>4. m # Terminate /\ m.core \in Cores /\ m \in Contents(sends[d])
    BY <2>1, <2>3 DEF InSequence, HasStop, Contents
  <2>5. m \in Coming(d)
    BY <2>4 DEF Coming
  <2>6. m \in Contents(times[m.core])
    BY <1>1, <2>4, <2>5 DEF LinkInv, MatchInv, Matched
  <2>7. Contents(times[m.core]) = {}
    BY <1>3, <2>4
  <2> QED
    BY <2>6, <2>7
<1> QED
  BY <1>3, <1>4

(* With that, what the cores' rings hold and how many results are to come. *)
ResultInv == MessageInv /\ RingInv /\ CountInv

(* The manager's count of the results to come, through fill-up, loop and   *)
(* shutdown, is what the cores have been given and have not returned.      *)
THEOREM Results == Spec => []ResultInv
<1>1. Init => ResultInv
  BY TypeInit, LinkInit, StopInit, RingInit, CountInit DEF MessageInv, ResultInv
<1>2. ResultInv /\ [Next]_vars => ResultInv'
  BY MessageStep, RingStep, CountStep DEF ResultInv
<1> QED
  BY <1>1, <1>2, PTL DEF Spec

(* Every result that is owed is received before the manager ends: "receive *)
(* the final data from each core" (execute) asks for as many as are still  *)
(* to come, from whichever core, whether or not the job was interrupted.   *)
THEOREM ResultsReturn == Spec => []Returned
<1>1. ResultInv => Returned
  BY AllTaken DEF ResultInv
<1> QED
  BY <1>1, Results, PTL

(* Nothing is left at the end at all if every core was given something to  *)
(* do: one that has no result to send may still have to read that it is to *)
(* terminate.                                                              *)
THEOREM NothingIsLeft ==
  ASSUME Subints >= numcores
  PROVE  Spec => []NothingLeft
<1>1. ResultInv => NothingLeft
  <2> SUFFICES ASSUME ResultInv, mpc = "end", NEW c \in Cores PROVE times[c] = << >>
    BY AllTaken DEF ResultInv, NothingLeft, Returned
  <2>1. TypeInv /\ StopInv /\ RingInv /\ CountInv /\ got[c] = ret[c] /\ Contents(times[c]) = {}
    BY AllTaken DEF ResultInv, MessageInv, Returned
  <2>2. got[c] \in Nat /\ Asked(c) \in Nat /\ cpc[c] \in CoreSteps /\ ret[c] \in Nat
    BY <2>1, AskedFacts DEF TypeInv
  <2>3. Given(c) > 0
    <3>1. sendcount \in Nat /\ (sendcount = Subints \/ sendcount >= FillUp)
      BY <2>1, Numbers DEF StopInv, Over, TypeInv
    <3>2. c - numdatastreams <= sendcount
      BY <3>1, FillFacts, Ranks, Numbers
    <3> QED
      BY <2>1, <3>2 DEF CountInv
  <2>4. got[c] > 0
    <3>1. Missing = {}
      <4>1. Number = 0
        BY <2>1 DEF StopInv, Number
      <4> QED
        BY <2>1, <4>1, FS_EmptySet DEF CountInv
    <3>2. ~(ret[c] < Given(c))
      <4>1. <<c, ret[c]>> \notin Missing
        BY <3>1
      <4> QED
        BY <2>2, <4>1 DEF Missing
    <3> QED
      BY <2>1, <2>2, <2>3, <3>2 DEF Given
  <2>5. cpc[c] = "end"
    BY <2>1, <2>2, <2>4, Numbers DEF RingInv, CoreSteps
  <2> QED
    BY <2>1, <2>5 DEF StopInv
<1> QED
  BY <1>1, Results, PTL
=============================================================================
