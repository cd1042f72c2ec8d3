---------------------------- MODULE ASRStream_proofs ----------------------------
(***************************************************************************)
(* Proofs about ASRStream: that everything stays within its bounds, and    *)
(* that what the device said is recognised once and as a whole or not at   *)
(* all, for any number of admissions, frames, faults and turns and for any *)
(* size of the queues. The invariant follows a frame from the client's     *)
(* queue over the wire into the turn: what a turn has been fed and what it *)
(* has queued is, in order, what it was sent so far; and a transcript that *)
(* the core has, or is about to have, is of a turn that was fed everything *)
(* that it will ever be sent.                                              *)
(***************************************************************************)
EXTENDS ASRStream, FiniteSetTheorems, TLAPS

-----------------------------------------------------------------------------
(* The invariant.                                                          *)

CoreRecords ==
    [at : {"open", "opening", "run", "cancel", "restart", "done"}, try : Tries,
     admitted : BOOLEAN, final : {None, "text", "empty", "soft", "hard"},
     sender : {"off", "get", "ack"}, item : Frames \cup {End}, seq : 0 .. MaxFrames,
     code : {None, "text", "empty", "soft", "hard", "cancelled"}, restarting : BOOLEAN]
Messages == [try : Tries, op : {"open", "frame", "end", "cancel"}, seq : 0 .. MaxFrames,
             item : Frames \cup {End}]
Replies == {None, "admitted", "busy", "input", "cancel"}
Events == {"text", "empty", "soft", "hard"}
TurnPlaces == Body \cup {None, "new", "failing", "gather", "close", "over"}
TurnRecords ==
    [x : TurnPlaces, watch : {"off", "sleep", "send"}, hit : BOOLEAN, finishing : BOOLEAN,
     ending : BOOLEAN, queue : Seq(Frames \cup {End}), seq : 0 .. MaxFrames, fed : Seq(Frames),
     text : {None, "text", "empty"}, counted : BOOLEAN, lapsed : BOOLEAN]

ClientTypes ==
    /\ mode \in {"manual", "auto"} /\ spoken \in 0 .. MaxFrames /\ listening \in BOOLEAN
    /\ queue \in Seq(Frames \cup {End}) /\ Len(queue) <= CoreQueue
CoreTypes == core \in CoreRecords /\ sent \in [Tries -> Seq(Frames)]
NetTypes == /\ wire \in Seq(Messages) /\ inbox \in Seq(Events)
            /\ reply \in Replies
TurnTypes == turn \in [Tries -> TurnRecords] /\ \A a \in Tries : Len(turn[a].queue) <= WorkerQueue
LinkTypes == /\ handler \in Tries \cup {End} /\ workerUp \in BOOLEAN /\ stopping \in BOOLEAN
             /\ faults \in 0 .. MaxFaults
RoomInv == Cardinality(Turns) <= MaxTurns
Shapes == ClientTypes /\ CoreTypes /\ NetTypes /\ TurnTypes /\ LinkTypes

\* Frames are queued and sent in the order in which they were spoken.
QueueInv ==
    /\ \A i \in DOMAIN queue : IF queue[i] = End THEN i = Len(queue) /\ ~listening
                                                 ELSE queue[i] <= spoken
    /\ \A i, j \in DOMAIN queue : i < j /\ queue[j] # End => queue[i] < queue[j]
SentInv ==
    /\ \A a \in Tries : \A i \in DOMAIN sent[a] :
          /\ i <= sent[a][i] /\ sent[a][i] <= spoken
          /\ \A j \in DOMAIN queue : queue[j] # End => sent[a][i] < queue[j]
    /\ \A a, b \in Tries : a < b =>
          \A i \in DOMAIN sent[a], j \in DOMAIN sent[b] : sent[a][i] < sent[b][j]
    /\ \A a \in Tries : a > core.try \/ (a = core.try /\ core.at \in {"open", "opening"}) =>
          sent[a] = << >>

\* The sender's number is that of the frame it sends.
CoreInv ==
    /\ core.at \in {"open", "opening", "restart"} =>
          core.seq = 0 /\ core.sender = "off" /\ ~core.admitted
    /\ core.at = "run" => core.admitted
    /\ core.at \in {"open", "opening", "run", "restart"} => core.code = None
    /\ core.at \in {"open", "opening", "restart", "done"} => core.final = None
    /\ core.at = "cancel" => core.code \notin {None, "text"}
    /\ core.at = "run" /\ core.sender = "get" => core.seq = Len(sent[core.try])
    /\ core.at = "run" /\ core.sender = "ack" /\ core.item # End =>
          core.seq + 1 = Len(sent[core.try])
\* No more frames of the admission will be sent.
Closed(a) ==
    \/ a < core.try
    \/ /\ a = core.try
       /\ \/ core.at \in {"cancel", "restart", "done"}
          \/ core.at = "run" /\ (core.sender = "off" \/ (core.sender = "ack" /\ core.item = End))
\* An admission is asked for once; a message under way says which frame it is.
Right(m) ==
    /\ m.try < core.try \/ (m.try = core.try /\ core.at # "open")
    /\ m.op = "open" => turn[m.try] = NoTurn
    /\ m.op = "frame" => m.seq < Len(sent[m.try]) /\ m.item = sent[m.try][m.seq + 1]
    /\ m.op = "end" => m.seq = Len(sent[m.try]) /\ m.item = End /\ Closed(m.try)
WireInv ==
    /\ \A i \in DOMAIN wire : Right(wire[i])
    /\ \A i, j \in DOMAIN wire : i # j /\ wire[i].op = "open" /\ wire[j].op = "open" =>
          wire[i].try # wire[j].try

Live == {"new", "start", "wait", "feed"}
\* What a turn has fed and queued is what it was sent so far; it ends with all of it.
TurnHas(a, t) ==
    /\ Len(t.fed) <= Len(sent[a]) /\ \A i \in DOMAIN t.fed : t.fed[i] = sent[a][i]
    /\ t.x \in Live /\ ~t.ending =>
          /\ Len(t.fed) + Len(t.queue) = t.seq
          /\ \A j \in DOMAIN t.queue : t.queue[j] # End /\ t.queue[j] = sent[a][Len(t.fed) + j]
    /\ t.x \in Live /\ t.ending =>
          /\ Len(t.fed) + Len(t.queue) = Len(sent[a]) + 1 /\ Closed(a)
          /\ \A j \in DOMAIN t.queue :
                IF j = Len(t.queue) THEN t.queue[j] = End
                ELSE t.queue[j] # End /\ t.queue[j] = sent[a][Len(t.fed) + j]
    /\ t.x \in {"finish", "final"} => Len(t.fed) = Len(sent[a]) /\ Closed(a)
TurnInv ==
    /\ \A a \in Tries : turn[a].seq <= Len(sent[a])
    /\ \A a \in Tries : turn[a].x = "final" => turn[a].text # None
    /\ \A a \in Tries : a > core.try \/ (a = core.try /\ core.at = "open") => turn[a] = NoTurn
    /\ mode = "manual" => \A a \in Tries : TurnHas(a, turn[a])

\* A transcript that the core has, or is about to have, is of everything.
Spoke(a) == /\ Len(turn[a].fed) = Len(sent[a]) /\ Closed(a)
            /\ turn[a].x \in {"gather", "close", "over"}
HasText == \/ \E i \in DOMAIN inbox : inbox[i] = "text"
           \/ core.final = "text" \/ core.code = "text"
HeardInv ==
    /\ core.at \in {"open", "restart", "done"} => inbox = << >>
    /\ mode = "manual" /\ HasText => Spoke(core.try)

IInv == Shapes /\ RoomInv /\ QueueInv /\ SentInv /\ CoreInv /\ WireInv /\ TurnInv /\ HeardInv

-----------------------------------------------------------------------------
(* Sequences, item by item.                                                *)

\* q is what is left of s behind its first k items.
Behind(S, s, k, q) ==
    /\ q \in Seq(S) /\ k \in Nat /\ Len(q) + k = Len(s)
    /\ \A i \in 1 .. Len(q) : q[i] = s[i + k]

\* What Append() makes of a sequence.
LEMMA AppendFacts ==
  ASSUME NEW S, NEW s \in Seq(S), NEW e \in S
  PROVE  /\ Append(s, e) \in Seq(S) /\ Len(Append(s, e)) = Len(s) + 1
         /\ Append(s, e)[Len(s) + 1] = e
         /\ \A i \in 1 .. Len(s) : Append(s, e)[i] = s[i]
  OBVIOUS

\* The rest of a sequence whose first item was taken.
LEMMA TailFacts ==
  ASSUME NEW S, NEW s \in Seq(S), s # << >>
  PROVE  /\ Behind(S, s, 1, Tail(s)) /\ Head(s) = s[1] /\ Head(s) \in S
         /\ Len(s) \in Nat /\ Len(s) > 0
<1>1. /\ Tail(s) \in Seq(S) /\ Len(Tail(s)) + 1 = Len(s) /\ Head(s) = s[1] /\ Head(s) \in S
      /\ Len(s) \in Nat /\ Len(s) > 0
  OBVIOUS
<1>2. \A i \in 1 .. Len(Tail(s)) : Tail(s)[i] = s[i + 1]
  OBVIOUS
<1> QED
  BY <1>1, <1>2 DEF Behind

LEMMA EmptyBehind == ASSUME NEW S, NEW s \in Seq(S) PROVE Behind(S, s, Len(s), << >>)
  BY DEF Behind

LEMMA AllBehind == ASSUME NEW S, NEW s \in Seq(S) PROVE Behind(S, s, 0, s)
  BY DEF Behind

\* Keep() drops what is in front of the last n items.
LEMMA KeepFacts ==
  ASSUME NEW S, NEW s \in Seq(S), NEW n \in Nat
  PROVE  (\E k \in Nat : Behind(S, s, k, Keep(s, n))) /\ Len(Keep(s, n)) <= n
<1>1. CASE Len(s) > n
  <2> DEFINE k == Len(s) - n
  <2>1. k \in Nat /\ Keep(s, n) = SubSeq(s, k + 1, Len(s))
    BY <1>1 DEF Keep
  <2>2. /\ SubSeq(s, k + 1, Len(s)) \in Seq(S) /\ Len(SubSeq(s, k + 1, Len(s))) = n
        /\ \A i \in 1 .. n : SubSeq(s, k + 1, Len(s))[i] = s[i + k]
    BY <1>1, <2>1
  <2>3. Behind(S, s, k, Keep(s, n)) /\ Len(Keep(s, n)) <= n
    BY <2>1, <2>2 DEF Behind
  <2> QED
    BY <2>1, <2>3
<1>2. CASE ~(Len(s) > n)
  BY <1>2, AllBehind DEF Keep
<1> QED
  BY <1>1, <1>2

-----------------------------------------------------------------------------
(* What the steps of the core leave alone.                                 *)

LEMMA Bounds ==
    /\ MaxTries \in Nat \ {0} /\ MaxFrames \in Nat \ {0} /\ CoreQueue \in Nat \ {0}
    /\ RecoveryFrames \in Nat \ {0} /\ WorkerQueue \in Nat \ {0} /\ MaxTurns \in Nat \ {0}
    /\ RecoveryFrames < CoreQueue /\ MaxFaults \in Nat
  BY ASRAssumption

LEMMA SentTypes == ASSUME Shapes, NEW a \in Tries PROVE sent[a] \in Seq(Frames)
  BY DEF Shapes, CoreTypes

LEMMA TurnTypesOf ==
  ASSUME Shapes, NEW a \in Tries
  PROVE  turn[a] \in TurnRecords /\ Len(turn[a].queue) <= WorkerQueue
  BY DEF Shapes, TurnTypes

\* A queue of which only the rest is left is still in order.
LEMMA QueueShrinks ==
  ASSUME Shapes, QueueInv, SentInv, NEW k \in Nat,
         Behind(Frames \cup {End}, queue, k, queue'), listening' = listening,
         spoken' = spoken
  PROVE  /\ QueueInv' /\ queue' \in Seq(Frames \cup {End}) /\ Len(queue') <= CoreQueue
         /\ \A a \in Tries : \A i \in DOMAIN sent[a] : \A j \in DOMAIN queue' :
               queue'[j] # End => sent[a][i] < queue'[j]
<1> DEFINE q == queue'
<1>1. /\ queue \in Seq(Frames \cup {End}) /\ Len(queue) <= CoreQueue /\ q \in Seq(Frames \cup {End})
      /\ Len(q) + k = Len(queue) /\ \A i \in 1 .. Len(q) : q[i] = queue[i + k]
  BY DEF Shapes, ClientTypes, Behind
<1>2. /\ DOMAIN q = 1 .. Len(q) /\ DOMAIN queue = 1 .. Len(queue) /\ Len(q) \in Nat
      /\ Len(queue) \in Nat
  BY <1>1
<1>3. \A i \in DOMAIN q : i + k \in DOMAIN queue /\ q[i] = queue[i + k]
  BY <1>1, <1>2
<1>4. \A i \in DOMAIN q : i \in Nat
  BY <1>2
<1>5. Len(q) <= CoreQueue
  BY <1>1, <1>2, Bounds
<1> HIDE DEF q
<1>6. \A i \in DOMAIN q : IF q[i] = End THEN i = Len(q) /\ ~listening ELSE q[i] <= spoken
  <2> SUFFICES ASSUME NEW i \in DOMAIN q
               PROVE  IF q[i] = End THEN i = Len(q) /\ ~listening ELSE q[i] <= spoken
    OBVIOUS
  <2>1. IF queue[i + k] = End THEN i + k = Len(queue) /\ ~listening
                              ELSE queue[i + k] <= spoken
    BY <1>3 DEF QueueInv
  <2> QED
    BY <2>1, <1>1, <1>2, <1>3, <1>4
<1>7. \A i, j \in DOMAIN q : i < j /\ q[j] # End => q[i] < q[j]
  <2> SUFFICES ASSUME NEW i \in DOMAIN q, NEW j \in DOMAIN q, i < j, q[j] # End
               PROVE  q[i] < q[j]
    OBVIOUS
  <2>1. i + k < j + k
    BY <1>4
  <2> QED
    BY <2>1, <1>3 DEF QueueInv
<1>8. QueueInv'
  <2>1. /\ \A i \in DOMAIN q : IF q[i] = End THEN i = Len(q) /\ ~listening' ELSE q[i] <= spoken'
        /\ \A i, j \in DOMAIN q : i < j /\ q[j] # End => q[i] < q[j]
    BY <1>6, <1>7
  <2> QED
    BY <2>1 DEF QueueInv, q
<1>9. \A a \in Tries : \A i \in DOMAIN sent[a] : \A j \in DOMAIN q : q[j] # End => sent[a][i] < q[j]
  <2> SUFFICES ASSUME NEW a \in Tries, NEW i \in DOMAIN sent[a], NEW j \in DOMAIN q, q[j] # End
               PROVE  sent[a][i] < q[j]
    OBVIOUS
  <2>1. j + k \in DOMAIN queue /\ q[j] = queue[j + k]
    BY <1>3
  <2> QED
    BY <2>1 DEF SentInv
<1> QED
  BY <1>1, <1>5, <1>8, <1>9 DEF q

\* Nothing is closed that opens again, and no admission begins that was there.
CoreGoesOn ==
    /\ core' \in CoreRecords /\ core'.try >= core.try
    /\ \A a \in Tries : Closed(a) => Closed(a)'
    /\ \A a \in Tries : a > core'.try \/ (a = core'.try /\ core'.at \in {"open", "opening"}) =>
          a > core.try \/ (a = core.try /\ core.at \in {"open", "opening"})
    /\ \A a \in Tries : a > core'.try \/ (a = core'.try /\ core'.at = "open") =>
          a > core.try \/ (a = core.try /\ core.at = "open")

\* The frames sent stay in order while none is sent.
LEMMA SentKept ==
  ASSUME Shapes, QueueInv, SentInv, CoreGoesOn, sent' = sent, spoken' = spoken,
         listening' = listening,
         NEW k \in Nat, Behind(Frames \cup {End}, queue, k, queue')
  PROVE  SentInv' /\ QueueInv' /\ queue' \in Seq(Frames \cup {End}) /\ Len(queue') <= CoreQueue
<1>1. /\ QueueInv' /\ queue' \in Seq(Frames \cup {End}) /\ Len(queue') <= CoreQueue
      /\ \A a \in Tries : \A i \in DOMAIN sent[a] : \A j \in DOMAIN queue' :
            queue'[j] # End => sent[a][i] < queue'[j]
  BY QueueShrinks
<1>2. \A a \in Tries : a > core'.try \/ (a = core'.try /\ core'.at \in {"open", "opening"}) =>
          sent[a] = << >>
  BY DEF SentInv, CoreGoesOn
<1>3. SentInv'
  BY <1>1, <1>2 DEF SentInv
<1> QED
  BY <1>1, <1>3

\* Frames are only added, and none behind the end.
SentGrows ==
    /\ sent' \in [Tries -> Seq(Frames)]
    /\ \A a \in Tries :
          /\ Len(sent[a]) <= Len(sent'[a])
          /\ \A i \in 1 .. Len(sent[a]) : sent'[a][i] = sent[a][i]
          /\ Closed(a) => sent'[a] = sent[a]

LEMMA SentSame == ASSUME Shapes, sent' = sent PROVE SentGrows
<1>1. sent \in [Tries -> Seq(Frames)]
  BY DEF Shapes, CoreTypes
<1>2. \A a \in Tries : Len(sent[a]) <= Len(sent[a])
  BY <1>1
<1> QED
  BY <1>1, <1>2 DEF SentGrows

\* What a turn has stays what it was sent.
LEMMA HasGrows ==
  ASSUME Shapes, CoreGoesOn, SentGrows, NEW a \in Tries, NEW t \in TurnRecords, TurnHas(a, t),
         t.seq <= Len(sent[a])
  PROVE  TurnHas(a, t)'
<1>1. /\ sent[a] \in Seq(Frames) /\ sent'[a] \in Seq(Frames) /\ t.fed \in Seq(Frames)
      /\ t.queue \in Seq(Frames \cup {End})
  BY SentTypes DEF SentGrows, TurnRecords
<1>2. /\ Len(sent[a]) \in Nat /\ Len(sent'[a]) \in Nat /\ Len(t.fed) \in Nat
      /\ Len(t.queue) \in Nat /\ DOMAIN t.fed = 1 .. Len(t.fed)
      /\ DOMAIN t.queue = 1 .. Len(t.queue)
  BY <1>1
<1>3. Len(sent[a]) <= Len(sent'[a]) /\ \A i \in 1 .. Len(sent[a]) : sent'[a][i] = sent[a][i]
  BY DEF SentGrows
<1>4. Closed(a) => sent'[a] = sent[a] /\ Closed(a)'
  BY DEF SentGrows, CoreGoesOn
<1>5. Len(t.fed) <= Len(sent[a]) /\ \A i \in DOMAIN t.fed : t.fed[i] = sent[a][i]
  BY DEF TurnHas
<1>6. Len(t.fed) <= Len(sent'[a]) /\ \A i \in DOMAIN t.fed : t.fed[i] = sent'[a][i]
  BY <1>2, <1>3, <1>5
<1>7. ASSUME t.x \in Live, ~t.ending
      PROVE  /\ Len(t.fed) + Len(t.queue) = t.seq
             /\ \A j \in DOMAIN t.queue :
                   t.queue[j] # End /\ t.queue[j] = sent'[a][Len(t.fed) + j]
  <2>1. Len(t.fed) + Len(t.queue) = t.seq
    BY <1>7 DEF TurnHas
  <2>2. ASSUME NEW j \in DOMAIN t.queue PROVE Len(t.fed) + j \in 1 .. Len(sent[a])
    <3>1. \A f, l, n \in Nat : \A k \in 1 .. l : f + l <= n => f + k \in 1 .. n
      OBVIOUS
    <3> QED
      BY <3>1, <2>1, <1>2
  <2>3. \A j \in DOMAIN t.queue : t.queue[j] # End /\ t.queue[j] = sent[a][Len(t.fed) + j]
    BY <1>7 DEF TurnHas
  <2> QED
    BY <2>1, <2>2, <2>3, <1>3
<1>8. ASSUME Closed(a) PROVE TurnHas(a, t)'
  BY <1>4, <1>8 DEF TurnHas
<1>9. ASSUME ~Closed(a) PROVE TurnHas(a, t)'
  <2>1. (t.x \in Live => ~t.ending) /\ t.x \notin {"finish", "final"}
    BY <1>9 DEF TurnHas
  <2> QED
    BY <2>1, <1>6, <1>7 DEF TurnHas
<1> QED
  BY <1>8, <1>9

\* The worker's turns are what the core sent them.
LEMMA TurnsKept ==
  ASSUME Shapes, TurnInv, CoreGoesOn, SentGrows, turn' = turn, mode' = mode
  PROVE  TurnInv'
<1>1. \A a \in Tries : (a > core.try \/ (a = core.try /\ core.at = "open") => turn[a] = NoTurn)'
  BY DEF TurnInv, CoreGoesOn
<1>2. ASSUME NEW a \in Tries PROVE turn[a].seq <= Len(sent'[a])
  <2>1. turn[a].seq \in Nat /\ Len(sent[a]) \in Nat /\ Len(sent'[a]) \in Nat
    BY SentTypes, TurnTypesOf, Bounds DEF SentGrows, TurnRecords
  <2>2. turn[a].seq <= Len(sent[a]) /\ Len(sent[a]) <= Len(sent'[a])
    BY DEF TurnInv, SentGrows
  <2> QED
    BY <2>1, <2>2
<1>4. \A a \in Tries : turn'[a].x = "final" => turn'[a].text # None
  BY DEF TurnInv
<1>3. ASSUME NEW a \in Tries, mode = "manual" PROVE TurnHas(a, turn[a])'
  <2>1. PICK t \in TurnRecords : t = turn[a]
    BY TurnTypesOf
  <2>2. TurnHas(a, t) /\ t.seq <= Len(sent[a])
    BY <1>3, <2>1 DEF TurnInv
  <2>3. TurnHas(a, t)'
    BY <2>1, <2>2, HasGrows
  <2> QED
    BY <2>1, <2>3 DEF TurnHas
<1> QED
  BY <1>1, <1>2, <1>3, <1>4 DEF TurnInv

\* A message whose frame was sent is still about that frame.
LEMMA RightKept ==
  ASSUME Shapes, CoreGoesOn, SentGrows, turn' = turn, NEW m \in Messages, Right(m)
  PROVE  Right(m)'
<1>1. PICK a \in Tries : a = m.try
  BY DEF Messages
<1>2. core.try \in Tries /\ core'.try \in Tries /\ m.seq \in Nat
  BY Bounds DEF CoreGoesOn, CoreRecords, Shapes, CoreTypes, Messages
<1>3. /\ a < core.try \/ (a = core.try /\ core.at # "open")
      /\ m.op = "open" => turn[a] = NoTurn
      /\ m.op = "frame" => m.seq < Len(sent[a]) /\ m.item = sent[a][m.seq + 1]
      /\ m.op = "end" => m.seq = Len(sent[a]) /\ m.item = End /\ Closed(a)
  BY <1>1 DEF Right
<1>4. a < core'.try \/ (a = core'.try /\ core'.at # "open")
  BY <1>2, <1>3 DEF CoreGoesOn, Tries
<1>5. Closed(a) => Closed(a)' /\ sent'[a] = sent[a]
  BY DEF CoreGoesOn, SentGrows
<1>6. ASSUME m.op = "frame"
      PROVE  m.seq < Len(sent'[a]) /\ m.item = sent'[a][m.seq + 1]
  <2>1. Len(sent[a]) \in Nat /\ Len(sent'[a]) \in Nat
    BY SentTypes DEF SentGrows
  <2>2. m.seq < Len(sent'[a]) /\ m.seq + 1 \in 1 .. Len(sent[a])
    BY <2>1, <1>6, <1>2, <1>3 DEF SentGrows
  <2> QED
    BY <2>2, <1>3, <1>6 DEF SentGrows
<1>7. Closed(a)' <=> Closed(m.try)'
  BY <1>1 DEF Closed
<1>8. m.op = "end" => m.seq = Len(sent'[m.try]) /\ m.item = End /\ Closed(m.try)'
  BY <1>1, <1>3, <1>5, <1>7
<1> QED
  BY <1>1, <1>3, <1>4, <1>6, <1>8 DEF Right

LEMMA WireKept ==
  ASSUME Shapes, WireInv, CoreGoesOn, SentGrows, turn' = turn, wire' = wire
  PROVE  WireInv'
<1>1. \A m \in Messages : Right(m) => Right(m)'
  BY RightKept
<1>2. \A i \in DOMAIN wire : wire[i] \in Messages /\ Right(wire[i])
  BY DEF Shapes, NetTypes, WireInv
<1>3. \A i \in DOMAIN wire' : Right(wire[i])'
  <2> SUFFICES ASSUME NEW i \in DOMAIN wire' PROVE Right(wire[i])'
    OBVIOUS
  <2>1. PICK m \in Messages : m = wire[i]
    BY <1>2
  <2>2. Right(m)'
    BY <2>1, <1>1, <1>2
  <2> QED
    BY <2>1, <2>2 DEF Right
<1>4. \A i, j \in DOMAIN wire : i # j /\ wire[i].op = "open" /\ wire[j].op = "open" =>
          wire[i].try # wire[j].try
  BY DEF WireInv
<1> QED
  BY <1>3, <1>4 DEF WireInv

\* The core sends one more.
LEMMA WireSent ==
  ASSUME Shapes, WireInv, CoreGoesOn, SentGrows, turn' = turn, NEW m \in Messages,
         wire' = Append(wire, m), Right(m)', m.op = "open" => m.try = core.try /\ core.at = "open"
  PROVE  WireInv' /\ wire' \in Seq(Messages)
<1>1. wire \in Seq(Messages)
  BY DEF Shapes, NetTypes
<1>2. /\ wire' \in Seq(Messages) /\ Len(wire') = Len(wire) + 1 /\ wire'[Len(wire) + 1] = m
      /\ \A i \in 1 .. Len(wire) : wire'[i] = wire[i]
  BY <1>1, AppendFacts
<1>3. DOMAIN wire = 1 .. Len(wire) /\ DOMAIN wire' = 1 .. (Len(wire) + 1) /\ Len(wire) \in Nat
  BY <1>1, <1>2
<1>4. \A i \in DOMAIN wire' :
         (i \in DOMAIN wire /\ wire'[i] = wire[i]) \/ (i = Len(wire) + 1 /\ wire'[i] = m)
  BY <1>2, <1>3
<1>5. \A i \in DOMAIN wire' : Right(wire[i])'
  <2> SUFFICES ASSUME NEW i \in DOMAIN wire' PROVE Right(wire[i])'
    OBVIOUS
  <2>1. PICK x \in Messages : x = wire'[i] /\ (x = m \/ (i \in DOMAIN wire /\ x = wire[i]))
    BY <1>1, <1>4
  <2>2. CASE x = m
    BY <2>1, <2>2 DEF Right
  <2>3. CASE i \in DOMAIN wire /\ x = wire[i]
    <3>1. Right(x)
      BY <2>3 DEF WireInv, Right
    <3>2. Right(x)'
      BY <3>1, RightKept
    <3> QED
      BY <2>1, <3>2 DEF Right
  <2> QED
    BY <2>1, <2>2, <2>3
<1>6. \A i \in DOMAIN wire : wire[i].op = "open" /\ m.op = "open" => wire[i].try # m.try
  <2> SUFFICES ASSUME NEW i \in DOMAIN wire, wire[i].op = "open", m.op = "open"
               PROVE  wire[i].try # m.try
    OBVIOUS
  <2>1. wire[i] \in Messages /\ core.try \in Tries
    BY <1>1 DEF Shapes, CoreTypes, CoreRecords
  <2>2. wire[i].try < core.try
    BY DEF WireInv, Right
  <2> QED
    BY <2>1, <2>2 DEF Tries, Messages
<1>7. \A i, j \in DOMAIN wire' : i # j /\ wire'[i].op = "open" /\ wire'[j].op = "open" =>
          wire'[i].try # wire'[j].try
  BY <1>4, <1>6 DEF WireInv
<1> QED
  BY <1>2, <1>5, <1>7 DEF WireInv

-----------------------------------------------------------------------------
(* The steps of the client and of the core.                                *)

LEMMA NowFacts ==
  ASSUME Shapes
  PROVE  /\ core \in CoreRecords /\ core.try \in Tries /\ core.try \in Nat /\ Tries \subseteq Nat
         /\ sent[core.try] \in Seq(Frames) /\ Len(sent[core.try]) \in Nat
         /\ queue \in Seq(Frames \cup {End}) /\ wire \in Seq(Messages) /\ inbox \in Seq(Events)
         /\ spoken \in Nat /\ spoken <= MaxFrames /\ faults \in 0 .. MaxFaults /\ reply \in Replies
<1>1. core \in CoreRecords /\ core.try \in Tries
  BY DEF Shapes, CoreTypes, CoreRecords
<1>2. sent[core.try] \in Seq(Frames)
  BY <1>1, SentTypes
<1>3. Tries \subseteq Nat
  BY Bounds DEF Tries
<1>4. /\ queue \in Seq(Frames \cup {End}) /\ wire \in Seq(Messages) /\ inbox \in Seq(Events)
      /\ spoken \in 0 .. MaxFrames /\ faults \in 0 .. MaxFaults /\ reply \in Replies
  BY DEF Shapes, ClientTypes, NetTypes, LinkTypes
<1>5. core.try \in Nat
  BY <1>1, <1>3
<1>7. Len(sent[core.try]) \in Nat
  BY <1>2
<1>6. spoken \in Nat /\ spoken <= MaxFrames
  BY <1>4, Bounds
<1> QED
  BY <1>1, <1>2, <1>3, <1>4, <1>5, <1>6, <1>7

\* A frame's place is at most its number.
LEMMA SentBounded ==
  ASSUME Shapes, SentInv, NEW a \in Tries PROVE Len(sent[a]) <= MaxFrames /\ Len(sent[a]) <= spoken
<1>1. sent[a] \in Seq(Frames) /\ Len(sent[a]) \in Nat
  BY SentTypes
<1>2. CASE Len(sent[a]) = 0
  BY <1>2, NowFacts, Bounds
<1>3. CASE Len(sent[a]) # 0
  <2>1. Len(sent[a]) \in DOMAIN sent[a]
    BY <1>1, <1>3
  <2>2. sent[a][Len(sent[a])] \in Frames
    BY <1>1, <2>1
  <2>3. Len(sent[a]) <= sent[a][Len(sent[a])] /\ sent[a][Len(sent[a])] <= spoken
    BY <2>1 DEF SentInv
  <2> QED
    BY <1>1, <2>2, <2>3, NowFacts, Bounds DEF Frames
<1> QED
  BY <1>2, <1>3

LEMMA TailWithin ==
  ASSUME NEW S, NEW s \in Seq(S), s # << >>
  PROVE  \A i \in DOMAIN Tail(s) : i + 1 \in DOMAIN s /\ Tail(s)[i] = s[i + 1]
<1>1. Behind(S, s, 1, Tail(s))
  BY TailFacts
<1> QED
  BY <1>1 DEF Behind

LEMMA FaultTypes ==
  ASSUME Shapes, Fault \/ UNCHANGED faults PROVE faults' \in 0 .. MaxFaults
<1>1. faults \in 0 .. MaxFaults /\ MaxFaults \in Nat
  BY Bounds DEF Shapes, LinkTypes
<1> QED
  BY <1>1 DEF Fault

LEMMA HeardKept ==
  ASSUME Shapes, HeardInv, CoreGoesOn, SentGrows, turn' = turn, mode' = mode,
         HasText' => HasText /\ core'.try = core.try,
         core'.at \in {"open", "restart", "done"} => inbox' = << >>
  PROVE  HeardInv'
<1>1. ASSUME mode = "manual", HasText' PROVE Spoke(core.try)'
  <2>1. Spoke(core.try) /\ core'.try = core.try
    BY <1>1 DEF HeardInv
  <2>2. core.try \in Tries
    BY NowFacts
  <2>3. PICK a \in Tries : a = core.try
    BY <2>2
  <2>4. Closed(a) /\ Closed(a)' /\ sent'[a] = sent[a]
    BY <2>1, <2>3 DEF Spoke, CoreGoesOn, SentGrows
  <2>5. Spoke(a)'
    BY <2>1, <2>3, <2>4 DEF Spoke
  <2> QED
    BY <2>1, <2>3, <2>5 DEF Spoke, Closed
<1> QED
  BY <1>1 DEF HeardInv

LEMMA CoreStepInv ==
  ASSUME IInv, CoreGoesOn, CoreInv', sent' = sent, UNCHANGED <<turn, handler, link>>,
         UNCHANGED <<mode, spoken, listening>>, Fault \/ UNCHANGED faults,
         NEW k \in Nat, Behind(Frames \cup {End}, queue, k, queue'),
         reply' \in Replies, inbox' \in Seq(Events), wire' \in Seq(Messages), WireInv',
         HasText' => HasText /\ core'.try = core.try,
         core'.at \in {"open", "restart", "done"} => inbox' = << >>
  PROVE  IInv'
<1> USE DEF IInv
<1>1. SentGrows
  BY SentSame
<1>2. SentInv' /\ QueueInv' /\ queue' \in Seq(Frames \cup {End}) /\ Len(queue') <= CoreQueue
  BY SentKept
<1>3. TurnInv'
  BY <1>1, TurnsKept
<1>4. HeardInv'
  BY <1>1, HeardKept
<1>5. RoomInv'
  BY DEF RoomInv, Turns
<1>6. ClientTypes'
  BY <1>2 DEF Shapes, ClientTypes
<1>7. CoreTypes'
  BY DEF CoreGoesOn, Shapes, CoreTypes
<1>8. NetTypes'
  BY DEF NetTypes
<1>9. TurnTypes'
  BY DEF Shapes, TurnTypes
<1>10. LinkTypes'
  BY FaultTypes DEF Shapes, LinkTypes, link
<1> QED
  BY <1>2, <1>3, <1>4, <1>5, <1>6, <1>7, <1>8, <1>9, <1>10 DEF Shapes

LEMMA Ended ==
  ASSUME Shapes, core' \in CoreRecords, core'.try = core.try,
         core'.at \in {"cancel", "restart", "done"}
  PROVE  CoreGoesOn
<1>1. core.try \in Nat
  BY NowFacts
<1>2. core'.try >= core.try
  BY <1>1
<1>3. \A a \in Tries : Closed(a) => Closed(a)'
  BY DEF Closed
<1> QED
  BY <1>2, <1>3 DEF CoreGoesOn

\* What becomes of the core's fields when an admission is over.
LEMMA ReturnsEffect ==
  ASSUME Shapes, NEW code \in {"text", "empty", "soft", "hard", "cancelled"}, Returns(code)
  PROVE  /\ core' \in CoreRecords /\ core'.try = core.try /\ core'.at = "done"
         /\ core'.final = None /\ core'.code = code /\ queue' = << >>
         /\ core'.seq = 0 /\ core'.sender = "off" /\ ~core'.admitted
<1>1. core \in CoreRecords
  BY NowFacts
<1>2. 0 \in 0 .. MaxFrames
  BY Bounds
<1> QED
  BY <1>1, <1>2 DEF Returns, CoreRecords, None, End

LEMMA AfterEffect ==
  ASSUME Shapes, NEW code \in {"text", "empty", "soft", "hard", "cancelled"}, After(code)
  PROVE  /\ core' \in CoreRecords /\ core'.try = core.try /\ core'.final = None
         /\ core'.seq = 0 /\ core'.sender = "off" /\ ~core'.admitted
         /\ \/ core'.at = "done" /\ core'.code = code
            \/ core'.at = "restart" /\ core'.code = None
         /\ inbox' = << >>
         /\ \E k \in Nat : Behind(Frames \cup {End}, queue, k, queue')
<1> DEFINE again == listening /\ (code = "soft" \/ (code = "empty" /\ mode = "auto"))
<1>1. core \in CoreRecords /\ queue \in Seq(Frames \cup {End})
  BY NowFacts
<1>2. 0 \in 0 .. MaxFrames
  BY Bounds
<1>3. CASE again
  <2>1. /\ core' = [core EXCEPT !.at = "restart", !.admitted = FALSE, !.final = None,
                          !.sender = "off", !.seq = 0, !.item = End, !.code = None,
                          !.restarting = TRUE]
        /\ queue' = Keep(queue, RecoveryFrames) /\ inbox' = << >>
    BY <1>3 DEF After
  <2>2. /\ core' \in CoreRecords /\ core'.try = core.try /\ core'.final = None
        /\ core'.at = "restart" /\ core'.code = None
        /\ core'.seq = 0 /\ core'.sender = "off" /\ ~core'.admitted
    BY <2>1, <1>1, <1>2 DEF CoreRecords, None, End
  <2>3. \E k \in Nat : Behind(Frames \cup {End}, queue, k, queue')
    BY <2>1, <1>1, KeepFacts, Bounds
  <2> QED
    BY <2>1, <2>2, <2>3
<1>4. CASE ~again
  <2>1. Returns(code) /\ inbox' = << >>
    BY <1>4 DEF After
  <2>2. Len(queue) \in Nat /\ Behind(Frames \cup {End}, queue, Len(queue), queue')
    BY <2>1, <1>1, EmptyBehind, ReturnsEffect
  <2> QED
    BY <2>1, <2>2, ReturnsEffect
<1> QED
  BY <1>3, <1>4

\* An admission that ends: with its cancellation, or in the next, or with the turn.
LEMMA AfterStep ==
  ASSUME IInv, NEW code \in {"text", "empty", "soft", "hard", "cancelled"}, After(code),
         code = "text" => core.final = "text" \/ core.code = "text",
         UNCHANGED <<sent, wire, turn, handler, link, mode, spoken, listening>>,
         reply' \in Replies, Fault \/ UNCHANGED faults
  PROVE  IInv'
<1> USE DEF IInv
<1>1. /\ core' \in CoreRecords /\ core'.try = core.try /\ core'.final = None
      /\ core'.seq = 0 /\ core'.sender = "off" /\ ~core'.admitted
      /\ \/ core'.at = "done" /\ core'.code = code
         \/ core'.at = "restart" /\ core'.code = None
      /\ inbox' = << >>
  BY AfterEffect
<1>2. PICK k \in Nat : Behind(Frames \cup {End}, queue, k, queue')
  BY AfterEffect
<1>3. CoreGoesOn
  BY <1>1, Ended
<1>4. CoreInv'
  BY <1>1 DEF CoreInv
<1>5. WireInv' /\ wire' \in Seq(Messages) /\ inbox' \in Seq(Events)
  BY <1>1, <1>3, SentSame, WireKept, NowFacts
<1>6. HasText' => HasText
  BY <1>1 DEF HasText, None
<1>7. core'.at \in {"open", "restart", "done"} => inbox' = << >>
  BY <1>1
<1> QED
  BY <1>1, <1>2, <1>3, <1>4, <1>5, <1>6, <1>7, CoreStepInv

LEMMA LeavesStep ==
  ASSUME IInv, NEW code \in {"text", "empty", "soft", "hard", "cancelled"}, Leaves(code),
         core.at \in {"opening", "run"},
         code = "text" => core.final = "text",
         UNCHANGED <<sent, turn, handler, link, mode, spoken, listening>>,
         Fault \/ UNCHANGED faults
  PROVE  IInv'
<1> USE DEF IInv
<1>1. CASE core.admitted /\ core.final = None
  <2>1. /\ core' = [core EXCEPT !.at = "cancel", !.sender = "off", !.item = End, !.code = code]
        /\ wire' = Append(wire, Message("cancel", 0, End)) /\ reply' = None
        /\ UNCHANGED <<queue, inbox>>
    BY <1>1 DEF Leaves
  <2>2. core \in CoreRecords
    BY NowFacts
  <2>3. /\ core' \in CoreRecords /\ core'.try = core.try /\ core'.at = "cancel"
        /\ core'.final = None /\ core'.code = code /\ code \notin {None, "text"}
    BY <2>1, <2>2, <1>1 DEF CoreRecords, End, None
  <2>4. CoreGoesOn
    BY <2>3, Ended
  <2>5. CoreInv'
    BY <2>3 DEF CoreInv
  <2> DEFINE m == Message("cancel", 0, End)
  <2>6. m \in Messages /\ m.op = "cancel" /\ m.try = core.try
    BY NowFacts, Bounds DEF Message, Messages, End
  <2> HIDE DEF m
  <2>7. PICK x \in Messages : x = m
    BY <2>6
  <2>8. Right(x)'
    BY <2>3, <2>6, <2>7 DEF Right
  <2>9. WireInv' /\ wire' \in Seq(Messages)
    BY <2>1, <2>4, <2>6, <2>7, <2>8, SentSame, WireSent DEF m
  <2>10. reply' \in Replies /\ inbox' \in Seq(Events)
    BY <2>1, NowFacts DEF Replies
  <2>11. HasText' => HasText
    BY <2>1, <2>3 DEF HasText, None
  <2>12. Behind(Frames \cup {End}, queue, 0, queue') /\ 0 \in Nat
    BY <2>1, NowFacts, AllBehind
  <2>13. core'.at \in {"open", "restart", "done"} => inbox' = << >>
    BY <2>3
  <2> QED
    BY <2>3, <2>4, <2>5, <2>9, <2>10, <2>11, <2>12, <2>13, CoreStepInv
<1>2. CASE ~(core.admitted /\ core.final = None)
  <2>1. After(code) /\ reply' = None /\ wire' = wire
    BY <1>2 DEF Leaves
  <2> QED
    BY <2>1, AfterStep DEF Replies
<1> QED
  BY <1>1, <1>2

\* Returns() from a place where no event is kept.
LEMMA ReturnsStep ==
  ASSUME IInv, NEW code \in {"empty", "cancelled"}, Returns(code),
         UNCHANGED <<sent, turn, handler, link, mode, spoken, listening, wire, reply>>,
         inbox' = << >>, Fault \/ UNCHANGED faults
  PROVE  IInv'
<1> USE DEF IInv
<1>1. /\ core' \in CoreRecords /\ core'.try = core.try /\ core'.at = "done"
      /\ core'.final = None /\ core'.code = code /\ queue' = << >>
  BY ReturnsEffect
<1>2. Len(queue) \in Nat /\ Behind(Frames \cup {End}, queue, Len(queue), queue')
  BY <1>1, EmptyBehind, NowFacts
<1>3. CoreGoesOn
  BY <1>1, Ended
<1>4. CoreInv'
  BY <1>1 DEF CoreInv
<1>5. WireInv' /\ wire' \in Seq(Messages) /\ inbox' \in Seq(Events) /\ reply' \in Replies
  BY <1>3, SentSame, WireKept, NowFacts
<1>6. HasText' => HasText
  BY <1>1 DEF HasText, None
<1> QED
  BY <1>1, <1>2, <1>3, <1>4, <1>5, <1>6, CoreStepInv

LEMMA RunEndsStep == ASSUME IInv, RunEnds PROVE IInv'
<1>1. /\ core.at = "run" /\ UNCHANGED <<sent, turn, handler, link, mode, spoken, listening>>
      /\ \/ core.final # None /\ Leaves(core.final) /\ UNCHANGED faults
         \/ Leaves("soft") /\ (Fault \/ UNCHANGED faults)
  BY DEF RunEnds, ClientApart, WorkerApart, Unanswered
<1>2. core.final # None => core.final \in {"text", "empty", "soft", "hard", "cancelled"}
  BY NowFacts DEF IInv, CoreRecords, None
<1>3. CASE core.final # None /\ Leaves(core.final) /\ UNCHANGED faults
  <2>1. PICK code \in {"text", "empty", "soft", "hard", "cancelled"} : code = core.final
    BY <1>2, <1>3
  <2>2. Leaves(code)
    BY <2>1, <1>3
  <2> QED
    BY <2>1, <2>2, <1>1, <1>3, LeavesStep
<1>4. CASE Leaves("soft") /\ (Fault \/ UNCHANGED faults)
  BY <1>1, <1>4, LeavesStep
<1> QED
  BY <1>1, <1>3, <1>4

LEMMA CancelReturnsStep == ASSUME IInv, CancelReturns PROVE IInv'
<1>1. /\ core.at = "cancel" /\ After(core.code) /\ reply' = None /\ (Fault \/ UNCHANGED faults)
      /\ UNCHANGED <<sent, wire, turn, handler, link, mode, spoken, listening>>
  BY DEF CancelReturns, Unanswered, ClientApart, WorkerApart
<1>2. core.code \in {None, "text", "empty", "soft", "hard", "cancelled"}
      /\ core.code \notin {None, "text"}
  BY <1>1, NowFacts DEF IInv, CoreInv, CoreRecords
<1>3. PICK code \in {"text", "empty", "soft", "hard", "cancelled"} :
         code = core.code /\ code # "text"
  BY <1>2
<1>4. After(code) /\ reply' \in Replies
  BY <1>1, <1>3 DEF Replies
<1> QED
  BY <1>1, <1>3, <1>4, AfterStep

LEMMA CancelledStep == ASSUME IInv, Cancelled PROVE IInv'
<1>1. CASE core.at \in {"opening", "run"}
  <2>1. /\ Leaves("cancelled") /\ UNCHANGED faults
        /\ UNCHANGED <<sent, turn, handler, link, mode, spoken, listening>>
    BY <1>1 DEF Cancelled, ClientApart, WorkerApart
  <2> QED
    BY <1>1, <2>1, LeavesStep
<1>2. CASE core.at \notin {"opening", "run"}
  <2>1. /\ Returns("cancelled") /\ inbox' = << >> /\ UNCHANGED <<wire, reply, faults>>
        /\ UNCHANGED <<sent, turn, handler, link, mode, spoken, listening>>
    BY <1>2 DEF Cancelled, ClientApart, WorkerApart
  <2> QED
    BY <2>1, ReturnsStep
<1> QED
  BY <1>1, <1>2

LEMMA OpensStep == ASSUME IInv, Opens PROVE IInv'
<1> USE DEF IInv
<1>1. /\ core.at = "open" /\ core' = [core EXCEPT !.at = "opening"] /\ reply' = None
      /\ wire' = Append(wire, Message("open", 0, End))
      /\ UNCHANGED <<mode, spoken, listening, queue, sent, inbox, faults, turn, handler, link>>
  BY DEF Opens, WorkerApart, client
<1>2. /\ core' \in CoreRecords /\ core'.try = core.try /\ core'.at = "opening"
      /\ core'.seq = core.seq /\ core'.sender = core.sender /\ core'.admitted = core.admitted
      /\ core'.final = core.final /\ core'.code = core.code
  BY <1>1, NowFacts DEF CoreRecords
<1>3. CoreGoesOn
  <2>1. \A a \in Tries : Closed(a) => Closed(a)'
    BY <1>1, <1>2 DEF Closed
  <2> QED
    BY <1>1, <1>2, <2>1, NowFacts DEF CoreGoesOn
<1>4. CoreInv'
  BY <1>1, <1>2 DEF CoreInv
<1>5. PICK m \in Messages : m = Message("open", 0, End)
  <2>1. Message("open", 0, End) \in Messages
    BY NowFacts, Bounds DEF Message, Messages, End
  <2> QED
    BY <2>1
<1>6. m.op = "open" /\ m.try = core.try
  BY <1>5 DEF Message
<1>7. turn[core.try] = NoTurn
  BY <1>1, NowFacts DEF TurnInv
<1>8. Right(m)'
  BY <1>1, <1>2, <1>6, <1>7 DEF Right
<1>9. WireInv' /\ wire' \in Seq(Messages)
  BY <1>1, <1>3, <1>5, <1>6, <1>8, SentSame, WireSent
<1>10. inbox' \in Seq(Events) /\ reply' \in Replies
  BY <1>1, NowFacts DEF Replies
<1>11. HasText' => HasText
  BY <1>1, <1>2 DEF HasText
<1>12. Behind(Frames \cup {End}, queue, 0, queue') /\ 0 \in Nat
  BY <1>1, NowFacts, AllBehind
<1> QED
  BY <1>1, <1>2, <1>3, <1>4, <1>9, <1>10, <1>11, <1>12, CoreStepInv

LEMMA OpenReturnsStep == ASSUME IInv, OpenReturns PROVE IInv'
<1> USE DEF IInv
<1>1. CASE /\ reply = "admitted" /\ reply' = None /\ UNCHANGED faults
           /\ core' = [core EXCEPT !.at = "run", !.admitted = TRUE, !.sender = "get",
                                  !.restarting = FALSE]
           /\ UNCHANGED <<queue, wire, inbox>>
  <2>1. /\ core.at = "opening"
        /\ UNCHANGED <<mode, spoken, listening, sent, turn, handler, link>>
    BY DEF OpenReturns, ClientApart, WorkerApart
  <2>2. /\ core' \in CoreRecords /\ core'.try = core.try /\ core'.at = "run" /\ core'.admitted
        /\ core'.seq = core.seq /\ core'.sender = "get"
        /\ core'.final = core.final /\ core'.code = core.code
    BY <1>1, NowFacts DEF CoreRecords
  <2>3. CoreGoesOn
    <3>1. \A a \in Tries : Closed(a) => Closed(a)'
      BY <2>1, <2>2 DEF Closed
    <3> QED
      BY <2>1, <2>2, <3>1, NowFacts DEF CoreGoesOn
  <2>4. sent[core.try] = << >> /\ core.seq = 0
    BY <2>1, NowFacts DEF SentInv, CoreInv
  <2>5. CoreInv'
    BY <2>1, <2>2, <2>4, <1>1 DEF CoreInv
  <2>6. WireInv' /\ wire' \in Seq(Messages)
    BY <1>1, <2>1, <2>3, SentSame, WireKept, NowFacts
  <2>7. inbox' \in Seq(Events) /\ reply' \in Replies
    BY <1>1, NowFacts DEF Replies
  <2>8. HasText' => HasText
    BY <1>1, <2>2 DEF HasText
  <2>9. Behind(Frames \cup {End}, queue, 0, queue') /\ 0 \in Nat
    BY <1>1, NowFacts, AllBehind
  <2> QED
    BY <1>1, <2>1, <2>2, <2>3, <2>5, <2>6, <2>7, <2>8, <2>9, CoreStepInv
<1>2. CASE ((reply = "busy" /\ UNCHANGED faults) \/ Unanswered({"open"})) /\ Leaves("soft")
  <2>1. /\ core.at = "opening" /\ (Fault \/ UNCHANGED faults)
        /\ UNCHANGED <<sent, turn, handler, link, mode, spoken, listening>>
    BY <1>2 DEF OpenReturns, ClientApart, WorkerApart, Unanswered
  <2> QED
    BY <1>2, <2>1, LeavesStep
<1> QED
  BY <1>1, <1>2 DEF OpenReturns

LEMMA SenderAckedStep == ASSUME IInv, SenderAcked PROVE IInv'
<1> USE DEF IInv
<1>1. /\ core.at = "run" /\ core.sender = "ack" /\ reply' = None
      /\ core' = IF core.item = End
                 THEN [core EXCEPT !.sender = "off", !.item = End]
                 ELSE [core EXCEPT !.sender = "get", !.item = End, !.seq = @ + 1]
      /\ UNCHANGED <<queue, sent, wire, inbox, faults, mode, spoken, listening, turn, handler, link>>
  BY DEF SenderAcked, ClientApart, WorkerApart
<1>2. core \in CoreRecords
  BY NowFacts
<1>3. core.item # End => core.seq + 1 = Len(sent[core.try])
  BY <1>1 DEF CoreInv
<1>4. /\ core' \in CoreRecords /\ core'.try = core.try /\ core'.at = "run"
      /\ core'.admitted = core.admitted
      /\ IF core.item = End THEN core'.sender = "off"
                            ELSE core'.sender = "get" /\ core'.seq = Len(sent[core.try])
      /\ core'.final = core.final /\ core'.code = core.code
  <2>1. CASE core.item = End
    BY <2>1, <1>1, <1>2 DEF CoreRecords, End
  <2>2. CASE core.item # End
    <3>1. core.seq + 1 \in 0 .. MaxFrames
      <4>1. Len(sent[core.try]) <= MaxFrames
        BY SentBounded, NowFacts
      <4> QED
        BY <4>1, <2>2, <1>3, NowFacts, Bounds
    <3>2. core' = [core EXCEPT !.sender = "get", !.item = End, !.seq = core.seq + 1]
      BY <1>1, <2>2
    <3> QED
      BY <3>1, <3>2, <2>2, <1>1, <1>2, <1>3 DEF CoreRecords, End
  <2> QED
    BY <2>1, <2>2
<1>5. CoreGoesOn
  <2>1. \A a \in Tries : Closed(a) => Closed(a)'
    BY <1>1, <1>4 DEF Closed
  <2> QED
    BY <1>1, <1>4, <2>1, NowFacts DEF CoreGoesOn
<1>6. CoreInv'
  BY <1>1, <1>4 DEF CoreInv
<1>7. WireInv' /\ wire' \in Seq(Messages)
  BY <1>1, <1>5, SentSame, WireKept, NowFacts
<1>8. inbox' \in Seq(Events) /\ reply' \in Replies
  BY <1>1, NowFacts DEF Replies
<1>9. HasText' => HasText
  BY <1>1, <1>4 DEF HasText
<1>10. Behind(Frames \cup {End}, queue, 0, queue') /\ 0 \in Nat
  BY <1>1, NowFacts, AllBehind
<1> QED
  BY <1>1, <1>4, <1>5, <1>6, <1>7, <1>8, <1>9, <1>10, CoreStepInv

LEMMA ReceivesStep == ASSUME IInv, Receives PROVE IInv'
<1> USE DEF IInv
<1>1. /\ inbox # << >> /\ core.at \in {"opening", "run", "cancel"} /\ inbox' = Tail(inbox)
      /\ core' = IF core.admitted /\ core.final = None
                 THEN [core EXCEPT !.final = Head(inbox)] ELSE core
      /\ UNCHANGED <<queue, sent, wire, reply, faults, mode, spoken, listening, turn, handler, link>>
  BY DEF Receives, WorkerApart, client
<1>2. /\ Behind(Events, inbox, 1, Tail(inbox)) /\ Head(inbox) = inbox[1] /\ Head(inbox) \in Events
      /\ Len(inbox) \in Nat /\ Len(inbox) > 0 /\ core \in CoreRecords
  BY <1>1, NowFacts, TailFacts
<1>3. /\ core' \in CoreRecords /\ core'.try = core.try /\ core'.at = core.at
      /\ core'.admitted = core.admitted /\ core'.code = core.code /\ core'.sender = core.sender
      /\ core'.item = core.item /\ core'.seq = core.seq
      /\ core'.final = core.final \/ (core'.final = Head(inbox) /\ core.admitted)
  BY <1>1, <1>2 DEF CoreRecords, Events
<1>4. CoreGoesOn
  <2>1. \A a \in Tries : Closed(a) => Closed(a)'
    BY <1>1, <1>3 DEF Closed
  <2> QED
    BY <1>1, <1>3, <2>1, NowFacts DEF CoreGoesOn
<1>5. CoreInv'
  BY <1>1, <1>3 DEF CoreInv
<1>6. WireInv' /\ wire' \in Seq(Messages) /\ reply' \in Replies
  BY <1>1, <1>4, SentSame, WireKept, NowFacts
<1>7. inbox' \in Seq(Events)
  BY <1>1, <1>2 DEF Behind
<1>8. HasText' => HasText
  <2>1. \A i \in DOMAIN inbox' : \E j \in DOMAIN inbox : inbox'[i] = inbox[j]
    BY <1>1, NowFacts, TailWithin
  <2>2. 1 \in DOMAIN inbox
    BY <1>2, NowFacts
  <2> QED
    BY <1>2, <1>3, <2>1, <2>2 DEF HasText
<1>9. Behind(Frames \cup {End}, queue, 0, queue') /\ 0 \in Nat
  BY <1>1, NowFacts, AllBehind
<1>10. core'.at \notin {"open", "restart", "done"}
  BY <1>1, <1>3
<1> QED
  BY <1>1, <1>3, <1>4, <1>5, <1>6, <1>7, <1>8, <1>9, <1>10, CoreStepInv

LEMMA RestartsStep == ASSUME IInv, Restarts PROVE IInv'
<1> USE DEF IInv
<1>1. /\ core.at = "restart" /\ inbox = << >>
      /\ UNCHANGED <<sent, wire, reply, inbox, faults, mode, spoken, listening, turn, handler, link>>
  BY DEF Restarts, ClientApart, WorkerApart, net, HeardInv
<1>2. CASE Returns("empty")
  BY <1>1, <1>2, ReturnsStep
<1>3. CASE /\ core.try < MaxTries /\ UNCHANGED queue
           /\ core' = [core EXCEPT !.at = "open", !.try = @ + 1]
  <2>1. core \in CoreRecords /\ core.try + 1 \in Tries /\ core.try \in Nat
    <3>1. \A n, t \in Nat : t < n => t + 1 \in 1 .. n
      OBVIOUS
    <3> QED
      BY <3>1, <1>3, NowFacts, Bounds DEF Tries
  <2>2. /\ core' \in CoreRecords /\ core'.try = core.try + 1 /\ core'.at = "open"
        /\ core'.final = core.final /\ core'.code = core.code
        /\ core'.seq = core.seq /\ core'.sender = core.sender /\ core'.admitted = core.admitted
    BY <1>3, <2>1 DEF CoreRecords
  <2>3. CoreGoesOn
    <3>1. \A a \in Tries : a \in Nat
      BY NowFacts
    <3>2. \A a \in Tries : a <= core.try => a < core'.try
      BY <2>1, <2>2, <3>1
    <3>3. \A a \in Tries : Closed(a) => Closed(a)'
      BY <3>1, <3>2, <2>1 DEF Closed
    <3>4. \A a \in Tries : a > core'.try \/ a = core'.try => a > core.try
      BY <2>1, <2>2, <3>1
    <3>5. core'.try >= core.try
      BY <2>1, <2>2
    <3> QED
      BY <2>2, <3>3, <3>4, <3>5 DEF CoreGoesOn
  <2>4. CoreInv'
    BY <2>2, <1>1 DEF CoreInv
  <2>5. WireInv' /\ wire' \in Seq(Messages) /\ reply' \in Replies
    BY <1>1, <2>3, SentSame, WireKept, NowFacts
  <2>6. inbox' \in Seq(Events) /\ inbox' = << >>
    BY <1>1, NowFacts
  <2>7. ~HasText'
    <3>1. DOMAIN inbox' = {}
      BY <1>1
    <3>2. core.final = None /\ core.code = None
      BY <1>1 DEF CoreInv
    <3> QED
      BY <2>2, <3>1, <3>2 DEF HasText, None
  <2>8. Behind(Frames \cup {End}, queue, 0, queue') /\ 0 \in Nat
    BY <1>3, NowFacts, AllBehind
  <2> QED
    BY <1>1, <2>3, <2>4, <2>5, <2>6, <2>7, <2>8, CoreStepInv
<1> QED
  BY <1>2, <1>3 DEF Restarts

LEMMA SenderTakesStep == ASSUME IInv, SenderTakes PROVE IInv'
<1> USE DEF IInv
<1> DEFINE item == Head(queue)
<1>1. /\ core.at = "run" /\ core.sender = "get" /\ queue # << >> /\ queue' = Tail(queue)
      /\ UNCHANGED <<reply, inbox, faults, mode, spoken, listening, turn, handler, link>>
  BY DEF SenderTakes, ClientApart, WorkerApart
<1>2. /\ Behind(Frames \cup {End}, queue, 1, queue') /\ item = queue[1]
      /\ item \in Frames \cup {End} /\ 1 \in DOMAIN queue /\ 1 \in Nat
  <2>1. queue \in Seq(Frames \cup {End})
    BY NowFacts
  <2> QED
    BY <1>1, <2>1, TailFacts
<1>3. core \in CoreRecords /\ core.seq = Len(sent[core.try]) /\ core.admitted
  BY <1>1, NowFacts DEF CoreInv
<1>4. inbox' \in Seq(Events) /\ reply' \in Replies
  BY <1>1, NowFacts
<1>5. CASE core.final # None
  <2>1. core' = [core EXCEPT !.sender = "off"] /\ UNCHANGED <<wire, sent>>
    BY <1>5 DEF SenderTakes
  <2>2. /\ core' \in CoreRecords /\ core'.try = core.try /\ core'.at = "run" /\ core'.admitted
        /\ core'.sender = "off" /\ core'.final = core.final /\ core'.code = core.code
    BY <1>1, <1>3, <2>1 DEF CoreRecords
  <2>3. CoreGoesOn
    <3>1. \A a \in Tries : Closed(a) => Closed(a)'
      BY <1>1, <2>2 DEF Closed
    <3> QED
      BY <1>1, <2>2, <3>1, NowFacts DEF CoreGoesOn
  <2>4. CoreInv'
    BY <1>1, <2>2 DEF CoreInv
  <2>5. WireInv' /\ wire' \in Seq(Messages)
    BY <1>1, <2>1, <2>3, SentSame, WireKept, NowFacts
  <2>6. HasText' => HasText
    BY <1>1, <2>2 DEF HasText
  <2> QED
    BY <1>1, <1>2, <1>4, <2>1, <2>2, <2>3, <2>4, <2>5, <2>6, CoreStepInv
<1>6. CASE core.final = None /\ item = End
  <2>1. /\ core' = [core EXCEPT !.sender = "ack", !.item = End] /\ sent' = sent
        /\ wire' = Append(wire, Message("end", core.seq, End))
    BY <1>6 DEF SenderTakes
  <2>2. /\ core' \in CoreRecords /\ core'.try = core.try /\ core'.at = "run" /\ core'.admitted
        /\ core'.sender = "ack" /\ core'.item = End /\ core'.final = core.final
        /\ core'.code = core.code
    BY <1>1, <1>3, <2>1 DEF CoreRecords, End
  <2>3. CoreGoesOn
    <3>1. \A a \in Tries : Closed(a) => Closed(a)'
      BY <1>1, <2>2 DEF Closed
    <3> QED
      BY <1>1, <2>2, <3>1, NowFacts DEF CoreGoesOn
  <2>4. CoreInv'
    BY <1>1, <2>2 DEF CoreInv
  <2>5. PICK m \in Messages : m = Message("end", core.seq, End)
    <3>1. Message("end", core.seq, End) \in Messages
      BY <1>3 DEF Message, Messages, End, CoreRecords
    <3> QED
      BY <3>1
  <2>6. m.op = "end" /\ m.try = core.try /\ m.seq = Len(sent[core.try]) /\ m.item = End
    BY <2>5, <1>3 DEF Message
  <2>7. Right(m)'
    BY <2>1, <2>2, <2>6 DEF Right, Closed
  <2>8. WireInv' /\ wire' \in Seq(Messages)
    BY <1>1, <2>1, <2>3, <2>5, <2>6, <2>7, SentSame, WireSent
  <2>9. HasText' => HasText
    BY <1>1, <2>2 DEF HasText
  <2> QED
    BY <1>1, <1>2, <1>4, <2>1, <2>2, <2>3, <2>4, <2>8, <2>9, CoreStepInv
<1>7. CASE core.final = None /\ item # End
  <2> DEFINE a == core.try
  <2>1. /\ core' = [core EXCEPT !.sender = "ack", !.item = item]
        /\ sent' = [sent EXCEPT ![a] = Append(@, item)]
        /\ wire' = Append(wire, Message("frame", core.seq, item))
    BY <1>7 DEF SenderTakes
  <2>2. item \in Frames /\ a \in Tries /\ a \in Nat
    BY <1>2, <1>7, NowFacts
  <2>3. /\ core' \in CoreRecords /\ core'.try = core.try /\ core'.at = "run" /\ core'.admitted
        /\ core'.sender = "ack" /\ core'.item = item /\ core'.final = core.final
        /\ core'.code = core.code /\ core'.seq = core.seq
    BY <1>1, <1>3, <2>1, <2>2 DEF CoreRecords
  <2>4. sent \in [Tries -> Seq(Frames)] /\ sent[a] \in Seq(Frames)
    BY <2>2, SentTypes DEF Shapes, CoreTypes
  <2>5. /\ sent'[a] = Append(sent[a], item) /\ sent' \in [Tries -> Seq(Frames)]
        /\ \A b \in Tries \ {a} : sent'[b] = sent[b]
    BY <2>1, <2>2, <2>4
  <2>6. /\ Len(sent'[a]) = Len(sent[a]) + 1 /\ sent'[a][Len(sent[a]) + 1] = item
        /\ \A i \in 1 .. Len(sent[a]) : sent'[a][i] = sent[a][i]
    BY <2>2, <2>4, <2>5, AppendFacts
  <2>7. ~Closed(a)
    BY <1>1, <2>2 DEF Closed
  <2>8. SentGrows
    <3>1. \A b \in Tries : Len(sent[b]) \in Nat
      BY SentTypes
    <3> QED
      BY <2>5, <2>6, <2>7, <3>1 DEF SentGrows
  <2>9. CoreGoesOn
    <3>1. \A b \in Tries : Closed(b) => Closed(b)'
      BY <1>1, <2>3 DEF Closed
    <3> QED
      BY <1>1, <2>3, <3>1, NowFacts DEF CoreGoesOn
  <2>10. CoreInv'
    BY <1>1, <1>3, <2>3, <2>6 DEF CoreInv
  <2>11. PICK m \in Messages : m = Message("frame", core.seq, item)
    <3>1. Message("frame", core.seq, item) \in Messages
      BY <1>3, <2>2 DEF Message, Messages, CoreRecords
    <3> QED
      BY <3>1
  <2>12. m.op = "frame" /\ m.try = a /\ m.seq = Len(sent[a]) /\ m.item = item
    BY <2>11, <1>3 DEF Message
  <2>13. Right(m)'
    <3>1. Len(sent[a]) < Len(sent'[a])
      BY <2>4, <2>6
    <3> QED
      BY <3>1, <2>3, <2>6, <2>12 DEF Right
  <2>14. WireInv' /\ wire' \in Seq(Messages)
    BY <1>1, <2>1, <2>8, <2>9, <2>11, <2>12, <2>13, WireSent
  <2>15. TurnInv'
    BY <1>1, <2>8, <2>9, TurnsKept
  <2>16. HasText' => HasText
    BY <1>1, <2>3 DEF HasText
  <2>17. HeardInv'
    BY <1>1, <2>3, <2>8, <2>9, <2>16, HeardKept
  <2>18. /\ QueueInv' /\ queue' \in Seq(Frames \cup {End}) /\ Len(queue') <= CoreQueue
         /\ \A b \in Tries : \A i \in DOMAIN sent[b] : \A j \in DOMAIN queue' :
               queue'[j] # End => sent[b][i] < queue'[j]
    BY <1>1, <1>2, QueueShrinks
  <2>19. SentInv'
    <3>1. /\ Len(sent[a]) \in Nat /\ DOMAIN sent[a] = 1 .. Len(sent[a])
          /\ DOMAIN sent'[a] = 1 .. (Len(sent[a]) + 1)
      BY <2>4, <2>5, <2>6
    <3>2. \A i \in DOMAIN sent'[a] :
             (i \in DOMAIN sent[a] /\ sent'[a][i] = sent[a][i])
             \/ (i = Len(sent[a]) + 1 /\ sent'[a][i] = item)
      BY <2>6, <3>1
    <3>3. item <= spoken /\ item \in Nat
      BY <1>2, <1>7, <2>2, Bounds DEF QueueInv, Frames
    <3>4. \A j \in DOMAIN queue' : queue'[j] # End => item < queue'[j]
      <4>1. ASSUME NEW j \in DOMAIN queue'
            PROVE  j + 1 \in DOMAIN queue /\ queue'[j] = queue[j + 1] /\ 1 < j + 1
        <5>1. queue \in Seq(Frames \cup {End})
          BY NowFacts
        <5>2. j \in 1 .. Len(queue')
          BY <1>2 DEF Behind
        <5>3. 1 < j + 1
          BY <5>2
        <5> QED
          BY <5>1, <5>3, <1>1, TailWithin
      <4> QED
        BY <4>1, <1>2 DEF QueueInv
    <3>5. \A b \in Tries : \A i \in DOMAIN sent[b] : sent[b][i] < item
      BY <1>2, <1>7 DEF SentInv
    <3>6. Len(sent[a]) + 1 <= item
      <4>1. CASE Len(sent[a]) = 0
        BY <4>1, <2>2, Bounds DEF Frames
      <4>2. CASE Len(sent[a]) # 0
        <5>1. Len(sent[a]) \in DOMAIN sent[a]
          BY <3>1, <4>2
        <5>2. Len(sent[a]) <= sent[a][Len(sent[a])] /\ sent[a][Len(sent[a])] < item
          BY <3>5, <5>1, <2>2 DEF SentInv
        <5>3. sent[a][Len(sent[a])] \in Nat
          BY <2>4, <5>1, Bounds DEF Frames
        <5> QED
          BY <5>2, <5>3, <3>1, <3>3
      <4> QED
        BY <4>1, <4>2
    <3>7. \A b \in Tries : b > a => sent[b] = << >>
      BY DEF SentInv
    <3> HIDE DEF item, a
    <3>8. ASSUME NEW b \in Tries, NEW i \in DOMAIN sent'[b]
          PROVE  /\ i <= sent'[b][i] /\ sent'[b][i] <= spoken
                 /\ \A j \in DOMAIN queue' : queue'[j] # End => sent'[b][i] < queue'[j]
      <4>1. (i \in DOMAIN sent[b] /\ sent'[b][i] = sent[b][i])
            \/ (b = a /\ i = Len(sent[a]) + 1 /\ sent'[b][i] = item)
        BY <3>2, <2>5
      <4>2. CASE i \in DOMAIN sent[b] /\ sent'[b][i] = sent[b][i]
        BY <4>2, <2>18 DEF SentInv
      <4>3. CASE b = a /\ i = Len(sent[a]) + 1 /\ sent'[b][i] = item
        BY <4>3, <3>3, <3>4, <3>6
      <4> QED
        BY <4>1, <4>2, <4>3
    <3>9. ASSUME NEW b \in Tries, NEW c \in Tries, b < c,
                 NEW i \in DOMAIN sent'[b], NEW j \in DOMAIN sent'[c]
          PROVE  sent'[b][i] < sent'[c][j]
      <4>1. b # a
        <5>1. CASE b = a
          <6>0. Tries \subseteq Nat
            BY NowFacts
          <6>2. c > a /\ c # a
            BY <5>1, <6>0, <3>9, <2>2
          <6>1. sent'[c] = << >>
            BY <6>2, <3>7, <2>5, <3>9
          <6> QED
            BY <6>1
        <5> QED
          BY <5>1
      <4>2. sent'[b] = sent[b]
        BY <4>1, <2>5
      <4>3. (j \in DOMAIN sent[c] /\ sent'[c][j] = sent[c][j]) \/ (c = a /\ sent'[c][j] = item)
        BY <3>2, <2>5
      <4> QED
        BY <4>2, <4>3, <3>5, <3>9 DEF SentInv
    <3>10. ASSUME NEW b \in Tries, b > core'.try
           PROVE  sent'[b] = << >>
      <4>1. b > a /\ b # a
        BY <2>2, <2>3, <3>10, NowFacts DEF a
      <4> QED
        BY <4>1, <3>7, <2>5
    <3>11. core'.at \notin {"open", "opening"} /\ spoken' = spoken
      BY <2>3, <1>1
    <3> QED
      BY <3>8, <3>9, <3>10, <3>11 DEF SentInv
  <2>20. RoomInv' /\ TurnTypes' /\ LinkTypes' /\ NetTypes' /\ ClientTypes' /\ CoreTypes'
    BY <1>1, <1>4, <2>3, <2>5, <2>14, <2>18
    DEF RoomInv, Turns, Shapes, TurnTypes, LinkTypes, NetTypes, ClientTypes, CoreTypes, link
  <2> QED
    BY <2>10, <2>14, <2>15, <2>17, <2>18, <2>19, <2>20 DEF Shapes
<1> QED
  BY <1>5, <1>6, <1>7

\* A frame, or the end, behind what is left of the queue.
LEMMA QueueAppend ==
  ASSUME IInv, NEW k \in Nat, NEW kept, Behind(Frames \cup {End}, queue, k, kept),
         Len(kept) < CoreQueue, NEW e \in Frames \cup {End}, queue' = Append(kept, e),
         listening, sent' = sent, core' = core,
         \/ e = End /\ ~listening' /\ spoken' = spoken
         \/ e = spoken + 1 /\ listening' = listening /\ spoken' = spoken + 1
  PROVE  /\ QueueInv' /\ SentInv' /\ queue' \in Seq(Frames \cup {End})
         /\ Len(queue') <= CoreQueue
<1> USE DEF IInv
<1>1. /\ kept \in Seq(Frames \cup {End}) /\ Len(kept) + k = Len(queue)
      /\ \A i \in 1 .. Len(kept) : kept[i] = queue[i + k]
  BY DEF Behind
<1>2. /\ queue' \in Seq(Frames \cup {End}) /\ Len(queue') = Len(kept) + 1
      /\ queue'[Len(kept) + 1] = e /\ \A i \in 1 .. Len(kept) : queue'[i] = kept[i]
  BY <1>1, AppendFacts
<1>3. queue \in Seq(Frames \cup {End}) /\ spoken \in Nat
  BY NowFacts
<1>4. /\ Len(kept) \in Nat /\ Len(queue) \in Nat /\ DOMAIN queue = 1 .. Len(queue)
      /\ DOMAIN queue' = 1 .. (Len(kept) + 1)
  BY <1>1, <1>2, <1>3
<1>a. spoken' = spoken \/ spoken' = spoken + 1
  OBVIOUS
<1>b. spoken' \in Nat /\ spoken <= spoken'
  BY <1>3, <1>a
<1>c. e = End => ~listening'
  <2>1. spoken + 1 # End
    BY <1>3 DEF End
  <2> QED
    BY <2>1
<1>d. e # End => e = spoken + 1 /\ spoken' = spoken + 1
  OBVIOUS
<1>e. e # End => e <= spoken'
  BY <1>d, <1>3
<1>5. Len(queue') <= CoreQueue
  BY <1>2, <1>4, Bounds
<1>6. ASSUME NEW i \in 1 .. Len(kept)
      PROVE  i + k \in DOMAIN queue /\ queue'[i] = queue[i + k] /\ queue[i + k] \in Frames
             /\ queue[i + k] <= spoken
  <2>1. i + k \in DOMAIN queue /\ queue'[i] = queue[i + k]
    BY <1>1, <1>2, <1>4
  <2>2. queue[i + k] # End
    BY <2>1 DEF QueueInv
  <2> QED
    BY <2>1, <2>2, <1>3 DEF QueueInv
<1>7. \A i \in DOMAIN queue' : i \in 1 .. Len(kept) \/ (i = Len(kept) + 1 /\ queue'[i] = e)
  BY <1>2, <1>4
<1>8. \A i \in DOMAIN queue' : i \in Nat
  BY <1>4
<1>9. \A f \in Frames : f \in Nat /\ f # End
  BY Bounds DEF Frames, End
<1>10. \A i \in DOMAIN queue' : IF queue'[i] = End THEN i = Len(queue') /\ ~listening'
                                                  ELSE queue'[i] <= spoken'
  <2> SUFFICES ASSUME NEW i \in DOMAIN queue'
               PROVE  IF queue'[i] = End THEN i = Len(queue') /\ ~listening'
                                         ELSE queue'[i] <= spoken'
    OBVIOUS
  <2>1. CASE i \in 1 .. Len(kept)
    <3>1. queue'[i] = queue[i + k] /\ queue[i + k] \in Frames /\ queue[i + k] <= spoken
      BY <1>6, <2>1
    <3>2. queue'[i] \in Nat /\ queue'[i] # End
      BY <3>1, <1>9
    <3> QED
      BY <3>1, <3>2, <1>3, <1>b
  <2>2. CASE i = Len(kept) + 1 /\ queue'[i] = e
    BY <2>2, <1>2, <1>c, <1>e
  <2> QED
    BY <1>7, <2>1, <2>2
<1>11. \A i, j \in DOMAIN queue' : i < j /\ queue'[j] # End => queue'[i] < queue'[j]
  <2> SUFFICES ASSUME NEW i \in DOMAIN queue', NEW j \in DOMAIN queue', i < j, queue'[j] # End
               PROVE  queue'[i] < queue'[j]
    OBVIOUS
  <2>1. i \in 1 .. Len(kept)
    BY <1>4
  <2>2. CASE j \in 1 .. Len(kept)
    <3>1. i + k < j + k
      BY <1>8
    <3> QED
      BY <2>1, <2>2, <3>1, <1>6 DEF QueueInv
  <2>3. CASE j = Len(kept) + 1 /\ queue'[j] = e
    <3>1. queue'[i] = queue[i + k] /\ queue[i + k] \in Frames /\ queue[i + k] <= spoken
      BY <1>6, <2>1
    <3>2. e = spoken + 1
      BY <2>3, <1>d
    <3>3. queue[i + k] \in Nat
      BY <3>1, <1>9
    <3> QED
      BY <3>1, <3>2, <3>3, <2>3, <1>3
  <2> QED
    BY <1>7, <2>2, <2>3
<1>12. QueueInv'
  BY <1>10, <1>11 DEF QueueInv
<1>13. \A a \in Tries : \A i \in DOMAIN sent[a] :
          /\ i <= sent[a][i] /\ sent[a][i] <= spoken'
          /\ \A j \in DOMAIN queue' : queue'[j] # End => sent[a][i] < queue'[j]
  <2> SUFFICES ASSUME NEW a \in Tries, NEW i \in DOMAIN sent[a]
               PROVE  /\ i <= sent[a][i] /\ sent[a][i] <= spoken'
                      /\ \A j \in DOMAIN queue' : queue'[j] # End => sent[a][i] < queue'[j]
    OBVIOUS
  <2>1. sent[a][i] \in Frames
    BY SentTypes
  <2>2. sent[a][i] \in Nat
    BY <2>1, <1>9
  <2>3. i <= sent[a][i] /\ sent[a][i] <= spoken
    BY DEF SentInv
  <2>4. sent[a][i] <= spoken'
    BY <2>2, <2>3, <1>3, <1>b
  <2>5. ASSUME NEW j \in DOMAIN queue', queue'[j] # End PROVE sent[a][i] < queue'[j]
    <3>1. CASE j \in 1 .. Len(kept)
      BY <3>1, <1>6, <1>9 DEF SentInv
    <3>2. CASE j = Len(kept) + 1 /\ queue'[j] = e
      <4>1. e = spoken + 1
        BY <3>2, <2>5, <1>d
      <4> QED
        BY <4>1, <3>2, <2>2, <2>3, <1>3
    <3> QED
      BY <1>7, <3>1, <3>2
  <2> QED
    BY <2>3, <2>4, <2>5
<1>14. SentInv'
  BY <1>13 DEF SentInv
<1> QED
  BY <1>2, <1>5, <1>12, <1>14

\* The client speaks: nothing else knows yet.
LEMMA ClientStepInv ==
  ASSUME IInv, QueueInv', SentInv', queue' \in Seq(Frames \cup {End}), Len(queue') <= CoreQueue,
         spoken' \in 0 .. MaxFrames, listening' \in BOOLEAN,
         UNCHANGED <<mode, core, sent, net, turn, handler, link, faults>>
  PROVE  IInv'
<1> USE DEF IInv
<1>1. CoreGoesOn
  BY NowFacts DEF CoreGoesOn, Closed
<1>2. SentGrows
  BY SentSame
<1>3. TurnInv' /\ WireInv'
  BY <1>1, <1>2, TurnsKept, WireKept DEF net
<1>4. HeardInv'
  <2>1. HasText' => HasText
    BY DEF HasText, net
  <2>2. core'.at \in {"open", "restart", "done"} => inbox' = << >>
    BY DEF HeardInv, net
  <2> QED
    BY <1>1, <1>2, <2>1, <2>2, HeardKept
<1>5. CoreInv' /\ RoomInv'
  BY DEF CoreInv, RoomInv, Turns
<1>6. CoreTypes' /\ NetTypes' /\ TurnTypes' /\ LinkTypes' /\ ClientTypes'
  BY DEF Shapes, CoreTypes, NetTypes, TurnTypes, LinkTypes, ClientTypes, net, link
<1> QED
  BY <1>3, <1>4, <1>5, <1>6 DEF Shapes

LEMMA SpeaksStep == ASSUME IInv, Speaks PROVE IInv'
<1> USE DEF IInv
<1> DEFINE kept == IF core.restarting THEN Keep(queue, RecoveryFrames - 1) ELSE queue
<1>1. /\ listening /\ spoken < MaxFrames /\ Len(kept) < CoreQueue /\ spoken' = spoken + 1
      /\ queue' = Append(kept, spoken + 1)
      /\ UNCHANGED <<mode, listening, core, sent, net, turn, handler, link, faults>>
  BY DEF Speaks
<1>2. queue \in Seq(Frames \cup {End}) /\ spoken \in Nat /\ spoken <= MaxFrames
  BY NowFacts
<1>3. \E k \in Nat : Behind(Frames \cup {End}, queue, k, kept)
  <2>1. RecoveryFrames - 1 \in Nat
    BY Bounds
  <2>2. \E k \in Nat : Behind(Frames \cup {End}, queue, k, Keep(queue, RecoveryFrames - 1))
    BY <1>2, <2>1, KeepFacts
  <2>3. Behind(Frames \cup {End}, queue, 0, queue) /\ 0 \in Nat
    BY <1>2, AllBehind
  <2> QED
    BY <2>2, <2>3
<1>4. PICK k \in Nat : Behind(Frames \cup {End}, queue, k, kept)
  BY <1>3
<1>5. spoken + 1 \in Frames \cup {End} /\ spoken + 1 \in 0 .. MaxFrames
  BY <1>1, <1>2, Bounds DEF Frames
<1> HIDE DEF kept
<1>6. QueueInv' /\ SentInv' /\ queue' \in Seq(Frames \cup {End}) /\ Len(queue') <= CoreQueue
  BY <1>1, <1>4, <1>5, QueueAppend
<1> QED
  BY <1>1, <1>5, <1>6, ClientStepInv DEF Shapes, ClientTypes

LEMMA StopsListeningStep == ASSUME IInv, StopsListening PROVE IInv'
<1> USE DEF IInv
<1>1. /\ listening /\ Len(queue) < CoreQueue /\ listening' = FALSE /\ queue' = Append(queue, End)
      /\ UNCHANGED <<mode, spoken, core, sent, net, turn, handler, link, faults>>
  BY DEF StopsListening
<1>2. Behind(Frames \cup {End}, queue, 0, queue) /\ 0 \in Nat /\ End \in Frames \cup {End}
  BY NowFacts, AllBehind
<1>3. QueueInv' /\ SentInv' /\ queue' \in Seq(Frames \cup {End}) /\ Len(queue') <= CoreQueue
  BY <1>1, <1>2, QueueAppend
<1> QED
  BY <1>1, <1>3, ClientStepInv DEF Shapes, ClientTypes

-----------------------------------------------------------------------------
(* The steps of the worker and of the network.                             *)

Done == {"gather", "close", "over"}
\* Only the turn of admission a moves.
Only(a) == turn' \in [Tries -> TurnRecords] /\ \A b \in Tries \ {a} : turn'[b] = turn[b]

LEMMA CoreSame ==
  ASSUME Shapes, CoreApart
  PROVE  /\ CoreGoesOn /\ SentGrows /\ \A a \in Tries : Closed(a)' <=> Closed(a)
         /\ core' = core /\ sent' = sent /\ mode' = mode
<1>1. core' = core /\ sent' = sent /\ mode' = mode
  BY DEF CoreApart, client
<1>2. \A a \in Tries : Closed(a)' <=> Closed(a)
  BY <1>1 DEF Closed
<1>3. CoreGoesOn
  BY <1>1, <1>2, NowFacts DEF CoreGoesOn
<1> QED
  BY <1>1, <1>2, <1>3, SentSame

LEMMA WorkerStepInv ==
  ASSUME IInv, CoreApart, TurnTypes', RoomInv', TurnInv', WireInv', NetTypes', LinkTypes',
         HeardInv'
  PROVE  IInv'
<1> USE DEF IInv
<1>1. UNCHANGED <<mode, spoken, listening, queue, core, sent>>
  BY DEF CoreApart, client
<1>2. ClientTypes' /\ CoreTypes' /\ QueueInv' /\ SentInv' /\ CoreInv'
  BY <1>1 DEF Shapes, ClientTypes, CoreTypes, QueueInv, SentInv, CoreInv
<1> QED
  BY <1>2 DEF Shapes

\* The messages behind the first k, when the admissions they ask for have no turn.
LEMMA WireRest ==
  ASSUME Shapes, WireInv, CoreApart, NEW k \in Nat, Behind(Messages, wire, k, wire'),
         \A i \in DOMAIN wire : i > k /\ wire[i].op = "open" => turn'[wire[i].try] = NoTurn
  PROVE  WireInv'
<1>1. /\ wire' \in Seq(Messages) /\ Len(wire') + k = Len(wire) /\ wire \in Seq(Messages)
      /\ \A i \in 1 .. Len(wire') : wire'[i] = wire[i + k]
  BY NowFacts DEF Behind
<1>2. DOMAIN wire = 1 .. Len(wire) /\ DOMAIN wire' = 1 .. Len(wire') /\ Len(wire') \in Nat
  BY <1>1
<1>3. ASSUME NEW i \in DOMAIN wire'
      PROVE  i \in Nat /\ i + k \in DOMAIN wire /\ i + k > k /\ wire'[i] = wire[i + k]
  BY <1>1, <1>2
<1>4. ASSUME NEW i \in DOMAIN wire' PROVE Right(wire[i])'
  <2>1. PICK m \in Messages : m = wire'[i] /\ m = wire[i + k]
    BY <1>1, <1>3
  <2>2. Right(m)
    <3>1. Right(wire[i + k])
      BY <1>3 DEF WireInv
    <3> QED
      BY <2>1, <3>1 DEF Right
  <2>3. m.op = "open" => turn'[m.try] = NoTurn
    BY <1>3, <2>1
  <2>4. m.try \in Tries
    BY DEF Messages
  <2>5. PICK a \in Tries : a = m.try
    BY <2>4
  <2>6. (Closed(a)' <=> Closed(a)) /\ core' = core /\ sent' = sent
    BY CoreSame
  <2>7. Closed(m.try) => Closed(m.try)'
    BY <2>5, <2>6 DEF Closed
  <2>8. Right(m)'
    BY <2>2, <2>3, <2>6, <2>7 DEF Right
  <2> QED
    BY <2>1, <2>8 DEF Right
<1>5. ASSUME NEW i \in DOMAIN wire', NEW j \in DOMAIN wire', i # j,
             wire'[i].op = "open", wire'[j].op = "open"
      PROVE  wire'[i].try # wire'[j].try
  <2>1. i + k # j + k
    BY <1>3, <1>5
  <2> QED
    BY <2>1, <1>3, <1>5 DEF WireInv
<1> QED
  BY <1>4, <1>5 DEF WireInv

\* Who waits for nothing hears nothing; who waits may hear what is published.
LEMMA PublishesFacts ==
  ASSUME Shapes, HeardInv, NEW a \in Tries, NEW events \in Seq(Events), Publishes(a, events)
  PROVE  /\ inbox' \in Seq(Events)
         /\ core.at \in {"open", "restart", "done"} => inbox' = << >>
         /\ \A i \in DOMAIN inbox' : inbox'[i] = "text" =>
               \/ \E j \in DOMAIN inbox : inbox[j] = "text"
               \/ core.try = a /\ \E j \in DOMAIN events : events[j] = "text"
<1>1. inbox \in Seq(Events) /\ DOMAIN inbox = 1 .. Len(inbox) /\ Len(inbox) \in Nat
  BY NowFacts
<1>2. CASE core.try = a /\ core.at \in {"opening", "run", "cancel"}
  <2>1. inbox' = inbox \o events
    BY <1>2 DEF Publishes
  <2>2. /\ inbox' \in Seq(Events) /\ Len(inbox') = Len(inbox) + Len(events)
        /\ \A i \in 1 .. Len(inbox') :
              inbox'[i] = IF i <= Len(inbox) THEN inbox[i] ELSE events[i - Len(inbox)]
    BY <1>1, <2>1
  <2>3. /\ DOMAIN inbox' = 1 .. (Len(inbox) + Len(events)) /\ DOMAIN events = 1 .. Len(events)
        /\ Len(events) \in Nat
    BY <2>2
  <2>4. ASSUME NEW i \in DOMAIN inbox'
        PROVE  \/ i \in DOMAIN inbox /\ inbox'[i] = inbox[i]
               \/ \E j \in DOMAIN events : inbox'[i] = events[j]
    <3>1. CASE i <= Len(inbox)
      BY <3>1, <1>1, <2>2, <2>3
    <3>2. CASE ~(i <= Len(inbox))
      <4>1. i - Len(inbox) \in DOMAIN events /\ inbox'[i] = events[i - Len(inbox)]
        BY <3>2, <1>1, <2>2, <2>3
      <4> QED
        BY <4>1
    <3> QED
      BY <3>1, <3>2
  <2> QED
    BY <1>2, <2>2, <2>4
<1>3. CASE ~(core.try = a /\ core.at \in {"opening", "run", "cancel"})
  <2>1. inbox' = inbox
    BY <1>3 DEF Publishes
  <2> QED
    BY <1>1, <2>1 DEF HeardInv
<1> QED
  BY <1>2, <1>3

\* No turn is live that was not.
LEMMA RoomKept ==
  ASSUME RoomInv, Shapes, Turns' \subseteq Turns PROVE RoomInv'
<1>1. IsFiniteSet(Tries)
  BY FS_Interval, Bounds DEF Tries
<1>2. IsFiniteSet(Turns)
  BY <1>1, FS_Subset DEF Turns
<1>3. IsFiniteSet(Turns') /\ Cardinality(Turns') <= Cardinality(Turns)
  BY <1>2, FS_Subset
<1>4. Cardinality(Turns) \in Nat /\ Cardinality(Turns') \in Nat
  BY <1>2, <1>3, FS_CardinalityType
<1> QED
  BY <1>3, <1>4, Bounds DEF RoomInv

\* One turn moves, and what it says to the core is the truth.
LEMMA TurnMoves ==
  ASSUME IInv, CoreApart, NEW a \in Tries, Only(a), turn[a] = NoTurn => turn'[a] = NoTurn,
         Len(turn'[a].queue) <= WorkerQueue,
         turn'[a].x \notin {None, "over"} => turn[a].x \notin {None, "over"},
         turn'[a].seq <= Len(sent[a]), turn'[a].x = "final" => turn'[a].text # None,
         mode = "manual" => TurnHas(a, turn'[a]),
         turn[a].x \in Done => turn'[a].x \in Done /\ turn'[a].fed = turn[a].fed,
         NEW k \in Nat, Behind(Messages, wire, k, wire'), reply' \in Replies,
         LinkTypes', inbox' \in Seq(Events),
         core.at \in {"open", "restart", "done"} => inbox' = << >>,
         \A i \in DOMAIN inbox' : inbox'[i] = "text" =>
            \/ \E j \in DOMAIN inbox : inbox[j] = "text"
            \/ core.try = a /\ (mode = "manual" =>
                  /\ turn'[a].x \in Done /\ Len(turn'[a].fed) = Len(sent[a]) /\ Closed(a))
  PROVE  IInv'
<1> USE DEF IInv
<1>1. /\ CoreGoesOn /\ SentGrows /\ \A b \in Tries : Closed(b)' <=> Closed(b)
      /\ core' = core /\ sent' = sent /\ mode' = mode
  BY CoreSame
<1>2. turn' \in [Tries -> TurnRecords] /\ \A b \in Tries \ {a} : turn'[b] = turn[b]
  BY DEF Only
<1>3. TurnTypes'
  BY <1>2 DEF TurnTypes, Shapes
<1>4. RoomInv'
  <2>1. Turns' \subseteq Turns
    BY <1>2 DEF Turns
  <2> QED
    BY <2>1, RoomKept
<1>5. WireInv'
  <2>1. \A i \in DOMAIN wire : i > k /\ wire[i].op = "open" => turn'[wire[i].try] = NoTurn
    <3> SUFFICES ASSUME NEW i \in DOMAIN wire, wire[i].op = "open"
                 PROVE  turn'[wire[i].try] = NoTurn
      OBVIOUS
    <3>1. wire[i].try \in Tries
      <4>1. wire[i] \in Messages
        BY NowFacts
      <4> QED
        BY <4>1 DEF Messages
    <3>2. turn[wire[i].try] = NoTurn
      BY DEF WireInv, Right
    <3> QED
      BY <3>1, <3>2, <1>2
  <2> QED
    BY <2>1, WireRest
<1>6. NetTypes'
  BY DEF NetTypes, Behind
<1>7. TurnInv'
  <2>1. \A b \in Tries : turn'[b].seq <= Len(sent[b])
    BY <1>2 DEF TurnInv
  <2>2. \A b \in Tries : b > core.try \/ (b = core.try /\ core.at = "open") => turn'[b] = NoTurn
    BY <1>2 DEF TurnInv
  <2>3. ASSUME NEW b \in Tries, mode = "manual" PROVE TurnHas(b, turn[b])'
    <3>1. TurnHas(b, turn'[b])
      BY <1>2, <2>3 DEF TurnInv
    <3> QED
      BY <3>1, <1>1 DEF TurnHas
  <2>4. \A b \in Tries : turn'[b].x = "final" => turn'[b].text # None
    BY <1>2 DEF TurnInv
  <2> QED
    BY <2>1, <2>2, <2>3, <2>4, <1>1 DEF TurnInv
<1>8. HeardInv'
  <2>1. ASSUME mode = "manual", HasText' PROVE Spoke(core.try)'
    <3>1. PICK t \in Tries : t = core.try
      BY NowFacts
    <3>2. /\ turn'[t].x \in Done /\ Len(turn'[t].fed) = Len(sent[t]) /\ Closed(t)
      <4>1. CASE HasText
        <5>1. Spoke(t)
          BY <2>1, <3>1, <4>1 DEF HeardInv, Spoke, Closed
        <5> QED
          BY <5>1, <1>2 DEF Spoke, Done
      <4>2. CASE ~HasText
        <5>1. \E i \in DOMAIN inbox' : inbox'[i] = "text"
          BY <2>1, <4>2, <1>1 DEF HasText
        <5>2. \A j \in DOMAIN inbox : inbox[j] # "text"
          BY <4>2 DEF HasText
        <5> QED
          BY <5>1, <5>2, <2>1, <3>1
      <4> QED
        BY <4>1, <4>2
    <3>3. Spoke(t)'
      BY <3>2, <1>1 DEF Spoke, Done
    <3> QED
      BY <3>1, <3>3, <1>1 DEF Spoke, Closed
  <2> QED
    BY <2>1, <1>1 DEF HeardInv
<1> QED
  BY <1>3, <1>4, <1>5, <1>6, <1>7, <1>8, WorkerStepInv

\* Only the flags of a turn change: what it has it still has.
Marked(a) ==
    /\ Only(a)
    /\ turn'[a].x = turn[a].x /\ turn'[a].queue = turn[a].queue /\ turn'[a].seq = turn[a].seq
    /\ turn'[a].fed = turn[a].fed /\ turn'[a].ending = turn[a].ending
    /\ turn'[a].text = turn[a].text
    /\ turn[a] = NoTurn => turn'[a] = NoTurn

LEMMA HasSame ==
  ASSUME NEW a \in Tries, NEW t, NEW u, TurnHas(a, t), u.x = t.x, u.queue = t.queue,
         u.seq = t.seq, u.fed = t.fed, u.ending = t.ending
  PROVE  TurnHas(a, u)
  BY DEF TurnHas

LEMMA MarkedStep ==
  ASSUME IInv, CoreApart, NEW a \in Tries, Marked(a),
         NEW k \in Nat, Behind(Messages, wire, k, wire'), reply' \in Replies,
         LinkTypes', inbox' \in Seq(Events),
         core.at \in {"open", "restart", "done"} => inbox' = << >>,
         \A i \in DOMAIN inbox' : inbox'[i] = "text" => \E j \in DOMAIN inbox : inbox[j] = "text"
  PROVE  IInv'
<1>1. /\ Only(a) /\ turn'[a].x = turn[a].x /\ turn'[a].queue = turn[a].queue
      /\ turn'[a].seq = turn[a].seq /\ turn'[a].fed = turn[a].fed
      /\ turn'[a].ending = turn[a].ending /\ (turn[a] = NoTurn => turn'[a] = NoTurn)
      /\ turn'[a].text = turn[a].text
  BY DEF Marked
<1>2. Len(turn'[a].queue) <= WorkerQueue
  BY <1>1, TurnTypesOf DEF IInv
<1>3. turn'[a].seq <= Len(sent[a]) /\ (turn'[a].x = "final" => turn'[a].text # None)
  BY <1>1 DEF IInv, TurnInv
<1>4. mode = "manual" => TurnHas(a, turn'[a])
  <2>1. mode = "manual" => TurnHas(a, turn[a])
    BY DEF IInv, TurnInv
  <2> QED
    BY <1>1, <2>1, HasSame
<1> QED
  BY <1>1, <1>2, <1>3, <1>4, TurnMoves

\* An event that is no transcript, or none.
LEMMA PlainEvents ==
  ASSUME Shapes, HeardInv, NEW a \in Tries, NEW event \in Events, event # "text",
         Publishes(a, <<event>>) \/ UNCHANGED inbox
  PROVE  /\ inbox' \in Seq(Events)
         /\ core.at \in {"open", "restart", "done"} => inbox' = << >>
         /\ \A i \in DOMAIN inbox' : inbox'[i] = "text" =>
               \E j \in DOMAIN inbox : inbox[j] = "text"
<1>1. CASE UNCHANGED inbox
  BY <1>1, NowFacts DEF HeardInv
<1>2. CASE Publishes(a, <<event>>)
  <2>1. <<event>> \in Seq(Events) /\ \A j \in DOMAIN <<event>> : <<event>>[j] # "text"
    OBVIOUS
  <2> QED
    BY <1>2, <2>1, PublishesFacts
<1> QED
  BY <1>1, <1>2

LEMMA LinkKept ==
  ASSUME Shapes, UNCHANGED link, Fault \/ UNCHANGED faults, handler' \in Tries \cup {End}
  PROVE  LinkTypes'
  BY FaultTypes DEF Shapes, LinkTypes, link

LEMMA HandlerTypes == ASSUME Shapes PROVE handler \in Tries \cup {End}
  BY DEF Shapes, LinkTypes

LEMMA EventsSame ==
  ASSUME Shapes, HeardInv, UNCHANGED inbox
  PROVE  /\ inbox' \in Seq(Events)
         /\ core.at \in {"open", "restart", "done"} => inbox' = << >>
         /\ \A i \in DOMAIN inbox' : inbox'[i] = "text" =>
               \E j \in DOMAIN inbox : inbox[j] = "text"
  BY NowFacts DEF HeardInv

LEMMA WireSame == ASSUME Shapes, UNCHANGED wire PROVE Behind(Messages, wire, 0, wire') /\ 0 \in Nat
  BY NowFacts, AllBehind

LEMMA HandlerReportsStep == ASSUME IInv, HandlerReports PROVE IInv'
<1> USE DEF IInv
<1>1. /\ handler # End /\ handler' = End
      /\ \/ Publishes(handler, <<"hard">>) /\ UNCHANGED faults
         \/ Fault /\ UNCHANGED inbox
      /\ turn' = [turn EXCEPT ![handler].hit = Strike(handler)]
      /\ CoreApart /\ UNCHANGED <<wire, reply, link>>
  BY DEF HandlerReports
<1>2. PICK a \in Tries : a = handler
  BY <1>1, HandlerTypes
<1>3. turn \in [Tries -> TurnRecords] /\ turn[a] \in TurnRecords
  BY TurnTypesOf DEF Shapes, TurnTypes
<1>4. Strike(a) \in BOOLEAN /\ (turn[a] = NoTurn => ~Strike(a))
  BY DEF Strike, NoTurn, None
<1>5. turn' = [turn EXCEPT ![a].hit = Strike(a)]
  BY <1>1, <1>2
<1>6. Marked(a)
  <2>1. turn'[a] = [turn[a] EXCEPT !.hit = Strike(a)] /\ \A b \in Tries \ {a} : turn'[b] = turn[b]
    BY <1>3, <1>5
  <2>2. turn'[a] \in TurnRecords
    BY <1>3, <1>4, <2>1 DEF TurnRecords
  <2>3. ASSUME turn[a] = NoTurn PROVE turn'[a] = NoTurn
    <3>1. ASSUME NEW r \in TurnRecords, r.hit = FALSE PROVE [r EXCEPT !.hit = FALSE] = r
      BY <3>1 DEF TurnRecords
    <3>2. Strike(a) = FALSE
      BY <1>4, <2>3
    <3>3. turn[a].hit = FALSE
      BY <2>3 DEF NoTurn
    <3>4. turn'[a] = [turn[a] EXCEPT !.hit = FALSE]
      BY <3>2, <2>1, Zenon
    <3>5. [turn[a] EXCEPT !.hit = FALSE] = turn[a]
      BY <3>1, <3>3, <1>3
    <3> QED
      BY <2>3, <3>4, <3>5
  <2>4. turn' \in [Tries -> TurnRecords]
    BY <1>3, <1>5, <2>2
  <2> QED
    BY <2>1, <2>3, <2>4, <1>3 DEF Marked, Only, TurnRecords
<1>7. /\ inbox' \in Seq(Events)
      /\ core.at \in {"open", "restart", "done"} => inbox' = << >>
      /\ \A i \in DOMAIN inbox' : inbox'[i] = "text" => \E j \in DOMAIN inbox : inbox[j] = "text"
  BY <1>1, <1>2, PlainEvents DEF Events
<1>8. LinkTypes'
  BY <1>1, LinkKept
<1>9. reply' \in Replies
  BY <1>1, NowFacts
<1> QED
  BY <1>1, <1>6, <1>7, <1>8, <1>9, WireSame, MarkedStep

LEMMA WatchFailsStep == ASSUME IInv, NEW a \in Tries, WatchFails(a) PROVE IInv'
<1> USE DEF IInv
<1>1. /\ turn[a].watch = "sleep"
      /\ turn' = IF turn[a].finishing THEN [turn EXCEPT ![a].watch = "off"]
                 ELSE IF workerUp THEN [turn EXCEPT ![a].watch = "send", ![a].finishing = TRUE]
                 ELSE [turn EXCEPT ![a].watch = "off", ![a].finishing = TRUE, ![a].hit = TRUE]
      /\ CoreApart /\ UNCHANGED <<wire, reply, inbox, handler, link, faults>>
  BY DEF WatchFails, net
<1>2. turn \in [Tries -> TurnRecords] /\ turn[a] \in TurnRecords
  BY TurnTypesOf DEF Shapes, TurnTypes
<1>3. turn[a] # NoTurn
  BY <1>1 DEF NoTurn
<1>4. Marked(a)
  BY <1>1, <1>2, <1>3 DEF Marked, Only, TurnRecords
<1>5. LinkTypes' /\ reply' \in Replies
  BY <1>1, LinkKept, HandlerTypes, NowFacts
<1> QED
  BY <1>1, <1>4, <1>5, EventsSame, WireSame, MarkedStep

LEMMA WatchReportsStep == ASSUME IInv, NEW a \in Tries, WatchReports(a) PROVE IInv'
<1> USE DEF IInv
<1>1. /\ turn[a].watch = "send"
      /\ turn' = [turn EXCEPT ![a].watch = "off", ![a].hit = TRUE]
      /\ \/ Publishes(a, <<"soft">>) /\ UNCHANGED faults
         \/ Fault /\ UNCHANGED inbox
      /\ CoreApart /\ UNCHANGED <<wire, reply, handler, link>>
  BY DEF WatchReports
<1>2. turn \in [Tries -> TurnRecords] /\ turn[a] \in TurnRecords
  BY TurnTypesOf DEF Shapes, TurnTypes
<1>3. turn[a] # NoTurn
  BY <1>1 DEF NoTurn
<1>4. Marked(a)
  BY <1>1, <1>2, <1>3 DEF Marked, Only, TurnRecords
<1>5. /\ inbox' \in Seq(Events)
      /\ core.at \in {"open", "restart", "done"} => inbox' = << >>
      /\ \A i \in DOMAIN inbox' : inbox'[i] = "text" => \E j \in DOMAIN inbox : inbox[j] = "text"
  BY <1>1, PlainEvents DEF Events
<1>6. LinkTypes' /\ reply' \in Replies
  BY <1>1, LinkKept, HandlerTypes, NowFacts
<1> QED
  BY <1>1, <1>4, <1>5, <1>6, WireSame, MarkedStep

LEMMA LapsesStep == ASSUME IInv, NEW a \in Tries, Lapses(a) PROVE IInv'
<1> USE DEF IInv
<1>1. /\ turn[a].watch = "sleep" /\ turn' = [turn EXCEPT ![a].lapsed = TRUE]
      /\ (Fault \/ UNCHANGED faults)
      /\ CoreApart /\ UNCHANGED <<wire, reply, inbox, handler, link>>
  BY DEF Lapses, net, Apart, CoreApart
<1>2. turn \in [Tries -> TurnRecords] /\ turn[a] \in TurnRecords
  BY TurnTypesOf DEF Shapes, TurnTypes
<1>3. turn[a] # NoTurn
  BY <1>1 DEF NoTurn
<1>4. Marked(a)
  BY <1>1, <1>2, <1>3 DEF Marked, Only, TurnRecords
<1>5. LinkTypes' /\ reply' \in Replies
  BY <1>1, LinkKept, HandlerTypes, NowFacts
<1> QED
  BY <1>1, <1>4, <1>5, EventsSame, WireSame, MarkedStep

\* One message is taken from the wire.
LEMMA WireTaken ==
  ASSUME Shapes, wire # << >>, wire' = Tail(wire)
  PROVE  /\ Behind(Messages, wire, 1, wire') /\ 1 \in Nat /\ 1 \in DOMAIN wire
         /\ Head(wire) = wire[1] /\ Head(wire) \in Messages
<1>1. wire \in Seq(Messages)
  BY NowFacts
<1>2. /\ Behind(Messages, wire, 1, Tail(wire)) /\ Head(wire) = wire[1] /\ Head(wire) \in Messages
      /\ Len(wire) \in Nat /\ Len(wire) > 0
  BY <1>1, TailFacts
<1> QED
  BY <1>1, <1>2

LEMMA AnswersTypes ==
  ASSUME Shapes, NEW a, NEW op, NEW what \in Replies, Answers(a, op, what)
  PROVE  reply' \in Replies
  BY NowFacts DEF Answers

\* Nothing happens to any turn.
LEMMA TurnsStay ==
  ASSUME IInv, CoreApart, turn' = turn, NEW k \in Nat, Behind(Messages, wire, k, wire'),
         reply' \in Replies, LinkTypes', inbox' \in Seq(Events),
         core.at \in {"open", "restart", "done"} => inbox' = << >>,
         \A i \in DOMAIN inbox' : inbox'[i] = "text" => \E j \in DOMAIN inbox : inbox[j] = "text"
  PROVE  IInv'
<1> USE DEF IInv
<1>1. 1 \in Tries
  BY Bounds DEF Tries
<1>2. turn \in [Tries -> TurnRecords]
  BY DEF Shapes, TurnTypes
<1>3. Marked(1)
  BY <1>1, <1>2 DEF Marked, Only
<1> QED
  BY <1>1, <1>3, MarkedStep

LEMMA ReceiveCancelStep == ASSUME IInv, ReceiveCancel PROVE IInv'
<1> USE DEF IInv
<1>1. /\ wire # << >> /\ wire' = Tail(wire)
      /\ CoreApart /\ UNCHANGED <<inbox, handler, link, faults>>
  BY DEF ReceiveCancel
<1>2. /\ Behind(Messages, wire, 1, wire') /\ 1 \in Nat /\ Head(wire) \in Messages
  BY <1>1, WireTaken
<1>3. PICK a \in Tries : a = Head(wire).try
  BY <1>2 DEF Messages
<1>4. \/ UNCHANGED <<turn, reply>>
      \/ /\ turn[a].x \notin {None, "over"} /\ Answers(a, "cancel", "cancel")
         /\ turn' = IF turn[a].finishing THEN turn
                    ELSE [turn EXCEPT ![a].finishing = TRUE, ![a].hit = TRUE]
  BY <1>3 DEF ReceiveCancel
<1>5. reply' \in Replies
  BY <1>4, NowFacts, AnswersTypes DEF Replies
<1>6. LinkTypes'
  BY <1>1, LinkKept, HandlerTypes
<1>7. CASE UNCHANGED turn
  BY <1>1, <1>2, <1>5, <1>6, <1>7, EventsSame, TurnsStay
<1>8. CASE /\ turn[a].x \notin {None, "over"}
           /\ turn' = [turn EXCEPT ![a].finishing = TRUE, ![a].hit = TRUE]
  <2>1. turn \in [Tries -> TurnRecords] /\ turn[a] \in TurnRecords
    BY TurnTypesOf DEF Shapes, TurnTypes
  <2>2. turn[a] # NoTurn
    BY <1>8 DEF NoTurn
  <2>3. Marked(a)
    BY <1>8, <2>1, <2>2 DEF Marked, Only, TurnRecords
  <2> QED
    BY <1>1, <1>2, <1>5, <1>6, <2>3, EventsSame, MarkedStep
<1> QED
  BY <1>4, <1>7, <1>8

LEMMA NetworkStep ==
  ASSUME IInv,
         RequestLost \/ ReplyLost \/ EventLost \/ WorkerDisconnects \/ WorkerReconnects
  PROVE  IInv'
<1> USE DEF IInv
<1>1. CoreApart /\ turn' = turn /\ handler' = handler /\ (Fault \/ UNCHANGED faults)
  BY DEF RequestLost, ReplyLost, EventLost, WorkerDisconnects, WorkerReconnects, Apart, CoreApart
<1>2. CASE RequestLost
  <2>1. wire # << >> /\ wire' = Tail(wire) /\ UNCHANGED <<reply, inbox, link>>
    BY <1>2 DEF RequestLost
  <2>2. Behind(Messages, wire, 1, wire') /\ 1 \in Nat
    BY <2>1, WireTaken
  <2>3. LinkTypes' /\ reply' \in Replies
    BY <1>1, <2>1, LinkKept, HandlerTypes, NowFacts
  <2> QED
    BY <1>1, <2>1, <2>2, <2>3, EventsSame, TurnsStay
<1>3. CASE ReplyLost
  <2>1. reply' = None /\ UNCHANGED <<wire, inbox, link>>
    BY <1>3 DEF ReplyLost
  <2>2. LinkTypes' /\ reply' \in Replies
    BY <1>1, <2>1, LinkKept, HandlerTypes DEF Replies
  <2> QED
    BY <1>1, <2>1, <2>2, EventsSame, WireSame, TurnsStay
<1>4. CASE EventLost
  <2>1. inbox # << >> /\ inbox' = Tail(inbox) /\ UNCHANGED <<wire, reply, link>>
    BY <1>4 DEF EventLost
  <2>2. LinkTypes' /\ reply' \in Replies
    BY <1>1, <2>1, LinkKept, HandlerTypes, NowFacts
  <2>3. inbox \in Seq(Events)
    BY NowFacts
  <2>4. /\ inbox' \in Seq(Events)
        /\ core.at \notin {"open", "restart", "done"}
        /\ \A i \in DOMAIN inbox' : inbox'[i] = "text" => \E j \in DOMAIN inbox : inbox[j] = "text"
    BY <2>1, <2>3, TailFacts, TailWithin DEF HeardInv, Behind
  <2> QED
    BY <1>1, <2>1, <2>2, <2>4, WireSame, TurnsStay
<1>5. CASE WorkerDisconnects \/ WorkerReconnects
  <2>1. UNCHANGED <<wire, reply, inbox, stopping>> /\ workerUp' \in BOOLEAN
    BY <1>5 DEF WorkerDisconnects, WorkerReconnects, net
  <2>2. LinkTypes' /\ reply' \in Replies
    BY <1>1, <2>1, FaultTypes, NowFacts DEF LinkTypes, Shapes
  <2> QED
    BY <1>1, <2>1, <2>2, EventsSame, WireSame, TurnsStay
<1> QED
  BY <1>2, <1>3, <1>4, <1>5

\* A step of execute() that tells the core nothing.
ExecuteQuiet(a) ==
    /\ Only(a) /\ CoreApart /\ UNCHANGED <<wire, reply, inbox, handler, link>>
    /\ Fault \/ UNCHANGED faults

LEMMA QuietStep ==
  ASSUME IInv, NEW a \in Tries, ExecuteQuiet(a), turn[a] # NoTurn,
         Len(turn'[a].queue) <= WorkerQueue,
         turn'[a].x \notin {None, "over"} => turn[a].x \notin {None, "over"},
         turn'[a].seq <= Len(sent[a]), turn'[a].x = "final" => turn'[a].text # None,
         mode = "manual" => TurnHas(a, turn'[a]),
         turn[a].x \in Done => turn'[a].x \in Done /\ turn'[a].fed = turn[a].fed
  PROVE  IInv'
<1>1. /\ Only(a) /\ CoreApart /\ UNCHANGED <<wire, reply, inbox, handler, link>>
      /\ Fault \/ UNCHANGED faults
  BY DEF ExecuteQuiet
<1>2. LinkTypes' /\ reply' \in Replies
  BY <1>1, LinkKept, HandlerTypes, NowFacts DEF IInv
<1>3. /\ inbox' \in Seq(Events)
      /\ core.at \in {"open", "restart", "done"} => inbox' = << >>
      /\ \A i \in DOMAIN inbox' : inbox'[i] = "text" => \E j \in DOMAIN inbox : inbox[j] = "text"
  BY <1>1, EventsSame DEF IInv
<1>4. Behind(Messages, wire, 0, wire') /\ 0 \in Nat
  BY <1>1, WireSame DEF IInv
<1> QED
  BY <1>1, <1>2, <1>3, <1>4, TurnMoves

\* What a turn of a manual session has, in pieces.
LEMMA HasFacts ==
  ASSUME IInv, NEW a \in Tries
  PROVE  /\ turn \in [Tries -> TurnRecords] /\ turn[a] \in TurnRecords
         /\ Len(turn[a].queue) <= WorkerQueue /\ turn[a].seq <= Len(sent[a])
         /\ turn[a].queue \in Seq(Frames \cup {End}) /\ turn[a].fed \in Seq(Frames)
         /\ Len(turn[a].queue) \in Nat /\ Len(turn[a].fed) \in Nat
         /\ Len(sent[a]) \in Nat /\ sent[a] \in Seq(Frames) /\ turn[a].seq \in Nat
         /\ mode = "manual" => TurnHas(a, turn[a])
         /\ turn[a].x # None => turn[a] # NoTurn
         /\ mode \in {"manual", "auto"}
<1> USE DEF IInv
<1>1. turn \in [Tries -> TurnRecords] /\ turn[a] \in TurnRecords /\ Len(turn[a].queue) <= WorkerQueue
  BY TurnTypesOf DEF Shapes, TurnTypes
<1>2. turn[a].queue \in Seq(Frames \cup {End}) /\ turn[a].fed \in Seq(Frames)
  BY <1>1 DEF TurnRecords
<1>3. Len(turn[a].queue) \in Nat /\ Len(turn[a].fed) \in Nat
  BY <1>2
<1>4. sent[a] \in Seq(Frames)
  BY SentTypes
<1>5. Len(sent[a]) \in Nat
  BY <1>4
<1>6. turn[a].seq \in Nat
  BY <1>1, Bounds DEF TurnRecords
<1>7. turn[a].seq <= Len(sent[a]) /\ (mode = "manual" => TurnHas(a, turn[a]))
  BY DEF TurnInv
<1>8. turn[a].x # None => turn[a] # NoTurn
  BY DEF NoTurn
<1>9. mode \in {"manual", "auto"}
  BY DEF Shapes, ClientTypes
<1> QED
  BY <1>1, <1>2, <1>3, <1>4, <1>5, <1>6, <1>7, <1>8, <1>9

\* A turn that goes on, or is given up, with what it has.
LEMMA GoesOn ==
  ASSUME NEW a \in Tries, NEW t, NEW u, TurnHas(a, t), u.fed = t.fed,
         \/ /\ t.x \in Live /\ u.x \in Live
            /\ u.queue = t.queue /\ u.seq = t.seq /\ u.ending = t.ending
         \/ t.x = "finish" /\ u.x = "final"
         \/ u.x \notin Live \cup {"finish", "final"}
  PROVE  TurnHas(a, u)
  BY DEF TurnHas, Live

LEMMA NoTurnType == NoTurn \in TurnRecords
<1>1. << >> \in Seq(Frames) /\ << >> \in Seq(Frames \cup {End}) /\ 0 \in 0 .. MaxFrames
  BY Bounds
<1> QED
  BY <1>1 DEF NoTurn, TurnRecords, TurnPlaces

OverTurn(fed, counted) == [NoTurn EXCEPT !.x = "over", !.fed = fed, !.counted = counted]

LEMMA OverFacts ==
  ASSUME NEW fed \in Seq(Frames), NEW counted \in BOOLEAN
  PROVE  LET u == OverTurn(fed, counted) IN
         u.x = "over" /\ u.fed = fed /\ u.queue = << >> /\ u.seq = 0 /\ u \in TurnRecords
<1> DEFINE u == OverTurn(fed, counted)
<1>1. NoTurn.queue = << >> /\ NoTurn.seq = 0
  BY DEF NoTurn
<1>2. u \in TurnRecords /\ u.x = "over" /\ u.fed = fed
  BY NoTurnType DEF TurnRecords, TurnPlaces, OverTurn
<1>3. u.queue = NoTurn.queue /\ u.seq = NoTurn.seq
  BY NoTurnType DEF TurnRecords, OverTurn
<1> QED
  BY <1>1, <1>2, <1>3

LEMMA StartsStep == ASSUME IInv, NEW a \in Tries, Starts(a) PROVE IInv'
<1>1. turn[a].x = "new" /\ turn[a] \in TurnRecords /\ turn \in [Tries -> TurnRecords] /\ turn[a] # NoTurn
  BY HasFacts DEF Starts, None
<1>2. /\ CoreApart /\ UNCHANGED <<wire, reply, inbox, handler, link>> /\ UNCHANGED faults
  BY DEF Starts, ExecuteApart
<1>3. CASE turn[a].hit
  <2>1. turn' = [turn EXCEPT ![a] = [NoTurn EXCEPT !.x = "over"]]
    BY <1>3 DEF Starts
  <2> DEFINE u == [NoTurn EXCEPT !.x = "over"]
  <2>2. u.fed = << >> /\ u.queue = << >> /\ u.seq = 0 /\ u.x = "over" /\ u \in TurnRecords
    <3>1. NoTurn.queue = << >> /\ NoTurn.seq = 0 /\ NoTurn.fed = << >>
      BY DEF NoTurn
    <3>2. u \in TurnRecords /\ u.x = "over" /\ u.fed = NoTurn.fed
      BY NoTurnType DEF TurnRecords, TurnPlaces
    <3>3. u.queue = NoTurn.queue /\ u.seq = NoTurn.seq
      BY NoTurnType DEF TurnRecords
    <3> QED
      BY <3>1, <3>2, <3>3
  <2> HIDE DEF u
  <2>3. turn'[a] = u /\ Only(a)
    BY <1>1, <2>1, <2>2 DEF Only, u
  <2>4. TurnHas(a, u)
    BY <2>2, HasFacts DEF TurnHas, Live
  <2>5. 0 <= Len(sent[a]) /\ Len(u.queue) <= WorkerQueue
    BY <2>2, HasFacts, Bounds
  <2> QED
    BY <1>1, <1>2, <2>2, <2>3, <2>4, <2>5, QuietStep DEF ExecuteQuiet, Done
<1>4. CASE ~turn[a].hit
  <2>1. turn' = [turn EXCEPT ![a].x = "start", ![a].counted = TRUE, ![a].watch = "sleep"]
    BY <1>4 DEF Starts
  <2>2. /\ Only(a) /\ turn'[a].x = "start" /\ turn'[a].queue = turn[a].queue
        /\ turn'[a].fed = turn[a].fed /\ turn'[a].seq = turn[a].seq
        /\ turn'[a].ending = turn[a].ending
    BY <1>1, <2>1 DEF Only, TurnRecords, TurnPlaces, Body
  <2>3. mode = "manual" => TurnHas(a, turn'[a])
    BY <1>1, <2>2, HasFacts, GoesOn DEF Live
  <2> QED
    BY <1>1, <1>2, <2>2, <2>3, HasFacts, QuietStep DEF ExecuteQuiet, Done, None
<1> QED
  BY <1>3, <1>4

LEMMA StartedStep == ASSUME IInv, NEW a \in Tries, Started(a) PROVE IInv'
<1>1. turn[a].x = "start" /\ turn[a] \in TurnRecords /\ turn \in [Tries -> TurnRecords] /\ turn[a] # NoTurn
  BY HasFacts DEF Started, None
<1>2. /\ CoreApart /\ UNCHANGED <<wire, reply, inbox, handler, link>> /\ UNCHANGED faults
      /\ turn' = [turn EXCEPT ![a].x = "wait"]
  BY DEF Started, ExecuteApart, Goes
<1>3. /\ Only(a) /\ turn'[a].x = "wait" /\ turn'[a].queue = turn[a].queue
      /\ turn'[a].fed = turn[a].fed /\ turn'[a].seq = turn[a].seq
      /\ turn'[a].ending = turn[a].ending
  BY <1>1, <1>2 DEF Only, TurnRecords, TurnPlaces, Body
<1>4. mode = "manual" => TurnHas(a, turn'[a])
  BY <1>1, <1>3, HasFacts, GoesOn DEF Live
<1> QED
  BY <1>1, <1>2, <1>3, <1>4, HasFacts, QuietStep DEF ExecuteQuiet, Done, None

LEMMA FedStep == ASSUME IInv, NEW a \in Tries, Fed(a) PROVE IInv'
<1>1. turn[a].x = "feed" /\ turn[a] \in TurnRecords /\ turn \in [Tries -> TurnRecords] /\ turn[a] # NoTurn
  BY HasFacts DEF Fed, None
<1>2. /\ CoreApart /\ UNCHANGED <<wire, reply, inbox, handler, link>> /\ UNCHANGED faults
  BY DEF Fed, ExecuteApart
<1>3. CASE turn' = [turn EXCEPT ![a].x = "wait"]
  <2>1. /\ Only(a) /\ turn'[a].x = "wait" /\ turn'[a].queue = turn[a].queue
        /\ turn'[a].fed = turn[a].fed /\ turn'[a].seq = turn[a].seq
        /\ turn'[a].ending = turn[a].ending
    BY <1>1, <1>3 DEF Only, TurnRecords, TurnPlaces, Body
  <2>2. mode = "manual" => TurnHas(a, turn'[a])
    BY <1>1, <2>1, HasFacts, GoesOn DEF Live
  <2> QED
    BY <1>1, <1>2, <2>1, <2>2, HasFacts, QuietStep DEF ExecuteQuiet, Done, None
<1>4. CASE mode = "auto" /\ turn' = [turn EXCEPT ![a].x = "finish", ![a].ending = TRUE]
  <2>1. /\ Only(a) /\ turn'[a].x = "finish" /\ turn'[a].queue = turn[a].queue
        /\ turn'[a].seq = turn[a].seq
    BY <1>1, <1>4 DEF Only, TurnRecords, TurnPlaces, Body
  <2> QED
    BY <1>1, <1>2, <1>4, <2>1, HasFacts, QuietStep DEF ExecuteQuiet, Done, None
<1> QED
  BY <1>3, <1>4 DEF Fed, Goes

LEMMA FinishesStep == ASSUME IInv, NEW a \in Tries, Finishes(a) PROVE IInv'
<1>1. turn[a].x = "finish" /\ turn[a] \in TurnRecords /\ turn \in [Tries -> TurnRecords] /\ turn[a] # NoTurn
  BY HasFacts DEF Finishes, None
<1>2. /\ CoreApart /\ UNCHANGED <<wire, reply, inbox, handler, link>> /\ UNCHANGED faults
  BY DEF Finishes, ExecuteApart
<1>3. PICK text \in {"text", "empty"} :
         turn' = [turn EXCEPT ![a].x = "final", ![a].finishing = TRUE, ![a].text = text]
  BY DEF Finishes
<1>4. /\ Only(a) /\ turn'[a].x = "final" /\ turn'[a].text # None /\ turn'[a].queue = turn[a].queue
      /\ turn'[a].fed = turn[a].fed /\ turn'[a].seq = turn[a].seq
  BY <1>1, <1>3 DEF Only, TurnRecords, TurnPlaces, Body, None
<1>5. mode = "manual" => TurnHas(a, turn'[a])
  BY <1>1, <1>4, HasFacts, GoesOn
<1> QED
  BY <1>1, <1>2, <1>4, <1>5, HasFacts, QuietStep DEF ExecuteQuiet, Done, None

LEMMA EndsStep ==
  ASSUME IInv, NEW a \in Tries, Closes(a) \/ CleanupCancelled(a) PROVE IInv'
<1>1. /\ turn[a].x \in {"gather", "close"} /\ turn[a] \in TurnRecords
      /\ turn \in [Tries -> TurnRecords] /\ turn[a] # NoTurn
  BY HasFacts DEF Closes, CleanupCancelled, None
<1>2. /\ CoreApart /\ UNCHANGED <<wire, reply, inbox, handler, link>> /\ UNCHANGED faults
  BY DEF Closes, CleanupCancelled, ExecuteApart
<1>3. CASE turn' = [turn EXCEPT ![a].x = "close"]
  <2>1. /\ Only(a) /\ turn'[a].x = "close" /\ turn'[a].queue = turn[a].queue
        /\ turn'[a].fed = turn[a].fed /\ turn'[a].seq = turn[a].seq
    BY <1>1, <1>3 DEF Only, TurnRecords, TurnPlaces, Body
  <2>2. mode = "manual" => TurnHas(a, turn'[a])
    BY <2>1, HasFacts, GoesOn DEF Live
  <2> QED
    BY <1>1, <1>2, <2>1, <2>2, HasFacts, QuietStep DEF ExecuteQuiet, Done, None
<1>4. CASE Over(a, FALSE) \/ Over(a, turn[a].counted)
  <2>1. PICK counted \in BOOLEAN : Over(a, counted)
    <3>1. turn[a].counted \in BOOLEAN
      BY <1>1 DEF TurnRecords
    <3> QED
      BY <3>1, <1>4
  <2> DEFINE u == OverTurn(turn[a].fed, counted)
  <2>2. /\ u.x = "over" /\ u.fed = turn[a].fed /\ u.queue = << >> /\ u.seq = 0
        /\ u \in TurnRecords
    <3>1. turn[a].fed \in Seq(Frames)
      BY HasFacts
    <3> QED
      BY <3>1, OverFacts
  <2>3. turn' = [turn EXCEPT ![a] = u]
    BY <2>1 DEF Over, OverTurn
  <2> HIDE DEF u
  <2>4. turn'[a] = u /\ Only(a)
    BY <1>1, <2>2, <2>3 DEF Only
  <2>5. mode = "manual" => TurnHas(a, u)
    BY <2>2, HasFacts, GoesOn DEF Live
  <2>6. 0 <= Len(sent[a]) /\ Len(u.queue) <= WorkerQueue
    BY <2>2, HasFacts, Bounds
  <2> QED
    BY <1>1, <1>2, <2>2, <2>4, <2>5, <2>6, QuietStep DEF ExecuteQuiet, Done
<1> QED
  BY <1>3, <1>4 DEF Closes, CleanupCancelled, Goes

LEMMA Shift ==
  ASSUME NEW f \in Nat, NEW q \in Nat, NEW f2 \in Nat, NEW q2 \in Nat, f2 = f + 1, q2 + 1 = q
  PROVE  /\ f2 + q2 = f + q /\ \A j \in Nat : f + (j + 1) = f2 + j
         /\ \A n \in Nat : f + q <= n => f + 1 <= n
         /\ \A n \in Nat : f + q = n + 1 /\ q # 1 => f + 1 <= n
  OBVIOUS

\* The frame that is taken is the next of those sent.
LEMMA TakesFrame ==
  ASSUME NEW a \in Tries, NEW t \in TurnRecords, NEW u \in TurnRecords, TurnHas(a, t),
         sent[a] \in Seq(Frames), t.seq <= Len(sent[a]), t.x = "wait", t.queue # << >>,
         Head(t.queue) # End, u.x = "feed", u.queue = Tail(t.queue), u.ending = t.ending,
         u.fed = Append(t.fed, Head(t.queue)), u.seq = t.seq
  PROVE  TurnHas(a, u)
<1>1. /\ t.queue \in Seq(Frames \cup {End}) /\ t.fed \in Seq(Frames) /\ Len(t.fed) \in Nat
      /\ Len(sent[a]) \in Nat /\ t.seq \in Nat /\ Len(t.queue) \in Nat
  <2>1. t.queue \in Seq(Frames \cup {End}) /\ t.fed \in Seq(Frames) /\ t.seq \in Nat
    BY Bounds DEF TurnRecords
  <2> QED
    BY <2>1
<1>2. /\ Behind(Frames \cup {End}, t.queue, 1, u.queue) /\ Head(t.queue) = t.queue[1]
      /\ Head(t.queue) \in Frames \cup {End} /\ Len(t.queue) > 0
  BY <1>1, TailFacts
<1>3. /\ u.queue \in Seq(Frames \cup {End}) /\ Len(u.queue) + 1 = Len(t.queue)
      /\ Len(u.queue) \in Nat
  BY <1>2 DEF Behind
<1>4. Head(t.queue) \in Frames
  BY <1>2
<1>5. /\ Len(u.fed) = Len(t.fed) + 1 /\ u.fed[Len(t.fed) + 1] = Head(t.queue)
      /\ \A i \in 1 .. Len(t.fed) : u.fed[i] = t.fed[i]
  BY <1>1, <1>4, AppendFacts
<1>6. u.fed \in Seq(Frames)
  BY DEF TurnRecords
<1>7. /\ DOMAIN t.fed = 1 .. Len(t.fed) /\ DOMAIN u.fed = 1 .. (Len(t.fed) + 1)
      /\ DOMAIN t.queue = 1 .. Len(t.queue) /\ DOMAIN u.queue = 1 .. Len(u.queue)
  BY <1>1, <1>3, <1>5, <1>6
<1>8. 1 \in DOMAIN t.queue /\ t.queue[1] # End
  BY <1>2, <1>7, <1>1
<1>9. \A j \in DOMAIN u.queue : j + 1 \in DOMAIN t.queue /\ u.queue[j] = t.queue[j + 1]
  BY <1>1, <1>2, TailWithin
<1>a. Len(u.fed) \in Nat /\ \A j \in DOMAIN u.queue : j \in Nat
  BY <1>3, <1>6, <1>7
<1>b. /\ Len(u.fed) + Len(u.queue) = Len(t.fed) + Len(t.queue)
      /\ \A j \in Nat : Len(t.fed) + (j + 1) = Len(u.fed) + j
      /\ \A n \in Nat : Len(t.fed) + Len(t.queue) <= n => Len(t.fed) + 1 <= n
      /\ \A n \in Nat : Len(t.fed) + Len(t.queue) = n + 1 /\ Len(t.queue) # 1 =>
            Len(t.fed) + 1 <= n
  <2>1. /\ Len(t.fed) \in Nat /\ Len(t.queue) \in Nat /\ Len(u.fed) \in Nat
        /\ Len(u.queue) \in Nat /\ Len(u.fed) = Len(t.fed) + 1 /\ Len(u.queue) + 1 = Len(t.queue)
    BY <1>1, <1>3, <1>5, <1>a
  <2>2. PICK f \in Nat : f = Len(t.fed)
    BY <2>1
  <2>3. PICK q \in Nat : q = Len(t.queue)
    BY <2>1
  <2>4. PICK f2 \in Nat : f2 = Len(u.fed)
    BY <2>1
  <2>5. PICK q2 \in Nat : q2 = Len(u.queue)
    BY <2>1
  <2>6. f2 = f + 1 /\ q2 + 1 = q
    BY <2>1, <2>2, <2>3, <2>4, <2>5
  <2>7. /\ f2 + q2 = f + q /\ \A j \in Nat : f + (j + 1) = f2 + j
        /\ \A n \in Nat : f + q <= n => f + 1 <= n
        /\ \A n \in Nat : f + q = n + 1 /\ q # 1 => f + 1 <= n
    BY <2>6, Shift
  <2> QED
    BY <2>2, <2>3, <2>4, <2>5, <2>7
<1>10. \A j \in DOMAIN u.queue : Len(t.fed) + (j + 1) = Len(u.fed) + j
  BY <1>a, <1>b
<1>11. /\ Len(t.fed) <= Len(sent[a]) /\ \A i \in DOMAIN t.fed : t.fed[i] = sent[a][i]
       /\ ~t.ending => /\ Len(t.fed) + Len(t.queue) = t.seq
                       /\ \A j \in DOMAIN t.queue :
                             t.queue[j] # End /\ t.queue[j] = sent[a][Len(t.fed) + j]
       /\ t.ending => /\ Len(t.fed) + Len(t.queue) = Len(sent[a]) + 1 /\ Closed(a)
                      /\ \A j \in DOMAIN t.queue :
                            IF j = Len(t.queue) THEN t.queue[j] = End
                            ELSE t.queue[j] # End /\ t.queue[j] = sent[a][Len(t.fed) + j]
  BY DEF TurnHas, Live
<1>12. t.queue[1] = sent[a][Len(t.fed) + 1] /\ Len(t.fed) + 1 <= Len(sent[a])
  <2>1. CASE ~t.ending
    <3>1. t.queue[1] = sent[a][Len(t.fed) + 1]
      BY <2>1, <1>8, <1>11
    <3>2. Len(t.fed) + Len(t.queue) <= Len(sent[a])
      BY <2>1, <1>11
    <3> QED
      BY <3>1, <3>2, <1>1, <1>b
  <2>2. CASE t.ending
    <3>1. 1 # Len(t.queue)
      BY <2>2, <1>8, <1>11
    <3>2. t.queue[1] = sent[a][Len(t.fed) + 1]
      BY <3>1, <2>2, <1>8, <1>11
    <3>3. Len(t.fed) + Len(t.queue) = Len(sent[a]) + 1
      BY <2>2, <1>11
    <3> QED
      BY <3>1, <3>2, <3>3, <1>1, <1>b
  <2> QED
    BY <2>1, <2>2
<1>13. /\ Len(u.fed) <= Len(sent[a]) /\ \A i \in DOMAIN u.fed : u.fed[i] = sent[a][i]
  BY <1>1, <1>2, <1>5, <1>7, <1>11, <1>12
<1>14. ASSUME ~t.ending
       PROVE  /\ Len(u.fed) + Len(u.queue) = u.seq
              /\ \A j \in DOMAIN u.queue :
                    u.queue[j] # End /\ u.queue[j] = sent[a][Len(u.fed) + j]
  <2>1. Len(u.fed) + Len(u.queue) = u.seq
    BY <1>14, <1>b, <1>11
  <2>2. ASSUME NEW j \in DOMAIN u.queue
        PROVE  u.queue[j] # End /\ u.queue[j] = sent[a][Len(u.fed) + j]
    <3>1. t.queue[j + 1] # End /\ t.queue[j + 1] = sent[a][Len(t.fed) + (j + 1)]
      BY <1>9, <1>11, <1>14
    <3> QED
      BY <3>1, <1>9, <1>10
  <2> QED
    BY <2>1, <2>2
<1>15. ASSUME t.ending
       PROVE  /\ Len(u.fed) + Len(u.queue) = Len(sent[a]) + 1 /\ Closed(a)
              /\ \A j \in DOMAIN u.queue :
                    IF j = Len(u.queue) THEN u.queue[j] = End
                    ELSE u.queue[j] # End /\ u.queue[j] = sent[a][Len(u.fed) + j]
  <2>1. Len(u.fed) + Len(u.queue) = Len(sent[a]) + 1 /\ Closed(a)
    BY <1>15, <1>b, <1>11
  <2>2. ASSUME NEW j \in DOMAIN u.queue
        PROVE  IF j = Len(u.queue) THEN u.queue[j] = End
               ELSE u.queue[j] # End /\ u.queue[j] = sent[a][Len(u.fed) + j]
    <3>1. IF j + 1 = Len(t.queue) THEN t.queue[j + 1] = End
          ELSE t.queue[j + 1] # End /\ t.queue[j + 1] = sent[a][Len(t.fed) + (j + 1)]
      BY <1>9, <1>11, <1>15
    <3>2. j + 1 = Len(t.queue) <=> j = Len(u.queue)
      BY <1>3, <1>7
    <3> QED
      BY <3>1, <3>2, <1>9, <1>10
  <2> QED
    BY <2>1, <2>2
<1> QED
  BY <1>13, <1>14, <1>15 DEF TurnHas

\* The end is behind everything that was sent.
LEMMA TakesEnd ==
  ASSUME NEW a \in Tries, NEW t \in TurnRecords, NEW u, TurnHas(a, t),
         sent[a] \in Seq(Frames), t.x = "wait", t.queue # << >>,
         Head(t.queue) = End, u.x = "finish", u.fed = t.fed
  PROVE  TurnHas(a, u)
<1>1. t.queue \in Seq(Frames \cup {End}) /\ t.fed \in Seq(Frames)
  BY DEF TurnRecords
<1>2. /\ Head(t.queue) = t.queue[1] /\ 1 \in DOMAIN t.queue /\ Len(t.fed) \in Nat
      /\ Len(t.queue) \in Nat /\ Len(sent[a]) \in Nat
  BY <1>1
<1>3. t.ending /\ 1 = Len(t.queue)
  BY <1>2 DEF TurnHas, Live
<1>4. Len(t.fed) + Len(t.queue) = Len(sent[a]) + 1 /\ Closed(a)
  BY <1>3 DEF TurnHas, Live
<1>5. Len(t.fed) = Len(sent[a])
  <2>1. \A f, n \in Nat : f + 1 = n + 1 => f = n
    OBVIOUS
  <2>2. Len(t.fed) + 1 = Len(sent[a]) + 1
    BY <1>3, <1>4
  <2> QED
    BY <2>1, <2>2, <1>2
<1> QED
  BY <1>4, <1>5 DEF TurnHas, Live

LEMMA TakesStep == ASSUME IInv, NEW a \in Tries, Takes(a) PROVE IInv'
<1> DEFINE item == Head(turn[a].queue)
<1>1. /\ turn[a].x = "wait" /\ turn[a].queue # << >> /\ turn[a] \in TurnRecords
      /\ turn \in [Tries -> TurnRecords] /\ turn[a] # NoTurn
  BY HasFacts DEF Takes, None
<1>2. /\ CoreApart /\ UNCHANGED <<wire, reply, inbox, handler, link>> /\ UNCHANGED faults
  BY DEF Takes, ExecuteApart
<1>3. /\ turn[a].queue \in Seq(Frames \cup {End}) /\ turn[a].fed \in Seq(Frames)
      /\ Len(turn[a].queue) \in Nat /\ Len(turn[a].queue) <= WorkerQueue
  BY HasFacts
<1>4. /\ Behind(Frames \cup {End}, turn[a].queue, 1, Tail(turn[a].queue))
      /\ item \in Frames \cup {End}
  BY <1>1, <1>3, TailFacts
<1>5. /\ Tail(turn[a].queue) \in Seq(Frames \cup {End}) /\ Len(Tail(turn[a].queue)) <= WorkerQueue
  BY <1>3, <1>4, Bounds DEF Behind
<1>6. CASE item = End
  <2>1. turn' = [turn EXCEPT ![a].x = "finish", ![a].queue = Tail(@), ![a].ending = TRUE]
    BY <1>6 DEF Takes
  <2>2. /\ Only(a) /\ turn'[a].x = "finish" /\ turn'[a].queue = Tail(turn[a].queue)
        /\ turn'[a].fed = turn[a].fed /\ turn'[a].seq = turn[a].seq
    BY <1>1, <1>5, <2>1 DEF Only, TurnRecords, TurnPlaces, Body
  <2>3. mode = "manual" => TurnHas(a, turn'[a])
    BY <1>1, <1>6, <2>2, HasFacts, TakesEnd
  <2> QED
    BY <1>1, <1>2, <1>5, <2>2, <2>3, HasFacts, QuietStep DEF ExecuteQuiet, Done, None
<1>7. CASE item # End
  <2>1. turn' = [turn EXCEPT ![a].x = "feed", ![a].queue = Tail(@), ![a].fed = Append(@, item)]
    BY <1>7 DEF Takes
  <2>2. Append(turn[a].fed, item) \in Seq(Frames)
    BY <1>3, <1>4, <1>7
  <2>3. /\ Only(a) /\ turn'[a].x = "feed" /\ turn'[a].queue = Tail(turn[a].queue)
        /\ turn'[a].fed = Append(turn[a].fed, item) /\ turn'[a].seq = turn[a].seq
        /\ turn'[a].ending = turn[a].ending /\ turn'[a] \in TurnRecords
    BY <1>1, <1>5, <2>1, <2>2 DEF Only, TurnRecords, TurnPlaces, Body
  <2>4. ASSUME mode = "manual" PROVE TurnHas(a, turn'[a])
    <3>1. TurnHas(a, turn[a]) /\ sent[a] \in Seq(Frames) /\ turn[a].seq <= Len(sent[a])
      BY <2>4, HasFacts
    <3> QED
      BY <3>1, <1>1, <1>7, <2>3, TakesFrame
  <2> QED
    BY <1>1, <1>2, <1>5, <2>3, <2>4, HasFacts, QuietStep DEF ExecuteQuiet, Done, None
<1> QED
  BY <1>6, <1>7
LEMMA ConcatFacts ==
  ASSUME NEW S, NEW s \in Seq(S), NEW e \in Seq(S), NEW c, c = s \o e
  PROVE  /\ c \in Seq(S) /\ Len(c) = Len(s) + Len(e)
         /\ \A j \in 1 .. Len(c) : c[j] = IF j <= Len(s) THEN s[j] ELSE e[j - Len(s)]
OBVIOUS

LEMMA SoftFirst ==
  ASSUME NEW events \in Seq(Events), NEW c, c = <<"soft">> \o events
  PROVE  /\ c \in Seq(Events)
         /\ \A j \in DOMAIN c : c[j] = "text" => \E l \in DOMAIN events : events[l] = "text"
<1>0. PICK s \in Seq(Events) : s = <<"soft">> /\ Len(s) = 1 /\ s[1] = "soft"
  <2>1. <<"soft">> \in Seq(Events) /\ Len(<<"soft">>) = 1 /\ <<"soft">>[1] = "soft"
    BY DEF Events
  <2> QED
    BY <2>1
<1>1. /\ s \in Seq(Events) /\ Len(s) = 1 /\ s[1] = "soft" /\ DOMAIN events = 1 .. Len(events)
      /\ Len(events) \in Nat /\ c = s \o events
  BY <1>0
<1>2. /\ c \in Seq(Events) /\ Len(c) = Len(s) + Len(events)
      /\ \A j \in 1 .. Len(c) : c[j] = IF j <= Len(s) THEN s[j] ELSE events[j - Len(s)]
  BY <1>1, ConcatFacts
<1>3. DOMAIN c = 1 .. (1 + Len(events))
  BY <1>1, <1>2
<1>4. ASSUME NEW j \in DOMAIN c, c[j] = "text"
      PROVE  j - 1 \in DOMAIN events /\ events[j - 1] = "text"
  <2>1. CASE j <= 1
    <3>1. j = 1 /\ c[j] = s[1]
      BY <2>1, <1>1, <1>2, <1>3
    <3> QED
      BY <3>1, <1>1, <1>4
  <2>2. CASE ~(j <= 1)
    BY <2>2, <1>1, <1>2, <1>3, <1>4
  <2> QED
    BY <2>1, <2>2
<1>5. \A j \in DOMAIN c : c[j] = "text" => \E l \in DOMAIN events : events[l] = "text"
  BY <1>4
<1> QED
  BY <1>2, <1>5

\* The finally block: what the turn has been fed is all it keeps, and a
\* transcript may be on its way only when that is everything.
LEMMA UnwindsStep ==
  ASSUME IInv, NEW a \in Tries, NEW events \in Seq(Events), Unwinds(a, events),
         turn[a].x \in Body \cup {"failing"}, ExecuteApart, Fault \/ UNCHANGED faults,
         turn[a].x # "final" => \A j \in DOMAIN events : events[j] # "text"
  PROVE  IInv'
<1> USE DEF IInv
<1>1. /\ CoreApart /\ UNCHANGED <<wire, reply, handler, link>>
  BY DEF ExecuteApart
<1>2. /\ turn[a] \in TurnRecords /\ turn \in [Tries -> TurnRecords] /\ turn[a] # NoTurn
      /\ turn[a].x \notin {None, "over"} /\ turn[a].x \notin Done
  BY HasFacts DEF Body, None, Done
<1>3. /\ Only(a) /\ turn'[a].x = "gather" /\ turn'[a].queue = << >>
      /\ turn'[a].fed = turn[a].fed /\ turn'[a].seq = turn[a].seq
  <2> DEFINE reports == turn[a].watch = "send"
  <2>1. turn' = [turn EXCEPT ![a].x = "gather", ![a].watch = "off", ![a].hit = reports,
                            ![a].queue = << >>, ![a].lapsed = FALSE, ![a].text = None]
    BY DEF Unwinds
  <2>2. reports \in BOOLEAN /\ << >> \in Seq(Frames \cup {End})
    OBVIOUS
  <2> HIDE DEF reports
  <2> QED
    BY <1>2, <2>1, <2>2 DEF Only, TurnRecords, TurnPlaces
<1>4. mode = "manual" => TurnHas(a, turn'[a])
  BY <1>3, HasFacts, GoesOn DEF Live
<1>5. /\ inbox' \in Seq(Events)
      /\ core.at \in {"open", "restart", "done"} => inbox' = << >>
      /\ \A i \in DOMAIN inbox' : inbox'[i] = "text" =>
            \/ \E j \in DOMAIN inbox : inbox[j] = "text"
            \/ core.try = a /\ \E j \in DOMAIN events : events[j] = "text"
  <2>1. CASE Publishes(a, events)
    BY <2>1, PublishesFacts
  <2>2. CASE Publishes(a, <<"soft">> \o events)
    <3>1. /\ <<"soft">> \o events \in Seq(Events)
          /\ \A j \in DOMAIN (<<"soft">> \o events) : (<<"soft">> \o events)[j] = "text" =>
                \E l \in DOMAIN events : events[l] = "text"
      BY SoftFirst, Zenon
    <3> QED
      BY <2>2, <3>1, PublishesFacts
  <2> QED
    BY <2>1, <2>2 DEF Unwinds
<1>6. ASSUME \E j \in DOMAIN events : events[j] = "text", mode = "manual"
      PROVE  Len(turn'[a].fed) = Len(sent[a]) /\ Closed(a)
  <2>1. turn[a].x = "final"
    BY <1>6
  <2>2. TurnHas(a, turn[a])
    BY <1>6, HasFacts
  <2> QED
    BY <2>1, <2>2, <1>3 DEF TurnHas
<1>7. \A i \in DOMAIN inbox' : inbox'[i] = "text" =>
            \/ \E j \in DOMAIN inbox : inbox[j] = "text"
            \/ core.try = a /\ (mode = "manual" =>
                  /\ turn'[a].x \in Done /\ Len(turn'[a].fed) = Len(sent[a]) /\ Closed(a))
  BY <1>3, <1>5, <1>6 DEF Done
<1>8. LinkTypes' /\ reply' \in Replies
  BY <1>1, LinkKept, HandlerTypes, NowFacts
<1>9. Behind(Messages, wire, 0, wire') /\ 0 \in Nat
  BY <1>1, WireSame
<1>10. Len(turn'[a].queue) <= WorkerQueue /\ turn'[a].seq <= Len(sent[a])
  BY <1>3, HasFacts, Bounds
<1> QED
  BY <1>1, <1>2, <1>3, <1>4, <1>5, <1>7, <1>8, <1>9, <1>10, TurnMoves

\* A turn fails: it will report that, or somebody else does.
LEMMA FailsStep ==
  ASSUME IInv, NEW a \in Tries, Fails(a), turn[a].x \in Body, ExecuteApart,
         Fault \/ UNCHANGED faults
  PROVE  IInv'
<1>1. CASE Unwinds(a, << >>)
  <2>1. << >> \in Seq(Events) /\ \A j \in DOMAIN << >> : << >>[j] # "text"
    OBVIOUS
  <2> QED
    BY <1>1, <2>1, UnwindsStep
<1>2. CASE turn' = [turn EXCEPT ![a].x = "failing", ![a].finishing = TRUE] /\ UNCHANGED inbox
  <2>1. /\ turn[a] \in TurnRecords /\ turn \in [Tries -> TurnRecords] /\ turn[a] # NoTurn
        /\ turn[a].x \notin {None, "over"} /\ turn[a].x \notin Done
    BY HasFacts DEF Body, None, Done
  <2>2. /\ Only(a) /\ turn'[a].x = "failing" /\ turn'[a].queue = turn[a].queue
        /\ turn'[a].fed = turn[a].fed /\ turn'[a].seq = turn[a].seq
    BY <1>2, <2>1 DEF Only, TurnRecords, TurnPlaces
  <2>3. mode = "manual" => TurnHas(a, turn'[a])
    BY <2>2, HasFacts, GoesOn DEF Live
  <2> QED
    BY <1>2, <2>1, <2>2, <2>3, HasFacts, QuietStep DEF ExecuteQuiet, ExecuteApart
<1> QED
  BY <1>1, <1>2 DEF Fails

LEMMA OneEvent == ASSUME NEW e \in Events PROVE <<e>> \in Seq(Events) /\ \A j \in DOMAIN <<e>> : <<e>>[j] = e
  OBVIOUS

LEMMA NoEvent == << >> \in Seq(Events) /\ \A j \in DOMAIN << >> : << >>[j] # "text"
  OBVIOUS

LEMMA TextTypes ==
  ASSUME IInv, NEW a \in Tries, turn[a].x = "final" PROVE turn[a].text \in Events
<1>1. turn[a].text # None
  BY DEF IInv, TurnInv
<1> QED
  BY <1>1, HasFacts DEF TurnRecords, Events

LEMMA FinalSentStep == ASSUME IInv, NEW a \in Tries, FinalSent(a) PROVE IInv'
<1>1. turn[a].x = "final" /\ turn[a].x \in Body \cup {"failing"} /\ ExecuteApart
  BY DEF FinalSent, Body
<1>2. CASE Unwinds(a, <<turn[a].text>>) /\ UNCHANGED faults
  <2>1. turn[a].text \in Events
    BY <1>1, TextTypes
  <2> QED
    BY <1>1, <1>2, <2>1, OneEvent, UnwindsStep
<1>3. CASE Unwinds(a, << >>) /\ (Fault \/ UNCHANGED faults)
  BY <1>1, <1>3, NoEvent, UnwindsStep
<1> QED
  BY <1>2, <1>3 DEF FinalSent

LEMMA ExecuteFailsStep ==
  ASSUME IInv, NEW a \in Tries, ExecuteFails(a) \/ TimesOut(a) PROVE IInv'
<1>1. /\ turn[a].x \in Body /\ Fails(a) /\ ExecuteApart /\ (Fault \/ UNCHANGED faults)
  BY DEF ExecuteFails, TimesOut
<1> QED
  BY <1>1, FailsStep

LEMMA ReportsStep == ASSUME IInv, NEW a \in Tries, Reports(a) PROVE IInv'
<1>1. turn[a].x = "failing" /\ turn[a].x \in Body \cup {"failing"} /\ ExecuteApart
  BY DEF Reports
<1>2. ASSUME NEW event \in {"soft", "hard"}, Unwinds(a, <<event>>), UNCHANGED faults PROVE IInv'
  <2>1. event \in Events /\ event # "text"
    BY DEF Events
  <2>2. <<event>> \in Seq(Events) /\ \A j \in DOMAIN <<event>> : <<event>>[j] # "text"
    BY <2>1, OneEvent
  <2> QED
    BY <1>1, <1>2, <2>2, UnwindsStep
<1>3. CASE Unwinds(a, << >>) /\ Fault
  BY <1>1, <1>3, NoEvent, UnwindsStep
<1> QED
  BY <1>2, <1>3 DEF Reports

LEMMA ExecuteCancelledStep == ASSUME IInv, NEW a \in Tries, ExecuteCancelled(a) PROVE IInv'
<1>1. turn[a].x \in Body \cup {"failing"} /\ ExecuteApart /\ UNCHANGED faults
  BY DEF ExecuteCancelled
<1>2. CASE Unwinds(a, << >>)
  BY <1>1, <1>2, NoEvent, UnwindsStep
<1>3. CASE turn[a].x = "final" /\ Unwinds(a, <<turn[a].text>>)
  <2>1. turn[a].text \in Events
    BY <1>3, TextTypes
  <2> QED
    BY <1>1, <1>3, <2>1, OneEvent, UnwindsStep
<1> QED
  BY <1>2, <1>3 DEF ExecuteCancelled

\* A new turn, for an admission that is asked for once.
LEMMA ReceiveOpenStep == ASSUME IInv, ReceiveOpen PROVE IInv'
<1> USE DEF IInv
<1>1. /\ wire # << >> /\ Head(wire).op = "open" /\ wire' = Tail(wire)
      /\ CoreApart /\ UNCHANGED <<inbox, handler, link>>
  BY DEF ReceiveOpen
<1>2. /\ Behind(Messages, wire, 1, wire') /\ 1 \in Nat /\ Head(wire) \in Messages
      /\ 1 \in DOMAIN wire /\ Head(wire) = wire[1]
  BY <1>1, WireTaken
<1>3. PICK a \in Tries : a = Head(wire).try
  BY <1>2 DEF Messages
<1>4. \/ UNCHANGED <<turn, reply, faults>>
      \/ Answers(a, "open", "busy") /\ UNCHANGED <<turn, faults>>
      \/ /\ Cardinality(Turns) < MaxTurns
         /\ \/ turn' = [turn EXCEPT ![a].x = "new"] /\ Answers(a, "open", "admitted")
               /\ UNCHANGED faults
            \/ turn' = [turn EXCEPT ![a].x = "new", ![a].hit = TRUE] /\ UNCHANGED reply /\ Fault
  BY <1>3 DEF ReceiveOpen
<1>5. reply' \in Replies /\ LinkTypes'
  <2>1. reply' \in Replies
    BY <1>4, NowFacts, AnswersTypes DEF Replies
  <2>2. Fault \/ UNCHANGED faults
    BY <1>4
  <2> QED
    BY <1>1, <2>1, <2>2, LinkKept, HandlerTypes
<1>6. CASE UNCHANGED turn
  BY <1>1, <1>2, <1>5, <1>6, EventsSame, TurnsStay
<1>7. CASE /\ Cardinality(Turns) < MaxTurns
           /\ \/ turn' = [turn EXCEPT ![a].x = "new"]
              \/ turn' = [turn EXCEPT ![a].x = "new", ![a].hit = TRUE]
  <2>1. /\ turn[a] = NoTurn /\ (a < core.try \/ (a = core.try /\ core.at # "open"))
    BY <1>1, <1>2, <1>3 DEF WireInv, Right
  <2>2. turn \in [Tries -> TurnRecords] /\ turn[a] \in TurnRecords
    BY HasFacts
  <2>3. /\ Only(a) /\ turn'[a].x = "new" /\ turn'[a].queue = turn[a].queue
        /\ turn'[a].fed = turn[a].fed /\ turn'[a].seq = turn[a].seq
        /\ turn'[a].ending = turn[a].ending
    <3>1. CASE turn' = [turn EXCEPT ![a].x = "new"]
      BY <3>1, <2>2 DEF Only, TurnRecords, TurnPlaces
    <3>2. CASE turn' = [turn EXCEPT ![a].x = "new", ![a].hit = TRUE]
      BY <3>2, <2>2 DEF Only, TurnRecords, TurnPlaces
    <3> QED
      BY <1>7, <3>1, <3>2
  <2>4. /\ turn'[a].queue = << >> /\ turn'[a].fed = << >> /\ turn'[a].seq = 0
        /\ ~turn'[a].ending
    BY <2>1, <2>3 DEF NoTurn
  <2>5. /\ CoreGoesOn /\ SentGrows /\ \A b \in Tries : Closed(b)' <=> Closed(b)
        /\ core' = core /\ sent' = sent /\ mode' = mode
    BY <1>1, CoreSame
  <2>6. turn' \in [Tries -> TurnRecords] /\ \A b \in Tries \ {a} : turn'[b] = turn[b]
    BY <2>3 DEF Only
  <2>7. TurnTypes'
    <3>1. Len(turn'[a].queue) <= WorkerQueue
      BY <2>4, Bounds
    <3>2. \A b \in Tries : Len(turn[b].queue) <= WorkerQueue
      BY DEF Shapes, TurnTypes
    <3> QED
      BY <2>6, <3>1, <3>2 DEF TurnTypes
  <2>8. RoomInv'
    <3>1. IsFiniteSet(Turns) /\ Cardinality(Turns) \in Nat
      <4>1. IsFiniteSet(Tries)
        BY FS_Interval, Bounds DEF Tries
      <4>2. IsFiniteSet(Turns)
        BY <4>1, FS_Subset DEF Turns
      <4> QED
        BY <4>2, FS_CardinalityType
    <3>2. a \notin Turns
      BY <2>1 DEF Turns, NoTurn
    <3>3. Turns' = Turns \cup {a}
      BY <2>3, <2>6, <3>2 DEF Turns, None
    <3>4. Cardinality(Turns \cup {a}) = Cardinality(Turns) + 1
      BY <3>1, <3>2, FS_AddElement
    <3>5. Cardinality(Turns) + 1 <= MaxTurns
      BY <1>7, <3>1, Bounds
    <3> QED
      BY <3>3, <3>4, <3>5 DEF RoomInv
  <2>9. WireInv'
    <3>1. ASSUME NEW i \in DOMAIN wire, i > 1, wire[i].op = "open"
          PROVE  turn'[wire[i].try] = NoTurn
      <4>1. wire[i] \in Messages
        BY NowFacts
      <4>2. wire[i].try \in Tries /\ turn[wire[i].try] = NoTurn
        BY <3>1, <4>1 DEF Messages, WireInv, Right
      <4>3. wire[i].try # a
        BY <3>1, <1>1, <1>2, <1>3 DEF WireInv
      <4> QED
        BY <4>2, <4>3, <2>6
    <3> QED
      BY <1>1, <1>2, <3>1, WireRest
  <2>10. NetTypes'
    BY <1>1, <1>2, <1>5, NowFacts DEF NetTypes, Behind
  <2>11. TurnInv'
    <3>1. \A b \in Tries : turn'[b].seq <= Len(sent[b])
      <4>1. 0 <= Len(sent[a])
        BY HasFacts
      <4> QED
        BY <4>1, <2>4, <2>6 DEF TurnInv
    <3>2. \A b \in Tries : turn'[b].x = "final" => turn'[b].text # None
      BY <2>3, <2>6 DEF TurnInv
    <3>3. \A b \in Tries : b > core.try \/ (b = core.try /\ core.at = "open") => turn'[b] = NoTurn
      <4>1. ~(a > core.try \/ (a = core.try /\ core.at = "open"))
        BY <2>1, NowFacts
      <4> QED
        BY <4>1, <2>6 DEF TurnInv
    <3>4. ASSUME NEW b \in Tries, mode = "manual" PROVE TurnHas(b, turn[b])'
      <4>1. TurnHas(b, turn'[b])
        <5>1. CASE b # a
          BY <5>1, <2>6, <3>4 DEF TurnInv
        <5>2. CASE b = a
          <6>1. 0 <= Len(sent[a])
            BY HasFacts
          <6> QED
            BY <5>2, <6>1, <2>3, <2>4 DEF TurnHas, Live
        <5> QED
          BY <5>1, <5>2
      <4> QED
        BY <4>1, <2>5 DEF TurnHas
    <3> QED
      BY <3>1, <3>2, <3>3, <3>4, <2>5 DEF TurnInv
  <2>12. HeardInv'
    <3>1. HasText' <=> HasText
      BY <1>1, <2>5 DEF HasText
    <3>2. ASSUME mode = "manual", HasText PROVE Spoke(core.try)'
      <4>1. Spoke(core.try)
        BY <3>2 DEF HeardInv
      <4>2. core.try # a
        BY <4>1, <2>1 DEF Spoke, NoTurn, None
      <4>3. PICK t \in Tries : t = core.try
        BY NowFacts
      <4>4. Spoke(t)'
        BY <4>1, <4>2, <4>3, <2>5, <2>6 DEF Spoke, Closed
      <4> QED
        BY <4>3, <4>4, <2>5 DEF Spoke, Closed
    <3> QED
      BY <1>1, <3>1, <3>2, <2>5 DEF HeardInv
  <2> QED
    BY <1>1, <1>5, <2>7, <2>8, <2>9, <2>10, <2>11, <2>12, WorkerStepInv
<1> QED
  BY <1>4, <1>6, <1>7

-----------------------------------------------------------------------------
(* input().                                                                *)

LEMMA OneMore ==
  ASSUME NEW f \in Nat, NEW q \in Nat, NEW n \in Nat, f + q = n
  PROVE  f + (q + 1) = n + 1
  OBVIOUS

\* A frame is queued behind those the turn has; it is the next of those sent.
LEMMA InputHas ==
  ASSUME NEW a \in Tries, NEW t \in TurnRecords, NEW u \in TurnRecords, TurnHas(a, t),
         sent[a] \in Seq(Frames), NEW item \in Frames \cup {End},
         u.x = t.x, u.fed = t.fed,
         \/ /\ ~t.ending /\ ~u.ending /\ u.queue = Append(t.queue, item) /\ u.seq = t.seq + 1
            /\ t.seq < Len(sent[a]) /\ item = sent[a][t.seq + 1]
         \/ /\ ~t.ending /\ u.ending /\ u.queue = Append(t.queue, item) /\ item = End
            /\ t.seq = Len(sent[a]) /\ Closed(a)
         \/ t.ending /\ u.ending /\ u.queue = t.queue
  PROVE  TurnHas(a, u)
<1>1. /\ t.queue \in Seq(Frames \cup {End}) /\ Len(t.fed) \in Nat
      /\ Len(sent[a]) \in Nat /\ t.seq \in Nat /\ Len(t.queue) \in Nat
  <2>1. t.queue \in Seq(Frames \cup {End}) /\ t.fed \in Seq(Frames) /\ t.seq \in Nat
    BY Bounds DEF TurnRecords
  <2> QED
    BY <2>1
<1>2. CASE t.ending \/ t.x \notin Live
  BY <1>2 DEF TurnHas, Live
<1>3. CASE ~t.ending /\ t.x \in Live
  <2>1. /\ Len(t.fed) + Len(t.queue) = t.seq
        /\ \A j \in DOMAIN t.queue : t.queue[j] # End /\ t.queue[j] = sent[a][Len(t.fed) + j]
    BY <1>3 DEF TurnHas
  <2>2. u.queue = Append(t.queue, item)
    BY <1>3
  <2>3. /\ u.queue \in Seq(Frames \cup {End}) /\ Len(u.queue) = Len(t.queue) + 1
        /\ u.queue[Len(t.queue) + 1] = item
        /\ \A i \in 1 .. Len(t.queue) : u.queue[i] = t.queue[i]
    BY <1>1, <2>2, AppendFacts
  <2>4. /\ DOMAIN t.queue = 1 .. Len(t.queue) /\ DOMAIN u.queue = 1 .. (Len(t.queue) + 1)
    BY <1>1, <2>3
  <2>5. \A j \in DOMAIN u.queue : j # Len(t.queue) + 1 =>
           u.queue[j] # End /\ u.queue[j] = sent[a][Len(t.fed) + j]
    <3> SUFFICES ASSUME NEW j \in DOMAIN u.queue, j # Len(t.queue) + 1
                 PROVE  u.queue[j] # End /\ u.queue[j] = sent[a][Len(t.fed) + j]
      OBVIOUS
    <3>1. j \in 1 .. Len(t.queue)
      BY <1>1, <2>4
    <3> QED
      BY <3>1, <2>1, <2>3, <2>4
  <2>6. Len(t.fed) + (Len(t.queue) + 1) = t.seq + 1
    <3>1. PICK f \in Nat : f = Len(t.fed)
      BY <1>1
    <3>2. PICK q \in Nat : q = Len(t.queue)
      BY <1>1
    <3>3. f + q = t.seq
      BY <2>1, <3>1, <3>2
    <3>4. f + (q + 1) = t.seq + 1
      BY <1>1, <3>3, OneMore
    <3> QED
      BY <3>1, <3>2, <3>4
  <2>7. CASE ~u.ending
    <3>1. u.seq = t.seq + 1 /\ t.seq < Len(sent[a]) /\ item = sent[a][t.seq + 1]
      BY <1>3, <2>7
    <3>2. item # End
      <4>1. t.seq + 1 \in 1 .. Len(sent[a])
        BY <1>1, <3>1
      <4>2. sent[a][t.seq + 1] \in Frames
        BY <4>1
      <4> QED
        BY <3>1, <4>2, Bounds DEF Frames, End
    <3>3. \A j \in DOMAIN u.queue : u.queue[j] # End /\ u.queue[j] = sent[a][Len(u.fed) + j]
      BY <3>1, <3>2, <2>3, <2>5, <2>6
    <3>4. Len(u.fed) + Len(u.queue) = u.seq
      BY <3>1, <2>3, <2>6
    <3> QED
      BY <1>3, <2>7, <3>3, <3>4 DEF TurnHas, Live
  <2>8. CASE u.ending
    <3>1. item = End /\ t.seq = Len(sent[a]) /\ Closed(a)
      BY <1>3, <2>8
    <3>2. \A j \in DOMAIN u.queue :
             IF j = Len(u.queue) THEN u.queue[j] = End
             ELSE u.queue[j] # End /\ u.queue[j] = sent[a][Len(u.fed) + j]
      BY <3>1, <2>3, <2>5
    <3>3. Len(u.fed) + Len(u.queue) = Len(sent[a]) + 1
      BY <3>1, <2>3, <2>6
    <3> QED
      BY <1>3, <2>8, <3>1, <3>2, <3>3 DEF TurnHas, Live
  <2> QED
    BY <2>7, <2>8
<1> QED
  BY <1>2, <1>3

LEMMA HandlerFailsStep ==
  ASSUME IInv, NEW a \in Tries, HandlerFails(a), UNCHANGED <<reply, faults, inbox, link>>, CoreApart,
         NEW k \in Nat, Behind(Messages, wire, k, wire'), turn[a].x \notin {None, "over"}
  PROVE  IInv'
<1> USE DEF IInv
<1>1. handler' \in Tries \cup {End}
  BY HandlerTypes DEF HandlerFails
<1>2. LinkTypes' /\ reply' \in Replies
  BY <1>1, LinkKept, NowFacts
<1>3. CASE UNCHANGED turn
  BY <1>2, <1>3, EventsSame, TurnsStay
<1>4. CASE turn' = [turn EXCEPT ![a].finishing = TRUE, ![a].hit = ~workerUp, ![a].lapsed = FALSE]
  <2>1. turn \in [Tries -> TurnRecords] /\ turn[a] \in TurnRecords
    BY TurnTypesOf DEF Shapes, TurnTypes
  <2>2. turn[a] # NoTurn
    BY DEF NoTurn
  <2> DEFINE up == ~workerUp
  <2>3. up \in BOOLEAN /\ turn' = [turn EXCEPT ![a].finishing = TRUE, ![a].hit = up, ![a].lapsed = FALSE]
    BY <1>4
  <2> HIDE DEF up
  <2>4. Marked(a)
    BY <2>1, <2>2, <2>3 DEF Marked, Only, TurnRecords
  <2> QED
    BY <1>2, <2>4, EventsSame, MarkedStep
<1> QED
  BY <1>3, <1>4 DEF HandlerFails

LEMMA ReceiveInputStep == ASSUME IInv, ReceiveInput PROVE IInv'
<1> USE DEF IInv
<1>1. /\ wire # << >> /\ wire' = Tail(wire) /\ Head(wire).op \in {"frame", "end"}
      /\ CoreApart /\ UNCHANGED <<inbox, link>>
  BY DEF ReceiveInput
<1>2. /\ Behind(Messages, wire, 1, wire') /\ 1 \in Nat /\ Head(wire) \in Messages
      /\ 1 \in DOMAIN wire /\ Head(wire) = wire[1]
  BY <1>1, WireTaken
<1>3. PICK m \in Messages : m = Head(wire)
  BY <1>2
<1>4. PICK a \in Tries : a = m.try
  BY <1>3 DEF Messages
<1>5. Right(m)
  BY <1>2, <1>3 DEF WireInv
<1> DEFINE frame == IF m.op = "frame" THEN 1 ELSE 0
<1>6. \/ UNCHANGED <<turn, reply, handler, faults>>
      \/ turn[a].x \notin {None, "over"} /\ HandlerFails(a) /\ UNCHANGED <<reply, faults>>
      \/ /\ turn[a].x \notin {None, "over"}
         /\ m.seq = turn[a].seq /\ (turn[a].ending \/ ~(Len(turn[a].queue) >= WorkerQueue))
         /\ UNCHANGED handler
         /\ LET took == [turn EXCEPT ![a].lapsed = FALSE,
                            ![a].queue = IF turn[a].ending THEN @ ELSE Append(@, m.item),
                            ![a].seq = @ + frame, ![a].ending = @ \/ frame = 0] IN
            \/ turn' = took /\ Answers(a, m.op, "input") /\ UNCHANGED faults
            \/ turn' = [took EXCEPT ![a].hit = TRUE] /\ UNCHANGED reply /\ Fault
  BY <1>3, <1>4 DEF ReceiveInput
<1>7. CASE UNCHANGED <<turn, reply, handler, faults>>
  <2>1. LinkTypes' /\ reply' \in Replies
    BY <1>1, <1>7, LinkKept, HandlerTypes, NowFacts
  <2> QED
    BY <1>1, <1>2, <1>7, <2>1, EventsSame, TurnsStay
<1>8. CASE turn[a].x \notin {None, "over"} /\ HandlerFails(a) /\ UNCHANGED <<reply, faults>>
  BY <1>1, <1>2, <1>8, HandlerFailsStep
<1>9. CASE /\ turn[a].x \notin {None, "over"}
           /\ m.seq = turn[a].seq /\ (turn[a].ending \/ ~(Len(turn[a].queue) >= WorkerQueue))
           /\ UNCHANGED handler
           /\ LET took == [turn EXCEPT ![a].lapsed = FALSE,
                             ![a].queue = IF turn[a].ending THEN @ ELSE Append(@, m.item),
                             ![a].seq = @ + frame, ![a].ending = @ \/ frame = 0] IN
              \/ turn' = took /\ Answers(a, m.op, "input") /\ UNCHANGED faults
              \/ turn' = [took EXCEPT ![a].hit = TRUE] /\ UNCHANGED reply /\ Fault
  <2> DEFINE q == IF turn[a].ending THEN turn[a].queue ELSE Append(turn[a].queue, m.item)
             n == turn[a].seq + frame
             ended == turn[a].ending \/ frame = 0
  <2>1. /\ turn \in [Tries -> TurnRecords] /\ turn[a] \in TurnRecords /\ turn[a] # NoTurn
        /\ turn[a].queue \in Seq(Frames \cup {End}) /\ Len(turn[a].queue) <= WorkerQueue
        /\ Len(turn[a].queue) \in Nat /\ turn[a].seq \in Nat
        /\ sent[a] \in Seq(Frames) /\ Len(sent[a]) \in Nat
    BY <1>9, HasFacts DEF NoTurn
  <2>2. m.item \in Frames \cup {End} /\ m.op \in {"frame", "end"}
    BY <1>1, <1>3 DEF Messages
  <2>3. q \in Seq(Frames \cup {End}) /\ Len(q) <= WorkerQueue
    <3>1. CASE turn[a].ending
      BY <3>1, <2>1
    <3>2. CASE ~turn[a].ending
      <4>1. Append(turn[a].queue, m.item) \in Seq(Frames \cup {End})
            /\ Len(Append(turn[a].queue, m.item)) = Len(turn[a].queue) + 1
        BY <2>1, <2>2, AppendFacts
      <4> QED
        BY <3>2, <4>1, <2>1, <1>9, Bounds
    <3> QED
      BY <3>1, <3>2
  <2>4. /\ m.op = "frame" => turn[a].seq < Len(sent[a]) /\ m.item = sent[a][turn[a].seq + 1]
        /\ m.op = "end" => turn[a].seq = Len(sent[a]) /\ m.item = End /\ Closed(a)
    BY <1>4, <1>5, <1>9 DEF Right
  <2>5. n \in 0 .. MaxFrames /\ n <= Len(sent[a])
    <3>1. CASE m.op = "frame"
      <4>1. n = turn[a].seq + 1 /\ n <= Len(sent[a])
        BY <3>1, <2>1, <2>4
      <4>2. Len(sent[a]) <= MaxFrames
        BY SentBounded
      <4> QED
        BY <4>1, <4>2, <2>1, Bounds
    <3>2. CASE m.op = "end"
      <4>1. n = turn[a].seq /\ turn[a].seq \in 0 .. MaxFrames
        BY <3>2, <2>1 DEF TurnRecords
      <4> QED
        BY <3>2, <4>1, <2>4
    <3> QED
      BY <2>2, <3>1, <3>2
  <2>6. /\ ended \in BOOLEAN
        /\ ~turn[a].ending => (ended <=> m.op = "end")
        /\ turn[a].ending => ended
    BY <2>1, <2>2 DEF TurnRecords
  <2>7. \/ turn' = [turn EXCEPT ![a].lapsed = FALSE, ![a].queue = q, ![a].seq = n,
                                ![a].ending = ended]
        \/ turn' = [turn EXCEPT ![a].lapsed = FALSE, ![a].queue = q, ![a].seq = n,
                                ![a].ending = ended, ![a].hit = TRUE]
    BY <1>9, <2>1 DEF TurnRecords
  <2>8. /\ ~turn[a].ending => q = Append(turn[a].queue, m.item)
        /\ turn[a].ending => q = turn[a].queue
        /\ m.op = "frame" => n = turn[a].seq + 1
    OBVIOUS
  <2> HIDE DEF q, n, ended
  <2>9. /\ Only(a) /\ turn'[a].x = turn[a].x /\ turn'[a].fed = turn[a].fed
        /\ turn'[a].queue = q /\ turn'[a].seq = n /\ turn'[a].ending = ended
        /\ turn'[a].text = turn[a].text /\ turn'[a] \in TurnRecords
    <3>1. CASE turn' = [turn EXCEPT ![a].lapsed = FALSE, ![a].queue = q, ![a].seq = n,
                                ![a].ending = ended]
      BY <3>1, <2>1, <2>3, <2>5, <2>6 DEF Only, TurnRecords
    <3>2. CASE turn' = [turn EXCEPT ![a].lapsed = FALSE, ![a].queue = q, ![a].seq = n,
                                ![a].ending = ended, ![a].hit = TRUE]
      BY <3>2, <2>1, <2>3, <2>5, <2>6 DEF Only, TurnRecords
    <3> QED
      BY <2>7, <3>1, <3>2
  <2>10. ASSUME mode = "manual" PROVE TurnHas(a, turn'[a])
    <3>1. TurnHas(a, turn[a])
      BY <2>10, HasFacts
    <3>2. CASE turn[a].ending
      BY <3>1, <3>2, <2>1, <2>2, <2>6, <2>8, <2>9, InputHas
    <3>3. CASE ~turn[a].ending /\ m.op = "frame"
      BY <3>1, <3>3, <2>1, <2>2, <2>4, <2>6, <2>8, <2>9, InputHas
    <3>4. CASE ~turn[a].ending /\ m.op = "end"
      BY <3>1, <3>4, <2>1, <2>2, <2>4, <2>6, <2>8, <2>9, InputHas
    <3> QED
      BY <3>2, <3>3, <3>4, <2>2
  <2>11. LinkTypes' /\ reply' \in Replies
    <3>1. reply' \in Replies
      BY <1>9, NowFacts, AnswersTypes DEF Replies
    <3>2. Fault \/ UNCHANGED faults
      BY <1>9
    <3> QED
      BY <1>1, <1>9, <3>1, <3>2, LinkKept, HandlerTypes
  <2>12. turn'[a].x = "final" => turn'[a].text # None
    BY <2>9 DEF TurnInv
  <2> QED
    BY <1>1, <1>2, <1>9, <2>1, <2>3, <2>5, <2>9, <2>10, <2>11, <2>12, EventsSame, TurnMoves
<1> QED
  BY <1>6, <1>7, <1>8, <1>9

-----------------------------------------------------------------------------
(* stop(), and everything together.                                        *)

LEMMA WorkerStopsStep == ASSUME IInv, WorkerStops PROVE IInv'
<1> USE DEF IInv
<1>1. /\ stopping' = TRUE /\ Fault /\ CoreApart /\ UNCHANGED <<wire, reply, inbox, handler, workerUp>>
      /\ turn' = [a \in Tries |-> IF a \in Turns /\ ~turn[a].finishing
                  THEN [turn[a] EXCEPT !.finishing = TRUE, !.hit = TRUE] ELSE turn[a]]
  BY DEF WorkerStops, Apart, CoreApart, net
<1>2. ASSUME NEW a \in Tries
      PROVE  /\ turn'[a] \in TurnRecords
             /\ turn'[a].x = turn[a].x /\ turn'[a].queue = turn[a].queue
             /\ turn'[a].seq = turn[a].seq /\ turn'[a].fed = turn[a].fed
             /\ turn'[a].ending = turn[a].ending /\ turn'[a].text = turn[a].text
             /\ turn[a] = NoTurn => turn'[a] = NoTurn
  <2>1. turn[a] \in TurnRecords
    BY HasFacts
  <2>2. turn'[a] = IF a \in Turns /\ ~turn[a].finishing
                   THEN [turn[a] EXCEPT !.finishing = TRUE, !.hit = TRUE] ELSE turn[a]
    BY <1>1
  <2>3. turn[a] = NoTurn => a \notin Turns
    BY DEF NoTurn, Turns, None
  <2> QED
    BY <2>1, <2>2, <2>3 DEF TurnRecords
<1>3. turn' \in [Tries -> TurnRecords]
  BY <1>1, <1>2
<1>4. TurnTypes'
  <2>1. \A a \in Tries : Len(turn'[a].queue) <= WorkerQueue
    BY <1>2, HasFacts
  <2> QED
    BY <1>3, <2>1 DEF TurnTypes
<1>5. RoomInv'
  <2>1. Turns' \subseteq Turns
    BY <1>2 DEF Turns
  <2> QED
    BY <2>1, RoomKept
<1>6. /\ core' = core /\ sent' = sent /\ mode' = mode
      /\ \A a \in Tries : Closed(a)' <=> Closed(a)
  BY <1>1, CoreSame
<1>7. TurnInv'
  <2>1. \A a \in Tries : turn'[a].seq <= Len(sent[a])
    BY <1>2 DEF TurnInv
  <2>2. \A a \in Tries : turn'[a].x = "final" => turn'[a].text # None
    BY <1>2 DEF TurnInv
  <2>3. \A a \in Tries : a > core.try \/ (a = core.try /\ core.at = "open") => turn'[a] = NoTurn
    BY <1>2 DEF TurnInv
  <2>4. ASSUME NEW a \in Tries, mode = "manual" PROVE TurnHas(a, turn[a])'
    <3>1. TurnHas(a, turn[a])
      BY <2>4 DEF TurnInv
    <3>2. TurnHas(a, turn'[a])
      BY <3>1, <1>2, HasSame
    <3> QED
      BY <3>2, <1>6 DEF TurnHas
  <2> QED
    BY <2>1, <2>2, <2>3, <2>4, <1>6 DEF TurnInv
<1>8. WireInv'
  <2>1. Behind(Messages, wire, 0, wire') /\ 0 \in Nat
    BY <1>1, WireSame
  <2>2. \A i \in DOMAIN wire : wire[i].op = "open" => turn'[wire[i].try] = NoTurn
    <3> SUFFICES ASSUME NEW i \in DOMAIN wire, wire[i].op = "open"
                 PROVE  turn'[wire[i].try] = NoTurn
      OBVIOUS
    <3>1. wire[i] \in Messages
      BY NowFacts
    <3>2. wire[i].try \in Tries /\ turn[wire[i].try] = NoTurn
      BY <3>1 DEF Messages, WireInv, Right
    <3> QED
      BY <3>2, <1>2
  <2> QED
    BY <1>1, <2>1, <2>2, WireRest
<1>9. HeardInv'
  <2>1. HasText' <=> HasText
    BY <1>1, <1>6 DEF HasText
  <2>2. ASSUME mode = "manual", HasText PROVE Spoke(core.try)'
    <3>1. PICK t \in Tries : t = core.try
      BY NowFacts
    <3>2. Spoke(t)
      BY <2>2, <3>1 DEF HeardInv
    <3>3. Spoke(t)'
      BY <3>2, <1>2, <1>6 DEF Spoke
    <3> QED
      BY <3>1, <3>3, <1>6 DEF Spoke, Closed
  <2> QED
    BY <1>1, <1>6, <2>1, <2>2 DEF HeardInv
<1>10. NetTypes'
  BY <1>1 DEF Shapes, NetTypes
<1>11. LinkTypes'
  BY <1>1, FaultTypes DEF Shapes, LinkTypes
<1> QED
  BY <1>1, <1>4, <1>5, <1>7, <1>8, <1>9, <1>10, <1>11, WorkerStepInv

LEMMA InitInv == Init => IInv
<1> SUFFICES ASSUME Init PROVE IInv
  OBVIOUS
<1>1. /\ mode \in {"manual", "auto"} /\ spoken = 0 /\ listening = TRUE /\ queue = << >>
      /\ core = [at |-> "open", try |-> 1, admitted |-> FALSE, final |-> None,
               sender |-> "off", item |-> End, seq |-> 0, code |-> None, restarting |-> FALSE]
      /\ sent = [a \in Tries |-> << >>] /\ wire = << >> /\ reply = None /\ inbox = << >>
      /\ turn = [a \in Tries |-> NoTurn] /\ handler = End
      /\ workerUp = TRUE /\ stopping = FALSE /\ faults = 0
  BY DEF Init
<1>2. ClientTypes /\ NetTypes /\ LinkTypes
  <2>1. /\ << >> \in Seq(Frames \cup {End}) /\ << >> \in Seq(Messages) /\ << >> \in Seq(Events)
        /\ Len(<< >>) = 0 /\ 0 \in 0 .. MaxFrames /\ 0 \in 0 .. MaxFaults
    BY Bounds
  <2>2. ClientTypes
    BY <1>1, <2>1, Bounds DEF ClientTypes
  <2>3. NetTypes
    BY <1>1, <2>1 DEF NetTypes, Replies
  <2>4. LinkTypes
    BY <1>1, <2>1 DEF LinkTypes
  <2> QED
    BY <2>2, <2>3, <2>4
<1>3. core \in CoreRecords
  BY <1>1, Bounds DEF CoreRecords, Tries, End
<1>4. CoreTypes
  BY <1>1, <1>3 DEF CoreTypes
<1>5. TurnTypes
  <2>1. NoTurn.queue = << >> /\ Len(<< >>) = 0
    BY DEF NoTurn
  <2> QED
    BY <1>1, <2>1, NoTurnType, Bounds DEF TurnTypes
<1>6. /\ NoTurn.x = None /\ NoTurn.queue = << >> /\ NoTurn.fed = << >> /\ NoTurn.seq = 0
      /\ NoTurn.ending = FALSE
  BY DEF NoTurn
<1>7. RoomInv
  <2>1. Turns = {}
    BY <1>1, <1>6 DEF Turns
  <2> QED
    BY <2>1, FS_EmptySet, Bounds DEF RoomInv
<1>8. QueueInv /\ SentInv
  BY <1>1 DEF QueueInv, SentInv
<1>9. CoreInv
  BY <1>1 DEF CoreInv, None
<1>10. WireInv
  BY <1>1 DEF WireInv
<1>11. TurnInv
  <2>1. ASSUME NEW a \in Tries PROVE turn[a] = NoTurn /\ sent[a] = << >>
    BY <1>1
  <2>2. \A a \in Tries : TurnHas(a, NoTurn)
    BY <1>6, <2>1 DEF TurnHas, Live, None
  <2> QED
    BY <2>1, <2>2, <1>6 DEF TurnInv, None
<1>12. HeardInv
  BY <1>1 DEF HeardInv, HasText, None
<1> QED
  BY <1>2, <1>4, <1>5, <1>7, <1>8, <1>9, <1>10, <1>11, <1>12 DEF IInv, Shapes

LEMMA ExecuteStepInv == ASSUME IInv, NEW a \in Tries, ExecuteStep(a) PROVE IInv'
<1>1. CASE Starts(a) \/ Started(a) \/ Takes(a) \/ Fed(a) \/ Finishes(a)
  BY <1>1, StartsStep, StartedStep, TakesStep, FedStep, FinishesStep
<1>2. CASE FinalSent(a) \/ ExecuteFails(a) \/ TimesOut(a) \/ Reports(a) \/ ExecuteCancelled(a)
  BY <1>2, FinalSentStep, ExecuteFailsStep, ReportsStep, ExecuteCancelledStep
<1>3. CASE Closes(a) \/ CleanupCancelled(a)
  BY <1>3, EndsStep
<1> QED
  BY <1>1, <1>2, <1>3 DEF ExecuteStep

LEMMA StepInv == IInv /\ [Next]_vars => IInv'
<1> SUFFICES ASSUME IInv, [Next]_vars PROVE IInv'
  OBVIOUS
<1>1. CASE Speaks \/ StopsListening \/ Cancelled
  BY <1>1, SpeaksStep, StopsListeningStep, CancelledStep
<1>2. CASE CoreStep
  BY <1>2, OpensStep, OpenReturnsStep, SenderTakesStep, SenderAckedStep, ReceivesStep, RunEndsStep,
     CancelReturnsStep, RestartsStep DEF CoreStep
<1>3. CASE ServiceStep
  BY <1>3, ReceiveOpenStep, ReceiveInputStep, ReceiveCancelStep, HandlerReportsStep DEF ServiceStep
<1>4. CASE \E a \in Tries : WatchStep(a) \/ ExecuteStep(a) \/ Lapses(a)
  BY <1>4, WatchFailsStep, WatchReportsStep, ExecuteStepInv, LapsesStep DEF WatchStep
<1>5. CASE RequestLost \/ ReplyLost \/ EventLost \/ WorkerDisconnects \/ WorkerReconnects
  BY <1>5, NetworkStep
<1>6. CASE WorkerStops
  BY <1>6, WorkerStopsStep
<1>7. CASE UNCHANGED vars
  <2>1. /\ UNCHANGED <<mode, spoken, listening, queue, core, sent>>
        /\ UNCHANGED <<wire, reply, inbox, turn, handler, link, faults>>
    BY <1>7 DEF vars, link
  <2>2. CoreApart
    BY <2>1 DEF CoreApart, client
  <2>3. LinkTypes' /\ reply' \in Replies
    BY <2>1, LinkKept, HandlerTypes, NowFacts DEF IInv
  <2> QED
    BY <2>1, <2>2, <2>3, EventsSame, WireSame, TurnsStay DEF IInv
<1> QED
  BY <1>1, <1>2, <1>3, <1>4, <1>5, <1>6, <1>7 DEF Next

LEMMA Invariance == Spec => []IInv
  BY InitInv, StepInv, PTL DEF Spec

\* The core's and the worker's queues keep their bounds, and nothing is stored
\* that the code has no name for.
THEOREM TypeCorrect == Spec => []TypeOK
<1>1. IInv => TypeOK
  <2> SUFFICES ASSUME IInv PROVE TypeOK
    OBVIOUS
  <2>1. /\ mode \in {"manual", "auto"} /\ spoken \in 0 .. MaxFrames /\ listening \in BOOLEAN
        /\ queue \in Seq(Frames \cup {End}) /\ Len(queue) <= CoreQueue
        /\ \A a \in Tries : sent[a] \in Seq(Frames)
        /\ wire \in Seq(Messages) /\ reply \in Replies /\ inbox \in Seq(Events)
        /\ core \in CoreRecords
        /\ handler \in Tries \cup {End} /\ faults \in 0 .. MaxFaults
    BY DEF IInv, Shapes, ClientTypes, CoreTypes, NetTypes, LinkTypes
  <2>2. ASSUME NEW a \in Tries
        PROVE  /\ turn[a].x \in Body \cup {None, "new", "failing", "gather", "close", "over"}
               /\ turn[a].watch \in {"off", "sleep", "send"} /\ turn[a].text \in {None, "text", "empty"}
               /\ turn[a].queue \in Seq(Frames \cup {End}) /\ Len(turn[a].queue) <= WorkerQueue
               /\ turn[a].seq \in 0 .. MaxFrames /\ turn[a].fed \in Seq(Frames)
    <3>1. turn[a] \in TurnRecords /\ Len(turn[a].queue) <= WorkerQueue
      BY HasFacts
    <3> QED
      BY <3>1 DEF TurnRecords, TurnPlaces
  <2>3. Cardinality({a \in Tries : turn[a].x \notin {None, "over"}}) <= MaxTurns
    BY DEF IInv, RoomInv, Turns
  <2> QED
    BY <2>1, <2>2, <2>3 DEF TypeOK, CoreRecords, Messages, Replies, Events
<1> QED
  BY <1>1, Invariance, PTL

LEMMA SameItems ==
  ASSUME NEW S, NEW s \in Seq(S), NEW t \in Seq(S), Len(s) = Len(t),
         \A i \in DOMAIN s : s[i] = t[i]
  PROVE  s = t
  OBVIOUS

\* What is sent for one admission is older than what the next is sent; and a
\* turn whose transcript the core returns had been fed all it was sent.
THEOREM AudioIsHeardOnce == Spec => []AudioOnce
<1>1. IInv => WholeUtterance
  <2> SUFFICES ASSUME IInv, core.at = "done", core.code = "text", mode = "manual"
               PROVE  turn[core.try].fed = sent[core.try]
    BY DEF WholeUtterance
  <2>1. PICK a \in Tries : a = core.try
    BY NowFacts DEF IInv
  <2>2. Len(turn[a].fed) = Len(sent[a])
    BY <2>1 DEF IInv, HeardInv, HasText, Spoke
  <2>3. \A i \in DOMAIN turn[a].fed : turn[a].fed[i] = sent[a][i]
    BY HasFacts DEF TurnHas
  <2>4. turn[a].fed \in Seq(Frames) /\ sent[a] \in Seq(Frames)
    BY HasFacts
  <2> QED
    BY <2>1, <2>2, <2>3, <2>4, SameItems
<1>2. IInv => NotReplayed
  <2> SUFFICES ASSUME IInv, NEW a \in Tries, NEW b \in Tries, a # b, NEW f \in Range(sent[a]),
                      f \in Range(sent[b])
               PROVE  FALSE
    BY DEF NotReplayed
  <2>1. PICK i \in DOMAIN sent[a] : f = sent[a][i]
    BY DEF Range
  <2>2. PICK j \in DOMAIN sent[b] : f = sent[b][j]
    BY DEF Range
  <2>3. sent[a][i] \in Frames
    <3>1. sent[a] \in Seq(Frames)
      BY HasFacts
    <3> QED
      BY <3>1
  <2>4. a < b \/ b < a
    BY DEF Tries
  <2>5. f < f
    <3>1. \A c, d \in Tries : c < d =>
             \A k \in DOMAIN sent[c], l \in DOMAIN sent[d] : sent[c][k] < sent[d][l]
      BY DEF IInv, SentInv
    <3>2. CASE a < b
      BY <3>1, <3>2, <2>1, <2>2
    <3>3. CASE b < a
      <4>1. sent[b][j] < sent[a][i]
        BY <3>1, <3>3
      <4> QED
        BY <4>1, <2>1, <2>2
    <3> QED
      BY <3>2, <3>3, <2>4
  <2> QED
    BY <2>1, <2>3, <2>5 DEF Frames
<1> QED
  BY <1>1, <1>2, Invariance, PTL DEF AudioOnce
=============================================================================
