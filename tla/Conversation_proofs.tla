-------------------------- MODULE Conversation_proofs --------------------------
(***************************************************************************)
(* Proofs about the two sides of a conversation, VoiceSession and the      *)
(* stream of text it consumes, LLMStream. They share no state.             *)
(*                                                                         *)
(* LLMStream, for any requests and every bound on jobs, chunks, calls and  *)
(* lost connections: its types, that no tool runs twice and no cancelled   *)
(* request at all (NothingTwice), and that the stream implements           *)
(* TextStream. Requests share only the connections and the worker's count  *)
(* of jobs, so that the invariant is one of a request: Sound, of the       *)
(* client c, its inbox q, the chunks h it heard, the job j, the request    *)
(* message s, the wire w and the reply p.                                  *)
(*                                                                         *)
(* VoiceSession: its types, and that the turns of a session are owned      *)
(* (TurnOwned), for any number of messages and cancellations. The runs of  *)
(* a session do not disturb its invariant: all they do to it is to end.    *)
(* What has to be shown is that whoever creates a run finds that nobody    *)
(* depends on the task it replaces, although the handler and the watchdog  *)
(* abort turns beside each other (TaskInv).                                *)
(***************************************************************************)
EXTENDS LLMStream, VoiceSession, TLAPS

Clients == [at : {"idle", "wait", "consume", "tools", "acking", "done"},
            seq : 0 .. MaxSeq + 1, failed : BOOLEAN, cur : Events,
            ran : 0 .. MaxCalls, result : {"none", "ok", "failed"}]
JobStates == [at : {"none", "new", "event", "think", "calls", "closing", "ended"},
              seq : 0 .. MaxSeq, sent : Events, made : 0 .. MaxChunks,
              calls : 0 .. MaxCalls, left : 0 .. MaxCalls,
              asked : 0 .. MaxCalls, exit : BOOLEAN]

\* The events on their way to the client, their number, and the one behind.
Flying(q, w) == {q[i] : i \in DOMAIN q} \cup {w[i] : i \in DOMAIN w}
Count(q, w) == Len(q) + Len(w)
Later(q, w) == IF w = << >> THEN q[Len(q)] ELSE w[Len(w)]

\* The job waits for the acknowledgment of more than an error.
Waiting(j) == j.at = "event" /\ j.sent.kind # "error"

Types(c, q, h, j, s, w, p) ==
    /\ c \in Clients /\ j \in JobStates /\ s \in {"unsent", "sent", "gone"}
    /\ q \in Seq(Events) /\ w \in Seq(Events) /\ p \in Events
    /\ h \in Seq(1 .. MaxChunks)

\* The sequence number counts what has been acknowledged.
JobInv(j) ==
    /\ j.asked + j.left <= j.calls
    /\ j.at = "calls" => j.left > 0
    /\ j.at \in {"none", "new"} => j.seq = 0 /\ j.made = 0 /\ j.asked = 0
    /\ j.seq <= 1 + j.made + j.asked
    /\ j.at \in {"think", "calls"} => j.seq = 1 + j.made + j.asked
    /\ j.at = "event" => j.sent.seq = j.seq /\ j.sent.kind # "none"
    /\ Waiting(j) /\ j.sent.kind = "started" => j.seq = 0 /\ j.made = 0 /\ j.asked = 0
    /\ Waiting(j) /\ j.sent.kind \in {"chunk", "tools"} => j.seq = j.made + j.asked
    /\ Waiting(j) /\ j.sent.kind \in {"chunk", "complete"} => j.made > 0 /\ j.sent.n = j.made

\* What flies is the one event the job waits for, and one error behind it.
FlightInv(q, j, s, w) ==
    /\ s # "gone" => Count(q, w) = 0 /\ j.at = "none"
    /\ j.at \in {"new", "think", "calls"} => Count(q, w) = 0
    /\ j.at = "none" \/ Waiting(j) => Count(q, w) <= 1
    /\ Count(q, w) <= 2
    /\ Count(q, w) = 2 => Later(q, w).kind = "error"
    /\ \A x \in Flying(q, w) :
          /\ x.seq = j.seq /\ x.kind # "none"
          /\ Waiting(j) => x = j.sent
          /\ j.at = "none" => x.kind = "error"

\* Everything made is heard, and every tool asked for is run; or all but the
\* last, if x is still to be taken.
Even(c, h, j) == j.made = Len(h) /\ j.asked = c.ran
Owed(c, h, j, x) ==
    /\ x.kind = "chunk" => j.made = Len(h) + 1 /\ j.asked = c.ran /\ x.n = j.made
    /\ x.kind = "tools" => j.made = Len(h) /\ j.asked = c.ran + 1
    /\ x.kind \in {"started", "complete"} => Even(c, h, j)
    /\ x.kind = "complete" => j.made > 0 /\ x.n = j.made

HeardInv(c, q, h, j, w) ==
    /\ \A i \in DOMAIN h : h[i] = i
    /\ Len(h) <= j.made /\ j.made <= Len(h) + 1
    /\ c.ran <= j.asked /\ j.asked <= c.ran + 1
    /\ j.at \in {"none", "new", "think", "calls"} => Even(c, h, j)
    /\ Waiting(j) /\ j.sent.kind # "chunk" => j.made = Len(h)
    /\ Waiting(j) /\ j.sent.kind # "tools" => j.asked = c.ran
    /\ \A x \in Flying(q, w) : Owed(c, h, j, x)
    /\ c.at = "consume" => Owed(c, h, j, c.cur)
    /\ c.at = "tools" => Even(c, h, j)
    /\ c.at = "acking" /\ c.cur.kind = "complete" => Owed(c, h, j, c.cur)
    /\ c.result = "ok" => Even(c, h, j) /\ j.made > 0

\* The client works on the event the job waits for, or the job has its
\* acknowledgment already, or it has gone on to the next number.
AllErrors(q, w) == \A x \in Flying(q, w) : x.kind = "error"
Answering(c, q, j, w) ==
    /\ c.seq = j.seq /\ AllErrors(q, w)
    /\ j.at \in {"event", "closing", "ended"}
    /\ Waiting(j) => j.sent = c.cur

CoreInv(c, q, j, s, w) ==
    /\ c.at # "done" <=> c.result = "none"
    /\ c.at = "idle" => s = "unsent" /\ c.seq = 0 /\ c.ran = 0
    /\ c.at = "wait" => c.seq \in {j.seq, j.seq + 1}
    /\ c.at = "wait" /\ c.seq = j.seq + 1 =>
          AllErrors(q, w) /\ j.at \in {"event", "closing", "ended"}
    /\ c.at \in {"consume", "tools", "acking"} => c.cur.seq = c.seq
    /\ c.at = "consume" => c.cur.kind = "chunk" /\ Answering(c, q, j, w)
    /\ c.at = "tools" => c.cur.kind = "tools" /\ Answering(c, q, j, w)
    /\ c.at = "acking" =>
          /\ c.cur.kind \in {"started", "chunk", "complete"}
          /\ Answering(c, q, j, w) \/ (c.seq = j.seq - 1 /\ c.cur.kind # "complete")

\* An acknowledgment that fits the job's event is one of this very event.
ReplyInv(c, q, h, j, s, w, p) ==
    /\ p.kind # "none" => s = "gone" /\ p.seq <= j.seq
    /\ j.at = "new" => p.kind = "none"
    /\ j.at \in {"think", "calls"} /\ p.kind # "none" => p.seq < j.seq
    /\ Waiting(j) \/ j.at \in {"think", "calls"} => p.kind # "error"
    /\ Waiting(j) /\ p = j.sent =>
          /\ Count(q, w) = 0 /\ Even(c, h, j)
          /\ \/ c.at = "done"
             \/ c.at = "wait" /\ c.seq = j.seq + 1
             \/ c.at = "acking" /\ c.seq = j.seq

\* Behind the whole text nothing is made or asked for.
WholeInv(c, q, j, w) ==
    (\/ c.result = "ok" \/ c.cur.kind = "complete"
     \/ \E x \in Flying(q, w) : x.kind = "complete")
      => /\ j.at \in {"event", "closing", "ended"}
         /\ Waiting(j) => j.sent.kind = "complete"

Sound(c, q, h, j, s, w, p) ==
    /\ Types(c, q, h, j, s, w, p) /\ JobInv(j) /\ FlightInv(q, j, s, w)
    /\ HeardInv(c, q, h, j, w) /\ CoreInv(c, q, j, s, w)
    /\ ReplyInv(c, q, h, j, s, w, p) /\ WholeInv(c, q, j, w)

Shapes ==
    /\ core \in [Requests -> Clients] /\ inbox \in [Requests -> Seq(Events)]
    /\ heard \in [Requests -> Seq(1 .. MaxChunks)] /\ job \in [Requests -> JobStates]
    /\ request \in [Requests -> {"unsent", "sent", "gone"}]
    /\ wire \in [Requests -> Seq(Events)] /\ reply \in [Requests -> Events]
    /\ hint \subseteq Requests /\ tombs \subseteq Requests
    /\ coreUp \in BOOLEAN /\ workerUp \in BOOLEAN /\ stopping \in BOOLEAN
    /\ disconnects \in 0 .. MaxDisconnects

SoundAt(r) ==
    Sound(core[r], inbox[r], heard[r], job[r], request[r], wire[r], reply[r])

IInv ==
    /\ Shapes /\ cancel \subseteq Jobs
    /\ \A r \in Requests : SoundAt(r)

-----------------------------------------------------------------------------
(* Events on their way.                                                    *)

LEMMA NoneIsEvent == None \in Events /\ None.kind = "none" /\ None.seq = 0 /\ None.n = 0
BY StreamAssumption DEF None, Event, Events, MaxSeq

LEMMA FlyingNone ==
  ASSUME NEW q \in Seq(Events), NEW w \in Seq(Events), Count(q, w) = 0
  PROVE  Flying(q, w) = {} /\ q = << >> /\ w = << >>
<1>1. Len(q) = 0 /\ Len(w) = 0
  BY DEF Count
<1>2. q = << >> /\ w = << >>
  BY <1>1
<1>3. DOMAIN q = {} /\ DOMAIN w = {}
  BY <1>2
<1> QED
  BY <1>2, <1>3 DEF Flying

LEMMA FlyingAppend ==
  ASSUME NEW q \in Seq(Events), NEW w \in Seq(Events), NEW e \in Events
  PROVE  /\ Flying(q, Append(w, e)) = Flying(q, w) \cup {e}
         /\ Count(q, Append(w, e)) = Count(q, w) + 1
         /\ Later(q, Append(w, e)) = e
         /\ Append(w, e) \in Seq(Events)
<1> DEFINE v == Append(w, e)
<1>1. v \in Seq(Events) /\ Len(v) = Len(w) + 1 /\ v[Len(w) + 1] = e
  OBVIOUS
<1>2. \A i \in 1 .. Len(w) : v[i] = w[i]
  OBVIOUS
<1>3. DOMAIN v = 1 .. Len(w) + 1 /\ DOMAIN w = 1 .. Len(w) /\ Len(w) \in Nat
  BY <1>1
<1>4. v # << >>
  BY <1>1
<1> HIDE DEF v
<1>5. {v[i] : i \in DOMAIN v} = {w[i] : i \in DOMAIN w} \cup {e}
  BY <1>1, <1>2, <1>3
<1>6. Later(q, v) = e
  BY <1>1, <1>4 DEF Later
<1>7. Count(q, v) = Count(q, w) + 1
  BY <1>1 DEF Count
<1>8. Flying(q, v) = Flying(q, w) \cup {e}
  BY <1>5 DEF Flying
<1> QED
  BY <1>1, <1>6, <1>7, <1>8 DEF v

LEMMA FlyingTail ==
  ASSUME NEW q \in Seq(Events), NEW w \in Seq(Events), w # << >>
  PROVE  /\ Flying(q, Tail(w)) \subseteq Flying(q, w)
         /\ Count(q, Tail(w)) = Count(q, w) - 1
         /\ Tail(w) \in Seq(Events)
<1> DEFINE v == Tail(w)
<1>1. v \in Seq(Events) /\ Len(v) = Len(w) - 1 /\ Len(w) \in Nat \ {0}
  OBVIOUS
<1>2. \A i \in 1 .. Len(v) : v[i] = w[i + 1] /\ i + 1 \in 1 .. Len(w)
  BY <1>1
<1>3. DOMAIN v = 1 .. Len(v) /\ DOMAIN w = 1 .. Len(w)
  BY <1>1
<1> HIDE DEF v
<1>4. {v[i] : i \in DOMAIN v} \subseteq {w[i] : i \in DOMAIN w}
  BY <1>2, <1>3
<1>5. Count(q, v) = Count(q, w) - 1
  BY <1>1 DEF Count
<1>6. Flying(q, v) \subseteq Flying(q, w)
  BY <1>4 DEF Flying
<1> QED
  BY <1>1, <1>5, <1>6 DEF v

LEMMA FlyingReceived ==
  ASSUME NEW q \in Seq(Events), NEW w \in Seq(Events), w # << >>
  PROVE  /\ Flying(Append(q, Head(w)), Tail(w)) \subseteq Flying(q, w)
         /\ Count(Append(q, Head(w)), Tail(w)) = Count(q, w)
         /\ Later(Append(q, Head(w)), Tail(w)) = Later(q, w)
         /\ Append(q, Head(w)) \in Seq(Events) /\ Tail(w) \in Seq(Events)
<1> DEFINE v == Tail(w)  u == Append(q, Head(w))
<1>1. v \in Seq(Events) /\ Len(v) = Len(w) - 1 /\ Len(w) \in Nat \ {0}
  OBVIOUS
<1>2. \A i \in 1 .. Len(v) : v[i] = w[i + 1] /\ i + 1 \in 1 .. Len(w)
  BY <1>1
<1>3. DOMAIN v = 1 .. Len(v) /\ DOMAIN w = 1 .. Len(w) /\ 1 \in DOMAIN w
  BY <1>1
<1>4. Head(w) = w[1] /\ Head(w) \in Events
  BY <1>1
<1>5. u \in Seq(Events) /\ Len(u) = Len(q) + 1 /\ Len(q) \in Nat /\ u[Len(q) + 1] = Head(w)
  BY <1>4
<1>6. \A i \in 1 .. Len(q) : u[i] = q[i]
  BY <1>4
<1>7. DOMAIN u = 1 .. Len(q) + 1 /\ DOMAIN q = 1 .. Len(q)
  BY <1>5
<1>8. v = << >> <=> Len(w) = 1
  <2>1. ASSUME NEW u2 \in Seq(Events) PROVE u2 = << >> <=> Len(u2) = 0
    OBVIOUS
  <2>2. v = << >> <=> Len(v) = 0
    BY <1>1, <2>1
  <2> HIDE DEF v
  <2> QED
    BY <2>2, <1>1
<1> HIDE DEF v, u
<1>9. {v[i] : i \in DOMAIN v} \subseteq {w[i] : i \in DOMAIN w}
  BY <1>2, <1>3
<1>10. {u[i] : i \in DOMAIN u} \subseteq {q[i] : i \in DOMAIN q} \cup {w[1]}
  BY <1>4, <1>5, <1>6, <1>7
<1>11. Flying(u, v) \subseteq Flying(q, w)
  BY <1>3, <1>9, <1>10 DEF Flying
<1>12. Count(u, v) = Count(q, w)
  BY <1>1, <1>5 DEF Count
<1>13. Later(u, v) = Later(q, w)
  <2>1. CASE Len(w) = 1
    BY <2>1, <1>4, <1>5, <1>8 DEF Later
  <2>2. CASE Len(w) > 1
    <3>1. v[Len(v)] = w[Len(w)]
      BY <2>2, <1>1, <1>2
    <3> QED
      BY <3>1, <2>2, <1>8 DEF Later
  <2> QED
    BY <2>1, <2>2, <1>1
<1> QED
  BY <1>1, <1>5, <1>11, <1>12, <1>13 DEF v, u

\* The client takes the head of its inbox: nothing flies behind it but the
\* one event that came later.
LEMMA FlyingTaken ==
  ASSUME NEW q \in Seq(Events), NEW w \in Seq(Events), q # << >>, Count(q, w) <= 2
  PROVE  /\ Head(q) \in Flying(q, w) /\ Head(q) \in Events
         /\ Tail(q) \in Seq(Events) /\ Count(q, w) \in Nat /\ Count(q, w) > 0
         /\ Count(Tail(q), w) = Count(q, w) - 1
         /\ Flying(Tail(q), w) \subseteq Flying(q, w)
         /\ Count(q, w) = 1 => Flying(Tail(q), w) = {}
         /\ Count(q, w) = 2 => Flying(Tail(q), w) \subseteq {Later(q, w)}
<1> DEFINE v == Tail(q)
<1>1. v \in Seq(Events) /\ Len(v) = Len(q) - 1 /\ Len(q) \in Nat \ {0} /\ Len(w) \in Nat
  OBVIOUS
<1>2. \A i \in 1 .. Len(v) : v[i] = q[i + 1] /\ i + 1 \in 1 .. Len(q)
  BY <1>1
<1>3. DOMAIN v = 1 .. Len(v) /\ DOMAIN q = 1 .. Len(q) /\ DOMAIN w = 1 .. Len(w)
  BY <1>1
<1>4. Head(q) = q[1] /\ Head(q) \in Events /\ 1 \in DOMAIN q
  BY <1>1
<1>5. w = << >> <=> Len(w) = 0
  OBVIOUS
<1> HIDE DEF v
<1>6. Count(v, w) = Count(q, w) - 1 /\ Count(q, w) \in Nat /\ Count(q, w) > 0
  BY <1>1 DEF Count
<1>7. Head(q) \in Flying(q, w)
  BY <1>4 DEF Flying
<1>8. Flying(v, w) \subseteq Flying(q, w)
  BY <1>2, <1>3 DEF Flying
<1>9. ASSUME Count(q, w) = 1 PROVE Flying(v, w) = {}
  BY <1>9, <1>6, <1>1, FlyingNone
<1>10. ASSUME Count(q, w) = 2 PROVE Flying(v, w) \subseteq {Later(q, w)}
  <2>1. CASE Len(w) = 0
    <3>1. Len(q) = 2 /\ DOMAIN w = {} /\ DOMAIN v = {1} /\ v[1] = q[2]
      BY <2>1, <1>10, <1>1, <1>2, <1>3 DEF Count
    <3> QED
      BY <3>1, <2>1, <1>5 DEF Flying, Later
  <2>2. CASE Len(w) = 1
    <3>1. DOMAIN v = {} /\ DOMAIN w = {1} /\ w # << >>
      BY <2>2, <1>10, <1>1, <1>3, <1>5 DEF Count
    <3> QED
      BY <3>1, <2>2 DEF Flying, Later
  <2>3. Len(w) = 0 \/ Len(w) = 1
    <3>1. Len(q) + Len(w) = 2
      BY <1>10 DEF Count
    <3>2. Len(q) \in Nat \ {0} /\ Len(w) \in Nat
      BY <1>1
    <3> HIDE DEF v
    <3> QED
      BY <3>1, <3>2
  <2> QED
    BY <2>1, <2>2, <2>3
<1> QED
  BY <1>1, <1>4, <1>6, <1>7, <1>8, <1>9, <1>10 DEF v

-----------------------------------------------------------------------------
(* What a step of the network, of the client or of the job makes of the    *)
(* request it is about.                                                    *)

\* Something has been delivered or lost: no event is new, none comes later
\* than before.
LEMMA Flies ==
  ASSUME NEW c, NEW q, NEW h, NEW j, NEW s, NEW w, NEW p, NEW c2, NEW q2, NEW w2,
         Sound(c, q, h, j, s, w, p),
         c2 \in Clients, c2.at = c.at, c2.seq = c.seq, c2.cur = c.cur, c2.ran = c.ran,
         c2.result = c.result, q2 \in Seq(Events), w2 \in Seq(Events),
         Flying(q2, w2) \subseteq Flying(q, w), Count(q2, w2) <= Count(q, w),
         Count(q2, w2) = 2 => Later(q2, w2) = Later(q, w)
  PROVE  Sound(c2, q2, h, j, s, w2, p)
<1> USE DEF Sound
<1>1. Count(q, w) \in Nat /\ Count(q2, w2) \in Nat
  BY DEF Types, Count
<1>2. Types(c2, q2, h, j, s, w2, p)
  BY DEF Types
<1>3. FlightInv(q2, j, s, w2)
  BY <1>1 DEF FlightInv
<1>4. HeardInv(c2, q2, h, j, w2)
  <2>1. ASSUME NEW x PROVE Owed(c2, h, j, x) <=> Owed(c, h, j, x)
    BY DEF Owed, Even
  <2> QED
    BY <2>1 DEF HeardInv, Even
<1>5. CoreInv(c2, q2, j, s, w2)
  BY DEF CoreInv, Answering, AllErrors
<1>6. ReplyInv(c2, q2, h, j, s, w2, p)
  BY <1>1 DEF ReplyInv, Even
<1>7. WholeInv(c2, q2, j, w2)
  BY DEF WholeInv
<1> QED
  BY <1>2, <1>3, <1>4, <1>5, <1>6, <1>7

\* The client ends without success, and forgets its inbox; it may have
\* acknowledged an error.
LEMMA Fails ==
  ASSUME NEW c, NEW q, NEW h, NEW j, NEW s, NEW w, NEW p, NEW c2, NEW p2,
         Sound(c, q, h, j, s, w, p),
         c2 \in Clients, c2.at = "done", c2.seq = c.seq, c2.cur.kind = "none",
         c2.ran = c.ran, c2.result = "failed", c.result # "ok",
         p2 = p \/ (p2 \in Flying(q, w) /\ p2.kind = "error")
  PROVE  Sound(c2, << >>, h, j, s, w, p2)
<1> USE DEF Sound
<1> DEFINE v == << >>
<1>1. v \in Seq(Events) /\ q \in Seq(Events) /\ w \in Seq(Events)
  BY DEF Types
<1>2. Len(v) = 0 /\ Len(q) \in Nat /\ Len(w) \in Nat /\ DOMAIN v = {}
  BY <1>1
<1>3. w = << >> => Len(w) = 0
  OBVIOUS
<1> HIDE DEF v
<1>4. Flying(v, w) \subseteq Flying(q, w)
  BY <1>2 DEF Flying
<1>5. Count(v, w) <= Count(q, w) /\ Count(q, w) \in Nat /\ Count(v, w) \in Nat
  BY <1>2 DEF Count
<1>6. Count(v, w) = 2 => Later(v, w) = Later(q, w)
  <2>1. ASSUME Count(v, w) = 2 PROVE w # << >>
    <3>1. Len(w) = 2
      BY <2>1, <1>2 DEF Count
    <3> QED
      BY <3>1, <1>3
  <2> QED
    BY <2>1 DEF Later
<1>7. Types(c2, v, h, j, s, w, p2)
  <2>1. p2 \in Events
    <3>1. Flying(q, w) \subseteq Events
      BY <1>1 DEF Flying
    <3> QED
      BY <3>1 DEF Types
  <2> QED
    BY <2>1, <1>1 DEF Types
<1>8. FlightInv(v, j, s, w)
  BY <1>4, <1>5, <1>6 DEF FlightInv
<1>9. HeardInv(c2, v, h, j, w)
  <2>1. ASSUME NEW x PROVE Owed(c2, h, j, x) <=> Owed(c, h, j, x)
    BY DEF Owed, Even
  <2> QED
    BY <1>4, <2>1 DEF HeardInv, Even
<1>10. CoreInv(c2, v, j, s, w)
  BY DEF CoreInv
<1>11. ReplyInv(c2, v, h, j, s, w, p2)
  <2>1. CASE p2 = p
    BY <2>1, <1>5 DEF ReplyInv, Even
  <2>2. CASE p2 \in Flying(q, w) /\ p2.kind = "error"
    <3>1. Count(q, w) # 0
      BY <2>2, <1>1, FlyingNone
    <3>2. s = "gone" /\ p2.seq = j.seq /\ j.at \notin {"new", "think", "calls"}
      BY <2>2, <3>1 DEF FlightInv
    <3>3. ~Waiting(j)
      BY <2>2 DEF FlightInv, Waiting
    <3>4. p2.seq \in Int /\ j.seq \in Int
      BY <3>2 DEF Types, JobStates
    <3> QED
      BY <2>2, <3>2, <3>3, <3>4 DEF ReplyInv
  <2> QED
    BY <2>1, <2>2
<1>12. WholeInv(c2, v, j, w)
  BY <1>4 DEF WholeInv
<1> QED
  BY <1>7, <1>8, <1>9, <1>10, <1>11, <1>12 DEF v

\* The acknowledgment of the complete text is out: a success.
LEMMA Succeeds ==
  ASSUME NEW c, NEW q, NEW h, NEW j, NEW s, NEW w, NEW p, NEW c2,
         Sound(c, q, h, j, s, w, p), c.at = "acking", c.cur.kind = "complete",
         c2 \in Clients, c2.at = "done", c2.seq = c.seq, c2.cur.kind = "none",
         c2.ran = c.ran, c2.result = "ok"
  PROVE  Sound(c2, << >>, h, j, s, w, p) /\ Even(c, h, j) /\ j.made > 0
<1> USE DEF Sound
<1> DEFINE v == << >>
<1>1. v \in Seq(Events) /\ q \in Seq(Events) /\ w \in Seq(Events)
  BY DEF Types
<1>2. Len(v) = 0 /\ Len(q) \in Nat /\ Len(w) \in Nat /\ DOMAIN v = {}
  BY <1>1
<1>3. w = << >> => Len(w) = 0
  OBVIOUS
<1> HIDE DEF v
<1>4. Flying(v, w) \subseteq Flying(q, w)
  BY <1>2 DEF Flying
<1>5. Count(v, w) <= Count(q, w) /\ Count(q, w) \in Nat /\ Count(v, w) \in Nat
  BY <1>2 DEF Count
<1>6. Count(v, w) = 2 => Later(v, w) = Later(q, w)
  <2>1. ASSUME Count(v, w) = 2 PROVE w # << >>
    <3>1. Len(w) = 2
      BY <2>1, <1>2 DEF Count
    <3> QED
      BY <3>1, <1>3
  <2> QED
    BY <2>1 DEF Later
<1>7. Types(c2, v, h, j, s, w, p)
  BY <1>1 DEF Types
<1>8. FlightInv(v, j, s, w)
  BY <1>4, <1>5, <1>6 DEF FlightInv
<1>9. Owed(c, h, j, c.cur)
  BY DEF HeardInv
<1>10. Even(c, h, j) /\ j.made > 0
  BY <1>9 DEF Owed
<1>11. HeardInv(c2, v, h, j, w)
  <2>1. ASSUME NEW x PROVE Owed(c2, h, j, x) <=> Owed(c, h, j, x)
    BY DEF Owed, Even
  <2> QED
    BY <1>4, <1>10, <2>1 DEF HeardInv, Even
<1>12. CoreInv(c2, v, j, s, w)
  BY DEF CoreInv
<1>13. ReplyInv(c2, v, h, j, s, w, p)
  BY <1>5 DEF ReplyInv, Even
<1>14. WholeInv(c2, v, j, w)
  BY <1>4 DEF WholeInv
<1> QED
  BY <1>7, <1>8, <1>10, <1>11, <1>12, <1>13, <1>14 DEF v

LEMMA NoneFlying ==
  ASSUME NEW q \in Seq(Events), NEW w \in Seq(Events), Flying(q, w) = {}
  PROVE  Count(q, w) = 0
<1>1. DOMAIN q = {} /\ DOMAIN w = {}
  BY DEF Flying
<1>2. DOMAIN q = 1 .. Len(q) /\ DOMAIN w = 1 .. Len(w) /\ Len(q) \in Nat /\ Len(w) \in Nat
  OBVIOUS
<1> QED
  BY <1>1, <1>2 DEF Count

\* What is known when the client has the next event at the head of its inbox.
LEMMA TakesFacts ==
  ASSUME NEW c, NEW q, NEW h, NEW j, NEW s, NEW w, NEW p,
         Sound(c, q, h, j, s, w, p), q # << >>, Head(q).kind # "error"
  PROVE  /\ Head(q) \in Events /\ Head(q) \in Flying(q, w) /\ Tail(q) \in Seq(Events)
         /\ Head(q).seq = j.seq /\ Head(q).kind # "none" /\ s = "gone"
         /\ j.at \in {"event", "closing", "ended"}
         /\ Waiting(j) => j.sent = Head(q) /\ Flying(Tail(q), w) = {} /\ p # j.sent
         /\ AllErrors(Tail(q), w) /\ Flying(Tail(q), w) \subseteq Flying(q, w)
         /\ Count(Tail(q), w) <= 1 /\ Count(Tail(q), w) \in Nat
         /\ Owed(c, h, j, Head(q))
         /\ Head(q).kind = "tools" => c.ran + 1 \in 0 .. MaxCalls
<1> USE DEF Sound
<1>1. q \in Seq(Events) /\ w \in Seq(Events) /\ c \in Clients /\ j \in JobStates
  BY DEF Types
<1>2. Count(q, w) <= 2
  BY DEF FlightInv
<1>3. /\ Head(q) \in Flying(q, w) /\ Head(q) \in Events
      /\ Tail(q) \in Seq(Events) /\ Count(q, w) \in Nat /\ Count(q, w) > 0
      /\ Count(Tail(q), w) = Count(q, w) - 1
      /\ Flying(Tail(q), w) \subseteq Flying(q, w)
      /\ Count(q, w) = 1 => Flying(Tail(q), w) = {}
      /\ Count(q, w) = 2 => Flying(Tail(q), w) \subseteq {Later(q, w)}
  BY <1>1, <1>2, FlyingTaken
<1>4. Count(q, w) = 1 \/ Count(q, w) = 2
  BY <1>2, <1>3
<1>5. /\ Head(q).seq = j.seq /\ Head(q).kind # "none" /\ s = "gone"
      /\ j.at \notin {"none", "new", "think", "calls"}
      /\ Waiting(j) => j.sent = Head(q) /\ Count(q, w) = 1
      /\ Count(q, w) = 2 => Later(q, w).kind = "error"
  BY <1>3, <1>4 DEF FlightInv
<1>6. j.at \in {"event", "closing", "ended"}
  BY <1>1, <1>5 DEF JobStates
<1>7. AllErrors(Tail(q), w)
  BY <1>3, <1>4, <1>5 DEF AllErrors
<1>8. Owed(c, h, j, Head(q))
  BY <1>3 DEF HeardInv
<1>9. Waiting(j) => p # j.sent
  BY <1>3 DEF ReplyInv
<1>10. ASSUME Head(q).kind = "tools" PROVE c.ran + 1 \in 0 .. MaxCalls
  <2>1. j.asked = c.ran + 1
    BY <1>10, <1>8 DEF Owed
  <2> QED
    BY <2>1, <1>1 DEF Clients, JobStates
<1>11. Count(Tail(q), w) <= 1 /\ Count(Tail(q), w) \in Nat
  BY <1>2, <1>3
<1> QED
  BY <1>3, <1>5, <1>6, <1>7, <1>8, <1>9, <1>10, <1>11

\* A chunk or a list of calls is taken up.
LEMMA TakesUp ==
  ASSUME NEW c, NEW q, NEW h, NEW j, NEW s, NEW w, NEW p, NEW c2, NEW e,
         Sound(c, q, h, j, s, w, p), c.at = "wait", q # << >>, e = Head(q),
         e.seq = c.seq, e.kind \in {"chunk", "tools"},
         c2 \in Clients, c2.seq = c.seq, c2.cur = e, c2.result = c.result,
         \/ e.kind = "chunk" /\ c2.at = "consume" /\ c2.ran = c.ran
         \/ e.kind = "tools" /\ c2.at = "tools" /\ c2.ran = c.ran + 1
  PROVE  Sound(c2, Tail(q), h, j, s, w, p)
<1>1. /\ e \in Events /\ Tail(q) \in Seq(Events) /\ e.seq = j.seq /\ s = "gone"
      /\ j.at \in {"event", "closing", "ended"}
      /\ Waiting(j) => j.sent = e /\ Flying(Tail(q), w) = {} /\ p # j.sent
      /\ AllErrors(Tail(q), w) /\ Flying(Tail(q), w) \subseteq Flying(q, w)
      /\ Count(Tail(q), w) <= 1 /\ Count(Tail(q), w) \in Nat
      /\ Owed(c, h, j, e)
  BY TakesFacts
<1> DEFINE v == Tail(q)
<1> HIDE DEF v
<1> USE DEF Sound
<1>2. Types(c2, v, h, j, s, w, p)
  BY <1>1 DEF Types, v
<1>3. FlightInv(v, j, s, w)
  BY <1>1 DEF FlightInv, v
<1>4. HeardInv(c2, v, h, j, w)
  <2>1. ASSUME NEW x \in Flying(v, w) PROVE Owed(c2, h, j, x)
    BY <2>1, <1>1 DEF AllErrors, Owed, v
  <2>2. c \in Clients /\ j \in JobStates /\ h \in Seq(1 .. MaxChunks)
    BY DEF Types
  <2>3. c.ran \in Nat /\ j.asked \in Nat /\ j.made \in Nat /\ Len(h) \in Nat
    BY <2>2 DEF Clients, JobStates
  <2>4. CASE e.kind = "chunk"
    <3>1. Owed(c2, h, j, e)
      BY <2>4, <1>1 DEF Owed, Even
    <3> QED
      BY <2>1, <2>4, <3>1, <1>1 DEF HeardInv, CoreInv, Even
  <2>5. CASE e.kind = "tools"
    <3>1. j.made = Len(h) /\ j.asked = c.ran + 1 /\ c2.ran = c.ran + 1 /\ c2.at = "tools"
      BY <2>5, <1>1 DEF Owed
    <3>2. c2.result # "ok"
      BY DEF CoreInv
    <3>3. Waiting(j) => j.sent.kind = "tools"
      BY <2>5, <1>1
    <3> QED
      BY <2>1, <2>3, <3>1, <3>2, <3>3, <1>1 DEF HeardInv, Even
  <2> QED
    BY <2>4, <2>5
<1>5. CoreInv(c2, v, j, s, w)
  BY <1>1 DEF CoreInv, Answering, v
<1>6. ReplyInv(c2, v, h, j, s, w, p)
  BY <1>1 DEF ReplyInv
<1>7. WholeInv(c2, v, j, w)
  <2>1. \A x \in Flying(v, w) : x.kind # "complete"
    BY <1>1 DEF AllErrors, v
  <2> QED
    BY <2>1 DEF WholeInv, CoreInv
<1> QED
  BY <1>2, <1>3, <1>4, <1>5, <1>6, <1>7 DEF v

\* The start or the end of the text is taken and acknowledged.
LEMMA TakesMark ==
  ASSUME NEW c, NEW q, NEW h, NEW j, NEW s, NEW w, NEW p, NEW c2, NEW e,
         Sound(c, q, h, j, s, w, p), c.at = "wait", q # << >>, e = Head(q),
         e.seq = c.seq, e.kind \in {"started", "complete"},
         c2 \in Clients, c2.seq = c.seq, c2.cur = e, c2.result = c.result,
         c2.at = "acking", c2.ran = c.ran
  PROVE  Sound(c2, Tail(q), h, j, s, w, e)
<1>1. /\ e \in Events /\ Tail(q) \in Seq(Events) /\ e.seq = j.seq /\ s = "gone"
      /\ j.at \in {"event", "closing", "ended"} /\ e \in Flying(q, w)
      /\ Waiting(j) => j.sent = e /\ Flying(Tail(q), w) = {} /\ p # j.sent
      /\ AllErrors(Tail(q), w) /\ Flying(Tail(q), w) \subseteq Flying(q, w)
      /\ Count(Tail(q), w) <= 1 /\ Count(Tail(q), w) \in Nat
      /\ Owed(c, h, j, e)
  BY TakesFacts
<1> DEFINE v == Tail(q)
<1> HIDE DEF v
<1> USE DEF Sound
<1>2. Types(c2, v, h, j, s, w, e)
  BY <1>1 DEF Types, v
<1>3. FlightInv(v, j, s, w)
  BY <1>1 DEF FlightInv, v
<1>4. HeardInv(c2, v, h, j, w)
  <2>1. ASSUME NEW x \in Flying(v, w) PROVE Owed(c2, h, j, x)
    BY <2>1, <1>1 DEF AllErrors, Owed, v
  <2>2. Owed(c2, h, j, e)
    BY <1>1 DEF Owed, Even
  <2> QED
    BY <2>1, <2>2, <1>1 DEF HeardInv, CoreInv, Even
<1>5. CoreInv(c2, v, j, s, w)
  BY <1>1 DEF CoreInv, Answering, v
<1>6. ReplyInv(c2, v, h, j, s, w, e)
  <2>1. Even(c2, h, j)
    BY <1>1 DEF Owed, Even
  <2>2. Waiting(j) => Count(v, w) = 0
    <3>1. v \in Seq(Events) /\ w \in Seq(Events)
      BY <1>2 DEF Types
    <3> QED
      BY <3>1, <1>1, NoneFlying DEF v
  <2>3. e.seq \in Int /\ j.seq \in Int
    BY <1>1 DEF Types, JobStates
  <2> QED
    BY <2>1, <2>2, <2>3, <1>1 DEF ReplyInv
<1>7. WholeInv(c2, v, j, w)
  <2>1. \A x \in Flying(v, w) : x.kind # "complete"
    BY <1>1 DEF AllErrors, v
  <2> QED
    BY <2>1, <1>1 DEF WholeInv, CoreInv
<1> QED
  BY <1>2, <1>3, <1>4, <1>5, <1>6, <1>7 DEF v

\* The consumer has heard its chunk; it is acknowledged, or the client ends.
LEMMA Hears ==
  ASSUME NEW c, NEW q, NEW h, NEW j, NEW s, NEW w, NEW p, NEW c2, NEW q2, NEW p2,
         Sound(c, q, h, j, s, w, p), c.at = "consume",
         c2 \in Clients, c2.seq = c.seq, c2.ran = c.ran,
         \/ c2.at = "acking" /\ c2.cur = c.cur /\ c2.result = "none" /\ q2 = q /\ p2 = c.cur
         \/ c2.at = "done" /\ c2.result = "failed" /\ c2.cur.kind = "none"
               /\ q2 = << >> /\ p2 = p
  PROVE  /\ Sound(c2, q2, Append(h, c.cur.n), j, s, w, p2)
         /\ c.cur.n = Len(h) + 1 /\ j.made = Len(h) + 1
<1> USE DEF Sound
<1> DEFINE g == Append(h, c.cur.n)
<1>1. /\ c \in Clients /\ j \in JobStates /\ h \in Seq(1 .. MaxChunks)
      /\ q \in Seq(Events) /\ w \in Seq(Events) /\ c.cur \in Events /\ p \in Events
  BY DEF Types, Clients
<1>2. /\ c.cur.kind = "chunk" /\ c.seq = j.seq /\ c.cur.seq = c.seq /\ AllErrors(q, w)
      /\ j.at \in {"event", "closing", "ended"} /\ (Waiting(j) => j.sent = c.cur)
  BY DEF CoreInv, Answering
<1>3. j.made = Len(h) + 1 /\ j.asked = c.ran /\ c.cur.n = j.made
  BY <1>2 DEF HeardInv, Owed
<1>4. c.cur.n \in 1 .. MaxChunks /\ Len(h) \in Nat
  BY <1>1, <1>3 DEF JobStates
<1>5. g \in Seq(1 .. MaxChunks) /\ Len(g) = Len(h) + 1 /\ g[Len(h) + 1] = Len(h) + 1
  BY <1>1, <1>3, <1>4
<1>6. \A i \in 1 .. Len(h) : g[i] = h[i]
  BY <1>1, <1>4
<1>7. DOMAIN g = 1 .. Len(h) + 1 /\ DOMAIN h = 1 .. Len(h)
  BY <1>1, <1>5
<1> HIDE DEF g
<1>8. \A i \in DOMAIN g : g[i] = i
  BY <1>4, <1>5, <1>6, <1>7 DEF HeardInv
<1>9. s = "gone"
  BY <1>2 DEF FlightInv
<1>10. q2 \in Seq(Events) /\ Flying(q2, w) \subseteq Flying(q, w)
  <2>1. << >> \in Seq(Events) /\ Flying(<< >>, w) \subseteq Flying(q, w)
    BY DEF Flying
  <2> QED
    BY <2>1, <1>1
<1>11. Count(q2, w) <= Count(q, w) /\ Count(q, w) \in Nat /\ Count(q2, w) \in Nat
       /\ (Count(q2, w) = 2 => Later(q2, w) = Later(q, w))
  <2>1. CASE q2 = q
    BY <2>1, <1>1 DEF Count
  <2>2. CASE q2 = << >>
    <3>1. Len(q2) = 0 /\ Len(q) \in Nat /\ Len(w) \in Nat /\ (w = << >> => Len(w) = 0)
      BY <2>2, <1>1
    <3>2. Count(q2, w) = Len(w) /\ Count(q, w) = Len(q) + Len(w)
      BY <3>1 DEF Count
    <3> QED
      BY <3>1, <3>2 DEF Later
  <2> QED
    BY <2>1, <2>2
<1>12. Types(c2, q2, g, j, s, w, p2)
  BY <1>1, <1>5, <1>10 DEF Types
<1>13. FlightInv(q2, j, s, w)
  BY <1>10, <1>11 DEF FlightInv
<1>14. Even(c2, g, j)
  BY <1>3, <1>5 DEF Even
<1>15. AllErrors(q2, w)
  BY <1>2, <1>10 DEF AllErrors
<1>16. HeardInv(c2, q2, g, j, w)
  <2>1. \A x \in Flying(q2, w) : Owed(c2, g, j, x)
    BY <1>15 DEF AllErrors, Owed
  <2>2. j.made \in Int /\ j.asked \in Int /\ c2.ran \in Int
    BY <1>1 DEF JobStates, Clients
  <2>3. c2.at \notin {"consume", "tools"} /\ c2.cur.kind # "complete" /\ c2.result # "ok"
    BY <1>2
  <2> QED
    BY <2>1, <2>2, <2>3, <1>8, <1>14 DEF HeardInv, Even
<1>17. CoreInv(c2, q2, j, s, w)
  BY <1>2, <1>15 DEF CoreInv, Answering
<1>18. Waiting(j) => Count(q2, w) = 0
  <2>1. ASSUME Waiting(j) PROVE Flying(q2, w) = {}
    <3>1. \A x \in Flying(q2, w) : x = c.cur /\ x.kind = "error"
      BY <2>1, <1>2, <1>13, <1>15 DEF FlightInv, AllErrors
    <3> QED
      BY <3>1, <1>2
  <2> QED
    BY <2>1, <1>1, <1>10, NoneFlying
<1>19. ReplyInv(c2, q2, g, j, s, w, p2)
  <2>1. CASE p2 = c.cur /\ c2.at = "acking"
    <3>1. c.cur.seq \in Int /\ j.seq \in Int
      BY <1>1 DEF Events, JobStates
    <3> QED
      BY <2>1, <3>1, <1>2, <1>9, <1>14, <1>18 DEF ReplyInv
  <2>2. CASE p2 = p /\ c2.at = "done"
    BY <2>2, <1>14, <1>18 DEF ReplyInv
  <2> QED
    BY <2>1, <2>2
<1>20. WholeInv(c2, q2, j, w)
  BY <1>2, <1>15 DEF WholeInv, AllErrors
<1> QED
  BY <1>3, <1>12, <1>13, <1>16, <1>17, <1>19, <1>20 DEF g

\* The tools have run; their results are the acknowledgment.
LEMMA Answers ==
  ASSUME NEW c, NEW q, NEW h, NEW j, NEW s, NEW w, NEW p, NEW c2,
         Sound(c, q, h, j, s, w, p), c.at = "tools",
         c2 \in Clients, c2.at = "wait", c2.seq = c.seq + 1, c2.ran = c.ran,
         c2.result = c.result, c2.cur.kind = "none"
  PROVE  Sound(c2, q, h, j, s, w, c.cur)
<1> USE DEF Sound
<1>1. /\ c \in Clients /\ j \in JobStates /\ h \in Seq(1 .. MaxChunks)
      /\ q \in Seq(Events) /\ w \in Seq(Events) /\ c.cur \in Events
  BY DEF Types, Clients
<1>2. /\ c.cur.kind = "tools" /\ c.seq = j.seq /\ c.cur.seq = c.seq /\ AllErrors(q, w)
      /\ j.at \in {"event", "closing", "ended"} /\ (Waiting(j) => j.sent = c.cur)
  BY DEF CoreInv, Answering
<1>3. Even(c, h, j) /\ Even(c2, h, j)
  BY DEF HeardInv, Even
<1>4. s = "gone"
  BY <1>2 DEF FlightInv
<1>5. Types(c2, q, h, j, s, w, c.cur)
  BY <1>1 DEF Types
<1>6. FlightInv(q, j, s, w)
  OBVIOUS
<1>7. HeardInv(c2, q, h, j, w)
  <2>1. \A x \in Flying(q, w) : Owed(c2, h, j, x)
    BY <1>2 DEF AllErrors, Owed
  <2> QED
    BY <2>1, <1>3 DEF HeardInv, Even
<1>8. CoreInv(c2, q, j, s, w)
  BY <1>2 DEF CoreInv
<1>9. ReplyInv(c2, q, h, j, s, w, c.cur)
  <2>1. Waiting(j) => Count(q, w) = 0
    <3>1. ASSUME Waiting(j) PROVE Flying(q, w) = {}
      <4>1. \A x \in Flying(q, w) : x = c.cur /\ x.kind = "error"
        BY <3>1, <1>2 DEF FlightInv, AllErrors
      <4> QED
        BY <4>1, <1>2
    <3> QED
      BY <3>1, <1>1, NoneFlying
  <2>2. c.cur.seq \in Int /\ j.seq \in Int
    BY <1>1 DEF Events, JobStates
  <2> QED
    BY <2>1, <2>2, <1>2, <1>3, <1>4 DEF ReplyInv
<1>10. WholeInv(c2, q, j, w)
  BY <1>2 DEF WholeInv, AllErrors, CoreInv
<1> QED
  BY <1>5, <1>6, <1>7, <1>8, <1>9, <1>10

\* The client goes on behind its acknowledgment.
LEMMA GoesOn ==
  ASSUME NEW c, NEW q, NEW h, NEW j, NEW s, NEW w, NEW p, NEW c2,
         Sound(c, q, h, j, s, w, p), c.at = "acking", c.cur.kind # "complete",
         c2 \in Clients, c2.at = "wait", c2.seq = c.seq + 1, c2.ran = c.ran,
         c2.result = c.result, c2.cur.kind = "none"
  PROVE  Sound(c2, q, h, j, s, w, p)
<1> USE DEF Sound
<1>1. c \in Clients /\ j \in JobStates /\ c.seq \in Nat /\ j.seq \in Nat
  BY DEF Types, Clients, JobStates
<1>2. Types(c2, q, h, j, s, w, p)
  BY DEF Types
<1>3. HeardInv(c2, q, h, j, w)
  <2>1. ASSUME NEW x PROVE Owed(c2, h, j, x) <=> Owed(c, h, j, x)
    BY DEF Owed, Even
  <2> QED
    BY <2>1 DEF HeardInv, Even
<1>4. CoreInv(c2, q, j, s, w)
  BY <1>1 DEF CoreInv, Answering
<1>5. ReplyInv(c2, q, h, j, s, w, p)
  BY <1>1 DEF ReplyInv, Even
<1>6. WholeInv(c2, q, j, w)
  BY DEF WholeInv
<1> QED
  BY <1>2, <1>3, <1>4, <1>5, <1>6

\* The request is refused at once, or it is lost or admitted.
LEMMA Refuses ==
  ASSUME NEW c, NEW q, NEW h, NEW j, NEW s, NEW w, NEW p, NEW e,
         Sound(c, q, h, j, s, w, p), s = "sent", e \in Events, e.kind = "error", e.seq = 0
  PROVE  Sound(c, q, h, j, "gone", Append(w, e), p)
<1> USE DEF Sound
<1>1. q \in Seq(Events) /\ w \in Seq(Events) /\ c \in Clients /\ j \in JobStates
  BY DEF Types
<1>2. Count(q, w) = 0 /\ j.at = "none" /\ j.seq = 0
  BY DEF FlightInv, JobInv
<1>3. Flying(q, w) = {}
  BY <1>1, <1>2, FlyingNone
<1> DEFINE v == Append(w, e)
<1>4. Flying(q, v) = {e} /\ Count(q, v) = 1 /\ v \in Seq(Events)
  BY <1>1, <1>2, <1>3, FlyingAppend
<1> HIDE DEF v
<1>5. Types(c, q, h, j, "gone", v, p)
  BY <1>4 DEF Types
<1>6. ~Waiting(j)
  BY <1>2 DEF Waiting
<1>7. FlightInv(q, j, "gone", v)
  BY <1>2, <1>4, <1>6 DEF FlightInv
<1>8. HeardInv(c, q, h, j, v)
  <2>1. Owed(c, h, j, e)
    BY DEF Owed
  <2> QED
    BY <2>1, <1>4 DEF HeardInv
<1>9. CoreInv(c, q, j, "gone", v)
  <2>1. c.at # "idle"
    BY DEF CoreInv
  <2>2. c.at \notin {"consume", "tools"} /\ (c.at = "acking" => c.seq = j.seq - 1)
    BY <1>2 DEF CoreInv, Answering
  <2>3. c.at # "acking"
    BY <2>2, <1>1, <1>2 DEF Clients
  <2> QED
    BY <2>1, <2>2, <2>3, <1>2 DEF CoreInv
<1>10. ReplyInv(c, q, h, j, "gone", v, p)
  BY <1>6, <1>2 DEF ReplyInv
<1>11. WholeInv(c, q, j, v)
  BY <1>4 DEF WholeInv
<1> QED
  BY <1>5, <1>7, <1>8, <1>9, <1>10, <1>11 DEF v

LEMMA Loses ==
  ASSUME NEW c, NEW q, NEW h, NEW j, NEW s, NEW w, NEW p, NEW c2,
         Sound(c, q, h, j, s, w, p), s = "sent",
         c2 \in Clients, c2.at = c.at, c2.seq = c.seq, c2.cur = c.cur, c2.ran = c.ran,
         c2.result = c.result
  PROVE  Sound(c2, q, h, j, "gone", w, p)
<1> USE DEF Sound
<1>1. HeardInv(c2, q, h, j, w)
  <2>1. ASSUME NEW x PROVE Owed(c2, h, j, x) <=> Owed(c, h, j, x)
    BY DEF Owed, Even
  <2> QED
    BY <2>1 DEF HeardInv, Even
<1>2. Types(c2, q, h, j, "gone", w, p) /\ FlightInv(q, j, "gone", w)
  BY DEF Types, FlightInv
<1>3. CoreInv(c2, q, j, "gone", w)
  BY DEF CoreInv, Answering
<1>4. ReplyInv(c2, q, h, j, "gone", w, p) /\ WholeInv(c2, q, j, w)
  BY DEF ReplyInv, WholeInv, Even
<1> QED
  BY <1>1, <1>2, <1>3, <1>4

LEMMA Admits ==
  ASSUME NEW c, NEW q, NEW h, NEW j, NEW s, NEW w, NEW p, NEW j2,
         Sound(c, q, h, j, s, w, p), s = "sent",
         j2 \in JobStates, j2.at = "new", j2.seq = j.seq, j2.made = j.made,
         j2.asked = j.asked, j2.calls = j.calls, j2.left = j.left
  PROVE  Sound(c, q, h, j2, "gone", w, p)
<1> USE DEF Sound
<1>1. Count(q, w) = 0 /\ j.at = "none" /\ ~Waiting(j2)
  BY DEF FlightInv, Waiting
<1>2. Flying(q, w) = {}
  BY <1>1, FlyingNone DEF Types
<1>3. Types(c, q, h, j2, "gone", w, p) /\ JobInv(j2)
  BY <1>1 DEF Types, JobInv
<1>4. FlightInv(q, j2, "gone", w)
  BY <1>1, <1>2 DEF FlightInv
<1>5. HeardInv(c, q, h, j2, w)
  BY <1>1, <1>2 DEF HeardInv, Even, CoreInv, Answering, Owed
<1>6. CoreInv(c, q, j2, "gone", w)
  BY <1>1 DEF CoreInv, Answering
<1>7. ReplyInv(c, q, h, j2, "gone", w, p)
  BY <1>1 DEF ReplyInv
<1>8. WholeInv(c, q, j2, w)
  BY <1>1, <1>2 DEF WholeInv
<1> QED
  BY <1>3, <1>4, <1>5, <1>6, <1>7, <1>8

\* The job sends its next event, and waits.
LEMMA SendsEvent ==
  ASSUME NEW c, NEW q, NEW h, NEW j, NEW s, NEW w, NEW p, NEW j2, NEW e,
         Sound(c, q, h, j, s, w, p), j.at \in {"new", "think", "calls"},
         e \in Events, e.seq = j.seq,
         j2 \in JobStates, j2.at = "event", j2.sent = e, j2.seq = j.seq,
         j2.calls = j.calls,
         \/ /\ e.kind = "chunk" /\ j.at = "think" /\ e.n = j2.made
            /\ j2.made = j.made + 1 /\ j2.asked = j.asked /\ j2.left = j.left
         \/ /\ e.kind = "tools" /\ j.at = "calls"
            /\ j2.made = j.made /\ j2.asked = j.asked + 1 /\ j2.left = j.left - 1
         \/ /\ e.kind \in {"started", "complete", "error"}
            /\ j2.made = j.made /\ j2.asked = j.asked /\ j2.left = j.left
            /\ e.kind = "started" => j.at = "new"
            /\ e.kind = "complete" => j.made > 0 /\ e.n = j.made
  PROVE  Sound(c, q, h, j2, s, Append(w, e), p)
<1> USE DEF Sound
<1>1. /\ q \in Seq(Events) /\ w \in Seq(Events) /\ c \in Clients /\ j \in JobStates
      /\ h \in Seq(1 .. MaxChunks)
  BY DEF Types
<1>2. /\ c.ran \in Nat /\ c.seq \in Nat /\ Len(h) \in Nat
      /\ j.seq \in Nat /\ j.made \in Nat /\ j.asked \in Nat /\ j.left \in Nat /\ j.calls \in Nat
      /\ j2.made \in Nat /\ j2.asked \in Nat /\ j2.left \in Nat
  BY <1>1 DEF Clients, JobStates
<1>3. Count(q, w) = 0 /\ s = "gone"
  BY DEF FlightInv
<1>4. Flying(q, w) = {}
  BY <1>1, <1>3, FlyingNone
<1> DEFINE v == Append(w, e)
<1>5. Flying(q, v) = {e} /\ Count(q, v) = 1 /\ v \in Seq(Events)
  BY <1>1, <1>3, <1>4, FlyingAppend
<1> HIDE DEF v
<1>6. Types(c, q, h, j2, s, v, p)
  BY <1>5 DEF Types
<1>7. Waiting(j2) <=> e.kind # "error"
  BY DEF Waiting
<1>8. JobInv(j2)
  <2>1. /\ j.asked + j.left <= j.calls /\ (j.at = "calls" => j.left > 0)
        /\ j.at = "new" => j.seq = 0 /\ j.made = 0 /\ j.asked = 0
        /\ j.at \in {"think", "calls"} => j.seq = 1 + j.made + j.asked
    BY DEF JobInv
  <2>2. CASE e.kind = "chunk"
    BY <2>1, <2>2, <1>2, <1>7, SMTT(30) DEF JobInv
  <2>3. CASE e.kind = "tools"
    <3>1. /\ j.at = "calls" /\ j2.made = j.made /\ j2.asked = j.asked + 1
          /\ j2.left = j.left - 1
      BY <2>3
    <3>2. /\ j.left > 0 /\ j.seq = 1 + j.made + j.asked
          /\ j.asked + j.left <= j.calls
      BY <3>1, <2>1
    <3>3. (j.asked + 1) + (j.left - 1) <= j.calls
      BY <3>2, <1>2
    <3>4. j.seq = j.made + (j.asked + 1)
      <4>1. \A a, m, n \in Nat : n = 1 + m + a => n = m + (a + 1)
        OBVIOUS
      <4>2. j.seq = 1 + j.made + j.asked
        BY <3>2
      <4>3. j.asked \in Nat /\ j.made \in Nat /\ j.seq \in Nat
        BY <1>2
      <4> QED
        BY <4>1, <4>2, <4>3, Zenon
    <3>5. j2.asked + j2.left <= j2.calls /\ j2.seq = j2.made + j2.asked
      BY <3>1, <3>3, <3>4
    <3> QED
      BY <2>3, <3>5, <1>2, <1>7 DEF JobInv
  <2>4. CASE e.kind \in {"started", "complete", "error"}
    <3>1. j.seq <= 1 + j.made + j.asked
      BY <2>1, <1>2, SMTT(30)
    <3> QED
      BY <2>1, <2>4, <3>1, <1>2, <1>7 DEF JobInv
  <2> QED
    BY <2>2, <2>3, <2>4
<1>9. FlightInv(q, j2, s, v)
  BY <1>3, <1>5, <1>7 DEF FlightInv
<1>10. Even(c, h, j)
  BY DEF HeardInv
<1>11. Owed(c, h, j2, e)
  BY <1>2, <1>10 DEF Owed, Even
<1>12. c.at \in {"wait", "acking", "done"} /\ c.result # "ok"
  <2>1. c.at \notin {"consume", "tools", "idle"}
    BY <1>3 DEF CoreInv, Answering
  <2>2. c.result # "ok"
    BY DEF WholeInv
  <2> QED
    BY <2>1, <2>2, <1>1 DEF Clients
<1>13. c.at = "acking" => c.seq = j.seq - 1 /\ c.cur.kind # "complete"
  BY DEF CoreInv, Answering
<1>14. c.at = "wait" => c.seq = j.seq
  BY <1>2 DEF CoreInv
<1>15. HeardInv(c, q, h, j2, v)
  <2>1. \A x \in Flying(q, v) : Owed(c, h, j2, x)
    BY <1>5, <1>11
  <2>2. /\ Waiting(j2) /\ j2.sent.kind # "chunk" => j2.made = Len(h)
        /\ Waiting(j2) /\ j2.sent.kind # "tools" => j2.asked = c.ran
    BY <1>10 DEF Even
  <2>3. /\ Len(h) <= j2.made /\ j2.made <= Len(h) + 1
        /\ c.ran <= j2.asked /\ j2.asked <= c.ran + 1
    BY <1>2, <1>10 DEF Even
  <2>4. \A i \in DOMAIN h : h[i] = i
    BY DEF HeardInv
  <2> QED
    BY <2>1, <2>2, <2>3, <2>4, <1>12, <1>13 DEF HeardInv
<1>16. CoreInv(c, q, j2, s, v)
  <2>1. c.at # "done" <=> c.result = "none"
    BY DEF CoreInv
  <2>2. c.at = "acking" => c.cur.kind \in {"started", "chunk"} /\ c.cur.seq = c.seq
    BY <1>13 DEF CoreInv
  <2> QED
    BY <2>1, <2>2, <1>2, <1>12, <1>13, <1>14 DEF CoreInv
<1>17. ReplyInv(c, q, h, j2, s, v, p)
  <2>1. p.kind # "none" => p.seq < j.seq /\ p.kind # "error"
    BY DEF ReplyInv
  <2>2. e.kind # "none" /\ e.seq = j.seq
    OBVIOUS
  <2>3. p # e
    BY <2>1, <2>2, <1>2
  <2>4. p.kind # "none" => p.seq <= j.seq
    BY DEF ReplyInv
  <2> QED
    BY <2>1, <2>3, <2>4, <1>3 DEF ReplyInv
<1>18. WholeInv(c, q, j2, v)
  <2>1. c.cur.kind # "complete"
    BY DEF WholeInv
  <2> QED
    BY <2>1, <1>5, <1>7, <1>12 DEF WholeInv
<1> QED
  BY <1>6, <1>8, <1>9, <1>15, <1>16, <1>17, <1>18 DEF v

\* An error follows the event that has not been acknowledged.
LEMMA SendsError ==
  ASSUME NEW c, NEW q, NEW h, NEW j, NEW s, NEW w, NEW p, NEW j2, NEW e,
         Sound(c, q, h, j, s, w, p), Waiting(j),
         e \in Events, e.seq = j.seq, e.kind = "error",
         j2 \in JobStates, j2.at = "event", j2.sent = e, j2.seq = j.seq,
         j2.calls = j.calls, j2.made = j.made, j2.asked = j.asked, j2.left = j.left
  PROVE  Sound(c, q, h, j2, s, Append(w, e), p)
<1> USE DEF Sound
<1>1. q \in Seq(Events) /\ w \in Seq(Events) /\ c \in Clients /\ j \in JobStates
  BY DEF Types
<1>2. Count(q, w) <= 1 /\ s = "gone" /\ Count(q, w) \in Nat
  BY <1>1 DEF FlightInv, Waiting, Count
<1> DEFINE v == Append(w, e)
<1>3. /\ Flying(q, v) = Flying(q, w) \cup {e} /\ Count(q, v) = Count(q, w) + 1
      /\ Later(q, v) = e /\ v \in Seq(Events)
  BY <1>1, FlyingAppend
<1> HIDE DEF v
<1>4. ~Waiting(j2) /\ j.at = "event"
  BY DEF Waiting
<1>5. Types(c, q, h, j2, s, v, p)
  BY <1>3 DEF Types
<1>6. JobInv(j2)
  BY <1>4 DEF JobInv
<1>7. FlightInv(q, j2, s, v)
  BY <1>2, <1>3, <1>4 DEF FlightInv
<1>8. HeardInv(c, q, h, j2, v)
  <2>1. ASSUME NEW x PROVE Owed(c, h, j2, x) <=> Owed(c, h, j, x)
    BY DEF Owed, Even
  <2>2. Owed(c, h, j2, e)
    BY DEF Owed
  <2> QED
    BY <2>1, <2>2, <1>3, <1>4 DEF HeardInv, Even
<1>9. CoreInv(c, q, j2, s, v)
  <2>1. AllErrors(q, w) => AllErrors(q, v)
    BY <1>3 DEF AllErrors
  <2>2. Answering(c, q, j, w) => Answering(c, q, j2, v)
    BY <2>1, <1>4 DEF Answering
  <2> QED
    BY <2>1, <2>2, <1>4 DEF CoreInv
<1>10. ReplyInv(c, q, h, j2, s, v, p)
  BY <1>4 DEF ReplyInv
<1>11. WholeInv(c, q, j2, v)
  BY <1>3, <1>4 DEF WholeInv
<1> QED
  BY <1>5, <1>6, <1>7, <1>8, <1>9, <1>10, <1>11 DEF v

\* The job is about to end.
LEMMA Closes ==
  ASSUME NEW c, NEW q, NEW h, NEW j, NEW s, NEW w, NEW p, NEW j2,
         Sound(c, q, h, j, s, w, p), j.at # "none",
         j2 \in JobStates, j2.at \in {"closing", "ended"}, j2.seq = j.seq,
         j2.calls = j.calls, j2.made = j.made, j2.asked = j.asked, j2.left = j.left
  PROVE  Sound(c, q, h, j2, s, w, p)
<1> USE DEF Sound
<1>1. ~Waiting(j2)
  BY DEF Waiting
<1>2. Types(c, q, h, j2, s, w, p) /\ JobInv(j2)
  BY <1>1 DEF Types, JobInv
<1>3. FlightInv(q, j2, s, w)
  BY <1>1 DEF FlightInv
<1>4. HeardInv(c, q, h, j2, w)
  <2>1. ASSUME NEW x PROVE Owed(c, h, j2, x) <=> Owed(c, h, j, x)
    BY DEF Owed, Even
  <2> QED
    BY <2>1, <1>1 DEF HeardInv, Even
<1>5. CoreInv(c, q, j2, s, w)
  <2>1. Answering(c, q, j, w) => Answering(c, q, j2, w)
    BY <1>1 DEF Answering
  <2> QED
    BY <2>1 DEF CoreInv
<1>6. ReplyInv(c, q, h, j2, s, w, p) /\ WholeInv(c, q, j2, w)
  BY <1>1 DEF ReplyInv, WholeInv
<1> QED
  BY <1>2, <1>3, <1>4, <1>5, <1>6

\* The acknowledgment has come: the job counts on.
LEMMA CountsOn ==
  ASSUME NEW c, NEW q, NEW h, NEW j, NEW s, NEW w, NEW p, NEW j2,
         Sound(c, q, h, j, s, w, p), Waiting(j), p = j.sent, j.sent.kind # "complete",
         j2.at \in {"think", "calls"}, j2.seq = j.seq + 1,
         j2.calls = j.calls, j2.made = j.made, j2.asked = j.asked,
         j2.left \in {0, j.left}, j2.at = "calls" => j2.left > 0,
         j2 \in JobStates
  PROVE  Sound(c, q, h, j2, s, w, p)
<1> USE DEF Sound
<1>1. /\ q \in Seq(Events) /\ w \in Seq(Events) /\ c \in Clients /\ j \in JobStates
      /\ j.sent \in Events
  BY DEF Types, JobStates
<1>2. /\ Count(q, w) = 0 /\ Even(c, h, j)
      /\ \/ c.at = "done"
         \/ c.at = "wait" /\ c.seq = j.seq + 1
         \/ c.at = "acking" /\ c.seq = j.seq
  BY DEF ReplyInv
<1>3. Flying(q, w) = {}
  BY <1>1, <1>2, FlyingNone
<1>4. ~Waiting(j2) /\ Even(c, h, j2) /\ j.at = "event"
  BY <1>2 DEF Waiting, Even
<1>5. /\ j.seq \in Nat /\ c.seq \in Nat /\ j.made \in Nat /\ j.asked \in Nat
      /\ j.left \in Nat /\ j.calls \in Nat /\ Len(h) \in Nat /\ c.ran \in Nat
  BY <1>1 DEF JobStates, Clients, Types
<1>6. JobInv(j2)
  <2>1. j.sent.kind \in {"started", "chunk", "tools"}
    BY <1>1, <1>4 DEF JobInv, Waiting, Events
  <2>2. j2.seq = 1 + j2.made + j2.asked
    BY <2>1, <1>5, SMTT(30) DEF JobInv
  <2>3. j2.asked + j2.left <= j2.calls
    BY <1>5, SMTT(30) DEF JobInv
  <2> QED
    BY <2>2, <2>3, <1>4, <1>5 DEF JobInv
<1>7. s = "gone"
  BY <1>4 DEF FlightInv
<1>8. Types(c, q, h, j2, s, w, p)
  BY DEF Types
<1>9. FlightInv(q, j2, s, w)
  BY <1>2, <1>3, <1>4, <1>7 DEF FlightInv
<1>10. c.cur.kind # "complete" /\ c.result # "ok"
  BY DEF WholeInv
<1>11. HeardInv(c, q, h, j2, w)
  BY <1>2, <1>3, <1>4, <1>5, <1>10 DEF HeardInv, Even
<1>12. CoreInv(c, q, j2, s, w)
  <2>1. (c.at # "done" <=> c.result = "none") /\ c.at # "idle"
    BY <1>2 DEF CoreInv
  <2>2. c.at = "acking" => c.cur.kind \in {"started", "chunk", "complete"} /\ c.cur.seq = c.seq
    BY DEF CoreInv
  <2> QED
    BY <2>1, <2>2, <1>2, <1>5, <1>10 DEF CoreInv
<1>13. ReplyInv(c, q, h, j2, s, w, p)
  <2>1. p.seq = j.seq /\ p.kind # "error"
    BY <1>4 DEF JobInv, Waiting
  <2> QED
    BY <2>1, <1>4, <1>5, <1>7 DEF ReplyInv
<1>14. WholeInv(c, q, j2, w)
  BY <1>3, <1>10 DEF WholeInv
<1> QED
  BY <1>6, <1>8, <1>9, <1>11, <1>12, <1>13, <1>14

\* Between two events the job takes up calls, or has run one on its own.
LEMMA Thinks ==
  ASSUME NEW c, NEW q, NEW h, NEW j, NEW s, NEW w, NEW p, NEW j2,
         Sound(c, q, h, j, s, w, p), j.at \in {"think", "calls"},
         j2 \in JobStates, j2.at \in {"think", "calls"}, j2.seq = j.seq,
         j2.made = j.made, j2.asked = j.asked, j2.asked + j2.left <= j2.calls,
         j2.at = "calls" => j2.left > 0
  PROVE  Sound(c, q, h, j2, s, w, p)
<1> USE DEF Sound
<1>1. ~Waiting(j2) /\ ~Waiting(j)
  BY DEF Waiting
<1>2. Types(c, q, h, j2, s, w, p) /\ JobInv(j2)
  BY <1>1 DEF Types, JobInv
<1>3. FlightInv(q, j2, s, w)
  BY <1>1 DEF FlightInv
<1>4. HeardInv(c, q, h, j2, w)
  <2>1. ASSUME NEW x PROVE Owed(c, h, j2, x) <=> Owed(c, h, j, x)
    BY DEF Owed, Even
  <2> QED
    BY <2>1, <1>1 DEF HeardInv, Even
<1>5. CoreInv(c, q, j2, s, w)
  BY <1>1 DEF CoreInv, Answering
<1>6. ReplyInv(c, q, h, j2, s, w, p) /\ WholeInv(c, q, j2, w)
  BY <1>1 DEF ReplyInv, WholeInv
<1> QED
  BY <1>2, <1>3, <1>4, <1>5, <1>6

\* An acknowledgment does not survive the worker's connection.
LEMMA Forgets ==
  ASSUME NEW c, NEW q, NEW h, NEW j, NEW s, NEW w, NEW p, NEW p2,
         Sound(c, q, h, j, s, w, p), p2 \in Events, p2.kind = "none"
  PROVE  Sound(c, q, h, j, s, w, p2)
<1> USE DEF Sound
<1>1. Types(c, q, h, j, s, w, p2)
  BY DEF Types
<1>2. Waiting(j) => p2 # j.sent
  BY DEF JobInv, Waiting
<1>3. ReplyInv(c, q, h, j, s, w, p2)
  BY <1>2 DEF ReplyInv
<1> QED
  BY <1>1, <1>3

-----------------------------------------------------------------------------
(* The steps of the client.                                                *)

Elsewhere(r) == \A k \in Requests \ {r} :
    /\ core'[k] = core[k] /\ inbox'[k] = inbox[k] /\ heard'[k] = heard[k]
    /\ job'[k] = job[k] /\ request'[k] = request[k] /\ wire'[k] = wire[k]
    /\ reply'[k] = reply[k]

LEMMA JobSteps ==
  ASSUME IInv, NEW r \in Requests, Shapes', SoundAt(r)', Elsewhere(r), cancel' \subseteq Jobs'
  PROVE  IInv'
<1>1. ASSUME NEW k \in Requests, k # r PROVE SoundAt(k)'
  BY <1>1 DEF IInv, SoundAt, Elsewhere
<1> QED
  BY <1>1 DEF IInv

LEMMA Results ==
  ASSUME NEW c, NEW q, NEW h, NEW j, NEW s, NEW w, NEW p, Sound(c, q, h, j, s, w, p)
  PROVE  c.at # "done" => c.result = "none"
BY DEF Sound, CoreInv

LEMMA EndsEffect ==
  ASSUME Shapes, NEW r \in Requests, NEW res \in {"ok", "failed"}, Ends(r, res)
  PROVE  /\ core' \in [Requests -> Clients] /\ inbox' \in [Requests -> Seq(Events)]
         /\ hint' \subseteq Requests /\ core'[r] \in Clients
         /\ core'[r].at = "done" /\ core'[r].result = res /\ core'[r].cur.kind = "none"
         /\ core'[r].seq = core[r].seq /\ core'[r].ran = core[r].ran
         /\ inbox'[r] = << >>
         /\ \A k \in Requests \ {r} : core'[k] = core[k] /\ inbox'[k] = inbox[k]
<1>1. core \in [Requests -> Clients] /\ inbox \in [Requests -> Seq(Events)]
      /\ hint \subseteq Requests
  BY DEF Shapes
<1>2. /\ core' = [core EXCEPT ![r].at = "done", ![r].result = res, ![r].cur = None]
      /\ inbox' = [inbox EXCEPT ![r] = << >>] /\ hint' \subseteq hint \cup {r}
  BY DEF Ends
<1>3. None \in Events /\ None.kind = "none"
  BY NoneIsEvent
<1>4. core'[r] \in Clients
  BY <1>1, <1>2, <1>3 DEF Clients
<1>5. /\ core'[r].at = "done" /\ core'[r].result = res /\ core'[r].cur = None
      /\ core'[r].seq = core[r].seq /\ core'[r].ran = core[r].ran
  BY <1>1, <1>2, <1>3 DEF Clients
<1>6. core' \in [Requests -> Clients] /\ \A k \in Requests \ {r} : core'[k] = core[k]
  BY <1>1, <1>2, <1>4, Zenon
<1>7. << >> \in Seq(Events)
  OBVIOUS
<1>8. /\ inbox' \in [Requests -> Seq(Events)] /\ inbox'[r] = << >>
      /\ \A k \in Requests \ {r} : inbox'[k] = inbox[k]
  BY <1>1, <1>2, <1>7, Zenon
<1> QED
  BY <1>1, <1>2, <1>3, <1>4, <1>5, <1>6, <1>8

\* The client ends, and the rest is as it was or gone from its inbox.
LEMMA EndsStep ==
  ASSUME IInv, NEW r \in Requests, core[r].at # "done", Ends(r, "failed"),
         reply' = reply \/
           \E e \in Flying(inbox[r], wire[r]) :
              e.kind = "error" /\ reply' = [reply EXCEPT ![r] = e],
         UNCHANGED <<heard, job, request, wire, tombs, cancel, link>>
  PROVE  IInv'
<1>1. Shapes /\ SoundAt(r) /\ cancel \subseteq Jobs
  BY DEF IInv
<1>2. /\ core' \in [Requests -> Clients] /\ inbox' \in [Requests -> Seq(Events)]
      /\ hint' \subseteq Requests /\ core'[r] \in Clients
      /\ core'[r].at = "done" /\ core'[r].result = "failed" /\ core'[r].cur.kind = "none"
      /\ core'[r].seq = core[r].seq /\ core'[r].ran = core[r].ran
      /\ inbox'[r] = << >>
      /\ \A k \in Requests \ {r} : core'[k] = core[k] /\ inbox'[k] = inbox[k]
  BY <1>1, EndsEffect
<1>3. core[r].result # "ok"
  BY <1>1, Results DEF SoundAt
<1>4. reply \in [Requests -> Events] /\ Flying(inbox[r], wire[r]) \subseteq Events
  BY <1>1 DEF Shapes, Flying
<1>5. /\ reply' \in [Requests -> Events]
      /\ \A k \in Requests \ {r} : reply'[k] = reply[k]
      /\ \/ reply'[r] = reply[r]
         \/ reply'[r] \in Flying(inbox[r], wire[r]) /\ reply'[r].kind = "error"
  <2>1. CASE reply' = reply
    BY <2>1, <1>4
  <2>2. ASSUME NEW e \in Flying(inbox[r], wire[r]), e.kind = "error",
               reply' = [reply EXCEPT ![r] = e]
        PROVE  <1>5!1 /\ <1>5!2 /\ <1>5!3
    <3>1. e \in Events
      BY <1>4
    <3>2. /\ reply' \in [Requests -> Events] /\ reply'[r] = e
          /\ \A k \in Requests \ {r} : reply'[k] = reply[k]
      BY <2>2, <3>1, <1>4, Zenon
    <3> QED
      BY <3>2, <2>2
  <2> QED
    BY <2>1, <2>2
<1>6. Sound(core'[r], << >>, heard[r], job[r], request[r], wire[r], reply'[r])
  <2>1. Sound(core[r], inbox[r], heard[r], job[r], request[r], wire[r], reply[r])
    BY <1>1 DEF SoundAt
  <2>2. \/ reply'[r] = reply[r]
        \/ reply'[r] \in Flying(inbox[r], wire[r]) /\ reply'[r].kind = "error"
    BY <1>5
  <2> QED
    BY <1>2, <1>3, <2>1, <2>2, Fails
<1>7. SoundAt(r)'
  BY <1>2, <1>6 DEF SoundAt
<1>8. Shapes' /\ Elsewhere(r) /\ cancel' \subseteq Jobs'
  BY <1>1, <1>2, <1>5 DEF Shapes, Elsewhere, link, Jobs
<1> QED
  BY <1>7, <1>8, JobSteps

LEMMA Opens ==
  ASSUME NEW c, NEW q, NEW h, NEW j, NEW s, NEW w, NEW p, NEW c2,
         Sound(c, q, h, j, s, w, p), c.at = "idle",
         c2 \in Clients, c2.at = "wait", c2.seq = c.seq, c2.cur = c.cur, c2.ran = c.ran,
         c2.result = c.result
  PROVE  Sound(c2, q, h, j, "sent", w, p)
<1> USE DEF Sound
<1>1. s = "unsent" /\ c.seq = 0 /\ Count(q, w) = 0 /\ j.at = "none" /\ j.seq = 0
  BY DEF CoreInv, FlightInv, JobInv
<1>2. HeardInv(c2, q, h, j, w)
  <2>1. ASSUME NEW x PROVE Owed(c2, h, j, x) <=> Owed(c, h, j, x)
    BY DEF Owed, Even
  <2> QED
    BY <2>1 DEF HeardInv, Even
<1>3. Types(c2, q, h, j, "sent", w, p) /\ FlightInv(q, j, "sent", w)
  BY <1>1 DEF Types, FlightInv
<1>4. CoreInv(c2, q, j, "sent", w)
  BY <1>1 DEF CoreInv
<1>5. ReplyInv(c2, q, h, j, "sent", w, p) /\ WholeInv(c2, q, j, w)
  BY <1>1 DEF ReplyInv, WholeInv, Waiting
<1> QED
  BY <1>2, <1>3, <1>4, <1>5

LEMMA OpenStep == ASSUME IInv, NEW r \in Requests, Open(r) PROVE IInv'
<1>1. Shapes /\ SoundAt(r) /\ cancel \subseteq Jobs /\ core[r].at = "idle"
  BY DEF IInv, Open
<1>2. CASE coreUp
  <2>1. /\ core' = [core EXCEPT ![r].at = "wait"]
        /\ request' = [request EXCEPT ![r] = "sent"]
        /\ UNCHANGED <<inbox, hint, heard, job, wire, reply, tombs, cancel, link>>
    BY <1>2 DEF Open
  <2>2. core \in [Requests -> Clients] /\ request \in [Requests -> {"unsent", "sent", "gone"}]
    BY <1>1 DEF Shapes
  <2>3. /\ core'[r] \in Clients /\ core'[r].at = "wait" /\ core'[r].seq = core[r].seq
        /\ core'[r].cur = core[r].cur /\ core'[r].ran = core[r].ran
        /\ core'[r].result = core[r].result
    BY <2>1, <2>2 DEF Clients
  <2>4. core' \in [Requests -> Clients] /\ \A k \in Requests \ {r} : core'[k] = core[k]
    BY <2>1, <2>2, <2>3, Zenon
  <2>5. /\ request' \in [Requests -> {"unsent", "sent", "gone"}] /\ request'[r] = "sent"
        /\ \A k \in Requests \ {r} : request'[k] = request[k]
    BY <2>1, <2>2
  <2>6. SoundAt(r)'
    <3>1. Sound(core'[r], inbox[r], heard[r], job[r], "sent", wire[r], reply[r])
      BY <1>1, <2>3, Opens DEF SoundAt
    <3> QED
      BY <3>1, <2>1, <2>5 DEF SoundAt
  <2>7. Shapes' /\ Elsewhere(r) /\ cancel' \subseteq Jobs'
    BY <1>1, <2>1, <2>4, <2>5 DEF Shapes, Elsewhere, link, Jobs
  <2> QED
    BY <2>6, <2>7, JobSteps
<1>3. CASE ~coreUp
  BY <1>1, <1>3, EndsStep DEF Open
<1> QED
  BY <1>2, <1>3

LEMMA GivesUpStep == ASSUME IInv, NEW r \in Requests, GivesUp(r) PROVE IInv'
BY EndsStep DEF GivesUp

LEMMA ReceiveStep == ASSUME IInv, NEW r \in Requests, Receive(r) PROVE IInv'
<1>1. Shapes /\ SoundAt(r) /\ cancel \subseteq Jobs
  BY DEF IInv
<1>2. /\ core \in [Requests -> Clients] /\ inbox \in [Requests -> Seq(Events)]
      /\ wire \in [Requests -> Seq(Events)]
  BY <1>1 DEF Shapes
<1>3. /\ wire[r] # << >> /\ wire' = [wire EXCEPT ![r] = Tail(@)]
      /\ UNCHANGED <<heard, job, request, reply, hint, tombs, cancel, link>>
  BY DEF Receive
<1> DEFINE q == inbox[r]  w == wire[r]
<1>4. q \in Seq(Events) /\ w \in Seq(Events) /\ w # << >> /\ core[r] \in Clients
  BY <1>2, <1>3
<1>5. Tail(w) \in Seq(Events)
  BY <1>4, FlyingTail
<1>6. /\ wire' \in [Requests -> Seq(Events)] /\ wire'[r] = Tail(w)
      /\ \A k \in Requests \ {r} : wire'[k] = wire[k]
  BY <1>2, <1>3, <1>5, Zenon
<1>7. /\ core' \in [Requests -> Clients] /\ inbox' \in [Requests -> Seq(Events)]
      /\ \A k \in Requests \ {r} : core'[k] = core[k] /\ inbox'[k] = inbox[k]
      /\ core'[r] \in Clients /\ core'[r].at = core[r].at /\ core'[r].seq = core[r].seq
      /\ core'[r].cur = core[r].cur /\ core'[r].ran = core[r].ran
      /\ core'[r].result = core[r].result
      /\ inbox'[r] = q \/ inbox'[r] = Append(q, Head(w))
  <2>1. CASE core' = core /\ inbox' = inbox
    BY <2>1, <1>2
  <2>2. CASE core' = core /\ inbox' = [inbox EXCEPT ![r] = Append(@, Head(wire[r]))]
    <3>1. Append(q, Head(w)) \in Seq(Events)
      BY <1>4, FlyingReceived
    <3>2. /\ inbox' \in [Requests -> Seq(Events)] /\ inbox'[r] = Append(q, Head(w))
          /\ \A k \in Requests \ {r} : inbox'[k] = inbox[k]
      BY <2>2, <3>1, <1>2, Zenon
    <3> QED
      BY <2>2, <3>2, <1>2
  <2>3. CASE core' = [core EXCEPT ![r].failed = TRUE] /\ inbox' = inbox
    <3>1. /\ core'[r] \in Clients /\ core'[r].at = core[r].at /\ core'[r].seq = core[r].seq
          /\ core'[r].cur = core[r].cur /\ core'[r].ran = core[r].ran
          /\ core'[r].result = core[r].result
      BY <2>3, <1>2 DEF Clients
    <3>2. core' \in [Requests -> Clients] /\ \A k \in Requests \ {r} : core'[k] = core[k]
      BY <2>3, <3>1, <1>2, Zenon
    <3> QED
      BY <2>3, <3>1, <3>2, <1>2
  <2> QED
    BY <2>1, <2>2, <2>3 DEF Receive
<1>8. /\ Flying(inbox'[r], Tail(w)) \subseteq Flying(q, w)
      /\ Count(inbox'[r], Tail(w)) <= Count(q, w)
      /\ Count(inbox'[r], Tail(w)) = 2 => Later(inbox'[r], Tail(w)) = Later(q, w)
  <2>1. Count(q, w) <= 2 /\ Count(q, w) \in Int
    <3>1. Count(q, w) \in Int
      BY <1>4 DEF Count
    <3>2. Count(q, w) <= 2
      BY <1>1 DEF SoundAt, Sound, FlightInv
    <3> QED
      BY <3>1, <3>2
  <2>2. CASE inbox'[r] = q
    BY <2>1, <2>2, <1>4, FlyingTail
  <2>3. CASE inbox'[r] = Append(q, Head(w))
    BY <2>1, <2>3, <1>4, FlyingReceived
  <2> QED
    BY <2>2, <2>3, <1>7
<1>9. inbox'[r] \in Seq(Events)
  BY <1>7
<1>10. Sound(core'[r], inbox'[r], heard[r], job[r], request[r], Tail(w), reply[r])
  BY <1>1, <1>5, <1>7, <1>8, <1>9, Flies DEF SoundAt
<1>11. SoundAt(r)'
  BY <1>3, <1>6, <1>10 DEF SoundAt
<1>12. Shapes' /\ Elsewhere(r) /\ cancel' \subseteq Jobs'
  BY <1>1, <1>3, <1>6, <1>7 DEF Shapes, Elsewhere, link, Jobs
<1> QED
  BY <1>11, <1>12, JobSteps

LEMMA TakeStep == ASSUME IInv, NEW r \in Requests, Take(r) PROVE IInv'
<1>1. Shapes /\ SoundAt(r) /\ cancel \subseteq Jobs /\ core[r].at = "wait" /\ inbox[r] # << >>
  BY DEF IInv, Take
<1> DEFINE e == Head(inbox[r])  q == inbox[r]  w == wire[r]
<1>2. /\ core \in [Requests -> Clients] /\ inbox \in [Requests -> Seq(Events)]
      /\ wire \in [Requests -> Seq(Events)] /\ reply \in [Requests -> Events]
      /\ core[r] \in Clients /\ q \in Seq(Events) /\ w \in Seq(Events)
  BY <1>1 DEF Shapes
<1>3. UNCHANGED <<heard, job, request, wire, tombs, cancel, link>>
  BY DEF Take
<1>4. CASE Expected(r)
  <2>1. e.seq = core[r].seq /\ e.kind # "error"
    BY <1>4 DEF Expected
  <2>2. /\ e \in Events /\ Tail(q) \in Seq(Events) /\ e.kind # "none"
        /\ e.kind = "tools" => core[r].ran + 1 \in 0 .. MaxCalls
    BY <1>1, <2>1, TakesFacts DEF SoundAt
  <2>3. e.kind \in {"started", "chunk", "tools", "complete"}
    BY <2>1, <2>2 DEF Events
  <2>4. /\ inbox' = [inbox EXCEPT ![r] = Tail(@)] /\ hint' = hint
        /\ core' = [core EXCEPT ![r].cur = e,
                   ![r].ran = IF e.kind = "tools" THEN @ + 1 ELSE @,
                   ![r].at = CASE e.kind = "chunk" -> "consume"
                               [] e.kind = "tools" -> "tools"
                               [] OTHER -> "acking"]
        /\ reply' = IF e.kind \in {"started", "complete"}
                    THEN [reply EXCEPT ![r] = e] ELSE reply
    BY <1>4 DEF Take
  <2>5. /\ inbox' \in [Requests -> Seq(Events)] /\ inbox'[r] = Tail(q)
        /\ \A k \in Requests \ {r} : inbox'[k] = inbox[k]
    BY <1>2, <2>2, <2>4, Zenon
  <2>6. PICK to, n : /\ core' = [core EXCEPT ![r].cur = e, ![r].ran = n, ![r].at = to]
                     /\ to = CASE e.kind = "chunk" -> "consume"
                               [] e.kind = "tools" -> "tools"
                               [] OTHER -> "acking"
                     /\ n = IF e.kind = "tools" THEN core[r].ran + 1 ELSE core[r].ran
    BY <1>2, <2>4, Zenon
  <2>7. n \in 0 .. MaxCalls /\ to \in {"consume", "tools", "acking"}
    BY <1>2, <2>2, <2>6 DEF Clients
  <2> HIDE DEF e
  <2>8. /\ core'[r] \in Clients /\ core'[r].at = to /\ core'[r].seq = core[r].seq
        /\ core'[r].cur = e /\ core'[r].ran = n /\ core'[r].result = core[r].result
    BY <1>2, <2>2, <2>6, <2>7 DEF Clients
  <2>9. core' \in [Requests -> Clients] /\ \A k \in Requests \ {r} : core'[k] = core[k]
    BY <1>2, <2>6, <2>8, ZenonT(40)
  <2>10. CASE e.kind \in {"chunk", "tools"}
    <3>1. reply' = reply
      BY <2>4, <2>10
    <3>2. \/ e.kind = "chunk" /\ to = "consume" /\ n = core[r].ran
          \/ e.kind = "tools" /\ to = "tools" /\ n = core[r].ran + 1
      BY <2>6, <2>10
    <3>3. Sound(core'[r], Tail(q), heard[r], job[r], request[r], w, reply[r])
      BY <1>1, <2>1, <2>8, <2>10, <3>2, TakesUp DEF SoundAt, e
    <3>4. SoundAt(r)'
      BY <3>3, <3>1, <2>5, <1>3 DEF SoundAt
    <3>5. Shapes' /\ Elsewhere(r) /\ cancel' \subseteq Jobs'
      BY <1>1, <1>3, <2>4, <2>5, <2>9, <3>1 DEF Shapes, Elsewhere, link, Jobs
    <3> QED
      BY <3>4, <3>5, JobSteps
  <2>11. CASE e.kind \in {"started", "complete"}
    <3>1. reply' = [reply EXCEPT ![r] = e]
      BY <2>4, <2>11
    <3>2. /\ reply' \in [Requests -> Events] /\ reply'[r] = e
          /\ \A k \in Requests \ {r} : reply'[k] = reply[k]
      BY <1>2, <2>2, <3>1, Zenon
    <3>3. to = "acking" /\ n = core[r].ran
      BY <2>6, <2>11
    <3>4. Sound(core'[r], Tail(q), heard[r], job[r], request[r], w, e)
      BY <1>1, <2>1, <2>8, <2>11, <3>3, TakesMark DEF SoundAt, e
    <3>5. SoundAt(r)'
      BY <3>2, <3>4, <2>5, <1>3 DEF SoundAt
    <3>6. Shapes' /\ Elsewhere(r) /\ cancel' \subseteq Jobs'
      BY <1>1, <1>3, <2>4, <2>5, <2>9, <3>2 DEF Shapes, Elsewhere, link, Jobs
    <3> QED
      BY <3>5, <3>6, JobSteps
  <2> QED
    BY <2>3, <2>10, <2>11
<1>5. CASE ~Expected(r)
  <2>1. /\ Ends(r, "failed")
        /\ reply' = IF e.kind = "error" /\ e.seq = core[r].seq /\ Live(r)
                    THEN [reply EXCEPT ![r] = e] ELSE reply
    BY <1>5 DEF Take
  <2>2. e \in Flying(q, w)
    <3>1. 1 \in DOMAIN q /\ e = q[1]
      BY <1>1, <1>2
    <3> QED
      BY <3>1 DEF Flying
  <2>3. reply' = reply \/ \E x \in Flying(q, w) :
                             x.kind = "error" /\ reply' = [reply EXCEPT ![r] = x]
    BY <2>1, <2>2
  <2> QED
    BY <1>1, <1>3, <2>1, <2>3, EndsStep
<1> QED
  BY <1>4, <1>5

LEMMA ConsumeStep == ASSUME IInv, NEW r \in Requests, Consume(r) PROVE IInv'
<1>1. Shapes /\ SoundAt(r) /\ cancel \subseteq Jobs /\ core[r].at = "consume"
  BY DEF IInv, Consume
<1>2. /\ core \in [Requests -> Clients] /\ reply \in [Requests -> Events]
      /\ heard \in [Requests -> Seq(1 .. MaxChunks)] /\ core[r] \in Clients
      /\ core[r].cur \in Events
  BY <1>1 DEF Shapes, Clients
<1>3. /\ heard' = [heard EXCEPT ![r] = Append(@, core[r].cur.n)]
      /\ UNCHANGED <<job, request, wire, tombs, cancel, link>>
  BY DEF Consume
<1> DEFINE g == Append(heard[r], core[r].cur.n)
<1>4. /\ core' \in [Requests -> Clients] /\ inbox' \in [Requests -> Seq(Events)]
      /\ hint' \subseteq Requests /\ reply' \in [Requests -> Events]
      /\ \A k \in Requests \ {r} : core'[k] = core[k] /\ inbox'[k] = inbox[k]
                                   /\ reply'[k] = reply[k]
      /\ core'[r] \in Clients /\ core'[r].seq = core[r].seq /\ core'[r].ran = core[r].ran
      /\ \/ core'[r].at = "acking" /\ core'[r].cur = core[r].cur /\ core'[r].result = "none"
               /\ inbox'[r] = inbox[r] /\ reply'[r] = core[r].cur
         \/ core'[r].at = "done" /\ core'[r].result = "failed" /\ core'[r].cur.kind = "none"
               /\ inbox'[r] = << >> /\ reply'[r] = reply[r]
  <2>1. CASE Live(r)
    <3>1. /\ reply' = [reply EXCEPT ![r] = core[r].cur]
          /\ core' = [core EXCEPT ![r].at = "acking"] /\ UNCHANGED <<inbox, hint>>
      BY <2>1 DEF Consume
    <3>2. /\ core'[r] \in Clients /\ core'[r].at = "acking" /\ core'[r].seq = core[r].seq
          /\ core'[r].cur = core[r].cur /\ core'[r].ran = core[r].ran
          /\ core'[r].result = core[r].result
      BY <3>1, <1>2 DEF Clients
    <3>3. core' \in [Requests -> Clients] /\ \A k \in Requests \ {r} : core'[k] = core[k]
      BY <3>1, <3>2, <1>2, Zenon
    <3>4. /\ reply' \in [Requests -> Events] /\ reply'[r] = core[r].cur
          /\ \A k \in Requests \ {r} : reply'[k] = reply[k]
      BY <3>1, <1>2, Zenon
    <3>5. core[r].result = "none"
      BY <1>1, Results DEF SoundAt
    <3> QED
      BY <3>1, <3>2, <3>3, <3>4, <3>5, <1>1 DEF Shapes
  <2>2. CASE ~Live(r)
    <3>1. Ends(r, "failed") /\ reply' = reply
      BY <2>2 DEF Consume
    <3> QED
      BY <3>1, <1>1, <1>2, EndsEffect
  <2> QED
    BY <2>1, <2>2
<1>5. Sound(core'[r], inbox'[r], g, job[r], request[r], wire[r], reply'[r])
  BY <1>1, <1>4, Hears DEF SoundAt
<1>6. g \in Seq(1 .. MaxChunks)
  BY <1>5 DEF Sound, Types
<1>7. /\ heard' \in [Requests -> Seq(1 .. MaxChunks)] /\ heard'[r] = g
      /\ \A k \in Requests \ {r} : heard'[k] = heard[k]
  BY <1>2, <1>3, <1>6, Zenon
<1>8. SoundAt(r)'
  BY <1>3, <1>5, <1>7 DEF SoundAt
<1>9. Shapes' /\ Elsewhere(r) /\ cancel' \subseteq Jobs'
  BY <1>1, <1>3, <1>4, <1>7 DEF Shapes, Elsewhere, link, Jobs
<1> QED
  BY <1>8, <1>9, JobSteps

\* Behind an acknowledgment the client waits for the next number.
LEMMA NextNumber ==
  ASSUME Shapes, NEW r \in Requests, SoundAt(r), core[r].at \in {"tools", "acking"},
         core' = [core EXCEPT ![r].at = "wait", ![r].cur = None, ![r].seq = @ + 1]
  PROVE  /\ core' \in [Requests -> Clients] /\ core'[r] \in Clients
         /\ core'[r].at = "wait" /\ core'[r].seq = core[r].seq + 1
         /\ core'[r].ran = core[r].ran /\ core'[r].result = core[r].result
         /\ core'[r].cur.kind = "none"
         /\ \A k \in Requests \ {r} : core'[k] = core[k]
<1>1. core \in [Requests -> Clients] /\ core[r] \in Clients /\ job[r] \in JobStates
  BY DEF Shapes
<1>2. core[r].seq <= job[r].seq
  <2>1. core[r].seq \in Nat /\ job[r].seq \in Nat
    BY <1>1 DEF Clients, JobStates
  <2>2. core[r].seq = job[r].seq \/ core[r].seq = job[r].seq - 1
    BY DEF SoundAt, Sound, CoreInv, Answering
  <2> QED
    BY <2>1, <2>2
<1>3. MaxSeq \in Nat
  BY StreamAssumption DEF MaxSeq
<1>4. core[r].seq + 1 \in 0 .. MaxSeq + 1
  BY <1>1, <1>2, <1>3 DEF Clients, JobStates
<1>5. None \in Events /\ None.kind = "none"
  BY NoneIsEvent
<1>6. PICK n \in 0 .. MaxSeq + 1 :
         /\ n = core[r].seq + 1
         /\ core' = [core EXCEPT ![r].at = "wait", ![r].cur = None, ![r].seq = n]
  BY <1>4
<1>7. /\ core'[r] \in Clients /\ core'[r].at = "wait" /\ core'[r].seq = n
      /\ core'[r].ran = core[r].ran /\ core'[r].result = core[r].result
      /\ core'[r].cur = None
  BY <1>1, <1>5, <1>6 DEF Clients
<1>8. core' \in [Requests -> Clients] /\ \A k \in Requests \ {r} : core'[k] = core[k]
  BY <1>1, <1>6, <1>7, Zenon
<1> QED
  BY <1>5, <1>6, <1>7, <1>8

LEMMA ToolsRunStep == ASSUME IInv, NEW r \in Requests, ToolsRun(r) PROVE IInv'
<1>1. Shapes /\ SoundAt(r) /\ cancel \subseteq Jobs /\ core[r].at = "tools"
  BY DEF IInv, ToolsRun
<1>2. UNCHANGED <<heard, job, request, wire, tombs, cancel, link>>
  BY DEF ToolsRun
<1>3. CASE Live(r)
  <2>1. /\ reply' = [reply EXCEPT ![r] = core[r].cur] /\ UNCHANGED <<inbox, hint>>
        /\ core' = [core EXCEPT ![r].at = "wait", ![r].cur = None, ![r].seq = @ + 1]
    BY <1>3 DEF ToolsRun
  <2>2. /\ core' \in [Requests -> Clients] /\ core'[r] \in Clients
        /\ core'[r].at = "wait" /\ core'[r].seq = core[r].seq + 1
        /\ core'[r].ran = core[r].ran /\ core'[r].result = core[r].result
        /\ core'[r].cur.kind = "none"
        /\ \A k \in Requests \ {r} : core'[k] = core[k]
    BY <1>1, <2>1, NextNumber
  <2>3. core[r].cur \in Events /\ reply \in [Requests -> Events]
    BY <1>1 DEF Shapes, Clients
  <2>4. /\ reply' \in [Requests -> Events] /\ reply'[r] = core[r].cur
        /\ \A k \in Requests \ {r} : reply'[k] = reply[k]
    BY <2>1, <2>3, Zenon
  <2>5. Sound(core'[r], inbox[r], heard[r], job[r], request[r], wire[r], core[r].cur)
    BY <1>1, <2>2, Answers DEF SoundAt
  <2>6. SoundAt(r)'
    BY <1>2, <2>1, <2>4, <2>5 DEF SoundAt
  <2>7. Shapes' /\ Elsewhere(r) /\ cancel' \subseteq Jobs'
    BY <1>1, <1>2, <2>1, <2>2, <2>4 DEF Shapes, Elsewhere, link, Jobs
  <2> QED
    BY <2>6, <2>7, JobSteps
<1>4. CASE ~Live(r)
  <2>1. Ends(r, "failed") /\ reply' = reply
    BY <1>4 DEF ToolsRun
  <2> QED
    BY <1>1, <1>2, <2>1, EndsStep
<1> QED
  BY <1>3, <1>4

LEMMA AckedStep == ASSUME IInv, NEW r \in Requests, Acked(r) PROVE IInv'
<1>1. Shapes /\ SoundAt(r) /\ cancel \subseteq Jobs /\ core[r].at = "acking"
  BY DEF IInv, Acked
<1>2. UNCHANGED <<heard, job, request, wire, reply, tombs, cancel, link>>
  BY DEF Acked
<1>3. CASE Ends(r, "failed")
  BY <1>1, <1>2, <1>3, EndsStep
<1>4. CASE Ends(r, "ok") /\ core[r].cur.kind = "complete"
  <2>1. /\ core' \in [Requests -> Clients] /\ inbox' \in [Requests -> Seq(Events)]
        /\ hint' \subseteq Requests /\ core'[r] \in Clients
        /\ core'[r].at = "done" /\ core'[r].result = "ok" /\ core'[r].cur.kind = "none"
        /\ core'[r].seq = core[r].seq /\ core'[r].ran = core[r].ran
        /\ inbox'[r] = << >>
        /\ \A k \in Requests \ {r} : core'[k] = core[k] /\ inbox'[k] = inbox[k]
    BY <1>1, <1>4, EndsEffect
  <2>2. Sound(core'[r], << >>, heard[r], job[r], request[r], wire[r], reply[r])
    BY <1>1, <1>4, <2>1, Succeeds DEF SoundAt
  <2>3. SoundAt(r)'
    BY <1>2, <2>1, <2>2 DEF SoundAt
  <2>4. Shapes' /\ Elsewhere(r) /\ cancel' \subseteq Jobs'
    BY <1>1, <1>2, <2>1 DEF Shapes, Elsewhere, link, Jobs
  <2> QED
    BY <2>3, <2>4, JobSteps
<1>5. CASE /\ core[r].cur.kind # "complete" /\ UNCHANGED <<inbox, hint>>
           /\ core' = [core EXCEPT ![r].at = "wait", ![r].cur = None, ![r].seq = @ + 1]
  <2>1. /\ core' \in [Requests -> Clients] /\ core'[r] \in Clients
        /\ core'[r].at = "wait" /\ core'[r].seq = core[r].seq + 1
        /\ core'[r].ran = core[r].ran /\ core'[r].result = core[r].result
        /\ core'[r].cur.kind = "none"
        /\ \A k \in Requests \ {r} : core'[k] = core[k]
    BY <1>1, <1>5, NextNumber
  <2>2. Sound(core'[r], inbox[r], heard[r], job[r], request[r], wire[r], reply[r])
    BY <1>1, <1>5, <2>1, GoesOn DEF SoundAt
  <2>3. SoundAt(r)'
    BY <1>2, <1>5, <2>2 DEF SoundAt
  <2>4. Shapes' /\ Elsewhere(r) /\ cancel' \subseteq Jobs'
    BY <1>1, <1>2, <1>5, <2>1 DEF Shapes, Elsewhere, link, Jobs
  <2> QED
    BY <2>3, <2>4, JobSteps
<1> QED
  BY <1>3, <1>4, <1>5 DEF Acked


-----------------------------------------------------------------------------
(* The steps of the job.                                                   *)

\* One request's job and wire have moved.
LEMMA JobMoves ==
  ASSUME IInv, NEW r \in Requests,
         UNCHANGED <<core, inbox, heard, request, reply, hint, tombs, link>>,
         job' \in [Requests -> JobStates], wire' \in [Requests -> Seq(Events)],
         \A k \in Requests \ {r} : job'[k] = job[k] /\ wire'[k] = wire[k],
         cancel' \subseteq cancel, r \in cancel' => job'[r].at = "new",
         Sound(core[r], inbox[r], heard[r], job'[r], request[r], wire'[r], reply[r])
  PROVE  IInv'
<1>1. Shapes' /\ Elsewhere(r)
  BY DEF IInv, Shapes, Elsewhere, link
<1>2. SoundAt(r)'
  BY DEF SoundAt
<1>3. cancel' \subseteq Jobs'
  BY DEF IInv, Jobs
<1> QED
  BY <1>1, <1>2, <1>3, JobSteps

LEMMA Wired ==
  ASSUME Shapes, NEW r \in Requests, NEW e \in Events,
         wire' = [wire EXCEPT ![r] = Append(@, e)]
  PROVE  /\ wire' \in [Requests -> Seq(Events)] /\ wire'[r] = Append(wire[r], e)
         /\ \A k \in Requests \ {r} : wire'[k] = wire[k]
<1>1. wire \in [Requests -> Seq(Events)] /\ Append(wire[r], e) \in Seq(Events)
  BY DEF Shapes
<1> QED
  BY <1>1, Zenon

\* The job sends an event and counts nothing: of a start, an end or an error.
LEMMA SendsPlain ==
  ASSUME IInv, NEW r \in Requests, r \notin cancel, NEW e \in Events, Sends(r, e), JobApart,
         e.seq = job[r].seq,
         \/ /\ job[r].at \in {"new", "think", "calls"}
            /\ e.kind \in {"started", "complete", "error"}
            /\ e.kind = "started" => job[r].at = "new"
            /\ e.kind = "complete" => job[r].made > 0 /\ e.n = job[r].made
         \/ Waiting(job[r]) /\ e.kind = "error"
  PROVE  IInv'
<1>1. Shapes /\ SoundAt(r) /\ job \in [Requests -> JobStates]
  BY DEF IInv, Shapes
<1>2. job' = [job EXCEPT ![r].at = "event", ![r].sent = e]
      /\ wire' = [wire EXCEPT ![r] = Append(@, e)]
  BY DEF Sends
<1>3. /\ job'[r] \in JobStates /\ job'[r].at = "event" /\ job'[r].sent = e
      /\ job'[r].seq = job[r].seq /\ job'[r].calls = job[r].calls
      /\ job'[r].made = job[r].made /\ job'[r].asked = job[r].asked
      /\ job'[r].left = job[r].left
  BY <1>1, <1>2 DEF JobStates
<1>4. job' \in [Requests -> JobStates] /\ \A k \in Requests \ {r} : job'[k] = job[k]
  BY <1>1, <1>2, <1>3, Zenon
<1>5. /\ wire' \in [Requests -> Seq(Events)] /\ wire'[r] = Append(wire[r], e)
      /\ \A k \in Requests \ {r} : wire'[k] = wire[k]
  BY <1>1, <1>2, Wired
<1>6. Sound(core[r], inbox[r], heard[r], job'[r], request[r], Append(wire[r], e), reply[r])
  <2>1. CASE job[r].at \in {"new", "think", "calls"}
    <3>1. ~Waiting(job[r])
      BY <2>1 DEF Waiting
    <3> QED
      BY <2>1, <3>1, <1>1, <1>3, SendsEvent DEF SoundAt
  <2>2. CASE Waiting(job[r]) /\ e.kind = "error"
    BY <2>2, <1>1, <1>3, SendsError DEF SoundAt
  <2> QED
    BY <2>1, <2>2
<1> QED
  BY <1>3, <1>4, <1>5, <1>6, JobMoves DEF JobApart

\* The events a job may send.
LEMMA EventTypes ==
  ASSUME Shapes, NEW r \in Requests, NEW n \in 0 .. MaxChunks,
         NEW kind \in {"started", "chunk", "tools", "complete", "error"}
  PROVE  /\ Event(kind, job[r].seq, n) \in Events /\ Event(kind, job[r].seq, n).kind = kind
         /\ Event(kind, job[r].seq, n).seq = job[r].seq /\ Event(kind, job[r].seq, n).n = n
BY DEF Shapes, JobStates, Event, Events

LEMMA JobStartsStep == ASSUME IInv, NEW r \in Requests, JobStarts(r) PROVE IInv'
<1>1. Shapes /\ job[r].at = "new" /\ r \notin cancel /\ job[r].seq = 0
  BY DEF IInv, JobStarts, At, SoundAt, Sound, JobInv
<1>2. 0 \in 0 .. MaxChunks
  BY StreamAssumption
<1> DEFINE e == Event("started", job[r].seq, 0)
<1>3. e \in Events /\ e.kind = "started" /\ e.seq = job[r].seq
  BY <1>1, <1>2, EventTypes
<1>4. Sends(r, e) /\ JobApart
  BY <1>1 DEF JobStarts
<1> HIDE DEF e
<1> QED
  BY <1>1, <1>3, <1>4, SendsPlain

LEMMA JobFailsStep == ASSUME IInv, NEW r \in Requests, JobFails(r) PROVE IInv'
<1>1. Shapes /\ r \notin cancel
  BY DEF IInv, JobFails
<1>2. 0 \in 0 .. MaxChunks
  BY StreamAssumption
<1> DEFINE e == Event("error", job[r].seq, 0)
<1>3. e \in Events /\ e.kind = "error" /\ e.seq = job[r].seq
  BY <1>1, <1>2, EventTypes
<1>4. Sends(r, e) /\ JobApart
  BY DEF JobFails
<1>5. job[r].at \in {"think", "calls"} \/ Waiting(job[r])
  BY DEF JobFails, Waiting
<1> HIDE DEF e
<1> QED
  BY <1>1, <1>3, <1>4, <1>5, SendsPlain

LEMMA ProviderEndsStep == ASSUME IInv, NEW r \in Requests, ProviderEnds(r) PROVE IInv'
<1>1. Shapes /\ job[r].at = "think" /\ r \notin cancel /\ JobApart
  BY DEF IInv, ProviderEnds, At
<1>2. 0 \in 0 .. MaxChunks /\ job[r].made \in 0 .. MaxChunks
  BY <1>1, StreamAssumption DEF Shapes, JobStates
<1> DEFINE e == Event("error", job[r].seq, 0)  f == Event("complete", job[r].seq, job[r].made)
<1>3. /\ e \in Events /\ e.kind = "error" /\ e.seq = job[r].seq
      /\ f \in Events /\ f.kind = "complete" /\ f.seq = job[r].seq /\ f.n = job[r].made
  BY <1>1, <1>2, EventTypes
<1>4. (job[r].made = 0 /\ Sends(r, e)) \/ (job[r].made > 0 /\ Sends(r, f))
  BY <1>2 DEF ProviderEnds
<1> HIDE DEF e, f
<1>5. CASE job[r].made = 0 /\ Sends(r, e)
  BY <1>1, <1>3, <1>5, SendsPlain
<1>6. CASE job[r].made > 0 /\ Sends(r, f)
  BY <1>1, <1>3, <1>6, SendsPlain
<1> QED
  BY <1>4, <1>5, <1>6

LEMMA ProviderTextStep == ASSUME IInv, NEW r \in Requests, ProviderText(r) PROVE IInv'
<1>1. Shapes /\ SoundAt(r) /\ job[r].at = "think" /\ r \notin cancel /\ JobApart
  BY DEF IInv, ProviderText, At
<1>2. job \in [Requests -> JobStates] /\ job[r] \in JobStates
  BY <1>1 DEF Shapes
<1>3. CASE job[r].made = MaxChunks
  <2>1. 0 \in 0 .. MaxChunks
    BY StreamAssumption
  <2> DEFINE e == Event("error", job[r].seq, 0)
  <2>2. e \in Events /\ e.kind = "error" /\ e.seq = job[r].seq
    BY <1>1, <2>1, EventTypes
  <2>3. Sends(r, e)
    BY <1>3 DEF ProviderText
  <2> HIDE DEF e
  <2> QED
    BY <1>1, <2>2, <2>3, SendsPlain
<1>4. CASE job[r].made # MaxChunks
  <2>1. PICK n \in 0 .. MaxChunks : n = job[r].made + 1
    BY <1>2, <1>4, StreamAssumption DEF JobStates
  <2> DEFINE e == Event("chunk", job[r].seq, n)
  <2>2. e \in Events /\ e.kind = "chunk" /\ e.seq = job[r].seq /\ e.n = n
    BY <1>1, EventTypes
  <2>3. job' = [job EXCEPT ![r].at = "event", ![r].sent = e, ![r].made = n]
        /\ wire' = [wire EXCEPT ![r] = Append(@, e)]
    BY <1>4, <2>1 DEF ProviderText
  <2> HIDE DEF e
  <2>4. /\ job'[r] \in JobStates /\ job'[r].at = "event" /\ job'[r].sent = e
        /\ job'[r].seq = job[r].seq /\ job'[r].calls = job[r].calls
        /\ job'[r].made = job[r].made + 1 /\ job'[r].asked = job[r].asked
        /\ job'[r].left = job[r].left
    BY <1>2, <2>1, <2>2, <2>3 DEF JobStates
  <2>5. job' \in [Requests -> JobStates] /\ \A k \in Requests \ {r} : job'[k] = job[k]
    BY <1>2, <2>3, <2>4, Zenon
  <2>6. /\ wire' \in [Requests -> Seq(Events)] /\ wire'[r] = Append(wire[r], e)
        /\ \A k \in Requests \ {r} : wire'[k] = wire[k]
    BY <1>1, <2>2, <2>3, Wired
  <2>7. Sound(core[r], inbox[r], heard[r], job'[r], request[r], Append(wire[r], e), reply[r])
    BY <1>1, <2>1, <2>2, <2>4, SendsEvent DEF SoundAt
  <2> QED
    BY <1>1, <2>4, <2>5, <2>6, <2>7, JobMoves DEF JobApart
<1> QED
  BY <1>3, <1>4

LEMMA ProviderCallsStep == ASSUME IInv, NEW r \in Requests, ProviderCalls(r) PROVE IInv'
<1>1. Shapes /\ SoundAt(r) /\ job[r].at = "think" /\ r \notin cancel /\ JobApart
  BY DEF IInv, ProviderCalls, At
<1>2. job \in [Requests -> JobStates] /\ job[r] \in JobStates /\ wire \in [Requests -> Seq(Events)]
  BY <1>1 DEF Shapes
<1>3. CASE Sends(r, Event("error", job[r].seq, 0))
  <2>1. 0 \in 0 .. MaxChunks
    BY StreamAssumption
  <2> DEFINE e == Event("error", job[r].seq, 0)
  <2>2. e \in Events /\ e.kind = "error" /\ e.seq = job[r].seq
    BY <1>1, <2>1, EventTypes
  <2>3. Sends(r, e)
    BY <1>3
  <2> HIDE DEF e
  <2> QED
    BY <1>1, <2>2, <2>3, SendsPlain
<1>4. ASSUME NEW n \in 1 .. MaxCalls - job[r].calls, wire' = wire,
             job' = [job EXCEPT ![r].at = "calls", ![r].left = n, ![r].calls = @ + n]
      PROVE  IInv'
  <2>1. PICK m \in 0 .. MaxCalls :
           /\ m = job[r].calls + n
           /\ job' = [job EXCEPT ![r].at = "calls", ![r].left = n, ![r].calls = m]
    <3>1. job[r].calls \in Nat /\ MaxCalls \in Nat
      BY <1>2, StreamAssumption DEF JobStates
    <3>2. job[r].calls + n \in 0 .. MaxCalls
      BY <3>1
    <3> QED
      BY <1>2, <1>4, <3>2
  <2>2. n \in 0 .. MaxCalls /\ n > 0
    BY <1>2, StreamAssumption DEF JobStates
  <2>3. /\ job'[r] \in JobStates /\ job'[r].at = "calls" /\ job'[r].seq = job[r].seq
        /\ job'[r].calls = m /\ job'[r].left = n
        /\ job'[r].made = job[r].made /\ job'[r].asked = job[r].asked
    BY <1>2, <2>1, <2>2 DEF JobStates
  <2>4. job' \in [Requests -> JobStates] /\ \A k \in Requests \ {r} : job'[k] = job[k]
    BY <1>2, <2>1, <2>3, Zenon
  <2>5. job[r].asked <= job[r].calls
    BY <1>1, <1>2 DEF SoundAt, Sound, JobInv, JobStates
  <2>6. job'[r].asked + job'[r].left <= job'[r].calls
    BY <1>2, <2>1, <2>2, <2>3, <2>5 DEF JobStates
  <2>7. Sound(core[r], inbox[r], heard[r], job'[r], request[r], wire[r], reply[r])
    BY <1>1, <2>2, <2>3, <2>6, Thinks DEF SoundAt
  <2> QED
    BY <1>1, <1>2, <1>4, <2>4, <2>7, JobMoves DEF JobApart
<1> QED
  BY <1>3, <1>4 DEF ProviderCalls

LEMMA RunCallStep == ASSUME IInv, NEW r \in Requests, RunCall(r) PROVE IInv'
<1>1. Shapes /\ SoundAt(r) /\ job[r].at = "calls" /\ r \notin cancel /\ JobApart
  BY DEF IInv, RunCall, At
<1>2. job \in [Requests -> JobStates] /\ job[r] \in JobStates /\ wire \in [Requests -> Seq(Events)]
  BY <1>1 DEF Shapes
<1>3. job[r].left > 0 /\ job[r].asked + job[r].left <= job[r].calls
  BY <1>1 DEF SoundAt, Sound, JobInv
<1>4. PICK n \in 0 .. MaxCalls : n = job[r].left - 1
  <2>1. job[r].left \in 0 .. MaxCalls /\ MaxCalls \in Nat
    BY <1>2, StreamAssumption DEF JobStates
  <2> QED
    BY <2>1, <1>3
<1>5. CASE /\ job' = [job EXCEPT ![r].left = @ - 1,
                                ![r].at = IF job[r].left = 1 THEN "think" ELSE "calls"]
           /\ wire' = wire
  <2>1. PICK to \in {"think", "calls"} :
           /\ job' = [job EXCEPT ![r].left = n, ![r].at = to]
           /\ to = "calls" => n > 0
    <3>1. job[r].left \in Nat
      BY <1>2 DEF JobStates
    <3>2. CASE job[r].left = 1
      BY <1>2, <1>4, <1>5, <3>2
    <3>3. CASE job[r].left > 1
      <4>1. job[r].left # 1 /\ n > 0
        BY <1>4, <3>1, <3>3
      <4>2. job' = [job EXCEPT ![r].left = n, ![r].at = "calls"]
        BY <1>4, <1>5, <4>1, Zenon
      <4> QED
        BY <4>1, <4>2
    <3> QED
      BY <1>3, <3>1, <3>2, <3>3
  <2>2. /\ job'[r] \in JobStates /\ job'[r].at = to /\ job'[r].seq = job[r].seq
        /\ job'[r].calls = job[r].calls /\ job'[r].left = n
        /\ job'[r].made = job[r].made /\ job'[r].asked = job[r].asked
    BY <1>2, <2>1 DEF JobStates
  <2>3. job' \in [Requests -> JobStates] /\ \A k \in Requests \ {r} : job'[k] = job[k]
    BY <1>2, <2>1, <2>2, Zenon
  <2>4. job'[r].asked + job'[r].left <= job'[r].calls
    BY <1>2, <1>3, <1>4, <2>2 DEF JobStates
  <2>5. Sound(core[r], inbox[r], heard[r], job'[r], request[r], wire[r], reply[r])
    BY <1>1, <2>1, <2>2, <2>4, Thinks DEF SoundAt
  <2> QED
    BY <1>1, <1>2, <1>5, <2>3, <2>5, JobMoves DEF JobApart
<1>6. CASE LET e == Event("tools", job[r].seq, 0) IN
             /\ job' = [job EXCEPT ![r].at = "event", ![r].sent = e,
                           ![r].left = @ - 1, ![r].asked = @ + 1]
             /\ wire' = [wire EXCEPT ![r] = Append(@, e)]
  <2>1. 0 \in 0 .. MaxChunks
    BY StreamAssumption
  <2> DEFINE e == Event("tools", job[r].seq, 0)
  <2>2. e \in Events /\ e.kind = "tools" /\ e.seq = job[r].seq
    BY <1>1, <2>1, EventTypes
  <2>3. PICK a \in 0 .. MaxCalls : a = job[r].asked + 1
    <3>1. /\ job[r].asked \in 0 .. MaxCalls /\ job[r].calls \in 0 .. MaxCalls
          /\ job[r].left \in 0 .. MaxCalls /\ MaxCalls \in Nat
      BY <1>2, StreamAssumption DEF JobStates
    <3>2. job[r].asked + 1 \in 0 .. MaxCalls
      BY <3>1, <1>3
    <3> QED
      BY <3>2
  <2>4. /\ job' = [job EXCEPT ![r].at = "event", ![r].sent = e, ![r].left = n, ![r].asked = a]
        /\ wire' = [wire EXCEPT ![r] = Append(@, e)]
    BY <1>2, <1>4, <1>6, <2>3
  <2> HIDE DEF e
  <2>5. /\ job'[r] \in JobStates /\ job'[r].at = "event" /\ job'[r].sent = e
        /\ job'[r].seq = job[r].seq /\ job'[r].calls = job[r].calls
        /\ job'[r].made = job[r].made /\ job'[r].asked = a
        /\ job'[r].left = n
    BY <1>2, <2>2, <2>4 DEF JobStates
  <2>6. job' \in [Requests -> JobStates] /\ \A k \in Requests \ {r} : job'[k] = job[k]
    BY <1>2, <2>4, <2>5, Zenon
  <2>7. /\ wire' \in [Requests -> Seq(Events)] /\ wire'[r] = Append(wire[r], e)
        /\ \A k \in Requests \ {r} : wire'[k] = wire[k]
    BY <1>1, <2>2, <2>4, Wired
  <2>8. Sound(core[r], inbox[r], heard[r], job'[r], request[r], Append(wire[r], e), reply[r])
    BY <1>1, <1>4, <2>2, <2>3, <2>5, SendsEvent DEF SoundAt
  <2> QED
    BY <1>1, <2>5, <2>6, <2>7, <2>8, JobMoves DEF JobApart
<1> QED
  BY <1>5, <1>6 DEF RunCall

\* The job is about to end, or has ended.
LEMMA ClosesStep ==
  ASSUME IInv, NEW r \in Requests, job[r].at # "none", NEW to \in {"closing", "ended"},
         job' = [job EXCEPT ![r].at = to], wire' = wire,
         UNCHANGED <<core, inbox, heard, request, reply, hint, tombs, link>>,
         cancel' = cancel \ {r}
  PROVE  IInv'
<1>1. Shapes /\ SoundAt(r)
  BY DEF IInv
<1>2. job \in [Requests -> JobStates] /\ job[r] \in JobStates /\ wire \in [Requests -> Seq(Events)]
  BY <1>1 DEF Shapes
<1>3. /\ job'[r] \in JobStates /\ job'[r].at = to /\ job'[r].seq = job[r].seq
      /\ job'[r].calls = job[r].calls /\ job'[r].left = job[r].left
      /\ job'[r].made = job[r].made /\ job'[r].asked = job[r].asked
  BY <1>2 DEF JobStates
<1>4. job' \in [Requests -> JobStates] /\ \A k \in Requests \ {r} : job'[k] = job[k]
  BY <1>2, <1>3, Zenon
<1>5. Sound(core[r], inbox[r], heard[r], job'[r], request[r], wire[r], reply[r])
  BY <1>1, <1>3, Closes DEF SoundAt
<1> QED
  BY <1>2, <1>4, <1>5, JobMoves

LEMMA ErrorUnheardStep == ASSUME IInv, NEW r \in Requests, ErrorUnheard(r) PROVE IInv'
<1>1. cancel' = cancel \ {r} /\ job[r].at # "none" /\ wire' = wire
      /\ job' = [job EXCEPT ![r].at = "closing"]
      /\ UNCHANGED <<core, inbox, heard, request, reply, hint, tombs, link>>
  BY DEF ErrorUnheard, At, JobApart
<1> QED
  BY <1>1, ClosesStep

LEMMA JobClosesStep == ASSUME IInv, NEW r \in Requests, JobCloses(r) PROVE IInv'
<1>1. cancel' = cancel \ {r} /\ job[r].at # "none" /\ wire' = wire
      /\ job' = [job EXCEPT ![r].at = "ended"]
      /\ UNCHANGED <<core, inbox, heard, request, reply, hint, tombs, link>>
  BY DEF JobCloses, At, JobApart
<1> QED
  BY <1>1, ClosesStep

LEMMA JobCancelledStep == ASSUME IInv, NEW r \in Requests, JobCancelled(r) PROVE IInv'
<1>1. /\ cancel' = cancel \ {r} /\ wire' = wire
      /\ job' = [job EXCEPT ![r].at = IF @ \in {"new", "closing"} THEN "ended" ELSE "closing"]
      /\ UNCHANGED <<core, inbox, heard, request, reply, hint, tombs, link>>
  BY DEF JobCancelled, net
<1>2. job[r].at # "none"
  BY DEF IInv, JobCancelled, Jobs
<1>3. \E to \in {"closing", "ended"} : job' = [job EXCEPT ![r].at = to]
  <2>1. CASE job[r].at \in {"new", "closing"}
    BY <1>1, <2>1 DEF IInv, Shapes
  <2>2. CASE job[r].at \notin {"new", "closing"}
    BY <1>1, <2>2 DEF IInv, Shapes
  <2> QED
    BY <2>1, <2>2
<1> QED
  BY <1>1, <1>2, <1>3, ClosesStep

LEMMA EventAckedStep == ASSUME IInv, NEW r \in Requests, EventAcked(r) PROVE IInv'
<1>1. /\ Shapes /\ SoundAt(r) /\ job[r].at = "event" /\ r \notin cancel /\ JobApart
      /\ wire' = wire /\ reply[r] = job[r].sent
  BY DEF IInv, EventAcked, At
<1>2. job \in [Requests -> JobStates] /\ job[r] \in JobStates /\ wire \in [Requests -> Seq(Events)]
  BY <1>1 DEF Shapes
<1>3. CASE job' = [job EXCEPT ![r].at = "closing"]
  <2>1. cancel' = cancel \ {r}
        /\ UNCHANGED <<core, inbox, heard, request, reply, hint, tombs, link>>
    BY <1>1 DEF JobApart
  <2> QED
    BY <1>1, <1>3, <2>1, ClosesStep
<1>4. ASSUME NEW to \in {"think", "calls"}, NEW n, NEW x \in BOOLEAN,
             n \in {0, job[r].left}, to = "calls" => n > 0,
             job[r].sent.kind \in {"started", "chunk", "tools"},
             \/ job' = [job EXCEPT ![r].at = to, ![r].seq = @ + 1]
                  /\ n = job[r].left
             \/ job' = [job EXCEPT ![r].seq = @ + 1, ![r].exit = x, ![r].at = to, ![r].left = n]
      PROVE  IInv'
  <2>1. Waiting(job[r]) /\ job[r].sent.kind # "complete"
    BY <1>1, <1>4 DEF Waiting
  <2>2. job[r].seq + 1 \in 0 .. MaxSeq
    <3>1. JobInv(job[r])
      BY <1>1 DEF SoundAt, Sound
    <3>2. /\ job[r].seq \in Nat /\ job[r].asked \in 0 .. MaxCalls /\ job[r].made \in 0 .. MaxChunks
      BY <1>2 DEF JobStates
    <3>3. job[r].seq <= job[r].made + job[r].asked
      <4>1. job[r].sent.kind = "started" => job[r].seq = 0 /\ job[r].made = 0 /\ job[r].asked = 0
        BY <2>1, <3>1 DEF JobInv
      <4>2. job[r].sent.kind \in {"chunk", "tools"} => job[r].seq = job[r].made + job[r].asked
        BY <2>1, <3>1 DEF JobInv
      <4> QED
        BY <4>1, <4>2, <1>4, <3>2
    <3> QED
      BY <3>2, <3>3, StreamAssumption DEF MaxSeq
  <2>3. PICK m \in 0 .. MaxSeq : m = job[r].seq + 1
    BY <2>2
  <2>4. n \in 0 .. MaxCalls
    BY <1>2, <1>4, StreamAssumption DEF JobStates
  <2>5. /\ job'[r] \in JobStates /\ job'[r].at = to /\ job'[r].seq = m
        /\ job'[r].calls = job[r].calls /\ job'[r].left = n
        /\ job'[r].made = job[r].made /\ job'[r].asked = job[r].asked
        /\ job' \in [Requests -> JobStates] /\ \A k \in Requests \ {r} : job'[k] = job[k]
    <3>1. CASE job' = [job EXCEPT ![r].at = to, ![r].seq = m] /\ n = job[r].left
      <4>1. /\ job'[r] \in JobStates /\ job'[r].at = to /\ job'[r].seq = m
            /\ job'[r].calls = job[r].calls /\ job'[r].left = n
            /\ job'[r].made = job[r].made /\ job'[r].asked = job[r].asked
        BY <1>2, <3>1 DEF JobStates
      <4>2. job' \in [Requests -> JobStates] /\ \A k \in Requests \ {r} : job'[k] = job[k]
        BY <1>2, <3>1, <4>1, Zenon
      <4> QED
        BY <4>1, <4>2
    <3>2. CASE job' = [job EXCEPT ![r].seq = m, ![r].exit = x, ![r].at = to, ![r].left = n]
      <4>1. /\ job'[r] \in JobStates /\ job'[r].at = to /\ job'[r].seq = m
            /\ job'[r].calls = job[r].calls /\ job'[r].left = n
            /\ job'[r].made = job[r].made /\ job'[r].asked = job[r].asked
        BY <1>2, <2>4, <3>2 DEF JobStates
      <4>2. job' \in [Requests -> JobStates] /\ \A k \in Requests \ {r} : job'[k] = job[k]
        BY <1>2, <3>2, <4>1, Zenon
      <4> QED
        BY <4>1, <4>2
    <3> QED
      BY <1>2, <1>4, <2>3, <3>1, <3>2
  <2>6. Sound(core[r], inbox[r], heard[r], job'[r], request[r], wire[r], reply[r])
    BY <1>1, <1>4, <2>1, <2>3, <2>5, CountsOn, ZenonT(60) DEF SoundAt
  <2> QED
    BY <1>1, <1>2, <2>5, <2>6, JobMoves DEF JobApart
<1>5. \/ job' = [job EXCEPT ![r].at = "closing"]
      \/ /\ job[r].sent.kind \in {"started", "chunk"}
         /\ job' = [job EXCEPT ![r].at = "think", ![r].seq = @ + 1]
      \/ /\ job[r].sent.kind = "tools"
         /\ \E exit \in BOOLEAN :
               job' = [job EXCEPT ![r].seq = @ + 1, ![r].exit = exit,
                          ![r].at = IF exit \/ job[r].left = 0 THEN "think" ELSE "calls",
                          ![r].left = IF exit THEN 0 ELSE @]
  BY DEF EventAcked
<1>6. CASE /\ job[r].sent.kind \in {"started", "chunk"}
           /\ job' = [job EXCEPT ![r].at = "think", ![r].seq = @ + 1]
  BY <1>4, <1>6
<1>7. ASSUME job[r].sent.kind = "tools", NEW exit \in BOOLEAN,
             job' = [job EXCEPT ![r].seq = @ + 1, ![r].exit = exit,
                        ![r].at = IF exit \/ job[r].left = 0 THEN "think" ELSE "calls",
                        ![r].left = IF exit THEN 0 ELSE @]
      PROVE  IInv'
  <2>1. \E to \in {"think", "calls"}, n \in {0, job[r].left} :
           /\ to = "calls" => n > 0
           /\ job' = [job EXCEPT ![r].seq = @ + 1, ![r].exit = exit, ![r].at = to, ![r].left = n]
    <3>1. job[r].left \in Nat
      BY <1>2 DEF JobStates
    <3>2. CASE exit
      BY <1>2, <1>7, <3>2
    <3>3. CASE ~exit /\ job[r].left = 0
      BY <1>2, <1>7, <3>3
    <3>4. CASE ~exit /\ job[r].left > 0
      BY <1>2, <1>7, <3>1, <3>4
    <3> QED
      BY <1>7, <3>1, <3>2, <3>3, <3>4
  <2> QED
    BY <1>4, <1>7, <2>1
<1> QED
  BY <1>3, <1>5, <1>6, <1>7

-----------------------------------------------------------------------------
(* The steps of the network and of the worker's connection.                *)

LEMMA AdmitStep == ASSUME IInv, NEW r \in Requests, Admit(r) PROVE IInv'
<1>1. Shapes /\ SoundAt(r) /\ cancel \subseteq Jobs /\ request[r] = "sent"
      /\ request' = [request EXCEPT ![r] = "gone"]
      /\ UNCHANGED <<core, inbox, heard, reply, hint, tombs, cancel, link>>
  BY DEF IInv, Admit
<1>2. /\ job \in [Requests -> JobStates] /\ job[r] \in JobStates /\ core[r] \in Clients
      /\ wire \in [Requests -> Seq(Events)] /\ request \in [Requests -> {"unsent", "sent", "gone"}]
  BY <1>1 DEF Shapes
<1>3. /\ request' \in [Requests -> {"unsent", "sent", "gone"}] /\ request'[r] = "gone"
      /\ \A k \in Requests \ {r} : request'[k] = request[k]
  BY <1>1, <1>2, Zenon
<1>4. CASE UNCHANGED <<job, wire>>
  <2>1. Sound(core[r], inbox[r], heard[r], job[r], "gone", wire[r], reply[r])
    BY <1>1, <1>2, Loses DEF SoundAt
  <2>2. SoundAt(r)'
    BY <2>1, <1>1, <1>3, <1>4 DEF SoundAt
  <2>3. Shapes' /\ Elsewhere(r) /\ cancel' \subseteq Jobs'
    BY <1>1, <1>3, <1>4 DEF Shapes, Elsewhere, link, Jobs
  <2> QED
    BY <2>2, <2>3, JobSteps
<1>5. CASE job' = job /\ wire' = [wire EXCEPT ![r] = Append(@, Event("error", 0, 0))]
  <2> DEFINE e == Event("error", 0, 0)
  <2>1. e \in Events /\ e.kind = "error" /\ e.seq = 0
    BY StreamAssumption DEF Event, Events, MaxSeq
  <2>2. wire' = [wire EXCEPT ![r] = Append(@, e)]
    BY <1>5
  <2> HIDE DEF e
  <2>3. /\ wire' \in [Requests -> Seq(Events)] /\ wire'[r] = Append(wire[r], e)
        /\ \A k \in Requests \ {r} : wire'[k] = wire[k]
    BY <1>1, <2>1, <2>2, Wired
  <2>4. Sound(core[r], inbox[r], heard[r], job[r], "gone", Append(wire[r], e), reply[r])
    BY <1>1, <2>1, Refuses DEF SoundAt
  <2>5. SoundAt(r)'
    BY <2>3, <2>4, <1>1, <1>3, <1>5 DEF SoundAt
  <2>6. Shapes' /\ Elsewhere(r) /\ cancel' \subseteq Jobs'
    BY <1>1, <1>3, <1>5, <2>3 DEF Shapes, Elsewhere, link, Jobs
  <2> QED
    BY <2>5, <2>6, JobSteps
<1>6. CASE wire' = wire /\ job' = [job EXCEPT ![r].at = "new"]
  <2>1. /\ job'[r] \in JobStates /\ job'[r].at = "new" /\ job'[r].seq = job[r].seq
        /\ job'[r].calls = job[r].calls /\ job'[r].left = job[r].left
        /\ job'[r].made = job[r].made /\ job'[r].asked = job[r].asked
    BY <1>2, <1>6 DEF JobStates
  <2>2. job' \in [Requests -> JobStates] /\ \A k \in Requests \ {r} : job'[k] = job[k]
    BY <1>2, <1>6, <2>1, Zenon
  <2>3. Sound(core[r], inbox[r], heard[r], job'[r], "gone", wire[r], reply[r])
    BY <1>1, <2>1, Admits DEF SoundAt
  <2>4. SoundAt(r)'
    BY <2>3, <1>1, <1>3, <1>6 DEF SoundAt
  <2>5. Shapes' /\ Elsewhere(r)
    BY <1>1, <1>3, <1>6, <2>2 DEF Shapes, Elsewhere, link
  <2>6. cancel' \subseteq Jobs'
    BY <1>1, <2>1, <2>2 DEF Jobs
  <2> QED
    BY <2>4, <2>5, <2>6, JobSteps
<1> QED
  BY <1>4, <1>5, <1>6 DEF Admit

\* Only cancellations, their memory or the connections have changed.
LEMMA Beside ==
  ASSUME IInv, UNCHANGED <<core, inbox, heard, job, request, wire, reply>>,
         hint' \subseteq Requests, tombs' \subseteq Requests, cancel' \subseteq Jobs,
         coreUp' \in BOOLEAN, workerUp' \in BOOLEAN, stopping' \in BOOLEAN,
         disconnects' \in 0 .. MaxDisconnects
  PROVE  IInv'
<1>1. Shapes'
  BY DEF IInv, Shapes
<1>2. cancel' \subseteq Jobs'
  BY DEF Jobs
<1>3. ASSUME NEW r \in Requests PROVE SoundAt(r)'
  BY DEF IInv, SoundAt
<1> QED
  BY <1>1, <1>2, <1>3 DEF IInv

LEMMA CancelArrivesStep == ASSUME IInv, NEW r \in Requests, CancelArrives(r) PROVE IInv'
<1>1. Shapes /\ cancel \subseteq Jobs
  BY DEF IInv
<1>2. /\ UNCHANGED <<core, inbox, heard, job, request, wire, reply, link>>
      /\ hint' = hint \ {r} /\ tombs' = tombs \cup {r}
      /\ cancel' = cancel \cup ({r} \cap Jobs)
  BY DEF CancelArrives
<1>3. /\ hint' \subseteq Requests /\ tombs' \subseteq Requests /\ cancel' \subseteq Jobs
      /\ coreUp' \in BOOLEAN /\ workerUp' \in BOOLEAN /\ stopping' \in BOOLEAN
      /\ disconnects' \in 0 .. MaxDisconnects
  BY <1>1, <1>2 DEF Shapes, link
<1> QED
  BY <1>2, <1>3, Beside

LEMMA RequestLostStep == ASSUME IInv, NEW r \in Requests, RequestLost(r) PROVE IInv'
<1>1. Shapes /\ SoundAt(r) /\ cancel \subseteq Jobs /\ request[r] = "sent"
      /\ request' = [request EXCEPT ![r] = "gone"]
      /\ UNCHANGED <<inbox, heard, job, tombs, wire, reply, hint, cancel, link>>
  BY DEF IInv, RequestLost, NetApart, link
<1>2. core \in [Requests -> Clients] /\ core[r] \in Clients
      /\ request \in [Requests -> {"unsent", "sent", "gone"}]
  BY <1>1 DEF Shapes
<1>3. /\ request' \in [Requests -> {"unsent", "sent", "gone"}] /\ request'[r] = "gone"
      /\ \A k \in Requests \ {r} : request'[k] = request[k]
  BY <1>1, <1>2, Zenon
<1>4. /\ core' \in [Requests -> Clients] /\ \A k \in Requests \ {r} : core'[k] = core[k]
      /\ core'[r] \in Clients /\ core'[r].at = core[r].at /\ core'[r].seq = core[r].seq
      /\ core'[r].cur = core[r].cur /\ core'[r].ran = core[r].ran
      /\ core'[r].result = core[r].result
  <2>1. CASE core' = core
    BY <1>2, <2>1
  <2>2. ASSUME NEW x \in BOOLEAN, core' = [core EXCEPT ![r].failed = x] PROVE <1>4
    <3>1. /\ core'[r] \in Clients /\ core'[r].at = core[r].at /\ core'[r].seq = core[r].seq
          /\ core'[r].cur = core[r].cur /\ core'[r].ran = core[r].ran
          /\ core'[r].result = core[r].result
      BY <1>2, <2>2 DEF Clients
    <3>2. core' \in [Requests -> Clients] /\ \A k \in Requests \ {r} : core'[k] = core[k]
      BY <1>2, <2>2, <3>1, Zenon
    <3> QED
      BY <3>1, <3>2
  <2>3. core' = core \/ \E x \in BOOLEAN : core' = [core EXCEPT ![r].failed = x]
    BY <1>2 DEF RequestLost, Clients
  <2> QED
    BY <2>1, <2>2, <2>3
<1>5. Sound(core'[r], inbox[r], heard[r], job[r], "gone", wire[r], reply[r])
  BY <1>1, <1>4, Loses DEF SoundAt
<1>6. SoundAt(r)'
  BY <1>1, <1>3, <1>5 DEF SoundAt
<1>7. Shapes' /\ Elsewhere(r) /\ cancel' \subseteq Jobs'
  BY <1>1, <1>3, <1>4 DEF Shapes, Elsewhere, link, Jobs
<1> QED
  BY <1>6, <1>7, JobSteps

LEMMA EventLostStep == ASSUME IInv, NEW r \in Requests, EventLost(r) PROVE IInv'
<1>1. Shapes /\ SoundAt(r) /\ cancel \subseteq Jobs /\ wire[r] # << >>
      /\ wire' = [wire EXCEPT ![r] = Tail(@)]
      /\ UNCHANGED <<core, inbox, heard, job, tombs, request, reply, hint, cancel, link>>
  BY DEF IInv, EventLost, NetApart, link
<1>2. /\ core[r] \in Clients /\ inbox[r] \in Seq(Events)
      /\ wire \in [Requests -> Seq(Events)] /\ wire[r] \in Seq(Events)
  BY <1>1 DEF Shapes
<1> DEFINE v == Tail(wire[r])
<1>3. /\ v \in Seq(Events) /\ Flying(inbox[r], v) \subseteq Flying(inbox[r], wire[r])
      /\ Count(inbox[r], v) = Count(inbox[r], wire[r]) - 1
  BY <1>1, <1>2, FlyingTail
<1>4. /\ wire' \in [Requests -> Seq(Events)] /\ wire'[r] = v
      /\ \A k \in Requests \ {r} : wire'[k] = wire[k]
  BY <1>1, <1>2, <1>3, Zenon
<1> HIDE DEF v
<1>5. Count(inbox[r], wire[r]) <= 2 /\ Count(inbox[r], wire[r]) \in Nat
  BY <1>1, <1>2 DEF SoundAt, Sound, FlightInv, Count
<1>6. Count(inbox[r], v) <= Count(inbox[r], wire[r]) /\ Count(inbox[r], v) # 2
  BY <1>3, <1>5
<1>7. Sound(core[r], inbox[r], heard[r], job[r], request[r], v, reply[r])
  BY <1>1, <1>2, <1>3, <1>6, Flies DEF SoundAt
<1>8. SoundAt(r)'
  BY <1>1, <1>4, <1>7 DEF SoundAt
<1>9. Shapes' /\ Elsewhere(r) /\ cancel' \subseteq Jobs'
  BY <1>1, <1>4 DEF Shapes, Elsewhere, link, Jobs
<1> QED
  BY <1>8, <1>9, JobSteps

LEMMA HintLostStep == ASSUME IInv, NEW r \in Requests, HintLost(r) PROVE IInv'
<1>1. Shapes /\ cancel \subseteq Jobs /\ hint' = hint \ {r}
      /\ UNCHANGED <<core, inbox, heard, job, tombs, request, wire, reply, cancel, link>>
  BY DEF IInv, HintLost, NetApart, link
<1>2. /\ hint' \subseteq Requests /\ tombs' \subseteq Requests /\ cancel' \subseteq Jobs
      /\ coreUp' \in BOOLEAN /\ workerUp' \in BOOLEAN /\ stopping' \in BOOLEAN
      /\ disconnects' \in 0 .. MaxDisconnects
  BY <1>1 DEF Shapes, link
<1> QED
  BY <1>1, <1>2, Beside

LEMMA Counted ==
  ASSUME Shapes, Disconnect PROVE disconnects' \in 0 .. MaxDisconnects
BY StreamAssumption DEF Shapes, Disconnect

LEMMA CoreDisconnectsStep == ASSUME IInv, CoreDisconnects PROVE IInv'
<1>1. /\ Shapes /\ cancel \subseteq Jobs /\ disconnects' \in 0 .. MaxDisconnects
      /\ coreUp' = FALSE
      /\ core' = [r \in Requests |-> [core[r] EXCEPT
                    !.failed = @ \/ core[r].at \notin {"idle", "done"}]]
      /\ wire' = [r \in Requests |-> << >>]
      /\ UNCHANGED <<inbox, heard, job, tombs, stopping, request, reply, hint, cancel, workerUp>>
  BY Counted DEF IInv, CoreDisconnects, NetApart
<1> DEFINE v == << >>
<1>2. v \in Seq(Events) /\ Len(v) = 0 /\ DOMAIN v = {}
  OBVIOUS
<1>3. wire' = [r \in Requests |-> v]
  BY <1>1
<1> HIDE DEF v
<1>4. ASSUME NEW r \in Requests
      PROVE  /\ core'[r] \in Clients /\ core'[r].at = core[r].at /\ core'[r].seq = core[r].seq
             /\ core'[r].cur = core[r].cur /\ core'[r].ran = core[r].ran
             /\ core'[r].result = core[r].result
  <2>1. core[r] \in Clients
    BY <1>1 DEF Shapes
  <2>2. PICK x \in BOOLEAN : core'[r] = [core[r] EXCEPT !.failed = x]
    BY <1>1, <2>1 DEF Clients
  <2> QED
    BY <2>1, <2>2 DEF Clients
<1>5. core' \in [Requests -> Clients]
  BY <1>1, <1>4, Zenon
<1>6. ASSUME NEW r \in Requests PROVE SoundAt(r)'
  <2>1. SoundAt(r) /\ inbox[r] \in Seq(Events) /\ wire[r] \in Seq(Events)
    BY <1>1 DEF IInv, Shapes
  <2>2. Flying(inbox[r], v) \subseteq Flying(inbox[r], wire[r])
    BY <1>2 DEF Flying
  <2>3. /\ Count(inbox[r], v) = Len(inbox[r])
        /\ Count(inbox[r], wire[r]) = Len(inbox[r]) + Len(wire[r])
        /\ Len(inbox[r]) \in Nat /\ Len(wire[r]) \in Nat
        /\ Count(inbox[r], v) <= Count(inbox[r], wire[r])
    <3>1. Len(inbox[r]) \in Nat /\ Len(wire[r]) \in Nat
      BY <2>1
    <3>2. /\ Count(inbox[r], v) = Len(inbox[r]) + Len(v)
          /\ Count(inbox[r], wire[r]) = Len(inbox[r]) + Len(wire[r])
      BY DEF Count
    <3>3. Len(v) = 0
      BY <1>2
    <3>4. Count(inbox[r], v) = Len(inbox[r]) + 0
      BY <3>2, <3>3, Zenon
    <3>5. \A a, b \in Nat : a + 0 = a /\ a <= a + b
      OBVIOUS
    <3> QED
      BY <3>1, <3>2, <3>4, <3>5, Zenon
  <2>4. Count(inbox[r], v) = 2 => Later(inbox[r], v) = Later(inbox[r], wire[r])
    <3>1. Count(inbox[r], wire[r]) <= 2
      BY <2>1 DEF SoundAt, Sound, FlightInv
    <3>2. Len(inbox[r]) = 2 => Len(wire[r]) = 0
      BY <2>3, <3>1
    <3>3. Len(wire[r]) = 0 => wire[r] = << >>
      BY <2>1
    <3> QED
      BY <2>3, <3>2, <3>3 DEF Later, v
  <2>5. Sound(core'[r], inbox[r], heard[r], job[r], request[r], v, reply[r])
    BY <1>2, <1>4, <2>1, <2>2, <2>3, <2>4, Flies DEF SoundAt
  <2> QED
    BY <1>1, <1>3, <2>5 DEF SoundAt
<1>7. Shapes' /\ cancel' \subseteq Jobs'
  BY <1>1, <1>2, <1>3, <1>5 DEF Shapes, Jobs
<1> QED
  BY <1>6, <1>7 DEF IInv

LEMMA WorkerDisconnectsStep == ASSUME IInv, WorkerDisconnects PROVE IInv'
<1>1. /\ Shapes /\ cancel \subseteq Jobs /\ disconnects' \in 0 .. MaxDisconnects
      /\ workerUp' = FALSE /\ cancel' = cancel \cup Jobs
      /\ reply' = [r \in Requests |-> None]
      /\ UNCHANGED <<inbox, heard, job, tombs, stopping, core, request, wire, hint, coreUp>>
  BY Counted DEF IInv, WorkerDisconnects, NetApart
<1>2. None \in Events /\ None.kind = "none"
  BY NoneIsEvent
<1>3. ASSUME NEW r \in Requests PROVE SoundAt(r)'
  <2>1. SoundAt(r)
    BY DEF IInv
  <2>2. Sound(core[r], inbox[r], heard[r], job[r], request[r], wire[r], None)
    BY <1>2, <2>1, Forgets DEF SoundAt
  <2> QED
    BY <1>1, <2>2 DEF SoundAt
<1>4. Shapes' /\ cancel' \subseteq Jobs'
  BY <1>1, <1>2 DEF Shapes, Jobs
<1> QED
  BY <1>3, <1>4 DEF IInv

LEMMA ReconnectStep == ASSUME IInv, Reconnect PROVE IInv'
<1>1. Shapes /\ cancel \subseteq Jobs /\ coreUp' \in BOOLEAN /\ workerUp' \in BOOLEAN
      /\ UNCHANGED <<core, inbox, heard, job, tombs, stopping, net, cancel, disconnects>>
  BY DEF IInv, Shapes, Reconnect, NetApart
<1>2. /\ hint' \subseteq Requests /\ tombs' \subseteq Requests /\ cancel' \subseteq Jobs
      /\ stopping' \in BOOLEAN /\ disconnects' \in 0 .. MaxDisconnects
      /\ UNCHANGED <<request, wire, reply>>
  BY <1>1 DEF Shapes, net
<1> QED
  BY <1>1, <1>2, Beside

LEMMA WorkerStopsStep == ASSUME IInv, WorkerStops PROVE IInv'
<1>1. Shapes /\ stopping' = TRUE /\ cancel' \subseteq Jobs
      /\ UNCHANGED <<core, inbox, heard, job, net, tombs, coreUp, workerUp, disconnects>>
  BY DEF IInv, WorkerStops
<1>2. /\ hint' \subseteq Requests /\ tombs' \subseteq Requests
      /\ coreUp' \in BOOLEAN /\ workerUp' \in BOOLEAN /\ disconnects' \in 0 .. MaxDisconnects
      /\ UNCHANGED <<request, wire, reply>>
  BY <1>1 DEF Shapes, net
<1> QED
  BY <1>1, <1>2, Beside

-----------------------------------------------------------------------------
(* The invariant holds throughout.                                         *)

\* A request nobody has made yet.
LEMMA Begins ==
  ASSUME NEW c, NEW q, NEW h, NEW j, NEW p,
         c \in Clients, c.at = "idle", c.seq = 0, c.ran = 0, c.result = "none", c.cur.kind = "none",
         j \in JobStates, j.at = "none", j.seq = 0, j.made = 0, j.asked = 0,
         j.left = 0, j.calls = 0,
         q \in Seq(Events), Len(q) = 0, h \in Seq(1 .. MaxChunks), Len(h) = 0,
         p \in Events, p.kind = "none"
  PROVE  Sound(c, q, h, j, "unsent", q, p)
<1>1. Count(q, q) = 0
  BY DEF Count
<1>2. Flying(q, q) = {}
  BY <1>1, FlyingNone
<1>3. DOMAIN h = {}
  OBVIOUS
<1>4. ~Waiting(j)
  BY DEF Waiting
<1>5. Types(c, q, h, j, "unsent", q, p) /\ JobInv(j)
  BY <1>4 DEF Types, JobInv
<1>6. FlightInv(q, j, "unsent", q)
  BY <1>1, <1>2, <1>4 DEF FlightInv
<1>7. HeardInv(c, q, h, j, q)
  BY <1>2, <1>3, <1>4 DEF HeardInv, Even
<1>8. CoreInv(c, q, j, "unsent", q)
  BY DEF CoreInv
<1>9. ReplyInv(c, q, h, j, "unsent", q, p)
  BY <1>4 DEF ReplyInv
<1>10. WholeInv(c, q, j, q)
  BY <1>2 DEF WholeInv
<1> QED
  BY <1>5, <1>6, <1>7, <1>8, <1>9, <1>10 DEF Sound

LEMMA InitInv == Init => IInv
<1> SUFFICES ASSUME Init PROVE IInv
  OBVIOUS
<1> DEFINE v == << >>
<1>1. v \in Seq(Events) /\ v \in Seq(1 .. MaxChunks) /\ Len(v) = 0
  OBVIOUS
<1>2. None \in Events /\ None.kind = "none"
  BY NoneIsEvent
<1> DEFINE c == [at |-> "idle", seq |-> 0, failed |-> FALSE, cur |-> None, ran |-> 0,
                 result |-> "none"]
           j == [at |-> "none", seq |-> 0, sent |-> None, made |-> 0, calls |-> 0,
                 left |-> 0, asked |-> 0, exit |-> FALSE]
<1>3. MaxSeq \in Nat /\ MaxCalls \in Nat /\ MaxChunks \in Nat /\ MaxDisconnects \in Nat
  BY StreamAssumption DEF MaxSeq
<1>4. /\ c \in Clients /\ c.at = "idle" /\ c.seq = 0 /\ c.ran = 0 /\ c.result = "none"
      /\ c.cur.kind = "none"
  BY <1>2, <1>3 DEF Clients
<1>5. /\ j \in JobStates /\ j.at = "none" /\ j.seq = 0 /\ j.made = 0 /\ j.asked = 0
      /\ j.left = 0 /\ j.calls = 0
  BY <1>2, <1>3 DEF JobStates
<1>6. /\ core = [r \in Requests |-> c] /\ inbox = [r \in Requests |-> v]
      /\ heard = [r \in Requests |-> v] /\ job = [r \in Requests |-> j]
      /\ request = [r \in Requests |-> "unsent"] /\ wire = [r \in Requests |-> v]
      /\ reply = [r \in Requests |-> None] /\ hint = {} /\ tombs = {} /\ cancel = {}
      /\ coreUp = TRUE /\ workerUp = TRUE /\ stopping = FALSE /\ disconnects = 0
  BY DEF Init
<1> HIDE DEF v, c, j
<1>7. Shapes /\ cancel \subseteq Jobs
  <2>1. core \in [Requests -> Clients] /\ job \in [Requests -> JobStates]
    BY <1>4, <1>5, <1>6
  <2>2. /\ inbox \in [Requests -> Seq(Events)] /\ wire \in [Requests -> Seq(Events)]
        /\ heard \in [Requests -> Seq(1 .. MaxChunks)] /\ reply \in [Requests -> Events]
    BY <1>1, <1>2, <1>6, Zenon
  <2>3. request \in [Requests -> {"unsent", "sent", "gone"}] /\ disconnects \in 0 .. MaxDisconnects
    BY <1>3, <1>6
  <2> QED
    BY <1>6, <2>1, <2>2, <2>3 DEF Shapes
<1>8. ASSUME NEW r \in Requests PROVE SoundAt(r)
  <2>1. Sound(c, v, v, j, "unsent", v, None)
    BY <1>1, <1>2, <1>4, <1>5, Begins
  <2> QED
    BY <1>6, <2>1 DEF SoundAt
<1> QED
  BY <1>7, <1>8 DEF IInv

LEMMA StepInv == IInv /\ [Next]_vars => IInv'
<1> SUFFICES ASSUME IInv, [Next]_vars PROVE IInv'
  OBVIOUS
<1>1. ASSUME NEW r \in Requests, CoreStep(r) PROVE IInv'
  BY <1>1, OpenStep, ReceiveStep, TakeStep, ConsumeStep, ToolsRunStep, AckedStep,
     GivesUpStep DEF CoreStep
<1>2. ASSUME NEW r \in Requests, JobStep(r) PROVE IInv'
  BY <1>2, JobStartsStep, EventAckedStep, JobFailsStep, ErrorUnheardStep,
     ProviderTextStep, ProviderCallsStep, RunCallStep, ProviderEndsStep,
     JobCancelledStep, JobClosesStep DEF JobStep
<1>3. ASSUME NEW r \in Requests, NetStep(r) PROVE IInv'
  BY <1>3, AdmitStep, CancelArrivesStep, RequestLostStep, HintLostStep, EventLostStep
     DEF NetStep
<1>4. CASE UNCHANGED vars
  BY <1>4 DEF vars, IInv, Shapes, SoundAt, Jobs
<1> QED
  BY <1>1, <1>2, <1>3, <1>4, CoreDisconnectsStep, WorkerDisconnectsStep, ReconnectStep,
     WorkerStopsStep DEF Next

LEMMA Invariance == Spec => []IInv
BY InitInv, StepInv, PTL DEF Spec

-----------------------------------------------------------------------------
(* The theorems.                                                           *)

\* Requests, events, replies and jobs are those the code can send and store,
\* and LLMStreamClient's queue of two events never overflows.
THEOREM TypeCorrect == Spec => []TypeOK
<1>1. IInv => TypeOK
  <2> SUFFICES ASSUME IInv PROVE TypeOK
    OBVIOUS
  <2>1. Shapes /\ cancel \subseteq Requests
    BY DEF IInv, Jobs
  <2>2. ASSUME NEW r \in Requests PROVE QueueSuffices(r)
    BY DEF IInv, SoundAt, Sound, FlightInv, Count, QueueSuffices
  <2>3. ASSUME NEW r \in Requests PROVE Len(heard[r]) <= MaxChunks
    <3>1. /\ Len(heard[r]) <= job[r].made /\ job[r] \in JobStates
          /\ heard[r] \in Seq(1 .. MaxChunks)
      BY DEF IInv, SoundAt, Sound, HeardInv, Shapes
    <3>2. Len(heard[r]) \in Nat /\ job[r].made \in 0 .. MaxChunks /\ MaxChunks \in Nat
      BY <3>1, StreamAssumption DEF JobStates
    <3> QED
      BY <3>1, <3>2
  <2> QED
    BY <2>1, <2>2, <2>3 DEF TypeOK, Shapes, Clients, JobStates
<1> QED
  BY <1>1, Invariance, PTL

\* Only the job of an admitted request is ever at work.
LEMMA JobsStep ==
  ASSUME IInv, NEW r \in Requests, JobStep(r)
  PROVE  job[r].at # "none" /\ \A k \in Requests \ {r} : job'[k] = job[k]
<1> USE DEF IInv, Shapes
<1>1. CASE JobStarts(r)
  BY <1>1 DEF JobStarts, At, Sends
<1>2. CASE EventAcked(r)
  BY <1>2 DEF EventAcked, At
<1>3. CASE JobFails(r)
  BY <1>3 DEF JobFails, Sends
<1>4. CASE ErrorUnheard(r)
  BY <1>4 DEF ErrorUnheard, At
<1>5. CASE ProviderText(r)
  BY <1>5 DEF ProviderText, At, Sends
<1>6. CASE ProviderCalls(r)
  BY <1>6 DEF ProviderCalls, At, Sends
<1>7. CASE RunCall(r)
  BY <1>7 DEF RunCall, At
<1>8. CASE ProviderEnds(r)
  BY <1>8 DEF ProviderEnds, At, Sends
<1>9. CASE JobCancelled(r)
  BY <1>9 DEF JobCancelled, Jobs
<1>10. CASE JobCloses(r)
  BY <1>10 DEF JobCloses, At
<1> QED
  BY <1>1, <1>2, <1>3, <1>4, <1>5, <1>6, <1>7, <1>8, <1>9, <1>10 DEF JobStep

\* Elsewhere the job is left alone, but by its admission.
LEMMA JobsApart ==
  ASSUME IInv, [Next]_vars
  PROVE  \/ job' = job
         \/ \E r \in Requests : JobStep(r)
         \/ \E r \in Requests : r \notin tombs /\ job' = [job EXCEPT ![r].at = "new"]
<1>1. ASSUME NEW r \in Requests, CoreStep(r) PROVE job' = job
  BY <1>1 DEF CoreStep, Open, Receive, Take, Consume, ToolsRun, Acked, GivesUp
<1>2. ASSUME NEW r \in Requests, Admit(r)
      PROVE  job' = job \/ (r \notin tombs /\ job' = [job EXCEPT ![r].at = "new"])
  BY <1>2 DEF Admit, Refused
<1>3. ASSUME NEW r \in Requests,
             CancelArrives(r) \/ RequestLost(r) \/ HintLost(r) \/ EventLost(r)
      PROVE  job' = job
  BY <1>3 DEF CancelArrives, RequestLost, HintLost, EventLost, NetApart
<1>4. CASE CoreDisconnects \/ WorkerDisconnects \/ Reconnect \/ WorkerStops \/ UNCHANGED vars
  BY <1>4 DEF CoreDisconnects, WorkerDisconnects, Reconnect, WorkerStops, NetApart, vars
<1> QED
  BY <1>1, <1>2, <1>3, <1>4 DEF Next, NetStep

\* A tool the worker asked for is run at most once, and all of them have run
\* behind a success; a request that was cancelled before it came is not run.
THEOREM NothingHappensTwice == Spec => NothingTwice
<1>1. IInv => ToolsOnce
  <2> SUFFICES ASSUME IInv, NEW r \in Requests
               PROVE  /\ core[r].ran <= job[r].asked
                      /\ core[r].result = "ok" => core[r].ran = job[r].asked
    BY DEF ToolsOnce
  <2> QED
    BY DEF IInv, SoundAt, Sound, HeardInv, Even
<1>2. IInv /\ [Next]_vars =>
        [\A r \in Requests : r \in tombs /\ job[r].at = "none" => job'[r].at = "none"]_vars
  <2> SUFFICES ASSUME IInv, [Next]_vars, NEW r \in Requests, r \in tombs, job[r].at = "none"
               PROVE  job'[r].at = "none"
    OBVIOUS
  <2>1. ASSUME NEW k \in Requests, JobStep(k) PROVE job'[r] = job[r]
    BY <2>1, JobsStep
  <2>2. ASSUME NEW k \in Requests, k \notin tombs, job' = [job EXCEPT ![k].at = "new"]
        PROVE  job'[r] = job[r]
    BY <2>2 DEF IInv, Shapes
  <2> QED
    BY <2>1, <2>2, JobsApart
<1> QED
  BY <1>1, <1>2, Invariance, PTL DEF Spec, NothingTwice, CancelledNeverRuns

-----------------------------------------------------------------------------
(* The stream implements TextStream: what was made for a request, and what *)
(* its caller was told.                                                    *)

Made == [r \in Requests |-> job[r].made]
Told == [r \in Requests |-> core[r].result]

\* A step that makes nothing and tells nobody anything is none of the text's.
LEMMA Quiet ==
  ASSUME \A r \in Requests : job'[r].made = job[r].made /\ core'[r].result = core[r].result
  PROVE  Made' = Made /\ Told' = Told
BY DEF Made, Told

\* The client gives up.
LEMMA GaveUp ==
  ASSUME IInv, NEW r \in Requests, core[r].at # "done", Ends(r, "failed"), job' = job
  PROVE  Told[r] = "none" /\ Told' = [Told EXCEPT ![r] = "failed"] /\ Made' = Made
<1>1. Shapes /\ SoundAt(r) /\ core \in [Requests -> Clients]
  BY DEF IInv, Shapes
<1>2. core'[r].result = "failed" /\ \A k \in Requests \ {r} : core'[k] = core[k]
  BY <1>1, EndsEffect
<1>3. core[r].result = "none"
  BY <1>1, Results DEF SoundAt
<1>4. \A k \in Requests : core'[k].result = IF k = r THEN "failed" ELSE core[k].result
  BY <1>2
<1> QED
  BY <1>3, <1>4 DEF Told, Made

LEMMA ConsumeTells ==
  ASSUME IInv, NEW r \in Requests, Consume(r)
  PROVE  /\ Told[r] = "none" /\ Len(heard[r]) < Made[r] /\ Made' = Made
         /\ heard' = [heard EXCEPT ![r] = Append(@, Len(@) + 1)]
         /\ Told' \in {Told, [Told EXCEPT ![r] = "failed"]}
<1>1. Shapes /\ SoundAt(r) /\ core[r].at = "consume" /\ job' = job
      /\ heard' = [heard EXCEPT ![r] = Append(@, core[r].cur.n)]
  BY DEF IInv, Consume
<1>2. core[r].result = "none"
  BY <1>1, Results DEF SoundAt
<1>3. core[r].cur.n = Len(heard[r]) + 1 /\ job[r].made = Len(heard[r]) + 1
  <2>1. /\ HeardInv(core[r], inbox[r], heard[r], job[r], wire[r])
        /\ CoreInv(core[r], inbox[r], job[r], request[r], wire[r])
    BY <1>1 DEF SoundAt, Sound
  <2> QED
    BY <1>1, <2>1 DEF HeardInv, CoreInv, Owed
<1>4. Len(heard[r]) \in Nat
  BY <1>1 DEF Shapes
<1>5. Made' = Made /\ Told[r] = "none" /\ Len(heard[r]) < Made[r]
  BY <1>1, <1>2, <1>3, <1>4 DEF Made, Told
<1>6. heard' = [heard EXCEPT ![r] = Append(@, Len(@) + 1)]
  BY <1>1, <1>3, Zenon
<1>7. Told' \in {Told, [Told EXCEPT ![r] = "failed"]}
  <2>1. CASE Live(r)
    <3>1. core' = [core EXCEPT ![r].at = "acking"]
      BY <2>1 DEF Consume
    <3>2. \A k \in Requests : core'[k].result = core[k].result
      BY <3>1, <1>1 DEF Shapes, Clients
    <3> QED
      BY <3>2 DEF Told
  <2>2. CASE ~Live(r)
    <3>1. Ends(r, "failed")
      BY <2>2 DEF Consume
    <3> QED
      BY <3>1, <1>1, GaveUp
  <2> QED
    BY <2>1, <2>2
<1> QED
  BY <1>5, <1>6, <1>7

LEMMA AckedTells ==
  ASSUME IInv, NEW r \in Requests, Acked(r)
  PROVE  \/ Told' = Told /\ Made' = Made
         \/ Told[r] = "none" /\ Told' = [Told EXCEPT ![r] = "failed"] /\ Made' = Made
         \/ /\ Told[r] = "none" /\ Made[r] > 0 /\ Len(heard[r]) = Made[r]
            /\ Told' = [Told EXCEPT ![r] = "ok"] /\ Made' = Made
<1>1. Shapes /\ SoundAt(r) /\ core[r].at = "acking" /\ job' = job
  BY DEF IInv, Acked
<1>2. CASE Ends(r, "failed")
  BY <1>1, <1>2, GaveUp
<1>3. CASE Ends(r, "ok") /\ core[r].cur.kind = "complete"
  <2>1. core'[r].result = "ok" /\ \A k \in Requests \ {r} : core'[k] = core[k]
    BY <1>1, <1>3, EndsEffect
  <2>2. core[r].result = "none"
    BY <1>1, Results DEF SoundAt
  <2>3. \A k \in Requests : core'[k].result = IF k = r THEN "ok" ELSE core[k].result
    BY <2>1
  <2>4. Even(core[r], heard[r], job[r]) /\ job[r].made > 0
    <3>1. HeardInv(core[r], inbox[r], heard[r], job[r], wire[r])
      BY <1>1 DEF SoundAt, Sound
    <3> QED
      BY <3>1, <1>1, <1>3 DEF HeardInv, Owed
  <2> QED
    BY <1>1, <2>2, <2>3, <2>4 DEF Told, Made, Even
<1>4. CASE core' = [core EXCEPT ![r].at = "wait", ![r].cur = None, ![r].seq = @ + 1]
  <2>1. \A k \in Requests : core'[k].result = core[k].result
    BY <1>1, <1>4 DEF Shapes, Clients
  <2> QED
    BY <1>1, <2>1 DEF Told, Made
<1> QED
  BY <1>2, <1>3, <1>4 DEF Acked

\* The other steps of the client tell nothing, or that it gave up.
LEMMA CoreTells ==
  ASSUME IInv, NEW r \in Requests,
         Open(r) \/ Receive(r) \/ Take(r) \/ ToolsRun(r) \/ GivesUp(r)
  PROVE  /\ Made' = Made /\ heard' = heard
         /\ Told' = Told \/ (Told[r] = "none" /\ Told' = [Told EXCEPT ![r] = "failed"])
<1>1. Shapes /\ core \in [Requests -> Clients] /\ job' = job /\ heard' = heard
  BY DEF IInv, Shapes, Open, Receive, Take, ToolsRun, GivesUp
<1>2. CASE core[r].at # "done" /\ Ends(r, "failed")
  BY <1>1, <1>2, GaveUp
<1>3. CASE \A k \in Requests : core'[k].result = core[k].result
  BY <1>1, <1>3, Quiet
<1>4. CASE Open(r)
  <2>1. CASE coreUp
    BY <1>1, <1>3, <1>4, <2>1 DEF Open, Clients
  <2>2. CASE ~coreUp
    BY <1>2, <1>4, <2>2 DEF Open
  <2> QED
    BY <2>1, <2>2
<1>5. CASE Receive(r)
  <2>1. core' = core \/ core' = [core EXCEPT ![r].failed = TRUE]
    BY <1>5 DEF Receive
  <2>2. \A k \in Requests : core'[k].result = core[k].result
    BY <1>1, <2>1 DEF Clients
  <2> QED
    BY <1>3, <2>2
<1>6. CASE Take(r)
  <2>1. CASE Expected(r)
    <3>1. core' = [core EXCEPT ![r].cur = Head(inbox[r]),
                     ![r].ran = IF Head(inbox[r]).kind = "tools" THEN @ + 1 ELSE @,
                     ![r].at = CASE Head(inbox[r]).kind = "chunk" -> "consume"
                                 [] Head(inbox[r]).kind = "tools" -> "tools"
                                 [] OTHER -> "acking"]
      BY <1>6, <2>1 DEF Take
    <3>2. \A k \in Requests : core'[k].result = core[k].result
      BY <1>1, <3>1 DEF Clients
    <3> QED
      BY <1>3, <3>2
  <2>2. CASE ~Expected(r)
    BY <1>2, <1>6, <2>2 DEF Take
  <2> QED
    BY <2>1, <2>2
<1>7. CASE ToolsRun(r)
  <2>1. CASE Live(r)
    BY <1>1, <1>3, <1>7, <2>1 DEF ToolsRun, Clients
  <2>2. CASE ~Live(r)
    BY <1>2, <1>7, <2>2 DEF ToolsRun
  <2> QED
    BY <2>1, <2>2
<1>8. CASE GivesUp(r)
  BY <1>2, <1>8 DEF GivesUp
<1> QED
  BY <1>4, <1>5, <1>6, <1>7, <1>8

\* A job makes a chunk only once the last one is heard, and never behind a
\* success; its other steps make none.
LEMMA JobMakes ==
  ASSUME IInv, NEW r \in Requests, JobStep(r)
  PROVE  /\ heard' = heard /\ Told' = Told
         /\ \/ Made' = Made
            \/ /\ Made[r] < MaxChunks /\ Made[r] = Len(heard[r]) /\ Told[r] # "ok"
               /\ Made' = [Made EXCEPT ![r] = @ + 1]
<1>1. Shapes /\ job \in [Requests -> JobStates] /\ SoundAt(r)
  <2>1. Shapes /\ SoundAt(r)
    BY DEF IInv
  <2> QED
    BY <2>1 DEF Shapes
<1>2. heard' = heard /\ core' = core
  BY DEF JobStep, JobStarts, EventAcked, JobFails, ErrorUnheard, ProviderText, ProviderCalls,
         RunCall, ProviderEnds, JobCancelled, JobCloses, JobApart
<1>3. CASE \A k \in Requests : job'[k].made = job[k].made
  BY <1>2, <1>3, Quiet
<1>4. CASE ProviderText(r)
  <2>1. CASE job[r].made = MaxChunks
    <3>1. \E e : job' = [job EXCEPT ![r].at = "event", ![r].sent = e]
      BY <1>4, <2>1 DEF ProviderText, Sends
    <3> QED
      BY <1>1, <1>3, <3>1 DEF JobStates
  <2>2. CASE job[r].made # MaxChunks
    <3>1. /\ job[r].at = "think"
          /\ \E e : job' = [job EXCEPT ![r].at = "event", ![r].sent = e, ![r].made = @ + 1]
      BY <1>4, <2>2 DEF ProviderText, At
    <3>2. \A k \in Requests : job'[k].made = IF k = r THEN job[r].made + 1 ELSE job[k].made
      BY <3>1, <1>1 DEF JobStates
    <3>3. job[r].made < MaxChunks
      <4>1. job[r].made \in 0 .. MaxChunks /\ MaxChunks \in Nat
        BY <1>1, StreamAssumption DEF JobStates
      <4> QED
        BY <4>1, <2>2
    <3>4. job[r].made = Len(heard[r])
      BY <1>1, <3>1 DEF SoundAt, Sound, HeardInv, Even
    <3>5. core[r].result # "ok"
      BY <1>1, <3>1 DEF SoundAt, Sound, WholeInv
    <3>6. Made' = [Made EXCEPT ![r] = @ + 1]
      BY <3>2 DEF Made
    <3> QED
      BY <1>2, <3>3, <3>4, <3>5, <3>6 DEF Made, Told
  <2> QED
    BY <2>1, <2>2
<1>5. CASE JobStarts(r) \/ JobFails(r) \/ ProviderEnds(r)
  <2>1. \E e : job' = [job EXCEPT ![r].at = "event", ![r].sent = e]
    BY <1>5 DEF JobStarts, JobFails, ProviderEnds, Sends
  <2> QED
    BY <1>1, <1>3, <2>1 DEF JobStates
<1>6. CASE EventAcked(r)
  <2>1. \/ job' = [job EXCEPT ![r].at = "closing"]
        \/ job' = [job EXCEPT ![r].at = "think", ![r].seq = @ + 1]
        \/ \E exit \in BOOLEAN :
              job' = [job EXCEPT ![r].seq = @ + 1, ![r].exit = exit,
                         ![r].at = IF exit \/ job[r].left = 0 THEN "think" ELSE "calls",
                         ![r].left = IF exit THEN 0 ELSE @]
    BY <1>6 DEF EventAcked
  <2>2. ASSUME NEW exit \in BOOLEAN, NEW to, NEW n,
               job' = [job EXCEPT ![r].seq = @ + 1, ![r].exit = exit, ![r].at = to,
                                  ![r].left = n]
        PROVE  job'[r].made = job[r].made
    BY <1>1, <2>2 DEF JobStates
  <2>3. CASE job' = [job EXCEPT ![r].at = "closing"]
    BY <1>1, <1>3, <2>3 DEF JobStates
  <2>4. CASE job' = [job EXCEPT ![r].at = "think", ![r].seq = @ + 1]
    BY <1>1, <1>3, <2>4 DEF JobStates
  <2>5. ASSUME NEW exit \in BOOLEAN,
               job' = [job EXCEPT ![r].seq = @ + 1, ![r].exit = exit,
                          ![r].at = IF exit \/ job[r].left = 0 THEN "think" ELSE "calls",
                          ![r].left = IF exit THEN 0 ELSE @]
        PROVE  job'[r].made = job[r].made
    BY <2>2, <2>5, Zenon
  <2>6. CASE job'[r].made = job[r].made
    BY <1>3, <2>6, JobsStep
  <2> QED
    BY <2>1, <2>3, <2>4, <2>5, <2>6, Zenon
<1>7. CASE ErrorUnheard(r) \/ JobCloses(r) \/ JobCancelled(r)
  <2>1. \E to : job' = [job EXCEPT ![r].at = to]
    BY <1>7 DEF ErrorUnheard, JobCloses, JobCancelled
  <2> QED
    BY <1>1, <1>3, <2>1 DEF JobStates
<1>8. CASE ProviderCalls(r)
  <2>1. ASSUME NEW e, job' = [job EXCEPT ![r].at = "event", ![r].sent = e]
        PROVE  job'[r].made = job[r].made
    BY <1>1, <2>1 DEF JobStates
  <2>2. ASSUME NEW n, job' = [job EXCEPT ![r].at = "calls", ![r].left = n, ![r].calls = @ + n]
        PROVE  job'[r].made = job[r].made
    BY <1>1, <2>2 DEF JobStates
  <2>3. \/ \E e : job' = [job EXCEPT ![r].at = "event", ![r].sent = e]
        \/ \E n : job' = [job EXCEPT ![r].at = "calls", ![r].left = n, ![r].calls = @ + n]
    BY <1>8 DEF ProviderCalls, Sends
  <2>4. job'[r].made = job[r].made
    BY <2>1, <2>2, <2>3
  <2> QED
    BY <1>3, <2>4, JobsStep
<1>9. CASE RunCall(r)
  <2>1. ASSUME NEW e, job' = [job EXCEPT ![r].at = "event", ![r].sent = e,
                                         ![r].left = @ - 1, ![r].asked = @ + 1]
        PROVE  job'[r].made = job[r].made
    BY <1>1, <2>1 DEF JobStates
  <2>2. ASSUME NEW to, job' = [job EXCEPT ![r].left = @ - 1, ![r].at = to]
        PROVE  job'[r].made = job[r].made
    BY <1>1, <2>2 DEF JobStates
  <2>3. \/ job' = [job EXCEPT ![r].at = "event", ![r].sent = Event("tools", job[r].seq, 0),
                              ![r].left = @ - 1, ![r].asked = @ + 1]
        \/ job' = [job EXCEPT ![r].left = @ - 1,
                              ![r].at = IF job[r].left = 1 THEN "think" ELSE "calls"]
    BY <1>9, Zenon DEF RunCall
  <2>4. job'[r].made = job[r].made
    BY <2>1, <2>2, <2>3, Zenon
  <2> QED
    BY <1>3, <2>4, JobsStep
<1> QED
  BY <1>4, <1>5, <1>6, <1>7, <1>8, <1>9 DEF JobStep

\* Messages come, are lost or refused, connections break: nobody is told, and
\* nothing is made.
LEMMA NetTells ==
  ASSUME IInv,
         \/ \E r \in Requests : NetStep(r)
         \/ CoreDisconnects \/ WorkerDisconnects \/ Reconnect \/ WorkerStops \/ UNCHANGED vars
  PROVE  heard' = heard /\ Told' = Told /\ Made' = Made
<1>1. Shapes /\ core \in [Requests -> Clients] /\ job \in [Requests -> JobStates]
  BY DEF IInv, Shapes
<1>2. ASSUME NEW r \in Requests, Admit(r) PROVE heard' = heard /\ Told' = Told /\ Made' = Made
  <2>1. core' = core /\ heard' = heard
    BY <1>2 DEF Admit
  <2>2. job' = job \/ job' = [job EXCEPT ![r].at = "new"]
    BY <1>2 DEF Admit
  <2>3. \A k \in Requests : job'[k].made = job[k].made
    BY <1>1, <2>2 DEF JobStates
  <2> QED
    BY <2>1, <2>3, Quiet
<1>3. ASSUME NEW r \in Requests, RequestLost(r)
      PROVE  heard' = heard /\ Told' = Told /\ Made' = Made
  <2>1. job' = job /\ heard' = heard
    BY <1>3 DEF RequestLost, NetApart
  <2>2. \A k \in Requests : core'[k].result = core[k].result
    BY <1>1, <1>3 DEF RequestLost, Clients
  <2> QED
    BY <2>1, <2>2, Quiet
<1>4. ASSUME NEW r \in Requests, CancelArrives(r) \/ HintLost(r) \/ EventLost(r)
      PROVE  heard' = heard /\ Told' = Told /\ Made' = Made
  BY <1>4 DEF CancelArrives, HintLost, EventLost, NetApart, Made, Told
<1>5. CASE CoreDisconnects
  <2>1. job' = job /\ heard' = heard
    BY <1>5 DEF CoreDisconnects, NetApart
  <2>2. \A k \in Requests : core'[k].result = core[k].result
    BY <1>1, <1>5 DEF CoreDisconnects, Clients
  <2> QED
    BY <2>1, <2>2, Quiet
<1>6. CASE WorkerDisconnects \/ Reconnect \/ WorkerStops \/ UNCHANGED vars
  BY <1>6 DEF WorkerDisconnects, Reconnect, WorkerStops, NetApart, vars, Made, Told
<1> QED
  BY <1>2, <1>3, <1>4, <1>5, <1>6 DEF NetStep

LEMMA TextStep ==
  IInv /\ [Next]_vars => [Text!Next]_<<Made, heard, Told>>
<1> SUFFICES ASSUME IInv, [Next]_vars PROVE [Text!Next]_<<Made, heard, Told>>
  OBVIOUS
<1>1. ASSUME NEW r \in Requests, Made' = Made, heard' = heard, Told[r] = "none",
             Told' = [Told EXCEPT ![r] = "failed"]
      PROVE  Text!GiveUp(r)
  BY <1>1 DEF Text!GiveUp, Made, Told
<1>2. ASSUME NEW r \in Requests, Consume(r) PROVE Text!Hear(r)
  BY <1>2, ConsumeTells DEF Text!Hear, Made, Told
<1>3. ASSUME NEW r \in Requests, Acked(r) PROVE Text!Succeed(r) \/ Text!GiveUp(r)
                                   \/ UNCHANGED <<Made, heard, Told>>
  <2>1. heard' = heard
    BY <1>3 DEF Acked
  <2> QED
    BY <1>1, <1>3, <2>1, AckedTells DEF Text!Succeed, Made, Told
<1>4. ASSUME NEW r \in Requests, Open(r) \/ Receive(r) \/ Take(r) \/ ToolsRun(r) \/ GivesUp(r)
      PROVE  Text!GiveUp(r) \/ UNCHANGED <<Made, heard, Told>>
  BY <1>1, <1>4, CoreTells
<1>5. ASSUME NEW r \in Requests, JobStep(r)
      PROVE  Text!Make(r) \/ UNCHANGED <<Made, heard, Told>>
  BY <1>5, JobMakes DEF Text!Make, Made, Told
<1>6. CASE \/ \E r \in Requests : NetStep(r)
           \/ CoreDisconnects \/ WorkerDisconnects \/ Reconnect \/ WorkerStops
           \/ UNCHANGED vars
  BY <1>6, NetTells
<1> QED
  BY <1>2, <1>3, <1>4, <1>5, <1>6 DEF Next, CoreStep, Text!Next

\* The stream keeps what TextStream promises: the caller hears a prefix of
\* the text without gaps, the provider is never more than one chunk ahead,
\* and only the whole text counts as a success.
THEOREM ImplementsText == Spec => TextSpec
<1>1. Init => Text!Init
  BY DEF Init, Text!Init
<1>2. IInv /\ [Next]_vars =>
        [Text!Next]_<<[r \in Requests |-> job[r].made], heard,
                      [r \in Requests |-> core[r].result]>>
  BY TextStep DEF Made, Told
<1> QED
  BY <1>1, <1>2, Invariance, PTL DEF Spec, TextSpec, Text!Spec

-----------------------------------------------------------------------------
(* VoiceSession.                                                           *)

\* The types, by who writes what.
Where == {"none", "new", "ended"} \cup InTry \cup InFinally
RunRecord == [at : Where, kind : {"listen", "text", "closing"}, failed : BOOLEAN]
OwnType ==
    /\ current \subseteq Runs /\ task \in Runs \cup {NoRun} /\ queue \in Runs \cup {NoRun}
    /\ idleClosing \in BOOLEAN /\ used \in 0 .. MaxMessages + 1
    /\ open \in BOOLEAN /\ quota \in BOOLEAN
FlagType ==
    /\ currentTts \in Runs \cup {NoRun}
    /\ state \in {"idle", "asr", "llm", "tts", "error", "done", "aborted"}
    /\ ending \in BOOLEAN /\ waking \in BOOLEAN /\ closeAfter \in BOOLEAN
    /\ quiet \in BOOLEAN /\ speaker \in {"off", "on"}
RunType ==
    /\ run \in [Runs -> RunRecord]
    /\ tts \in [Runs -> {"none", "open", "closed", "left"}]
    /\ flight \in [Runs -> {"none", "start", "stop", "over"}]
    /\ started \subseteq Runs /\ interrupted \subseteq Runs
ActorType ==
    /\ pc \in [Actors -> {"recv", "sleep", "camera", "gather", "joined", "silence", "after", "clear",
                          "stopclear", "joinW", "await", "emits", "wclose", "done"}]
    /\ op \in [Actors -> {"none", "abort", "start", "text", "wake", "overflow", "expire",
                          "final"}]
    /\ target \in [Actors -> Runs \cup {NoRun}]
    /\ speech \in [Actors -> Runs \cup {NoRun}]
    /\ cut \in [Actors -> BOOLEAN] /\ baton \in Actors \cup {"free"}
    /\ messages \in 0 .. MaxMessages /\ cancels \in 0 .. MaxCancels
SessionParts == OwnType /\ FlagType /\ RunType /\ ActorType

LEMMA TypeFacts == SessionParts <=> SessionTypes
BY DEF SessionParts, OwnType, FlagType, RunType, ActorType, SessionTypes, Where, RunRecord

-----------------------------------------------------------------------------
(* The runs.                                                               *)

\* What is left of a run's step: types, and runs that end.
SessionEnds == /\ FlagType' /\ RunType' /\ LiveRuns' \subseteq LiveRuns /\ ending' \in {ending, TRUE}
               /\ UNCHANGED <<current, task, queue, idleClosing, used, actor, open, quota>>

LEMMA RunNotNone == ASSUME NEW r \in Runs PROVE r # NoRun
BY SessionAssumption DEF Runs, NoRun

LEMMA LiveShrinks ==
    ASSUME NEW r \in LiveRuns, \A s \in Runs : s # r => run'[s] = run[s]
    PROVE  LiveRuns' \subseteq LiveRuns
BY DEF LiveRuns

LEMMA MoveFacts ==
    ASSUME SessionParts, NEW r \in LiveRuns, NEW w \in Where, Move(r, w)
    PROVE  run' \in [Runs -> RunRecord] /\ LiveRuns' \subseteq LiveRuns
<1>1. r \in Runs /\ run \in [Runs -> RunRecord] /\ "ended" \in Where
  BY DEF LiveRuns, SessionParts, RunType, Where
<1> DEFINE moved == IF w = "ended" THEN [at |-> "ended", kind |-> "listen", failed |-> FALSE]
                                   ELSE [run[r] EXCEPT !.at = w]
<1>2. moved \in RunRecord
  BY <1>1 DEF RunRecord
<1> HIDE DEF moved
<1>3. run' = [run EXCEPT ![r] = moved]
  BY <1>1 DEF Move, moved
<1>4. run' \in [Runs -> RunRecord] /\ \A s \in Runs : s # r => run'[s] = run[s]
  BY <1>1, <1>2, <1>3
<1> QED
  BY <1>4, LiveShrinks

LEMMA EpilogueFacts ==
    ASSUME SessionParts, NEW r \in LiveRuns, Epilogue(r)
    PROVE  /\ run' \in [Runs -> RunRecord] /\ LiveRuns' \subseteq LiveRuns /\ waking' \in BOOLEAN
<1>1. waking' \in BOOLEAN
  BY DEF Epilogue, SessionParts, FlagType
<1>2. \E w \in Where : Move(r, w)
  BY DEF Epilogue, Where, InFinally
<1> QED
  BY <1>1, <1>2, MoveFacts

LEMMA LeaveFacts ==
    ASSUME SessionParts, NEW r \in LiveRuns, Leave(r)
    PROVE  /\ run' \in [Runs -> RunRecord] /\ LiveRuns' \subseteq LiveRuns /\ waking' \in BOOLEAN
<1>1. CASE tts[r] = "open"
  <2>1. waking' \in BOOLEAN /\ Move(r, "close") /\ "close" \in Where
    BY <1>1 DEF Leave, SessionParts, FlagType, Where, InFinally
  <2> QED
    BY <2>1, MoveFacts
<1>2. CASE tts[r] # "open"
  BY <1>2, EpilogueFacts DEF Leave
<1> QED
  BY <1>1, <1>2

\* A step of a run is one of a run that lives.
LEMMA StepsLive ==
    ASSUME NEW r \in Runs, NEW w \in {"new"} \cup InTry \cup InFinally, Steps(r, w)
    PROVE  r \in LiveRuns
BY DEF Steps, LiveRuns

LEMMA WhereFacts ==
    /\ {"new"} \cup InTry \cup InFinally \subseteq Where
    /\ InTry = {"asr", "final", "llm", "speak", "fail", "mute"}
    /\ InFinally = {"close", "stop", "epilogue", "complete", "goodbye"}
BY DEF Where, InTry, InFinally

\* Types of what a step of a run writes, given the run itself.
LEMMA RunFrame ==
    ASSUME SessionParts, NEW r \in LiveRuns,
           run' \in [Runs -> RunRecord], LiveRuns' \subseteq LiveRuns,
           UNCHANGED <<current, task, queue, idleClosing, used, actor, open, quota>>,
           ending' \in {ending, TRUE}, waking' \in BOOLEAN, closeAfter' \in BOOLEAN,
           quiet' \in BOOLEAN, state' = state \/ state' \in {"llm", "error", "tts", "done"},
           currentTts' \in {currentTts, NoRun, r}, speaker' \in {speaker, "on", "off"},
           tts' = tts \/ \E v \in {"open", "closed", "left", tts[r]} : tts' = [tts EXCEPT ![r] = v],
           flight' = flight
             \/ \E v \in {"none", "start", "stop", "over"} : flight' = [flight EXCEPT ![r] = v],
           started' \in {started, started \cup {r}, started \ {r}},
           interrupted' \in {interrupted, interrupted \ {r}}
    PROVE  SessionEnds
<1>1. r \in Runs
  BY DEF LiveRuns
<1>2. tts' \in [Runs -> {"none", "open", "closed", "left"}]
  <2>1. tts \in [Runs -> {"none", "open", "closed", "left"}]
    BY DEF SessionParts, RunType
  <2> QED
    BY <1>1, <2>1
<1>3. flight' \in [Runs -> {"none", "start", "stop", "over"}]
  <2>1. flight \in [Runs -> {"none", "start", "stop", "over"}]
    BY DEF SessionParts, RunType
  <2> QED
    BY <1>1, <2>1
<1>4. started' \subseteq Runs /\ interrupted' \subseteq Runs
  BY <1>1 DEF SessionParts, RunType
<1>5. FlagType'
  BY <1>1 DEF SessionParts, FlagType
<1> QED
  BY <1>2, <1>3, <1>4, <1>5 DEF SessionEnds, RunType

LEMMA ApartFacts ==
    Apart => UNCHANGED <<current, task, queue, idleClosing, used, actor, open, quota>>
BY DEF Apart

LEMMA FlagFacts ==
    SessionParts => /\ ending \in BOOLEAN /\ waking \in BOOLEAN /\ closeAfter \in BOOLEAN
                    /\ quiet \in BOOLEAN /\ run \in [Runs -> RunRecord]
BY DEF SessionParts, FlagType, RunType

LEMMA RunBeginsEnds == ASSUME SessionParts, NEW r \in Runs, RunBegins(r) PROVE SessionEnds
<1>1. r \in LiveRuns
  BY StepsLive DEF RunBegins
<1>2. run' \in [Runs -> RunRecord] /\ LiveRuns' \subseteq LiveRuns
  <2>1. \E w \in Where : Move(r, w)
    BY WhereFacts DEF RunBegins, BeginAnswer
  <2> QED
    BY <1>1, <2>1, MoveFacts
<1> QED
  BY <1>1, <1>2, ApartFacts, FlagFacts, RunFrame DEF RunBegins, BeginAnswer

LEMMA HearsEnds == ASSUME SessionParts, NEW r \in Runs, AsrHears(r) \/ AsrFinal(r) PROVE SessionEnds
<1>1. r \in LiveRuns
  BY WhereFacts, StepsLive DEF AsrHears, AsrFinal
<1>2. run' \in [Runs -> RunRecord] /\ LiveRuns' \subseteq LiveRuns
  <2>1. CASE AsrHears(r)
    BY <2>1, FlagFacts DEF AsrHears, LiveRuns
  <2>2. CASE AsrFinal(r)
    BY <1>1, <2>2, WhereFacts, MoveFacts DEF AsrFinal
  <2> QED
    BY <2>1, <2>2
<1> QED
  BY <1>1, <1>2, ApartFacts, FlagFacts, RunFrame DEF AsrHears, AsrFinal

LEMMA FailsEnds == ASSUME SessionParts, NEW r \in Runs, RunFails(r) PROVE SessionEnds
<1>1. r \in LiveRuns
  BY WhereFacts DEF RunFails, LiveRuns
<1>2. PICK w \in {"mute", "fail"} : run' = [run EXCEPT ![r].at = w, ![r].failed = TRUE]
  BY DEF RunFails
<1>3. run' \in [Runs -> RunRecord] /\ \A s \in Runs : s # r => run'[s] = run[s]
  <2>1. w \in Where
    BY WhereFacts
  <2>2. run \in [Runs -> RunRecord] /\ run[r] \in RunRecord
    BY FlagFacts
  <2>3. [run[r] EXCEPT !.at = w, !.failed = TRUE] \in RunRecord
    BY <2>1, <2>2 DEF RunRecord
  <2> QED
    BY <1>2, <2>2, <2>3
<1> QED
  BY <1>1, <1>3, LiveShrinks, ApartFacts, FlagFacts, RunFrame DEF RunFails

LEMMA FinalEnds == ASSUME SessionParts, NEW r \in Runs, FinalEmitted(r) PROVE SessionEnds
<1>1. r \in LiveRuns
  BY WhereFacts, StepsLive DEF FinalEmitted
<1>2. ASSUME Leave(r)
      PROVE  run' \in [Runs -> RunRecord] /\ LiveRuns' \subseteq LiveRuns /\ waking' \in BOOLEAN
  BY <1>1, <1>2, LeaveFacts
<1>3. ASSUME BeginAnswer(r)
      PROVE  run' \in [Runs -> RunRecord] /\ LiveRuns' \subseteq LiveRuns
  BY <1>1, <1>3, WhereFacts, MoveFacts DEF BeginAnswer
<1>4. run' \in [Runs -> RunRecord] /\ LiveRuns' \subseteq LiveRuns /\ waking' \in BOOLEAN
  BY <1>2, <1>3, FlagFacts DEF FinalEmitted
<1> QED
  BY <1>1, <1>4, ApartFacts, FlagFacts, RunFrame DEF FinalEmitted, BeginAnswer

LEMMA SpeechEnds ==
    ASSUME SessionParts, NEW r \in Runs,
           ToolExit(r) \/ PlaybackStarts(r) \/ PlaybackStops(r) \/ FlightLands(r)
    PROVE  SessionEnds
<1>1. r \in LiveRuns
  BY WhereFacts, StepsLive
     DEF ToolExit, PlaybackStarts, PlaybackStops, FlightLands, LiveRuns
<1>2. run' = run
  BY DEF ToolExit, PlaybackStarts, PlaybackStops, FlightLands
<1>3. run' \in [Runs -> RunRecord] /\ LiveRuns' \subseteq LiveRuns
  BY <1>2, FlagFacts DEF LiveRuns
<1>4. CASE ToolExit(r)
  BY <1>1, <1>3, <1>4, ApartFacts, FlagFacts, RunFrame DEF ToolExit
<1>5. CASE PlaybackStarts(r)
  BY <1>1, <1>3, <1>5, ApartFacts, FlagFacts, RunFrame DEF PlaybackStarts
<1>6. CASE PlaybackStops(r)
  BY <1>1, <1>3, <1>6, ApartFacts, FlagFacts, RunFrame DEF PlaybackStops
<1>7. CASE FlightLands(r)
  <2>1. \E v \in {"none", "over"} : flight' = [flight EXCEPT ![r] = v]
    BY <1>7 DEF FlightLands
  <2>2. UNCHANGED turn /\ UNCHANGED <<tts, interrupted>> /\ Apart
    BY <1>7 DEF FlightLands
  <2>3. started' \in {started, started \ {r}} /\ speaker' \in {"on", "off"}
    BY <1>7 DEF FlightLands
  <2> QED
    BY <1>1, <1>3, <2>1, <2>2, <2>3, ApartFacts, FlagFacts, RunFrame DEF turn
<1> QED
  BY <1>4, <1>5, <1>6, <1>7

LEMMA SpokenEnds ==
    ASSUME SessionParts, NEW r \in Runs,
           LlmComplete(r) \/ LlmStale(r) \/ Spoken(r) \/ FailReports(r) \/ FailSpeechFails(r)
    PROVE  SessionEnds
<1>1. r \in LiveRuns
  BY WhereFacts, StepsLive DEF LlmComplete, LlmStale, Spoken, FailReports, FailSpeechFails
<1>2. run' \in [Runs -> RunRecord] /\ LiveRuns' \subseteq LiveRuns /\ waking' \in BOOLEAN
  <2>1. CASE LlmComplete(r)
    BY <1>1, <2>1, WhereFacts, MoveFacts, FlagFacts DEF LlmComplete, turn
  <2>2. CASE Spoken(r)
    BY <1>1, <2>2, WhereFacts, MoveFacts, FlagFacts DEF Spoken
  <2>3. CASE FailReports(r)
    BY <1>1, <2>3, WhereFacts, MoveFacts, LeaveFacts, FlagFacts DEF FailReports
  <2>4. CASE FailSpeechFails(r)
    BY <1>1, <2>4, WhereFacts, MoveFacts, FlagFacts DEF FailSpeechFails, turn
  <2>5. CASE LlmStale(r)
    BY <1>1, <2>5, LeaveFacts DEF LlmStale
  <2> QED
    BY <2>1, <2>2, <2>3, <2>4, <2>5
<1>3. CASE LlmComplete(r)
  BY <1>1, <1>2, <1>3, ApartFacts, FlagFacts, RunFrame DEF LlmComplete, turn
<1>4. CASE Spoken(r)
  BY <1>1, <1>2, <1>4, ApartFacts, FlagFacts, RunFrame DEF Spoken
<1>5. CASE FailReports(r)
  BY <1>1, <1>2, <1>5, ApartFacts, FlagFacts, RunFrame DEF FailReports
<1>6. CASE FailSpeechFails(r)
  BY <1>1, <1>2, <1>6, ApartFacts, FlagFacts, RunFrame DEF FailSpeechFails, turn
<1>7. CASE LlmStale(r)
  BY <1>1, <1>2, <1>7, ApartFacts, FlagFacts, RunFrame DEF LlmStale
<1> QED
  BY <1>3, <1>4, <1>5, <1>6, <1>7

LEMMA CloseEnds ==
    ASSUME SessionParts, NEW r \in Runs, TtsClosed(r) \/ StopEmitted(r)
    PROVE  SessionEnds
<1>1. r \in LiveRuns
  BY WhereFacts, StepsLive DEF TtsClosed, StopEmitted
<1>2. run' \in [Runs -> RunRecord] /\ LiveRuns' \subseteq LiveRuns /\ waking' \in BOOLEAN
  <2>1. CASE Epilogue(r)
    BY <1>1, <2>1, EpilogueFacts
  <2>2. CASE Move(r, "stop") /\ UNCHANGED waking
    BY <1>1, <2>2, WhereFacts, MoveFacts, FlagFacts
  <2> QED
    BY <2>1, <2>2 DEF TtsClosed, StopEmitted
<1>3. CASE TtsClosed(r)
  <2>1. currentTts' \in {currentTts, NoRun}
    BY <1>3 DEF TtsClosed
  <2> QED
    BY <1>1, <1>2, <1>3, <2>1, ApartFacts, FlagFacts, RunFrame DEF TtsClosed
<1>4. CASE StopEmitted(r)
  <2>1. currentTts' \in {currentTts, NoRun}
    BY <1>4 DEF StopEmitted
  <2> QED
    BY <1>1, <1>2, <1>4, <2>1, ApartFacts, FlagFacts, RunFrame DEF StopEmitted
<1> QED
  BY <1>3, <1>4

LEMMA CompleteEnds ==
    ASSUME SessionParts, NEW r \in Runs,
           TerminalStop(r) \/ CompleteEmitted(r) \/ GoodbyeEmitted(r)
    PROVE  SessionEnds
<1>1. r \in LiveRuns
  BY WhereFacts, StepsLive DEF TerminalStop, CompleteEmitted, GoodbyeEmitted
<1>2. "ended" \in Where
  BY DEF Where
<1>3. run' \in [Runs -> RunRecord] /\ LiveRuns' \subseteq LiveRuns
  <2>1. \E w \in Where : Move(r, w)
    BY <1>2, WhereFacts DEF TerminalStop, CompleteEmitted, GoodbyeEmitted
  <2> QED
    BY <1>1, <2>1, MoveFacts
<1>4. CASE TerminalStop(r)
  BY <1>1, <1>3, <1>4, ApartFacts, FlagFacts, RunFrame DEF TerminalStop, turn
<1>5. CASE CompleteEmitted(r)
  BY <1>1, <1>3, <1>5, ApartFacts, FlagFacts, RunFrame DEF CompleteEmitted
<1>6. CASE GoodbyeEmitted(r)
  BY <1>1, <1>3, <1>6, ApartFacts, FlagFacts, RunFrame DEF GoodbyeEmitted
<1> QED
  BY <1>4, <1>5, <1>6

LEMMA CancelledEnds == ASSUME SessionParts, NEW r \in Runs, RunCancelled(r) PROVE SessionEnds
<1>1. r \in LiveRuns
  BY DEF RunCancelled
<1>2. "ended" \in Where
  BY DEF Where
<1>3. run' \in [Runs -> RunRecord] /\ LiveRuns' \subseteq LiveRuns /\ waking' \in BOOLEAN
  BY <1>1, <1>2, MoveFacts, LeaveFacts, FlagFacts DEF RunCancelled
<1>4. tts' = tts \/ \E v \in {"left", tts[r]} : tts' = [tts EXCEPT ![r] = v]
  BY DEF RunCancelled
<1> QED
  BY <1>1, <1>3, <1>4, ApartFacts, FlagFacts, RunFrame DEF RunCancelled

LEMMA RunsEnd == ASSUME SessionParts, NEW r \in Runs, RunStep(r) \/ RunEvent(r) PROVE SessionEnds
BY RunBeginsEnds, HearsEnds, FailsEnds, FinalEnds, SpeechEnds, SpokenEnds, CloseEnds,
   CompleteEnds, CancelledEnds DEF RunStep, RunEvent

\* Where a run moves to.
LEMMA MovesTo ==
    ASSUME SessionParts, NEW r \in Runs, NEW w, Move(r, w)
    PROVE  run'[r].at = w /\ \A s \in Runs \ {r} : run'[s] = run[s]
<1>1. run \in [Runs -> RunRecord] /\ run[r] \in RunRecord
  BY FlagFacts
<1>2. CASE w = "ended"
  BY <1>1, <1>2 DEF Move
<1>3. CASE w # "ended"
  <2>1. run' = [run EXCEPT ![r] = [@ EXCEPT !.at = w]]
    BY <1>3 DEF Move
  <2> QED
    BY <1>1, <2>1 DEF RunRecord
<1> QED
  BY <1>2, <1>3

\* Leaving is no answering; and a run of no generation only closes.
LEMMA LeavesTo ==
    ASSUME SessionParts, NEW r \in Runs, Leave(r) \/ Epilogue(r)
    PROVE  /\ run'[r].at \in {"close", "ended", "epilogue", "complete"}
           /\ ~Current(r) => run'[r].at \in {"close", "ended"}
           /\ \A s \in Runs \ {r} : run'[s] = run[s]
<1>1. CASE Move(r, "close")
  BY <1>1, MovesTo
<1>2. CASE Epilogue(r)
  <2>1. CASE ~Current(r)
    BY <1>2, <2>1, MovesTo DEF Epilogue
  <2>2. CASE Current(r)
    <3>1. \E w \in {"epilogue", "complete"} : Move(r, w)
      BY <1>2, <2>2 DEF Epilogue
    <3> QED
      BY <2>2, <3>1, MovesTo
  <2> QED
    BY <2>1, <2>2
<1> QED
  BY <1>1, <1>2 DEF Leave

\* Only what lives steps.
LEMMA RunLives ==
    ASSUME SessionParts, NEW r \in Runs, RunStep(r) \/ RunEvent(r)
    PROVE  r \in LiveRuns
<1>1. CASE RunEvent(r)
  BY <1>1, WhereFacts DEF RunEvent, AsrHears, AsrFinal, RunFails, ToolExit, PlaybackStarts,
     FailSpeechFails, Steps, LiveRuns
<1>2. CASE RunStep(r)
  BY <1>2, WhereFacts DEF RunStep, RunBegins, FinalEmitted, LlmComplete, LlmStale, FlightLands,
     PlaybackStops, Spoken, FailReports, TtsClosed, StopEmitted, TerminalStop, CompleteEmitted,
     GoodbyeEmitted, RunCancelled, Steps, LiveRuns
<1> QED
  BY <1>1, <1>2

\* What a step of a run says of the answer: it is given in state llm or tts,
\* and where no generation is left it only ends.
AnswerOf(r) ==
    /\ \A s \in Runs \ {r} : run'[s] = run[s]
    /\ run'[r].at = "llm" =>
          state' \in {"llm", "tts"} \/ (run[r].at = "llm" /\ state' = state)
    /\ current = {} /\ run[r].at \in {"llm", "close"} =>
          run'[r].at \in {"llm", "close", "ended"} /\ state' = state

LEMMA AnswerBegins ==
    ASSUME SessionParts, NEW r \in Runs,
           \/ RunBegins(r) \/ AsrHears(r) \/ AsrFinal(r) \/ RunFails(r) \/ FinalEmitted(r)
    PROVE  AnswerOf(r)
<1>1. CASE RunBegins(r)
  <2>1. run[r].at = "new" /\ \E w \in {"asr", "final", "llm"} :
            Move(r, w) /\ (w = "llm" => state' = "llm")
    BY <1>1 DEF RunBegins, BeginAnswer, Steps
  <2> QED
    BY <2>1, MovesTo DEF AnswerOf
<1>2. CASE AsrHears(r)
  BY <1>2 DEF AsrHears, Steps, AnswerOf
<1>3. CASE AsrFinal(r)
  BY <1>3, MovesTo DEF AsrFinal, Steps, AnswerOf
<1>4. CASE RunFails(r)
  <2>1. PICK w \in {"mute", "fail"} : run' = [run EXCEPT ![r].at = w, ![r].failed = TRUE]
    BY <1>4 DEF RunFails
  <2>2. run'[r].at = w /\ \A s \in Runs \ {r} : run'[s] = run[s]
    BY <2>1, FlagFacts DEF RunRecord
  <2> QED
    BY <1>4, <2>2 DEF RunFails, Current, AnswerOf
<1>5. CASE FinalEmitted(r)
  <2>1. run[r].at = "final"
    BY <1>5 DEF FinalEmitted, Steps
  <2>2. CASE Leave(r)
    BY <2>1, <2>2, LeavesTo DEF AnswerOf
  <2>3. CASE BeginAnswer(r)
    BY <2>1, <2>3, MovesTo DEF BeginAnswer, AnswerOf
  <2> QED
    BY <1>5, <2>2, <2>3 DEF FinalEmitted
<1> QED
  BY <1>1, <1>2, <1>3, <1>4, <1>5

LEMMA AnswerSpeaks ==
    ASSUME SessionParts, NEW r \in Runs,
           \/ ToolExit(r) \/ LlmComplete(r) \/ LlmStale(r) \/ PlaybackStarts(r)
           \/ PlaybackStops(r) \/ FlightLands(r) \/ Spoken(r) \/ FailReports(r)
           \/ FailSpeechFails(r)
    PROVE  AnswerOf(r)
<1>1. CASE ToolExit(r)
  BY <1>1 DEF ToolExit, Steps, AnswerOf
<1>2. CASE LlmComplete(r)
  BY <1>2, MovesTo DEF LlmComplete, Steps, Current, AnswerOf
<1>3. CASE LlmStale(r)
  BY <1>3, LeavesTo DEF LlmStale, Steps, AnswerOf
<1>4. CASE PlaybackStarts(r)
  BY <1>4 DEF PlaybackStarts, Current, AnswerOf
<1>5. CASE PlaybackStops(r)
  BY <1>5 DEF PlaybackStops, AnswerOf
<1>6. CASE FlightLands(r)
  BY <1>6 DEF FlightLands, turn, AnswerOf
<1>7. CASE Spoken(r)
  BY <1>7, MovesTo DEF Spoken, Steps, AnswerOf
<1>8. CASE FailReports(r)
  <2>1. run[r].at \in {"fail", "mute"} /\ (Move(r, "speak") \/ Leave(r))
    BY <1>8 DEF FailReports, Steps
  <2> QED
    BY <2>1, MovesTo, LeavesTo DEF AnswerOf
<1>9. CASE FailSpeechFails(r)
  BY <1>9, MovesTo DEF FailSpeechFails, Steps, AnswerOf
<1> QED
  BY <1>1, <1>2, <1>3, <1>4, <1>5, <1>6, <1>7, <1>8, <1>9

LEMMA AnswerEnds ==
    ASSUME SessionParts, NEW r \in Runs,
           \/ TtsClosed(r) \/ StopEmitted(r) \/ TerminalStop(r) \/ CompleteEmitted(r)
           \/ GoodbyeEmitted(r) \/ RunCancelled(r)
    PROVE  AnswerOf(r)
<1>1. CASE TtsClosed(r)
  <2>1. run[r].at = "close" /\ state' = state
    BY <1>1 DEF TtsClosed, Steps
  <2>2. \/ Current(r) /\ Move(r, "stop")
        \/ Epilogue(r)
    BY <1>1 DEF TtsClosed
  <2> QED
    BY <2>1, <2>2, MovesTo, LeavesTo DEF Current, AnswerOf
<1>2. CASE StopEmitted(r)
  BY <1>2, LeavesTo DEF StopEmitted, Steps, AnswerOf
<1>3. CASE TerminalStop(r)
  BY <1>3, MovesTo DEF TerminalStop, Steps, AnswerOf
<1>4. CASE CompleteEmitted(r)
  <2>1. run[r].at = "complete" /\ (Move(r, "goodbye") \/ Move(r, "ended"))
    BY <1>4 DEF CompleteEmitted, Steps
  <2> QED
    BY <2>1, MovesTo DEF AnswerOf
<1>5. CASE GoodbyeEmitted(r)
  BY <1>5, MovesTo DEF GoodbyeEmitted, Steps, AnswerOf
<1>6. CASE RunCancelled(r)
  <2>1. state' = state
    BY <1>6 DEF RunCancelled
  <2>2. Leave(r) \/ Move(r, "ended")
    BY <1>6 DEF RunCancelled
  <2>3. run'[r].at # "llm" /\ \A q \in Runs \ {r} : run'[q] = run[q]
    BY <2>2, MovesTo, LeavesTo
  <2>4. current = {} => run'[r].at \in {"close", "ended"}
    BY <2>2, MovesTo, LeavesTo DEF Current
  <2> QED
    BY <2>1, <2>3, <2>4 DEF AnswerOf
<1> QED
  BY <1>1, <1>2, <1>3, <1>4, <1>5, <1>6

LEMMA AnswerSteps ==
    ASSUME SessionParts, NEW r \in Runs, RunStep(r) \/ RunEvent(r)
    PROVE  AnswerOf(r)
BY AnswerBegins, AnswerSpeaks, AnswerEnds DEF RunStep, RunEvent

-----------------------------------------------------------------------------
(* The actors.                                                             *)

Aborting == {"gather", "joined", "silence", "after"}
InAbort  == {"camera"} \cup Aborting
Creates  == {"start", "text", "wake"}
HandlerPlaces == InAbort \cup {"recv", "stopclear", "clear", "joinW", "done"}

\* Where the handler and the watchdog are, in what, and who holds the baton. The
\* watchdog aborts once, when no answer is given, so never beside a camera; it
\* then has to wait only for a turn that the handler was not aborting itself.
ActorInv ==
    /\ pc["H"] \in HandlerPlaces
    /\ pc["W"] \in {"sleep", "gather", "joined", "after", "await", "emits", "wclose", "done"}
    /\ \A a \in Actors : baton = a <=> pc[a] \in {"joined", "after"}
    /\ pc["H"] \in InAbort => /\ op["H"] \in Creates \cup {"abort", "overflow", "final"}
                              /\ op["H"] = "final" => pc["W"] = "done" /\ current = {}
    /\ speech["W"] = NoRun
    /\ pc["W"] = "sleep" => ~idleClosing
    /\ pc["W"] \notin {"sleep", "done"} => idleClosing
    /\ pc["W"] = "gather" => pc["H"] \notin Aborting \cup {"clear"}

\* Somebody waits for the end of the run.
Awaited(r) ==
    \/ target["H"] = r /\ pc["H"] = "gather"
    \/ target["W"] = r /\ pc["W"] \in {"gather", "await"}

\* A run that lives is the task, or awaited; the task of an open session belongs
\* to the present generation, unless an abort that waits for the camera is about
\* to take it; and where a turn is aborted or about to be created there is none,
\* unless it is the farewell, which the watchdog awaits.
TaskInv ==
    /\ \A r \in LiveRuns : r = task \/ Awaited(r)
    /\ task # NoRun /\ open => task \in current \/ pc["H"] = "camera"
    /\ pc["H"] \in Aborting \cup {"clear"} \/ pc["W"] \in Aborting =>
          \/ task = NoRun
          \/ idleClosing /\ (task \notin LiveRuns \/ (pc["W"] = "await" /\ target["W"] = task))

\* As long as the watchdog looks, an answer is given in state llm or tts.
AnswerInv ==
    pc["W"] = "sleep" =>
        \A r \in LiveRuns : run[r].at = "llm" => state \in {"llm", "tts"}

\* Behind the camera's wait is nothing but the turn that called it, or its end.
CameraInv ==
    pc["H"] = "camera" =>
        /\ current = {} /\ pc["W"] \in {"sleep", "done"}
        /\ pc["W"] = "sleep" => state \in {"llm", "tts"}
        /\ \A r \in LiveRuns : run[r].at \in {"llm", "close"}

\* A turn that still listens has its queue, unless the session has expired; the
\* handler that is about to put the end of speech into it has it just as long.
QueueInv ==
    /\ ~idleClosing /\ task # NoRun /\ ~ending => queue # NoRun
    /\ pc["H"] = "stopclear" => (queue = NoRun <=> idleClosing)

\* Each message makes one run at most, and the expiry another one.
OwesRun == pc["H"] = "clear" \/ (pc["H"] \in InAbort /\ op["H"] \in Creates)
CountInv ==
    used + (IF OwesRun THEN 1 ELSE 0) + (IF pc["W"] \in Aborting THEN 1 ELSE 0)
        <= messages + (IF idleClosing THEN 1 ELSE 0)

\* The quota is returned behind everything else, except for a run that a handler
\* cut off in its last abort did not come to take.
QuotaInv ==
    ~quota => /\ pc["H"] = "done" /\ pc["W"] = "done" /\ current = {}
              /\ \A r \in LiveRuns : r = task /\ cut["H"]

SessionInv == /\ SessionParts /\ ActorInv /\ TaskInv /\ AnswerInv /\ CameraInv
              /\ QueueInv /\ CountInv /\ QuotaInv

LEMMA SessionInitInv == SessionInit => SessionInv
<1> SUFFICES ASSUME SessionInit PROVE SessionInv
  OBVIOUS
<1>1. 0 \in 0 .. MaxMessages + 1 /\ 0 \in 0 .. MaxMessages /\ 0 \in 0 .. MaxCancels
  BY SessionAssumption
<1>2. OwnType /\ FlagType
  BY <1>1 DEF SessionInit, OwnType, FlagType
<1>3. [at |-> "none", kind |-> "listen", failed |-> FALSE] \in RunRecord
  BY DEF RunRecord, Where
<1>4. RunType
  BY <1>3 DEF SessionInit, RunType
<1>5. ActorType
  BY <1>1 DEF SessionInit, ActorType, Actors
<1>6. LiveRuns = {}
  BY DEF SessionInit, LiveRuns, InTry, InFinally
<1>7. pc["H"] = "recv" /\ pc["W"] = "sleep"
  BY DEF SessionInit, Actors
<1>8. ActorInv
  BY <1>7 DEF SessionInit, ActorInv, HandlerPlaces, InAbort, Aborting, Actors
<1>9. TaskInv /\ QueueInv /\ QuotaInv /\ AnswerInv /\ CameraInv
  BY <1>6, <1>7 DEF SessionInit, TaskInv, QueueInv, QuotaInv, Aborting, AnswerInv, CameraInv
<1>10. CountInv
  BY <1>7, SessionAssumption DEF SessionInit, CountInv, OwesRun, InAbort, Aborting
<1> QED
  BY <1>2, <1>4, <1>5, <1>8, <1>9, <1>10 DEF SessionInv, SessionParts

\* As long as the watchdog looks at most one run lives; and none where a turn
\* is about to be created.
LEMMA OneLives ==
    ASSUME SessionInv, pc["W"] \in {"sleep", "done"}, ~idleClosing \/ pc["W"] = "done"
    PROVE  /\ \A q, r \in LiveRuns : q = r
           /\ pc["H"] # "gather" => \A r \in LiveRuns : r = task
           /\ /\ pc["H"] \in Aborting \cup {"clear"}
              /\ pc["H"] = "gather" => target["H"] \notin LiveRuns
              /\ pc["W"] \in {"sleep", "done"}
              => LiveRuns = {}
<1>1. \A r \in LiveRuns : r # NoRun
  BY RunNotNone DEF LiveRuns
<1>2. \A r \in LiveRuns : r = task \/ (r = target["H"] /\ pc["H"] = "gather")
  BY DEF SessionInv, TaskInv, Awaited
<1>3. pc["H"] \in Aborting \cup {"clear"} => task = NoRun \/ task \notin LiveRuns
  BY DEF SessionInv, TaskInv
<1>4. pc["H"] = "gather" => pc["H"] \in Aborting
  BY DEF Aborting
<1> QED
  BY <1>1, <1>2, <1>3, <1>4

\* Runs only end: this disturbs nothing.
LEMMA RunStepInv == ASSUME SessionInv, NEW r \in Runs, RunStep(r) \/ RunEvent(r) PROVE SessionInv'
<1>1. SessionEnds
  BY RunsEnd DEF SessionInv
<1>2. OwnType' /\ ActorType'
  BY <1>1 DEF SessionEnds, SessionInv, SessionParts, OwnType, ActorType, actor
<1>3. SessionParts'
  BY <1>1, <1>2 DEF SessionEnds, SessionParts
<1>4. ActorInv'
  BY <1>1 DEF SessionEnds, SessionInv, ActorInv, actor
<1>5. TaskInv'
  BY <1>1 DEF SessionEnds, SessionInv, TaskInv, Awaited, actor
<1>6. QueueInv' /\ QuotaInv'
  <2>1. ~ending' => ~ending
    BY <1>1 DEF SessionEnds, SessionInv, SessionParts, FlagType
  <2>2. QueueInv'
    BY <1>1, <2>1 DEF SessionEnds, SessionInv, QueueInv, actor
  <2>3. QuotaInv'
    BY <1>1 DEF SessionEnds, SessionInv, QuotaInv, actor
  <2> QED
    BY <2>2, <2>3
<1>7. CountInv'
  BY <1>1 DEF SessionEnds, SessionInv, CountInv, OwesRun, actor
<1>8. AnswerOf(r) /\ LiveRuns' \subseteq LiveRuns /\ UNCHANGED <<pc, current, task>>
  BY <1>1, AnswerSteps DEF SessionInv, SessionEnds, actor
<1>9. r \in LiveRuns
  BY RunLives DEF SessionInv
<1>10. AnswerInv'
  <2> SUFFICES ASSUME pc["W"] = "sleep", NEW q \in LiveRuns', run'[q].at = "llm"
               PROVE  state' \in {"llm", "tts"}
    BY <1>8 DEF AnswerInv
  <2>1. ~idleClosing /\ q \in LiveRuns
    BY <1>8 DEF SessionInv, ActorInv
  <2>2. q = r
    BY <1>9, <2>1, OneLives
  <2> QED
    BY <1>8, <1>9, <2>2 DEF AnswerOf, SessionInv, AnswerInv
<1>11. CameraInv'
  <2> SUFFICES ASSUME pc["H"] = "camera" PROVE CameraInv'
    BY <1>8 DEF CameraInv
  <2>1. /\ current = {} /\ run[r].at \in {"llm", "close"}
        /\ pc["W"] \in {"sleep", "done"} /\ (pc["W"] = "sleep" => state \in {"llm", "tts"})
        /\ \A q \in LiveRuns : run[q].at \in {"llm", "close"}
    BY <1>9 DEF SessionInv, CameraInv
  <2>2. run'[r].at \in {"llm", "close", "ended"} /\ state' = state
    BY <1>8, <2>1 DEF AnswerOf
  <2>3. ASSUME NEW q \in LiveRuns' PROVE run'[q].at \in {"llm", "close"}
    <3>1. q \in LiveRuns /\ q \in Runs /\ run'[q].at # "ended"
      BY <1>8 DEF LiveRuns, InTry, InFinally
    <3>2. CASE q = r
      BY <2>2, <3>1, <3>2
    <3>3. CASE q # r
      BY <1>8, <2>1, <3>1, <3>3 DEF AnswerOf
    <3> QED
      BY <3>2, <3>3
  <2> QED
    BY <1>8, <2>1, <2>2, <2>3 DEF CameraInv
<1> QED
  BY <1>3, <1>4, <1>5, <1>6, <1>7, <1>10, <1>11 DEF SessionInv

\* Where no run comes to answer, and nothing is said of the state.
LEMMA AnswerFrame ==
    ASSUME SessionInv, \A q \in Runs : run'[q].at = "llm" => run[q].at = "llm",
           state' = state \/ state' \in {"llm", "tts"} \/ LiveRuns = {},
           pc'["W"] = "sleep" => pc["W"] = "sleep"
    PROVE  AnswerInv'
<1>1. \A q \in LiveRuns' : run'[q].at = "llm" => q \in LiveRuns /\ run[q].at = "llm"
  BY DEF LiveRuns, InTry
<1> QED
  BY <1>1 DEF SessionInv, AnswerInv

LEMMA CameraFrame ==
    ASSUME SessionInv,
           pc'["H"] = "camera" =>
               /\ pc["H"] = "camera" /\ UNCHANGED <<run, current, state>>
               /\ pc'["W"] \in {pc["W"], "done"}
    PROVE  CameraInv'
BY DEF SessionInv, CameraInv, LiveRuns


LEMMA PlaceFacts ==
    ASSUME SessionParts, NEW w
    PROVE  /\ [pc EXCEPT !["H"] = w]["H"] = w /\ [pc EXCEPT !["H"] = w]["W"] = pc["W"]
           /\ [pc EXCEPT !["W"] = w]["W"] = w /\ [pc EXCEPT !["W"] = w]["H"] = pc["H"]
           /\ Actors = {"H", "W"}
BY DEF SessionParts, ActorType, Actors

LEMMA CountFrame ==
    ASSUME SessionParts, CountInv, UNCHANGED <<used, idleClosing>>,
           OwesRun' => OwesRun, pc'["W"] \in Aborting => pc["W"] \in Aborting,
           messages' \in Nat, messages' >= messages
    PROVE  CountInv'
<1> DEFINE h(owes) == IF owes THEN 1 ELSE 0
           w == IF pc["W"] \in Aborting THEN 1 ELSE 0
           v == IF pc'["W"] \in Aborting THEN 1 ELSE 0
           i == IF idleClosing THEN 1 ELSE 0
<1>1. messages \in Nat /\ used \in Nat
  BY SessionAssumption DEF SessionParts, ActorType, OwnType
<1>2. /\ h(OwesRun) \in Nat /\ h(OwesRun') \in Nat /\ h(OwesRun') <= h(OwesRun)
      /\ w \in Nat /\ v \in Nat /\ v <= w /\ i \in Nat
  OBVIOUS
<1>3. used + h(OwesRun) + w <= messages + i
  BY DEF CountInv
<1>4. CountInv' <=> used + h(OwesRun') + v <= messages' + i
  BY DEF CountInv
<1> HIDE DEF h, w, v, i
<1>5. used + h(OwesRun') + v <= messages' + i
  BY <1>1, <1>2, <1>3
<1> QED
  BY <1>4, <1>5

\* The handler goes on, and creates nothing: what it awaited has ended, and it
\* begins no abort.
LEMMA HandlerGoesOn ==
    ASSUME SessionInv, NEW w \in HandlerPlaces,
           pc' = [pc EXCEPT !["H"] = w], LiveRuns' \subseteq LiveRuns,
           UNCHANGED <<current, task, idleClosing, used>>,
           open' => open /\ pc["H"] # "camera",
           target'["W"] = target["W"], speech'["W"] = speech["W"],
           op'["W"] = op["W"], baton # "W",
           baton' = IF w \in {"joined", "after"} THEN "H" ELSE "free",
           w \in InAbort => pc["H"] \in InAbort /\ op'["H"] = op["H"],
           w \in Aborting => pc["H"] \in Aborting,
           w = "clear" => /\ pc["H"] \in Aborting
                          /\ op["H"] \in Creates,
           IF w = "gather" THEN pc["H"] = "gather" /\ target' = target
                           ELSE pc["H"] = "gather" => target["H"] \notin LiveRuns,
           messages' \in Nat, messages' >= messages
    PROVE  ActorInv' /\ TaskInv' /\ CountInv'
<1>1. pc'["H"] = w /\ pc'["W"] = pc["W"] /\ Actors = {"H", "W"}
  BY PlaceFacts DEF SessionInv
<1>2. ActorInv'
  <2>1. \A a \in Actors : baton' = a <=> pc'[a] \in {"joined", "after"}
    BY <1>1 DEF SessionInv, ActorInv
  <2>2. w \in InAbort => /\ op'["H"] \in Creates \cup {"abort", "overflow", "final"}
                         /\ op'["H"] = "final" => pc["W"] = "done" /\ current = {}
    BY DEF SessionInv, ActorInv
  <2>3. pc["W"] = "gather" => w \notin Aborting \cup {"clear"}
    BY DEF SessionInv, ActorInv
  <2> QED
    BY <1>1, <2>1, <2>2, <2>3 DEF SessionInv, ActorInv
<1>3. TaskInv'
  <2>1. \A r \in LiveRuns : r = task \/ Awaited(r)
    BY DEF SessionInv, TaskInv
  <2>2. ASSUME NEW r \in LiveRuns, Awaited(r)
        PROVE  Awaited(r)'
    BY <1>1, <2>2 DEF Awaited
  <2>3. w \in Aborting \cup {"clear"} => pc["H"] \in Aborting \cup {"clear"}
    OBVIOUS
  <2>4. task # NoRun /\ open' => task \in current
    BY DEF SessionInv, TaskInv
  <2>5. (w \in Aborting \cup {"clear"} \/ pc["W"] \in Aborting) =>
          \/ task = NoRun
          \/ idleClosing /\ (task \notin LiveRuns' \/ (pc["W"] = "await" /\ target["W"] = task))
    BY <2>3 DEF SessionInv, TaskInv
  <2> QED
    BY <1>1, <2>1, <2>2, <2>4, <2>5 DEF TaskInv
<1>4. CountInv'
  <2>1. OwesRun' => OwesRun
    BY <1>1 DEF OwesRun, InAbort, Aborting
  <2>2. UNCHANGED <<used, idleClosing>> /\ pc'["W"] = pc["W"]
    BY <1>1
  <2> QED
    BY <2>1, <2>2, CountFrame DEF SessionInv
<1> QED
  BY <1>2, <1>3, <1>4

\* So does the watchdog.
LEMMA WatchGoesOn ==
    ASSUME SessionInv, NEW w \in {"after", "emits", "wclose", "done"},
           pc' = [pc EXCEPT !["W"] = w], LiveRuns' \subseteq LiveRuns,
           UNCHANGED <<current, task, idleClosing, used, messages>>, open' => open,
           w # "done" => pc["W"] # "sleep",
           target'["H"] = target["H"], op'["H"] = op["H"], speech'["W"] = NoRun,
           baton # "H", baton' = IF w = "after" THEN "W" ELSE "free",
           w = "after" => pc["W"] \in {"gather", "joined"} /\ op'["W"] = op["W"],
           pc["W"] \in {"gather", "await"} => target["W"] \notin LiveRuns,
           pc["W"] # "done"
    PROVE  ActorInv' /\ TaskInv' /\ CountInv'
<1>1. pc'["W"] = w /\ pc'["H"] = pc["H"] /\ Actors = {"H", "W"}
  BY PlaceFacts DEF SessionInv
<1>2. ActorInv'
  <2>1. \A a \in Actors : baton' = a <=> pc'[a] \in {"joined", "after"}
    BY <1>1 DEF SessionInv, ActorInv
  <2>2. ~(pc["H"] \in InAbort /\ op["H"] = "final")
    BY DEF SessionInv, ActorInv
  <2>3. w # "done" => idleClosing
    BY DEF SessionInv, ActorInv
  <2> QED
    BY <1>1, <2>1, <2>2, <2>3 DEF SessionInv, ActorInv
<1>3. TaskInv'
  <2>1. \A r \in LiveRuns : r = task \/ Awaited(r)
    BY DEF SessionInv, TaskInv
  <2>2. ASSUME NEW r \in LiveRuns, Awaited(r)
        PROVE  Awaited(r)'
    BY <1>1, <2>2 DEF Awaited
  <2>3. task # NoRun /\ open' => task \in current \/ pc["H"] = "camera"
    BY DEF SessionInv, TaskInv
  <2>4. (pc["H"] \in Aborting \cup {"clear"} \/ w \in Aborting) =>
          \/ task = NoRun
          \/ idleClosing /\ task \notin LiveRuns'
    BY DEF SessionInv, TaskInv, Aborting
  <2> QED
    BY <1>1, <2>1, <2>2, <2>3, <2>4 DEF TaskInv
<1>4. CountInv'
  <2>1. OwesRun' <=> OwesRun
    BY <1>1 DEF OwesRun
  <2>2. pc'["W"] \in Aborting => pc["W"] \in Aborting
    BY <1>1 DEF Aborting
  <2>3. messages' \in Nat /\ messages' >= messages
    BY SessionAssumption DEF SessionInv, SessionParts, ActorType
  <2> QED
    BY <2>1, <2>2, <2>3, CountFrame DEF SessionInv
<1> QED
  BY <1>2, <1>3, <1>4

\* An abort begins, or goes on behind the camera.
LEMMA AbortTypes ==
    ASSUME SessionParts, NEW a \in Actors,
           \/ Takes(a)
           \/ /\ pc' = [pc EXCEPT ![a] = "camera"]
              /\ UNCHANGED <<waking, task, queue, target, speech, interrupted, baton>>,
           UNCHANGED <<ending, state, closeAfter, currentTts, used, run, tts, started, flight,
                       cut, cancels, channel>>,
           current' \in {current, {}},
           op' = op \/ \E o \in Creates \cup {"abort", "overflow", "expire", "final"} :
                          op' = [op EXCEPT ![a] = o],
           idleClosing' \in BOOLEAN, quiet' \in BOOLEAN, messages' \in 0 .. MaxMessages
    PROVE  SessionParts' /\ LiveRuns' = LiveRuns
<1>1. /\ task' \in {task, NoRun} /\ queue' \in {queue, NoRun} /\ waking' \in {waking, FALSE}
      /\ interrupted' \in {interrupted, interrupted \cup ({task} \cap LiveRuns)}
      /\ target' = target \/ target' = [target EXCEPT ![a] = task]
      /\ speech' = speech \/ speech' = [speech EXCEPT ![a] = currentTts]
      /\ \E w \in {"camera", "joined", "gather"} : pc' = [pc EXCEPT ![a] = w]
      /\ baton' \in {baton, a, "free"}
  BY DEF Takes, CancelTask
<1>2. OwnType' /\ FlagType'
  <2>1. OwnType'
    BY <1>1 DEF SessionParts, OwnType, channel
  <2>2. FlagType'
    BY <1>1 DEF SessionParts, FlagType, channel
  <2> QED
    BY <2>1, <2>2
<1>3. interrupted' \subseteq Runs
  BY <1>1 DEF SessionParts, RunType, LiveRuns
<1>4. RunType'
  BY <1>3 DEF SessionParts, RunType
<1>5. /\ op' \in [Actors -> {"none", "abort", "start", "text", "wake", "overflow", "expire",
                             "final"}]
      /\ target' \in [Actors -> Runs \cup {NoRun}]
      /\ speech' \in [Actors -> Runs \cup {NoRun}]
  BY <1>1 DEF SessionParts, OwnType, FlagType, ActorType, Creates
<1>6. pc' \in [Actors -> {"recv", "sleep", "camera", "gather", "joined", "silence", "after", "clear",
                          "stopclear", "joinW", "await", "emits", "wclose", "done"}]
  BY <1>1 DEF SessionParts, ActorType
<1>7. ActorType'
  BY <1>1, <1>5, <1>6 DEF SessionParts, ActorType
<1>8. LiveRuns' = LiveRuns
  BY DEF LiveRuns
<1> QED
  BY <1>2, <1>4, <1>7, <1>8 DEF SessionParts

\* What the handler's aborts have in common: the session has not expired, or has
\* no watchdog any more, and only a message that is due makes it owe a run.
AbortsBy ==
    /\ \/ baton = "free" /\ ~idleClosing
       \/ pc["W"] = "done"
    /\ current' = {} /\ UNCHANGED <<ending, state, used, run, idleClosing, cut, open, quota>>
    /\ SessionParts' /\ LiveRuns' = LiveRuns
    /\ op'["W"] = op["W"] /\ op'["H"] \in Creates \cup {"abort", "overflow", "final"}
    /\ op'["H"] = "final" => pc["W"] = "done"
    /\ messages' \in Nat /\ messages' >= messages
    /\ \/ pc["H"] = "camera" /\ op'["H"] = op["H"]
       \/ /\ pc["H"] \in {"recv", "stopclear", "joinW"}
          /\ op'["H"] \in Creates => messages' = messages + 1

LEMMA AbortCounts ==
    ASSUME SessionInv, AbortsBy, pc'["H"] \in InAbort, pc'["W"] = pc["W"]
    PROVE  CountInv'
<1>1. /\ used \in Nat /\ messages \in Nat /\ messages' \in Nat /\ messages' >= messages
      /\ UNCHANGED <<used, idleClosing>>
  BY SessionAssumption DEF AbortsBy, SessionInv, SessionParts, OwnType, ActorType
<1>2. OwesRun' <=> op'["H"] \in Creates
  BY DEF OwesRun, InAbort, Aborting
<1>3. CASE OwesRun' => OwesRun
  BY <1>1, <1>3, CountFrame DEF SessionInv
<1>4. CASE OwesRun' /\ ~OwesRun
  <2>1. messages' = messages + 1
    BY <1>2, <1>4 DEF AbortsBy, OwesRun, InAbort
  <2> QED
    BY <1>1, <1>4, <2>1 DEF SessionInv, CountInv
<1> QED
  BY <1>3, <1>4

\* The handler takes the task: it is awaited from now on, and nobody's any more.
LEMMA HandlerTakes ==
    ASSUME SessionInv, AbortsBy, Takes("H")
    PROVE  SessionInv'
<1>1. /\ task' = NoRun /\ queue' = NoRun
      /\ target' = [target EXCEPT !["H"] = task] /\ speech' = [speech EXCEPT !["H"] = currentTts]
      /\ pc' = [pc EXCEPT !["H"] = IF task = NoRun THEN "joined" ELSE "gather"]
      /\ baton' = IF task = NoRun THEN "H" ELSE "free"
  BY DEF Takes
<1>2. /\ pc'["H"] = (IF task = NoRun THEN "joined" ELSE "gather") /\ pc'["W"] = pc["W"]
      /\ Actors = {"H", "W"}
  BY <1>1, PlaceFacts DEF SessionInv
<1>3. /\ target'["H"] = task /\ target'["W"] = target["W"] /\ speech'["W"] = speech["W"]
  BY <1>1, <1>2 DEF SessionInv, SessionParts, ActorType
<1>4. pc["W"] # "gather" /\ pc["H"] # "gather" /\ pc["H"] # "done"
  BY DEF AbortsBy, SessionInv, ActorInv
<1>5. ActorInv'
  <2>1. \A a \in Actors : baton' = a <=> pc'[a] \in {"joined", "after"}
    BY <1>1, <1>2 DEF AbortsBy, SessionInv, ActorInv
  <2> QED
    BY <1>2, <1>3, <1>4, <2>1 DEF AbortsBy, SessionInv, ActorInv, HandlerPlaces, InAbort, Aborting
<1>6. TaskInv'
  <2>1. \A r \in LiveRuns : r = task \/ Awaited(r)
    BY DEF SessionInv, TaskInv
  <2>2. ASSUME NEW r \in LiveRuns
        PROVE  Awaited(r)'
    <3>1. CASE r = task
      <4>1. r # NoRun
        BY RunNotNone DEF LiveRuns
      <4> QED
        BY <1>2, <1>3, <3>1, <4>1 DEF Awaited
    <3>2. CASE Awaited(r)
      BY <1>2, <1>3, <1>4, <3>2 DEF Awaited
    <3> QED
      BY <2>1, <3>1, <3>2
  <2> QED
    BY <1>1, <2>2 DEF AbortsBy, TaskInv
<1>7. QueueInv' /\ CameraInv'
  BY <1>1, <1>2 DEF QueueInv, CameraInv
<1>8. AnswerInv'
  BY <1>2, AnswerFrame DEF AbortsBy
<1>9. CountInv'
  BY <1>2, AbortCounts DEF InAbort, Aborting
<1>10. QuotaInv'
  BY <1>4 DEF AbortsBy, SessionInv, QuotaInv
<1> QED
  BY <1>5, <1>6, <1>7, <1>8, <1>9, <1>10 DEF AbortsBy, SessionInv

\* Or it waits for the camera of the turn, the only one that lives.
LEMMA HandlerWaits ==
    ASSUME SessionInv, AbortsBy, pc["H"] # "camera", NEW r \in LiveRuns, InCall(r),
           pc' = [pc EXCEPT !["H"] = "camera"],
           UNCHANGED <<task, queue, target, speech, baton>>
    PROVE  SessionInv'
<1>1. pc'["H"] = "camera" /\ pc'["W"] = pc["W"] /\ Actors = {"H", "W"}
  BY PlaceFacts DEF SessionInv
<1>2. /\ pc["H"] \in {"recv", "stopclear", "joinW"} /\ pc["W"] \in {"sleep", "done"}
  BY DEF AbortsBy, SessionInv, ActorInv
<1>3. \A q \in LiveRuns : q = r
  BY <1>2, OneLives DEF AbortsBy
<1>4. r \in Runs /\ run[r].at = "llm"
  BY DEF InCall, LiveRuns
<1>5. ActorInv'
  <2>1. \A a \in Actors : baton' = a <=> pc'[a] \in {"joined", "after"}
    BY <1>1, <1>2 DEF SessionInv, ActorInv
  <2> QED
    BY <1>1, <1>2, <2>1 DEF AbortsBy, SessionInv, ActorInv, HandlerPlaces, InAbort, Aborting
<1>6. TaskInv'
  <2>1. \A q \in LiveRuns : q = task \/ Awaited(q)
    BY DEF SessionInv, TaskInv
  <2>2. \A q \in LiveRuns : Awaited(q) => Awaited(q)'
    BY <1>1, <1>2 DEF Awaited
  <2> QED
    BY <1>1, <1>2, <2>1, <2>2 DEF AbortsBy, TaskInv, Aborting
<1>7. QueueInv'
  BY <1>1 DEF AbortsBy, SessionInv, QueueInv
<1>8. AnswerInv'
  BY <1>1, AnswerFrame DEF AbortsBy
<1>9. CameraInv'
  <2>1. pc["W"] = "sleep" => state \in {"llm", "tts"}
    BY <1>4 DEF SessionInv, AnswerInv
  <2>2. \A q \in LiveRuns : run[q].at \in {"llm", "close"}
    BY <1>3, <1>4
  <2> QED
    BY <1>1, <1>2, <2>1, <2>2 DEF AbortsBy, CameraInv
<1>10. CountInv'
  BY <1>1, AbortCounts DEF InAbort
<1>11. QuotaInv'
  BY <1>2 DEF AbortsBy, SessionInv, QuotaInv
<1> QED
  BY <1>5, <1>6, <1>7, <1>8, <1>9, <1>10, <1>11 DEF AbortsBy, SessionInv

LEMMA HandlerAborts ==
    ASSUME SessionInv, NEW o \in Creates \cup {"abort", "overflow", "final"}, AbortBegin("H", o),
           baton = "free", pc["H"] \in {"recv", "stopclear", "joinW"},
           ~idleClosing \/ pc["W"] = "done", o = "final" => pc["W"] = "done",
           UNCHANGED idleClosing, quiet' \in BOOLEAN,
           messages' \in 0 .. MaxMessages,
           messages' = messages + 1 \/ (o \notin Creates /\ messages' = messages)
    PROVE  SessionInv'
<1>1. /\ UNCHANGED <<ending, state, closeAfter, currentTts, used, run, tts, started, flight,
                     cut, cancels, channel>>
      /\ current' = {} /\ op' = [op EXCEPT !["H"] = o]
      /\ \/ Takes("H")
         \/ /\ \E r \in LiveRuns : InCall(r)
            /\ pc' = [pc EXCEPT !["H"] = "camera"]
            /\ UNCHANGED <<waking, task, queue, target, speech, interrupted, baton>>
  BY DEF AbortBegin
<1>2. SessionParts' /\ LiveRuns' = LiveRuns
  <2>1. idleClosing' \in BOOLEAN /\ "H" \in Actors
    BY DEF SessionInv, SessionParts, OwnType, Actors
  <2> QED
    BY <1>1, <2>1, AbortTypes DEF SessionInv
<1>3. op'["H"] = o /\ op'["W"] = op["W"]
  BY <1>1 DEF SessionInv, SessionParts, ActorType, Actors
<1>4. messages' \in Nat /\ messages' >= messages
  BY SessionAssumption DEF SessionInv, SessionParts, ActorType
<1>5. AbortsBy
  BY <1>1, <1>2, <1>3, <1>4 DEF AbortsBy, channel
<1>6. CASE Takes("H")
  BY <1>5, <1>6, HandlerTakes
<1>7. CASE /\ \E r \in LiveRuns : InCall(r)
           /\ pc' = [pc EXCEPT !["H"] = "camera"]
           /\ UNCHANGED <<waking, task, queue, target, speech, interrupted, baton>>
  BY <1>5, <1>7, HandlerWaits
<1> QED
  BY <1>1, <1>6, <1>7

\* Only the handler ever waits for a camera.
LEMMA TakesStep == ASSUME SessionInv, AbortTakes("H") \/ AbortTakes("W") PROVE SessionInv'
<1>1. pc["W"] # "camera"
  BY DEF SessionInv, ActorInv
<1>2. /\ pc["H"] = "camera" /\ baton = "free" /\ Takes("H")
      /\ UNCHANGED <<current, ending, state, closeAfter, idleClosing, currentTts, quiet,
                     used, run, tts, started, flight, op, cut, messages, cancels, channel>>
  BY <1>1 DEF AbortTakes, Free
<1>3. /\ current = {} /\ pc["W"] \in {"sleep", "done"} /\ (pc["W"] = "sleep" => ~idleClosing)
      /\ op["H"] \in Creates \cup {"abort", "overflow", "final"}
      /\ op["H"] = "final" => pc["W"] = "done"
  BY <1>2 DEF SessionInv, ActorInv, CameraInv, InAbort
<1>4. /\ idleClosing' \in BOOLEAN /\ "H" \in Actors /\ quiet' \in BOOLEAN
      /\ messages' \in 0 .. MaxMessages /\ messages' \in Nat /\ messages' >= messages
  BY <1>2, SessionAssumption
     DEF SessionInv, SessionParts, OwnType, FlagType, ActorType, Actors
<1>5. SessionParts' /\ LiveRuns' = LiveRuns
  BY <1>2, <1>4, AbortTypes DEF SessionInv
<1>6. AbortsBy
  BY <1>2, <1>3, <1>4, <1>5 DEF AbortsBy, channel
<1> QED
  BY <1>2, <1>6, HandlerTakes

LEMMA MessageStep ==
    ASSUME SessionInv, MsgAbort \/ MsgStart \/ MsgText("text") \/ MsgText("wake") \/ MsgOverflow
    PROVE  SessionInv'
<1>1. /\ Receiving /\ UNCHANGED idleClosing /\ quiet' \in {quiet, FALSE}
      /\ \E o \in Creates \cup {"abort", "overflow", "final"} :
             o # "final" /\ AbortBegin("H", o)
  BY DEF MsgAbort, MsgStart, MsgText, MsgOverflow, Creates
<1>2. messages' = messages + 1 /\ messages' \in 0 .. MaxMessages
  BY <1>1, SessionAssumption DEF Receiving, SessionInv, SessionParts, ActorType
<1>3. quiet' \in BOOLEAN
  BY <1>1 DEF SessionInv, SessionParts, FlagType
<1> QED
  BY <1>1, <1>2, <1>3, HandlerAborts DEF Receiving, Free

LEMMA FinalAbortStep ==
    ASSUME SessionInv, FinalAbort \/ StopOverflows
    PROVE  SessionInv'
<1>1. messages' \in 0 .. MaxMessages /\ quiet' \in BOOLEAN /\ messages' = messages
  BY DEF FinalAbort, StopOverflows, SessionInv, SessionParts, ActorType, FlagType
<1>2. StopOverflows => ~idleClosing
  BY DEF StopOverflows, SessionInv, QueueInv
<1>3. "final" \notin Creates /\ "overflow" \notin Creates
  BY DEF Creates
<1> QED
  BY <1>1, <1>2, <1>3, HandlerAborts DEF FinalAbort, StopOverflows, Free

\* By the watchdog: it finds a session at work, or a handler that has taken the
\* task away already.
LEMMA ExpireStep == ASSUME SessionInv, Expire PROVE SessionInv'
<1>1. /\ UNCHANGED <<ending, state, closeAfter, currentTts, used, run, tts, started, flight,
                     cut, cancels, channel, quiet, messages>>
      /\ current' = {} /\ op' = [op EXCEPT !["W"] = "expire"] /\ idleClosing' = TRUE
      /\ state \notin {"llm", "tts"} /\ pc["W"] = "sleep" /\ baton = "free" /\ currentTts = NoRun
      /\ \/ Takes("W")
         \/ \E r \in LiveRuns : InCall(r)
  BY DEF Expire, AbortBegin, Processing, Free
<1>2. /\ Takes("W") /\ pc["H"] # "camera"
  BY <1>1 DEF SessionInv, AnswerInv, CameraInv, InCall
<1>13. SessionParts' /\ LiveRuns' = LiveRuns
  <2>1. "W" \in Actors /\ quiet' \in BOOLEAN /\ messages' \in 0 .. MaxMessages
        /\ idleClosing' \in BOOLEAN
    BY <1>1 DEF Actors, SessionInv, SessionParts, FlagType, ActorType
  <2>2. \E o \in Creates \cup {"abort", "overflow", "expire", "final"} : op' = [op EXCEPT !["W"] = o]
    BY <1>1
  <2> QED
    BY <1>1, <1>2, <2>1, <2>2, AbortTypes DEF SessionInv
<1>14. /\ task' = NoRun /\ queue' = NoRun
      /\ target' = [target EXCEPT !["W"] = task] /\ speech' = [speech EXCEPT !["W"] = currentTts]
      /\ pc' = [pc EXCEPT !["W"] = IF task = NoRun THEN "joined" ELSE "gather"]
      /\ baton' = IF task = NoRun THEN "W" ELSE "free"
  BY <1>2 DEF Takes
<1>3. /\ pc'["W"] = (IF task = NoRun THEN "joined" ELSE "gather") /\ pc'["H"] = pc["H"]
      /\ Actors = {"H", "W"}
  BY <1>14, PlaceFacts DEF SessionInv
<1>4. /\ target'["W"] = task /\ target'["H"] = target["H"] /\ speech'["W"] = currentTts
      /\ op'["H"] = op["H"]
  BY <1>1, <1>14, <1>3 DEF SessionInv, SessionParts, ActorType
<1>5. /\ currentTts = NoRun /\ baton = "free" /\ pc["W"] = "sleep" /\ ~idleClosing
      /\ pc["H"] \in Aborting \cup {"clear"} => task = NoRun
  BY <1>1 DEF SessionInv, ActorInv, TaskInv
<1>6. ActorInv'
  <2>1. \A a \in Actors : baton' = a <=> pc'[a] \in {"joined", "after"}
    BY <1>14, <1>3, <1>5 DEF SessionInv, ActorInv
  <2>2. ~(pc["H"] \in InAbort /\ op["H"] = "final")
    BY <1>5 DEF SessionInv, ActorInv
  <2> QED
    BY <1>1, <1>14, <1>2, <1>3, <1>4, <1>5, <2>1, <2>2 DEF SessionInv, ActorInv
<1>7. TaskInv'
  <2>1. \A r \in LiveRuns : r = task \/ Awaited(r)
    BY DEF SessionInv, TaskInv
  <2>2. ASSUME NEW r \in LiveRuns
        PROVE  Awaited(r)'
    <3>1. CASE r = task
      <4>1. r # NoRun
        BY RunNotNone DEF LiveRuns
      <4> QED
        BY <1>3, <1>4, <3>1, <4>1 DEF Awaited
    <3>2. CASE Awaited(r)
      BY <1>3, <1>4, <1>5, <3>2 DEF Awaited
    <3> QED
      BY <2>1, <3>1, <3>2
  <2> QED
    BY <1>13, <1>14, <2>2 DEF TaskInv
<1>8. QueueInv' /\ AnswerInv' /\ CameraInv'
  BY <1>1, <1>2, <1>3, <1>14 DEF QueueInv, AnswerInv, CameraInv
<1>9. CountInv'
  <2>1. OwesRun' <=> OwesRun
    BY <1>3, <1>4 DEF OwesRun
  <2>2. used \in Nat /\ messages \in Nat
    BY SessionAssumption DEF SessionInv, SessionParts, OwnType, ActorType
  <2>3. pc["W"] \notin Aborting /\ pc'["W"] \in Aborting
    BY <1>3, <1>5 DEF Aborting
  <2>4. CASE OwesRun
    BY <1>1, <1>5, <2>1, <2>2, <2>3, <2>4 DEF SessionInv, CountInv
  <2>5. CASE ~OwesRun
    BY <1>1, <1>5, <2>1, <2>2, <2>3, <2>5 DEF SessionInv, CountInv
  <2> QED
    BY <2>4, <2>5
<1>10. QuotaInv'
  BY <1>1, <1>5 DEF SessionInv, QuotaInv, channel
<1> QED
  BY <1>13, <1>6, <1>7, <1>8, <1>9, <1>10 DEF SessionInv

-----------------------------------------------------------------------------
(* Abort goes on, for either.                                              *)

LEMMA LiveSame == run' = run => LiveRuns' = LiveRuns
BY DEF LiveRuns

\* Types of an actor that suspends elsewhere.
LEMMA ReturnTypes ==
    ASSUME SessionParts, NEW a \in Actors,
           NEW w \in {"recv", "clear", "emits", "wclose", "done"}, Returns(a, w)
    PROVE  /\ ActorType' /\ baton' = "free" /\ UNCHANGED <<cut, messages, cancels>>
           /\ \A b \in Actors : b # a => target'[b] = target[b] /\ speech'[b] = speech[b]
                                         /\ op'[b] = op[b]
           /\ speech'[a] = NoRun
<1>1. /\ pc' = [pc EXCEPT ![a] = w] /\ baton' = "free" /\ op' = [op EXCEPT ![a] = "none"]
      /\ target' = [target EXCEPT ![a] = NoRun] /\ speech' = [speech EXCEPT ![a] = NoRun]
      /\ UNCHANGED <<cut, messages, cancels>>
  BY DEF Returns
<1>2. pc' \in [Actors -> {"recv", "sleep", "camera", "gather", "joined", "silence", "after", "clear",
                          "stopclear", "joinW", "await", "emits", "wclose", "done"}]
  BY <1>1 DEF SessionParts, ActorType
<1>3. /\ op' \in [Actors -> {"none", "abort", "start", "text", "wake", "overflow", "expire",
                             "final"}]
      /\ target' \in [Actors -> Runs \cup {NoRun}]
      /\ speech' \in [Actors -> Runs \cup {NoRun}]
  BY <1>1 DEF SessionParts, ActorType
<1>4. ActorType'
  BY <1>1, <1>2, <1>3 DEF SessionParts, ActorType
<1> QED
  BY <1>1, <1>4 DEF SessionParts, ActorType

LEMMA JoinedTypes ==
    ASSUME SessionParts, NEW a \in Actors, AbortJoined(a) \/ AbortSilence(a)
    PROVE  /\ SessionParts' /\ LiveRuns' = LiveRuns
           /\ UNCHANGED <<current, task, queue, idleClosing, used, messages, target, speech, op,
                          ending, quota, open, run>>
           /\ state' = state \/ (pc[a] \in {"gather", "joined"} /\ state' = "aborted")
           /\ \E w \in {"silence", "after"} :
                 /\ pc' = [pc EXCEPT ![a] = w] /\ baton' = IF w = "after" THEN a ELSE "free"
                 /\ w = "silence" => speech[a] # NoRun
<1>1. CASE AbortJoined(a)
  <2>1. /\ UNCHANGED <<current, task, queue, ending, waking, closeAfter, idleClosing,
                       currentTts, quiet, runs, op, target, speech, cut, messages, cancels,
                       channel>>
        /\ state' = "aborted" /\ pc[a] \in {"gather", "joined"}
    BY <1>1 DEF AbortJoined
  <2>2. \E w \in {"silence", "after"} :
            /\ pc' = [pc EXCEPT ![a] = w] /\ baton' = IF w = "after" THEN a ELSE "free"
            /\ w = "silence" => speech[a] # NoRun
    BY <1>1 DEF AbortJoined
  <2>3. OwnType' /\ FlagType' /\ RunType'
    BY <2>1 DEF SessionParts, OwnType, FlagType, RunType, runs, channel
  <2>4. ActorType'
    BY <2>1, <2>2 DEF SessionParts, ActorType
  <2> QED
    BY <2>1, <2>2, <2>3, <2>4, LiveSame DEF SessionParts, runs, channel
<1>2. CASE AbortSilence(a)
  <2>1. /\ UNCHANGED <<turn, runs, op, target, speech, cut, messages, cancels, open, quota>>
        /\ pc' = [pc EXCEPT ![a] = "after"] /\ baton' = a
        /\ speaker' \in {speaker, "off"}
    BY <1>2 DEF AbortSilence
  <2>2. OwnType' /\ FlagType' /\ RunType'
    BY <2>1 DEF SessionParts, OwnType, FlagType, RunType, turn, runs
  <2>3. ActorType'
    BY <2>1 DEF SessionParts, ActorType
  <2> QED
    BY <2>1, <2>2, <2>3, LiveSame DEF SessionParts, turn, runs
<1> QED
  BY <1>1, <1>2

\* Where nothing is said of the queue or the quota, they are as they were.
LEMMA QueueFrame ==
    ASSUME SessionInv, UNCHANGED <<idleClosing, queue, task, ending>>,
           pc'["H"] = "stopclear" => pc["H"] = "stopclear"
    PROVE  QueueInv'
BY DEF SessionInv, QueueInv

LEMMA QuotaFrame ==
    ASSUME SessionInv, quota' = quota, pc["H"] # "done" \/ pc["W"] # "done"
    PROVE  QuotaInv'
BY DEF SessionInv, QuotaInv

LEMMA JoinedStep ==
    ASSUME SessionInv, NEW a \in Actors, AbortJoined(a) \/ AbortSilence(a)
    PROVE  SessionInv'
<1>1. PICK w \in {"silence", "after"} :
          /\ pc' = [pc EXCEPT ![a] = w] /\ baton' = IF w = "after" THEN a ELSE "free"
          /\ w = "silence" => speech[a] # NoRun
  BY JoinedTypes DEF SessionInv
<1>2. /\ SessionParts' /\ LiveRuns' = LiveRuns
      /\ UNCHANGED <<current, task, queue, idleClosing, used, messages, target, speech, op,
                     ending, quota, open, run>>
      /\ state' = state \/ (pc[a] \in {"gather", "joined"} /\ state' = "aborted")
  BY JoinedTypes DEF SessionInv
<1>3. /\ pc[a] \in {"gather", "joined", "silence"}
      /\ pc[a] = "gather" => target[a] \notin LiveRuns
      /\ baton \in {"free", a}
  BY DEF AbortJoined, AbortSilence, Free
<1>4. messages' \in Nat /\ messages' >= messages
  BY <1>2, SessionAssumption DEF SessionInv, SessionParts, ActorType
<1>5. CASE a = "H"
  <2>1. pc'["H"] = w /\ pc'["W"] = pc["W"]
    BY <1>1, <1>5, PlaceFacts DEF SessionInv
  <2>2. /\ w \in HandlerPlaces /\ pc["H"] # "camera"
        /\ pc["H"] \in Aborting /\ pc["H"] \in InAbort /\ w # "clear" /\ w # "gather"
        /\ baton # "W" /\ baton' = IF w \in {"joined", "after"} THEN "H" ELSE "free"
    BY <1>1, <1>3, <1>5 DEF Aborting, InAbort, HandlerPlaces
  <2>3. ActorInv' /\ TaskInv' /\ CountInv'
    BY <1>1, <1>2, <1>3, <1>4, <1>5, <2>2, HandlerGoesOn
  <2>4. QueueInv' /\ QuotaInv'
    BY <1>2, <1>3, <1>5, <2>1, QueueFrame, QuotaFrame
  <2>5. AnswerInv'
    <3>1. CASE state' = state
      BY <1>2, <2>1, <3>1, AnswerFrame
    <3>2. CASE pc["W"] = "sleep" /\ state' # state
      <4>1. LiveRuns = {}
        BY <1>2, <1>3, <1>5, <2>2, <3>2, OneLives DEF SessionInv, ActorInv
      <4> QED
        BY <1>2, <2>1, <4>1, AnswerFrame
    <3>3. CASE pc["W"] # "sleep"
      BY <2>1, <3>3 DEF AnswerInv
    <3> QED
      BY <3>1, <3>2, <3>3
  <2>6. CameraInv'
    BY <2>1, <1>1 DEF CameraInv
  <2> QED
    BY <1>2, <2>3, <2>4, <2>5, <2>6 DEF SessionInv
<1>6. CASE a = "W"
  <2>1. w = "after"
    BY <1>1, <1>6 DEF SessionInv, ActorInv
  <2>2. pc'["W"] = w /\ pc'["H"] = pc["H"]
    BY <1>1, <1>6, PlaceFacts DEF SessionInv
  <2>3. /\ pc["W"] \in {"gather", "joined"} /\ speech'["W"] = NoRun
        /\ baton # "H" /\ baton' = IF w = "after" THEN "W" ELSE "free"
    BY <1>1, <1>2, <1>3, <1>6, <2>1 DEF SessionInv, ActorInv
  <2>4. ActorInv' /\ TaskInv' /\ CountInv'
    BY <1>1, <1>2, <1>3, <1>6, <2>1, <2>3, WatchGoesOn
  <2>5. QueueInv'
    BY <1>2, <2>2, QueueFrame
  <2>6. QuotaInv'
    BY <1>2, <2>3, QuotaFrame
  <2>7. AnswerInv' /\ CameraInv'
    BY <2>1, <2>2, <2>3 DEF AnswerInv, CameraInv, SessionInv
  <2> QED
    BY <1>2, <2>4, <2>5, <2>6, <2>7 DEF SessionInv
<1> QED
  BY <1>5, <1>6 DEF Actors

-----------------------------------------------------------------------------
(* The handler.                                                            *)

LEMMA NatFacts ==
    SessionParts => /\ messages \in Nat /\ messages >= messages /\ used \in Nat
                    /\ "H" \in Actors /\ "W" \in Actors
BY SessionAssumption DEF SessionParts, ActorType, OwnType, Actors

LEMMA MsgStopStep == ASSUME SessionInv, MsgStop PROVE SessionInv'
<1>1. /\ UNCHANGED <<current, task, queue, state, waking, closeAfter, idleClosing,
                     currentTts, quiet, runs, op, target, speech, cut, baton, cancels, channel>>
      /\ ending' = TRUE /\ pc' = [pc EXCEPT !["H"] = "stopclear"]
      /\ messages' = messages + 1 /\ messages < MaxMessages
      /\ pc["H"] = "recv" /\ baton = "free" /\ ~idleClosing /\ task \in LiveRuns /\ ~ending
  BY DEF MsgStop, Receiving, Free
<1>2. messages' \in 0 .. MaxMessages /\ messages' >= messages /\ messages' \in Nat
  BY <1>1, SessionAssumption DEF SessionInv, SessionParts, ActorType
<1>3. SessionParts' /\ LiveRuns' = LiveRuns
  <2>1. OwnType' /\ FlagType' /\ RunType'
    BY <1>1 DEF SessionInv, SessionParts, OwnType, FlagType, RunType, runs, channel
  <2>2. ActorType'
    BY <1>1, <1>2 DEF SessionInv, SessionParts, ActorType
  <2> QED
    BY <1>1, <2>1, <2>2, LiveSame DEF SessionParts, runs
<1>4. ActorInv' /\ TaskInv' /\ CountInv'
  <2>1. "stopclear" \in HandlerPlaces /\ "stopclear" \notin InAbort
    BY DEF HandlerPlaces, InAbort, Aborting
  <2>2. UNCHANGED <<current, task, idleClosing, used, target, speech, op, open>>
    BY <1>1 DEF runs, channel
  <2>3. baton # "W" /\ baton' = "free"
    BY <1>1
  <2> QED
    BY <1>1, <1>2, <1>3, <2>1, <2>2, <2>3, HandlerGoesOn DEF InAbort
<1>5. QueueInv'
  <2>1. task # NoRun
    BY <1>1, RunNotNone DEF LiveRuns
  <2> QED
    BY <1>1, <2>1 DEF SessionInv, QueueInv
<1>6. QuotaInv'
  BY <1>1, <1>3 DEF SessionInv, QuotaInv, channel
<1>7. pc'["H"] = "stopclear" /\ pc'["W"] = pc["W"]
  BY <1>1, PlaceFacts DEF SessionInv
<1>8. AnswerInv' /\ CameraInv'
  BY <1>1, <1>7, AnswerFrame, CameraFrame DEF runs
<1> QED
  BY <1>3, <1>4, <1>5, <1>6, <1>8 DEF SessionInv

\* What the handler does from an abort, or from a queue, back to its loop.
LEMMA HandlerReturns ==
    ASSUME SessionInv, NEW w \in {"recv", "clear", "done"}, Returns("H", w),
           OwnType', FlagType', UNCHANGED runs, ending' = ending, baton # "W",
           UNCHANGED <<current, task, queue, idleClosing, used>>,
           pc["H"] # "done", state' = state, open' => open /\ pc["H"] # "camera",
           w = "clear" => pc["H"] \in Aborting /\ op["H"] \in Creates,
           pc["H"] = "gather" => target["H"] \notin LiveRuns,
           IF w = "done" THEN /\ pc["W"] = "done" /\ current = {}
                              /\ \A r \in LiveRuns : r = task /\ cut["H"]
                         ELSE quota' = quota
    PROVE  SessionInv'
<1>1. /\ ActorType' /\ baton' = "free" /\ messages' = messages /\ cut' = cut
      /\ target'["W"] = target["W"] /\ speech'["W"] = speech["W"] /\ op'["W"] = op["W"]
  BY ReturnTypes, NatFacts DEF SessionInv
<1>2. RunType' /\ LiveRuns' = LiveRuns
  BY LiveSame DEF SessionInv, SessionParts, RunType, runs
<1>3. pc' = [pc EXCEPT !["H"] = w]
  BY DEF Returns
<1>4. pc'["H"] = w /\ pc'["W"] = pc["W"]
  BY <1>3, PlaceFacts DEF SessionInv
<1>5. ActorInv' /\ TaskInv' /\ CountInv'
  <2>1. /\ w \in HandlerPlaces /\ w \notin InAbort /\ w \notin Aborting
        /\ w # "gather" /\ w \notin {"joined", "after"}
    BY DEF HandlerPlaces, InAbort, Aborting
  <2>2. messages' \in Nat /\ messages' >= messages
    BY <1>1, NatFacts DEF SessionInv
  <2> QED
    BY <1>1, <1>2, <1>3, <2>1, <2>2, HandlerGoesOn
<1>6. QueueInv'
  BY <1>4, QueueFrame
<1>7. QuotaInv'
  BY <1>1, <1>2, <1>4 DEF SessionInv, QuotaInv
<1>8. AnswerInv' /\ CameraInv'
  BY <1>4, AnswerFrame, CameraFrame DEF runs
<1> QED
  BY <1>1, <1>2, <1>5, <1>6, <1>7, <1>8 DEF SessionInv, SessionParts

LEMMA ReturnSteps ==
    ASSUME SessionInv, StopPuts \/ AfterAbort \/ AfterStart
    PROVE  SessionInv'
<1>1. CASE StopPuts
  <2>1. UNCHANGED <<turn, runs, channel>> /\ pc["H"] = "stopclear" /\ baton = "free"
        /\ Returns("H", "recv")
    BY <1>1 DEF StopPuts, Free
  <2>2. OwnType' /\ FlagType'
    BY <2>1 DEF SessionInv, SessionParts, OwnType, FlagType, turn, channel, runs
  <2> QED
    BY <2>1, <2>2, HandlerReturns DEF turn, runs, channel
<1>2. CASE AfterAbort
  <2>1. UNCHANGED <<turn, runs, channel>> /\ pc["H"] = "after" /\ baton = "H"
        /\ Returns("H", "recv")
    BY <1>2 DEF AfterAbort, Resumes
  <2>2. OwnType' /\ FlagType'
    BY <2>1 DEF SessionInv, SessionParts, OwnType, FlagType, turn, channel, runs
  <2> QED
    BY <2>1, <2>2, HandlerReturns DEF turn, runs, channel
<1>3. CASE AfterStart
  <2>1. /\ UNCHANGED <<current, task, queue, ending, state, waking, idleClosing, currentTts,
                       runs, channel>>
        /\ quiet' = FALSE /\ closeAfter' = FALSE
        /\ pc["H"] = "after" /\ baton = "H" /\ op["H"] = "start" /\ Returns("H", "clear")
    BY <1>3 DEF AfterStart, Resumes
  <2>2. OwnType' /\ FlagType'
    <3>1. OwnType'
      BY <2>1 DEF SessionInv, SessionParts, OwnType, channel, runs
    <3>2. FlagType'
      BY <2>1 DEF SessionInv, SessionParts, FlagType, channel
    <3> QED
      BY <3>1, <3>2
  <2>3. pc["H"] \in Aborting /\ op["H"] \in Creates
    BY <2>1 DEF Aborting, Creates
  <2> QED
    BY <2>1, <2>2, <2>3, HandlerReturns DEF runs, channel
<1> QED
  BY <1>1, <1>2, <1>3

\* The handler ends with nothing left: it has aborted what there was, and the
\* watchdog is gone; unless it was cut off before it took the last turn.
LEMMA FinalReleaseStep == ASSUME SessionInv, FinalRelease PROVE SessionInv'
<1>1. /\ quota' = FALSE /\ open' = FALSE /\ Returns("H", "done")
      /\ UNCHANGED <<turn, runs, speaker>>
      /\ op["H"] = "final" /\ pc["H"] \in {"camera", "gather", "silence", "after"} /\ baton # "W"
      /\ pc["H"] = "gather" => target["H"] \notin LiveRuns
      /\ pc["H"] = "camera" => cut["H"]
  BY DEF FinalRelease, Resumes, Free
<1>2. OwnType' /\ FlagType'
  <2>1. OwnType'
    BY <1>1 DEF SessionInv, SessionParts, OwnType, turn, runs
  <2>2. FlagType'
    BY <1>1 DEF SessionInv, SessionParts, FlagType, turn
  <2> QED
    BY <2>1, <2>2
<1>3. pc["W"] = "done" /\ current = {}
  BY <1>1 DEF SessionInv, ActorInv, InAbort, Aborting
<1>4. \A r \in LiveRuns : r = task /\ cut["H"]
  <2>1. CASE pc["H"] = "camera"
    BY <1>1, <1>3, <2>1, OneLives
  <2>2. CASE pc["H"] # "camera"
    <3>1. pc["H"] \in Aborting \cup {"clear"}
      BY <1>1, <2>2 DEF Aborting
    <3>2. LiveRuns = {}
      BY <1>1, <1>3, <3>1, OneLives
    <3> QED
      BY <3>2
  <2> QED
    BY <2>1, <2>2
<1> QED
  BY <1>1, <1>2, <1>3, <1>4, HandlerReturns DEF turn, runs

\* A cancellation, and the finally block up to its wait for the watchdog.
LEMMA CancelledStep == ASSUME SessionInv, Cancelled PROVE SessionInv'
<1>1. /\ UNCHANGED <<turn, used, run, tts, started, flight, op, target, speech, baton,
                     messages, quota, speaker>>
      /\ open' = FALSE /\ cancels' = cancels + 1 /\ cancels < MaxCancels /\ baton = "free"
  BY DEF Cancelled, Free
<1>2. cancels' \in 0 .. MaxCancels
  BY <1>1, SessionAssumption DEF SessionInv, SessionParts, ActorType
<1>3. /\ cut' \in [Actors -> BOOLEAN] /\ interrupted' \subseteq Runs
      /\ \/ /\ pc["H"] \in {"recv", "clear", "stopclear", "camera", "silence"}
            /\ pc' = [pc EXCEPT !["H"] = "recv"]
         \/ pc["H"] \in {"gather", "camera", "silence", "joinW"} /\ pc' = pc
  <2>1. CASE /\ pc["H"] \in {"recv", "clear", "stopclear", "camera", "silence"}
             /\ pc' = [pc EXCEPT !["H"] = "recv"] /\ UNCHANGED <<cut, interrupted>>
    BY <2>1 DEF SessionInv, SessionParts, ActorType, RunType
  <2>2. CASE \E r : /\ pc["H"] \in {"gather", "camera", "silence", "joinW"} /\ pc' = pc
                    /\ CancelTask(r)
                    /\ \/ cut' = [cut EXCEPT !["H"] = TRUE]
                       \/ cut' = [cut EXCEPT !["W"] = pc["W"] # "done"]
    <3>1. PICK r : interrupted' = interrupted \cup ({r} \cap LiveRuns)
      BY <2>2 DEF CancelTask
    <3>2. interrupted' \subseteq Runs
      BY <3>1 DEF SessionInv, SessionParts, RunType, LiveRuns
    <3>3. (pc["W"] # "done") \in BOOLEAN /\ cut \in [Actors -> BOOLEAN]
      BY DEF SessionInv, SessionParts, ActorType
    <3>4. cut' \in [Actors -> BOOLEAN]
      BY <2>2, <3>3
    <3> QED
      BY <2>2, <3>2, <3>4
  <2> QED
    BY <2>1, <2>2 DEF Cancelled
<1>4. PICK w \in {"recv", "gather", "camera", "silence", "joinW"} :
          pc' = [pc EXCEPT !["H"] = w] /\ (w = "recv" \/ w = pc["H"])
  <2>1. pc = [pc EXCEPT !["H"] = pc["H"]]
    BY DEF SessionInv, SessionParts, ActorType
  <2> QED
    BY <1>3, <2>1
<1>5. /\ pc["H"] \in {"recv", "clear", "stopclear", "camera", "silence", "gather", "joinW"}
      /\ pc["H"] = "gather" => w = "gather"
  <2>1. pc["H"] = "gather" => pc' = pc
    BY <1>3
  <2>2. pc'["H"] = w
    BY <1>4, PlaceFacts DEF SessionInv
  <2> QED
    BY <1>3, <1>4, <2>1, <2>2
<1>6. SessionParts' /\ LiveRuns' = LiveRuns
  <2>1. OwnType' /\ FlagType'
    <3>1. OwnType'
      BY <1>1 DEF SessionInv, SessionParts, OwnType, turn
    <3>2. FlagType'
      BY <1>1 DEF SessionInv, SessionParts, FlagType, turn
    <3> QED
      BY <3>1, <3>2
  <2>2. RunType'
    BY <1>1, <1>3 DEF SessionInv, SessionParts, RunType
  <2>3. pc' \in [Actors -> {"recv", "sleep", "camera", "gather", "joined", "silence", "after", "clear",
                            "stopclear", "joinW", "await", "emits", "wclose", "done"}]
    BY <1>4 DEF SessionInv, SessionParts, ActorType
  <2>4. ActorType'
    BY <1>1, <1>2, <1>3, <2>3 DEF SessionInv, SessionParts, ActorType
  <2> QED
    BY <1>1, <2>1, <2>2, <2>4, LiveSame DEF SessionParts
<1>7. ActorInv' /\ TaskInv' /\ CountInv'
  <2>1. /\ w \in HandlerPlaces /\ w # "clear" /\ w \notin {"joined", "after"}
        /\ w \in InAbort => pc["H"] \in InAbort
        /\ w \in Aborting => pc["H"] \in Aborting
    BY <1>4 DEF HandlerPlaces, InAbort, Aborting
  <2>2. messages' \in Nat /\ messages' >= messages
    BY <1>1, NatFacts DEF SessionInv
  <2>3. IF w = "gather" THEN pc["H"] = "gather" /\ target' = target
                        ELSE pc["H"] = "gather" => target["H"] \notin LiveRuns
    BY <1>1, <1>4, <1>5
  <2> QED
    BY <1>1, <1>4, <1>6, <2>1, <2>2, <2>3, HandlerGoesOn DEF turn
<1>8. pc'["H"] = w /\ pc'["W"] = pc["W"]
  BY <1>4, PlaceFacts DEF SessionInv
<1>9. QueueInv' /\ QuotaInv' /\ AnswerInv' /\ CameraInv'
  BY <1>1, <1>4, <1>5, <1>6, <1>8, QueueFrame, QuotaFrame, AnswerFrame, CameraFrame DEF turn
<1> QED
  BY <1>6, <1>7, <1>9 DEF SessionInv

LEMMA FinalBeginStep == ASSUME SessionInv, FinalBegin PROVE SessionInv'
<1>1. /\ UNCHANGED <<turn, used, run, tts, started, flight, op, speech, baton, messages,
                     cancels, channel>>
      /\ pc' = [pc EXCEPT !["H"] = "joinW"] /\ target' = [target EXCEPT !["H"] = NoRun]
      /\ cut' = [cut EXCEPT !["H"] = FALSE, !["W"] = pc["W"] # "done"]
      /\ interrupted' = interrupted \cup ({target["W"]} \cap LiveRuns) /\ baton = "free"
      /\ pc["H"] \in {"recv", "stopclear", "gather"}
      /\ pc["H"] = "gather" => target["H"] \notin LiveRuns
  BY DEF FinalBegin, CancelTask, Free
<1>2. SessionParts' /\ LiveRuns' = LiveRuns
  <2>1. OwnType' /\ FlagType'
    BY <1>1 DEF SessionInv, SessionParts, OwnType, FlagType, turn, channel
  <2>2. interrupted' \subseteq Runs
    BY <1>1 DEF SessionInv, SessionParts, RunType, LiveRuns
  <2>3. RunType'
    BY <1>1, <2>2 DEF SessionInv, SessionParts, RunType
  <2>4. pc' \in [Actors -> {"recv", "sleep", "camera", "gather", "joined", "silence", "after", "clear",
                            "stopclear", "joinW", "await", "emits", "wclose", "done"}]
    BY <1>1 DEF SessionInv, SessionParts, ActorType
  <2>5. target' \in [Actors -> Runs \cup {NoRun}]
    BY <1>1 DEF SessionInv, SessionParts, ActorType
  <2>6. cut' \in [Actors -> BOOLEAN]
    <3>1. (pc["W"] # "done") \in BOOLEAN /\ cut \in [Actors -> BOOLEAN]
      BY DEF SessionInv, SessionParts, ActorType
    <3> QED
      BY <1>1, <3>1
  <2>7. ActorType'
    BY <1>1, <2>4, <2>5, <2>6 DEF SessionInv, SessionParts, ActorType
  <2> QED
    BY <1>1, <2>1, <2>3, <2>7, LiveSame DEF SessionParts
<1>3. ActorInv' /\ TaskInv' /\ CountInv'
  <2>1. "joinW" \in HandlerPlaces /\ "joinW" \notin InAbort /\ "joinW" \notin Aborting
        /\ target'["W"] = target["W"]
        /\ messages' \in Nat /\ messages' >= messages
    BY <1>1, NatFacts
       DEF HandlerPlaces, InAbort, Aborting, SessionInv, SessionParts, ActorType, Actors
  <2> QED
    BY <1>1, <1>2, <2>1, HandlerGoesOn DEF turn, channel
<1>4. pc'["H"] = "joinW" /\ pc'["W"] = pc["W"]
  BY <1>1, PlaceFacts DEF SessionInv
<1>5. QueueInv' /\ QuotaInv' /\ AnswerInv' /\ CameraInv'
  BY <1>1, <1>2, <1>4, QueueFrame, QuotaFrame, AnswerFrame, CameraFrame DEF turn, channel
<1> QED
  BY <1>2, <1>3, <1>5 DEF SessionInv

-----------------------------------------------------------------------------
(* A run is created.                                                       *)

LEMMA NewRunFacts ==
    ASSUME SessionParts, NEW k \in {"listen", "text", "closing"}, NewRun(k), used + 1 \in Runs
    PROVE  /\ RunType' /\ LiveRuns' \subseteq LiveRuns \cup {used + 1}
           /\ task' = used + 1 /\ task' \in Runs /\ task' \in current' /\ current' \subseteq Runs
           /\ used' = used + 1 /\ used' \in 0 .. MaxMessages + 1
           /\ \A s \in Runs : run'[s].at = "llm" => run[s].at = "llm"
<1>1. /\ used' = used + 1 /\ task' = used + 1 /\ current' = current \cup {used + 1}
      /\ run' = [run EXCEPT ![used + 1] = [@ EXCEPT !.at = "new", !.kind = k]]
      /\ UNCHANGED <<tts, started, flight, interrupted>>
  BY DEF NewRun
<1>2. run' \in [Runs -> RunRecord]
  <2>1. run \in [Runs -> RunRecord] /\ run[used + 1] \in RunRecord /\ "new" \in Where
    BY DEF SessionParts, RunType, Where
  <2>2. [run[used + 1] EXCEPT !.at = "new", !.kind = k] \in RunRecord
    BY <2>1 DEF RunRecord
  <2> QED
    BY <1>1, <2>1, <2>2
<1>3. \A s \in Runs : s # used + 1 => run'[s] = run[s]
  BY <1>1 DEF SessionParts, RunType
<1>4. LiveRuns' \subseteq LiveRuns \cup {used + 1}
  BY <1>3 DEF LiveRuns
<1>5. RunType'
  BY <1>1, <1>2 DEF SessionParts, RunType
<1>6. used' \in 0 .. MaxMessages + 1
  <2>1. used + 1 \in 0 .. MaxMessages + 1
    BY SessionAssumption DEF SessionParts, OwnType, Runs
  <2> QED
    BY <1>1, <2>1
<1>7. run'[used + 1].at = "new"
  <2>1. run \in [Runs -> RunRecord] /\ run[used + 1] \in RunRecord
    BY DEF SessionParts, RunType
  <2> QED
    BY <1>1, <2>1 DEF RunRecord
<1> QED
  BY <1>1, <1>3, <1>4, <1>5, <1>6, <1>7 DEF SessionParts, OwnType

\* A run that is owed finds its number unused.
LEMMA RunIsDue ==
    ASSUME SessionInv, OwesRun, baton # "W", pc["H"] # "camera"
    PROVE  /\ used + 1 \in Runs /\ pc["W"] \notin Aborting
           /\ used \in Nat /\ messages \in 0 .. MaxMessages
           /\ used + 1 <= messages + (IF idleClosing THEN 1 ELSE 0)
<1>1. pc["W"] \notin Aborting
  BY DEF SessionInv, ActorInv, InAbort, Aborting, OwesRun, Actors
<1>2. used \in Nat /\ messages \in 0 .. MaxMessages
  BY NatFacts DEF SessionInv, SessionParts, ActorType
<1>3. used + 1 <= messages + (IF idleClosing THEN 1 ELSE 0)
  BY <1>1, <1>2 DEF SessionInv, CountInv
<1> QED
  BY <1>1, <1>2, <1>3, SessionAssumption DEF Runs

\* By the handler, behind its abort: what the run replaces has ended, or is
\* the farewell, for which the watchdog waits.
LEMMA HandlerCreates ==
    ASSUME SessionInv, NEW k \in {"listen", "text"}, NewRun(k), Returns("H", "recv"),
           OwesRun, pc["H"] \notin {"camera", "gather"}, baton # "W",
           UNCHANGED <<idleClosing, open, quota>>, FlagType',
           queue' \in Runs \cup {NoRun}, ~ending' => queue' # NoRun
    PROVE  SessionInv'
<1>1. /\ ActorType' /\ baton' = "free" /\ messages' = messages
      /\ target'["W"] = target["W"] /\ speech'["W"] = speech["W"] /\ op'["W"] = op["W"]
  BY ReturnTypes, NatFacts DEF SessionInv
<1>2. pc'["H"] = "recv" /\ pc'["W"] = pc["W"] /\ Actors = {"H", "W"}
  <2>1. pc' = [pc EXCEPT !["H"] = "recv"]
    BY DEF Returns
  <2> QED
    BY <2>1, PlaceFacts DEF SessionInv
<1>3. pc["H"] \in Aborting \cup {"clear"}
  BY DEF OwesRun, InAbort
<1>4. pc["W"] \notin Aborting
  BY RunIsDue
<1>5. /\ used \in Nat /\ messages \in 0 .. MaxMessages
      /\ used + 1 <= messages + (IF idleClosing THEN 1 ELSE 0)
  BY RunIsDue
<1>6. used + 1 \in Runs
  BY RunIsDue
<1>7. /\ RunType' /\ LiveRuns' \subseteq LiveRuns \cup {used + 1}
      /\ task' = used + 1 /\ task' \in Runs /\ task' \in current' /\ current' \subseteq Runs
      /\ used' = used + 1 /\ used' \in 0 .. MaxMessages + 1
      /\ \A s \in Runs : run'[s].at = "llm" => run[s].at = "llm"
  BY <1>6, NewRunFacts DEF SessionInv
<1>8. SessionParts'
  <2>1. OwnType'
    BY <1>7 DEF SessionInv, SessionParts, OwnType
  <2> QED
    BY <1>1, <1>7, <2>1 DEF SessionParts
<1>9. ActorInv'
  <2>1. \A a \in Actors : baton' = a <=> pc'[a] \in {"joined", "after"}
    BY <1>1, <1>2, <1>4 DEF Aborting
  <2> QED
    BY <1>1, <1>2, <1>4, <2>1 DEF SessionInv, ActorInv, HandlerPlaces, InAbort, Aborting
<1>10. TaskInv'
  <2>1. \A r \in LiveRuns : r = task \/ Awaited(r)
    BY DEF SessionInv, TaskInv
  <2>2. task \in LiveRuns => pc["W"] = "await" /\ target["W"] = task
    <3>1. \A r \in LiveRuns : r # NoRun
      BY RunNotNone DEF LiveRuns
    <3> QED
      BY <1>3, <3>1 DEF SessionInv, TaskInv
  <2> QED
    BY <1>1, <1>2, <1>4, <1>7, <2>1, <2>2 DEF TaskInv, Awaited, Aborting
<1>11. QueueInv'
  BY <1>2 DEF QueueInv
<1>12. CountInv'
  <2>1. ~OwesRun' /\ pc'["W"] \notin Aborting
    BY <1>2, <1>4 DEF OwesRun, InAbort, Aborting
  <2> QED
    BY <1>1, <1>5, <1>7, <2>1 DEF CountInv
<1>13. QuotaInv'
  BY <1>3 DEF SessionInv, QuotaInv, Aborting
<1>14. AnswerInv'
  <2>1. pc["W"] = "sleep" => LiveRuns = {}
    BY <1>3, OneLives DEF SessionInv, ActorInv
  <2>2. CASE pc["W"] = "sleep"
    BY <1>2, <1>7, <2>1, <2>2, AnswerFrame
  <2>3. CASE pc["W"] # "sleep"
    BY <1>2, <2>3 DEF AnswerInv
  <2> QED
    BY <2>2, <2>3
<1>15. CameraInv'
  BY <1>2 DEF CameraInv
<1> QED
  BY <1>8, <1>9, <1>10, <1>11, <1>12, <1>13, <1>14, <1>15 DEF SessionInv

LEMMA StartListeningStep == ASSUME SessionInv, StartListening PROVE SessionInv'
<1>1. /\ queue' = used + 1 /\ ending' = FALSE /\ state' = "asr" /\ pc["H"] = "clear"
      /\ baton = "free" /\ NewRun("listen") /\ Returns("H", "recv")
      /\ UNCHANGED <<waking, closeAfter, idleClosing, currentTts, quiet, channel>>
  BY DEF StartListening, Free
<1>2. FlagType' /\ OwesRun /\ UNCHANGED <<idleClosing, open, quota>>
  BY <1>1 DEF SessionInv, SessionParts, FlagType, channel, OwesRun
<1>3. queue' \in Runs /\ queue' # NoRun
  <2>1. used + 1 \in Runs
    BY <1>1, <1>2, RunIsDue
  <2> QED
    BY <1>1, <2>1, RunNotNone
<1> QED
  BY <1>1, <1>2, <1>3, HandlerCreates

LEMMA AfterTextStep == ASSUME SessionInv, AfterText PROVE SessionInv'
<1>1. /\ pc["H"] = "after" /\ baton = "H" /\ op["H"] \in {"text", "wake"}
      /\ quiet' = FALSE /\ closeAfter' = FALSE /\ Returns("H", "recv")
      /\ UNCHANGED <<queue, idleClosing, currentTts, open, quota>>
  BY DEF AfterText, Resumes
<1>2. pc["H"] \in Aborting /\ op["H"] \in Creates /\ OwesRun
  BY <1>1 DEF InAbort, Aborting, Creates, OwesRun
<1>3. CASE /\ waking' = (op["H"] = "wake") /\ state' = "llm" /\ ending' = TRUE
           /\ NewRun("text") /\ UNCHANGED speaker
  <2>1. FlagType' /\ queue' \in Runs \cup {NoRun}
    BY <1>1, <1>3 DEF SessionInv, SessionParts, FlagType, OwnType
  <2> QED
    BY <1>1, <1>2, <1>3, <2>1, HandlerCreates
<1>4. CASE /\ op["H"] = "wake" /\ waking' = FALSE /\ speaker' = "off"
           /\ UNCHANGED <<current, task, state, ending, runs>>
  <2>1. OwnType' /\ FlagType' /\ used' = used
    BY <1>1, <1>4 DEF SessionInv, SessionParts, OwnType, FlagType, runs
  <2> QED
    BY <1>1, <1>2, <1>4, <2>1, HandlerReturns
<1> QED
  BY <1>3, <1>4 DEF AfterText

-----------------------------------------------------------------------------
(* The watchdog.                                                           *)

\* The farewell is created behind the watchdog's abort, and awaited.
LEMMA FarewellCreated ==
    ASSUME SessionInv, NewRun("closing"), pc["W"] = "after", baton = "W", baton' = "free",
           target' = [target EXCEPT !["W"] = used + 1],
           pc' = [pc EXCEPT !["W"] = "await"], FlagType', closeAfter' = TRUE,
           UNCHANGED <<op, speech, cut, messages, cancels, queue, ending, idleClosing, channel>>
    PROVE  SessionInv'
<1>1. pc'["W"] = "await" /\ pc'["H"] = pc["H"] /\ Actors = {"H", "W"}
  BY PlaceFacts DEF SessionInv
<1>2. target'["H"] = target["H"] /\ target'["W"] = used + 1
  BY <1>1 DEF SessionInv, SessionParts, ActorType
<1>3. idleClosing /\ pc["W"] \in Aborting
  BY DEF SessionInv, ActorInv, Aborting
<1>4. /\ used \in Nat /\ messages \in 0 .. MaxMessages
      /\ used + (IF OwesRun THEN 1 ELSE 0) <= messages
  <2>1. used \in Nat /\ messages \in 0 .. MaxMessages
    BY NatFacts DEF SessionInv, SessionParts, ActorType
  <2>2. CASE OwesRun
    BY <1>3, <2>1, <2>2 DEF SessionInv, CountInv
  <2>3. CASE ~OwesRun
    BY <1>3, <2>1, <2>3 DEF SessionInv, CountInv
  <2> QED
    BY <2>1, <2>2, <2>3
<1>5. used <= messages
  <2>1. CASE OwesRun
    BY <1>4, <2>1
  <2>2. CASE ~OwesRun
    BY <1>4, <2>2
  <2> QED
    BY <2>1, <2>2
<1>6. used + 1 \in Runs
  BY <1>4, <1>5, SessionAssumption DEF Runs
<1>7. /\ RunType' /\ LiveRuns' \subseteq LiveRuns \cup {used + 1}
      /\ task' = used + 1 /\ task' \in Runs /\ task' \in current' /\ current' \subseteq Runs
      /\ used' = used + 1 /\ used' \in 0 .. MaxMessages + 1
  BY <1>6, NewRunFacts DEF SessionInv
<1>8. SessionParts'
  <2>1. OwnType'
    BY <1>7 DEF SessionInv, SessionParts, OwnType, channel
  <2>2. ActorType'
    BY <1>6 DEF SessionInv, SessionParts, ActorType
  <2> QED
    BY <1>7, <2>1, <2>2 DEF SessionParts
<1>9. ActorInv'
  <2>1. \A a \in Actors : baton' = a <=> pc'[a] \in {"joined", "after"}
    BY <1>1 DEF SessionInv, ActorInv
  <2>2. ~(pc["H"] \in InAbort /\ op["H"] = "final")
    BY DEF SessionInv, ActorInv, InAbort
  <2> QED
    BY <1>1, <1>3, <2>1, <2>2 DEF SessionInv, ActorInv
<1>10. TaskInv'
  <2>1. \A r \in LiveRuns : r = task \/ Awaited(r)
    BY DEF SessionInv, TaskInv
  <2>2. task \notin LiveRuns
    <3>1. \A r \in LiveRuns : r # NoRun
      BY RunNotNone DEF LiveRuns
    <3> QED
      BY <1>3, <3>1 DEF SessionInv, TaskInv
  <2> QED
    BY <1>1, <1>2, <1>3, <1>7, <2>1, <2>2 DEF TaskInv, Awaited
<1>11. QueueInv' /\ AnswerInv' /\ CameraInv'
  BY <1>1, <1>3 DEF QueueInv, AnswerInv, CameraInv, SessionInv
<1>12. CountInv'
  <2>1. (OwesRun' <=> OwesRun) /\ pc'["W"] \notin Aborting
    BY <1>1 DEF OwesRun, Aborting
  <2>2. CASE OwesRun
    BY <1>3, <1>4, <1>7, <2>1, <2>2 DEF CountInv
  <2>3. CASE ~OwesRun
    BY <1>3, <1>4, <1>7, <2>1, <2>3 DEF CountInv
  <2> QED
    BY <2>2, <2>3
<1>13. QuotaInv'
  BY DEF SessionInv, QuotaInv, channel
<1> QED
  BY <1>8, <1>9, <1>10, <1>11, <1>12, <1>13 DEF SessionInv

\* From an abort, an answer or its loop back to its loop's end.
LEMMA WatchReturns ==
    ASSUME SessionInv, NEW w \in {"emits", "wclose", "done"}, Returns("W", w),
           OwnType', FlagType', UNCHANGED runs, ending' = ending, baton # "H",
           UNCHANGED <<current, task, queue, idleClosing, used, quota>>,
           pc["W"] \in {"gather", "await"} => target["W"] \notin LiveRuns,
           pc["W"] # "done", state' = state, open' => open, w # "done" => pc["W"] # "sleep"
    PROVE  SessionInv'
<1>1. /\ ActorType' /\ baton' = "free" /\ messages' = messages
      /\ target'["H"] = target["H"] /\ op'["H"] = op["H"] /\ speech'["W"] = NoRun
  BY ReturnTypes, NatFacts DEF SessionInv
<1>2. RunType' /\ LiveRuns' = LiveRuns
  BY LiveSame DEF SessionInv, SessionParts, RunType, runs
<1>3. pc' = [pc EXCEPT !["W"] = w]
  BY DEF Returns
<1>4. pc'["W"] = w /\ pc'["H"] = pc["H"]
  BY <1>3, PlaceFacts DEF SessionInv
<1>5. ActorInv' /\ TaskInv' /\ CountInv'
  BY <1>1, <1>2, <1>3, WatchGoesOn
<1>6. QueueInv'
  BY <1>4, QueueFrame
<1>7. QuotaInv'
  BY <1>2 DEF SessionInv, QuotaInv
<1>8. AnswerInv'
  BY <1>4 DEF AnswerInv
<1>9. CameraInv'
  <2>1. pc["H"] = "camera" => w = "done"
    BY DEF SessionInv, CameraInv
  <2> QED
    BY <1>4, <2>1, CameraFrame DEF runs
<1> QED
  BY <1>1, <1>2, <1>5, <1>6, <1>7, <1>8, <1>9 DEF SessionInv, SessionParts

LEMMA AfterExpireStep == ASSUME SessionInv, AfterExpire PROVE SessionInv'
<1>1. /\ pc["W"] = "after" /\ baton = "W" /\ closeAfter' = TRUE
      /\ UNCHANGED <<queue, ending, waking, idleClosing, currentTts, quiet, channel>>
  BY DEF AfterExpire, Resumes
<1>2. CASE /\ state' = "llm" /\ NewRun("closing")
           /\ target' = [target EXCEPT !["W"] = used + 1]
           /\ pc' = [pc EXCEPT !["W"] = "await"] /\ baton' = "free"
           /\ UNCHANGED <<op, speech, cut, messages, cancels>>
  <2>1. FlagType'
    BY <1>1, <1>2 DEF SessionInv, SessionParts, FlagType, channel
  <2> QED
    BY <1>1, <1>2, <2>1, FarewellCreated
<1>3. CASE Returns("W", "emits") /\ UNCHANGED <<current, task, state, runs>>
  <2>1. OwnType' /\ FlagType' /\ used' = used /\ quota' = quota
    BY <1>1, <1>3 DEF SessionInv, SessionParts, OwnType, FlagType, runs, channel
  <2>2. open' => open
    BY <1>1 DEF channel
  <2>3. Returns("W", "emits") /\ state' = state /\ UNCHANGED runs
    BY <1>3
  <2> QED
    BY <1>1, <1>3, <2>1, <2>2, <2>3, WatchReturns
<1> QED
  BY <1>2, <1>3 DEF AfterExpire

LEMMA WatchSteps == ASSUME SessionInv, FarewellEmitted \/ WatchUnwinds \/ WatchEnds PROVE SessionInv'
<1>1. PICK w \in {"emits", "wclose", "done"} :
             /\ Returns("W", w) /\ (w # "done" => pc["W"] # "sleep")
             /\ baton = "free" /\ UNCHANGED <<turn, runs, quota>> /\ speaker' \in {speaker, "off"}
             /\ open' \in {open, FALSE} /\ pc["W"] # "done"
             /\ pc["W"] \in {"gather", "await"} => target["W"] \notin LiveRuns
  <2>1. CASE FarewellEmitted
    BY <2>1 DEF FarewellEmitted, Free
  <2>2. CASE WatchUnwinds
    BY <2>2 DEF WatchUnwinds, Free, channel
  <2>3. CASE WatchEnds
    <3>1. pc["W"] \in {"wclose", "sleep"} /\ open' \in {open, FALSE}
      BY <2>3 DEF WatchEnds
    <3> QED
      BY <2>3, <3>1 DEF WatchEnds, Free
  <2> QED
    BY <2>1, <2>2, <2>3
<1>2. OwnType'
  <2>1. open' \in BOOLEAN
    BY <1>1 DEF SessionInv, SessionParts, OwnType
  <2> QED
    BY <1>1, <2>1 DEF SessionInv, SessionParts, OwnType, turn, runs
<1>3. FlagType'
  BY <1>1 DEF SessionInv, SessionParts, FlagType, turn
<1>4. /\ ending' = ending /\ state' = state /\ baton # "H" /\ used' = used
      /\ UNCHANGED <<current, task, queue, idleClosing, used, quota>>
  BY <1>1 DEF turn, runs
<1>5. open' => open
  BY <1>1
<1> QED
  BY <1>1, <1>2, <1>3, <1>4, <1>5, WatchReturns

\* Time, and the watchdog that notices an answer, change when the session was
\* last active, and nothing else.
LEMMA QuietStep == ASSUME SessionInv, GoQuiet \/ WatchTouches PROVE SessionInv'
<1>1. /\ UNCHANGED <<current, task, queue, ending, state, waking, closeAfter, idleClosing,
                     currentTts, used, run, tts, started, flight, interrupted, pc, op, target, speech,
                     cut, baton, messages, cancels, open, quota, speaker>>
      /\ quiet' \in BOOLEAN
  BY DEF GoQuiet, WatchTouches, runs, actor, channel
<1>2. SessionParts' /\ LiveRuns' = LiveRuns
  BY <1>1, LiveSame DEF SessionInv, SessionParts, OwnType, FlagType, RunType, ActorType
<1>3. ActorInv' /\ TaskInv' /\ QueueInv' /\ QuotaInv' /\ AnswerInv' /\ CameraInv'
  BY <1>1, <1>2
     DEF SessionInv, ActorInv, TaskInv, Awaited, QueueInv, QuotaInv, AnswerInv, CameraInv
<1>4. CountInv'
  BY <1>1 DEF SessionInv, CountInv, OwesRun
<1> QED
  BY <1>2, <1>3, <1>4 DEF SessionInv

-----------------------------------------------------------------------------
(* The theorems.                                                           *)

LEMMA StutterInv == ASSUME SessionInv, UNCHANGED sessionVars PROVE SessionInv'
<1>1. LiveRuns' = LiveRuns
  BY LiveSame DEF sessionVars
<1>2. SessionParts'
  BY DEF sessionVars, SessionInv, SessionParts, OwnType, FlagType, RunType, ActorType
<1>3. ActorInv' /\ TaskInv' /\ QueueInv' /\ QuotaInv' /\ AnswerInv' /\ CameraInv'
  BY <1>1
     DEF sessionVars, SessionInv, ActorInv, TaskInv, Awaited, QueueInv, QuotaInv, AnswerInv,
         CameraInv
<1>4. CountInv'
  BY DEF sessionVars, SessionInv, CountInv, OwesRun
<1> QED
  BY <1>2, <1>3, <1>4 DEF SessionInv

LEMMA SessionStep == SessionInv /\ [SessionNext]_sessionVars => SessionInv'
<1> SUFFICES ASSUME SessionInv, [SessionNext]_sessionVars PROVE SessionInv'
  OBVIOUS
<1>1. ASSUME Client PROVE SessionInv'
  BY <1>1, MessageStep, MsgStopStep, CancelledStep DEF Client
<1>2. ASSUME Handler PROVE SessionInv'
  <2>1. "H" \in Actors
    BY DEF Actors
  <2> QED
    BY <1>2, <2>1, ReturnSteps, StartListeningStep, AfterTextStep, FinalAbortStep,
       FinalReleaseStep, TakesStep, JoinedStep DEF Handler
<1>3. ASSUME Watchdog PROVE SessionInv'
  <2>1. "W" \in Actors
    BY DEF Actors
  <2> QED
    BY <1>3, <2>1, QuietStep, ExpireStep, AfterExpireStep, WatchSteps, TakesStep,
       JoinedStep DEF Watchdog
<1>4. ASSUME NEW r \in Runs, RunStep(r) \/ RunEvent(r) PROVE SessionInv'
  BY <1>4, RunStepInv
<1> QED
  BY <1>1, <1>2, <1>3, <1>4, FinalBeginStep, QuietStep, StutterInv DEF SessionNext

\* The inductive invariant of a session: whatever the handler, the watchdog and
\* the turns they start do (voice_turn.py, transport_core.py), wherever a
\* cancellation meets the handler, the wait for the camera of its abort()
\* (voice_turn.py:93-94) included, they hang together.
THEOREM SessionInvariance == SessionSpec => []SessionInv
  BY SessionInitInv, SessionStep, PTL DEF SessionSpec

\* The session, its coroutines and its turns are in states the code can store
\* (voice_turn.py, transport_core.py): for any number of messages and
\* cancellations, no index of a run is out of bounds.
THEOREM SessionTypeCorrect == SessionSpec => []SessionTypes
<1>1. SessionInv => SessionTypes
  BY TypeFacts DEF SessionInv
<1> QED
  BY <1>1, SessionInvariance, PTL

\* The turns of a session are owned (voice_turn.py:90-147, the abort() of the
\* handler and of the watchdog): whatever is aborted, cancelled or expired in
\* whatever order, no live run is forgotten, at rest the only one belongs to the
\* present generation, stop() finds the queue of the turn it ends, and the
\* quota is returned behind all of them, but for the one turn, of no generation
\* any more, that a handler cancelled while its last abort() waited for the
\* camera did not come to cancel.
THEOREM TurnsAreOwned == SessionSpec => []TurnOwned
<1>1. ASSUME SessionInv PROVE NoOrphanRun
  BY <1>1 DEF SessionInv, TaskInv, Awaited, NoOrphanRun, Actors
<1>2. ASSUME SessionInv PROVE OneTurn
  <2>1. ASSUME NEW r \in LiveRuns, AtRest PROVE r = task /\ Current(r)
    <3>1. r = task
      BY <1>2, <2>1 DEF SessionInv, TaskInv, Awaited, AtRest
    <3>2. r # NoRun
      BY <2>1, RunNotNone DEF LiveRuns
    <3> QED
      BY <1>2, <2>1, <3>1, <3>2 DEF SessionInv, TaskInv, AtRest, Current
  <2> QED
    BY <2>1 DEF OneTurn
<1>3. SessionInv => QueueForStop /\ QuotaCoversWork
  BY DEF SessionInv, QueueInv, QuotaInv, QueueForStop, QuotaCoversWork, Current
<1>4. SessionInv => TurnOwned
  BY <1>1, <1>2, <1>3 DEF TurnOwned
<1> QED
  BY <1>4, SessionInvariance, PTL
=============================================================================
