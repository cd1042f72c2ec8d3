--------------------------- MODULE TTSTurn_proofs ---------------------------
(***************************************************************************)
(* Proofs about TTSTurn for every lookahead and every length of the text.  *)
(* IInv strengthens the checked invariants: it ties the semaphore, the     *)
(* queue and the players position to the number of segments dispatched.    *)
(***************************************************************************)
EXTENDS TTSTurn, TLAPS

\* Where play() stands: the queue continues behind this segment.
Position == IF playing # 0 THEN playing ELSE heard

\* Segments dispatch() has handed to the queue.
Handed == IF dispatch = "failed" THEN popped - 1 ELSE popped

\* What the buffer holds: a remainder can be flushed once, after finish().
BufferInv ==
    /\ heard <= popped /\ popped <= ready
    /\ ready = TextBound + 1 => finished /\ ~rest
    /\ owner = "feeding" => ~finished

\* The semaphore, and the slot dispatch() still has when it ends.
SlotInv ==
    /\ slots + (popped - heard) = MaxLookahead
    /\ dispatch = "done" => slots > 0 /\ finished /\ ~rest /\ popped = ready
    /\ dispatch = "failed" => popped > heard

\* The queue is the run of segments behind the player, then perhaps End.
QueueInv ==
    /\ \A i \in 1 .. Len(queue) : queue[i] = End \/ queue[i] = Position + i
    /\ \A i \in 1 .. Len(queue) : queue[i] = End => i = Len(queue) /\ dispatch = "done"
    /\ IF Len(queue) > 0 /\ queue[Len(queue)] = End
       THEN Position + Len(queue) = popped + 1
       ELSE Position + Len(queue) = Handed

\* play() works on the segment behind the last one heard.
PlayInv ==
    /\ playing # 0 => playing = heard + 1 /\ playing <= popped
    /\ playing # 0 /\ dispatch = "failed" => playing < popped
    /\ play \in {"await", "start", "sentence", "packets"} => playing # 0
    /\ play \in {"new", "get", "final", "stopped", "done"} => playing = 0
    /\ play \in {"final", "stopped", "done"} => dispatch = "done" /\ Len(queue) = 0

\* What the device knows, read against where play() stands.
DeviceInv ==
    /\ shown = heard \/ shown = heard + 1
    /\ shown <= popped
    /\ play \notin {"packets", "failed", "cancelled"} => shown = heard
    /\ play = "packets" => shown = playing
    /\ play \in {"new", "get", "await", "final"} =>
          /\ started <=> speaker = "start"
          /\ speaker = "idle" <=> heard = 0
          /\ speaker # "stop"
    /\ play = "start" => started /\ speaker = "idle"
    /\ play \in {"sentence", "packets"} => started /\ speaker = "start"
    /\ play = "stopped" => speaker = "stop" /\ heard > 0
    /\ play = "done" => speaker = IF heard = 0 THEN "idle" ELSE "stop"

\* Whatever has been announced had been synthesised.
JobInv ==
    /\ \A s \in Segments : s <= shown => job[s] = "ok"
    /\ play \in {"start", "sentence", "packets"} => job[playing] = "ok"

\* run() ends behind everything it started, the owner behind run().
RunInv ==
    /\ run \in {"new", "done"} => \A s \in Segments : job[s] # "running"
    /\ run = "new" => dispatch = "new" /\ play = "new"
    /\ run = "done" => dispatch \in Ended \cup {"new"} /\ play \in Ended \cup {"new"}
    /\ owner \in {"shutdown", "closed", "interrupted"} => run = "done"
    /\ outcome = "ok" => run # "wait" /\ dispatch = "done" /\ play = "done"

IInv == /\ TypeOK /\ BufferInv /\ SlotInv /\ QueueInv /\ PlayInv
        /\ DeviceInv /\ JobInv /\ RunInv

\* What putting a job into the queue, and taking one, does to its places.
LEMMA AppendFacts ==
    ASSUME NEW S, NEW q \in Seq(S), NEW e \in S
    PROVE  /\ Append(q, e) \in Seq(S)
           /\ Len(q) \in Nat /\ Len(Append(q, e)) = Len(q) + 1
           /\ \A i \in 1 .. Len(q) : Append(q, e)[i] = q[i] /\ q[i] \in S
           /\ Append(q, e)[Len(q) + 1] = e
OBVIOUS

LEMMA TailFacts ==
    ASSUME NEW S, NEW q \in Seq(S), q # <<>>
    PROVE  /\ Tail(q) \in Seq(S) /\ Head(q) \in S
           /\ Len(q) \in Nat \ {0} /\ Len(Tail(q)) = Len(q) - 1
           /\ Head(q) = q[1]
           /\ \A i \in 1 .. Len(Tail(q)) : Tail(q)[i] = q[i + 1] /\ q[i + 1] \in S
OBVIOUS

LEMMA InitInv == Init => IInv
<1> SUFFICES ASSUME Init PROVE IInv
  OBVIOUS
<1> USE LookaheadAssumption, SegmentAssumption
<1>1. TypeOK
  <2>1. queue \in Seq(Segments \cup {End})
    BY DEF Init
  <2>2. job \in [Segments -> {"none", "running", "ok", "error", "cancelled"}]
    BY DEF Init
  <2>3. slots \in 0 .. MaxLookahead
    BY DEF Init
  <2>4. ready \in 0 .. TextBound + 1 /\ popped \in 0 .. TextBound + 1
    BY DEF Init
  <2>5. shown \in 0 .. TextBound + 1 /\ heard \in 0 .. TextBound + 1
    BY DEF Init
  <2>6. playing \in Segments \cup {0}
    BY DEF Init
  <2> QED
    BY <2>1, <2>2, <2>3, <2>4, <2>5, <2>6 DEF Init, TypeOK
<1>2. BufferInv /\ SlotInv /\ PlayInv
  BY DEF Init, BufferInv, SlotInv, PlayInv
<1>4. DeviceInv /\ JobInv /\ RunInv
  BY DEF Init, DeviceInv, JobInv, RunInv, Segments
<1>3. QueueInv
  BY DEF Init, QueueInv, Position, Handed
<1> QED
  BY <1>1, <1>2, <1>3, <1>4 DEF IInv

\* QueueInv is about five variables only.
LEMMA QueueFrame ==
    ASSUME QueueInv, queue' = queue, playing' = playing, heard' = heard,
           popped' = popped, dispatch' = "done" <=> dispatch = "done",
           dispatch' = "failed" <=> dispatch = "failed"
    PROVE  QueueInv'
BY DEF QueueInv, Position, Handed

LEMMA StepInv == IInv /\ [Next]_vars => IInv'
<1> SUFFICES ASSUME IInv, [Next]_vars PROVE IInv'
  OBVIOUS
<1> USE LookaheadAssumption, SegmentAssumption
<1>1. CASE DispatchSegment
  <2>1. popped' = popped + 1 /\ slots' = slots - 1 /\ popped' \in Segments
    BY <1>1 DEF IInv, TypeOK, BufferInv, DispatchSegment, Pops, Segments
  <2>2. /\ queue' \in Seq(Segments \cup {End})
        /\ Len(queue) \in Nat /\ Len(queue') = Len(queue) + 1
        /\ \A i \in 1 .. Len(queue) : queue'[i] = queue[i]
        /\ queue'[Len(queue) + 1] = popped'
    <3>1. queue' = Append(queue, popped') /\ queue \in Seq(Segments \cup {End})
      BY <1>1 DEF DispatchSegment, IInv, TypeOK
    <3> QED
      BY <2>1, <3>1, AppendFacts
  <2>3. job' \in [Segments -> {"none", "running", "ok", "error", "cancelled"}]
    BY <1>1, <2>1 DEF DispatchSegment, IInv, TypeOK
  <2>a. /\ ready' \in 0 .. TextBound + 1 /\ popped' \in 0 .. TextBound + 1
        /\ slots' \in 0 .. MaxLookahead /\ rest' \in BOOLEAN
    <3>1. slots' \in 0 .. MaxLookahead
      BY <1>1 DEF IInv, TypeOK, DispatchSegment
    <3>2. rest' \in BOOLEAN
      BY <1>1 DEF IInv, TypeOK, DispatchSegment, Pops
    <3>3. ready' \in 0 .. TextBound + 1
      BY <1>1 DEF IInv, TypeOK, BufferInv, DispatchSegment, Pops
    <3>4. popped' \in 0 .. TextBound + 1
      BY <1>1 DEF IInv, TypeOK, BufferInv, DispatchSegment, Pops
    <3> QED
      BY <3>1, <3>2, <3>3, <3>4
  <2>e. /\ playing' \in Segments \cup {0} /\ dispatch' = dispatch /\ changed' \in BOOLEAN
        /\ finished' = finished /\ failure' = failure /\ play' = play /\ run' = run
        /\ outcome' = outcome /\ owner' = owner /\ cut' = cut /\ executor' = executor
        /\ listed' = listed /\ started' = started /\ speaker' = speaker
        /\ shown' = shown /\ heard' = heard
    BY <1>1 DEF IInv, TypeOK, DispatchSegment, coro, own, device
  <2>4. TypeOK'
    BY <2>a, <2>2, <2>3, <2>e DEF IInv, TypeOK
  <2>5. BufferInv' /\ SlotInv' /\ PlayInv'
    <3>1. BufferInv'
      BY <1>1 DEF IInv, TypeOK, BufferInv, DispatchSegment, Pops, own, device
    <3>2. SlotInv'
      BY <1>1, <2>1 DEF IInv, TypeOK, SlotInv, DispatchSegment, coro, device
    <3>3. PlayInv'
      BY <1>1, <2>1 DEF IInv, TypeOK, PlayInv, DispatchSegment, coro, device
    <3> QED
      BY <3>1, <3>2, <3>3
  <2>6. \A i \in 1 .. Len(queue) : queue[i] # End
    BY <1>1 DEF IInv, QueueInv, DispatchSegment
  <2>7. Position + Len(queue) = popped /\ Position' = Position
    BY <1>1, <2>2, <2>6 DEF IInv, QueueInv, Position, Handed, DispatchSegment, coro, device
  <2>8. Position \in Nat /\ popped' # End
    BY <2>1 DEF IInv, TypeOK, Position, Segments, End
  <2>b. ASSUME NEW i \in 1 .. Len(queue')
        PROVE  queue'[i] = Position' + i /\ queue'[i] # End
    <3>1. CASE i \in 1 .. Len(queue)
      BY <2>2, <2>6, <2>7, <3>1 DEF IInv, QueueInv
    <3>2. CASE i = Len(queue) + 1
      BY <2>1, <2>2, <2>7, <2>8, <3>2
    <3> QED
      BY <2>2, <3>1, <3>2
  <2>c. Handed' = popped' /\ Position' + Len(queue') = popped'
    BY <1>1, <2>1, <2>2, <2>7, <2>8 DEF Handed, DispatchSegment, coro
  <2>d. Len(queue') \in 1 .. Len(queue')
    BY <2>2
  <2>9. QueueInv'
    BY <2>b, <2>c, <2>d DEF QueueInv
  <2>f. DeviceInv' /\ RunInv'
    BY <1>1, <2>1 DEF IInv, DeviceInv, RunInv, TypeOK, DispatchSegment, Scheduled, coro, own, device
  <2>g. JobInv'
    BY <1>1, <2>1 DEF IInv, TypeOK, DeviceInv, JobInv, BufferInv, PlayInv, QueueInv, DispatchSegment, Segments, coro, device
  <2> QED
    BY <2>4, <2>5, <2>9, <2>f, <2>g DEF IInv
<1>2. CASE PlayTakes
  <2>1. /\ queue' \in Seq(Segments \cup {End}) /\ queue[1] \in Segments \cup {End}
        /\ Len(queue) \in Nat \ {0} /\ Len(queue') = Len(queue) - 1
        /\ Head(queue) = queue[1]
        /\ \A i \in 1 .. Len(queue') : queue'[i] = queue[i + 1]
    <3>1. queue' = Tail(queue) /\ queue # <<>> /\ queue \in Seq(Segments \cup {End})
      BY <1>2 DEF PlayTakes, IInv, TypeOK
    <3> QED
      BY <3>1, TailFacts
  <2>2. playing = 0 /\ Position = heard /\ heard \in Nat
    BY <1>2 DEF IInv, TypeOK, PlayInv, Position, PlayTakes
  <2>3. TypeOK'
    BY <1>2, <2>1 DEF IInv, TypeOK, PlayTakes, Scheduled, text, own, device
  <2>4. BufferInv' /\ SlotInv'
    BY <1>2 DEF IInv, TypeOK, BufferInv, SlotInv, PlayTakes, Scheduled, text, own, device, Ended
  <2>5. CASE queue[1] = End
    <3>0. 1 \in 1 .. Len(queue)
      BY <2>1
    <3>a. Len(queue) = 1 /\ dispatch = "done"
      BY <2>5, <3>0 DEF IInv, QueueInv
    <3>b. playing' = playing /\ heard' = heard /\ play' = "final"
      BY <1>2, <2>1, <2>5 DEF PlayTakes, device
    <3>1. Len(queue) = 1 /\ dispatch = "done" /\ Position' = Position /\ Len(queue') = 0
      BY <2>1, <3>a, <3>b DEF Position
    <3>2. PlayInv'
      BY <1>2, <2>1, <2>2, <2>5, <3>1 DEF IInv, PlayInv, PlayTakes, Scheduled, device
    <3>3. QueueInv'
      BY <1>2, <2>1, <2>2, <2>5, <3>1 DEF IInv, TypeOK, QueueInv, Handed, PlayTakes, device
    <3>4. DeviceInv' /\ JobInv' /\ RunInv'
      BY <1>2, <2>1, <2>2, <3>b DEF IInv, TypeOK, DeviceInv, JobInv, RunInv, PlayTakes, Scheduled, own, device, Ended
    <3> QED
      BY <2>3, <2>4, <3>2, <3>3, <3>4 DEF IInv
  <2>6. CASE queue[1] # End
    <3>0. 1 \in 1 .. Len(queue)
      BY <2>1
    <3>a. queue[1] = heard + 1
      BY <2>6, <3>0, <2>2 DEF IInv, QueueInv
    <3>b. playing' = queue[1] /\ heard' = heard /\ play' = "await"
      BY <1>2, <2>1, <2>6 DEF PlayTakes, device
    <3>1. /\ queue[1] = heard + 1 /\ playing' = heard + 1 /\ Position' = Position + 1
          /\ heard' = heard
      BY <2>2, <3>a, <3>b DEF Position
    <3>c. dispatch' = dispatch /\ popped' = popped /\ Handed' = Handed
      BY <1>2 DEF Handed, PlayTakes
    <3>g. playing' <= popped' /\ (dispatch' = "failed" => playing' < popped')
      <4>1. queue[Len(queue)] = End => Len(queue) > 1
        BY <2>1, <2>6
      <4> QED
        BY <2>1, <2>2, <3>1, <3>c, <4>1 DEF IInv, TypeOK, QueueInv, Handed
    <3>2. PlayInv'
      BY <1>2, <2>1, <2>2, <2>6, <3>1, <3>g DEF IInv, PlayInv, PlayTakes, Scheduled, device
    <3>d. ASSUME NEW i \in 1 .. Len(queue')
          PROVE  /\ i + 1 \in 1 .. Len(queue) /\ queue'[i] = queue[i + 1]
                 /\ (i = Len(queue') <=> i + 1 = Len(queue))
      BY <2>1
    <3>e. /\ \A i \in 1 .. Len(queue') : queue'[i] = End \/ queue'[i] = Position' + i
          /\ \A i \in 1 .. Len(queue') :
                queue'[i] = End => i = Len(queue') /\ dispatch' = "done"
      BY <2>2, <3>1, <3>c, <3>d DEF IInv, QueueInv
    <3>f. IF Len(queue') > 0 /\ queue'[Len(queue')] = End
          THEN Position' + Len(queue') = popped' + 1
          ELSE Position' + Len(queue') = Handed'
      <4>1. CASE Len(queue') = 0
        BY <2>1, <2>2, <2>6, <3>1, <3>c, <4>1 DEF IInv, QueueInv
      <4>2. CASE Len(queue') > 0
        <5>1. queue'[Len(queue')] = queue[Len(queue)]
          BY <2>1, <4>2
        <5> QED
          BY <2>1, <2>2, <3>1, <3>c, <4>2, <5>1 DEF IInv, QueueInv
      <4> QED
        BY <2>1, <4>1, <4>2
    <3>3. QueueInv'
      BY <3>e, <3>f DEF QueueInv
    <3>4. DeviceInv' /\ JobInv' /\ RunInv'
      BY <1>2, <2>1, <2>2, <3>b DEF IInv, TypeOK, DeviceInv, JobInv, RunInv, PlayTakes, Scheduled, own, device, Ended
    <3> QED
      BY <2>3, <2>4, <3>2, <3>3, <3>4 DEF IInv
  <2> QED
    BY <2>5, <2>6
<1>3. CASE Feed
  <2>1. TypeOK'
    BY <1>3 DEF IInv, TypeOK, BufferInv, Ended, Feed, coro, own, device
  <2>2. BufferInv' /\ SlotInv' /\ PlayInv'
    BY <1>3 DEF IInv, TypeOK, BufferInv, SlotInv, PlayInv, Ended, Feed, coro, own, device
  <2>3. QueueInv'
    BY <1>3, QueueFrame DEF IInv, Ended, Feed, coro, own, device
  <2>4. DeviceInv' /\ RunInv'
    BY <1>3 DEF IInv, TypeOK, DeviceInv, RunInv, PlayInv, BufferInv, Ended, Segments, Feed, coro, own, device
  <2>5. JobInv'
    BY <1>3 DEF IInv, TypeOK, DeviceInv, JobInv, PlayInv, BufferInv, Ended, Segments, Feed, coro, own, device
  <2> QED
    BY <2>1, <2>2, <2>3, <2>4, <2>5 DEF IInv
<1>4. CASE StopFeeding
  <2>1. TypeOK'
    BY <1>4 DEF IInv, TypeOK, BufferInv, Ended, StopFeeding, text, coro, device
  <2>2. BufferInv' /\ SlotInv' /\ PlayInv'
    BY <1>4 DEF IInv, TypeOK, BufferInv, SlotInv, PlayInv, Ended, StopFeeding, text, coro, device
  <2>3. QueueInv'
    BY <1>4, QueueFrame DEF IInv, Ended, StopFeeding, text, coro, device
  <2>4. DeviceInv' /\ RunInv'
    BY <1>4 DEF IInv, TypeOK, DeviceInv, RunInv, PlayInv, BufferInv, Ended, Segments, StopFeeding, text, coro, device
  <2>5. JobInv'
    BY <1>4 DEF IInv, TypeOK, DeviceInv, JobInv, PlayInv, BufferInv, Ended, Segments, StopFeeding, text, coro, device
  <2> QED
    BY <2>1, <2>2, <2>3, <2>4, <2>5 DEF IInv
<1>5. CASE Finish
  <2>1. TypeOK'
    BY <1>5 DEF IInv, TypeOK, BufferInv, Ended, Finish, coro, device
  <2>2. BufferInv' /\ SlotInv' /\ PlayInv'
    BY <1>5 DEF IInv, TypeOK, BufferInv, SlotInv, PlayInv, Ended, Finish, coro, device
  <2>3. QueueInv'
    BY <1>5, QueueFrame DEF IInv, Ended, Finish, coro, device
  <2>4. DeviceInv' /\ RunInv'
    BY <1>5 DEF IInv, TypeOK, DeviceInv, RunInv, PlayInv, BufferInv, Ended, Segments, Finish, coro, device
  <2>5. JobInv'
    BY <1>5 DEF IInv, TypeOK, DeviceInv, JobInv, PlayInv, BufferInv, Ended, Segments, Finish, coro, device
  <2> QED
    BY <2>1, <2>2, <2>3, <2>4, <2>5 DEF IInv
<1>6. CASE FinishReturns
  <2>1. TypeOK'
    BY <1>6 DEF IInv, TypeOK, BufferInv, Ended, FinishReturns, text, coro, device
  <2>2. BufferInv' /\ SlotInv' /\ PlayInv'
    BY <1>6 DEF IInv, TypeOK, BufferInv, SlotInv, PlayInv, Ended, FinishReturns, text, coro, device
  <2>3. QueueInv'
    BY <1>6, QueueFrame DEF IInv, Ended, FinishReturns, text, coro, device
  <2>4. DeviceInv' /\ RunInv'
    BY <1>6 DEF IInv, TypeOK, DeviceInv, RunInv, PlayInv, BufferInv, Ended, Segments, FinishReturns, text, coro, device
  <2>5. JobInv'
    BY <1>6 DEF IInv, TypeOK, DeviceInv, JobInv, PlayInv, BufferInv, Ended, Segments, FinishReturns, text, coro, device
  <2> QED
    BY <2>1, <2>2, <2>3, <2>4, <2>5 DEF IInv
<1>7. CASE DispatchWakes
  <2>1. TypeOK'
    BY <1>7 DEF IInv, TypeOK, BufferInv, Ended, DispatchWakes, Scheduled, text, own, device
  <2>2. BufferInv' /\ SlotInv' /\ PlayInv'
    BY <1>7 DEF IInv, TypeOK, BufferInv, SlotInv, PlayInv, Ended, DispatchWakes, Scheduled, text, own, device
  <2>3. QueueInv'
    BY <1>7, QueueFrame DEF IInv, Ended, DispatchWakes, Scheduled, text, own, device
  <2>4. DeviceInv' /\ RunInv'
    BY <1>7 DEF IInv, TypeOK, DeviceInv, RunInv, PlayInv, BufferInv, Ended, Segments, DispatchWakes, Scheduled, text, own, device
  <2>5. JobInv'
    BY <1>7 DEF IInv, TypeOK, DeviceInv, JobInv, PlayInv, BufferInv, Ended, Segments, DispatchWakes, Scheduled, text, own, device
  <2> QED
    BY <2>1, <2>2, <2>3, <2>4, <2>5 DEF IInv
<1>8. CASE \E s \in Segments : JobEnds(s)
  <2>1. PICK s \in Segments : JobEnds(s)
    BY <1>8
  <2>a. /\ job' \in [Segments -> {"none", "running", "ok", "error", "cancelled"}]
        /\ failure' \in BOOLEAN
    BY <2>1 DEF IInv, TypeOK, JobEnds
  <2>b. TypeOK'
    BY <2>1, <2>a DEF IInv, TypeOK, JobEnds, text, coro, own, device
  <2>2. BufferInv' /\ SlotInv' /\ PlayInv'
    BY <1>8 DEF IInv, TypeOK, BufferInv, SlotInv, PlayInv, Ended, JobEnds, text, coro, own, device
  <2>3. QueueInv'
    BY <1>8, QueueFrame DEF IInv, Ended, JobEnds, text, coro, own, device
  <2>4. DeviceInv' /\ RunInv'
    BY <1>8 DEF IInv, TypeOK, DeviceInv, RunInv, PlayInv, BufferInv, Ended, Segments, JobEnds, text, coro, own, device
  <2>5. JobInv'
    BY <1>8 DEF IInv, TypeOK, DeviceInv, JobInv, PlayInv, BufferInv, Ended, Segments, JobEnds, text, coro, own, device
  <2> QED
    BY <2>b, <2>2, <2>3, <2>4, <2>5 DEF IInv
<1>9. CASE PlayBegins
  <2>1. TypeOK'
    BY <1>9 DEF IInv, TypeOK, BufferInv, Ended, PlayBegins, Scheduled, text, own, device
  <2>2. BufferInv' /\ SlotInv' /\ PlayInv'
    BY <1>9 DEF IInv, TypeOK, BufferInv, SlotInv, PlayInv, Ended, PlayBegins, Scheduled, text, own, device
  <2>3. QueueInv'
    BY <1>9, QueueFrame DEF IInv, Ended, PlayBegins, Scheduled, text, own, device
  <2>4. DeviceInv' /\ RunInv'
    BY <1>9 DEF IInv, TypeOK, DeviceInv, RunInv, PlayInv, BufferInv, Ended, Segments, PlayBegins, Scheduled, text, own, device
  <2>5. JobInv'
    BY <1>9 DEF IInv, TypeOK, DeviceInv, JobInv, PlayInv, BufferInv, Ended, Segments, PlayBegins, Scheduled, text, own, device
  <2> QED
    BY <2>1, <2>2, <2>3, <2>4, <2>5 DEF IInv
<1>10. CASE EmitStart
  <2>1. TypeOK'
    BY <1>10 DEF IInv, TypeOK, BufferInv, Ended, EmitStart, Scheduled, text, own
  <2>2. BufferInv' /\ SlotInv' /\ PlayInv'
    BY <1>10 DEF IInv, TypeOK, BufferInv, SlotInv, PlayInv, Ended, EmitStart, Scheduled, text, own
  <2>3. QueueInv'
    BY <1>10, QueueFrame DEF IInv, Ended, EmitStart, Scheduled, text, own
  <2>4. DeviceInv' /\ RunInv'
    BY <1>10 DEF IInv, TypeOK, DeviceInv, RunInv, PlayInv, BufferInv, Ended, Segments, EmitStart, Scheduled, text, own
  <2>5. JobInv'
    BY <1>10 DEF IInv, TypeOK, DeviceInv, JobInv, PlayInv, BufferInv, Ended, Segments, EmitStart, Scheduled, text, own
  <2> QED
    BY <2>1, <2>2, <2>3, <2>4, <2>5 DEF IInv
<1>11. CASE EmitSentence
  <2>1. TypeOK'
    BY <1>11 DEF IInv, PlayInv, TypeOK, BufferInv, Ended, EmitSentence, Scheduled, text, own
  <2>2. BufferInv' /\ SlotInv' /\ PlayInv'
    BY <1>11 DEF IInv, TypeOK, BufferInv, SlotInv, PlayInv, Ended, EmitSentence, Scheduled, text, own
  <2>3. QueueInv'
    BY <1>11, QueueFrame DEF IInv, Ended, EmitSentence, Scheduled, text, own
  <2>4. DeviceInv' /\ RunInv'
    BY <1>11 DEF IInv, TypeOK, DeviceInv, RunInv, PlayInv, BufferInv, Ended, Segments, EmitSentence, Scheduled, text, own
  <2>5. JobInv'
    BY <1>11 DEF IInv, TypeOK, DeviceInv, JobInv, PlayInv, BufferInv, Ended, Segments, EmitSentence, Scheduled, text, own
  <2> QED
    BY <2>1, <2>2, <2>3, <2>4, <2>5 DEF IInv
<1>12. CASE EmitStop
  <2>1. TypeOK'
    BY <1>12 DEF IInv, TypeOK, BufferInv, Ended, EmitStop, Scheduled, text, own
  <2>2. BufferInv' /\ SlotInv' /\ PlayInv'
    BY <1>12 DEF IInv, TypeOK, BufferInv, SlotInv, PlayInv, Ended, EmitStop, Scheduled, text, own
  <2>3. QueueInv'
    BY <1>12, QueueFrame DEF IInv, Ended, EmitStop, Scheduled, text, own
  <2>4. DeviceInv' /\ RunInv'
    BY <1>12 DEF IInv, TypeOK, DeviceInv, RunInv, PlayInv, BufferInv, Ended, Segments, EmitStop, Scheduled, text, own
  <2>5. JobInv'
    BY <1>12 DEF IInv, TypeOK, DeviceInv, JobInv, PlayInv, BufferInv, Ended, Segments, EmitStop, Scheduled, text, own
  <2> QED
    BY <2>1, <2>2, <2>3, <2>4, <2>5 DEF IInv
<1>13. CASE PlayReturns
  <2>1. TypeOK'
    <3>1. started' \in BOOLEAN
      BY <1>13, Zenon DEF PlayReturns
    <3> QED
      BY <1>13, <3>1 DEF IInv, TypeOK, PlayReturns, Ended, text, own, device
  <2>2. BufferInv' /\ SlotInv' /\ PlayInv'
    BY <1>13 DEF IInv, TypeOK, BufferInv, SlotInv, PlayInv, Ended, PlayReturns, Scheduled, text, own, device
  <2>3. QueueInv'
    BY <1>13, QueueFrame DEF IInv, Ended, PlayReturns, Scheduled, text, own, device
  <2>4. DeviceInv' /\ RunInv'
    BY <1>13 DEF IInv, TypeOK, DeviceInv, RunInv, PlayInv, BufferInv, Ended, Segments, PlayReturns, Scheduled, text, own, device
  <2>5. JobInv'
    BY <1>13 DEF IInv, TypeOK, DeviceInv, JobInv, PlayInv, BufferInv, Ended, Segments, PlayReturns, Scheduled, text, own, device
  <2> QED
    BY <2>1, <2>2, <2>3, <2>4, <2>5 DEF IInv
<1>14. CASE PlayRaises
  <2>1. TypeOK'
    BY <1>14 DEF IInv, TypeOK, BufferInv, Ended, PlayRaises, Scheduled, text, own, device
  <2>2. BufferInv' /\ SlotInv' /\ PlayInv'
    BY <1>14 DEF IInv, TypeOK, BufferInv, SlotInv, PlayInv, Ended, PlayRaises, Scheduled, text, own, device
  <2>3. QueueInv'
    BY <1>14, QueueFrame DEF IInv, Ended, PlayRaises, Scheduled, text, own, device
  <2>4. DeviceInv' /\ RunInv'
    BY <1>14 DEF IInv, TypeOK, DeviceInv, RunInv, PlayInv, BufferInv, Ended, Segments, PlayRaises, Scheduled, text, own, device
  <2>5. JobInv'
    BY <1>14 DEF IInv, TypeOK, DeviceInv, JobInv, PlayInv, BufferInv, Ended, Segments, PlayRaises, Scheduled, text, own, device
  <2> QED
    BY <2>1, <2>2, <2>3, <2>4, <2>5 DEF IInv
<1>15. CASE RunStarts
  <2>1. TypeOK'
    BY <1>15 DEF IInv, TypeOK, BufferInv, Ended, RunStarts, text, own, device
  <2>2. BufferInv' /\ SlotInv' /\ PlayInv'
    BY <1>15 DEF IInv, RunInv, TypeOK, BufferInv, SlotInv, PlayInv, Ended, RunStarts, text, own, device
  <2>3. QueueInv'
    BY <1>15, QueueFrame DEF IInv, RunInv, Ended, RunStarts, text, own, device
  <2>4. DeviceInv' /\ RunInv'
    BY <1>15 DEF IInv, TypeOK, DeviceInv, RunInv, PlayInv, BufferInv, Ended, Segments, RunStarts, text, own, device
  <2>5. JobInv'
    BY <1>15 DEF IInv, TypeOK, DeviceInv, JobInv, PlayInv, BufferInv, Ended, Segments, RunStarts, text, own, device
  <2> QED
    BY <2>1, <2>2, <2>3, <2>4, <2>5 DEF IInv
<1>16. CASE RunJoins
  <2>1. TypeOK'
    BY <1>16 DEF IInv, TypeOK, BufferInv, Ended, RunJoins, text, coro, own, device
  <2>2. BufferInv' /\ SlotInv' /\ PlayInv'
    BY <1>16 DEF IInv, TypeOK, BufferInv, SlotInv, PlayInv, Ended, RunJoins, text, coro, own, device
  <2>3. QueueInv'
    BY <1>16, QueueFrame DEF IInv, Ended, RunJoins, text, coro, own, device
  <2>4. DeviceInv' /\ RunInv'
    BY <1>16 DEF IInv, TypeOK, DeviceInv, RunInv, PlayInv, BufferInv, Ended, Segments, RunJoins, text, coro, own, device
  <2>5. JobInv'
    BY <1>16 DEF IInv, TypeOK, DeviceInv, JobInv, PlayInv, BufferInv, Ended, Segments, RunJoins, text, coro, own, device
  <2> QED
    BY <2>1, <2>2, <2>3, <2>4, <2>5 DEF IInv
<1>17. CASE RunSeesFailure
  <2>1. TypeOK'
    BY <1>17 DEF IInv, TypeOK, BufferInv, Ended, RunSeesFailure, RunFails, text, coro, own, device
  <2>2. BufferInv' /\ SlotInv' /\ PlayInv'
    BY <1>17 DEF IInv, TypeOK, BufferInv, SlotInv, PlayInv, Ended, RunSeesFailure, RunFails, text, coro, own, device
  <2>3. QueueInv'
    BY <1>17, QueueFrame DEF IInv, Ended, RunSeesFailure, RunFails, text, coro, own, device
  <2>4. DeviceInv' /\ RunInv'
    BY <1>17 DEF IInv, TypeOK, DeviceInv, RunInv, PlayInv, BufferInv, Ended, Segments, RunSeesFailure, RunFails, text, coro, own, device
  <2>5. JobInv'
    BY <1>17 DEF IInv, TypeOK, DeviceInv, JobInv, PlayInv, BufferInv, Ended, Segments, RunSeesFailure, RunFails, text, coro, own, device
  <2> QED
    BY <2>1, <2>2, <2>3, <2>4, <2>5 DEF IInv
<1>18. CASE RunTimesOut
  <2>1. TypeOK'
    BY <1>18 DEF IInv, TypeOK, BufferInv, Ended, RunTimesOut, RunFails, text, coro, own, device
  <2>2. BufferInv' /\ SlotInv' /\ PlayInv'
    BY <1>18 DEF IInv, TypeOK, BufferInv, SlotInv, PlayInv, Ended, RunTimesOut, RunFails, text, coro, own, device
  <2>3. QueueInv'
    BY <1>18, QueueFrame DEF IInv, Ended, RunTimesOut, RunFails, text, coro, own, device
  <2>4. DeviceInv' /\ RunInv'
    BY <1>18 DEF IInv, TypeOK, DeviceInv, RunInv, PlayInv, BufferInv, Ended, Segments, RunTimesOut, RunFails, text, coro, own, device
  <2>5. JobInv'
    BY <1>18 DEF IInv, TypeOK, DeviceInv, JobInv, PlayInv, BufferInv, Ended, Segments, RunTimesOut, RunFails, text, coro, own, device
  <2> QED
    BY <2>1, <2>2, <2>3, <2>4, <2>5 DEF IInv
<1>19. CASE DispatchCancelled
  <2>1. TypeOK'
    BY <1>19 DEF IInv, TypeOK, BufferInv, Ended, DispatchCancelled, text, own, device
  <2>2. BufferInv' /\ SlotInv' /\ PlayInv'
    BY <1>19 DEF IInv, TypeOK, BufferInv, SlotInv, PlayInv, Ended, DispatchCancelled, text, own, device
  <2>3. QueueInv'
    BY <1>19, QueueFrame DEF IInv, Ended, DispatchCancelled, text, own, device
  <2>4. DeviceInv' /\ RunInv'
    BY <1>19 DEF IInv, TypeOK, DeviceInv, RunInv, PlayInv, BufferInv, Ended, Segments, DispatchCancelled, text, own, device
  <2>5. JobInv'
    BY <1>19 DEF IInv, TypeOK, DeviceInv, JobInv, PlayInv, BufferInv, Ended, Segments, DispatchCancelled, text, own, device
  <2> QED
    BY <2>1, <2>2, <2>3, <2>4, <2>5 DEF IInv
<1>20. CASE PlayCancelled
  <2>1. TypeOK'
    BY <1>20 DEF IInv, TypeOK, BufferInv, Ended, PlayCancelled, text, own, device
  <2>2. BufferInv' /\ SlotInv' /\ PlayInv'
    BY <1>20 DEF IInv, TypeOK, BufferInv, SlotInv, PlayInv, Ended, PlayCancelled, text, own, device
  <2>3. QueueInv'
    BY <1>20, QueueFrame DEF IInv, Ended, PlayCancelled, text, own, device
  <2>4. DeviceInv' /\ RunInv'
    BY <1>20 DEF IInv, TypeOK, DeviceInv, RunInv, PlayInv, BufferInv, Ended, Segments, PlayCancelled, text, own, device
  <2>5. JobInv'
    BY <1>20 DEF IInv, TypeOK, DeviceInv, JobInv, PlayInv, BufferInv, Ended, Segments, PlayCancelled, text, own, device
  <2> QED
    BY <2>1, <2>2, <2>3, <2>4, <2>5 DEF IInv
<1>21. CASE RunEnds
  <2>1. TypeOK'
    BY <1>21 DEF IInv, TypeOK, BufferInv, Ended, RunEnds, text, coro, own, device
  <2>2. BufferInv' /\ SlotInv' /\ PlayInv'
    BY <1>21 DEF IInv, TypeOK, BufferInv, SlotInv, PlayInv, Ended, RunEnds, text, coro, own, device
  <2>3. QueueInv'
    BY <1>21, QueueFrame DEF IInv, Ended, RunEnds, text, coro, own, device
  <2>4. DeviceInv' /\ RunInv'
    BY <1>21 DEF IInv, TypeOK, DeviceInv, RunInv, PlayInv, BufferInv, Ended, Segments, RunEnds, text, coro, own, device
  <2>5. JobInv'
    BY <1>21 DEF IInv, TypeOK, DeviceInv, JobInv, PlayInv, BufferInv, Ended, Segments, RunEnds, text, coro, own, device
  <2> QED
    BY <2>1, <2>2, <2>3, <2>4, <2>5 DEF IInv
<1>22. CASE Fail
  <2>1. TypeOK'
    BY <1>22 DEF IInv, TypeOK, BufferInv, Ended, Fail, text, coro, own, device
  <2>2. BufferInv' /\ SlotInv' /\ PlayInv'
    BY <1>22 DEF IInv, TypeOK, BufferInv, SlotInv, PlayInv, Ended, Fail, text, coro, own, device
  <2>3. QueueInv'
    BY <1>22, QueueFrame DEF IInv, Ended, Fail, text, coro, own, device
  <2>4. DeviceInv' /\ RunInv'
    BY <1>22 DEF IInv, TypeOK, DeviceInv, RunInv, PlayInv, BufferInv, Ended, Segments, Fail, text, coro, own, device
  <2>5. JobInv'
    BY <1>22 DEF IInv, TypeOK, DeviceInv, JobInv, PlayInv, BufferInv, Ended, Segments, Fail, text, coro, own, device
  <2> QED
    BY <2>1, <2>2, <2>3, <2>4, <2>5 DEF IInv
<1>23. CASE FinishCancelled
  <2>1. TypeOK'
    BY <1>23 DEF IInv, TypeOK, BufferInv, Ended, FinishCancelled, CancelRun, text, coro, own, device
  <2>2. BufferInv' /\ SlotInv' /\ PlayInv'
    BY <1>23 DEF IInv, TypeOK, BufferInv, SlotInv, PlayInv, Ended, FinishCancelled, CancelRun, text, coro, own, device
  <2>3. QueueInv'
    BY <1>23, QueueFrame DEF IInv, Ended, FinishCancelled, CancelRun, text, coro, own, device
  <2>4. DeviceInv' /\ RunInv'
    BY <1>23 DEF IInv, TypeOK, DeviceInv, RunInv, PlayInv, BufferInv, Ended, Segments, FinishCancelled, CancelRun, text, coro, own, device
  <2>5. JobInv'
    BY <1>23 DEF IInv, TypeOK, DeviceInv, JobInv, PlayInv, BufferInv, Ended, Segments, FinishCancelled, CancelRun, text, coro, own, device
  <2> QED
    BY <2>1, <2>2, <2>3, <2>4, <2>5 DEF IInv
<1>24. CASE Close
  <2>1. TypeOK'
    BY <1>24 DEF IInv, TypeOK, BufferInv, Ended, Close, CancelRun, text, coro, device
  <2>2. BufferInv' /\ SlotInv' /\ PlayInv'
    BY <1>24 DEF IInv, TypeOK, BufferInv, SlotInv, PlayInv, Ended, Close, CancelRun, text, coro, device
  <2>3. QueueInv'
    BY <1>24, QueueFrame DEF IInv, Ended, Close, CancelRun, text, coro, device
  <2>4. DeviceInv' /\ RunInv'
    BY <1>24 DEF IInv, TypeOK, DeviceInv, RunInv, PlayInv, BufferInv, Ended, Segments, Close, CancelRun, text, coro, device
  <2>5. JobInv'
    BY <1>24 DEF IInv, TypeOK, DeviceInv, JobInv, PlayInv, BufferInv, Ended, Segments, Close, CancelRun, text, coro, device
  <2> QED
    BY <2>1, <2>2, <2>3, <2>4, <2>5 DEF IInv
<1>25. CASE CloseCancelled
  <2>1. TypeOK'
    <3>1. cut' \in BOOLEAN /\ owner' \in {"joining", "interrupted"}
      BY <1>25 DEF IInv, TypeOK, CloseCancelled
    <3> QED
      BY <1>25, <3>1 DEF IInv, TypeOK, CloseCancelled, text, coro, device
  <2>2. BufferInv' /\ SlotInv' /\ PlayInv'
    BY <1>25 DEF IInv, TypeOK, BufferInv, SlotInv, PlayInv, Ended, CloseCancelled, text, coro, device
  <2>3. QueueInv'
    BY <1>25, QueueFrame DEF IInv, Ended, CloseCancelled, text, coro, device
  <2>4. DeviceInv' /\ RunInv'
    BY <1>25 DEF IInv, TypeOK, DeviceInv, RunInv, PlayInv, BufferInv, Ended, Segments, CloseCancelled, text, coro, device
  <2>5. JobInv'
    BY <1>25 DEF IInv, TypeOK, DeviceInv, JobInv, PlayInv, BufferInv, Ended, Segments, CloseCancelled, text, coro, device
  <2> QED
    BY <2>1, <2>2, <2>3, <2>4, <2>5 DEF IInv
<1>26. CASE CloseJoins
  <2>1. TypeOK'
    BY <1>26 DEF IInv, TypeOK, BufferInv, Ended, CloseJoins, text, coro, device
  <2>2. BufferInv' /\ SlotInv' /\ PlayInv'
    BY <1>26 DEF IInv, TypeOK, BufferInv, SlotInv, PlayInv, Ended, CloseJoins, text, coro, device
  <2>3. QueueInv'
    BY <1>26, QueueFrame DEF IInv, Ended, CloseJoins, text, coro, device
  <2>4. DeviceInv' /\ RunInv'
    BY <1>26 DEF IInv, TypeOK, DeviceInv, RunInv, PlayInv, BufferInv, Ended, Segments, CloseJoins, text, coro, device
  <2>5. JobInv'
    BY <1>26 DEF IInv, TypeOK, DeviceInv, JobInv, PlayInv, BufferInv, Ended, Segments, CloseJoins, text, coro, device
  <2> QED
    BY <2>1, <2>2, <2>3, <2>4, <2>5 DEF IInv
<1>27. CASE CloseReturns
  <2>1. TypeOK'
    <3>1. listed' \in BOOLEAN
      BY <1>27, Zenon DEF CloseReturns
    <3> QED
      BY <1>27, <3>1 DEF IInv, TypeOK, CloseReturns, text, coro, device
  <2>2. BufferInv' /\ SlotInv' /\ PlayInv'
    BY <1>27 DEF IInv, TypeOK, BufferInv, SlotInv, PlayInv, Ended, CloseReturns, text, coro, device
  <2>3. QueueInv'
    BY <1>27, QueueFrame DEF IInv, Ended, CloseReturns, text, coro, device
  <2>4. DeviceInv' /\ RunInv'
    BY <1>27 DEF IInv, TypeOK, DeviceInv, RunInv, PlayInv, BufferInv, Ended, Segments, CloseReturns, text, coro, device
  <2>5. JobInv'
    BY <1>27 DEF IInv, TypeOK, DeviceInv, JobInv, PlayInv, BufferInv, Ended, Segments, CloseReturns, text, coro, device
  <2> QED
    BY <2>1, <2>2, <2>3, <2>4, <2>5 DEF IInv
<1>28. CASE UNCHANGED vars
  <2>1. TypeOK'
    BY <1>28 DEF IInv, TypeOK, BufferInv, Ended, vars, text, coro, own, device
  <2>2. BufferInv' /\ SlotInv' /\ PlayInv'
    BY <1>28 DEF IInv, TypeOK, BufferInv, SlotInv, PlayInv, Ended, vars, text, coro, own, device
  <2>3. QueueInv'
    BY <1>28, QueueFrame DEF IInv, Ended, vars, text, coro, own, device
  <2>4. DeviceInv' /\ RunInv'
    BY <1>28 DEF IInv, TypeOK, DeviceInv, RunInv, PlayInv, BufferInv, Ended, Segments, vars, text, coro, own, device
  <2>5. JobInv'
    BY <1>28 DEF IInv, TypeOK, DeviceInv, JobInv, PlayInv, BufferInv, Ended, Segments, vars, text, coro, own, device
  <2> QED
    BY <2>1, <2>2, <2>3, <2>4, <2>5 DEF IInv
<1>29. CASE SendPackets
  <2>1. TypeOK'
    BY <1>29 DEF IInv, TypeOK, BufferInv, SlotInv, PlayInv, Ended, SendPackets, Scheduled, text, own
  <2>2. BufferInv' /\ SlotInv' /\ PlayInv'
    <3>1. /\ playing = heard + 1 /\ playing <= popped
          /\ dispatch = "failed" => playing < popped
      BY <1>29 DEF IInv, PlayInv, SendPackets
    <3>2. BufferInv'
      BY <1>29, <3>1 DEF IInv, TypeOK, BufferInv, SendPackets, text, own
    <3>3. SlotInv'
      BY <1>29, <3>1 DEF IInv, TypeOK, BufferInv, SlotInv, SendPackets, text
    <3>4. PlayInv'
      BY <1>29, <3>1 DEF IInv, TypeOK, PlayInv, SendPackets
    <3> QED
      BY <3>2, <3>3, <3>4
  <2>3. QueueInv'
    BY <1>29 DEF IInv, TypeOK, QueueInv, PlayInv, Position, Handed, Segments, Ended, SendPackets, Scheduled, text, own
  <2>4. DeviceInv' /\ RunInv'
    BY <1>29 DEF IInv, TypeOK, DeviceInv, RunInv, PlayInv, BufferInv, Ended, Segments, SendPackets, Scheduled, text, own
  <2>5. JobInv'
    BY <1>29 DEF IInv, TypeOK, DeviceInv, JobInv, PlayInv, BufferInv, Ended, Segments, SendPackets, Scheduled, text, own
  <2> QED
    BY <2>1, <2>2, <2>3, <2>4, <2>5 DEF IInv
<1>30. CASE DispatchTooMany
  <2>1. /\ popped' = popped + 1 /\ slots' = slots - 1 /\ slots' \in 0 .. MaxLookahead
        /\ ready' \in 0 .. TextBound + 1 /\ popped' \in 0 .. TextBound + 1
    BY <1>30 DEF IInv, TypeOK, BufferInv, DispatchTooMany, Pops
  <2>2. /\ rest' \in BOOLEAN /\ changed' \in BOOLEAN
        /\ dispatch' = "failed" /\ dispatch = "acquire"
    <3>1. rest' = FALSE \/ rest' = rest
      BY <1>30, Zenon DEF DispatchTooMany, Pops
    <3>2. rest' \in BOOLEAN
      BY <3>1, Zenon DEF IInv, TypeOK
    <3>3. changed' \in BOOLEAN
      BY <1>30, Zenon DEF DispatchTooMany
    <3> QED
      BY <1>30, <3>2, <3>3 DEF DispatchTooMany
  <2>3. TypeOK'
    BY <1>30, <2>1, <2>2 DEF IInv, TypeOK, Ended, DispatchTooMany, own, device
  <2>4. BufferInv'
    BY <1>30 DEF IInv, TypeOK, BufferInv, DispatchTooMany, Pops, own, device
  <2>5. SlotInv' /\ PlayInv'
    BY <1>30, <2>1, <2>2 DEF IInv, TypeOK, BufferInv, SlotInv, PlayInv, DispatchTooMany, device
  <2>6. QueueInv'
    BY <1>30, <2>1, <2>2 DEF IInv, TypeOK, QueueInv, Position, Handed, DispatchTooMany, device
  <2>7. DeviceInv' /\ RunInv'
    BY <1>30, <2>1, <2>2 DEF IInv, TypeOK, DeviceInv, RunInv, Ended, Scheduled, DispatchTooMany, own, device
  <2>8. JobInv'
    BY <1>30 DEF IInv, JobInv, DispatchTooMany, device
  <2> QED
    BY <2>3, <2>4, <2>5, <2>6, <2>7, <2>8 DEF IInv
<1>31. CASE DispatchEmpty
  <2>1. popped' = popped /\ ready' = ready /\ popped = ready
    BY <1>31 DEF IInv, TypeOK, DispatchEmpty, Pops
  <2>2. rest' \in BOOLEAN /\ (finished => ~rest') /\ changed' \in BOOLEAN
    <3>1. rest' = FALSE \/ (rest' = rest /\ ~(finished /\ rest))
      BY <1>31, Zenon DEF DispatchEmpty, Pops
    <3>2. rest' \in BOOLEAN
      BY <3>1, Zenon DEF IInv, TypeOK
    <3>3. changed' \in BOOLEAN
      BY <1>31, Zenon DEF DispatchEmpty
    <3>4. finished => ~rest'
      BY <3>1
    <3> QED
      BY <3>2, <3>3, <3>4
  <2>3. ~finished => rest' = rest
    BY <1>31 DEF DispatchEmpty, Pops
  <2>4. /\ finished' = finished /\ slots' = slots /\ job' = job
        /\ failure' = failure /\ play' = play /\ playing' = playing /\ run' = run
        /\ run = "wait" /\ outcome' = outcome /\ owner' = owner /\ cut' = cut
        /\ executor' = executor /\ listed' = listed /\ started' = started
        /\ speaker' = speaker /\ shown' = shown /\ heard' = heard
        /\ dispatch = "acquire" /\ slots > 0
    BY <1>31 DEF DispatchEmpty, Scheduled, own, device
  <2>5. BufferInv'
    BY <2>1, <2>2, <2>3, <2>4 DEF IInv, TypeOK, BufferInv
  <2>6. DeviceInv' /\ JobInv'
    BY <2>1, <2>4 DEF IInv, DeviceInv, JobInv
  <2>7. \A i \in 1 .. Len(queue) : queue[i] # End
    BY <2>4 DEF IInv, QueueInv
  <2>8. Len(queue) \in Nat
    BY DEF IInv, TypeOK
  <2>9. Position' = Position /\ Position + Len(queue) = popped
    <3>1. Position + Len(queue) = Handed
      BY <2>7, <2>8 DEF IInv, QueueInv
    <3> QED
      BY <2>4, <3>1 DEF Position, Handed
  <2>10. CASE finished
    <3>1. dispatch' = "done" /\ queue' = Append(queue, End)
      BY <1>31, <2>10 DEF DispatchEmpty
    <3>2. /\ queue' \in Seq(Segments \cup {End}) /\ Len(queue') = Len(queue) + 1
          /\ \A i \in 1 .. Len(queue) : queue'[i] = queue[i]
          /\ queue'[Len(queue) + 1] = End
      <4>1. queue \in Seq(Segments \cup {End}) /\ End \in Segments \cup {End}
        BY DEF IInv, TypeOK
      <4> QED
        BY <3>1, <4>1, AppendFacts
    <3>3. TypeOK'
      BY <2>1, <2>2, <2>4, <3>1, <3>2 DEF IInv, TypeOK, Ended
    <3>4. ASSUME NEW i \in 1 .. Len(queue')
          PROVE  /\ queue'[i] = End \/ queue'[i] = Position' + i
                 /\ queue'[i] = End => i = Len(queue') /\ dispatch' = "done"
      <4>1. CASE i \in 1 .. Len(queue)
        BY <2>7, <2>9, <3>2, <4>1 DEF IInv, QueueInv
      <4>2. CASE i = Len(queue) + 1
        BY <3>1, <3>2, <4>2
      <4> QED
        BY <2>8, <3>2, <4>1, <4>2
    <3>5. QueueInv'
      <4>1. /\ Len(queue') > 0 /\ queue'[Len(queue')] = End
            /\ Position' + Len(queue') = popped' + 1
        <5>1. Position \in Int
          BY DEF IInv, TypeOK, Position, Segments
        <5> QED
          BY <2>1, <2>8, <2>9, <3>2, <5>1
      <4> QED
        BY <3>4, <4>1 DEF QueueInv
    <3>6. SlotInv' /\ PlayInv' /\ RunInv'
      BY <2>1, <2>2, <2>4, <2>10, <3>1 DEF IInv, TypeOK, SlotInv, PlayInv, RunInv
    <3> QED
      BY <2>5, <2>6, <3>3, <3>5, <3>6 DEF IInv
  <2>11. CASE ~finished
    <3>1. dispatch' = "wait" /\ queue' = queue
      BY <1>31, <2>11 DEF DispatchEmpty
    <3>2. TypeOK'
      BY <2>1, <2>2, <2>4, <3>1 DEF IInv, TypeOK, Ended
    <3>3. QueueInv'
      BY <2>1, <2>4, <3>1, QueueFrame DEF IInv
    <3>4. SlotInv' /\ PlayInv' /\ RunInv'
      BY <2>1, <2>4, <3>1 DEF IInv, TypeOK, SlotInv, PlayInv, RunInv
    <3> QED
      BY <2>5, <2>6, <3>2, <3>3, <3>4 DEF IInv
  <2> QED
    BY <2>10, <2>11
<1> QED
  BY <1>1, <1>2, <1>3, <1>4, <1>5, <1>6, <1>7, <1>8, <1>9, <1>10, <1>11, <1>12, <1>13, <1>14, <1>15, <1>16, <1>17, <1>18, <1>19, <1>20, <1>21, <1>22, <1>23, <1>24, <1>25, <1>26, <1>27, <1>28, <1>29, <1>30, <1>31
     DEF Next, OwnerStep, Dispatch, PlayStep, RunStep

THEOREM Invariance == Spec => []IInv
<1>1. Init => IInv
  BY InitInv
<1>2. IInv /\ [Next]_vars => IInv'
  BY StepInv
<1> QED
  BY <1>1, <1>2, PTL DEF Spec

\* TypeOK of every reachable state, for every lookahead and text length.
THEOREM TypeCorrect == Spec => []TypeOK
<1>1. IInv => TypeOK
  BY DEF IInv
<1> QED
  BY <1>1, Invariance, PTL

\* The semaphore and the queue agree with the playback position, and
\* queue.put never finds the queue full.
THEOREM LookaheadHolds == Spec => []Lookahead
<1>1. ASSUME IInv PROVE Lookahead
  <2> USE <1>1, LookaheadAssumption, SegmentAssumption
  <2>1. slots + (popped - heard) = MaxLookahead
    BY DEF IInv, SlotInv
  <2>2. Len(queue) \in Nat /\ slots \in Nat /\ popped \in Nat /\ heard \in Nat
    BY DEF IInv, TypeOK
  <2>3. Position \in Nat /\ Position >= heard
    BY <2>2 DEF IInv, TypeOK, PlayInv, Position, Segments
  <2>4. CASE Len(queue) > 0 /\ queue[Len(queue)] = End
    <3>1. Len(queue) \in 1 .. Len(queue)
      BY <2>2, <2>4
    <3>2. dispatch = "done" /\ slots > 0
      BY <2>4, <3>1 DEF IInv, QueueInv, SlotInv
    <3>3. Position + Len(queue) = popped + 1
      BY <2>4 DEF IInv, QueueInv
    <3> QED
      BY <2>1, <2>2, <2>3, <3>2, <3>3 DEF Lookahead
  <2>5. CASE ~(Len(queue) > 0 /\ queue[Len(queue)] = End)
    <3>1. Position + Len(queue) = Handed /\ Handed <= popped
      BY <2>2, <2>5 DEF IInv, QueueInv, Handed
    <3> QED
      BY <2>1, <2>2, <2>3, <3>1 DEF Lookahead, Handed
  <2> QED
    BY <2>4, <2>5
<1> QED
  BY <1>1, Invariance, PTL

\* play() always takes the segment behind the one it played last.
THEOREM OrderHolds == Spec => []QueueInOrder
<1>1. IInv => QueueInOrder
  BY DEF IInv, TypeOK, QueueInv, SlotInv, QueueInOrder, Position
<1> QED
  BY <1>1, Invariance, PTL

\* A turn that reports success has had its whole text heard.
THEOREM SuccessHolds == Spec => []SuccessMeansHeard
<1>1. ASSUME IInv PROVE SuccessMeansHeard
  <2> SUFFICES ASSUME outcome = "ok" PROVE SuccessMeansHeard
    BY DEF SuccessMeansHeard
  <2>1. dispatch = "done" /\ play = "done"
    BY <1>1 DEF IInv, RunInv
  <2>2. finished /\ ~rest /\ popped = ready
    BY <1>1, <2>1 DEF IInv, SlotInv
  <2>3. playing = 0 /\ Len(queue) = 0
    BY <1>1, <2>1 DEF IInv, PlayInv
  <2>4. heard = popped
    BY <1>1, <2>1, <2>3 DEF IInv, TypeOK, QueueInv, Position, Handed
  <2>5. speaker = IF heard = 0 THEN "idle" ELSE "stop"
    BY <1>1, <2>1 DEF IInv, DeviceInv
  <2> QED
    BY <2>2, <2>4, <2>5 DEF SuccessMeansHeard
<1> QED
  BY <1>1, Invariance, PTL

\* Nothing run() started is alive when it, or its owner, has ended.
THEOREM NothingSurvivesHolds == Spec => []NothingSurvives
<1>1. IInv => NothingSurvives
  BY DEF IInv, RunInv, NothingSurvives
<1> QED
  BY <1>1, Invariance, PTL

\* Nothing at or behind a failed segment is announced.
THEOREM FailureHolds == Spec => []NothingBeyondFailure
<1>1. ASSUME IInv PROVE NothingBeyondFailure
  <2> SUFFICES ASSUME NEW s \in Segments, job[s] \in {"error", "cancelled"}
               PROVE  shown < s
    BY DEF NothingBeyondFailure
  <2>1. ~(s <= shown)
    BY <1>1 DEF IInv, JobInv
  <2> QED
    BY <1>1, <2>1, SegmentAssumption DEF IInv, TypeOK, Segments
<1> QED
  BY <1>1, Invariance, PTL

\* An action that leaves the text and what the device was sent alone.
LEMMA DeviceStutter ==
    ASSUME UNCHANGED <<ready, rest, finished, speaker, shown, heard>>
    PROVE  UNCHANGED Device!vars
BY DEF Device!vars

\* Every step of the turn is a step of the promise made to the device.
LEMMA DeviceStep ==
    ASSUME IInv, IInv', [Next]_vars
    PROVE  [Device!Next]_(Device!vars)
<1> USE LookaheadAssumption, SegmentAssumption
<1>1. CASE Feed
  <2>1. /\ ~finished /\ finished' = finished
        /\ ready' \in Nat /\ ready' >= ready
        /\ UNCHANGED <<speaker, shown, heard>>
    BY <1>1 DEF IInv, TypeOK, BufferInv, Feed, device
  <2>2. (finished' /\ ~rest') \in BOOLEAN /\ ~(finished /\ ~rest)
    BY <2>1
  <2> QED
    BY <2>1, <2>2 DEF Device!Next, Device!Read
<1>2. CASE Finish
  <2>1. ~finished /\ ready' = ready /\ ready \in Nat /\ UNCHANGED <<speaker, shown, heard>>
    BY <1>2 DEF IInv, TypeOK, BufferInv, Finish, device
  <2>2. (finished' /\ ~rest') \in BOOLEAN /\ ~(finished /\ ~rest)
    BY <2>1
  <2> QED
    BY <2>1, <2>2 DEF Device!Next, Device!Read
<1>3. ASSUME \E b \in BOOLEAN : Pops(b), finished' = finished, UNCHANGED device
      PROVE  [Device!Next]_(Device!vars)
  <2>1. UNCHANGED <<speaker, shown, heard>>
    BY <1>3 DEF device
  <2>2. CASE UNCHANGED <<ready, rest>>
    BY <1>3, <2>1, <2>2, DeviceStutter
  <2>3. CASE finished /\ rest /\ ready' \in {ready, ready + 1}
    <3>1. (finished' /\ ~rest') \in BOOLEAN /\ ~(finished /\ ~rest)
      BY <2>3
    <3>2. ready' \in Nat /\ ready' >= ready
      BY <2>3 DEF IInv, TypeOK
    <3> QED
      BY <2>1, <3>1, <3>2 DEF Device!Next, Device!Read
  <2> QED
    BY <1>3, <2>2, <2>3 DEF Pops
<1>4. CASE DispatchSegment \/ DispatchTooMany \/ DispatchEmpty
  BY <1>3, <1>4 DEF DispatchSegment, DispatchTooMany, DispatchEmpty
<1>5. CASE EmitStart
  <2>1. speaker = "idle" /\ speaker' = "start" /\ UNCHANGED <<ready, rest, finished, shown, heard>>
    BY <1>5 DEF IInv, DeviceInv, EmitStart, text
  <2>2. ready > 0
    BY <1>5 DEF IInv, TypeOK, BufferInv, PlayInv, EmitStart
  <2> QED
    BY <2>1, <2>2 DEF Device!Next, Device!StartSpeaking
<1>6. CASE EmitSentence
  <2>1. /\ speaker = "start" /\ shown = heard /\ shown' = shown + 1
        /\ UNCHANGED <<ready, rest, finished, speaker, heard>>
    BY <1>6 DEF IInv, DeviceInv, PlayInv, EmitSentence, text
  <2>2. shown < ready
    BY <1>6, <2>1 DEF IInv, TypeOK, BufferInv, PlayInv, EmitSentence
  <2> QED
    BY <2>1, <2>2 DEF Device!Next, Device!Announce
<1>7. CASE SendPackets
  <2>1. /\ speaker = "start" /\ heard < shown /\ heard' = shown
        /\ UNCHANGED <<ready, rest, finished, speaker, shown>>
    BY <1>7 DEF IInv, TypeOK, DeviceInv, PlayInv, SendPackets, text
  <2> QED
    BY <2>1 DEF Device!Next, Device!Hear
<1>8. CASE EmitStop
  <2>1. /\ speaker = "start" /\ speaker' = "stop"
        /\ UNCHANGED <<ready, rest, finished, shown, heard>>
    BY <1>8 DEF IInv, DeviceInv, EmitStop, text
  <2>2. dispatch = "done" /\ Len(queue) = 0 /\ playing = 0
    BY <1>8 DEF IInv, PlayInv, EmitStop
  <2>3. heard = popped /\ popped = ready /\ finished /\ ~rest
    BY <2>2 DEF IInv, TypeOK, SlotInv, QueueInv, Position, Handed
  <2> QED
    BY <2>1, <2>3 DEF Device!Next, Device!StopSpeaking
<1>9. CASE \/ StopFeeding \/ FinishReturns \/ DispatchWakes
           \/ PlayTakes \/ PlayBegins \/ PlayReturns \/ PlayRaises
  BY <1>9, DeviceStutter
     DEF StopFeeding, FinishReturns, DispatchWakes, PlayTakes, PlayBegins,
         PlayReturns, PlayRaises, text, device
<1>10. CASE \/ RunStarts \/ RunJoins \/ RunSeesFailure \/ RunTimesOut
            \/ DispatchCancelled \/ PlayCancelled \/ RunEnds \/ Fail
            \/ \E s \in Segments : JobEnds(s)
  BY <1>10, DeviceStutter
     DEF RunStarts, RunJoins, RunSeesFailure, RunTimesOut, RunFails,
         DispatchCancelled, PlayCancelled, RunEnds, Fail, JobEnds, text, device
<1>11. CASE \/ FinishCancelled \/ Close \/ CloseCancelled \/ CloseJoins
            \/ CloseReturns
  BY <1>11, DeviceStutter
     DEF FinishCancelled, Close, CloseCancelled, CloseJoins, CloseReturns, text, device
<1>12. CASE UNCHANGED vars
  BY <1>12, DeviceStutter DEF vars
<1> QED
  BY <1>1, <1>2, <1>4, <1>5, <1>6, <1>7, <1>8, <1>9, <1>10, <1>11, <1>12
     DEF Next, OwnerStep, Dispatch, PlayStep, RunStep

\* The four together: what holds of every turn, however it ends.
THEOREM TurnSafeHolds == Spec => []TurnSafe
<1>1. TurnSafe <=> Lookahead /\ SuccessMeansHeard /\ NothingSurvives /\ NothingBeyondFailure
  BY DEF TurnSafe
<1> QED
  BY <1>1, LookaheadHolds, SuccessHolds, NothingSurvivesHolds, FailureHolds, PTL

\* The turn implements OrderedPlayback: whatever the workers do, segments are
\* announced and heard one after another and the answer ends once.
THEOREM ImplementsOrderedPlayback == Spec => DeviceSpec
<1>1. Init => Device!Init
  BY DEF Init, Device!Init
<1>2. IInv /\ IInv' /\ [Next]_vars => [Device!Next]_(Device!vars)
  BY DeviceStep
<1> QED
  BY <1>1, <1>2, Invariance, PTL DEF Spec, DeviceSpec, Device!Spec

=============================================================================
