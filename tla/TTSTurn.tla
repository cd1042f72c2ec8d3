------------------------------ MODULE TTSTurn ------------------------------
(***************************************************************************)
(* One spoken answer on the transport core: SegmentBuffer splits the text  *)
(* the LLM streams, dispatch() starts at most MAX_LOOKAHEAD synthesis jobs *)
(* ahead of playback, play() sends the results in text order, run() joins  *)
(* both and owns every failure, and the voice turn feeds, finishes and     *)
(* closes the whole.  Code between two suspension points of the event loop *)
(* is one action.                                                          *)
(***************************************************************************)
EXTENDS Integers, Sequences

CONSTANTS
    MaxLookahead,   \* MAX_LOOKAHEAD: slots of the semaphore and of the queue
    MaxSegments,    \* wire.MAX_SEGMENTS: segments one turn may have
    TextBound       \* bound on the segments the language model produces

ASSUME LookaheadAssumption == MaxLookahead \in Nat \ {0}
ASSUME SegmentAssumption == MaxSegments \in Nat /\ TextBound \in Nat

\* The flushed remainder of the text may be one segment more.
Segments == 1 .. (TextBound + 1)

\* The end marker dispatch() puts into the queue (Python's None).
End == 0

VARIABLES
    ready,     \* segments the splitter has found in the text fed so far
    rest,      \* TRUE when unsplit text is left behind the last boundary
    finished,  \* buffer.finished
    popped,    \* segments dispatch() has taken out of the buffer
    changed,   \* the asyncio.Event
    slots,     \* value of the semaphore
    queue,     \* queue of jobs (by segment number) and End
    job,       \* state of the synthesis task of each segment
    failure,   \* TRUE once the failure future has a result
    dispatch,  \* where dispatch() is suspended
    play,      \* where play() is suspended
    playing,   \* the segment play() works on, 0 when none
    run,       \* where run() is suspended
    outcome,   \* how run() ends
    owner,     \* where the voice turn that owns this TTSTurn is
    cut,       \* TRUE when close() itself was cancelled while joining
    started,   \* playback.started
    executor,  \* the playback's encoder thread pool
    listed,    \* TRUE while this turn is in rpc.streams
    speaker, shown, heard   \* what the device has been sent, see OrderedPlayback

text   == <<ready, rest, finished>>
coro   == <<dispatch, play, playing>>
device == <<speaker, shown, heard>>
own    == <<owner, cut, executor, listed>>
vars   == <<ready, rest, finished, popped, changed, slots, queue, job, failure,
            dispatch, play, playing, run, outcome, owner, cut, started,
            executor, listed, speaker, shown, heard>>

Ended == {"done", "failed", "cancelled"}

\* Jobs, slots and queue are those the code can store: never more jobs in the
\* queue than it has places.
TypeOK ==
    /\ ready \in 0 .. TextBound + 1 /\ popped \in 0 .. TextBound + 1
    /\ rest \in BOOLEAN /\ finished \in BOOLEAN /\ changed \in BOOLEAN
    /\ failure \in BOOLEAN /\ cut \in BOOLEAN
    /\ started \in BOOLEAN /\ listed \in BOOLEAN
    /\ slots \in 0 .. MaxLookahead
    /\ queue \in Seq(Segments \cup {End})
    /\ job \in [Segments -> {"none", "running", "ok", "error", "cancelled"}]
    /\ dispatch \in {"new", "acquire", "wait"} \cup Ended
    /\ play \in {"new", "get", "await", "start", "sentence", "packets",
                 "final", "stopped"} \cup Ended
    /\ playing \in Segments \cup {0}
    /\ run \in {"new", "wait", "cleanup", "done"}
    /\ outcome \in {"none", "ok", "failed", "cancelled"}
    /\ owner \in {"feeding", "finishing", "finished", "raised", "joining",
                  "shutdown", "closed", "interrupted"}
    /\ executor \in {"up", "down"}
    /\ speaker \in {"idle", "start", "stop"}
    /\ shown \in 0 .. TextBound + 1 /\ heard \in 0 .. TextBound + 1

Init ==
    /\ ready = 0 /\ rest = FALSE /\ finished = FALSE /\ popped = 0
    /\ changed = FALSE /\ slots = MaxLookahead /\ queue = <<>>
    /\ job = [s \in Segments |-> "none"]
    /\ failure = FALSE
    /\ dispatch = "new" /\ play = "new" /\ playing = 0
    /\ run = "new" /\ outcome = "none"
    /\ owner = "feeding" /\ cut = FALSE
    /\ started = FALSE /\ executor = "up" /\ listed = TRUE
    /\ speaker = "idle" /\ shown = 0 /\ heard = 0

-----------------------------------------------------------------------------
(* The voice turn: feed(), wait_llm(), finish().                           *)

\* A chunk of text completes n segments and may leave a remainder.
Feed == /\ owner = "feeding" /\ ~failure
        /\ \E n \in 0 .. 2 : ready + n <= TextBound /\ ready' = ready + n
        /\ rest' \in BOOLEAN
        /\ changed' = TRUE
        /\ UNCHANGED <<finished, popped, slots, queue, job, failure, coro, run,
                       outcome, own, started, device>>

\* wait_llm() and feed() raise as soon as the turn has failed; the voice turn
\* may also be cancelled while it streams text.
StopFeeding == /\ owner = "feeding" /\ owner' = "raised"
               /\ UNCHANGED <<text, popped, changed, slots, queue, job, failure,
                              coro, run, outcome, cut, executor, listed, started,
                              device>>

\* Variant: finish() forgets to set the event.
FinishSilent ==
    /\ owner = "feeding"
    /\ finished' = TRUE /\ owner' = "finishing"
    /\ UNCHANGED <<ready, rest, popped, changed, slots, queue, job, failure, coro,
                   run, outcome, cut, executor, listed, started, device>>

Finish == /\ owner = "feeding"
          /\ finished' = TRUE /\ changed' = TRUE /\ owner' = "finishing"
          /\ UNCHANGED <<ready, rest, popped, slots, queue, job, failure, coro,
                         run, outcome, cut, executor, listed, started, device>>

\* await self.task in finish() returns or raises what run() ended with.
FinishReturns == /\ owner = "finishing" /\ run = "done"
                 /\ owner' = IF outcome = "ok" THEN "finished" ELSE "raised"
                 /\ UNCHANGED <<text, popped, changed, slots, queue, job,
                                failure, coro, run, outcome, cut, executor,
                                listed, started, device>>

-----------------------------------------------------------------------------
(* dispatch().                                                             *)

\* SegmentBuffer.pop(): the next split segment, or, once the text is
\* complete, what its remainder cleans to (possibly nothing).
Pops(hasSegment) ==
    \/ /\ popped < ready /\ hasSegment
       /\ popped' = popped + 1 /\ UNCHANGED <<ready, rest>>
    \/ /\ popped = ready /\ finished /\ rest /\ rest' = FALSE
       /\ IF hasSegment THEN ready' = ready + 1 /\ popped' = popped + 1
                        ELSE UNCHANGED <<ready, popped>>
    \/ /\ popped = ready /\ ~(finished /\ rest) /\ ~hasSegment
       /\ UNCHANGED <<ready, rest, popped>>

\* run() has started its two coroutines and not cancelled them.
Scheduled == run = "wait"

\* slots.acquire(), changed.clear(), buffer.pop(), create_task, queue.put.
DispatchSegment ==
    /\ Scheduled
    /\ dispatch = "acquire" /\ slots > 0 /\ popped < MaxSegments
    /\ Pops(TRUE)
    /\ slots' = slots - 1 /\ changed' = FALSE
    /\ job' = [job EXCEPT ![popped'] = "running"]
    /\ queue' = Append(queue, popped')
    /\ UNCHANGED <<finished, failure, coro, run, outcome, own, started, device>>

DispatchTooMany ==
    /\ Scheduled
    /\ dispatch = "acquire" /\ slots > 0 /\ popped >= MaxSegments
    /\ Pops(TRUE)
    /\ slots' = slots - 1 /\ changed' = FALSE /\ dispatch' = "failed"
    /\ UNCHANGED <<finished, queue, job, failure, play, playing, run, outcome,
                   own, started, device>>

\* Variant: an empty buffer is taken for the end of the text.
DispatchEmptyEnds ==
    /\ Scheduled
    /\ dispatch = "acquire" /\ slots > 0
    /\ Pops(FALSE)
    /\ changed' = FALSE
    /\ IF popped > 0 THEN dispatch' = "done" /\ queue' = Append(queue, End)
                     ELSE dispatch' = "wait" /\ UNCHANGED queue
    /\ UNCHANGED <<finished, slots, job, failure, play, playing, run, outcome,
                   own, started, device>>

\* Nothing to take: the slot goes back, and dispatch() ends or waits.
DispatchEmpty ==
    /\ Scheduled
    /\ dispatch = "acquire" /\ slots > 0
    /\ Pops(FALSE)
    /\ changed' = FALSE
    /\ IF finished THEN dispatch' = "done" /\ queue' = Append(queue, End)
                   ELSE dispatch' = "wait" /\ UNCHANGED queue
    /\ UNCHANGED <<finished, slots, job, failure, play, playing, run, outcome,
                   own, started, device>>

DispatchWakes ==
    /\ Scheduled
    /\ dispatch = "wait" /\ changed /\ dispatch' = "acquire"
    /\ UNCHANGED <<text, popped, changed, slots, queue, job, failure, play,
                   playing, run, outcome, own, started, device>>

Dispatch == DispatchSegment \/ DispatchTooMany \/ DispatchEmpty \/ DispatchWakes

-----------------------------------------------------------------------------
(* pool.generate(): the task of one segment, modelled by TTSSegment.        *)

\* A job ends; job_finished() records the first error of any segment, also of
\* one whose turn to be played has not come.
JobEnds(s) ==
    /\ job[s] = "running" /\ run \in {"wait", "cleanup"}
    /\ \/ run = "wait" /\ job' = [job EXCEPT ![s] = "ok"] /\ UNCHANGED failure
       \/ job' = [job EXCEPT ![s] = "error"] /\ failure' = TRUE
       \/ /\ run = "cleanup" /\ job' = [job EXCEPT ![s] = "cancelled"]
          /\ UNCHANGED failure
    /\ UNCHANGED <<text, popped, changed, slots, queue, coro, run, outcome, own,
                   started, device>>

-----------------------------------------------------------------------------
(* play() and TTSPlayback.                                                 *)

PlayTakes ==
    /\ Scheduled
    /\ play = "get" /\ queue # <<>>
    /\ queue' = Tail(queue)
    /\ IF Head(queue) = End THEN play' = "final" /\ UNCHANGED playing
                            ELSE play' = "await" /\ playing' = Head(queue)
    /\ UNCHANGED <<text, popped, changed, slots, job, failure, dispatch, run,
                   outcome, own, started, device>>

\* await job returns: segment() marks the playback started before it emits.
PlayBegins ==
    /\ Scheduled
    /\ play = "await" /\ job[playing] = "ok"
    /\ play' = IF started THEN "sentence" ELSE "start"
    /\ started' = TRUE
    /\ UNCHANGED <<text, popped, changed, slots, queue, job, failure, dispatch,
                   playing, run, outcome, own, device>>

EmitStart ==
    /\ Scheduled
    /\ play = "start" /\ play' = "sentence" /\ speaker' = "start"
    /\ UNCHANGED <<text, popped, changed, slots, queue, job, failure, dispatch,
                   playing, run, outcome, own, started, shown, heard>>

EmitSentence ==
    /\ Scheduled
    /\ play = "sentence" /\ play' = "packets" /\ shown' = playing
    /\ UNCHANGED <<text, popped, changed, slots, queue, job, failure, dispatch,
                   playing, run, outcome, own, started, speaker, heard>>

\* Variant: the slot is returned twice.
SendPacketsTwice ==
    /\ Scheduled
    /\ play = "packets" /\ play' = "get" /\ heard' = playing /\ playing' = 0
    /\ slots' = slots + 2
    /\ UNCHANGED <<text, popped, changed, queue, job, failure, dispatch, run,
                   outcome, own, started, speaker, shown>>

\* The packets of the segment are sent and its lookahead slot is returned.
SendPackets ==
    /\ Scheduled
    /\ play = "packets" /\ play' = "get" /\ heard' = playing /\ playing' = 0
    /\ slots' = slots + 1
    /\ UNCHANGED <<text, popped, changed, queue, job, failure, dispatch, run,
                   outcome, own, started, speaker, shown>>

\* finish(): the last packets, then stop, once anything was started.
EmitStop ==
    /\ Scheduled
    /\ play = "final" /\ started
    /\ play' = "stopped" /\ speaker' = "stop"
    /\ UNCHANGED <<text, popped, changed, slots, queue, job, failure, dispatch,
                   playing, run, outcome, own, started, shown, heard>>

PlayReturns ==
    /\ Scheduled
    /\ \/ play = "final" /\ ~started
       \/ play = "stopped"
    /\ play' = "done" /\ started' = FALSE
    /\ UNCHANGED <<text, popped, changed, slots, queue, job, failure, dispatch,
                   playing, run, outcome, own, device>>

\* A failed job, encoder or send ends play() with an exception.
PlayRaises ==
    /\ Scheduled
    /\ \/ play = "await" /\ job[playing] = "error"
       \/ play \in {"start", "sentence", "packets", "final"}
    /\ play' = "failed"
    /\ UNCHANGED <<text, popped, changed, slots, queue, job, failure, dispatch,
                   playing, run, outcome, own, started, device>>

PlayStep == \/ PlayTakes \/ PlayBegins \/ EmitStart \/ EmitSentence
            \/ SendPackets \/ EmitStop \/ PlayReturns

-----------------------------------------------------------------------------
(* run(): joins both coroutines, then cancels and awaits what is left.     *)

RunStarts ==
    /\ run = "new" /\ run' = "wait"
    /\ dispatch' = "acquire" /\ play' = "get"
    /\ UNCHANGED <<text, popped, changed, slots, queue, job, failure, playing,
                   outcome, own, started, device>>

RunJoins ==
    /\ run = "wait" /\ ~failure /\ dispatch = "done" /\ play = "done"
    /\ run' = "cleanup" /\ outcome' = "ok"
    /\ UNCHANGED <<text, popped, changed, slots, queue, job, failure, coro, own,
                   started, device>>

\* failure won the wait, a coroutine raised, or the turn took too long.
RunFails(why) ==
    /\ run = "wait" /\ why
    /\ run' = "cleanup" /\ outcome' = "failed" /\ failure' = TRUE
    /\ UNCHANGED <<text, popped, changed, slots, queue, job, coro, own, started,
                   device>>

RunSeesFailure == RunFails(failure \/ dispatch = "failed" \/ play = "failed")
RunTimesOut    == RunFails(TRUE)

\* Cancellation reaches the coroutines at the point where they wait.
DispatchCancelled ==
    /\ run = "cleanup" /\ dispatch \notin Ended /\ dispatch' = "cancelled"
    /\ UNCHANGED <<text, popped, changed, slots, queue, job, failure, play,
                   playing, run, outcome, own, started, device>>

PlayCancelled ==
    /\ run = "cleanup" /\ play \notin Ended /\ play' = "cancelled"
    /\ UNCHANGED <<text, popped, changed, slots, queue, job, failure, dispatch,
                   playing, run, outcome, own, started, device>>

\* Variant: the jobs are cancelled but not awaited.
RunEndsEarly ==
    /\ run = "cleanup"
    /\ dispatch \in Ended /\ play \in Ended
    /\ run' = "done"
    /\ UNCHANGED <<text, popped, changed, slots, queue, job, failure, coro,
                   outcome, own, started, device>>

\* The shielded gather holds run() until nothing it started is alive.
RunEnds ==
    /\ run = "cleanup"
    /\ dispatch \in Ended /\ play \in Ended
    /\ \A s \in Segments : job[s] # "running"
    /\ run' = "done"
    /\ UNCHANGED <<text, popped, changed, slots, queue, job, failure, coro,
                   outcome, own, started, device>>

\* TTSTurn.fail(), called by the RPC connection for every listed stream when
\* the connection is lost.
Fail == /\ listed /\ ~failure /\ failure' = TRUE
        /\ UNCHANGED <<text, popped, changed, slots, queue, job, coro, run,
                       outcome, own, started, device>>

-----------------------------------------------------------------------------
(* close().                                                                *)

\* task.cancel(): a run that has not begun ends at once, a waiting one enters
\* its finally block, and one already cleaning up swallows the cancellation.
CancelRun ==
    CASE run = "new"  -> run' = "done" /\ outcome' = "cancelled"
      [] run = "wait" -> run' = "cleanup" /\ outcome' = "cancelled"
      [] OTHER        -> UNCHANGED <<run, outcome>>

\* The owner is cancelled while it awaits self.task: so is run().
FinishCancelled ==
    /\ owner = "finishing" /\ run \in {"new", "wait"}
    /\ CancelRun
    /\ UNCHANGED <<text, popped, changed, slots, queue, job, failure, coro, own,
                   started, device>>

Close ==
    /\ owner \in {"finished", "raised"} /\ owner' = "joining"
    /\ CancelRun
    /\ UNCHANGED <<text, popped, changed, slots, queue, job, failure, coro, cut,
                   executor, listed, started, device>>

\* close() itself is cancelled: the gather raises once run() has ended, and
\* nothing behind it in close() is executed.
CloseCancelled ==
    /\ \/ owner = "joining" /\ ~cut /\ cut' = TRUE /\ UNCHANGED owner
       \/ owner = "shutdown" /\ owner' = "interrupted" /\ UNCHANGED cut
    /\ UNCHANGED <<text, popped, changed, slots, queue, job, failure, coro, run,
                   outcome, executor, listed, started, device>>

CloseJoins ==
    /\ owner = "joining" /\ run = "done"
    /\ owner' = IF cut THEN "interrupted" ELSE "shutdown"
    /\ UNCHANGED <<text, popped, changed, slots, queue, job, failure, coro, run,
                   outcome, cut, executor, listed, started, device>>

CloseReturns ==
    /\ owner = "shutdown" /\ owner' = "closed"
    /\ executor' = "down" /\ listed' = FALSE
    /\ UNCHANGED <<text, popped, changed, slots, queue, job, failure, coro, run,
                   outcome, cut, started, device>>

-----------------------------------------------------------------------------
OwnerStep == Finish \/ FinishReturns \/ Close \/ CloseJoins \/ CloseReturns

RunStep == \/ RunStarts \/ RunJoins \/ RunSeesFailure
           \/ DispatchCancelled \/ PlayCancelled \/ RunEnds

Next == \/ OwnerStep \/ Feed \/ StopFeeding \/ FinishCancelled \/ CloseCancelled
        \/ Dispatch \/ PlayStep \/ PlayRaises
        \/ RunStep \/ RunTimesOut \/ Fail
        \/ \E s \in Segments : JobEnds(s)

(* The event loop runs every ready task; a synthesis job ends because its  *)
(* own deadline bounds it (TTSSegment).  Failures, cancellations and the   *)
(* two minute timeout are never owed.                                      *)
Fairness ==
    /\ WF_vars(Dispatch) /\ WF_vars(PlayStep) /\ WF_vars(RunStep)
    /\ WF_vars(Close \/ CloseJoins \/ CloseReturns \/ FinishReturns)
    /\ \A s \in Segments : WF_vars(JobEnds(s))

Spec == Init /\ [][Next]_vars
FairSpec == Spec /\ Fairness

-----------------------------------------------------------------------------
(* Properties.                                                             *)

\* The three-segment lookahead: every slot is in the semaphore or at a segment
\* between its dispatch and the end of its playback, so at most MaxLookahead
\* jobs run, and queue.put (also of the end marker) never blocks.
Lookahead ==
    /\ slots + (popped - heard) = MaxLookahead
    /\ Len(queue) <= MaxLookahead

\* Results never overtake: what play() takes next is always the segment
\* behind the one it last played, and only the text's end follows them.
QueueInOrder ==
    \A i \in DOMAIN queue :
        queue[i] = (IF playing # 0 THEN playing ELSE heard) + i
        \/ (queue[i] = End /\ i = Len(queue) /\ finished)

\* finish() reports success only when the device heard the whole text and
\* the speaker was stopped if it ever was started.
SuccessMeansHeard ==
    outcome = "ok" => /\ heard = ready /\ ~rest /\ finished
                      /\ speaker = IF ready = 0 THEN "idle" ELSE "stop"

\* Whatever ended the turn, no synthesis job, dispatcher or player survives
\* run(), also when close() is cancelled in the middle.
NothingSurvives ==
    (run = "done" \/ owner \in {"closed", "interrupted"}) =>
        /\ \A s \in Segments : job[s] # "running"
        /\ dispatch \in Ended \cup {"new"} /\ play \in Ended \cup {"new"}

\* A failed or cancelled segment ends the speech in front of it: neither it
\* nor anything behind it is ever announced.
NothingBeyondFailure ==
    \A s \in Segments : job[s] \in {"error", "cancelled"} => shown < s

\* What holds of every turn, however it ends.
TurnSafe == Lookahead /\ SuccessMeansHeard /\ NothingSurvives /\ NothingBeyondFailure

\* The device's view implements OrderedPlayback.
Device == INSTANCE OrderedPlayback
    WITH known <- ready, whole <- finished /\ ~rest
DeviceSpec == Device!Spec

\* No wake-up is lost between feed(), the slots and the queue: complete text
\* is heard or the turn ends, without help from the timeout.
FinishedTextEnds == owner = "finishing" ~> owner # "finishing"

\* A turn told to close always gets rid of its tasks.
CloseEnds == owner = "joining" ~> owner \in {"closed", "interrupted"}

\* A turn never hangs: not when its text is complete, not when it is closed.
TurnEnds == FinishedTextEnds /\ CloseEnds
=============================================================================
