---------------------------- MODULE VoiceSession ----------------------------
(***************************************************************************)
(* One device session on the transport core: the websocket handler, the    *)
(* idle watchdog and the voice turns they start, sharing one VoiceTurn.    *)
(* All of them are coroutines of one event loop: an action is what a       *)
(* coroutine does from one suspension point to the next; where a step has  *)
(* to be written as two, "baton" keeps the others out between them.        *)
(* The answer's own pipeline is TTSTurn; here it is what the session sees: *)
(* playback.started, its start and stop messages and close().              *)
(* The names that LLMStream has as well are qualified here, so that one    *)
(* module can extend both: NoRun is the code's None, interrupted its       *)
(* cancel().                                                               *)
(***************************************************************************)
EXTENDS Integers

CONSTANTS
    MaxMessages,   \* bound on the client messages that reach voice
    MaxCancels,    \* bound on cancellations of the handler
    IdleTimeout    \* TRUE when the client may stay silent for the idle period

ASSUME SessionAssumption ==
    MaxMessages \in Nat /\ MaxCancels \in Nat /\ IdleTimeout \in BOOLEAN

Runs   == 1 .. (MaxMessages + 1)    \* every message starts at most one run
NoRun  == 0
Actors == {"H", "W"}                \* websocket() and watch_idle()

VARIABLES
    \* VoiceTurn
    current,    \* the runs started under the present generation: abort()
                \* counts it up, which makes every earlier run a stale one
    task, queue, ending, state, waking, closeAfter, idleClosing, currentTts,
    quiet,      \* the idle period has passed since last_activity
    \* the runs
    used,       \* runs created so far
    run,        \* locals: where it is suspended, what started it, failed
    tts,        \* its TTSTurn
    started,    \* tts.playback.started
    flight,     \* its start or stop message, from the generation check until it
                \* is sent; "over" behind the stop
    interrupted, \* runs with a pending CancelledError
    \* the handler and the watchdog
    pc, op,     \* where the actor is suspended, what its abort() is part of
    target,     \* the run it awaits
    speech,     \* the tts its abort() captured
    cut,        \* it was cancelled while awaiting the run
    baton, messages, cancels,
    \* the connection and the device
    open, quota, speaker

turn    == <<current, task, queue, ending, state, waking, closeAfter,
             idleClosing, currentTts, quiet>>
runs    == <<used, run, tts, started, flight, interrupted>>
actor   == <<pc, op, target, speech, cut, baton, messages, cancels>>
channel == <<open, quota, speaker>>
sessionVars ==
    <<current, task, queue, ending, state, waking, closeAfter, idleClosing,
      currentTts, quiet, used, run, tts, started, flight, interrupted, pc, op,
      target, speech, cut, baton, messages, cancels, open, quota, speaker>>

InTry     == {"asr", "final", "llm", "speak", "fail", "mute"}
InFinally == {"close", "stop", "epilogue", "complete", "goodbye"}
LiveRuns == {r \in Runs : run[r].at \in {"new"} \cup InTry \cup InFinally}

\* The session, its coroutines and its turns are in states the code can store.
SessionTypes ==
    /\ current \subseteq Runs /\ task \in Runs \cup {NoRun}
    /\ queue \in Runs \cup {NoRun} /\ currentTts \in Runs \cup {NoRun}
    /\ state \in {"idle", "asr", "llm", "tts", "error",
                  "done", "aborted"}
    /\ ending \in BOOLEAN /\ waking \in BOOLEAN /\ closeAfter \in BOOLEAN
    /\ idleClosing \in BOOLEAN /\ quiet \in BOOLEAN
    /\ used \in 0 .. MaxMessages + 1
    /\ run \in [Runs -> [at : {"none", "new", "ended"} \cup InTry \cup InFinally,
                         kind : {"listen", "text", "closing"}, failed : BOOLEAN]]
    /\ tts \in [Runs -> {"none", "open", "closed", "left"}]
    /\ flight \in [Runs -> {"none", "start", "stop", "over"}]
    /\ started \subseteq Runs /\ interrupted \subseteq Runs
    /\ pc \in [Actors -> {"recv", "sleep", "camera", "gather", "joined", "silence",
                          "after", "clear", "stopclear", "joinW", "await",
                          "emits", "wclose", "done"}]
    /\ op \in [Actors -> {"none", "abort", "start", "text", "wake", "overflow",
                          "expire", "final"}]
    /\ target \in [Actors -> Runs \cup {NoRun}]
    /\ speech \in [Actors -> Runs \cup {NoRun}]
    /\ cut \in [Actors -> BOOLEAN] /\ baton \in Actors \cup {"free"}
    /\ messages \in 0 .. MaxMessages /\ cancels \in 0 .. MaxCancels
    /\ open \in BOOLEAN /\ quota \in BOOLEAN
    /\ speaker \in {"off", "on"}

SessionInit ==
    /\ current = {} /\ task = NoRun /\ queue = NoRun /\ ending = FALSE
    /\ state = "idle" /\ waking = FALSE /\ closeAfter = FALSE
    /\ idleClosing = FALSE /\ currentTts = NoRun /\ quiet = FALSE
    /\ used = 0
    /\ run = [r \in Runs |-> [at |-> "none", kind |-> "listen", failed |-> FALSE]]
    /\ tts = [r \in Runs |-> "none"]
    /\ started = {} /\ flight = [r \in Runs |-> "none"]
    /\ interrupted = {}
    /\ pc = [a \in Actors |-> IF a = "H" THEN "recv" ELSE "sleep"]
    /\ op = [a \in Actors |-> "none"]
    /\ target = [a \in Actors |-> NoRun] /\ speech = [a \in Actors |-> NoRun]
    /\ cut = [a \in Actors |-> FALSE] /\ baton = "free"
    /\ messages = 0 /\ cancels = 0
    /\ open = TRUE /\ quota = TRUE /\ speaker = "off"

Free == baton = "free"

-----------------------------------------------------------------------------
(* VoiceTurn.abort(), by either actor, and creating a run.                 *)

\* task.cancel(): without effect on a task that has ended.
CancelTask(r) ==
    interrupted' = interrupted \cup ({r} \cap LiveRuns)

\* A run that calls a tool of the device, where a photo may be on its way up.
InCall(r) == run[r].at = "llm" /\ run[r].kind # "closing"

\* Behind the camera, up to the gather; without a task abort() goes on without
\* suspending.
Takes(a) ==
    /\ waking' = FALSE /\ task' = NoRun /\ queue' = NoRun
    /\ target' = [target EXCEPT ![a] = task]
    /\ speech' = [speech EXCEPT ![a] = currentTts]
    /\ CancelTask(task)
    /\ pc' = [pc EXCEPT ![a] = IF task = NoRun THEN "joined" ELSE "gather"]
    /\ baton' = IF task = NoRun THEN a ELSE "free"

\* The generation counts up first; then abort() awaits the end of an upload,
\* and has not yet touched the run.
AbortBegin(a, o) ==
    /\ current' = {} /\ op' = [op EXCEPT ![a] = o]
    /\ \/ Takes(a)
       \/ /\ \E r \in LiveRuns : InCall(r)
          /\ pc' = [pc EXCEPT ![a] = "camera"]
          /\ UNCHANGED <<waking, task, queue, target, speech, interrupted, baton>>
    /\ UNCHANGED <<ending, state, closeAfter, currentTts, used, run, tts,
                   started, flight, cut, cancels, channel>>

AbortTakes(a) ==
    /\ pc[a] = "camera" /\ Free /\ ~cut[a] /\ Takes(a)
    /\ UNCHANGED <<current, ending, state, closeAfter, idleClosing, currentTts, quiet,
                   used, run, tts, started, flight, op, cut, messages, cancels, channel>>

\* Variant: abort() goes on before the task has ended.
AbortJoinedEarly(a) ==
    /\ \/ pc[a] = "gather" /\ Free /\ ~cut[a]
       \/ pc[a] = "joined" /\ baton = a
    /\ state' = "aborted"
    /\ IF speech[a] # NoRun /\ speech[a] \in started
       THEN pc' = [pc EXCEPT ![a] = "silence"] /\ baton' = "free"
       ELSE pc' = [pc EXCEPT ![a] = "after"] /\ baton' = a
    /\ UNCHANGED <<current, task, queue, ending, waking, closeAfter,
                   idleClosing, currentTts, quiet, runs, op, target, speech,
                   cut, messages, cancels, channel>>

\* Behind the gather; a cancelled gather raises instead.
AbortJoined(a) ==
    /\ \/ pc[a] = "gather" /\ Free /\ target[a] \notin LiveRuns /\ ~cut[a]
       \/ pc[a] = "joined" /\ baton = a
    /\ state' = "aborted"
    /\ IF speech[a] # NoRun /\ speech[a] \in started
       THEN pc' = [pc EXCEPT ![a] = "silence"] /\ baton' = "free"
       ELSE pc' = [pc EXCEPT ![a] = "after"] /\ baton' = a
    /\ UNCHANGED <<current, task, queue, ending, waking, closeAfter,
                   idleClosing, currentTts, quiet, runs, op, target, speech,
                   cut, messages, cancels, channel>>

\* The device is told that the interrupted speech is over.
AbortSilence(a) ==
    /\ pc[a] = "silence" /\ Free /\ ~cut[a]
    /\ speaker' = IF open THEN "off" ELSE speaker
    /\ pc' = [pc EXCEPT ![a] = "after"] /\ baton' = a
    /\ UNCHANGED <<turn, runs, op, target, speech, cut, messages, cancels, open,
                   quota>>

\* create_task(self.run(self.generation, ...)).
NewRun(k) ==
    /\ used' = used + 1 /\ task' = used + 1
    /\ run' = [run EXCEPT ![used + 1] = [@ EXCEPT !.at = "new", !.kind = k]]
    /\ current' = current \cup {used + 1}
    /\ UNCHANGED <<tts, started, flight, interrupted>>

Resumes(a, o) == pc[a] = "after" /\ baton = a /\ op[a] = o
\* The actor suspends elsewhere; abort() has returned and its locals are gone.
Returns(a, where) ==
    /\ pc' = [pc EXCEPT ![a] = where] /\ baton' = "free"
    /\ op' = [op EXCEPT ![a] = "none"]
    /\ target' = [target EXCEPT ![a] = NoRun]
    /\ speech' = [speech EXCEPT ![a] = NoRun]
    /\ UNCHANGED <<cut, messages, cancels>>

-----------------------------------------------------------------------------
(* The websocket handler: one message at a time.                           *)

\* A message that may reach voice; a claimed expiry drops all of them.
Receiving == /\ pc["H"] = "recv" /\ Free /\ open /\ ~idleClosing
             /\ messages < MaxMessages /\ messages' = messages + 1

MsgAbort == /\ Receiving /\ quiet' = FALSE
            /\ AbortBegin("H", "abort") /\ UNCHANGED idleClosing

\* listen/start leaves a wake acknowledgement alone.
MsgStart == /\ Receiving /\ ~(waking /\ task \in LiveRuns)
            /\ AbortBegin("H", "start") /\ UNCHANGED <<idleClosing, quiet>>

MsgText(o) == /\ Receiving
              /\ AbortBegin("H", o) /\ UNCHANGED <<idleClosing, quiet>>

\* audio_frame() finds the queue full.
MsgOverflow == /\ Receiving /\ task \in LiveRuns /\ ~ending /\ queue # NoRun
               /\ AbortBegin("H", "overflow") /\ UNCHANGED <<idleClosing, quiet>>

\* stop(): the end marker is put into the queue behind an await.
MsgStop == /\ Receiving /\ task \in LiveRuns /\ ~ending
           /\ ending' = TRUE /\ pc' = [pc EXCEPT !["H"] = "stopclear"]
           /\ UNCHANGED <<current, task, queue, state, waking, closeAfter,
                          idleClosing, currentTts, quiet, runs, op, target,
                          speech, cut, baton, cancels, channel>>

StopPuts == /\ pc["H"] = "stopclear" /\ Free /\ queue # NoRun
            /\ Returns("H", "recv")
            /\ UNCHANGED <<turn, runs, channel>>

\* The queue is full, and stop() gives the turn up.
StopOverflows == /\ pc["H"] = "stopclear" /\ Free /\ queue # NoRun
                 /\ AbortBegin("H", "overflow")
                 /\ UNCHANGED <<idleClosing, quiet, messages>>

\* abort and an overflow only report behind abort().
AfterAbort == /\ Resumes("H", "abort") \/ Resumes("H", "overflow")
              /\ Returns("H", "recv")
              /\ UNCHANGED <<turn, runs, channel>>

\* start(): reset the turn, tell the device, then listen.
AfterStart == /\ Resumes("H", "start")
              /\ quiet' = FALSE /\ closeAfter' = FALSE
              /\ Returns("H", "clear")
              /\ UNCHANGED <<current, task, queue, ending, state, waking,
                             idleClosing, currentTts, runs, channel>>

StartListening ==
    /\ pc["H"] = "clear" /\ Free
    /\ queue' = used + 1 /\ ending' = FALSE /\ state' = "asr"
    /\ NewRun("listen") /\ Returns("H", "recv")
    /\ UNCHANGED <<waking, closeAfter, idleClosing, currentTts, quiet, channel>>

\* start_text(): typed text or a wake word; a wake word needs no answer when
\* the greeting is off.
AfterText ==
    /\ Resumes("H", "text") \/ Resumes("H", "wake")
    /\ quiet' = FALSE /\ closeAfter' = FALSE
    /\ \/ /\ waking' = (op["H"] = "wake") /\ state' = "llm" /\ ending' = TRUE
          /\ NewRun("text") /\ UNCHANGED speaker
       \/ /\ op["H"] = "wake" /\ waking' = FALSE /\ speaker' = "off"
          /\ UNCHANGED <<current, task, state, ending, runs>>
    /\ Returns("H", "recv")
    /\ UNCHANGED <<queue, idleClosing, currentTts, open, quota>>

-----------------------------------------------------------------------------
(* The end of the handler: goodbye, closed socket, exception, cancellation. *)

\* Variant: the watchdog is not cancelled.
FinalBeginKeepsWatch ==
    /\ Free
    /\ \/ pc["H"] = "recv"                            \* goodbye or closed
       \/ pc["H"] = "stopclear" /\ queue = NoRun       \* None has no put_nowait
       \/ pc["H"] = "gather" /\ cut["H"] /\ op["H"] # "final"
             /\ target["H"] \notin LiveRuns
    /\ pc' = [pc EXCEPT !["H"] = "joinW"]
    /\ target' = [target EXCEPT !["H"] = NoRun]
    /\ cut' = [cut EXCEPT !["H"] = FALSE]
    /\ UNCHANGED interrupted
    /\ UNCHANGED <<turn, used, run, tts, started, flight, op,
                   speech, baton, messages, cancels, channel>>

\* The finally block first cancels the watchdog and waits for it.
FinalBegin ==
    /\ Free
    /\ \/ pc["H"] = "recv"                            \* goodbye or closed
       \/ pc["H"] = "stopclear" /\ queue = NoRun       \* None has no put_nowait
       \/ pc["H"] = "gather" /\ cut["H"] /\ op["H"] # "final"
             /\ target["H"] \notin LiveRuns
    /\ pc' = [pc EXCEPT !["H"] = "joinW"]
    /\ target' = [target EXCEPT !["H"] = NoRun]
    /\ cut' = [cut EXCEPT !["H"] = FALSE, !["W"] = pc["W"] # "done"]
    /\ CancelTask(target["W"])
    /\ UNCHANGED <<turn, used, run, tts, started, flight, op,
                   speech, baton, messages, cancels, channel>>

\* handler_cancellation: a lost connection (or the shutdown) cancels the
\* handler where it waits; a gather passes the cancellation on to what it
\* awaits. Nothing but the finally blocks is left then: cut off in its last
\* abort(), the handler gives up what that had still to do.
Cancelled ==
    /\ Free /\ cancels < MaxCancels /\ cancels' = cancels + 1
    /\ open' = FALSE
    /\ \/ /\ pc["H"] \in {"recv", "clear", "stopclear", "camera", "silence"}
          /\ op["H"] # "final"
          /\ pc' = [pc EXCEPT !["H"] = "recv"]  \* unwinds to FinalBegin
          /\ UNCHANGED <<cut, interrupted>>
       \/ /\ pc["H"] = "gather" \/ (pc["H"] \in {"camera", "silence"} /\ op["H"] = "final")
          /\ cut' = [cut EXCEPT !["H"] = TRUE]
          /\ CancelTask(IF pc["H"] = "gather" THEN target["H"] ELSE NoRun)
          /\ UNCHANGED pc
       \/ /\ pc["H"] = "joinW"
          /\ cut' = [cut EXCEPT !["W"] = pc["W"] # "done"]
          /\ CancelTask(target["W"])
          /\ UNCHANGED pc
    /\ UNCHANGED <<turn, used, run, tts, started, flight, op,
                   target, speech, baton, messages, quota, speaker>>

\* The watchdog is gone: abort() what is left.
FinalAbort == /\ pc["H"] = "joinW" /\ Free /\ pc["W"] = "done"
              /\ AbortBegin("H", "final")
              /\ UNCHANGED <<idleClosing, quiet, messages>>

\* The socket quota is returned last.
FinalRelease ==
    /\ \/ Resumes("H", "final")
       \/ /\ pc["H"] \in {"camera", "gather", "silence"} /\ Free
          /\ cut["H"] /\ op["H"] = "final"
          /\ pc["H"] = "gather" => target["H"] \notin LiveRuns
    /\ quota' = FALSE /\ open' = FALSE
    /\ Returns("H", "done")
    /\ UNCHANGED <<turn, runs, speaker>>

-----------------------------------------------------------------------------
(* The idle watchdog: idle_due() every second, expire_idle() once.         *)

Processing == state \in {"llm", "tts"} \/ waking \/ currentTts # NoRun

\* Time passes; while the turn is being processed the watchdog keeps
\* last_activity fresh, and once it has left its loop nobody asks any more.
GoQuiet == /\ IdleTimeout /\ Free /\ ~quiet /\ ~Processing /\ quiet' = TRUE
           /\ pc["W"] = "sleep" /\ open /\ ~cut["W"]
           /\ UNCHANGED <<current, task, queue, ending, state, waking,
                          closeAfter, idleClosing, currentTts, runs, actor, channel>>

WatchTouches == /\ pc["W"] = "sleep" /\ Free /\ open /\ ~cut["W"]
                /\ Processing /\ quiet /\ quiet' = FALSE
                /\ UNCHANGED <<current, task, queue, ending, state, waking,
                               closeAfter, idleClosing, currentTts, runs, actor,
                               channel>>

Expire == /\ pc["W"] = "sleep" /\ Free /\ open /\ ~cut["W"]
          /\ quiet /\ ~Processing
          /\ idleClosing' = TRUE
          /\ AbortBegin("W", "expire") /\ UNCHANGED <<quiet, messages>>

\* The farewell is a turn of its own, or three messages without one.
AfterExpire ==
    /\ Resumes("W", "expire") /\ closeAfter' = TRUE
    /\ \/ /\ state' = "llm" /\ NewRun("closing")
          /\ target' = [target EXCEPT !["W"] = used + 1]
          /\ pc' = [pc EXCEPT !["W"] = "await"] /\ baton' = "free"
          /\ UNCHANGED <<op, speech, cut, messages, cancels>>
       \/ /\ Returns("W", "emits")
          /\ UNCHANGED <<current, task, state, runs>>
    /\ UNCHANGED <<queue, ending, waking, idleClosing, currentTts, quiet, channel>>

FarewellEmitted ==
    /\ pc["W"] = "emits" /\ Free /\ ~cut["W"] /\ Returns("W", "wclose")
    /\ speaker' = "off"
    /\ UNCHANGED <<turn, runs, open, quota>>

\* The awaited farewell ended, or the watchdog was cancelled.
WatchUnwinds ==
    /\ Free
    /\ \/ pc["W"] = "await" /\ target["W"] \notin LiveRuns
       \/ pc["W"] = "gather" /\ cut["W"] /\ target["W"] \notin LiveRuns
       \/ pc["W"] \in {"camera", "silence", "emits"} /\ cut["W"]
    /\ Returns("W", "wclose")
    /\ UNCHANGED <<turn, runs, channel>>

WatchEnds ==
    /\ Free
    /\ \/ pc["W"] = "wclose" /\ open' = FALSE
       \/ pc["W"] = "sleep" /\ (cut["W"] \/ ~open) /\ UNCHANGED open
    /\ Returns("W", "done")
    /\ UNCHANGED <<turn, runs, quota, speaker>>
-----------------------------------------------------------------------------
(* VoiceTurn.run().                                                        *)

Steps(r, where) == /\ Free /\ run[r].at = where /\ r \notin interrupted
Current(r) == r \in current
\* An ended run has no locals any more.
Move(r, where) ==
    run' = [run EXCEPT ![r] =
              IF where = "ended" THEN [at |-> "ended", kind |-> "listen", failed |-> FALSE]
                                 ELSE [@ EXCEPT !.at = where]]
\* What no step of a run touches.
Apart == UNCHANGED <<current, task, queue, idleClosing, used,
                     actor, open, quota>>

\* The answer begins: state, the TTSTurn and current_tts.
BeginAnswer(r) ==
    /\ Move(r, "llm") /\ state' = "llm"
    /\ tts' = [tts EXCEPT ![r] = "open"] /\ currentTts' = r

RunBegins(r) ==
    /\ Steps(r, "new")
    /\ \/ /\ run[r].kind = "listen" /\ Move(r, "asr")
          /\ UNCHANGED <<ending, quiet, state, tts, currentTts>>
       \/ /\ run[r].kind = "text" /\ Move(r, "final")
          /\ ending' = TRUE /\ quiet' = FALSE
          /\ UNCHANGED <<state, tts, currentTts>>
       \/ /\ run[r].kind = "closing" /\ BeginAnswer(r)
          /\ ending' = TRUE /\ UNCHANGED quiet
    /\ Apart
    /\ UNCHANGED <<waking, closeAfter, started, flight, interrupted, speaker>>

\* Speech or a partial transcript counts as activity.
AsrHears(r) ==
    /\ Steps(r, "asr") /\ Current(r) /\ quiet /\ quiet' = FALSE
    /\ Apart
    /\ UNCHANGED <<ending, state, waking, closeAfter, currentTts, run, tts,
                   started, flight, interrupted, speaker>>

\* The transcript, possibly empty, is final.
AsrFinal(r) ==
    /\ Steps(r, "asr") /\ Current(r)
    /\ Move(r, "final") /\ ending' = TRUE /\ quiet' \in {quiet, FALSE}
    /\ Apart
    /\ UNCHANGED <<state, waking, closeAfter, currentTts, tts, started, flight,
                   interrupted, speaker>>

\* The except clauses: a failure of the current turn, which can only be
\* spoken while the language model had the turn and its TTS is sound.
RunFails(r) ==
    /\ Free /\ run[r].at \in {"asr", "llm", "speak"} /\ r \notin interrupted
    /\ Current(r) /\ ~run[r].failed
    /\ \E where \in {"mute"} \cup (IF run[r].at = "llm" THEN {"fail"} ELSE {}) :
          run' = [run EXCEPT ![r].at = where, ![r].failed = TRUE]
    /\ state' = "error"
    /\ Apart
    /\ UNCHANGED <<ending, waking, closeAfter, currentTts, quiet, tts, started,
                   flight, interrupted, speaker>>

-----------------------------------------------------------------------------
(* The finally block.                                                      *)

\* What is emitted first once the TTSTurn is closed: a missing stop, then the
\* completion; a superseded run emits nothing.
Epilogue(r) ==
    IF ~Current(r) THEN Move(r, "ended") /\ UNCHANGED waking
    ELSE /\ waking' = FALSE
         /\ Move(r, IF run[r].failed /\ r \in started THEN "epilogue" ELSE "complete")

\* Leaving the try block: close the TTSTurn if there is one.
Leave(r) == IF tts[r] = "open" THEN Move(r, "close") /\ UNCHANGED waking
                               ELSE Epilogue(r)

\* The transcript was emitted: nothing to answer, an exit command, a wake
\* word without greeting, or an answer.
FinalEmitted(r) ==
    /\ Steps(r, "final")
    /\ \/ Leave(r) /\ closeAfter' \in {closeAfter, TRUE}
          /\ UNCHANGED <<state, tts, currentTts>>
       \/ BeginAnswer(r) /\ UNCHANGED <<waking, closeAfter>>
    /\ Apart
    /\ UNCHANGED <<ending, quiet, started, flight, interrupted, speaker>>

\* The exit tool of the language model.
ToolExit(r) ==
    /\ Steps(r, "llm") /\ run[r].kind # "closing" /\ ~run[r].failed
    /\ ~closeAfter /\ closeAfter' = TRUE
    /\ Apart
    /\ UNCHANGED <<ending, state, waking, currentTts, quiet, run, tts, started,
                   flight, interrupted, speaker>>

\* The text is complete: await tts.finish().
LlmComplete(r) ==
    /\ Steps(r, "llm") /\ Current(r) /\ Move(r, "speak")
    /\ Apart
    /\ UNCHANGED <<turn, tts, started, flight, interrupted, speaker>>

\* The next text, result or failure finds the generation gone by.
LlmStale(r) ==
    /\ Steps(r, "llm") /\ ~Current(r) /\ Leave(r)
    /\ Apart
    /\ UNCHANGED <<ending, state, closeAfter, currentTts, quiet, tts, started, flight,
                   interrupted, speaker>>

\* Playback sets started, checks the generation and hands start to emit();
\* the message is on its way while run() may be cancelled.
PlaybackStarts(r) ==
    /\ Free /\ run[r].at \in {"llm", "speak"} /\ r \notin started /\ flight[r] = "none"
    /\ tts[r] = "open" /\ Current(r)
    /\ started' = started \cup {r}
    /\ flight' = [flight EXCEPT ![r] = "start"] /\ state' = "tts"
    /\ Apart
    /\ UNCHANGED <<ending, waking, closeAfter, currentTts, quiet, run, tts,
                   interrupted, speaker>>

PlaybackStops(r) ==
    /\ Free /\ run[r].at = "speak" /\ r \in started /\ flight[r] = "none"
    /\ Current(r) /\ r \notin interrupted
    /\ flight' = [flight EXCEPT ![r] = "stop"] /\ waking' = FALSE
    /\ Apart
    /\ UNCHANGED <<ending, state, closeAfter, currentTts, quiet, run, tts,
                   started, interrupted, speaker>>

\* The message reaches the device; started is reset behind a stop.
FlightLands(r) ==
    /\ Free /\ flight[r] \in {"start", "stop"} /\ run[r].at \in InTry \cup {"close"}
    /\ flight' = [flight EXCEPT ![r] = IF @ = "start" THEN "none" ELSE "over"]
    /\ IF flight[r] = "start"
       THEN speaker' = "on" /\ UNCHANGED started
       ELSE speaker' = "off" /\ started' = started \ {r}
    /\ Apart
    /\ UNCHANGED <<turn, run, tts, interrupted>>

\* finish() returned: the whole answer, possibly without audio, is spoken.
Spoken(r) ==
    /\ Steps(r, "speak") /\ r \notin started /\ flight[r] \in {"none", "over"}
    /\ Move(r, "close") /\ state' = IF run[r].failed THEN "error" ELSE state
    /\ Apart
    /\ UNCHANGED <<ending, waking, closeAfter, currentTts, quiet, tts, started,
                   flight, interrupted, speaker>>

\* report_failure(): speak the configured sentence on the same stream, or
\* only report the code.
FailReports(r) ==
    /\ \/ Steps(r, "fail") /\ Move(r, "speak") /\ UNCHANGED waking
       \/ Steps(r, "mute") /\ Leave(r)
    /\ Apart
    /\ UNCHANGED <<ending, state, closeAfter, currentTts, quiet, tts, started,
                   flight, interrupted, speaker>>

\* A failure of the failure speech ends in the finally block as well.
FailSpeechFails(r) ==
    /\ Steps(r, "speak") /\ run[r].failed /\ Move(r, "close")
    /\ Apart
    /\ UNCHANGED <<turn, tts, started, flight, interrupted, speaker>>

\* await tts.close() returns.
TtsClosed(r) ==
    /\ Steps(r, "close")
    /\ tts' = [tts EXCEPT ![r] = "closed"]
    /\ flight' = [flight EXCEPT ![r] = "none"]
    /\ IF Current(r) /\ r \in started /\ ~run[r].failed
       THEN Move(r, "stop") /\ UNCHANGED <<currentTts, waking>>
       ELSE /\ currentTts' = IF currentTts = r THEN NoRun ELSE currentTts
            /\ Epilogue(r)
    /\ Apart
    /\ UNCHANGED <<ending, state, closeAfter, quiet, started, interrupted,
                   speaker>>

StopEmitted(r) ==
    /\ Steps(r, "stop") /\ speaker' = "off"
    /\ currentTts' = IF currentTts = r THEN NoRun ELSE currentTts
    /\ Epilogue(r)
    /\ Apart
    /\ UNCHANGED <<ending, state, closeAfter, quiet, tts, started, flight,
                   interrupted>>

TerminalStop(r) ==
    /\ Steps(r, "epilogue") /\ speaker' = "off" /\ Move(r, "complete")
    /\ Apart
    /\ UNCHANGED <<turn, tts, started, flight, interrupted>>

CompleteEmitted(r) ==
    /\ Steps(r, "complete")
    /\ state' = IF run[r].failed THEN state ELSE "done"
    /\ IF closeAfter THEN Move(r, "goodbye") /\ UNCHANGED quiet
                     ELSE Move(r, "ended") /\ quiet' = FALSE
    /\ Apart
    /\ UNCHANGED <<ending, waking, closeAfter, currentTts, tts, started, flight,
                   interrupted, speaker>>

GoodbyeEmitted(r) ==
    /\ Steps(r, "goodbye")
    /\ Move(r, "ended") /\ quiet' = FALSE
    /\ Apart
    /\ UNCHANGED <<ending, state, waking, closeAfter, currentTts, tts, started,
                   flight, interrupted, speaker>>

\* CancelledError: swallowed by the try block, which goes on to the finally
\* block; raised inside the finally block it skips the rest of it.
RunCancelled(r) ==
    /\ Free /\ r \in interrupted /\ r \in LiveRuns
    /\ interrupted' = interrupted \ {r}
    /\ \/ run[r].at \in InTry /\ Leave(r) /\ UNCHANGED <<tts, flight>>
       \/ /\ run[r].at \notin InTry /\ Move(r, "ended") /\ UNCHANGED waking
          /\ tts' = [tts EXCEPT ![r] = IF @ = "open" THEN "left" ELSE @]
          /\ flight' = [flight EXCEPT ![r] = "none"]
    /\ Apart
    /\ UNCHANGED <<ending, state, closeAfter, currentTts, quiet, started,
                   speaker>>

-----------------------------------------------------------------------------
Client == \/ MsgAbort \/ MsgStart \/ MsgText("text") \/ MsgText("wake")
          \/ MsgOverflow \/ MsgStop \/ Cancelled

Handler == \/ StopPuts \/ StopOverflows \/ AfterAbort \/ AfterStart \/ StartListening
           \/ AfterText \/ FinalAbort \/ FinalRelease
           \/ AbortTakes("H") \/ AbortJoined("H") \/ AbortSilence("H")

Watchdog == \/ WatchTouches \/ Expire \/ AfterExpire \/ FarewellEmitted
            \/ WatchUnwinds \/ WatchEnds
            \/ AbortTakes("W") \/ AbortJoined("W") \/ AbortSilence("W")

\* What a run does as soon as the event loop lets it.
RunStep(r) == \/ RunBegins(r) \/ FinalEmitted(r) \/ LlmComplete(r) \/ LlmStale(r)
              \/ FlightLands(r) \/ PlaybackStops(r) \/ Spoken(r)
              \/ FailReports(r) \/ TtsClosed(r) \/ StopEmitted(r)
              \/ TerminalStop(r) \/ CompleteEmitted(r) \/ GoodbyeEmitted(r)
              \/ RunCancelled(r)

\* What it does when the workers, the user or playback make it.
RunEvent(r) == \/ AsrHears(r) \/ AsrFinal(r) \/ RunFails(r)
               \/ ToolExit(r) \/ PlaybackStarts(r) \/ FailSpeechFails(r)

SessionNext == \/ Client \/ Handler \/ FinalBegin \/ Watchdog \/ GoQuiet
               \/ \E r \in Runs : RunStep(r) \/ RunEvent(r)

(* Every coroutine that can go on does: the language model stream and the  *)
(* TTS turn end within their deadlines (LLMStream, TTSTurn); the user need *)
(* not speak, ASR need not end and the client need not leave.              *)
Progress ==
    \/ Handler \/ Watchdog
    \/ FinalBegin /\ (~open \/ pc["H"] # "recv")
    \/ \E r \in Runs : RunStep(r)

SessionSpec == SessionInit /\ [][SessionNext]_sessionVars

-----------------------------------------------------------------------------
(* Properties.                                                             *)

AtRest == Free /\ pc["H"] = "recv" /\ pc["W"] = "sleep" /\ open

\* The socket quota is held until the watchdog and every turn of the session
\* are gone, with one exception: a cancellation that meets the last abort()
\* while it waits for the camera leaves a turn behind, uncancelled, the one it
\* was about to take, and one that is of no generation any more.
QuotaCoversWork ==
    ~quota => /\ pc["W"] = "done"
              /\ \A r \in LiveRuns : r = task /\ ~Current(r) /\ cut["H"]

\* No turn is ever forgotten: each live run is the current one, or an actor
\* awaits its end.
NoOrphanRun ==
    Free => \A r \in LiveRuns : r = task \/ \E a \in Actors :
                target[a] = r /\ pc[a] \in {"gather", "await"}

\* A superseded turn has ended before anything else is started in its place,
\* so at rest the only live turn belongs to the current generation.
OneTurn ==
    AtRest => \A r \in LiveRuns : r = task /\ Current(r)

\* As long as the session has not expired, stop() finds the queue of the turn
\* it ends. (Behind an expiry it need not: the handler then dies, and with it
\* the farewell.)
QueueForStop == pc["H"] = "stopclear" /\ ~idleClosing => queue # NoRun

\* Nothing is left to do for the session's own coroutines; who is still
\* suspended would wait for ever.
Settled == ~ENABLED Progress

\* The handler, the watchdog and the turns wait for each other, and for what
\* was cancelled, but never all of them: the session settles only when a closed
\* socket, or a handler that has left its receive loop, has returned the
\* quota and left no turn, not even one that nobody cancelled, and when a
\* claimed expiry has closed the connection.
NoDeadlock ==
    Settled => /\ (~open \/ pc["H"] = "joinW") => ~quota /\ LiveRuns = {}
               /\ idleClosing => ~open

\* The turns of a session are owned: none is forgotten, one at a time is
\* current, the end of speech finds the queue of the turn it ends, and the
\* quota covers them all but one that a cancelled last abort() leaves.
TurnOwned == NoOrphanRun /\ OneTurn /\ QueueForStop /\ QuotaCoversWork

\* Once expiry has claimed the session only its farewell may be a turn. This
\* is what the documentation says, and does not hold (README, 5.1).
ExpiryOwnsSession ==
    pc["W"] = "await" =>
        \A r \in LiveRuns : run[r].kind = "closing" \/ r = target["H"]
=============================================================================
