------------------------------ MODULE Connection ------------------------------
(***************************************************************************)
(* One connection of the standalone server (core/connection.py): the turns *)
(* of a conversation on their way through three threads and the event      *)
(* loop.                                                                   *)
(*                                                                         *)
(*   handlers (event loop) --submitted--> chat thread --textq--> text      *)
(*   thread --audioq--> audio thread --> sendAudioMessage() (event loop)   *)
(*   --> rate controller's queue --> its sender (event loop) --> device    *)
(*                                                                         *)
(* They share three fields of ConnectionHandler without any lock:          *)
(* client_abort, sentence_id and client_is_speaking. Each step below is    *)
(* what one of them does between two suspension points, or between two     *)
(* accesses of shared fields.                                              *)
(***************************************************************************)
EXTENDS Integers, Sequences, FiniteSets

CONSTANTS Events,     \* bound: inputs, aborts, greetings, resets, tool calls
          MaxDepth,   \* depth of tool calls (MAX_DEPTH)
          Pieces,     \* bound: pieces of text in one LLM response
          PreBuffer   \* packets sent without waiting (PRE_BUFFER_COUNT)

ASSUME ConnectionAssumption ==
    /\ Events \in Nat /\ MaxDepth \in Nat
    /\ Pieces \in Nat \ {0} /\ PreBuffer \in Nat

VARIABLES
    abort,      \* client_abort
    sid,        \* sentence_id; 0 is None
    speaking,   \* client_is_speaking
    asr,        \* where the consumer of recognised speech is suspended
    receive,    \* where the receive loop is suspended; it has inputs of its own
    greeting,   \* the sentence id of the greeting that is being queued
    submitted,  \* queries in chat_executor, which has one worker
    chat,       \* the chat thread
    textq,      \* tts.tts_text_queue
    text,       \* the text thread with its buffer
    audioq,     \* tts.tts_audio_queue
    send,       \* the audio thread, waiting for sendAudioMessage()
    ctrl,       \* audio_rate_controller, its sender, and audio_flow_control
    device,     \* what the device was told last, tts start or tts stop; "left"
                \* when a reset on its goodbye has ended the conversation since
    events,     \* events so far
    ids,        \* sentence ids given out
    owed,       \* history: pieces of text asked for and not yet heard, by id
    latest,     \* history: the id of what the device has heard last
    marred,     \* history: ids of which something was given up on purpose
    silent      \* history: an abort has been handled, and nothing asked since

shared == <<abort, sid, speaking>>
heard == <<owed, latest>>
history == <<marred, silent>>
vars == <<shared, asr, receive, greeting, submitted, chat, textq, text, audioq, send,
          ctrl, device, events, ids, heard, history>>

Ids == 0 .. Events
Fresh == ids + 1

NoChat == [at |-> "idle", own |-> 0, id |-> 0, depth |-> 0, said |-> 0]
NoSend == [at |-> "idle", kind |-> "NONE", id |-> 0, n |-> 0]
NoSender == [id |-> 0, queue |-> <<>>, alive |-> FALSE, count |-> 0]
Piece(kind, id) == [kind |-> kind, id |-> id]
Audio(kind, id, n) == [kind |-> kind, id |-> id, n |-> n]

\* The flags, the queues and the threads' positions are those the code can
\* store.
TypeOK ==
    /\ abort \in BOOLEAN /\ speaking \in BOOLEAN
    /\ silent \in BOOLEAN /\ sid \in Ids /\ ids \in Ids /\ greeting \in Ids
    /\ asr \in {"idle", "interrupt", "announced"}
    /\ receive \in {"idle", "interrupt", "announced", "abort", "greeted", "reset"}
    /\ submitted \in 0 .. Events
    /\ chat \in [at : {"idle", "begun", "stream", "tool", "close"}, own : Ids,
                 id : Ids, depth : 0 .. MaxDepth, said : 0 .. Pieces]
    /\ textq \in Seq([kind : {"FIRST", "TEXT", "LAST"}, id : Ids])
    /\ text \in [at : {"idle", "synthesise", "last"}, cur : Ids, buffer : Nat, last : Ids]
    /\ audioq \in Seq([kind : {"MIDDLE", "LAST"}, id : Ids, n : Nat])
    /\ send \in [at : {"idle", "sending", "tail"},
                 kind : {"NONE", "MIDDLE", "LAST"}, id : Ids, n : Nat]
    /\ ctrl \in [id : Ids, queue : Seq([kind : {"MIDDLE"}, id : Ids, n : Nat]),
                 alive : BOOLEAN, count : Nat]
    /\ device \in {"listening", "speaking", "left"}
    /\ events \in 0 .. Events
    /\ owed \in [Ids -> Int] /\ latest \in Ids /\ marred \subseteq Ids

(* A connection whose components are initialised and that has been said    *)
(* hello.                                                                  *)
Init ==
    /\ abort = FALSE /\ sid = 0 /\ speaking = FALSE
    /\ asr = "idle" /\ receive = "idle" /\ greeting = 0
    /\ submitted = 0 /\ chat = NoChat
    /\ textq = <<>> /\ audioq = <<>>
    /\ text = [at |-> "idle", cur |-> 0, buffer |-> 0, last |-> 0]
    /\ send = NoSend /\ ctrl = NoSender
    /\ device = "listening"
    /\ events = 0 /\ ids = 0
    /\ owed = [i \in Ids |-> 0] /\ latest = 0
    /\ marred = {} /\ silent = FALSE

-----------------------------------------------------------------------------
(* The receive loop and the consumer of recognised speech. They interleave *)
(* at their awaits.                                                        *)

Counts == events < Events /\ events' = events + 1

\* startToChat(), which the one may be in while the other is.
AtStart(from, to) ==
    /\ \/ asr = from /\ asr' = to /\ UNCHANGED receive
       \/ receive = from /\ receive' = to /\ UNCHANGED asr
    /\ UNCHANGED <<sid, greeting, chat, text, send, ids, heard>>
AtReceive(from, to) ==
    /\ receive = from /\ receive' = to
    /\ UNCHANGED <<submitted, chat, text, send, latest>>

(* clear_queues(): both queues, and the sender with all it still has.      *)
ClearsQueues ==
    /\ textq' = <<>> /\ audioq' = <<>>
    /\ ctrl' = NoSender

(* The speech is given up. What the speech threads hold is not in a queue, *)
(* and a chat that waits to run is not touched.                            *)
GivesUpSpeech ==
    /\ abort' = TRUE /\ ClearsQueues
    /\ marred' = marred \cup {sid, chat.own, chat.id}

(* handleAbortMessage() up to its first await.                             *)
Aborts == GivesUpSpeech /\ device' = "listening"

(* startToChat(): an input is accepted, spoken or typed, and               *)
(* send_stt_message() tells the device that the answer begins. In a listen *)
(* mode other than manual (the device changes it at any time) the input    *)
(* first interrupts what is being said, and is announced behind the awaits *)
(* of this abort.                                                          *)
Accepts ==
    /\ Counts /\ AtStart("idle", "announced") /\ silent' = FALSE
    /\ device' = "speaking"
    /\ UNCHANGED <<abort, speaking, submitted, textq, audioq, ctrl, marred>>
AcceptsAborting ==
    /\ Counts /\ AtStart("idle", "interrupt") /\ silent' = FALSE
    /\ speaking /\ Aborts
    /\ UNCHANGED <<speaking, submitted>>
Announces ==
    /\ AtStart("interrupt", "announced")
    /\ speaking' = FALSE /\ device' = "speaking"
    /\ UNCHANGED <<abort, submitted, textq, audioq, ctrl, events, marred, silent>>

(* Behind its await startToChat() hands the query to the chat thread.      *)
(* Variant: a query that is handed over by its intent as well.             *)
EnqueuedTwice == submitted + 2
Enqueued == submitted + 1
Submits ==
    /\ AtStart("announced", "idle")
    /\ speaking' = TRUE /\ submitted' = Enqueued
    /\ UNCHANGED <<abort, textq, audioq, ctrl, device, events, marred, silent>>

(* An abort message of the device, up to its awaits and behind them.       *)
Interrupts ==
    /\ Counts /\ AtReceive("idle", "abort") /\ Aborts
    /\ UNCHANGED <<sid, speaking, asr, greeting, ids, owed, silent>>
AbortReturns ==
    /\ AtReceive("abort", "idle")
    /\ speaking' = FALSE /\ silent' = (asr = "idle")
    /\ UNCHANGED <<abort, sid, asr, greeting, textq, audioq, ctrl, device, events, ids,
                   owed, marred>>

(* send_fixed_tts_response(): the greeting of a wake word takes a sentence *)
(* of its own on the event loop, whatever the chat thread does.            *)
Greets ==
    /\ Counts /\ AtReceive("idle", "greeted")
    /\ abort' = FALSE /\ sid' = Fresh /\ ids' = Fresh /\ greeting' = Fresh
    /\ device' = "speaking" /\ silent' = FALSE
    /\ UNCHANGED <<speaking, asr, textq, audioq, ctrl, owed, marred>>
GreetingQueued ==
    /\ AtReceive("greeted", "idle")
    /\ speaking' = TRUE
    /\ textq' = textq \o [i \in 1 .. 3 |-> Piece(<<"FIRST", "TEXT", "LAST">>[i], greeting)]
    /\ greeting' = 0 /\ owed' = [owed EXCEPT ![greeting] = @ + 1]
    /\ UNCHANGED <<abort, sid, asr, audioq, ctrl, device, events, ids, marred, silent>>

(* reset_conversation() of a persistent websocket, on the device's         *)
(* goodbye, of which the device is told nothing. The ASR task is cancelled *)
(* and waited for; a provider that takes inputs in a task of its own       *)
(* cancels that one later, as it closes. An input that is being accepted   *)
(* is lost in either.                                                      *)
Resets ==
    /\ Counts /\ AtReceive("idle", "reset")
    /\ GivesUpSpeech /\ sid' = 0 /\ speaking' = FALSE
    /\ device' = "left" /\ asr' \in {asr, "idle"}
    /\ UNCHANGED <<greeting, ids, owed, silent>>
ResetReturns ==
    /\ AtReceive("reset", "idle") /\ abort' = FALSE
    /\ asr' = "idle" /\ device' = IF asr = "idle" THEN device ELSE "left"
    /\ UNCHANGED <<sid, speaking, greeting, textq, audioq, ctrl, events, ids,
                   owed, history>>

StartReturns == Announces \/ Submits
ReceiveReturns == AbortReturns \/ GreetingQueued \/ ResetReturns
Handler == Accepts \/ AcceptsAborting \/ StartReturns
           \/ Interrupts \/ Greets \/ Resets \/ ReceiveReturns

-----------------------------------------------------------------------------
(* The chat thread.                                                        *)

Asks(id) == owed' = [owed EXCEPT ![id] = @ + 1]
AtChat(from) ==
    /\ chat.at = from
    /\ UNCHANGED <<speaking, asr, receive, greeting, text, audioq, send, ctrl,
                   device, events, latest, silent>>

(* chat() at depth 0 clears the abort, and _chat() takes a new sentence.   *)
ChatBegins ==
    /\ AtChat("idle") /\ submitted > 0
    /\ submitted' = submitted - 1 /\ chat' = [NoChat EXCEPT !.at = "begun"]
    /\ abort' = FALSE
    /\ UNCHANGED <<sid, textq, ids, owed, marred>>
ChatOpens ==
    /\ AtChat("begun")
    /\ sid' = Fresh /\ ids' = Fresh
    /\ chat' = [NoChat EXCEPT !.at = "stream", !.own = Fresh, !.id = Fresh]
    /\ textq' = Append(textq, Piece("FIRST", Fresh))
    /\ marred' = IF abort THEN marred \cup {Fresh} ELSE marred
    /\ UNCHANGED <<abort, submitted, owed>>

(* A piece of the LLM's response is handed to the text thread.             *)
ChatStreams ==
    /\ AtChat("stream") /\ ~abort /\ chat.said < Pieces
    /\ chat' = [chat EXCEPT !.said = @ + 1]
    /\ textq' = Append(textq, Piece("TEXT", chat.id)) /\ Asks(chat.id)
    /\ UNCHANGED <<abort, sid, submitted, ids, marred>>

(* The end of a call: the one at depth 0 puts LAST, the others return into *)
(* the call that had asked for the tool.                                   *)
Last == IF chat.depth = 0 THEN <<Piece("LAST", chat.own)>> ELSE <<>>
LeavesCall == chat' = IF chat.depth = 0 THEN NoChat ELSE [chat EXCEPT !.at = "close"]

(* The response is over. One without speakable text is replaced, one that  *)
(* is a malformed call of a tool is not.                                   *)
EmptySaid == textq \o <<Piece("TEXT", chat.id)>> \o Last
ChatAnswers ==
    /\ AtChat("stream") /\ ~abort
    /\ \/ textq' = textq \o Last /\ UNCHANGED owed
       \/ chat.said = 0 /\ textq' = EmptySaid /\ Asks(chat.id)
    /\ LeavesCall
    /\ UNCHANGED <<abort, sid, submitted, ids, marred>>

(* The request or its stream fails; the user is told so.                   *)
(* Variant: without LAST, as on an abort.                                  *)
FailureSaidOpen == Append(textq, Piece("TEXT", chat.id))
FailureSaid == textq \o <<Piece("TEXT", chat.id)>> \o Last
ChatFails ==
    /\ AtChat("stream")
    /\ textq' = FailureSaid /\ Asks(chat.id) /\ LeavesCall
    /\ UNCHANGED <<abort, sid, submitted, ids, marred>>

(* The stream is left on an abort, without LAST.                           *)
ChatAborted ==
    /\ AtChat("stream") /\ abort
    /\ LeavesCall
    /\ UNCHANGED <<abort, sid, submitted, textq, ids, owed, marred>>

(* The model asks for tools; the thread waits for them or their timeout.   *)
ChatCalls ==
    /\ chat.at = "stream" /\ ~abort /\ chat.depth < MaxDepth
    /\ Counts
    /\ chat' = [chat EXCEPT !.at = "tool"]
    /\ UNCHANGED <<shared, asr, receive, greeting, submitted, textq, text, audioq, send,
                   ctrl, device, ids, heard, history>>

(* _handle_function_result(): either the tool's text is said, under the    *)
(* sentence that is current now, or the model is asked again, which goes   *)
(* on under the sentence that is current now.                              *)
Borrows(id) == marred' = marred \cup (IF id = chat.own THEN {} ELSE {id})
ToolSpeaks ==
    /\ AtChat("tool")
    /\ LET id == IF sid = 0 THEN Fresh ELSE sid IN
       /\ sid' = id /\ ids' = (IF sid = 0 THEN Fresh ELSE ids)
       /\ textq' = Append(textq, Piece("TEXT", id)) /\ Asks(id) /\ Borrows(id)
    /\ chat' = [chat EXCEPT !.at = "close"]
    /\ UNCHANGED <<abort, submitted>>
ToolContinues ==
    /\ AtChat("tool")
    /\ chat' = [chat EXCEPT !.at = "stream", !.depth = @ + 1, !.id = sid, !.said = 0]
    /\ Borrows(sid)
    /\ UNCHANGED <<abort, sid, submitted, textq, ids, owed>>

(* The calls return up to depth 0, which puts LAST, aborted or not.        *)
ChatCloses ==
    /\ AtChat("close")
    /\ textq' = Append(textq, Piece("LAST", chat.own)) /\ chat' = NoChat
    /\ UNCHANGED <<abort, sid, submitted, ids, owed, marred>>

Chat == \/ ChatBegins \/ ChatOpens \/ ChatStreams \/ ChatAnswers \/ ChatFails
        \/ ChatAborted \/ ChatCalls \/ ToolSpeaks \/ ToolContinues \/ ChatCloses

-----------------------------------------------------------------------------
(* The text thread: tts_text_priority_thread().                            *)

AtText(from) ==
    /\ text.at = from
    /\ UNCHANGED <<shared, asr, receive, greeting, submitted, chat, send, ctrl,
                   device, events, ids, heard, silent>>

(* A message of an aborted or of another sentence is dropped; the others   *)
(* fill the buffer, and a finished segment or the rest is synthesised.     *)
(* Variant: what LAST finds in the buffer is left there.                   *)
NoRest == FALSE
HasRest == text.buffer > 0
Dropped(message) == abort \/ message.id # sid
TextTakes ==
    /\ AtText("idle") /\ textq # <<>>
    /\ textq' = Tail(textq) /\ UNCHANGED <<audioq, marred>>
    /\ LET message == Head(textq) IN
       \/ Dropped(message) /\ UNCHANGED text
       \/ /\ ~Dropped(message) /\ message.kind = "FIRST"
          /\ text' = [text EXCEPT !.cur = message.id, !.buffer = 0]
       \/ /\ ~Dropped(message) /\ message.kind = "TEXT"
          /\ \E at \in {"idle", "synthesise"} :
               text' = [text EXCEPT !.buffer = @ + 1, !.at = at]
       \/ /\ ~Dropped(message) /\ message.kind = "LAST"
          /\ text' = [text EXCEPT !.last = message.id,
                        !.at = IF HasRest THEN "synthesise" ELSE "last"]

(* A segment becomes audio: an asset of the static soundbank, which looks  *)
(* again at who is speaking, or what the provider makes of it, if one of   *)
(* its attempts succeeds. Otherwise it is given up.                        *)
Enqueues ==
    audioq' = Append(audioq, Audio("MIDDLE", text.cur, text.buffer)) /\ UNCHANGED marred
GivesUp == marred' = marred \cup {text.cur} /\ UNCHANGED audioq
FromSoundbank == IF Dropped([id |-> text.cur]) THEN GivesUp ELSE Enqueues
FromProvider == Enqueues \/ GivesUp
Synthesises ==
    /\ AtText("synthesise")
    /\ text' = [text EXCEPT !.buffer = 0, !.at = IF text.last = 0 THEN "idle" ELSE "last"]
    /\ FromSoundbank \/ FromProvider
    /\ UNCHANGED textq
TextEnds ==
    /\ AtText("last")
    /\ audioq' = Append(audioq, Audio("LAST", text.last, 0))
    /\ text' = [text EXCEPT !.last = 0, !.at = "idle"]
    /\ UNCHANGED <<textq, marred>>
Text == TextTakes \/ Synthesises \/ TextEnds

-----------------------------------------------------------------------------
(* The audio thread and sendAudioMessage(), for which it waits.            *)

AtSend(from) ==
    /\ send.at = from
    /\ UNCHANGED <<abort, sid, asr, receive, greeting, submitted, chat, textq, text,
                   events, ids, history>>

AudioTakes ==
    /\ AtSend("idle") /\ audioq # <<>>
    /\ audioq' = Tail(audioq)
    /\ send' = IF abort THEN NoSend
               ELSE LET a == Head(audioq) IN
                    [at |-> "sending", kind |-> a.kind, id |-> a.id, n |-> a.n]
    /\ UNCHANGED <<speaking, ctrl, device, heard>>

Hears(id, n) == latest' = id /\ owed' = [owed EXCEPT ![id] = @ - n]

(* What is not of the current sentence is skipped.                         *)
Stale == send.id # sid
SendSkips ==
    /\ AtSend("sending") /\ Stale
    /\ send' = NoSend /\ UNCHANGED <<speaking, audioq, ctrl, device, heard>>

(* _get_or_create_rate_controller(): another sentence, or a sender that is *)
(* gone, starts a new sender, and what the old one had is dropped.         *)
NeedsReset == ~ctrl.alive \/ ctrl.id # sid
Controller ==
    IF NeedsReset THEN [id |-> sid, queue |-> <<>>, alive |-> TRUE, count |-> 0] ELSE ctrl

(* sendAudio(): the first packets at once, the others by the sender.       *)
SendsAudio ==
    /\ AtSend("sending") /\ ~Stale /\ send.kind = "MIDDLE"
    /\ send' = NoSend
    /\ LET c == Controller IN
       \/ abort /\ ctrl' = c /\ UNCHANGED heard
       \/ /\ ~abort /\ c.count < PreBuffer
          /\ ctrl' = [c EXCEPT !.count = @ + 1] /\ Hears(send.id, send.n)
       \/ /\ ~abort /\ c.count >= PreBuffer
          /\ ctrl' = [c EXCEPT !.queue = Append(@, Audio("MIDDLE", send.id, send.n))]
          /\ UNCHANGED heard
    /\ UNCHANGED <<speaking, audioq, device>>

(* LAST: the sender's queue runs empty, the device plays what it has, and  *)
(* unless the turn has changed the speech is stopped.                      *)
SendsLast ==
    /\ AtSend("sending") /\ ~Stale /\ send.kind = "LAST"
    /\ send' = [send EXCEPT !.at = "tail"]
    /\ UNCHANGED <<speaking, audioq, ctrl, device, heard>>
Stops ==
    /\ AtSend("tail") /\ ctrl.queue = <<>>
    /\ send' = NoSend
    /\ IF Stale THEN UNCHANGED <<speaking, ctrl, device>>
       ELSE /\ ctrl' = NoSender
            /\ speaking' = FALSE /\ device' = "listening"
    /\ UNCHANGED <<audioq, heard>>

(* The sender of the rate controller.                                      *)
SenderSends ==
    /\ ctrl.alive /\ ctrl.queue # <<>>
    /\ ctrl' = [ctrl EXCEPT !.queue = Tail(@), !.alive = ~abort]
    /\ IF abort THEN UNCHANGED heard
       ELSE Hears(Head(ctrl.queue).id, Head(ctrl.queue).n)
    /\ UNCHANGED <<shared, asr, receive, greeting, submitted, chat, textq, text,
                   audioq, send, device, events, ids, history>>

Playback == AudioTakes \/ SendSkips \/ SendsAudio \/ SendsLast \/ Stops

Next == Handler \/ Chat \/ Text \/ Playback \/ SenderSends

(* What goes on by itself: threads and coroutines run when they are ready, *)
(* and the LLM and the tools return, because both have timeouts. The user  *)
(* owes nothing.                                                           *)
Progress == StartReturns \/ ReceiveReturns \/ Chat \/ Text \/ Playback \/ SenderSends
Settled == ~ENABLED Progress

Spec == Init /\ [][Next]_vars

-----------------------------------------------------------------------------
(* A turn that is stopped by its own end has been heard whole: no piece of *)
(* its text was lost between the threads, in the queues or in the sender,  *)
(* unless it was aborted, its synthesis failed, or an answer that has lost *)
(* its own sentence spoke under it.                                        *)
WholeAnswer ==
    [][Stops /\ ~Stale /\ send.id \notin marred => owed[send.id] = 0]_vars

(* Once the device has heard a sentence, it hears nothing of an older one. *)
NeverBack ==
    [][latest' >= latest]_vars

(* Answers are heard whole, and in their order.                            *)
HeardInOrder == WholeAnswer /\ NeverBack

(* Whoever is told that an answer begins is told that it is over, unless   *)
(* he ends the conversation himself, and without waiting for the user: the *)
(* inputs of the receive loop and of recognised speech, aborts and         *)
(* greetings may cross, and an answer that loses its sentence to another   *)
(* one leaves the stop to that.                                            *)
ListensAgain == Settled => device # "speaking"

(* An abort ends the LLM and TTS tasks (core/handle/abortHandle.py:13):    *)
(* once it has been handled, nothing is heard until something is asked.    *)
(* This is what the comment says, and does not hold (README, 5.4).         *)
AbortSilences == [][silent => \A i \in Ids : owed'[i] >= owed[i]]_vars
=============================================================================
