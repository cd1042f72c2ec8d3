# Xiaozhi Desk Robot Server: TLA+ verification

A TLA+ development beside the cluster runtime of this repository
(`src/main/xiaozhi-server`, Python 3.11, asyncio). It models the voice path of a
conversation (session, recognition, language model, speech), the connection of the
standalone server with its registry, its robot's tools and its soundbank's files, the
camera, the shared configuration and the shared memory in the Cloud, the keys, the
manifests and the cloned nodes that rest on them, the rollout of a configuration to
the nodes, and the maintenance of a worker. TLC checks
small instances of every module, and TLAPS proves the safety of nearly all of them
for every value of their constants (section 4).

Abbreviations: paths are relative to `src/main/xiaozhi-server/`, and `cluster/`
is `core/cluster/`.

- [1 The system](#1-the-system): inventory of the components
- [2 The modules](#2-the-modules): what models what, and how
- [3 The runs](#3-the-runs): what is checked, bounds, fairness
- [4 The proofs](#4-the-proofs)
- [5 Disagreements found](#5-disagreements-found)
- [6 What is not modelled](#6-what-is-not-modelled)
- [7 The plan](#7-the-plan)

## 1 The system

One robot talks to a *transport core*. The core owns the conversation; *workers*
(any number, found over Core NATS, at most once delivery, ordered per connection)
do the heavy work for all cores: speech recognition, the language model, speech
synthesis. A *control plane* on each of three nodes edits a configuration that
lives on Google Drive and is published by compare-and-swap on a manifest; a *root
agent* on each node installs a published revision. Nothing in the conversation is
persistent; the configuration, the memory and the agent's journal are.

### Voice path

| Component | Code | State | Operations | Interacts with |
| --- | --- | --- | --- | --- |
| Voice session | `cluster/voice_turn.py`, `cluster/transport_core.py` | current task, generation, input queue, ending, state, idle claim, socket quota | listen start / stop, typed text, audio frame, abort, expiry, run with tool exit, failure report and cleanup, disconnect | starts one ASR stream, LLM stream and TTS turn after another; sends the device `tts`, `stt`, `llm` messages |
| ASR stream | `cluster/asr_client.py`, `asr_worker.py`, `asr_pipeline.py` | client's admission and sender; worker's turns with lease, queue, sequence number and activity | open, input, end, lease, cancel; execute, watchdog, fail, close; recovery with a bounded replay window | NATS requests one way, events the other |
| LLM stream | `cluster/llm_stream_client.py`, `llm_worker.py`, the two stream protocols | client's expected number, queue of two; worker's jobs, tombstones | admission, chunk with acknowledgment, tool calls, completion, cancellation, disconnection, stop | device tools are executed by the voice turn |
| TTS pool and worker slot | `cluster/tts_client.py`, `tts_worker.py` | pool lock, reserved nodes; worker's job, token, lease, one native thread | probe, admit, poll, cancel, lapse, synthesise, join, failover | refuses while ASR is active |
| TTS turn | `cluster/tts_turn.py`, `tts_playback.py`, `tts_segments.py` | segment buffer, lookahead semaphore, queue of jobs, failure future, encoder | feed, finish, dispatch, play, run, close | one TTS segment per sentence; packets to the device |

Hard here: five coroutines share one `VoiceTurn` with no lock, and every `await`
can resume in a session that has moved on; `asyncio` cancellation skips what stands
behind an `await` in a `finally` block; the native synthesis thread cannot be
interrupted; three segments are synthesised at once and must be heard in order;
messages, answers and cancellations are lost or overtake each other; leases and
deadlines race late answers.

Correct means: one turn at a time, none forgotten, resources outlive every turn
that uses them; audio heard in text order or not at all; a success rests on the
whole text, the whole utterance, every tool; every worker slot comes back however
the core disappears; the user is always answered for.

### Configuration and operations

| Component | Code | State | Operations and what is hard |
| --- | --- | --- | --- |
| Runtime apply | `cluster/runtime_apply.py`, `runtime_apply_agent.py` | each control plane's task and job; each node's journal, bundles and two services | apply, roll back, recover on all nodes; crashes between any two steps, late commands, saves meanwhile, several coordinators. Correct: never two revisions at once, success means serving, always recoverable |
| Cloud configuration | `config/google_drive_config.py`, `google_drive_transport.py`, `cluster/config_reconciliation.py`, `config_protocol.py` | desired, active and runtime snapshots in memory and in two files that two processes write; hint queue, highest hint | save by compare-and-swap with an uncertain outcome, refresh above a floor, hints, boot from the Cloud or without it. Correct: one sequence of saves, no node goes back, every node arrives |
| Soundbank synchronisation | `cluster/soundbank_reconciliation.py`, `config/cloud_soundbank.py` | target, ready index, cached blobs | a target superseded during its download. Correct: ready means the assets of what is wanted now |
| Shared memory | `config/cloud_memory.py`, `cluster/memory_service.py`, `memory_client.py` | known revision in two processes and a file; jobs, seen request ids | an edit by a conversation over NATS or by a browser; deadlines, repeated requests, uncertain publication. Correct: an edit counts at most once, upon what its author has seen, and a node forgets nothing |
| Worker maintenance | `cluster/maintenance.py`, `activity.py`, the `worker_*.py` services | queues bound, paused, draining, dirty; the activity file | pause and resume over a connection that fails; admissions under way. Correct: an acknowledged pause means at rest, a withdrawn one means back at work |
| Standalone server | `core/connection.py`, `core/handle/*`, `core/providers/tts/base.py` | `client_abort`, `sentence_id`, `client_is_speaking`, shared by three threads and the loop without a lock; two queues, a rate controller with its sender | query, abort, greeting, reset, tool calls. Correct: an answer is heard whole or given up on purpose, never behind a newer one, and the device listens again |
| Worker RPC | `cluster/worker_rpc.py`, `worker.py` | connection state, calls in flight | one request with a deadline each |
| Secret provisioning | `cluster/secret_provisioning.py`, `secret_transport.py`, `config/cloud_secrets.py`, `core/api/control_plane_settings.py` | a rotation per control plane; each node's secret file | a key is stored on every node, then the configuration that names it is published; nodes that answer late or not at all, saves meanwhile, publications without an answer. Correct: what is published is stored everywhere, and the operator is told the truth |
| Cloud provisioning | `config/cloud_provisioning.py` | receipt and bootstrap file | a node's Local state is taken into the Cloud, and again after a failure. Correct: one manifest for the memory |
| Recovery, restore, clone | `config/cloud_recovery.py`, `cloud_restore.py`, `cloud_clone.py`, `first_run.py`, `core/api/setup_handler.py`, `core/setup_server.py` | a journal and staged files per host | a new node gets into the configuration's manifest and the recovery descriptor, which can only be replaced one at a time, then the host becomes it; repeated after any failure, by several hosts. Correct: one host per node, and both files agree |
| Soundbank audio | `core/soundbank.py`, `core/soundbank_cleanup.py`, `core/utils/config_editor.py`, `core/api/settings_handler.py` | drafts per Settings page in memory, a journal of deletions | generate, optimize, save, discard, clean up, restart; a deletion is written down long before it is made. Correct: a file in use stays |
| Registry, notifications | `core/connected_devices.py`, `core/notification_audio.py`, the ends of `core/connection.py` | the robot's connection, audio to fetch | hello, replacement, three ways to close, a push during all of it. Correct: the newest connection is known, the others end |
| Device tools | `core/providers/tools/device_mcp`, `unified_tool_*.py` | client, cached lists, calls by number | discovery beside the making of components; late answers. Correct: the model is given the robot's tools, a call its own answer |
| Device MCP, Vision | `cluster/device_mcp.py`, `vision_*.py` | pending calls by number, discovered tools, camera session, the worker's job and activity | camera call, upload, admission, chunk, finish, cancel, watchdog, stop; an upload that outlives its call, a cancellation at any await, a job whose client does not know of it. Correct: a photo belongs to the open call, the worker's count to its job, and the worker is free again |
| Server tools, emotion, diagnostics | `cluster/server_tools.py`, `session_config.py`, `voice_diagnostics.py` | per request | one bounded request each |
| Control plane HTTP, Settings, bootstrap | `core/control_plane.py`, `core/api/*`, `cluster/mqtt_bootstrap.py` | none of their own | composition of the stores |
| Providers, plugins | `core/providers/*`, `plugins_func/*` | adapters of engines | called behind the interfaces above |

## 2 The modules

```
VoiceSession ---- sees a turn's answer as start, stop, close of ----> TTSTurn
  |                                                                    |  implements OrderedPlayback
  |-- listens through --> ASRStream                                    |-- a job of a segment is --> TTSSegment
  |-- asks through -----> LLMStream  (implements TextStream)

Connection                    the standalone server's conversation, instead of VoiceSession
  |-- is opened, replaced and closed by --> Reconnection
  |-- calls the robot's tools of ---------> DeviceTools
SoundbankCleanup              the files that it plays from

CloudConfig   implements RevisionLedger (saves of the configuration)
CloudMemory   implements RevisionLedger (edits of the memory)
SecretProvisioning  stores on all nodes what a save of CloudConfig will name
CloudProvisioning   makes the manifest that CloudMemory works on
Vision        is a tool call of LLMStream, executed by VoiceSession
CloudClone    makes a node of CloudConfig on another host
RuntimeApply  installs what CloudConfig publishes
Maintenance   takes a worker of ASRStream, LLMStream, TTSSegment out of service
```

The voice modules are models of their own, which meet in the steps one makes of
the other: a job of `TTSTurn` ends because `TTSSegment` shows that every segment
is answered for; `VoiceSession` lets recognition and the language model end in
the ways `ASRStream` and `LLMStream` allow. Composing them in one state space is
out of TLC's reach. The two stores are checked against one abstract specification,
`RevisionLedger`, because they make their editors the same promise.

A run names few properties, each the conjunction of named parts that belong
together (`TurnSafe` is `Lookahead /\ SuccessMeansHeard /\ NothingSurvives /\
NothingBeyondFailure`); the parts are stated and commented in the module.

Conventions. Code between two suspension points of the event loop is one action,
named for what happens there. A coroutine's position is a variable (`dispatch`,
`pc`, `at`); a pending `CancelledError` is one too, because it is delivered at the
next suspension point and may be raised inside a `finally` block. Definitions
that a comment calls *variant* are the plausible mistakes which the properties
have to detect (`PROJECT.json`, `mutants`); nothing else uses them.

### TTSTurn, OrderedPlayback

`ready`, `rest`, `finished` are the `SegmentBuffer`; `popped`, `slots`, `queue`,
`changed`, `failure` are `TTSTurn`'s fields; `dispatch`, `play`, `run`, `owner` are
where `dispatch()`, `play()`, `run()` and the voice turn that feeds and closes it
are suspended; `speaker`, `shown`, `heard` is what the device has been sent. A
text is the number of its segments. `Feed` splits any number of segments, `Finish`
flushes the rest, `DispatchSegment` takes a slot, pops and queues a job, `JobEnds`
is the end of a synthesis (success, failure or cancellation), `PlayTakes` to
`SendPackets` are `play()` with `TTSPlayback.segment()`, `RunJoins` and its
neighbours the join, failure and cleanup of `run()`, `Close`, `CloseJoins`,
`CloseReturns`, `CloseCancelled` are `close()`. `OrderedPlayback` says what the
device is promised: speaker started once, sentences announced and heard one after
another, stopped only behind the whole text. `TTSTurn` implements it under
`known <- ready, whole <- finished /\ ~rest`.

### VoiceSession

The websocket handler (`H`), the idle watchdog (`W`) and the runs they start.
`run[r].at` is where `VoiceTurn.run()` of the r-th turn is suspended, in its body
(`InTry`) or its `finally` block (`InFinally`: its seven awaits are five positions).
The generation counter is the set `current`. `abort()` is four actions because it
awaits three times: `AbortBegin` makes every turn stale and, if a live one may have the
camera open (`InCall`), waits for the end of its upload (`pc = "camera"`); `AbortTakes`
then takes the present turn and cancels it; `AbortJoined` is behind the turn's end,
`AbortSilence` behind the device's silencing. `baton`
glues steps of one coroutine that the code runs without suspension. `FinalBegin`,
`FinalAbort`, `FinalRelease` are the handler's cleanup. Cancellation of the handler
(`Cancelled`) is possible wherever it waits, in its cleanup too: `cut["H"]` then says that
its last `abort()`, or what was left of it, is given up. The idle period runs out (`GoQuiet`) only
while the watchdog is in its loop: behind it nobody reads the time again. The names that
`LLMStream` has too are qualified (`SessionInit`, `LiveRuns`, `NoRun`, `interrupted`), so
that `Conversation_proofs` extends both modules.

Left out: the hello exchange; failing emits on an
open socket; the transcript's content; ASR recovery (see ASRStream). Python 3.11's
`wait_for` may swallow a cancellation that arrives together with the result; that
is not modelled.

### LLMStream, TextStream

`core[r]` is the client of a request with its expected number and result,
`inbox[r]` its queue, `job[r]` the worker's job, `wire`, `reply`, `request`, `hint`
the messages under way, `tombs` the cancellations the worker remembers. One worker
stands for all of a queue group, for they share nothing but the cancellation
broadcast. A chunk is its number; a tool counts as run from when it is taken up.
`TextStream` promises that what is heard is a
gapless prefix of what was made, that the provider is at most one chunk ahead, and
that only a text heard to its end is a success.

Left out: the expiry of tombstones and their limit of 128, chunk splitting, the
legacy single-response request.

### TTSSegment

Several cores' pools (`lock`, `reserved`), workers (`job`, `phase`, `offset`, `native`,
`cancel`) and attempts with their messages. `at[s]` walks `TTSPool.generate()`:
reserve, lock, probe, pick, admit, fetch, poll, release. `phase = "join"` is a
cancelled job whose native thread still runs. PCM is a number of chunks, so
checksums are abstracted; which idle worker is preferred is left open.

### ASRStream

`VoiceTurn.transcribe()` with the admissions it opens (`core`, `sent`), the
messages, and the worker's turns with their three coroutines: `execute()` (`x`),
the lease watchdog (`watch`) and the service's one input handler (`handler`).
`After` is what follows a failed admission: recovery with a bounded replay window,
or the end. Partial transcripts, speech events and the wake-word's second
listening are left out; lease requests are one step; the core's 41 s timeout is
one of the failures of its admission; an overflow of the core's queue is
VoiceSession's.

### RuntimeApply

`task[c]` is the background task of control plane c (`_run` or `_recover`): the
command it is at (`act`, with `Then` the one behind it), the nodes it is for and those
still left, which nodes it knows to be prepared (`got`), and whether it waits for an
answer. `accepted[n]` are the commands whose revision node n's
control plane still confirms with the Cloud (one after another, under the
reconciliation's FIFO lock), `queue[n]` those that wait for the agent's lock and
`busy[n]` the command it executes with the steps left, so that a crash can stop it
between any two of them. `journal`, `bundle`, `worker`, `core` are the node. `bundle =
Half` means that some of the five files are replaced. `Demands` are the phase
checks of `dispatch()`, `MayBoot` is `boot_guard()`. Faults: a command that is lost
or given up while the node goes on with it, a service that fails, an agent or
control plane that restarts, a node that loses power.

Nothing keeps two control planes from starting side by side: `start()` asks the others
for their jobs and reads the journals, and what it has read is then acted upon. A
control plane that looks while another is at work is in `stale`, for the other's job may
answer late (`job()` takes a timeout for no job, lines 115-119), and the journals it reads may be of
different moments; behind it any start, of any rollback of what the journals may have
named, is possible. `together` remembers that one went ahead so. Such a start counts for
`Beside` faults, which only bounds the run.

Abstracted: candidate validation (`VoicesDiffer` or not), replay identifiers (no
command is repeated by the code), the permit's 30 seconds, an error while writing
the journal itself. `start()` reads all journals in one step. Two nodes stand for
the three the code requires: the coordinator treats its nodes alike, in a sorted
sequence, so two have a first and a last one. What is proved is proved of every
number of nodes.

### Connection

The receive loop and the consumer of recognised speech (`receive`, `asr`), the chat
thread (`chat`, with its depth of tool calls), the text and the audio thread of the
speech provider (`text`, `send`) with their queues, `sendAudioMessage()` and the
rate controller with its sender (`ctrl`). `abort`, `sid` and `speaking` are the three
fields that all of them share; each action is what one of them does between two
accesses of shared fields or two suspension points. `owed`, `latest`, `marred` are
histories: what was asked for and not heard, by sentence; what was heard last; where
something was given up on purpose.

`startToChat()` has two callers, the receive loop (a typed text, a detected wake word) and
the consumer of recognised speech, and each may be suspended in it while the other is
(`AtStart`): both may abort, and both announce an answer. `reset_conversation()`, on the
device's goodbye, gives the speech up, cancels the consumer wherever it is, and tells the
device nothing: `device = "left"` is a device that has ended the conversation itself, until it is
told of the next answer.

Left out: the mode in which the intent model answers by itself, captions, the
closing of the connection, the recognition channel, echo data, playback of files; a typed
input that was deferred until the components are ready, which is a third caller of
`startToChat()`; the resets that the server itself decides on; the recorded answer to a
spoken wake word. An abort's flag and its clearing of the queues are one step.

### RevisionLedger, CloudConfig

`RevisionLedger` is what a document edited by several nodes promises: the saves form
one sequence, each is published on top of all before it or never, nobody is told
anything false; only an operator who sets the manifest back takes saves away.

A configuration is the sequence of the saves it was made by. `cloud` and `etag` are
the manifest; `puts` the conditional publications with their answers, so that a save
can time out before or behind its effect; `desired`, `known` and the two files are
the node's snapshots, written by its control plane and by its conversation core;
`op` is the save under the node's lock, `pending` and `highest` the hint queue; `app`
is the core's boot, from the Cloud or from the last configuration that served; `bank`
the soundbank's target, its thread and its index. A read of the manifest is one step
because the code repeats it until its ETag stands still; uploads and downloads name
immutable content.

Left out: layers, secrets and validation of a configuration, the legacy layout, a
save that fails before its publication; a snapshot is captured in the step of the
operation.

### CloudMemory

The same for the memory document: `current` and `file` per node (the file is also
written by the node's core, `AppSyncs`), the service with its jobs, its lock and the
request ids it has seen, the client with its deadline. A request may be delivered
again while it waits, is executed, was answered, or was forgotten by a restart. Left
out: what an edit does to the entries, recall, policy, the first provisioning.

### Maintenance

`request` is the controller's file; `pc`, `want`, `draining`, `paused`, `dirty`, `sub`
are `Admission.run()` with its flush (`pong`); `routed` and `wire` the server's side of
the subscriptions; `cb` and `job` the admission callback and the admitted job of each
kind; `report` and `flag` the activity file and its writer, a thread that reads the
flag before the counts. The controller asks and withdraws whenever it likes. `word` is a history:
how far the worker's word of a pause has come since the present request, from the loop's
reading of it (`read`) to the file (`written`) and to the controller, which holds the node on it (`taken`). A synthesis subject belongs to its node and stays
subscribed: its service refuses by itself. Left out: the orderly stop of the worker,
the ping, other reasons to refuse, the file of a dead process (it names another
instance).

### SecretProvisioning, CloudProvisioning

`rotation[c]` is `provision()` on control plane c: the nodes that have not answered yet
and whether one of them failed; `wire` the requests, which a node may handle long after
its five seconds; `stored` the secret files. The configuration is the sequence of the
keys that it was rotated to, and `puts` its conditional publications, as in
`CloudConfig`. `told` is what the Settings page says of a key: saved, not changed, or
not confirmed. Left out: the query of a key's status; a second attempt is another key,
because the code makes a fresh reference for each.

`CloudProvisioning` is one command, `run.at` being the call it waits for, and what
survives it: `receipt`, written before the manifest is created and behind it, `boot` and
`drive`. `Recovers` is the operator who looks for a manifest that may have been created.
The configuration is reduced to whether it says what the Local one does. Left out: the
recovery descriptor, the upload of immutable content (a failure there is one before the
publication).

### Vision

`active`, `consumed`, `busy` are the camera flags of `DeviceMCP`, `upload[c]` the HTTP
task that brings the photo of call c, `doomed` the tasks whose cancellation is pending,
`seen` and `servedFor` what the task read when it arrived (the generation, in the code;
the call, for the property). `known` and `text` are locals of `explain()`. On the worker,
`jobs` and `count` are the job and what the service has added to the shared activity,
`task` the inference with its done-callback (`gone` is behind it), `late` a job that the
watchdog will find. Left out: the relay between nodes, malformed input, images of more
than one chunk, the discovery of tools.

### CloudClone

A call of `clone_cloud_node()` on each host, suspended where `run[h].at` says: before each
request to the Cloud and behind each file it writes. `manifest` is the configuration's
pointer; `content` what matters of the file, whose assignment the new node's is and how many
saves of others are in it (that every clone's assignment is *equal* is why `Accepts` compares
manifests). `descriptor` is the recovery descriptor with its ETag, `puts` the conditional
replacements on their way, whose host may have died. `journal[h]` and `local[h]` survive the
call; it is repeated as often as the faults allow. Left out: a plain restore, the backup of
a node that exists, the check of a pending restore for another identity (a host asks for one
node).

### SoundbankCleanup

`disk` gives the file under each name a number, which stands for the size, times and inode
that a record keeps; `saved` and `runtime` are the two configurations that name files,
`page` the entries of an open Settings page that are not saved, `drafts` and `owned` what is
protected for it in memory, `journal` the deletions written down. `op` is the operation that
holds the lock, suspended where the process may end or a file may be copied into the directory
by hand, under a name that no configuration, page or operation under way has made. Left out:
symbolic links and a changed directory (a record is refused), a save by another process, which
no lock of this one excludes, and a copy made between `os.stat` and `os.unlink`
(`core/soundbank_cleanup.py:132-139`), two calls that no await separates: the file copied there
in between would be deleted.

### DeviceTools

`client` is `conn.mcp_client`, with the pages gathered so far, `declared` the tool handler's
cached list, which is what the language model is given. Two threads make that list when it is
missing, the one that makes the components and the chat; each reads the client's tools
(`Declares`) and stores them later (`Declared`), and the event loop may install the robot's
inventory in between (`overtaken`). `asked` are the requests the robot has
not answered, in any order, `resting` the initialization answers in their `sleep(1)`. The
cache file is enabled and holds nothing, an older inventory or the current one. Left out:
the translation of names and schemas, other kinds of tools.

### Reconnection

Per connection: `socket`, where the receive loop is (`receive`), and where each of its four
possible `close()` calls is (`closer`): by the loop's end, by the timeout task, by the task
that `register_connected_device_after_hello()` starts, and by `end_conversation()` or
`reset_conversation()` of a connection that is not persistent. `closing` is `_close_lock`,
`completed` `_close_completed`. `waiting` is the registry's `asyncio.Lock`, first come first
served, its head the holder; only `send_if_current()` is suspended while it holds it.
`push` and `file` are notifications and their audio, which is discarded ten minutes behind its
generation, that is, at any moment. Left out: a second hello in one
connection, a conversation as a reason to refuse (any refusal is possible), and what
`_close_resources()` releases besides the socket.

### MCParts, MCSafety

SecretProvisioning, CloudProvisioning, Vision and one instance of TTSSegment have nothing
in common, and their instances are small: `running` says in the initial state which of them
runs, and one run checks them all. An action of one leaves the variables of the others
alone, so its states are the sum, not the product, of theirs. `MCSafety` does the same for
the four modules above and another instance of TTSSegment, whose properties are about
states and steps only, so that interchangeable segments and cores may be identified.

## 3 The runs

All runs use `Next` relations whose every action fires; deadlock is not checked
because each instance ends when its bounded inputs are used up.

| Run | Distinct states | Shows |
| --- | --- | --- |
| `TTSTurn` | 296 k | one answer of up to five segments: `TurnSafe` (lookahead, success means heard, nothing survives, nothing beyond a failure), `OrderedPlayback`, and `TurnEnds`: what was handed over is processed, a finished text ends, a failure reaches its owner |
| `VoiceSession` | 1.4 M | two messages, expiry, one cancellation, a lost connection: `TurnOwned` (no turn is orphaned, one at rest, `stop()` finds its queue, the quota covers all work but a stale turn that a handler cancelled in its last wait for the camera has not yet taken) and `NoDeadlock` |
| `LLMStream` | 193 k | one request, two chunks, two tool calls, one disconnection: `NothingTwice` (tools once, a cancelled request never runs), `TextStream`, and `BothEnd`: jobs released, callers told |
| `MCSafety` | 1.6 M, symmetric | two segments of one or two cores at one worker: `SlotUndisturbed` (one native call, reservations by their holders, the lock, and no late message that touches another attempt's job); two hosts that clone one node, one save and one backup of others, one fault: `CloneIsOwn`; two Settings pages, two names, two files, one restart or failure: `AudioKept`; two calls and an inventory of two pages, one loss: `ToolsAnswer`; two connections, four ways to close each, and a notification: `OneConnection` (the newest is known, and by their guards somebody can go on until the others have ended) and `NobodyStuck` (the same by the steps themselves, with `ENABLED`) |
| `ASRStream` | 1.5 M | two frames and the end, two admissions, one fault: `AudioOnce` (whole utterances, nothing replayed) and `NoneLeftBehind` |
| `ASRStream_released` | violation | see 5.2 |
| `RuntimeApply` | 340 k | two nodes, two applies, a save, two faults, or a start beside another one: `AppliesWhole` (nothing half replaced ever runs or would boot; and until a start goes ahead beside a control plane at work, one revision runs anywhere and success means serving) and `Recovered` (no transaction stays incomplete, unless two are at once) |
| `Connection` | 1.3 M | every order of three inputs, aborts, greetings, resets and tool calls: `HeardInOrder` (whole, and never an older sentence behind a newer one) and `ListensAgain` (whoever is told that an answer begins is told that it is over, or has left) |
| `CloudConfig` | 365 k | two nodes, two saves, one fault of any kind: `RevisionLedger`, `WorksForward` (no node goes back; without the Cloud a core boots only what has served; a ready soundbank is the current one), `Converges` |
| `CloudMemory` | 111 k | two nodes, an edit of a conversation and one of a browser, two faults: `RevisionLedger`, `NothingOverwritten` (an edit counts on what its author has seen, a node forgets nothing), `Converges` |
| `MCMaintenance` | 153 k | `Maintenance` alone: a queue of recognition and a synthesis subject, two pauses, one fault: `LoopAgrees`, `PauseHolds` (a node held on a word given since it was asked is at rest) and `Obeys`: a pause is acknowledged, a withdrawn one ends |
| `MCParts` | 179 k | two rotations of a key on three nodes, two of which coordinate: `RotationIsWhole` (what is published is stored on every node, and what the operator is told is true); one provisioning with three faults: `OneAuthority`; two photos, one fault: `PhotoOwned` (camera and worker); one segment at two workers, one fault; `SlotsFreed`: the slots of both kinds of worker, and an answer for the segment |

Bounds, and why they suffice for the cases the properties are about:

- `TTSTurn`: the real lookahead of 3 with up to five segments: the queue fills, the
  semaphore blocks, and `MaxSegments = 4` makes the refusal of a fifth reachable.
- `VoiceSession`: every message starts at most one run, so two messages and the
  farewell are three turns that can follow each other while the first still cleans
  up. A third message was not checked.
- `LLMStream`: two chunks are a first and a last one, and a tool may be asked for
  again behind the first answer. Requests share nothing but the worker's job limit, so
  one is enough for these properties; the limit itself is not exercised.
- `TTSSegment`: contention needs two segments at one worker, failover one segment at
  two (in `MCParts`); both with one fault anywhere. One attempt of a segment per node is under way
  at once; a forgotten one is used again.
- `ASRStream`: a worker queue of one, so that two frames overflow it; two admissions;
  a worker limit of one turn, so that a lingering first admission makes the second one
  busy. With a limit of two turns and one frame, where both run side by side,
  `AudioOnce` was checked separately.
- `RuntimeApply`: two applies, two faults and a save at any moment, in any combination. `Beside = 2`
  lets one start go ahead beside another control plane when nothing else has failed; with
  `Beside = 1` two such starts, or one with a fault, were checked separately (1.75 M
  states). Two nodes are a first and a last one of the sorted sequence.
- `Connection`: three events share one bound, so that an abort, a greeting or a reset
  meets the answer of one query or stands between two; one tool call, one piece of
  text per response, one packet ahead of the rate.
- `CloudConfig`, `CloudMemory`: two saves are needed for a conflict and for an order; two
  nodes differ in what they hear and which services they run. The second node of
  `CloudConfig` is the one that hears hints and caches soundbanks, the first one the one
  whose core boots; three nodes were not checked.
- `Maintenance`: a removed queue and a subject that stays, both with a job that is
  counted behind its admission; a third kind takes the run past a million states.
- `SecretProvisioning`: two coordinators, each of which may rotate a key of its own, and a
  node that only stores. `CloudProvisioning`: three faults interrupt a run, its recovery
  and the next run; the Cloud's revision moves twice, the memory once.
- `CloudClone`: two hosts, either of which may be interrupted once and repeat its call; one
  save and one backup of others may come between any two of its requests, and a third
  upload of a configuration is not made.
- `SoundbankCleanup`: two names, one of which may be optimized into the other, and two files in
  all, so that a name can be used again; two pages, because one must not delete the other's.
- `DeviceTools`: two calls, because the discovery uses two IDs; two pages, an earlier and a last
  one. `Reconnection`: two connections, one notification; the first
  connection may be one of a single conversation (`Passing`); a third connection was not checked.
- `Vision`: two calls, whose questions may be the same: the upload of the first may be
  anywhere when the second is made. The worker holds one job at a time by itself.

Fairness. Coroutines of an event loop run when they are ready, hence weak
fairness of each coroutine's steps; the steps of two coroutines are never one
fairness condition unless the code hands over from one to the other. Deadlines are
code: `asyncio.wait_for` ends what it guards (`GivesUp`, `Expires`, `Lapses` of an
abandoned lease, the jobs of `Maintenance`, and a job of `Vision`, whose watchdog looks
four times a second and whose inference is bounded by its deadline). Periodic refreshes recur, hence strong
fairness of a successful one (`Reconciles`, `Refreshes`): a Cloud that never answers
again is not assumed to. Nothing is asked of failures, cancellations, users or the
controller, with these exceptions: TTSSegment's requests are delivered unless lost,
which a loss may pre-empt; the subscriptions of `Maintenance` reach the server and its
messages the worker while it is connected; RuntimeApply's operator presses Recover
again while a transaction is incomplete, because the control planes never do by
themselves.

`VoiceSession`, `ASRStream`, `Connection` and `Reconnection` state what must happen in the end as an
invariant instead: `Settled` is the state in which nothing but users, faults and the passing of
time can act (`~ENABLED Progress`), and the property says what has been done by
then (in `Connection` it is `ListensAgain`, in `Reconnection` `NobodyStuck`). This is as strong as liveness under weak fairness of `Progress` only if
progress cannot go on forever. (In `Reconnection` it cannot: each step of it takes a
connection, a closing call or a notification to a later stage.) On smaller instances TLC confirmed this: `ASRStream`
with one frame satisfies `<>[][FALSE]_vars` (367 k states), `VoiceSession` with one
message `<>[][~Progress]_sessionVars` (133 k states), and `Connection` with two events the
same of its own (22 k states).

## 4 The proofs

Each component's proofs stand in a module of their own beside it (`<Module>_proofs`);
those that `MCParts`, `MCSafety` and `MCMaintenance` run are proved together in `Parts_proofs`,
`LLMStream` and `VoiceSession` in `Conversation_proofs`. The theorems
are about the same specifications that the runs check, with no bound on the constants
beyond the named assumptions of the modules: any number of nodes, requests, turns,
segments, frames, edits and faults, queues and limits of any size.

| Module | Assumes | Proved |
| --- | --- | --- |
| `TTSTurn_proofs` | `LookaheadAssumption`, `SegmentAssumption` | `TypeOK`, `TurnSafe` and its parts, the order of the queue, `DeviceSpec` (implements `OrderedPlayback`) |
| `Conversation_proofs` | `SessionAssumption`, `StreamAssumption` | of `VoiceSession`: `SessionTypes` (its type invariant), `TurnOwned`; of `LLMStream`: `TypeOK`, `NothingTwice`, `TextSpec` (implements `TextStream`) |
| `ASRStream_proofs` | `ASRAssumption` | `TypeOK`, `AudioOnce` |
| `CloudConfig_proofs` | `CloudConfigAssumption` | `TypeOK`, `LedgerSpec` (implements `RevisionLedger`), `WorksForward` |
| `CloudMemory_proofs` | `CloudMemoryAssumption` | `TypeOK`, `LedgerSpec` (implements `RevisionLedger`), `NothingOverwritten` |
| `Connection_proofs` | `ConnectionAssumption` | `TypeOK`, `HeardInOrder` and its parts |
| `RuntimeApply_proofs` | `RuntimeApplyAssumption` | `TypeOK`, `WholeBundle`, `together \/ OneRuntime`, `AppliesWhole` |
| `Parts_proofs` | `PartsAssumption`, `SafetyAssumption`, `SegmentAssumption`, `MaintenanceAssumption` | `RotationIsWhole`, `OneAuthority`, `PhotoOwned`, `CloneIsOwn`, `ToolsAnswer`, `AudioKept`, `SlotUndisturbed`; `LoopAgrees`, `PauseHolds` |

Hardly any of these properties is inductive: each speaks of what an actor ends up with, and a
step from an arbitrary state could break it. In every module `IInv` is the type
invariant with the parts that hold the property together; TLC checked it as an
invariant of the module's run, `InitInv` and one lemma or step per action prove it
inductive, and the theorems follow.

**TTSTurn.** `Lookahead`, for one, says nothing of where a segment is
between its dispatch and the end of its playback; a step of `play()` from an
arbitrary queue could break it. `IInv` adds what holds the parts together:

- `QueueInv`: the queue is exactly the run of segments behind the player (`Position`)
  up to the last one handed over (`Handed`), and the end marker is last and only
  behind a dispatcher that is done;
- `SlotInv`: `slots + (popped - heard)` is constant, also in the states in which the
  dispatcher ends holding a slot;
- `PlayInv`, `DeviceInv`: the player works on `heard + 1`, and what the device was
  told is determined by where the player is suspended;
- `JobInv`: what has been announced had been synthesised;
- `RunInv`: `run()` ends behind everything it started, and the owner behind `run()`;
- `BufferInv`: the remainder is flushed once, after `finish()`.

`InitInv` and `StepInv` (one step per action) give `Invariance`; the theorems
follow from it. `ImplementsOrderedPlayback` uses `DeviceStep` (each of the actions
that speak to the device is a step of the abstract specification, under `IInv`) and
`DeviceStutter` (no other action touches its variables).

**VoiceSession** (in `Conversation_proofs`). The handler and the watchdog may both end a turn. What makes `TurnOwned` hold is
that a run which lives is the present task or is awaited (`TaskInv`), and that where a turn
is about to be created there is no task, except the farewell. `ActorInv` ties the two
actors to each other (a watchdog that aborts has claimed the session; it can wait only
for a turn which the handler was not aborting), `QueueInv` gives a turn that still listens its
queue, `CountInv` pays every run with a message or the expiry, and `QuotaInv` returns
the quota behind everything else. An actor that waits for the camera holds nothing: the turn is
still the session's task, though it is current no more.

**LLMStream** (in `Conversation_proofs`). The invariant is per request and about the one event in flight: the
worker's sequence number counts what was acknowledged (`JobInv`), only the event that the
job waits for and one error behind it are under way (`FlightInv`), so that what was heard is
all that was made but at most the last chunk (`HeardInv`); an acknowledgment that fits the
job's event is one of this very event (`ReplyInv`), which is what rules out the late or
repeated ones; and nothing is made behind the whole text (`WholeInv`). `ImplementsText` takes
every action to a step of `TextStream` or a stutter.

**ASRStream.** The invariant follows a frame from the client's queue (`QueueInv`, `SentInv`,
`CoreInv`) over the wire (`WireInv`) into the turn (`TurnInv`): what a turn was fed and has
queued is, in order, what it was sent so far. `HeardInv` then says that a transcript which
the core has, or is about to have, is of a turn that was fed everything that it will ever
be sent; the sender that goes on behind the failure of its admission is the difficult case.

**CloudConfig, CloudMemory.** A publication extends what the manifest was when it was
sent, there is one of them for a save, and until it is handled its editor has not been
refused (`PutInv`, `OpInv`; in `CloudMemory` also where a request is: `RequestInv`, `OpenInv`,
`SpentInv`). With that each step is one of the ledger's. `ServedInv` (what a node falls back
on was served) and `AheadInv` (what an edit publishes is ahead of all that its node has)
carry the properties about nodes: that a step never takes one back is proved as an action
property from the invariant in both states.

**Connection.** The invariant is an account of the sentence that is current, kept only as long
as nothing of it was given up (`Good`): what the chat thread asked for and the device has
not heard is in one of the four queues, in the text thread's buffer or in the hands of the
audio thread, and the LAST is behind all of it (`Sound`, with sums along each queue);
`ChatInv` says what the thread has still to ask for. So a LAST which reaches the audio
thread's stop finds nothing owed. For `NeverBack`, `OrderInv` says that sentences stand in
each queue in the order in which they were given out, and none behind is older than
one in front of it, up to what was last heard.

**RuntimeApply.** `LInv` holds whoever starts what: a command has at most one task waiting for it
(`LineInv`), a task is where its kind of way can be (`TaskInv`), and a node's journal says
what its bundles are, whole or not, whatever its agent has under way (`NodeInv`). It gives `TypeOK`
and `WholeBundle`. `OneRuntime` speaks of all nodes at once and needs `MInv`, which
holds as long as no start has gone ahead beside another control plane (`~ together`; behind
one the property is false, 5.3). Prepares then come in the order of the operations (`QueueInv`,
`OrderInv`), an operation goes forward with one kind of command at one node (`UniqueInv`),
a task knows what the journals say of what it has behind it (`CourseInv`), and the cluster is in one
of two modes. In `Calm(v)` every node is between operations or can only go back, and
whatever runs or may be started runs v. In `Going(k, R, P)` every node has installed
operation k's bundles, and nothing but R runs or is started; to go back to P the nodes are stopped
first, in their order. It is calm again when the last one is stopped, with P, or when the next
operation takes the first journal, which it can only do of a completed one, with R. The commands
that a given-up operation has left behind are what makes this long: each of them meets a
journal that refuses it, or does what the mode allows. `CompleteMeansServing` follows because a task
with all its answers sound has every journal complete, and nothing has been stopped since.

**Maintenance** (in `Parts_proofs`). `RoundInv` and `RestInv` say what a round of the loop has told the services
and what a loop at rest has left; `RequestInv`, that while a request lasts the loop
works for a pause only and what was said is so; `WordInv`, that a word given since the request
was given by a loop that had closed its doors (`DoorsShut`) and waits at rest.

**Parts.** A component's part of `MCParts` is an instance of its module, and no other part
touches its variables; so each has an inductive invariant of its own, and a step of another
component is a stutter. `RotationIsWhole` rests on a publication being of a key that every
node has (`PublicationInv`); `OneAuthority` on the receipt's being written first
(`ReceiptInv`); `PhotoOwned` on what an upload read when it arrived (`CameraInv`, `WorkerInv`);
`CloneIsOwn` on which host's file the manifest names and what a conditional
replacement on its way may still do (`FileInv`, `PutInv`, `OwnInv`); `ToolsAnswer` on which
request an answer can be of (`SourceInv`); `AudioKept` on nobody's wanting the file that an
operation is about to delete (`OperationInv`, `HandInv`). `SlotUndisturbed` has two halves:
the lock, the reservations and the one native call (`OwnerInv`, `HolderInv`, `EngineInv`), and
`CalmInv`: as long as nothing has failed or been given up, a segment and the worker of its
attempt agree which request or answer is under way and how far the audio has been fetched,
so that nothing is left of the attempt when the slot is another's. `OneConnection` follows the
queue in front of the registry's lock (`InTurn`): each turn in it is waited for, a registration
stands before the end of the same connection, and a notification on its way is the first; so who is
first can go on, and what is registered has not been closed (`CloseOK`, `KnownOK`).

Proved but not part of a run: `SessionTypes`, whose evaluation would take a sixth of the
time of the run `VoiceSession` (on one message TLC checked it as well).

Only model-checked, and why:

- liveness, which the prover does not reach: `TurnEnds`, `BothEnd`, `Converges` (of both
  stores), `Obeys`, `SlotsFreed`, `Recovered`;
- what is stated with `ENABLED`: `NoDeadlock`, `NoneLeftBehind`, `ListensAgain`, `NobodyStuck`. Of the last,
  `OneConnection` proves what the guards, written out in `CanGoOn`, imply.

## 5 Disagreements found

One of them is kept as a run; the others can be repeated with the constants given.

**5.1 A turn beside the farewell** (`VoiceSession` with `MaxMessages = 1`,
`MaxCancels = 0` and the invariant `ExpiryOwnsSession`). `start()` checks the expiry
claim before, but not behind, its `await` of `abort()`; the watchdog may claim the
session there, and a listening turn starts beside the farewell, against
`docs/cluster-conversation-idle.md:16-18`.

**5.2 Activity that is never returned** (run `ASRStream_released`). `fail()` cancels
`execute()` behind its `await` of the report; if `execute()` has reached its `finally`
block meanwhile, the cancellation skips `pipeline.close()` and
`activity.change('asr', -1)`, and the worker refuses synthesis from then on.

**5.3 Two coordinators** (`RuntimeApply` with `[]OneRuntime` as a property: `OneBundle` without
its `~ together`). `start()` asks the other control planes for their jobs and reads the
journals, and then starts (`runtime_apply.py:133-168`); a job that does not answer in time
counts as none, and nothing excludes a second control plane between the reading and the
start. One that was asked to recover may take the other's running apply for an
interrupted one, and old cores are reopened beside workers and cores of the new revision.
`AppliesWhole` promises one revision, and success that is true, until a start has gone ahead
so; that nothing half replaced runs, and that the transaction is recovered, it and
`Recovered` promise behind one too.

**5.4 A forgotten abort** (`Connection` with `AbortSilences` as a property). An abort
sets `client_abort` (`core/handle/abortHandle.py:13`); if the next query is already
submitted to the one chat worker, `chat()` clears the flag when it begins
(`core/connection.py:898`), and the answer that was to be silenced is spoken.

**5.5 A pause in the window of a resume** (`MCMaintenance` with `PauseHolds` of every word in
the file, `pausing /\ report = {instance}` in the place of `word = "taken"`). The loop that
takes a worker back into service clears
`draining` before it subscribes, flushes and settles, and reports the end of the pause
last (`cluster/maintenance.py:70-90`). A controller that asks again in between finds
the old report, idle and paused, which says nothing of a worker that is just leaving that
pause; the comment at lines 92-93 (never acknowledge before all queues are removed) thinks of the
other direction only. `PauseHolds` therefore speaks of a word given since the request.

**5.6 A turn that outlives its session** (`VoiceSession` with `MaxMessages = 1` and the invariant
`~ quota => LiveRuns = {}`). A handler that is cancelled in its last `abort()`, while that
waits for the end of a photo's upload (`cluster/voice_turn.py:93-94`), never comes to
cancel the turn, and returns the socket's quota beside it. The turn is of no generation
any more and ends by itself (`NoDeadlock` demands it); the docs promise that "disconnect
cancels the watchdog and owned work" (`docs/cluster-conversation-idle.md:17-18`).

Observed with these models, and not kept as runs:

- `RuntimeApply` with two applies and two faults: a prepare that was given up may
  take its node's journal behind the end of its operation; when this happens to two
  operations on two nodes, two operations are pending, and `start()`
  (`cluster/runtime_apply.py:149-151`) refuses to recover either. It is the one end that
  `Recovered` admits besides none pending (`TwoPending`).
- `RuntimeApply`: a node that loses power between `old_core` and `rolled_back` is kept
  down by the boot guard, and `rolled_back` (`runtime_apply_agent.py:376-383`)
  looks at the journal only: the job tells of a verified recovery while the node's
  services are stopped.
- `VoiceSession`: a cancellation of `run()` in `tts.close()` (`cluster/voice_turn.py:402`)
  leaves `current_tts` set, which `idle_due()` takes for processing: the session does
  not expire until another turn is started (`docs/cluster-conversation-idle.md:15-16`).
- `VoiceSession`: an abort that reaches a failed turn while it emits its terminal stop
  (line 418) leaves the device without one (comment at line 416).
- `VoiceSession`: a `stop` message whose await straddles a claimed expiry finds no
  queue (line 207) and ends the handler.
- `LLMStream`: an error event may repeat a sequence number that was acknowledged
  (`cluster/llm_worker.py:292`), which the client takes for a protocol error; either
  way the request fails.
- `Connection`: the last packet of an old turn may pass its sentence check before the
  next query takes the sentence over, and the device is stopped a second time; a tool
  that answers behind a greeting or a reset speaks under the greeting's sentence; a
  repeated `to_tts_stream` attempt may say a part twice; `close()` cancels the
  initialisation without setting `components_initialization_done`, for which the
  receive loop may be waiting.
- `Vision`: `upload()` marks the call's photo as consumed before it reads the question
  (`cluster/vision_http.py:115-133`); a late upload of an aborted call is then refused
  for its question, and the photo of the call that is open now with `vision_busy`.
- `CloudClone`: a host whose configuration was published and whose answer was lost cannot go
  on once another save has landed: `_accept_config()` (`config/cloud_clone.py:166-182`) cannot
  tell its own work from an equal assignment, refuses it, and the journal's identity refuses
  another node ID on that host.
- `DeviceTools`: calls are numbered from 1 (`mcp_client.py:21`), and 1 and 2 are also the
  discovery's. When call 1 has timed out and its answer comes, it is taken for the
  initialization answer, the inventory is asked for again under ID 2, and that answer may
  be given to call 2 (`mcp_handler.py:137-159`), whose own answer is then taken for nothing;
  `call_mcp_tool()` promises a "correlated response" (line 377). `AnswersOwn` holds in every run, and names
  this as the one answer that is not the robot's to the call.
- `DeviceTools`: a thread that has read the client's tools before the robot's inventory is
  installed may store them behind it (`unified_tool_manager.py:31-61` beside
  `mcp_handler.py:257-272`), and nothing renews the list then: the language model is given the
  tools of the cache file, or none, for the rest of the connection. `ToolsCurrent` excepts
  this (`overtaken`).
- `DeviceTools`: an error, or a request that cannot be sent, ends the discovery
  (`mcp_handler.py:305-308`): MCP is never ready in that connection, and a typed text that
  waits for it waits until the conversation is reset.
- `SoundbankCleanup`: a file whose deletion is pending and that is made again under its name is,
  if it is then deleted, not written down (`known` has the old record), and the old record is
  dropped as changed: the file stays until somebody sweeps. Drafts are kept in memory only:
  behind a restart a page's unsaved audio counts as unused.
- `Reconnection`: the audio of a notification is discarded ten minutes behind its generation
  (`core/notification_audio.py:292-295`); a push that waits so long for the registry's lock, or
  for a robot that does not read, announces audio that cannot be fetched any more.
- `Reconnection`: `send_if_current()` keeps the registry's lock during the websocket's send
  (`core/connected_devices.py:46-49`), so that the hello of any robot waits behind one that does
  not read, until that one is closed.
- `CloudConfig`: both processes of a node write `desired.json`, so behind an operator's
  restore the file can go back though neither memory does; behind a manifest that was
  set back every node refuses until the lost revisions are passed again.
- `CloudMemory`: when the cache file and the memory of a process differ under one
  revision (a restore and a failing disk), every operation of that node fails until it
  restarts; a request answered `memory_busy` because it came twice makes its client
  report an unconfirmed edit although the first one may commit; request ids are
  remembered for 120 s and not across a restart, which the 18 s deadline makes safe as
  long as the clocks agree.

## 6 What is not modelled

`PROJECT.json`, `components`, lists every part with its reason. In short:

- data: validation and merging of configurations, ciphers, audio, prompts, ranking of
  memories, wording of messages;
- stateless parts: routes, bootstrap, exports, probes, the composition of the stores in
  the control plane and its Settings API;
- third-party engines behind `core/providers` and the tools of `plugins_func`, which the
  modelled components call through one interface each;
- administration by one operator on a stopped node: backup, plain restore, the setup's
  authorization;
- time: leases, deadlines, permits and the audio of a notification end at any moment
  rather than after their seconds, so that no property depends on a duration; and the agreement of clocks;
- for now, the components that the plan still names.

## 7 The plan

Done, in this order: the voice path (TTSTurn, VoiceSession, LLMStream, TTSSegment,
ASRStream) and RuntimeApply; the proofs of TTSTurn; CloudConfig with its ledger, hints
and soundbank; CloudMemory; Maintenance; Connection; SecretProvisioning,
CloudProvisioning and Vision; CloudClone, SoundbankCleanup, DeviceTools and Reconnection;
the proofs of the other voice modules, of both stores with their ledger, of Connection, of Maintenance,
of RuntimeApply, and of the components in `MCParts` and `MCSafety`. Left:

1. the authoring jobs of the cluster's soundbank, the worker's registration, the discovery of
   device tools in the cluster (`cluster/device_mcp.py`), the explicit memory's own file, and
   the releases of `_close_resources()` composed with the conversation they end;
2. proofs: of voice sessions and of recognition, what `NoDeadlock` and `NoneLeftBehind` say of
   guards written out, as `OneConnection` does.
