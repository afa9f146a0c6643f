# TLA+ models of the KiwiSDR FreeDV extension

FreeDV runs beside a KiwiSDR in three programs. An *extension* inside the
KiwiSDR server (`kiwi-overlay/`) owns the session: which receiver is decoded,
in which mode, and what its listener hears. A *decoder* process (`decoder/`)
asks the extension for its job over an authenticated WebSocket, camps on the
receiver of the job, decodes its sound and returns speech and status. An
optional *Reporter sidecar* (`reporter/`) tells FreeDV Reporter what was heard.

These modules specify the part of that system in which one order of events, or
another, makes the difference: the session, the job hand-over between the two
programs, the reference test's start, the way of sound through the decoder and
back, the spectrum that viewers see, how the decoder stays alive, what the
sidecar publishes about whom, and the installation with its recovery.

All source paths below are relative to `src/`.

## 1. Inventory

| Component | State it keeps | Operations | Talks to |
|---|---|---|---|
| Extension sessions (`kiwi-overlay/extensions/FreeDV/freedv.cpp`) | one record per receiver (`freedv[rx]`), `freedv_active_rx`, `freedv_next_generation` | start, test, stop, close; status receipt; five-second timeout; poll; reference-recording callback | browser (messages), decoder (poll response), Kiwi sound task (`want_rtn_snd`, callback) |
| Poll authentication (same file) | nonce ring, shared key | source check, timestamp window, HMAC, replay check | decoder's poll |
| Reporter frequency cache (same file) | list and its age | store, expire | sidecar by way of the decoder, browser |
| Decoder job control (`decoder/src/main.cpp`, `KiwiCamper`; `kiwi_protocol.cpp`) | `job_`, `camped_channel_`, `backend_`, `control_ready_`, timers | message handlers, `maybe_poll`, `apply_job`, `process_audio` | Kiwi monitor task (WebSocket) |
| Decoder supervision (`main.cpp`) | reconnect delay, heartbeats | retry loop, control-stall check, watchdog thread, health endpoint | everything in the process |
| SND transport (`kiwi_protocol.cpp`, `main.cpp`) | sequence number, ADPCM states | parse frame, detect gap, encode return audio | Kiwi sound task, back end |
| AudioPacer (`decoder/src/audio_pacer.cpp`) | ring buffer, target, counters | configure, clear, push, take | back end, return audio |
| RADE and Codec2 back ends, resampler | modem input queue, sync and callsign state | process, reset | modem libraries |
| Dashboard server (`decoder/src/dashboard.cpp`) | lock-free sample ring, viewers | push, FFT thread, frame stream | decoder thread, web pages |
| Kiwi sound task (`kiwi-overlay/patches/0003`, `0005`) | `want_rtn_snd`, `have_rtn_snd`, `rtn_snd_nd` | `c2s_sound_mon` once per cadence | extension (gate), monitor task (queue) |
| Kiwi monitor task (`patches/0002`, `0004`; the rest is Kiwi code) | receiver the connection camps on | handles the decoder's commands one by one | both programs |
| Reporter sidecar (`reporter/reporter.py`) | session table, event queue, one identity-bound connection | datagram events, expiry, connect | decoder (datagrams), FreeDV Reporter |
| Browser panel (`kiwi-overlay/web/extensions/FreeDV/FreeDV.js`) | panel state, two test timers | Start, Test, Stop | extension |
| Installer and deployment scripts (`tools/`, `deploy/`) | binary, active link, stored releases, `kiwi.json`, decoder package and marker, three progress flags | prepare, configure, deploy, start, commit; recover; roll back | Kiwi host, decoder host over ssh |

What is hard in it, and what makes each component correct:

* **Sessions.** Several receivers ask for one decoder; a session ends by Stop,
  Close or a torn-down connection; the dial moves under it. Correct: one owner
  at any time, the gate that keeps ordinary audio away is closed exactly for as
  long as its session runs, and a generation number names exactly one job.
* **Poll.** `freedv_monitor_poll` suspends in `send_msg` half way; the session
  it answered may be gone when it resumes. Correct: a reference recording plays
  only behind the response that announced it and never starts over.
* **Job hand-over.** Job, camp and sound change at different times in two
  programs; polls are sent by timer, by an idle response and by a camp
  acknowledgement; statuses are delayed; connections are lost. Correct: a frame
  is decoded only for the receiver it came from, no order of events produces a
  job conflict, "online" is about this session's decoder, and every session is
  eventually decoded.
* **AudioPacer.** Wrap-around, overflow, bursts longer than the ring, resizing.
  Correct: a bounded FIFO that loses only the oldest samples and counts them.
* **Return queue.** The monitor task fills it, the sound task empties it, Stop
  discards it by way of a flag. Correct: bounded delay, order kept, nothing
  forgotten in it, nothing left after Stop.
* **Reporter.** Events are dropped, a decoder fails without a stop, the server
  refuses or disconnects, and only changes are published. Correct: nobody is
  listed who did not opt in, the listing shows what is decoded, presence ends
  with the opt-in and returns after every failure.
* **Installer.** Fails at any step, is killed between two, loses the answer of
  the decoder host, and finds what earlier attempts and updates left. Correct:
  there is always a binary to start, recovery gives back what was found, a
  stored release stays what it is.
* **Supervision.** The main thread blocks in a connect, a read or a decode; the
  Kiwi falls silent, or offers a job that cannot be decoded; a watchdog thread
  and systemd end the process. Correct: the next attempt always comes in bounded
  time, a thread that works or waits is not killed, the health endpoint tells
  the truth about this connection, and the decoder recovers.
* **Sound path.** Packets are lost, decoded too slowly, or too many; numbers
  wrap; four places keep something from one packet for the next. Correct: nothing
  crosses an interruption, and every lost packet is counted.
* **Dashboard.** Two threads share a ring and its positions without a lock, and
  both store the read position; viewers come and go past a limit; a session
  clears the frame under them. Correct: windows are whole, frames with the sound
  of an earlier session are few, seats are counted, a download is this session's.
* **Panel** has hazards of its own (`PROJECT.json`, with lines); section 8 plans
  it.

## 2. Modules

| Module | Models | Composes |
|---|---|---|
| `DecoderJobs` | the job message, `classify_job`, the ready-test comparison of `apply_job` | |
| `KiwiExtension` | the extension: every session command, status, timeout, the poll in two steps, the test callback | `DecoderJobs` |
| `Camper` | the decoder's handlers, `apply_job`, `maybe_poll`, the accept decision of `process_audio` | `DecoderJobs` |
| `JobLink` | extension and decoder over an ordered connection, with the Kiwi's monitor task (external) | `KiwiExtension`, `Camper` |
| `JobLinkProofs` | theorems about the extension, and on top of them about the link | |
| `Supervision` | the decoder's retry loop, watchdog and health threads, systemd, and the Kiwi as they see it | |
| `SupervisionProofs` | theorems about it | |
| `Sound` | `process_audio`, the input queue of both back ends, modem frames, the vocoder, speech to return | |
| `SoundProofs` | theorems about it | |
| `PacedQueue` | abstract: the bounded FIFO the decoder needs | |
| `AudioPacer` | the ring buffer, shown to implement `PacedQueue` | `INSTANCE PacedQueue` |
| `AudioPacerProofs` | theorems about it, the refinement among them | |
| `ReturnAudio` | gate, return queue and `c2s_sound_mon` | |
| `ReturnAudioProofs` | theorems about it | |
| `SpectrumRing` | the lock-free ring between decoder and FFT thread, access by access | |
| `Dashboard` | viewers and their limit, the stream of frames, the capture | `SpectrumRing` |
| `DashboardProofs` | theorems about both | |
| `Reporter` | the sidecar's event queue, session table and `main()`, with the decoder's events and FreeDV Reporter's listing | |
| `ReporterProofs` | theorems about it | |
| `Install` | the guided installer, deployment, recovery and rollback, with updates and crashes | |
| `InstallProofs` | theorems about it | |
| `MCJobLink`, `MCAudioPacer`, `MCReporter` | definitions for model checking: settings, jobs | |

Operators keep the names of the code's functions and fields. Operators with a
comment that begins with "Mutant" are single changes of the operator below
them, of the kind a bug would be; they show that the properties notice it.

### KiwiExtension

| Code (`freedv.cpp`) | Model |
|---|---|
| `freedv_t` of each channel: running, mode, frequency, generation, Reporter request, online, test fields | functions on `Rx` with the same names |
| `freedv_active_rx`, `freedv_next_generation` | `active_rx` (`Nil` for -1), `next_generation` |
| `SET start`, `SET test` with all their error returns | `Start`, `StartTest`, `Refuse` |
| `SET stop`, close, connection tear-down | `freedv_stop` |
| `freedv_receive_cmds`, its early returns | `freedv_receive_cmds`, `IgnoreStatus` |
| `freedv_poll` | `freedv_poll` |
| `freedv_monitor_poll` up to `send_msg`, and behind it | `freedv_monitor_poll`, `FinishPoll` (the response is in `reply[m]` between) |
| the real-sample callback | `freedv_test_audio` |
| receiver's dial, administrator's switch | `Tune`, `SwitchReporter` |

The server's tasks are cooperative, so a handler is one step unless it yields;
only the poll does. Every monitor task of `Monitors` may be inside a poll at
once. `advertised` records every response, so that properties can compare
responses with each other. Not kept: the last status line and the time it came
(`freedv_poll` may fire at any time, which includes the code's five seconds),
the wording of errors, and the Reporter's callsign and grid beyond whether they
were valid.

### Camper and JobLink

`up` and `down` are the two directions of the WebSocket, in order and without
loss until the connection is lost. Each handler of `KiwiCamper::process_message`
is an action with everything it sends. `apply_job` has the five outcomes of the
code: a waiting test becomes ready, a stale or unchanged job is kept, a conflict
raises, an idle job stops, a new job starts. `FreshCamper` is the new object
`main` constructs after each failure. Authentication failures and malformed
messages also raise, and are `Disconnect` steps.

External, modelled from the messages the decoder sends and handles: the Kiwi's
monitor task acknowledges or refuses a camp, copies the camped receiver's sound,
sends `camp_disconnect` when that receiver's listener leaves, and hands a status
to the extension of the camped channel (`patches/0002`, `0004`). The task runs
`freedv_monitor_poll` to its end before its next command (`MonitorFree`).

`astray` is a history variable: no action reads it. It is set when a job of a new
generation is taken while a camp on a receiver is unanswered (`CampUnanswered`),
when a camp is refused, and when the loss of a camp is told behind the next
session's job; it is reset by a new job that finds everything settled (`Agreed`)
and by a new connection. These are the three ways in which this code can lose
track of its camp, and section 3 says what is checked outside them.

Bounds: `MaxPolls` limits unanswered polls when the timer polls, `MaxDrops` the
lost connections; one sound frame and one unsolicited status are under way at a
time. More of either adds no new order, since frames and statuses of one kind
commute with their copies. The timer of the code waits for no answer; `MaxPolls`
holds back the timer only, so a poll that answers an acknowledgement, or a job
that does not run, comes beside one of the timer's. `LinkView` leaves the history
of responses (`advertised`) out of what `job_link` takes for a state, since no
action and no property of that run reads it.

### AudioPacer and PacedQueue

A sample is the number of its arrival. `push`, `take`, `configure`,
`resize_queue`, `clear` and `discard_oldest` keep their index arithmetic,
including the two-part copies. One abstraction: the vector is allocated at the
start and not by the first `push`, which no operation can tell. The refinement
mapping reads the ring's contents from `head_` on. `PacedQueue` lets a queue
with too little to give wait for its target again or not, since the code does
either: a queue drained exactly to zero does not wait again, one that keeps a
tail does.

### ReturnAudio

A packet is a number, so age and order show. `Start` and `Stop` set the gate
only; `c2s_sound_mon` is the patched function, called once per cadence; packets
arrive from the decoder, which learns of Start and Stop later (`LearnJob`).
The decoder returns packets in order and the connection loses none; speech
queued by an earlier connection is not modelled apart from that.

### Supervision

| Code (`main.cpp`, `kiwi_protocol.cpp`, the systemd unit) | Model |
|---|---|
| where the main thread is: connecting, in the bootstrap, looping, reading, decoding, sleeping | `phase` |
| `main_loop_heartbeat`, `control_response_heartbeat` | their ages, `loop_age` and `control_age` |
| the `catch` in `main` with delay and jitter, the sleep in slices | `Fail`, `Sleep`, `Attempt` |
| `run`: poll or leave; a response, with a job that can be decoded or not | `Loop`, `Respond` |
| `systemd_watchdog`, `WatchdogSec`, `Restart=on-failure` | `systemd_watchdog`, `SystemdKills`, `Restart` |
| the health endpoint; its failure | `Healthy`, `HealthServerFails` |

Time is a number of seconds in variables of their own: `Tick` lets one pass once
everything that is due in this second has been done. `answering` says whether
the Kiwi does; one that does not may still send (`ReceiveOther`), refuse
(`ConnectFails`), or fail (`ConnectionLost`). `Block` puts the thread into a
read whose rest does not come, or into a packet that takes long: nothing ends
either but the Kiwi or the watchdog. A thread that stands still is seen by the
watchdog thread, a process that does, by systemd. The delay is doubled after
each failure and never reset, since the line that would do it stands behind
`run`, which does not return; what follows is a restart of the process or
attempts `MaxBackoff` apart. `MaxMessages` bounds the messages before "monitor":
by protocol there are a few, and a Kiwi that sent others for ever would keep the
bootstrap alive.

### Sound

| Code | Model |
|---|---|
| `expected_sequence_`, its validity, `dropped_frames` (`main.cpp`) | the same names; numbers modulo `Modulus` |
| `process_audio`: gap, push, the pacer, the 500 ms limit | `Receive`, `DecodeFrame`, `EndPush`, `EndSlowPush` |
| `RadeBackend::push`, `Codec2Backend::push` and `reset` | `iq`, `Overflows`, `reset` |
| `kfd_rade_decode`, `kfd_rade_reset` (`rade_v1_wrapper.c`) | `RadeFrame`, `OpenModem` |
| `apply_job`, `reset_decoder`, a new camper | `StartJob`, `ArmTest`, `Stop` |

A sample is the number of its packet, what is made of samples the oldest of
them, so that a queue shows whose sound it holds. External: the modem may need
any amount of `Amounts` for its next frame, finds sync or not, and gives features
or none. An overflow resets the back end and not the pacer; with the amounts the
libraries ask for it cannot happen, so it is modelled and the property says what
it leaves. The Codec2 modem is not opened again by `reset`, and no claim is made
about its inside; nor about the vocoder after an end of over, which may stay
primed by the last frame's own features. ADPCM is left out: the panel switches
compression off (`FreeDV.js:493`).

### SpectrumRing and Dashboard

| Code (`dashboard.cpp`) | Model |
|---|---|
| `audio`, `audio_write`, `audio_read`, `spectrum_drops` | the same names; positions modulo `Modulus` |
| `push_audio`: loads, samples, store | `push_audio`, `WriteSample`, `EndPush` |
| `fft_loop`: two loads, copy, store, publication | `LoadWrite`, `LoadRead`, `CopySample`, `StoreRead`, `PublishFrame` |
| `session_started` (two locks), `session_stopped` | `StartSession`, `FinishStart`, `StopSession` |
| `handle` counting viewers in and out, `websocket_stream` | `Arrive`, `Leave`, `SendFrame`, `SendPing`, `Acknowledge` |
| `push_modem_audio`, `capture_wav` | the same names |

Every access to a shared atomic is a step of its own. `session_stopped` stores
the read position too, and between the FFT thread's two loads it leaves it ahead
of the loaded write position: the unsigned difference wraps and the window is
taken although nothing is new. Two constants stand for facts of the code: a burst
leaves room for one window in the ring (`Bursts`), and a packet has as many modem
samples as audio samples here. That a silent viewer is thrown out is not claimed: the
stream reads synchronously, and the deadline it sets applies to asynchronous
operations only.

### Reporter

| Code (`reporter.py`) | Model |
|---|---|
| `queue`, `state.sessions`, `state.config` | `queue`, `sessions` (in the order of `updated`), `config` |
| age of `last_event_at` | `quiet`: over 15 s or not |
| where `main()` is suspended | `awaiting`: an event, the server's acceptance, a publication |
| `sio.connected`, `connected_identity`, `last_freq` and the others, `next_retry` | `connected`, `connected_identity`, `last`, `retry_due` |
| one pass of the loop from `queue.get()` to the next `await` that matters | `Iterate`: `Withdraw`, `Connect`, `AwaitRetry` or `Proceed` |
| `connect_and_wait_for_acceptance` returns, or raises | `Accept(gone)`, `RejectOrTimeout` |
| the `try` block that publishes, and its `except` | `Publish`, `PublishFails` |

While `main()` is suspended the queue fills and datagrams are dropped, the
server may disconnect, and the decoder may fail; `Publish` is one step because
nothing looks at the listing before `main()` waits for an event again. The
decoder is reduced to the events it sends (`main.cpp` 388, 534, 570, 705). A
failed decoder sends no stop, since only the normal return of `run` reaches
`shutdown`. External: FreeDV Reporter shows what it is told and forgets the
mode with each change of frequency (`reporter.py:56`). All identities are
well-formed: the extension refuses others. The duplicate filter is a choice.

### Install

| Code | Model |
|---|---|
| `/usr/local/bin/kiwid`: a file, or a link through `active` | `bin`: a binary, or `Nil` |
| `/root/freedv-releases`: directories, `active` link | `stored`, `active` |
| `kiwi.json`, decoder package | `config`, `package`: the attempt that made them |
| `one-shot-ready`, or `one-shot-local-ready` | `marker` |
| flags and `previous` of `main()` in `install-freedv.py`, `previous` of the deployment script | the same names, `target` |

`main()` is one action for each step with an effect, in its order, `pc` between
them; a step that fails changes nothing or has undone it (`StepFails`), since the
scripts undo themselves, but for those that answer too late (`PrepareUnanswered`,
`CommitUnanswered`) and the restart, which has both outcomes. The recovery is
every `except` branch, and ends early if the server does not come back. `main()`
catches exceptions and not signals, so `Killed` runs no recovery. Configurations
are told apart by attempt although the code may write the same twice. `before`
and `outcome` are history. A power failure keeps what was renamed; that files
reach the disk is assumed. The model leaves out what changes nothing: preflight,
the zero-listener gates, the build.

## 3. What the runs check

| Run | Question | Instance |
|---|---|---|
| `sessions` | Do one owner, closed gate, unique generations and the test handshake survive every interleaving of commands, polls and callbacks, and does every playing come to its end? | 2 receivers, 2 monitor tasks, 2 modes of which RADEV2 is enabled, both with recordings, 2 dial positions, 3 generations, 2-block recordings |
| `job_link` | Are conflicts, cross-receiver frames and stale "online" impossible, with tests, refused and lost camps and reconnections over the Reporter switch, and does the decoder hear the right receiver when all is quiet? | 2 receivers, 1 monitor task, recordings, 6 generations, 1 unanswered poll by timer, refusals, losses and switches |
| `served` | Is every session eventually decoded, also across a lost connection? | 2 receivers, 4 generations, 1 unanswered poll by timer, 1 lost connection, no tests, no refused or lost camp |
| `pacer` | Does the ring buffer implement the bounded FIFO, and is every sample accounted for? | rings of 1, 3 and 4 samples, bursts of 1, 2, 3, 5, 8 samples in all |
| `reporter` | Is the listing always the right listener's, up to date, withdrawn and restored? | 2 listeners, 2 frequencies, a test, 2 sessions, a queue of 1, 1 failure |
| `install` | Is there always a binary, and does recovery undo exactly this attempt? | 2 labels, 3 attempts, 1 update, 1 crash, any manual rollbacks |
| `return_audio` | Is returned speech ordered, never forgotten, at most `MaxQueued` late, and gone after Stop? | queue limit 2, 2 sessions, 6 packets |
| `sound` | Does anything cross a loss, a slow decode, an overflow or a new job, and is every loss counted? | numbers modulo 3, packets of 2 samples, modem frames of 2 or 3, input queue of 3, 6 packets, 2 jobs |
| `dashboard` | Are windows whole, frames new, seats counted and downloads this session's? | ring of 4, window of 2, bursts of 1 and 2, 5 samples, 2 starts or stops, 2 viewers for 1 seat, capture of 2 |
| `supervision` | Does the decoder tell the truth about itself, is it killed only when blocked, and does it come back? | main loop stalled after 3 s, control after 2, watchdog every 2 and at 6, delays to 6, 3 faults |

The properties, and why they are not obvious from any one function:

* `SingleOwner` holds through Stop on a receiver that is not the owner.
* `GateFollowsSession`: four handlers write the gate, and status and timeout
  write it without looking at it.
* `GenerationNamesJob` relates every two responses ever sent; the idle job takes
  `freedv_next_generation - 1`, a number that only Stop leaves free. The decoder
  breaks the connection if two jobs share one.
* `ReadyOnlyAfterOffer`, `PlaysBehindResponse`, `ReadyNeverWithdrawn`, `NoRewind`:
  the two-poll handshake with retunes, stops, replacements and a second monitor
  task between the halves of a poll.
* `TestCompletes`: each playing, also the one behind a retune, comes to 100 %, and
  completion is announced one callback later, because the message slot holds one.
  It is announced once in a session: the retune leaves `test_done_sent` set
  (`freedv.cpp:754-763`), so a test that completed and is retuned plays to 100 %
  again without `test_done`. The property says so in its second part, which is
  about playings of sessions that have not announced it. The panel usually ends
  such a test before: it answers `test_done` with Stop (`FreeDV.js:581`).
* `ConflictOnlyFromSwitch`: the only same-generation conflict comes from the
  live read of the administrator's switch (`freedv.cpp:786`).
* `FrameMatchesJob`: frames name no receiver; the comparison of the job's
  receiver with the acknowledged camp is enough because acknowledgements and
  frames share an ordered connection.
* `OnlineIsCurrent`: no delayed status marks a later session online.
* `QuietDecoderListens`: when everything has been handled, a decoder that holds a
  running session's job camps on that session's receiver, the Kiwi agrees, and
  there is a back end, unless it was led `astray`. The hand-overs that lead it
  astray are in the run, as are lost and refused camps: taking `CampUnanswered`
  out of `astray`, or letting a refusal or a late loss pass, makes TLC find a deaf
  decoder within these bounds (a test waits, and a session goes from one receiver
  to the other and back). So each of the three exceptions is needed, and the run
  shows that nothing else leaves the decoder deaf. Retunes, lost connections and
  more polls by the timer are not in this run; section 5 has the proof for them.
* `Served`: nothing in the loop of polls, jobs, camps and acknowledgements is
  dropped for good. It says so for one poll by timer at a time, without tests,
  refusals or lost camps, and makes no claim about a decoder that is led astray,
  which stays deaf until its job changes.
* `ImplementsQueue`, `NothingUncounted`, `NewestWindow`: the ring against its
  specification, its loss counter, and what it keeps.
* `QueueIsKnown`, `SpeechInOrder`, `BoundedDelay`, `StopDrains`: two tasks, one
  queue and a flag about it.
* `BoundIdentity`, `ListedAsSelected`, `ModeFollowsFrequency`: only changes are
  published, on connections that come and go, for listeners who come and go.
* `PresenceEnds`, `OptInListed`: with the stop or the start lost.
* `NothingCrosses`: input queue, modem, vocoder and pacer are cleared in different
  places, on a gap, a slow decode, an overflow, a new job and an armed test.
* `DropsCounted`: the difference of numbers that wrap, against the packets lost.
* `TornOnlyByStop`: no lock, and the position that keeps the decoder out is
  stored behind the copy; a stop in the middle is the one exception.
* `OldFramesAreFew`: a frame under computation outlives start and stop, and the
  wrap above allows one more.
* `SeatsCounted`, `NewFramesOnly`, `CaptureIsNewest`: a counter that also counts
  those being refused; a frame cleared while its number goes on; a ring that is
  read oldest first whether full or not, and emptied in the second half of a start.
* `HealthTruthful`: three atomics, set by one thread and read by another, must
  not let an answer of an earlier connection count for this one.
* `KilledOnlyWhileBlocked`: delays exceed the watchdog's limit.
* `AttemptsGoOn`, `Recovers`: two watchdogs, one restart and a delay that is never
  reset, with a Kiwi that may be silent, wrong or gone.
* `AlwaysBootable`: five links and renames, two scripts and a recovery, with a
  crash or an update between any two.
* `KiwiRestored`, `DecoderRestored`: three flags say what to undo; earlier
  attempts left a marker, a link, or half a deployment.
* `ReleasesKept`: the label is checked in one script and written in another.

The bounds suffice for the cases that matter: three generations hold a session,
its replacement by stop, retune or other receiver, and a poll that spans the
replacement; four let the decoder hold the job of an earlier receiver while
two later ones are decided. Two receivers are the least with an owner and another.
In `pacer`, eight arrivals wrap every ring and a burst of five exceeds each.
In `return_audio`, six packets overfill a queue of two, twice. In `reporter`, a queue of one is full
whenever `main()` awaits the server and an event came. In `install`, three
attempts are one that succeeds or is broken off, one that fails upon it, and one
that meets what both left; its attempts run out, hence `CHECK_DEADLOCK FALSE`. `MaxGeneration`
bounds starts and dial moves only; stops are never blocked by it. The extension
stops at that bound, hence `CHECK_DEADLOCK FALSE` in its configuration. In
`sound`, six packets wrap a number modulo 3 twice, and an input queue of three
overflows when the modem needs three; it stops when its packets are used up, hence
`CHECK_DEADLOCK FALSE`. In `dashboard`, five samples wrap a ring of four and a
capture of two. In `supervision` the seconds keep the order of the code's limits
(10, 15 and 30 s): a delay may exceed the main loop's, which exceeds the
control's, and systemd allows several periods of the watchdog. Three faults are a Kiwi that
falls silent, blocks a read and returns, or a frozen process upon one of these.

### Where documents and code differ

Two runs end in a counterexample. Each checks one sentence of a document, a
comment or a test against what the code does.

* `other_listener`: `reporter.py:5` says the selected job supplies the opt-in,
  and `test_reporter.py:187` that the identity tracks the selected listener. The
  identity comes from the last event instead. In TLC's trace one listener's
  session has sent a synchronized status when the decoder is killed, which sends
  no stop; the next listener's session starts, and its first event turns the
  connection over to that listener, while the old session is still selected, being
  the one that is synchronized: its frequency is published under the new name. The
  run has opted-in jobs only (`OptedInJobs`), a queue that drops nothing in the
  trace, and the property is about a live session and a synchronized selection, so
  that no stopped session and no test comes into it. How long it lasts follows from
  `reporter.py:302-304` and is not part of the trace: expiry looks at the last
  event of any session, so the next listener's events put it off, until that
  session synchronizes itself.
* `stale_target`: `deployment-status.md` (649-651) and the test
  `test_official_update_cannot_leave_a_stale_rollback_target` rule out a return
  to a release that an official update replaced. The deployment script compares
  the link with the binary in use; `install-freedv.py` (426-429, 490-491) reads
  the link before that and activates it when a later step fails. `KiwiRestored`
  is therefore stated for a link that names the binary in use.

Three more places differ, and the properties above are stated so as to hold in
spite of them. The protocol says the decoder is reset at the readiness
transition, but `main.cpp:517` resets through `backend_` unchecked, and a
`camp_disconnect` that is delivered after the next test's job has dropped it.
`main.cpp:576` compares the job's receiver with the last *acknowledged* camp: a
session that goes from receiver 1 to 2 and back before the camp on 2 is
acknowledged leaves the decoder camping on 2. That takes two polls in flight. The
timer alone makes two when an answer takes longer than its period, since
`maybe_poll` (`main.cpp:422-431`) waits for none, and a waiting test makes a second
one beside the timer's (488). `QuietDecoderListens` excludes just that crossing.
And `patches/0003` (36-37) says
Stop discards queued speech atomically; Stop clears the flag and the next cadence
discards, so that a Start between the two keeps the queue, which is why
`StopDrains` is about sessions that stay stopped.

## 4. Fairness

Safety properties use none. `TestCompletes` assumes that the sound task calls
the registered callback for every block and that a monitor task returns from
`send_msg`; both are loops of the server that run as long as the connection
does. It is about each playing by itself, since a retune takes the recording away
in between. `Served` assumes that both tasks keep running, that the timer in
`maybe_poll` fires, that the receiver produces sound, that `main` reconnects and
that camps are accepted (`HandleCamp(TRUE)`); a refused camp is never retried by
the code, and no claim is made about it. `PresenceEnds` and `OptInListed` assume
that the sidecar's task, its timeouts and timers go on, that a session being
decoded has its status sent every 250 ms, and that the server accepts a listener
who keeps asking. `Recovers` assumes that time passes, that threads which are due
run, that a Kiwi which answers does so, and that the watchdog thread and systemd
act; nothing ends a blocked read, connect or decode but these. `StopDrains` assumes that the cadence,
the delivery of packets and the decoder's polls go on. All fairness is weak but that of
acceptance: connections are attempted again and again, and a server that always
refuses is no fault of the sidecar.
Nothing is assumed of browsers, the dial, the administrator, or the timeout.

## 5. What is proved

All theorems hold for every value of the constants that meets the named
assumptions (`NilAssumption`, `ExtensionAssumption`, `JobLinkAssumption`,
`ReturnAssumption`, `RingAssumption`, `DashboardAssumption`, `SoundAssumption`,
`SupervisionAssumption`, `ReporterAssumption`, `InstallAssumption`): any number
of receivers, monitor tasks, modes, recordings, generations, packets, viewers,
seconds, labels and attempts. The type invariants of the modules are proved and
not run again.

`JobLinkProofs`, first about `Spec` of `KiwiExtension`:

* `TypeCorrect`: `[]TypeOK`. `LEMMA NextCases` reduces the next-state relation to
  the steps that change something.
* `SingleOwnerCorrect`, `GateCorrect`: `SingleOwner` is inductive with `TypeOK`;
  `GateFollowsSession` needs both, since only the owner's gate is ever closed.
* `GenerationNamesJobCorrect`: not inductive. It needs that every generation ever
  handed out is below `next_generation`, that a running session's advertised
  jobs agree with its record, and that the number the idle job takes belongs to
  no running job.
* `ReadyOnlyAfterOfferCorrect`, `PlaysBehindResponseCorrect`,
  `ReadyNeverWithdrawnCorrect`, `NoRewindCorrect`: from a strengthening that
  relates each suspended response to the record it was built from: a response
  that arms a test was preceded by an offer of that generation, and as long as
  the generation stands, readiness once sent stands.

`JobLinkProofs`, then about `LinkSpec` of `JobLink`:

* `ExtensionBehindLink`: `LinkSpec => Spec`. Every step of the composition is one
  of `KiwiExtension` or leaves it alone; a status that is handled is of a
  generation the extension's own specification allows. All theorems above so hold
  of the composition.
* `LinkTypeCorrect`, with `Closed`: nothing is under way without a connection.
* `FrameMatchesJobCorrect`: from `Camps`, about every frame in the queue. Behind
  the last acknowledgement before it, a frame is of the acknowledged receiver;
  without one, of the receiver the decoder knows it camps on, or the decoder
  knows of none. The same holds of the place where the next frame will go.
* `ConflictOnlyFromSwitchCorrect`: from `Ordered`. Jobs lie in the queue in the
  order of their generations, a test's readiness behind its offer, and all of
  them behind the job the decoder holds (`Held`, which allows for the switch).
* `OnlineIsCurrentCorrect`: from `StatusesAreOld`, that no status is of a job the
  decoder has yet to get, and `OnlineJobs`, that a running job held or under way
  is not of a session before the one called online.
* `QuietDecoderListensCorrect`, for any polls in flight, tests, retunes, refused
  and lost camps and connections. `Steered` says what holds of a decoder that was
  not led `astray`. `TunedTo`: a camp on a receiver that is asked for or granted is
  on the receiver of the decoder's job; none is asked for while an acknowledgement
  is under way; and with none asked for, the last message that speaks of a camp
  tells the decoder what the Kiwi has (`Leads`). `Bound`: a decoder that holds a
  running session's job has a back end, and camps on its receiver or has the camp,
  or the answer to it, before it. A new job keeps this because it comes when no
  camp is unanswered, or else sets `astray`; one taken when decoder and Kiwi agree
  establishes it anew. `StillHeld`: a session whose job the decoder does not hold
  is not held without a new job, whatever the extension does.

`AudioPacerProofs`, about `Spec` of `AudioPacer`:

* `PacerCorrect`: the invariant. `NewestWindow` is inductive once the counts add
  up (`Counted`); the work is in the lemmas about positions, which show that the
  slots read from `head_` with one wrap are those the code writes, and that a
  larger burst than the ring, a smaller ring and a short packet leave the newest
  run of numbers.
* `NothingUncountedCorrect`, `NewestWindowCorrect` follow.
* `PacerImplementsQueue`: `Spec => ImplementsQueue`. The queue the ring stands for
  is the run of the last `size_` numbers, so each operation is compared with one
  of `PacedQueue` on runs.

`SoundProofs`, about `Spec` of `Sound`:

* `SoundCorrect`: the invariant. `Positioned` relates the expected number to the
  stream's last packet, which is what makes the difference of wrapped numbers
  the packets lost.
* `NothingCrossesCorrect`, `DropsCountedCorrect` follow.

`DashboardProofs`, about `DashboardSpec` of `Dashboard`:

* `RingCorrect`, `TornOnlyByStopCorrect`: `Filled` says which samples the ring
  holds, `Clear` that the burst being written stays clear of the window being
  taken as long as no session stopped.
* `SeatsCountedCorrect`, `NewFramesOnlyCorrect`; `CaptureIsNewestCorrect` from
  `Kept`, which says what each slot of the capture holds.
* `OldFramesAreFewCorrect`: a bound on a count is not inductive. `OldKnown` says
  where the FFT thread is after each old frame: behind the first, no session has
  stopped under the window and the window ends behind the boundary; behind the
  second it begins there, so that a third is impossible. It needs `NotOlder`: a
  slot that was overwritten only ever holds later sound.

`SupervisionProofs`, about `Spec` of `Supervision`:

* `SupervisionCorrect`: `Watched` bounds the age of the main loop's heartbeat by
  the watchdog's next look; `Served` gives each phase a budget of seconds, and a
  blocked phase uses its up where the watchdog sees it.
* `HealthTruthfulCorrect`, `KilledOnlyWhileBlockedCorrect`,
  `AttemptsGoOnCorrect` follow.

`ReturnAudioProofs`, about `Spec` of `ReturnAudio`:

* `InvariantCorrect`: the type invariant with `Numbered`, which places every
  packet: those on the wire carry the next numbers, those queued the last ones.
  `TrimmedIsNewest` states what the trim leaves.
* `QueueIsKnownCorrect`, `SpeechInOrderCorrect`, `BoundedDelayCorrect` follow.

`ReporterProofs`, about `Spec` of `Reporter`:

* `InvariantCorrect`: neither property is inductive. `Remembered` says that
  while a connection lasts the listing has the identity, frequency and message
  the sidecar remembers; `Bound` that an event which contradicts them is answered
  by a disconnection in the same iteration. Neither depends on what is queued
  or which session is selected, so the proof holds for any queue.
* `BoundIdentityCorrect`, `ListedAsSelectedCorrect` follow.
* `TypedCorrect`: what is in flight and in the table came from a job, through
  updates, expiry and selection. `ModeFollowsFrequencyCorrect` uses it: the
  session that is published has a mode, so that a listing with a frequency has
  one after each iteration.

`InstallProofs`, about `Spec` of `Install`:

* `AlwaysBootableCorrect`, `ReleasesKeptCorrect`: `Linked` says that the active
  link, once made, names a stored release; `Deploying`, that whatever a
  deployment or a recovery will point it at has been stored before.
* `KiwiRestoredCorrect`: `Restorable` says that until the binary is replaced
  what would start is what was found, and from the moment the baseline is stored
  the label to return to holds it. This is where `trusted` is needed.
* `DecoderRestoredCorrect`: `Prepared` says that a marker of a prepared decoder
  is this attempt's.

Every invariant and action property that a passing run checks is the statement
of a theorem, and so is the refinement. Only model-checked: what must eventually
happen under fairness (`TestCompletes`, `Served`, `StopDrains`, `PresenceEnds`,
`OptInListed`, `Recovers`), which is outside the proof system, and the two claims
that are violated. Induction is used where the library's facts need no operator
as a parameter: `LeastExists` in `ReporterProofs` goes through the well-founded
order of the natural numbers.

## 6. Not modelled, and why

* Modem libraries, resampler, ADPCM and FFT: numeric signal processing.
* The dashboard's HTTP pages, JSON views, history, `update_status` and `stop()`;
  CSS and pages: presentation. Minified and compressed copies of the panel are
  generated.
* Callsigns and reliable text: what is decoded, and not when.
* The HMAC itself: an external function; the replay rules with the poll's nonce
  are planned.
* The other shell scripts (builds, soak tests, local activation): host
  administration.

## 7. Assumptions about the Kiwi server

Tasks are cooperative and yield only where the code calls into the server; a
connection delivers in order; the monitor task handles one command at a time; a
camp request is answered once. These come from how the extension, the patches
and the decoder use the server, whose own source is not part of the repository.

## 8. Plan

In order of importance; the first eight rows are done and described above.

1. `DecoderJobs`, `KiwiExtension` and their proofs.
2. `Camper`, `JobLink` and the proofs about the composition.
3. `PacedQueue`, `AudioPacer`, `ReturnAudio` and the proofs about the last.
4. `Reporter` and its proofs.
5. `Install` and its proofs.
6. `Supervision` and its proofs.
7. `Sound` and its proofs.
8. `SpectrumRing`, `Dashboard` and their proofs.
9. `PollAuth`: timestamp window and nonce ring. Abstract specification: a poll
   is accepted at most once.
10. `BrowserPanel` over `KiwiExtension`'s messages, with both timers.
11. `FrequencyView`: the sidecar's second connection and its cache.

Theorems planned: for `PollAuth`, that a poll is accepted at most once as long as
the ring outlasts the window.
