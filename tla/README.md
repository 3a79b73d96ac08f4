# Verification of the WebRTC archive player

TLA+ models of the program in `src/`, TLC configurations that check them on
small instances, and proofs checked by TLAPS. A module is translated from the
Rust source; `PROJECT.json` gives, for each definition, the lines it stands for.

    tlc -workers 2 -config ArchiveLoop_prompt.cfg ArchiveLoop
    tlc -workers 2 -config PlaybackSpan_accesses.cfg MCPlaybackSpan
    tlapm ArchiveLoop_proofs.tla

A configuration is named after the module it is for; those of `PlaybackSpan`,
`Startup`, `MainWindow`, `RtpClock` and `IceAgent` are run on the MC module, which
holds the values of their constants. An operator whose comment says "mutant" is not part of the model: it
is the definition after it with a plausible bug, kept to show that a property
notices it.

## The system

The player shows recorded video. One process holds a GTK main thread, a tokio
runtime in a thread of its own, and a few plain threads.

| part | source | state | operations | talks to |
|---|---|---|---|---|
| archive control loop | `src/archive_loop.rs` | session number, shared `ArchiveState` | seven commands, three replies, refill tasks | UI by the command channel (32), server by the data channel, refill tasks by the shared state |
| shared state | `src/app_state.rs` | fourteen independent atomics, two locked vectors | setters, `current_playback_position_ms` (a read that writes) | loop, UI, RTP reader, concurrently |
| RTP reader | `src/webrtc_offer.rs` 312-428 | unwrapped RTP time, reference point, generation | one step per packet | shared state, decoder by a channel (8) |
| decoder thread | `src/webrtc_offer.rs` 431-534, `src/video_decoder.rs` | decoder, FU buffer | one step per packet | shared frame, notification channel (1) |
| data channel bridge | `src/webrtc_offer.rs` 538-632 | two channels (64, 64) | callback, forwarding thread | data channel, loop |
| timeline | `src/ui/timeline.rs` | visible window, drag start, menu selection | click, scroll, drag, buttons, 50 ms and 100 ms timers | shared state, command channel |
| window | `src/ui/mod.rs` | zoom, pan, rotation, Shift | draw, scroll, drag, keys, 33 ms timer | shared frame |
| start-up | `src/main.rs`, `src/webrtc_client.rs` | - | offer, answer, candidates, spawn of the loop | all of them |
| ICE agent (fork) | `third_party/webrtc-ice/src/agent` | checklist, candidates, pending requests, selected pair, connection state | inbound messages, timers, add candidate, restart, close | peer, peer connection |
| gathering, candidates, UDP mux (fork) | `third_party/webrtc-ice/src` | candidates, sockets, address map | gather, route packets, close | agent |
| data channel (fork) | `third_party/webrtc-data/src` | counters, thresholds | open, ack, read, write, close | SCTP stream |

What is hard: everything in `ArchiveState` is a separate atomic that three
threads read and write without a lock; the loop has awaits in the middle of its
commands; refill tasks run beside it; the server answers late; the data channel
may not be open, or close. `PROJECT.json` lists each hazard at its line.

What makes each part correct:

- loop and server agree on whether the stream plays and how fast; the buffer is
  refilled in order, once, in time, to the end of the archive;
- whatever the threads that share the playhead meet in it, it stays in content the
  player was given, and moves forward;
- no message is lost, duplicated or reordered between the data channel and the
  loop, and no thread waits for ever;
- the playhead is at the time of the frame shown, whatever the hour and the wraps
  of the timestamps;
- the visible window stays inside the archive; menu, stored speed and server end
  up agreeing on the speed;
- a session that has an answer and an address gets to its loop;
- two ICE agents agree on a pair, and end in a state that matches it.

## Modules

| module | models | status |
|---|---|---|
| `ArchiveLoop` | the loop, its refill tasks, the UI's commands, the data channel, the server; the shared state without the playhead | checked |
| `ArchiveLoop_proofs` | type correctness, speed and play button; the buffer is refilled in one stretch, to the end of the archive, and in time | proved |
| `PlaybackSpan`, `MCPlaybackSpan` | the playhead: its atomics under the loop, the RTP reader and the redraw, one load and one store at a time | checked |
| `PlaybackSpan_proofs` | positions in any race; span, newest fragment and direction when calm | proved |
| `RtpClock`, `MCRtpClock` | 32-bit timestamps, their unwrapping, the start of the day, the playhead of each frame | checked |
| `ContentClock` | what the other modules take the RTP reader for: a clock on content times | refined by `RtpClock` |
| `RtpClock_proofs` | the playhead follows the frames across wraps, and the refinement | proved |
| `Startup`, `MCStartup` | offer, answer, candidates, early returns, spawn, over `DcBridge` | checked |
| `DcBridge` | callbacks, the two channels and the thread between data channel and loop, the runtime's workers | checked as part of `Startup` |
| `MessageQueue` | what the bridge promises: a FIFO | refined by `DcBridge` and `Startup` |
| `Startup_proofs` | type correctness, nothing lost, the refinements | proved |
| `MainWindow`, `MCMainWindow` | the three parts of the window below, which take turns on the GTK thread | checked |
| `TimelineView` | the visible window under scrolls, drags, clicks and new ranges | checked as part of `MainWindow` |
| `SpeedControl` | speed menu, 100 ms timer, stored speed, loop | checked as part of `MainWindow` |
| `PictureView` | zoom, rotation, panning, Shift and focus, and the clamp of the draw function | checked as part of `MainWindow` |
| `MainWindow_proofs` | types, window inside the archive, no panic, zoom, speed | proved |
| `HevcDepacketizer` | RTP payloads to HEVC NAL units, with loss | checked |
| `HevcDepacketizer_proofs` | types, whole NALs without loss, and with it, for any lengths | proved |
| `VideoPipeline` | reader, decoder thread, shared frame, notification, redraw | checked |
| `VideoPipeline_proofs` | types, codecs apart, playhead near the picture | proved |
| `IceAgent`, `MCIceAgent` | two ICE agents over a network that loses, doubles and delays: checks, nomination, selection, restart, close | checked |
| `IceAgreement` | what calm agents promise: one link nominated in a session, then used, and kept; what they report | refined by `IceAgent` |
| `IceAgent_proofs` | types, agreement on the pair, one nomination a session, reports of a connection, the refinement | proved |

`ArchiveLoop` is the composition: it holds the loop together with everything it
talks to, each at the grain of whole messages and commands. The others each take
one of its joints at a finer grain: `PlaybackSpan` the playhead's part of the shared state,
`DcBridge` the way of the messages in, `VideoPipeline` and `HevcDepacketizer` the
way of the packets, `RtpClock` their timestamps, `MainWindow` the source of the
seeks and speeds. `Startup` comes before it, and `IceAgent` stands below all of
them: it decides whether there is a connection to carry the channels.

### ArchiveLoop

The loop is one task. `loop.pc` says at which await of which command it stands;
at `"idle"` it takes a command (`TakeSeek`, `TakePause`, ...) or a message
(`ReceiveRanges`, `ReceiveError`, `ReceiveFragment`), as `tokio::select!` does.
The stores between two awaits are one step, which no refill task can see halfway;
a real thread can, and each that looks is accounted for:

- the GTK thread reads `is_playing` to choose between Pause and Play, of two
  atomics the loop may clear in between: `PlayingSeen` holds both outcomes while it
  is at such stores;
- the reader and the redraw use the span, the position, the pending slot and the
  generation. These are not in `ArchiveLoop` at all: nothing the loop sends,
  schedules or compares depends on them, so `PlaybackSpan` has them alone, one load
  or store at a time. What a seek or an accepted reply stores there is `SeekStores`
  and `AcceptStores`.

The variables are the other atomics of `ArchiveState`, with the ones that are only
compared with zero as Booleans (`started`, `paused`). The data channel is `dc`:
when it opens (`OpenChannel`), the task that `on_open` spawns is still to send
`get_ranges` (`SendRanges`), and what the loop sends may get in before it.

A refill task is a slot of `timers`: it sleeps (`left` ticks), wakes, compares
its session (`CancelTask`, `WakeTask`), sends (`SendNext`), and stores what it
asked for after the await (`StoreNext`). With `AtomicTasks` the last three are
one step (`RunTask`).

The server is external: the model takes from `WEBRTC.md` and from what the loop
relies on that it serves requests in order, drops its buffer on `drop_buffer`,
appends a fragment to it on `get_archive_fragment`, plays it in order between
`play_stream` and `stop_stream` at the speed last set, and answers with an error
past the end of the archive. `StreamUnit` sends one unit of content, and `received` is
the last one that has come.

Time: content is counted in units, a `Tick` is one unit of wall-clock time, and
at speed `k` the server sends `k` units in a tick. `Prompt` says that commands,
messages and tasks that are ready are done before the next tick (a latency below
one unit); without it every latency is possible.

Runs.

| run | question | scheduling |
|---|---|---|
| `archive_loop_prompt` | is the buffer contiguous, never empty too early, refilled to the end, and played to the end; the channel opens late | `FairSpec`, `Prompt`, seeks apart by more than the margin, tasks not interrupted between send and store |
| `archive_loop_latency` | do play button and speed agree with the server, with a channel that closes | any latency, any interleaving |

The three restrictions of `archive_loop_prompt` are each shown to be needed by a
configuration that drops it: `ArchiveLoop_race.cfg` lets a reply fall between a
task's send and its store, `ArchiveLoop_double.cfg` lets two seeks come within
the margin, `ArchiveLoop_speedup.cfg` lets the speed change while a task sleeps.
The passing run says what the refill scheme is right about, and these say where
it stops being right.

Bounds. `MaxCommands` (2 to 4) is the number of things the user does; `Timers`
bounds live refill tasks, three to five being more than a chain needs;
`Fragment`, `Lead`, `Margin` are in the order of 10 s, 2 s and 5 s, and
`ArchiveEnd` is two to four fragments, so that chains of refills, the error at
the end and seeks in the middle of a chain all happen. The command channel holds
two commands in `archive_loop_prompt`, where three are issued and the third may be
dropped; in `archive_loop_latency` it is never full, and what a dropped command does
to the speed is `ArchiveLoop_full.cfg`. The latency run opens the channel before the
first command (`ArchiveLoop_early.cfg` does not), and what it says of play button
and speed ends when the channel closes.

Fairness. tokio polls every ready task and `select!` picks its ready branch at
random, so the loop's two branches are strongly fair and everything the runtime
or the wall clock drives is weakly fair. The user and the closing of the channel
have none.

### PlaybackSpan

The body of `current_playback_position_ms` is the list of its loads and stores
(`todo`), and so are `set_playback_span`, a seek, a stop, a resumption, a reply and
a packet; `Access` takes the next one of any thread.
The local variables between them are `reg`. The interleaving is sequentially
consistent: `Relaxed` would allow the hardware more, on other orders of the
stores of one thread; what is refuted here is refuted there too.

What the interleavings break and what they leave whole is settled in one run,
by a variable `calm` chosen at the start. With `calm` false, any two operations
overlap. With `calm` true the loop's operations overlap with no one else's
(redraw and reader still overlap with each other), and no packet of the old
content arrives after a seek. `PositionsAreLoaded` holds in both: a position
stored or shown lies between the start of the first fragment given and the end of
the last, and in calm behaviours in one of the fragments. More is not true of a
race: a packet of the old content gives the new generation an anchor out of
place, and a reader that then meets the start of the next seek's span with the
end of the old one clamps to both. With fragments of 2 up to 9, seeks to 1 and
5, and a third one, the playhead comes to 4, between the fragments [1, 3] and
[5, 7] (three seeks, three replies, no redraw). The proof of the stronger statement
brought this to light; the bounds of the run are too small for it.
That a packet leaves the position inside the span of a seek it has overlapped is not
claimed: it does not (`PlaybackSpan_landing.cfg`).
`SpanWholeAtRest`, `NewestFragmentKept` and `NeverBack` are promised in calm runs
only; `PlaybackSpan_erased.cfg`, `_landing.cfg` and `_anchor.cfg` show that each
of the excluded overlaps breaks one of them. Packets come in the order of
sending, as the reader gets them from the jitter buffer of the track.

Bounds (`CalmBound`, `RaceBound`): two seeks, three replies, one stop and five
packets when calm, two seeks, three replies and four packets when not. Two seeks
give an old and a new span and generation; three replies a pending fragment, its
replacement, and one after the span has been applied. `span_overwritten`
has one seek, three replies and five packets, all calm: what it refutes needs no race.

### RtpClock

The server stamps a frame with the time since midnight UTC in ticks of 90 kHz,
and 32 bits of it are sent: they wrap after 13 h 15 min. A packet is one step,
the body of the reader's loop: `Synced` (a new generation starts from the bits as
they are, else `unwrap_rtp_timestamp`), the choice between the position by the
timestamp (`ByRtp`) and by the reference frame (`ByRef`), and the anchoring of
the first frame. `Millis` truncates towards zero, as the code's division does.

`ContentClock` is the clock that `ArchiveLoop` and `PlaybackSpan` take this for:
after a seek, the first frame is at its own time or at the instant asked for, and
from then on the playhead moves as the frames' times do. The refinement maps
`exact` to "the unwrapped timestamp is the frame's time of day" and `lag` to how
far the reference is ahead of the content. `NearContent` says in terms of the
program what that gives: a frame of the fragment being played places the
playhead no further from its time than the first frame was from the instant
asked for.

Both hold of recordings that keep to their day. `RtpClock_midnight.cfg` has one
that does not, and `NearContent` fails. And `PositionIsFrameTime`, which is what
the comment in the code says, fails for every seek to an hour after the wrap
(`rtp_afternoon`).

Bounds: a day of 14, 3 ticks a unit, timestamps that wrap after 26 ticks (8 2/3
units), so that a wrap falls in the middle of a day and in the middle of a unit;
two recordings in two days; fragments of 4; a first frame up to 2 from the
instant asked for, the next ones up to 2 ahead and 1 behind (frames are not sent
in their order); three seeks, so that a seek leaves and re-enters each day.

### Startup and DcBridge

`DcBridge`: one callback per channel, the std channel, the bridge thread, the
tokio channel, and the loop, which may be spawned late or never. `WorkerFree` is
the point: a callback in a blocking `send` holds a worker, and the loop needs a
free one to be polled. `QueueSpec` is `MessageQueue` under the identity mapping of
the two histories.

`Startup` extends it with the thread that makes a session: `main` is the await or
call the thread has come to, `GiveUp` and `NoAddress` its early returns (they drop
the runtime, `AbandonLoop`), `Rewrite` the filter that drops the lines it cannot
read or resolve, `Describe` the remote description, which may fail and then only
skips what follows, `Spawn` the loop. Channels open after the answer has been
set, before or after the loop is there. SDP is a set of kinds of candidates: with
an address, with a name, with a name nobody knows, malformed.

`startup` has three workers and two channels (ours and one the server opens),
capacities of one and two in place of 64, and three messages on each channel:
they fill both channels and the bridge's hand, and leave a callback waiting.
`DcBridge_blocked.cfg` has two workers, as on a two-core machine: then as many
channels as workers and a burst block every worker in its callback for ever.

Fairness. Nothing is assumed of the server until it has answered: the request has
no timeout. From then on the thread gets to its end. The bridge is a thread and
weakly fair. A callback entered, a send into the std channel and the loop's turn
compete for a worker or for room that others may take first, each time: they are
strongly fair, as the runtime's queues and the channel's list of waiting senders
are served in order.

### MainWindow

GTK runs one callback at a time, and the three parts share no variable: a step
of one changes nothing of another. What is stated of one part therefore holds
in every interleaving if it holds while the others rest, and `part` picks the one
that is at work in a behaviour; the state space is the sum of the three
instead of their product. `MainWindow_proofs` states the same as a theorem for
the proofs (`WindowHasParts`).

### TimelineView (in MainWindow)

A GTK callback runs to its end before the next, so each is one action, and it
locks the ranges once. The loop's store of the ranges and its store of the dirty
flag are two actions. Times are integers: the code computes in `f64` and
truncates, the model divides integers, so properties are stated up to one unit
where rounding shows (`ZoomKeepsInstant`). `clamp` with reversed bounds panics,
and a panic in a GTK callback ends the program: `panicked`.

`grown` remembers whether every archive so far was as long as the one before and
as the narrowest window. The server may send ranges of any span on request or
unasked; `NoPanic` says that nothing panics while `grown`, and
`MainWindow_limits.cfg` (`ZoomKeepsMinimum`) shows the zoom leaving its limits with
one short archive.

Bounds: archives of length 0, 2, 8 and 9 with a narrowest window of 3 (`AnyArchives`),
so that an archive is shorter or longer than the window, moves left and right,
and is replaced under a drag; two updates, one to have an archive and one to
change it; four scroll amounts, two in each direction.

### SpeedControl and PictureView (in MainWindow)

`SpeedControl` is the hazard of a value three parties write: the menu's callback
compares, stores and sends (three steps, `notify`), the 100 ms timer puts the menu
back to the stored speed, which calls back again, and the loop stores the speed
of each command it takes, in the middle of any of these. The loop's send may fail:
the data channel (`channel`) opens late, or never, and closes, the error is
logged, and the speed stays stored (`SendSpeed`). `missed` remembers that the last
send did, `dropped` that a command found the channel of commands full.
`SettledRate` says that at rest the server plays at the speed stored, unless one of
these has happened; after a failed send it holds again once a later speed gets
through. `SpeedsConverge` says that the three do not undo each other for ever,
whatever was dropped or missed, and end at the server's speed if nothing was. What
is not promised, `ChoiceKept` (an older command may undo the last choice) and
`NothingDropped`, is refuted in `MainWindow_limits.cfg`. Fairness: the timer fires
again and again, the loop is polled while there is a command, nobody makes the user
choose or the channel open. Four choices and a channel of two: speeds are
dropped, and the fourth choice meets the echo of an earlier one.

`PictureView` is zoom, rotation and panning with the clamp the draw function
applies. Wheel and drag reach the picture with or without the focus, the keys only
with it. Apart from its type nothing is claimed of it in a passing run: that the
drawn picture leaves no needless room around it is the clamp itself. That the
picture turns only while Shift is held (`TurnsWithShift`, ui/mod.rs:171) is refuted
in `MainWindow_limits.cfg`: the release of the key is not seen without the focus.
Lengths are integers in units that make every drawn length whole.
Two sizes of the window, one wide and one high, eight angles, four of them right.

### HevcDepacketizer

Payloads are sequences of bytes, because the hazards are in the lengths and bits:
headers, fragment octets and the two-byte lengths of an aggregation packet are
what the code computes with. A body is copied and never looked into, so its bytes
stand for themselves: `Byte(n, i)` is the `i`-th byte of the `n`-th NAL.
The sender (external) sends each NAL alone, aggregated, or cut at every possible
place; the network loses any packet and reorders none, as packets come out of
the jitter buffer in order. `damaged` is the set of NALs that have lost a packet.
`Reassembled` is about what comes out until the first loss, `LossContained` about
what comes out after one: NALs that arrive whole come out whole and once, and
whatever comes out begins with a start.
Bounds: four NALs, bodies of up to three bytes (a fragmented NAL with and without
a middle part, and a neighbour on either side to be spliced with), and two header
bytes that differ in every bit the two octets of a fragment share out.

### VideoPipeline

The decoding thread's loop is a program counter (`worker.at`): receive, choose a
decoder, feed, publish, notify. Decoders may fail to open; ffmpeg (external)
returns, of the pictures it has been fed, any one later than the last, or none. The
track ends after `MaxPackets` packets and the channel closes.

Fairness: the two threads are weakly fair, once there is something to do; the
server may send nothing more. GTK has none in `Spec`, it may be
busy for ever. `DecoderFinishes` therefore has no assumption on GTK, and
`FramesShown` states its own (`WindowFairness => ...`). Bounds: a channel of two
instead of eight, four packets, two codecs and one unknown payload type; enough
for a full channel with a packet in the reader's hand, and two switches.

### IceAgent

Two agents, one controlling and one controlled, and what is between them. An
action is the whole body of a handler: `ControllingRequest`, `ControlledRequest`
and `ReceiveResponse` are `handle_inbound` down to the answer it sends, `CheckAll`,
`NominateBest`, `Renominate` and `Validate` are the four ways through
`contact_candidates`. An entry of the checklist has its state, its count of
requests and the mark `nominate_on_binding_success`. Credentials are counted
(`gen`): a restart begins a new generation, and a packet carries the two it was
made for. `pending_binding_requests` is argued away in a comment of the module.

A handler awaits between what it decides and what it does. `decided` holds what
each task is about to do (nominate, select, report a state), and the surroundings
(`world`, chosen at the start) say what may happen meanwhile. In `"calm"` worlds
no other task of the same agent runs in between; in `"races"` any may. A packet
stays in `packets` for ever there: never received it is lost, received again
doubled. In `"patient"` worlds each packet arrives once, before the next timer.
What only a clock decides (an expired check, a silent peer, a wait that is over)
is a choice. `paths` says which way packets pass: `Full` has two working pairs,
`OneWay` a second pair that works in one direction only.

`PairsAgree` and `KeepsPromise` are stated of agents whose tasks do not race:
`IceAgent_twice.cfg` shows two nominations in one session when the timer's task
and a receiving task do, and then the two sides may end up on different pairs.
That a pair in use was nominated (in `PairsAgree`) is checked with races too, of
agents that are neither restarted nor closed. A restart is one step, though the code
awaits locks and closing candidates in the middle of it, so nothing is said of what
another task sees of a restart half done. A task that is already awake still
contacts once after `close`: `Contacting` excludes what `contact` does, and no more.

`PairsAgree` compares the two agents at one moment; `KeepsPromise` adds what they do
over time: the steps of calm agents are steps of `IceAgreement`, in which a session
has one nominated link, an agent uses nothing before its nomination, and it does
not change to another or to none before it is restarted, not even when it fails or
is closed, and it is connected only while it uses one (`ConnectedHasPair`). A pair is mapped to the two addresses (`Link`, `Reversed`), which is what
the sides see alike; the type of a candidate is each side's own.

Bounds: two addresses against one, one of the two not told, so that there are two
pairs and peer-reflexive candidates; `MaxBinding` 0, so a pair is given up
after one check without an answer; one restart of each side, with the paths of
`OneWay`. A larger set of
worlds passes the same safety properties with one to three million states:
`IceAgent_restarts.cfg`, not among the runs.

Fairness, used by `Connects` in patient worlds only: signalling tells what it has to
tell, timers fire, tasks that have decided go on, packets arrive; and a candidate
that may be nominated is, once its acceptance wait is over.

| run | question |
|---|---|
| `playback_span` | which positions can be stored or shown when threads interleave access by access; what stays whole when the loop works alone |
| `span_overwritten` | does the timeline follow the stream (it does not) |
| `rtp_clock` | does the playhead follow the frames before, across and after a wrap, as a clock on content times would |
| `rtp_afternoon` | is the position the time of the frame, as the code says (it is not, after a wrap) |
| `startup` | is the bridge a lossless queue from the offer to the end of the session, and does every message arrive once there is an answer and an address |
| `startup_unresolved` | does an unresolved host skip the explicit candidate only (it ends the session) |
| `main_window` | is the window inside the archive, what the zoom keeps, when a callback can panic; do menu, stored speed and server agree |
| `hevc_loss` | are NALs whole without loss, and which come out with loss |
| `video_frames` | do codecs stay apart, does the picture go forward, does every frame or a later one reach the screen |
| `ice_agree` | do two agents come to use the same pair, never different ones, and keep to it as `IceAgreement` says |

## What the runs found

Three runs must see their property violated; each is an entry under `findings`:

- `span_overwritten`: a reply overwrites the single pending slot before the playhead
  has entered it, and the timeline stays at the end of its span while frames keep
  coming;
- `startup_unresolved`: the host of the URL has no address, the thread returns and
  the session ends, where only the explicit candidate was to be skipped;
- `rtp_afternoon`: after a seek into the hours in which the timestamps have
  wrapped, the playhead is not at the time of the frame it shows.

Further weaknesses, most of them disagreements with a comment or a document, can
be reproduced with configurations that are not among the runs; each states its
one property:

| configuration | property | what it shows |
|---|---|---|
| `ArchiveLoop_race.cfg` | `RefillNeverStops` | a reply handled before the task's store ends the chain of refills |
| `ArchiveLoop_prefetch.cfg` | `RequestedNearEnd` | the lead of a refill grows by 2 s with each fragment, and refills go on while playback is stopped |
| `ArchiveLoop_double.cfg` | `BufferContiguous` | two seeks within the margin start two chains |
| `ArchiveLoop_speedup.cfg` | `NoUnderrun` | a speed-up leaves the old delay in a sleeping task |
| `ArchiveLoop_early.cfg` | `PlayStateAgrees` | Play before the channel opens shows a playback |
| `ArchiveLoop_resume.cfg` | `PlayStateAgrees` | Seek, Pause, Play within a millisecond show a stop |
| `ArchiveLoop_full.cfg` | `SpeedAgrees` | a speed dropped because the command channel is full stays selected in the menu |
| `ArchiveLoop_click.cfg` | `ClickStartsStream` | a click does not start playback, as documented |
| `PlaybackSpan_erased.cfg` | `PendingIsApplied` | the redraw's clearing of the pending slot erases a fragment the loop has just stored |
| `PlaybackSpan_landing.cfg` | `SeekLandsAtTarget` | a packet being read during a seek moves the position away from the target |
| `PlaybackSpan_anchor.cfg` | `AnchorRenewed` | a late packet of the old content becomes the reference of the new one |
| `DcBridge_blocked.cfg` | `SendNeedsNoPolling` | as many channels as workers: a burst blocks every worker in its callback for ever |
| `Startup_twice.cfg` | `StaysUp` | starting the program again aborts the one that runs: the receiver of frames is gone |
| `RtpClock_midnight.cfg` | `NearContent` | a recording that goes past midnight throws the playhead back by a day, or to the edge of its fragment |
| `MainWindow_limits.cfg` | `ZoomKeepsMinimum` | zooming over an archive shorter than the narrowest window |
| | `UpdateShowsAll` | new ranges during a drag are undone by the next movement |
| | `ChoiceKept` | an older SetSpeed command undoes the speed chosen last |
| | `NothingDropped` | a speed that finds the command channel full is dropped without a trace |
| | `TurnsWithShift` | Shift released while the video has no focus still turns the picture |
| `HevcDepacketizer_splice.cfg` | `DropsWithoutStart` | a lost end and a lost start splice two NALs |
| `IceAgent_twice.cfg` | `OneNomination` | racing tasks nominate two pairs in one session |

The five properties of `MainWindow_limits.cfg` are refuted one at a time.
One thing was seen and is not a property: `PlayFrom` does not clear the pause
mark (`src/app_state.rs:258`, `src/archive_loop.rs:59`), so after a `Pause` it
would show a pause while the server streams; nothing in the UI sends it.

## Proofs

Each holds for every value of the constants that satisfies the assumptions of
its module; TLC evaluates these assumptions in every run.

`ArchiveLoop_proofs`:

- `TypeCorrect`: `Spec => []TypeOK`, one lemma per group of actions;
- `SpeedReaches`: `Spec => []SpeedAgrees`, if the data channel is open at first
  and the command channel holds all commands issued (a dropped command breaks it,
  `ArchiveLoop_full.cfg`);
- `PlayStateReaches`: `Spec => []PlayStateAgrees`, if the data channel is open at
  first (`ArchiveLoop_early.cfg`), the user's commands have no `PlayFrom`, and
  Pause and Play do not fall in one millisecond (`ArchiveLoop_resume.cfg`).

`SpeedReaches` and `PlayStateReaches` rest on one idea, `LastOf`: the last request of
its kind on its way, or what the server has if there is none (`SpeedServed`).
`SpeedInv` says that while the channel is open and no `SetSpeed` waits in the command channel, the speed
shown is the one of the last `set_speed` sent, or the server's if none is on its
way; `PlayInv` says the same of `play_stream`, `stop_stream` and the command the
loop is in the middle of.

Of the chain of refills, all under `Orderly`, that is, a woken task is not interrupted
(`AtomicTasks`) and no seek comes close to content on its way (`~NearSeeks`), the
restrictions `ArchiveLoop_race.cfg` and `ArchiveLoop_double.cfg` show to be needed.
The first two do not need `Prompt`.

- `ContentContiguous`: `Spec => []BufferContiguous`;
- `ChainUnbroken`: `Spec => []RefillNeverStops`: when nothing is on its way any more,
  the last request reached the end of the archive;
- `RefillsInTime`: `Spec => []NoUnderrun`: the server never streams from an empty
  buffer before the end of the archive, if moreover whatever is ready runs before
  time passes (`Prompt`) and nobody changes the speed (`SteadySpeed`; a speed-up
  leaves the old delay in a sleeping task, `ArchiveLoop_speedup.cfg`).

The invariant, `ChainInv`, follows one token. What has been asked for last
(`Asked`) is in at most one place: a request that no `drop_buffer` follows, the
reply to it, or a task of the current session, and wherever it is it joins on to
the end of the buffer. Everything else on its way is stale: requests with a
`drop_buffer` behind them, replies beyond the margin of `Asked`, tasks of older
sessions; and every seek that waits lies before all of it by more than the
margin, so that its turn makes the rest stale in the same sense. A stale reply
is rejected because it lies beyond the margin; an accepted one is therefore the
last, and the task it starts is the only one of its session.

`ChainInv` says that there is at most one token; `TokenInv` adds that there is one:
until the end has been asked for, what was asked for last is in a seek under way,
in a request that no `drop_buffer` follows, in its reply, or in a task of the
current session (`TokenLives`). A task sleeps through pauses and speeds and is
cancelled only by a new session, which brings its own token; a reply whose start
was asked for last is never rejected; and nothing beyond the end is asked for
(`WithinArchive`), so the error of the server takes no token away.

`SupplyInv` ties the token to the buffer. At speed one a tick takes a unit from a
sleeping task and one from the buffer, so the difference stays: what is buffered,
without what the server may still send in this tick (`credit`), is at least what is
left of the delay, and `Lead`, less one unit (`TasksSupplied`). A
fragment just answered is in the buffer as a whole (`AnswersSupplied`), which is
what the delay of the task it starts is computed from. A pause or a task that
wakes late only leaves more in the buffer. A buffer runs empty without a refill
to come only once the last unit has been read (`EndSupplied`, `Exhausted`).
By `Prompt`, `NoUnderrun` looks at moments when nothing is ready to run: then the
token of `TokenInv` is in a task that still sleeps, and its `Lead` is in the buffer.

`Startup_proofs`, of the bridge alone:

- `TypeCorrect`: neither channel exceeds its capacity;
- `Lossless`: `Spec => []NothingLost`: what was accepted is what was received,
  followed by the loop's channel, the message in the bridge's hand and the std
  channel, in that order;
- `ImplementsQueue`: `Spec => QueueSpec`. A step of `MessageQueue` appends to
  `received` the element of `sent` at the next index; that the loop takes exactly
  this one is what `NothingLost` says, so the refinement rests on it.

And of the session: a step of `Startup` is a step of `DcBridge` or leaves it alone
(`ImplementsBridge`), so `SessionLossless` and `SessionIsQueue` follow from the above
whatever fails on the way; `SessionTyped` adds the types of its own.

`MainWindow_proofs`, of the timeline alone:

- `TypeCorrect`, `WindowCorrect` (`ViewInArchive`) and `NeverPanics` (`NoPanic`).
  `ViewInArchive` and `NoPanic` speak of moments after the timer has run; in
  between the window may hang over the new archive. The invariant for panics
  (`Narrow`) says that while `grown`, the window and the window a drag began with
  are no longer than the archive, wherever they lie: that is what the clamps need.

- `ZoomKeeps`: zooming, unless it meets an end of the archive, keeps the instant
  under the cursor up to one unit, for any factor and width.

And of the window: `WindowHasParts` gives the theorems above to the window, and
the rest is about the other two parts. `RateSettles` (invariant `Agreeing`): once the
channel is empty and nothing waits to be queued or was dropped, the speed stored is
the one the loop is sending, or has sent last: it is the server's unless that send
has failed.

`VideoPipeline_proofs`: the channel is a window of consecutive packets behind the
one the decoding thread took last (`OnTheWay`), and nothing it has to show is
older than what is shown (`Forward`). `CodecsApart` and `PlayheadNear` follow.

`HevcDepacketizer_proofs`, for any number of NALs, any headers, bodies as long as an
aggregation packet can tell, every way of cutting them and every loss:

- `TypeCorrect`: `Spec => []TypeOK`;
- `Reassembles`: `Spec => []Reassembled`: without loss, what comes out is what was
  sent;
- `LossStaysPut`: `Spec => []LossContained`.

None of the three is inductive. `LossInv` says what the wire can hold: nothing, the
packet of the last NAL or of the last two, or what is left of the fragments of the
last one from the `k`-th on (`WireShape`). The buffer is the beginning of a NAL
none of which has come out: of the one whose fragments are on their way, up to the
one to come unless it is damaged, or of one that has lost its end (`BufferInv`).
What has come out are NALs that begin as one sent before those on their way, each
once, and each undamaged one whole (`OutInv`). The splices of
`HevcDepacketizer_splice.cfg` are within this: such a NAL begins with its own start
and belongs to the damaged one it begins with. `Aggregated` is a recursive function;
that it has a value is shown from the least number of bytes before the end of the
packet from which it would have none (`LoopExists`), and for the packets sent it is
then unfolded three times (`PairUnpacked`). The bits and lengths (`Kept`, the
fragment's type, two bytes of length) are lemmas on division by constants.

`RtpClock_proofs`: `PlayheadFollows` and `ImplementsContentClock` for recordings that
keep to their day (`WithinDay`), an assumption of these theorems that
`RtpClock_midnight.cfg` shows to be needed. The invariant (`ClockInv`) says that the
unwrapped timestamp is the frame's time of day, or less by one wrap if the
timestamps have wrapped before the fragment (`Follows`), and how far the reference
leads the content (`Leads`). `Unwrap` keeps this as long as consecutive frames are
less than half the range apart (`FramesAssumption`, which also says that no day
has two wraps), and the milliseconds of a difference are exact because both
timestamps are of whole milliseconds. Of the two cases, one tells the time of the
frame and the other names an instant before the fragment (`OffsetTells`), so that
the code's choice between timestamp and reference is the right one.

`PlaybackSpan_proofs` goes down to single loads and stores, for any fragment length,
archive, targets and number of operations. `Playing` is two invariants.

- `Accesses` holds in any race: every atomic, every register and every store still
  to come is nothing or something a seek or a reply has set (`Values`, `Possible`),
  what a list stores comes before what it loads (`StoresFirst`), there is nothing to
  read until the first seek has set span and position (`First`), and what a
  computation uses is loaded before it (`LoopReady`, `ReaderReady`). `TypeCorrect` and `PositionsKnown` (`PositionsAreLoaded`) follow: the
  clamps of the code need no more than that both ends of a span, from whatever
  spans they are, were given.
- `CalmQuiet` is about calm behaviours. Between two stores of one operation the
  atomics are of two minds, and no statement about them as they stand is
  inductive; it speaks of the atomics as they will be when the lists of accesses
  are worked off (`Settled`), which is well defined because threads that overlap
  then store the same values (`Single`). In `Settled` the span is one of the
  fragments with the position inside, and the newest fragment is the span or
  pending right behind it (`Whole`); the reader's anchor maps content to itself
  (`Anchored`); the stores to come move the position forward (`Forward`); and what a
  thread has loaded is what it would still load, or behind (`UiCalm`, `ReaderCalm`,
  `LoopCalm`). `SpanWhole` (`SpanWholeAtRest`), `NewestKept` (`NewestFragmentKept`) and the
  action property `ForwardOnly` (`NeverBack`) follow.

`IceAgent_proofs`, for any addresses, number of checks and of restarts, and a network
that loses, doubles, delays and reorders:

- `TypeCorrect`: `Spec => []TypeOK`;
- `AgentsAgree`: `Spec => []PairsAgree`;
- `NominatedOnce`: calm agents nominate one pair in a session;
- `ReportsTrue`: `Spec => []ConnectedHasPair`;
- `ImplementsAgreement`: `Spec => KeepsPromise`: the refinement of `IceAgreement`.

All but the first assume `Tame`: worlds in which tasks race have no restarts (those
without races may have any number). Where racing tasks meet restarts, a task may
select after a restart what it decided on before, and `PairsAgree` is false. The
invariant `IceInv` follows a nomination around the two agents. `Grounded`: whatever
speaks of a chosen pair (a packet with USE-CANDIDATE that its receiver would
accept, its answer, the flag in a checklist, a decision, a selected pair) goes
back to a nomination of the session its holder is in; credentials are what keeps
an earlier session's packets out. `AllSteady`: the answer selects the pair its
addresses are found for, and this is the nominated one because its remote
candidate does not change while the socket is read; without it, a told candidate
could take the place of the peer-reflexive one that was nominated. `CalmOrder`:
when tasks do not overtake each other, a decision to nominate is taken only
before any nomination of its session, and one to report only with a pair. The
refinement needs one thing more, `ChoosesOnce`: a decision to select waits only
while nothing is selected. `Nominate` is then a `Nominate` of `IceAgreement`, `Select`
a `Use`, `Restart` a `Leave`, a report a `Report` or a `GiveUp` (as are giving up and
closing); `Renominate` and everything else stutter.

Model-checked only: liveness (`PlaysToEnd`, `SpeedsConverge`, `CallbacksReturn`,
`Delivered`, `DecoderFinishes`, `FramesShown`, `Connects`), which is out of the prover's
reach. Every other property of a passing run is the subject of a theorem, in some
cases under the assumptions named above, which the run's constants satisfy.

## Plan

Done: everything in the table of modules. Left, in this order:

1. Pair priorities as a pure algorithm against their definition; `IceNotify`: the
   notification channels of capacity one, their handlers, and `close`.
2. `DataChannel`: the OPEN/ACK handshake, polled reads and writes, thresholds.
3. `UdpMux` and `IceGather`: address map, connections per ufrag, the gathering
   state and the end of candidates.

## Not modelled

Decoding (ffmpeg), drawing (cairo, GTK), the marker under the mouse, the panel of
technical information, HTTP and TLS of the signalling, SDP and STUN parsing, SCTP
and DTLS, statistics, configuration: they keep no state another part reads, or are
libraries. Changes of role, lite agents and mDNS of the ICE agent. Meta messages only replace the list of objects drawn over the video.
