---------------------------- MODULE ArchiveLoop ----------------------------
(***************************************************************************)
(* The archive control loop of the player (src/archive_loop.rs) together   *)
(* with everything it shares state with: the UI thread that queues         *)
(* commands, the refill tasks the loop spawns, the data channel in both    *)
(* directions, and the archive server.                                     *)
(*                                                                         *)
(* The loop is one task: it takes a command or a message only when it is   *)
(* idle, and a command is split at each of its awaits (loop.pc), where the *)
(* refill tasks and the UI may run. Content time is counted in units; a    *)
(* Tick is one unit of wall-clock time. Time zero means "unset", as in the *)
(* code, so recorded content starts later than zero.                       *)
(*                                                                         *)
(* The playhead - the span being played, the position, the pending         *)
(* fragment and the generation, which seeks and replies set as well - is   *)
(* not here: the reader and the redraw use its atomics in the middle of    *)
(* what the loop does, so PlaybackSpan models them access by access. The   *)
(* loop's commands, requests, sessions and timers do not depend on it.     *)
(***************************************************************************)
EXTENDS Integers, Sequences, FiniteSets

CONSTANTS
    Fragment,       \* FRAGMENT_DURATION_MS in content units
    Lead,           \* REQUEST_NEXT_FRAGMENT_BEFORE_END_MS in content units
    Margin,         \* margin_ms in content units
    ArchiveEnd,     \* the recorded content is 1 .. ArchiveEnd
    Targets,        \* the instants the user may click
    Speeds,         \* the speeds the user may choose, of 1, 2, 4, 8
    Commands,       \* the types of command the user issues in this instance
    MaxCommands,    \* bound: how many commands the user issues
    CmdCapacity,    \* capacity of the command channel (32 in main.rs)
    Timers,         \* the slots for refill tasks: bound on live tasks
    NearSeeks,      \* TRUE: a seek may come close to content in transit
    OpenAtStart,    \* TRUE: the data channel opens before the first command
    MayClose,       \* TRUE: the data channel may close at any time
    Prompt,         \* TRUE: messages and tasks take less than a Tick
    AtomicTasks,    \* TRUE: a woken refill task runs to its end undisturbed
    SameMillisecond \* TRUE: Pause and Play may fall in one millisecond

CommandTypes ==
    {"GetRanges", "PlayFrom", "SeekTo", "Stop", "Pause", "Play", "SetSpeed"}

Seeks == {"PlayFrom", "SeekTo"}

ASSUME FragmentAssumption ==
    /\ Fragment \in Nat /\ Lead \in Nat /\ Margin \in Nat
    /\ 0 < Lead /\ Lead < Fragment /\ Margin < Fragment
ASSUME ArchiveAssumption ==
    /\ ArchiveEnd \in Nat \ {0}
    /\ Targets \subseteq 1 .. (ArchiveEnd - 1)
ASSUME InputAssumption ==
    /\ Speeds \subseteq {1, 2, 4, 8}
    /\ Commands \subseteq CommandTypes
    /\ MaxCommands \in Nat /\ CmdCapacity \in Nat \ {0}
ASSUME TimersAssumption == IsFiniteSet(Timers)
ASSUME SchedulingAssumption ==
    /\ NearSeeks \in BOOLEAN /\ OpenAtStart \in BOOLEAN /\ MayClose \in BOOLEAN
    /\ Prompt \in BOOLEAN /\ AtomicTasks \in BOOLEAN
    /\ SameMillisecond \in BOOLEAN

VARIABLES
    cmds,        \* the command channel, from the UI to the loop
    issued,      \* how many commands the user has issued
    loop,        \* where the loop stands in the command it is executing
    session,     \* session_id
    requested,   \* last_play_from_requested_ms
    speed,       \* playback_speed
    started,     \* playback_started_at_unix_ms # 0
    paused,      \* playback_paused_at_unix_ms # 0
    ranges,      \* whether the ranges have been received
    timers,      \* the refill tasks
    dc,          \* the data channel: connecting; opened, with the task that
                 \*   on_open spawns still to run; open; or closed
    toServer,    \* the data channel, client to server
    toClient,    \* the data channel, server to client
    streaming,   \* the server: whether it sends frames,
    buffer,      \*   the fragments it has loaded and not yet sent,
    rate,        \*   its speed
    credit,      \* content units the server may still send in this Tick
    received     \* content time of the last packet received

commandVars == <<cmds, issued>>
playVars    == <<started, paused>>
channelVars == <<dc, toServer, toClient>>
serverVars  == <<streaming, buffer, rate>>
streamVars  == <<serverVars, credit, received>>
vars == <<cmds, issued, loop, session, requested, speed, started, paused,
          ranges, timers, dc, toServer, toClient, streaming, buffer, rate,
          credit, received>>

-----------------------------------------------------------------------------
(* Intervals of content. Both atomics at zero stand for "no interval".     *)

Unset == [start |-> 0, end |-> 0]
Interval(s, e) == [start |-> s, end |-> e]
Least(a, b) == IF a <= b THEN a ELSE b
Greatest(a, b) == IF a >= b THEN a ELSE b
Monus(a, b) == IF a >= b THEN a - b ELSE 0
IsPlaying == started /\ ~paused

-----------------------------------------------------------------------------
(* Requests and replies of the data channel protocol.                      *)

Request(type) == [type |-> type, start |-> 0, speed |-> 0]
FragmentRequest(t) == [type |-> "get_archive_fragment", start |-> t, speed |-> 0]
SpeedRequest(s) == [type |-> "set_speed", start |-> 0, speed |-> s]
Reply(type, i) == [type |-> type, start |-> i.start, end |-> i.end]

Open == dc \in {"opened", "open"}

(* dc.send_text: an error on a channel that is not open is only logged.    *)
Sent(m) == IF Open THEN Append(toServer, m) ELSE toServer

IdleLoop == [pc |-> "idle", target |-> 0]
At(pc) == loop' = [loop EXCEPT !.pc = pc]
Finish == loop' = IdleLoop

FreeTimer == [pc |-> "free", session |-> 0, next |-> 0, left |-> 0]
Init ==
    /\ cmds = <<>> /\ issued = 0
    /\ loop = IdleLoop
    /\ session = 0 /\ requested = 0
    /\ speed = 1
    /\ started = FALSE /\ paused = FALSE
    /\ ranges = FALSE
    /\ timers = [t \in Timers |-> FreeTimer]
    /\ dc = IF OpenAtStart THEN "opened" ELSE "connecting"
    /\ toServer = <<>> /\ toClient = <<>>
    /\ streaming = FALSE /\ buffer = <<>> /\ rate = 1
    /\ credit = 0
    /\ received = 0

-----------------------------------------------------------------------------
(* The UI thread.                                                          *)

(* Content asked for, or about to be, whose reply is still to come.        *)
InTransit ==
    ({toServer[i].start : i \in DOMAIN toServer}
        \cup {toClient[i].start : i \in DOMAIN toClient}
        \cup {cmds[i].arg : i \in {j \in DOMAIN cmds : cmds[j].type \in Seeks}}
        \cup {loop.target}
        \cup {timers[t].next : t \in {u \in Timers : Prompt => timers[u].left = 0}})
    \ {0}

(* A seek the margin tells apart from the content in transit: one that is  *)
(* well before all of it. Without NearSeeks the user makes no other.       *)
SeekTargets ==
    {t \in Targets : ranges /\ (NearSeeks \/ \A u \in InTransit : t + Margin < u)}

(* What is_playing may say: it loads two atomics, and the loop may clear    *)
(* both of them in between.                                                *)
PlayingSeen ==
    {IsPlaying} \cup
        (IF started /\ loop.pc \in {"seekRequested", "stop", "play"} THEN {TRUE} ELSE {})

(* What a click may queue, given what the UI reads at that moment: a seek  *)
(* needs a drawn timeline, hence ranges; the pause button sends Pause or   *)
(* Play after reading is_playing; a new speed is stored before it is sent. *)
Issuable ==
    {[type |-> "SeekTo", arg |-> t] : t \in SeekTargets}
    \cup {[type |-> "PlayFrom", arg |-> t] : t \in SeekTargets}
    \cup {[type |-> IF p THEN "Pause" ELSE "Play", arg |-> 0] : p \in PlayingSeen}
    \cup {[type |-> "SetSpeed", arg |-> s] : s \in Speeds \ {speed}}
    \cup {[type |-> "Stop", arg |-> 0], [type |-> "GetRanges", arg |-> 0]}

(* try_send: when the channel is full the command is silently dropped.     *)
IssueBeyond(c) == \* mutant: one more command than the channel holds
    /\ issued < MaxCommands
    /\ c.type \in Commands
    /\ issued' = issued + 1
    /\ cmds' = IF Len(cmds) <= CmdCapacity THEN Append(cmds, c) ELSE cmds
    /\ speed' = IF c.type = "SetSpeed" THEN c.arg ELSE speed
    /\ UNCHANGED <<loop, session, requested, playVars, ranges, timers,
                   channelVars, streamVars>>

Issue(c) ==
    /\ issued < MaxCommands
    /\ c.type \in Commands
    /\ issued' = issued + 1
    /\ cmds' = IF Len(cmds) < CmdCapacity THEN Append(cmds, c) ELSE cmds
    /\ speed' = IF c.type = "SetSpeed" THEN c.arg ELSE speed
    /\ UNCHANGED <<loop, session, requested, playVars, ranges, timers,
                   channelVars, streamVars>>

-----------------------------------------------------------------------------
(* Commands, up to their first await: the loop is idle and takes the first *)
(* command of the channel.                                                 *)

Take(type) ==
    /\ loop.pc = "idle"
    /\ cmds # <<>>
    /\ Head(cmds).type = type
    /\ cmds' = Tail(cmds)
    /\ UNCHANGED issued

TakeGetRanges ==
    /\ Take("GetRanges")
    /\ toServer' = Sent(Request("get_ranges"))
    /\ UNCHANGED <<loop, session, requested, speed, playVars, ranges, timers,
                   dc, toClient, streamVars>>

(* SeekTo and PlayFrom start alike: a new session, then drop_buffer.       *)
TakeSeekSameSession == \* mutant: the session is not advanced
    /\ \/ Take("SeekTo") /\ loop' = [pc |-> "seek", target |-> Head(cmds).arg]
       \/ Take("PlayFrom") /\ loop' = [pc |-> "playFrom", target |-> Head(cmds).arg]
    /\ toServer' = Sent(Request("drop_buffer"))
    /\ UNCHANGED <<session, requested, speed, playVars, ranges, timers, dc,
                   toClient, streamVars>>

TakeSeek ==
    /\ \/ Take("SeekTo") /\ loop' = [pc |-> "seek", target |-> Head(cmds).arg]
       \/ Take("PlayFrom") /\ loop' = [pc |-> "playFrom", target |-> Head(cmds).arg]
    /\ session' = session + 1
    /\ toServer' = Sent(Request("drop_buffer"))
    /\ UNCHANGED <<requested, speed, playVars, ranges, timers, dc, toClient,
                   streamVars>>

TakePause ==
    /\ \/ Take("Pause") /\ At("pause")
       \/ Take("Stop") /\ At("stop")
    /\ toServer' = Sent(Request("stop_stream"))
    /\ UNCHANGED <<session, requested, speed, playVars, ranges, timers, dc,
                   toClient, streamVars>>

TakePlay ==
    /\ Take("Play")
    /\ At("play")
    /\ toServer' = Sent(Request("play_stream"))
    /\ UNCHANGED <<session, requested, speed, playVars, ranges, timers, dc,
                   toClient, streamVars>>

TakeSetSpeedStaleSent == \* mutant: the request is built before the store
    /\ Take("SetSpeed")
    /\ speed' = Head(cmds).arg
    /\ toServer' = Sent(SpeedRequest(speed))
    /\ UNCHANGED <<loop, session, requested, playVars, ranges, timers, dc,
                   toClient, streamVars>>

TakeSetSpeed ==
    /\ Take("SetSpeed")
    /\ speed' = Head(cmds).arg
    /\ toServer' = Sent(SpeedRequest(Head(cmds).arg))
    /\ UNCHANGED <<loop, session, requested, playVars, ranges, timers, dc,
                   toClient, streamVars>>

TakeCommand ==
    TakeGetRanges \/ TakeSeek \/ TakePause \/ TakePlay \/ TakeSetSpeed

(* The rest of a command, one action per await.                            *)

Continue(pc) == loop.pc = pc /\ UNCHANGED commandVars

(* The second send of a seek.                                              *)
RequestTarget ==
    /\ \/ Continue("seek") /\ At("seekRequested")
       \/ Continue("playFrom") /\ At("playFromRequested")
    /\ toServer' = Sent(FragmentRequest(loop.target))
    /\ UNCHANGED <<session, requested, speed, playVars, ranges, timers, dc,
                   toClient, streamVars>>

FinishSeekStillPlaying == \* mutant: the wall clock is not cleared
    /\ Continue("seekRequested")
    /\ requested' = loop.target
    /\ Finish
    /\ UNCHANGED <<session, speed, playVars, ranges, timers, channelVars,
                   streamVars>>

(* Of the stores that end a seek the UI looks here only at the wall        *)
(* clock's, by PlayingSeen, and the refill tasks at the instant requested. *)
FinishSeek ==
    /\ Continue("seekRequested")
    /\ requested' = loop.target
    /\ started' = FALSE /\ paused' = FALSE
    /\ Finish
    /\ UNCHANGED <<session, speed, ranges, timers, channelVars, streamVars>>

(* PlayFrom anchors the wall clock but leaves a pause as it is.            *)
StartPlayFrom ==
    /\ Continue("playFromRequested")
    /\ requested' = loop.target
    /\ started' = TRUE
    /\ toServer' = Sent(Request("play_stream"))
    /\ At("playFromStarted")
    /\ UNCHANGED <<session, speed, paused, ranges, timers, dc, toClient,
                   streamVars>>

FinishPlayFrom ==
    /\ Continue("playFromStarted")
    /\ toServer' = Sent(SpeedRequest(speed))
    /\ Finish
    /\ UNCHANGED <<session, requested, speed, playVars, ranges, timers, dc,
                   toClient, streamVars>>

FinishPause ==
    /\ Continue("pause")
    /\ paused' = TRUE
    /\ Finish
    /\ UNCHANGED <<session, requested, speed, started, ranges, timers,
                   channelVars, streamVars>>

FinishStop ==
    /\ Continue("stop")
    /\ started' = FALSE /\ paused' = FALSE
    /\ Finish
    /\ UNCHANGED <<session, requested, speed, ranges, timers, channelVars,
                   streamVars>>

(* set_playback_resumed. A paused clock restarts at now minus the time     *)
(* played before the pause; after a pause that follows a seek that is now  *)
(* minus the instant of the pause, zero within the same millisecond.       *)
FinishPlay ==
    /\ Continue("play")
    /\ IF paused
       THEN started' \in IF SameMillisecond THEN {TRUE, started} ELSE {TRUE}
       ELSE started' = TRUE
    /\ paused' = FALSE
    /\ Finish
    /\ UNCHANGED <<session, requested, speed, ranges, timers, channelVars,
                   streamVars>>

ContinueCommand ==
    \/ RequestTarget \/ FinishSeek \/ StartPlayFrom \/ FinishPlayFrom
    \/ FinishPause \/ FinishStop \/ FinishPlay

-----------------------------------------------------------------------------
(* Messages: the idle loop takes the first message of the channel.         *)

Receive(type) ==
    /\ loop.pc = "idle"
    /\ toClient # <<>>
    /\ Head(toClient).type = type
    /\ toClient' = Tail(toClient)
    /\ UNCHANGED <<dc, toServer>>

(* set_ranges.                                                             *)
ReceiveRanges ==
    /\ Receive("ranges")
    /\ ranges' = TRUE
    /\ UNCHANGED <<commandVars, loop, session, requested, speed, playVars,
                   timers, streamVars>>

(* A server error is only logged.                                          *)
ReceiveError ==
    /\ Receive("error")
    /\ UNCHANGED <<commandVars, loop, session, requested, speed, playVars,
                   ranges, timers, streamVars>>

(* is_for_current_request: which replies keep the chain of refills going.  *)
IsForCurrentRequest(f) ==
    \/ requested = 0
    \/ f.start <= requested + Margin /\ f.end >= Monus(requested, Margin)

(* schedule_next_fragment: the delay is fixed when the task is spawned.    *)
ContentDelayNoLead == Fragment \* mutant: wait for the whole fragment
ContentDelay == Fragment - Lead
ScheduleNextFragment(next) ==
    /\ \E t \in Timers : timers[t].pc = "free"
    /\ LET slot == CHOOSE t \in Timers : timers[t].pc = "free"
       IN timers' = [timers EXCEPT ![slot] =
                       [pc |-> "sleep", session |-> session, next |-> next,
                        left |-> ContentDelay \div Greatest(speed, 1)]]

ReceiveFragment ==
    /\ Receive("archive_fragment")
    /\ LET f == Interval(Head(toClient).start, Head(toClient).end)
       IN IF IsForCurrentRequest(f)
          THEN ScheduleNextFragment(f.end)
          ELSE UNCHANGED timers
    /\ UNCHANGED <<commandVars, loop, session, requested, speed, playVars,
                   ranges, streamVars>>

ReceiveMessage == ReceiveRanges \/ ReceiveError \/ ReceiveFragment

-----------------------------------------------------------------------------
(* Refill tasks. A task sleeps, compares its session with the current one, *)
(* sends its request and, once the send has returned, stores the start it  *)
(* asked for. On a closed channel the send fails and nothing is stored.    *)

Expired(t) == timers[t].pc = "sleep" /\ timers[t].left = 0
TaskAt(t, pc) == timers' = [timers EXCEPT ![t].pc = pc]
TaskEnds(t) == timers' = [timers EXCEPT ![t] = FreeTimer]
TaskFrame == UNCHANGED <<commandVars, loop, session, speed, playVars, ranges,
                         dc, toClient, streamVars>>

CancelTask(t) ==
    /\ Expired(t) /\ timers[t].session # session
    /\ TaskEnds(t)
    /\ UNCHANGED <<requested, toServer>> /\ TaskFrame

WakeTask(t) ==
    /\ ~AtomicTasks
    /\ Expired(t) /\ timers[t].session = session
    /\ TaskAt(t, "send")
    /\ UNCHANGED <<requested, toServer>> /\ TaskFrame

SendNext(t) ==
    /\ timers[t].pc = "send"
    /\ toServer' = Sent(FragmentRequest(timers[t].next))
    /\ IF Open THEN TaskAt(t, "store") ELSE TaskEnds(t)
    /\ UNCHANGED requested /\ TaskFrame

StoreNext(t) ==
    /\ timers[t].pc = "store"
    /\ requested' = timers[t].next
    /\ TaskEnds(t)
    /\ UNCHANGED toServer /\ TaskFrame

RunTaskNoStore(t) == \* mutant: the start asked for is not stored
    /\ AtomicTasks
    /\ Expired(t) /\ timers[t].session = session
    /\ toServer' = Sent(FragmentRequest(timers[t].next))
    /\ TaskEnds(t)
    /\ UNCHANGED requested /\ TaskFrame

RunTask(t) ==
    /\ AtomicTasks
    /\ Expired(t) /\ timers[t].session = session
    /\ toServer' = Sent(FragmentRequest(timers[t].next))
    /\ requested' = IF Open THEN timers[t].next ELSE requested
    /\ TaskEnds(t) /\ TaskFrame

TaskStep(t) ==
    CancelTask(t) \/ WakeTask(t) \/ SendNext(t) \/ StoreNext(t) \/ RunTask(t)

-----------------------------------------------------------------------------
(* The data channel opens; on_open spawns a task that sends get_ranges,    *)
(* which others may be ahead of, and for which the channel may have closed.*)
OpenChannel ==
    /\ dc = "connecting"
    /\ dc' = "opened"
    /\ UNCHANGED <<commandVars, loop, session, requested, speed, playVars,
                   ranges, timers, toServer, toClient, streamVars>>

SendRanges ==
    /\ dc = "opened"
    /\ dc' = "open"
    /\ toServer' = Sent(Request("get_ranges"))
    /\ UNCHANGED <<commandVars, loop, session, requested, speed, playVars,
                   ranges, timers, toClient, streamVars>>

(* The connection is lost, with what was on its way to the server; the     *)
(* loop still gets what its channels hold. Nothing reopens it.             *)
CloseChannel ==
    /\ MayClose /\ Open
    /\ dc' = "closed"
    /\ toServer' = <<>>
    /\ streaming' = FALSE /\ buffer' = <<>>
    /\ UNCHANGED <<commandVars, loop, session, requested, speed, playVars,
                   ranges, timers, toClient, rate, credit, received>>

(* The server, external: it answers get_ranges and get_archive_fragment    *)
(* (the replies to other requests are not handled by the loop) and plays   *)
(* the fragments of its buffer in the order in which they were loaded.     *)
Serve(types) ==
    /\ toServer # <<>>
    /\ Head(toServer).type \in types
    /\ toServer' = Tail(toServer)
    /\ UNCHANGED <<commandVars, loop, session, requested, speed, playVars,
                   ranges, timers, dc, credit, received>>

ServeFragment ==
    /\ Serve({"get_archive_fragment"})
    /\ LET start == Head(toServer).start
           f == Interval(start, Least(start + Fragment, ArchiveEnd))
       IN IF start < ArchiveEnd
          THEN /\ buffer' = Append(buffer, f)
               /\ toClient' = Append(toClient, Reply("archive_fragment", f))
          ELSE /\ toClient' = Append(toClient, Reply("error", Unset))
               /\ UNCHANGED buffer
    /\ UNCHANGED <<streaming, rate>>

ServeRanges ==
    /\ Serve({"get_ranges"})
    /\ toClient' = Append(toClient, Reply("ranges", Unset))
    /\ UNCHANGED serverVars

ServeDrop ==
    /\ Serve({"drop_buffer"})
    /\ buffer' = <<>> /\ streaming' = FALSE
    /\ UNCHANGED <<rate, toClient>>

ServePlay ==
    /\ Serve({"play_stream", "stop_stream"})
    /\ streaming' = (Head(toServer).type = "play_stream")
    /\ UNCHANGED <<buffer, rate, toClient>>

ServeSpeed ==
    /\ Serve({"set_speed"})
    /\ rate' = Head(toServer).speed
    /\ UNCHANGED <<streaming, buffer, toClient>>

ServeRequest ==
    ServeFragment \/ ServeRanges \/ ServeDrop \/ ServePlay \/ ServeSpeed

-----------------------------------------------------------------------------
(* The stream and wall-clock time.                                         *)

CanStream == streaming /\ buffer # <<>>

(* External: the server sends one unit of its buffer, and the player gets  *)
(* it.                                                                     *)
StreamUnit ==
    /\ CanStream /\ credit > 0
    /\ LET f == Head(buffer)
       IN /\ buffer' = IF f.start + 1 < f.end
                       THEN <<Interval(f.start + 1, f.end)>> \o Tail(buffer)
                       ELSE Tail(buffer)
          /\ received' = f.start
    /\ credit' = credit - 1
    /\ UNCHANGED <<commandVars, loop, session, requested, speed, playVars,
                   ranges, timers, channelVars, streaming, rate>>

(* What is done well within a unit of time when everything is prompt.      *)
Settled ==
    /\ cmds = <<>> /\ loop.pc = "idle"
    /\ toServer = <<>> /\ toClient = <<>> /\ dc # "opened"
    /\ \A t \in Timers :
          timers[t].pc = "free" \/ (timers[t].pc = "sleep" /\ ~Expired(t))

(* A unit of wall-clock time passes: tasks get closer to waking, and the   *)
(* server may send another `rate' units of content.                       *)
Tick ==
    /\ CanStream => credit = 0
    /\ Prompt => Settled
    /\ credit' = IF streaming THEN rate ELSE 0
    /\ timers' = [t \in Timers |->
                    [timers[t] EXCEPT !.left = Monus(timers[t].left, 1)]]
    /\ UNCHANGED <<commandVars, loop, session, requested, speed, playVars,
                   ranges, channelVars, serverVars, received>>

-----------------------------------------------------------------------------
UserStep == \E c \in Issuable : Issue(c)

Next ==
    \/ UserStep
    \/ TakeCommand
    \/ ContinueCommand
    \/ ReceiveMessage
    \/ \E t \in Timers : TaskStep(t)
    \/ OpenChannel
    \/ SendRanges
    \/ CloseChannel
    \/ ServeRequest
    \/ StreamUnit
    \/ Tick

Spec == Init /\ [][Next]_vars

(* The runtime polls every ready task, select! picks its ready branch at   *)
(* random, the server answers, time passes. The user owes nothing.         *)
Fairness ==
    /\ SF_vars(TakeCommand) /\ SF_vars(ReceiveMessage)
    /\ WF_vars(ContinueCommand)
    /\ \A t \in Timers : WF_vars(TaskStep(t))
    /\ WF_vars(OpenChannel) /\ WF_vars(SendRanges) /\ WF_vars(ServeRequest)
    /\ WF_vars(StreamUnit) /\ WF_vars(Tick)

FairSpec == Spec /\ Fairness

-----------------------------------------------------------------------------
(* Properties.                                                             *)

Times == 0 .. (ArchiveEnd + Fragment)
Intervals == [start : Times, end : Times]
CommandRecords ==
    [type : Seeks, arg : Targets] \cup [type : {"SetSpeed"}, arg : Speeds]
    \cup [type : CommandTypes \ (Seeks \cup {"SetSpeed"}), arg : {0}]
Requests ==
    [type : {"get_ranges", "drop_buffer", "play_stream", "stop_stream"},
     start : {0}, speed : {0}]
    \cup [type : {"get_archive_fragment"}, start : Times, speed : {0}]
    \cup [type : {"set_speed"}, start : {0}, speed : {1, 2, 4, 8}]
Replies ==
    [type : {"ranges", "error", "archive_fragment"}, start : Times, end : Times]
LoopStates ==
    [pc : {"idle", "pause", "stop", "play"}, target : {0}]
    \cup [pc : {"seek", "seekRequested", "playFrom", "playFromRequested",
                "playFromStarted"}, target : Targets]

(* The shape of the state; the command channel never holds more than it    *)
(* has room for.                                                           *)
TypeOK ==
    /\ cmds \in Seq(CommandRecords) /\ Len(cmds) <= CmdCapacity
    /\ issued \in 0 .. MaxCommands
    /\ loop \in LoopStates
    /\ session \in Nat
    /\ requested \in Times
    /\ speed \in {1, 2, 4, 8}
    /\ started \in BOOLEAN /\ paused \in BOOLEAN /\ ranges \in BOOLEAN
    /\ dc \in {"connecting", "opened", "open", "closed"}
    /\ timers \in [Timers -> [pc : {"free", "sleep", "send", "store"},
                              session : Nat, next : Times, left : Nat]]
    /\ toServer \in Seq(Requests)
    /\ toClient \in Seq(Replies)
    /\ streaming \in BOOLEAN /\ buffer \in Seq(Intervals) /\ rate \in {1, 2, 4, 8}
    /\ credit \in 0 .. 8
    /\ received \in Times

(* The content in the server's buffer is one uninterrupted stretch: no     *)
(* refill asks for content already asked for, or skips some, whatever      *)
(* seeks fall between a refill's timer, its request and its reply          *)
(* (archive_loop.rs:70, a request is not to be duplicated).                *)
BufferContiguous ==
    \A i \in 1 .. (Len(buffer) - 1) :
        buffer[i].end = buffer[i + 1].start

(* While it streams, the server has content to send until the end of the   *)
(* archive: each refill arrives before the fragment before it is played    *)
(* (archive_loop.rs:1, the buffer is refilled 2 s before its end).         *)
NoUnderrun ==
    streaming /\ requested # 0 /\ Settled /\ received # ArchiveEnd - 1
        => buffer # <<>>

Quiescent ==
    /\ cmds = <<>> /\ loop.pc = "idle"
    /\ toServer = <<>> /\ toClient = <<>>
    /\ \A t \in Timers : timers[t].pc = "free"

(* The refill chain ends only at the end of the archive: when nothing is   *)
(* scheduled, asked for or answered any more, the last request reached it  *)
(* (archive_loop.rs:287-288, the chain must not break off).                *)
RefillNeverStops ==
    Open /\ requested # 0 /\ Quiescent => requested = ArchiveEnd

CommandsServed ==
    Open /\ cmds = <<>> /\ loop.pc = "idle" /\ toServer = <<>>

(* When every command has been executed and served, the play button shows  *)
(* what the server does (app_state.rs:312, is_playing; 282-283, resuming). *)
PlayStateAgrees == CommandsServed => (IsPlaying <=> streaming)

(* When every command has been executed and served, the speed shown is the *)
(* one the server plays at, in whatever order the user, the loop and the   *)
(* server took their steps.                                                *)
SpeedAgrees == CommandsServed => rate = speed

(* A stream that goes on plays the archive to its end: the chain of refill *)
(* requests, replies and tasks never loses its thread.                     *)
PlaysToEnd ==
    <>[](streaming /\ requested # 0) => <>(received = ArchiveEnd - 1)

-----------------------------------------------------------------------------
(* What the documentation says of the program, and the code does not do.   *)

(* archive_loop.rs:16: the next fragment is asked for Lead units of content *)
(* before the end of the current one (with one unit of tolerance): while   *)
(* frames come, no more than that is left to play when it is asked for.    *)
RequestedNearEnd ==
    streaming /\ buffer # <<>> /\ Settled
        => requested <= Head(buffer).start + Lead + 1

(* PROJECT_CONTEXT.md:38: after a click the server starts sending.         *)
ClickStartsStream ==
    CommandsServed /\ requested # 0 => streaming
=============================================================================
