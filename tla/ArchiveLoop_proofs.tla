------------------------ MODULE ArchiveLoop_proofs ------------------------
(***************************************************************************)
(* Proofs about ArchiveLoop for every value of its constants: the type     *)
(* invariant; that the speed and the play button show what the server      *)
(* does; and that the server's buffer is refilled in one stretch, to the   *)
(* end and in time.                                                        *)
(***************************************************************************)
EXTENDS ArchiveLoop, TLAPS, SequenceTheorems

LEMMA UnsetType == Unset \in Intervals /\ 0 \in Times
  BY FragmentAssumption, ArchiveAssumption DEF Unset, Times, Intervals

LEMMA TargetTypes ==
    ASSUME NEW t \in Targets
    PROVE  /\ t \in Times /\ t > 0
           /\ Interval(t, t + Fragment) \in Intervals
           /\ Interval(t, t + Fragment).end > t
  <1>1. t \in 1 .. (ArchiveEnd - 1)
    BY ArchiveAssumption
  <1> QED
    BY <1>1, FragmentAssumption, ArchiveAssumption DEF Times, Interval, Intervals

LEMMA RequestTypes ==
    /\ \A type \in {"get_ranges", "drop_buffer", "play_stream", "stop_stream"} :
          Request(type) \in Requests
    /\ \A t \in Times : FragmentRequest(t) \in Requests
    /\ \A s \in {1, 2, 4, 8} : SpeedRequest(s) \in Requests
  BY DEF Request, FragmentRequest, SpeedRequest, Requests

LEMMA SentType ==
    ASSUME TypeOK, NEW m \in Requests
    PROVE  Sent(m) \in Seq(Requests)
  BY DEF TypeOK, Sent

-----------------------------------------------------------------------------
(* Type correctness, group of actions by group of actions.                 *)

LEMMA InitType == Init => TypeOK
  <1> SUFFICES ASSUME Init PROVE TypeOK
    OBVIOUS
  <1>1. 0 \in Times /\ Unset \in Intervals
    BY FragmentAssumption, ArchiveAssumption DEF Times, Unset, Intervals
  <1>2. timers \in [Timers -> [pc : {"free", "sleep", "send", "store"},
                              session : Nat, next : Times, left : Nat]]
    BY <1>1 DEF Init, FreeTimer
  <1>3. toServer \in Seq(Requests)
    BY DEF Init
  <1>4. received \in Times /\ requested \in Times
    BY <1>1 DEF Init
  <1>5. loop \in LoopStates
    BY DEF Init, IdleLoop, LoopStates
  <1>6. /\ cmds \in Seq(CommandRecords) /\ Len(cmds) <= CmdCapacity
        /\ toClient \in Seq(Replies)
    BY InputAssumption DEF Init
  <1>7. buffer \in Seq(Intervals)
    BY DEF Init
  <1>8. /\ issued \in 0 .. MaxCommands /\ session \in Nat
        /\ speed \in {1, 2, 4, 8} /\ rate \in {1, 2, 4, 8} /\ credit \in 0 .. 8
    BY InputAssumption DEF Init
  <1>9. /\ started \in BOOLEAN /\ paused \in BOOLEAN /\ ranges \in BOOLEAN
        /\ streaming \in BOOLEAN /\ dc \in {"connecting", "opened", "open", "closed"}
    BY DEF Init
  <1> QED
    BY <1>2, <1>3, <1>4, <1>5, <1>6, <1>7, <1>8, <1>9 DEF TypeOK

LEMMA CommandType ==
    ASSUME TypeOK
    PROVE  Issuable \subseteq CommandRecords
  BY InputAssumption
     DEF TypeOK, Issuable, SeekTargets, CommandRecords, CommandTypes, Seeks

LEMMA UserType == TypeOK /\ UserStep => TypeOK'
  <1> SUFFICES ASSUME TypeOK, NEW c \in Issuable, Issue(c) PROVE TypeOK'
    BY DEF UserStep
  <1>1. c \in CommandRecords
    BY CommandType
  <1>2. cmds' \in Seq(CommandRecords) /\ Len(cmds') <= CmdCapacity
    BY <1>1, InputAssumption DEF TypeOK, Issue
  <1>3. issued' \in 0 .. MaxCommands
    BY InputAssumption DEF TypeOK, Issue
  <1>4. speed' \in {1, 2, 4, 8}
    BY <1>1, InputAssumption DEF TypeOK, Issue, CommandRecords, Seeks, CommandTypes
  <1> QED
    BY <1>2, <1>3, <1>4
       DEF TypeOK, Issue, playVars, channelVars, streamVars, serverVars

(* What the loop takes from the command channel.                           *)
LEMMA TakeType ==
    ASSUME TypeOK, NEW type \in CommandTypes, Take(type)
    PROVE  /\ cmds' \in Seq(CommandRecords) /\ Len(cmds') <= CmdCapacity
           /\ issued' \in 0 .. MaxCommands
           /\ Head(cmds) \in CommandRecords /\ Head(cmds).type = type
  BY InputAssumption DEF TypeOK, Take

LEMMA TakeCommandType == TypeOK /\ TakeCommand => TypeOK'
  <1> SUFFICES ASSUME TypeOK, TakeCommand PROVE TypeOK'
    OBVIOUS
  <1> USE DEF playVars, streamVars, serverVars
  <1>1. CASE TakeGetRanges
    BY <1>1, TakeType, RequestTypes, SentType DEF TypeOK, TakeGetRanges, CommandTypes
  <1>2. CASE TakeSeek
    <2>1. loop' \in LoopStates
      BY <1>2, TakeType
         DEF TakeSeek, LoopStates, CommandRecords, CommandTypes, Seeks
    <2>2. /\ cmds' \in Seq(CommandRecords) /\ Len(cmds') <= CmdCapacity
          /\ issued' \in 0 .. MaxCommands
      BY <1>2, TakeType DEF TakeSeek, CommandTypes
    <2> QED
      BY <1>2, <2>1, <2>2, RequestTypes, SentType DEF TypeOK, TakeSeek
  <1>3. CASE TakePause
    <2>1. loop' \in LoopStates
      BY <1>3 DEF TypeOK, TakePause, Take, At, LoopStates
    <2>2. /\ cmds' \in Seq(CommandRecords) /\ Len(cmds') <= CmdCapacity
          /\ issued' \in 0 .. MaxCommands
      BY <1>3, TakeType DEF TakePause, CommandTypes
    <2> QED
      BY <1>3, <2>1, <2>2, RequestTypes, SentType DEF TypeOK, TakePause
  <1>4. CASE TakePlay
    <2>1. loop' \in LoopStates
      BY <1>4 DEF TypeOK, TakePlay, Take, At, LoopStates
    <2>2. /\ cmds' \in Seq(CommandRecords) /\ Len(cmds') <= CmdCapacity
          /\ issued' \in 0 .. MaxCommands
      BY <1>4, TakeType DEF TakePlay, CommandTypes
    <2> QED
      BY <1>4, <2>1, <2>2, RequestTypes, SentType DEF TypeOK, TakePlay
  <1>5. CASE TakeSetSpeed
    <2>1. /\ cmds' \in Seq(CommandRecords) /\ Len(cmds') <= CmdCapacity
          /\ issued' \in 0 .. MaxCommands
          /\ Head(cmds).arg \in {1, 2, 4, 8}
      BY <1>5, TakeType, InputAssumption
         DEF TakeSetSpeed, CommandTypes, CommandRecords, Seeks
    <2> QED
      BY <1>5, <2>1, RequestTypes, SentType DEF TypeOK, TakeSetSpeed
  <1> QED
    BY <1>1, <1>2, <1>3, <1>4, <1>5 DEF TakeCommand

LEMMA ContinueCommandType == TypeOK /\ ContinueCommand => TypeOK'
  <1> SUFFICES ASSUME TypeOK, ContinueCommand PROVE TypeOK'
    OBVIOUS
  <1> USE DEF playVars, streamVars, serverVars, channelVars, commandVars, Continue
  <1>1. IdleLoop \in LoopStates
    BY DEF IdleLoop, LoopStates
  <1>2. loop.pc \in {"seek", "seekRequested", "playFrom", "playFromRequested",
                    "playFromStarted"} => loop.target \in Targets
    BY DEF TypeOK, LoopStates
  <1>3. loop.pc \in {"seek", "seekRequested", "playFrom", "playFromRequested",
                    "playFromStarted"}
          => /\ loop.target \in Times
             /\ Interval(loop.target, loop.target + Fragment) \in Intervals
    BY <1>2, TargetTypes
  <1>4. CASE RequestTarget
    <2>1. loop' \in LoopStates
      BY <1>2, <1>4 DEF TypeOK, RequestTarget, At, LoopStates
    <2>2. toServer' \in Seq(Requests)
      <3>1. FragmentRequest(loop.target) \in Requests
        BY <1>3, <1>4, RequestTypes DEF RequestTarget
      <3> QED
        BY <1>4, <3>1, SentType DEF RequestTarget
    <2> QED
      BY <1>4, <2>1, <2>2 DEF TypeOK, RequestTarget
  <1>5. CASE FinishSeek
    <2>1. requested' \in Times
      BY <1>3, <1>5 DEF FinishSeek
    <2>2. started' \in BOOLEAN /\ paused' \in BOOLEAN /\ loop' \in LoopStates
      BY <1>1, <1>5 DEF FinishSeek, Finish
    <2> QED
      BY <1>5, <2>1, <2>2 DEF TypeOK, FinishSeek
  <1>6. CASE StartPlayFrom
    <2>1. loop' \in LoopStates
      BY <1>2, <1>6 DEF TypeOK, StartPlayFrom, At, LoopStates
    <2>2. requested' \in Times
      BY <1>3, <1>6 DEF StartPlayFrom
    <2> QED
      BY <1>6, <2>1, <2>2, RequestTypes, SentType DEF TypeOK, StartPlayFrom
  <1>7. CASE FinishPlayFrom
    BY <1>1, <1>7, RequestTypes, SentType DEF TypeOK, FinishPlayFrom, Finish
  <1>8. CASE FinishPause
    BY <1>1, <1>8 DEF TypeOK, FinishPause, Finish
  <1>9. CASE FinishStop
    BY <1>1, <1>9 DEF TypeOK, FinishStop, Finish
  <1>10. CASE FinishPlay
    BY <1>1, <1>10 DEF TypeOK, FinishPlay, Finish
  <1> QED
    BY <1>4, <1>5, <1>6, <1>7, <1>8, <1>9, <1>10 DEF ContinueCommand

LEMMA ScheduleType ==
    ASSUME TypeOK, NEW next \in Times, ScheduleNextFragment(next)
    PROVE  timers' \in [Timers -> [pc : {"free", "sleep", "send", "store"},
                                   session : Nat, next : Times, left : Nat]]
  <1>1. ContentDelay \div Greatest(speed, 1) \in Nat
    <2>1. ContentDelay \in Nat
      BY FragmentAssumption DEF ContentDelay
    <2>2. Greatest(speed, 1) = speed /\ speed \in {1, 2, 4, 8}
      BY DEF TypeOK, Greatest
    <2> QED
      BY <2>1, <2>2
  <1> QED
    BY <1>1 DEF TypeOK, ScheduleNextFragment

(* What the loop takes from the message channel.                           *)
LEMMA ReceiveType ==
    ASSUME TypeOK, NEW type, Receive(type)
    PROVE  toClient' \in Seq(Replies) /\ Head(toClient) \in Replies
  BY DEF TypeOK, Receive

LEMMA ReceiveMessageType == TypeOK /\ ReceiveMessage => TypeOK'
  <1> SUFFICES ASSUME TypeOK, ReceiveMessage PROVE TypeOK'
    OBVIOUS
  <1> USE DEF playVars, streamVars, serverVars, commandVars
  <1>1. CASE ReceiveRanges
    BY <1>1, ReceiveType DEF TypeOK, ReceiveRanges, Receive
  <1>2. CASE ReceiveError
    BY <1>2, ReceiveType DEF TypeOK, ReceiveError, Receive
  <1>3. CASE ReceiveFragment
    <2> DEFINE f == Interval(Head(toClient).start, Head(toClient).end)
    <2>1. toClient' \in Seq(Replies) /\ f \in Intervals /\ f.end \in Times
      BY <1>3, ReceiveType DEF ReceiveFragment, Replies, Interval, Intervals
    <2>2. CASE IsForCurrentRequest(f)
      <3>1. ScheduleNextFragment(f.end)
        BY <1>3, <2>2 DEF ReceiveFragment
      <3>2. timers' \in [Timers -> [pc : {"free", "sleep", "send", "store"},
                                    session : Nat, next : Times, left : Nat]]
        BY <2>1, <3>1, ScheduleType
      <3> QED
        BY <1>3, <2>1, <3>2 DEF TypeOK, ReceiveFragment, Receive
    <2>3. CASE ~IsForCurrentRequest(f)
      BY <1>3, <2>1, <2>3 DEF TypeOK, ReceiveFragment, Receive
    <2> QED
      BY <2>2, <2>3
  <1> QED
    BY <1>1, <1>2, <1>3 DEF ReceiveMessage

LEMMA TaskType == ASSUME NEW t \in Timers PROVE TypeOK /\ TaskStep(t) => TypeOK'
  <1> SUFFICES ASSUME TypeOK, TaskStep(t) PROVE TypeOK'
    OBVIOUS
  <1> USE DEF TaskFrame, playVars, streamVars, serverVars, commandVars
  <1> DEFINE Tasks == [pc : {"free", "sleep", "send", "store"},
                       session : Nat, next : Times, left : Nat]
  <1>1. FreeTimer \in Tasks /\ timers \in [Timers -> Tasks]
    BY UnsetType DEF TypeOK, FreeTimer
  <1>2. timers[t].next \in Times
    BY <1>1
  <1>3. TaskEnds(t) => timers' \in [Timers -> Tasks]
    BY <1>1 DEF TaskEnds
  <1>4. ASSUME NEW pc \in {"send", "store"}, TaskAt(t, pc)
        PROVE  timers' \in [Timers -> Tasks]
    <2>1. [timers[t] EXCEPT !.pc = pc] \in Tasks
      BY <1>1, <1>4
    <2> QED
      BY <1>1, <1>4, <2>1 DEF TaskAt
  <1>5. timers' \in [Timers -> Tasks]
    BY <1>3, <1>4 DEF TaskStep, CancelTask, WakeTask, SendNext, StoreNext, RunTask
  <1>6. toServer' \in Seq(Requests) /\ requested' \in Times
    BY <1>2, RequestTypes, SentType
       DEF TypeOK, TaskStep, CancelTask, WakeTask, SendNext, StoreNext, RunTask
  <1>7. UNCHANGED <<commandVars, loop, session, speed,
                    playVars, ranges, dc, toClient, streamVars>>
    BY DEF TaskStep, CancelTask, WakeTask, SendNext, StoreNext, RunTask
  <1> QED
    BY <1>5, <1>6, <1>7 DEF TypeOK

LEMMA ChannelType == TypeOK /\ (OpenChannel \/ SendRanges \/ CloseChannel) => TypeOK'
  <1> SUFFICES ASSUME TypeOK, OpenChannel \/ SendRanges \/ CloseChannel PROVE TypeOK'
    OBVIOUS
  <1> USE DEF playVars, streamVars, serverVars, commandVars
  <1>1. CASE OpenChannel
    BY <1>1 DEF TypeOK, OpenChannel
  <1>2. CASE CloseChannel
    <2>1. toServer' \in Seq(Requests)
      BY <1>2 DEF CloseChannel
    <2>2. buffer' \in Seq(Intervals)
      BY <1>2 DEF CloseChannel
    <2>3. dc' \in {"connecting", "opened", "open", "closed"} /\ streaming' \in BOOLEAN
      BY <1>2 DEF CloseChannel
    <2> QED
      BY <1>2, <2>1, <2>2, <2>3 DEF TypeOK, CloseChannel
  <1>3. CASE SendRanges
    BY <1>3, RequestTypes, SentType DEF TypeOK, SendRanges
  <1> QED
    BY <1>1, <1>2, <1>3

LEMMA ServeType == TypeOK /\ ServeRequest => TypeOK'
  <1> SUFFICES ASSUME TypeOK, ServeRequest PROVE TypeOK'
    OBVIOUS
  <1> USE DEF playVars, serverVars, commandVars
  <1> DEFINE m == Head(toServer)
             f == Interval(m.start, Least(m.start + Fragment, ArchiveEnd))
  <1>0. toServer # <<>> /\ toServer' = Tail(toServer)
    BY DEF ServeRequest, Serve, ServeFragment, ServeRanges, ServeDrop, ServePlay,
           ServeSpeed
  <1>1. m \in Requests /\ toServer' \in Seq(Requests)
    BY <1>0 DEF TypeOK
  <1>2. \A type \in {"error", "ranges"} : Reply(type, Unset) \in Replies
    BY UnsetType DEF Reply, Replies, Unset
  <1>3. CASE ServeFragment
    <2>1. m.start \in Times
      BY <1>1, UnsetType DEF Requests
    <2>2. m.start < ArchiveEnd => f \in Intervals
      BY <2>1, FragmentAssumption, ArchiveAssumption
         DEF Interval, Intervals, Times, Least
    <2>3. m.start < ArchiveEnd => Reply("archive_fragment", f) \in Replies
      BY <2>2 DEF Reply, Replies, Intervals
    <2> DEFINE reply == IF m.start < ArchiveEnd THEN Reply("archive_fragment", f)
                        ELSE Reply("error", Unset)
    <2>4. toClient' = Append(toClient, reply)
      BY <1>3 DEF ServeFragment
    <2>5. toClient' \in Seq(Replies)
      <3>1. reply \in Replies
        BY <1>2, <2>3
      <3> HIDE DEF reply
      <3> QED
        BY <2>4, <3>1 DEF TypeOK
    <2>6. buffer' = IF m.start < ArchiveEnd THEN Append(buffer, f) ELSE buffer
      BY <1>3 DEF ServeFragment
    <2>7. buffer' \in Seq(Intervals)
      <3> HIDE DEF f
      <3> QED
        BY <2>2, <2>6 DEF TypeOK
    <2> QED
      BY <1>1, <1>3, <2>5, <2>7 DEF TypeOK, ServeFragment, Serve
  <1>4. CASE ServeRanges
    BY <1>1, <1>2, <1>4 DEF TypeOK, ServeRanges, Serve
  <1>5. CASE ServeDrop
    <2>1. buffer' \in Seq(Intervals)
      BY <1>5 DEF ServeDrop
    <2> QED
      BY <1>1, <1>5, <2>1 DEF TypeOK, ServeDrop, Serve
  <1>6. CASE ServePlay
    BY <1>1, <1>6 DEF TypeOK, ServePlay, Serve
  <1>7. CASE ServeSpeed
    BY <1>1, <1>7 DEF TypeOK, ServeSpeed, Serve, Requests
  <1> QED
    BY <1>3, <1>4, <1>5, <1>6, <1>7 DEF ServeRequest

LEMMA StreamType == TypeOK /\ StreamUnit => TypeOK'
  <1> SUFFICES ASSUME TypeOK, StreamUnit PROVE TypeOK'
    OBVIOUS
  <1> USE DEF playVars, commandVars, channelVars
  <1> DEFINE f == Head(buffer)
  <1>1. f \in Intervals /\ Tail(buffer) \in Seq(Intervals)
    BY DEF TypeOK, StreamUnit, CanStream
  <1>2. f.start + 1 < f.end => Interval(f.start + 1, f.end) \in Intervals
    BY <1>1, FragmentAssumption, ArchiveAssumption DEF Interval, Intervals, Times
  <1>3. buffer' \in Seq(Intervals)
    BY <1>1, <1>2 DEF StreamUnit
  <1>4. credit' \in 0 .. 8
    BY DEF TypeOK, StreamUnit
  <1>5. received' \in Times
    BY <1>1 DEF StreamUnit, Intervals
  <1> QED
    BY <1>3, <1>4, <1>5 DEF TypeOK, StreamUnit

LEMMA TickType == TypeOK /\ Tick => TypeOK'
  <1> SUFFICES ASSUME TypeOK, Tick PROVE TypeOK'
    OBVIOUS
  <1> USE DEF playVars, commandVars, channelVars, serverVars
  <1> DEFINE Tasks == [pc : {"free", "sleep", "send", "store"},
                       session : Nat, next : Times, left : Nat]
  <1>1. ASSUME NEW t \in Timers
        PROVE  [timers[t] EXCEPT !.left = Monus(timers[t].left, 1)] \in Tasks
    <2>1. timers[t] \in Tasks
      BY DEF TypeOK
    <2>2. Monus(timers[t].left, 1) \in Nat
      BY <2>1 DEF Monus
    <2> QED
      BY <2>1, <2>2
  <1>2. timers' \in [Timers -> Tasks]
    BY <1>1 DEF Tick
  <1>3. credit' \in 0 .. 8
    BY DEF TypeOK, Tick
  <1> QED
    BY <1>2, <1>3 DEF TypeOK, Tick

LEMMA StepType == TypeOK /\ [Next]_vars => TypeOK'
  <1> SUFFICES ASSUME TypeOK, [Next]_vars PROVE TypeOK'
    OBVIOUS
  <1>1. CASE Next
    BY <1>1, UserType, TakeCommandType, ContinueCommandType,
       ReceiveMessageType, TaskType, ChannelType, ServeType, StreamType, TickType
       DEF Next
  <1>2. CASE UNCHANGED vars
    BY <1>2 DEF TypeOK, vars
  <1> QED
    BY <1>1, <1>2

(* Whatever commands, messages, tasks, packets and ticks do, and in any    *)
(* order, the state keeps its shape: no subtraction of times wraps, and    *)
(* every time stays within the archive and one fragment.                   *)
THEOREM TypeCorrect == Spec => []TypeOK
  BY InitType, StepType, PTL DEF Spec

-----------------------------------------------------------------------------
(* What the server does once it has served what is on its way.             *)

(* i is the place of the last request of these types, 0 if there is none.  *)
LastOf(q, types, i) ==
    /\ i \in 0 .. Len(q)
    /\ i > 0 => q[i].type \in types
    /\ \A j \in 1 .. Len(q) : j > i => q[j].type \notin types

LEMMA LastSent ==
    ASSUME NEW q \in Seq(Requests), NEW m \in Requests, NEW types, NEW i \in 0 .. Len(q)
    PROVE  /\ Append(q, m) \in Seq(Requests)
           /\ m.type \in types
              => LastOf(Append(q, m), types, Len(q) + 1) /\ Append(q, m)[Len(q) + 1] = m
           /\ m.type \notin types /\ LastOf(q, types, i)
              => LastOf(Append(q, m), types, i) /\ (i > 0 => Append(q, m)[i] = q[i])
<1> DEFINE r == Append(q, m)
<1>1. /\ r \in Seq(Requests) /\ Len(r) = Len(q) + 1 /\ r[Len(q) + 1] = m
      /\ \A j \in 1 .. Len(q) : r[j] = q[j]
      /\ Len(q) \in Nat
  OBVIOUS
<1> HIDE DEF r
<1>2. \A j \in 1 .. Len(r) : j \in 1 .. Len(q) \/ j = Len(q) + 1
  BY <1>1
<1>3. m.type \in types => LastOf(r, types, Len(q) + 1)
  BY <1>1, <1>2 DEF LastOf
<1>4. m.type \notin types /\ LastOf(q, types, i)
      => LastOf(r, types, i) /\ (i > 0 => r[i] = q[i])
  BY <1>1, <1>2 DEF LastOf
<1>5. QED
  BY <1>1, <1>3, <1>4 DEF r

LEMMA LastServed ==
    ASSUME NEW q \in Seq(Requests), q # <<>>, NEW types, NEW i \in 0 .. Len(q), LastOf(q, types, i)
    PROVE  /\ i = 0 => Head(q).type \notin types /\ LastOf(Tail(q), types, 0)
           /\ i = 1 => Head(q) = q[1] /\ Head(q).type \in types /\ LastOf(Tail(q), types, 0)
           /\ i > 1 => /\ LastOf(Tail(q), types, i - 1) /\ i - 1 > 0
                       /\ Tail(q)[i - 1] = q[i]
<1> DEFINE r == Tail(q)
<1>1. /\ Len(q) \in Nat \ {0} /\ Len(r) = Len(q) - 1 /\ Head(q) = q[1]
      /\ \A j \in 1 .. Len(r) : j + 1 \in 1 .. Len(q) /\ r[j] = q[j + 1]
  OBVIOUS
<1> HIDE DEF r
<1>2. CASE i = 0
  BY <1>1, <1>2 DEF LastOf, r
<1>3. CASE i = 1
  BY <1>1, <1>3 DEF LastOf, r
<1>4. CASE i > 1
  <2>1. i - 1 \in 1 .. Len(r) /\ r[i - 1] = q[i]
    BY <1>1, <1>4
  <2>2. LastOf(r, types, i - 1)
    BY <1>1, <1>4, <2>1 DEF LastOf
  <2>3. QED
    BY <1>4, <2>1, <2>2 DEF r
<1>5. QED
  BY <1>2, <1>3, <1>4

-----------------------------------------------------------------------------
(* The speed. A speed still in the command channel will be sent; without   *)
(* one, what the server will play at is what is shown.                     *)

SpeedServed(s) ==
    \E i \in 0 .. Len(toServer) :
        /\ LastOf(toServer, {"set_speed"}, i)
        /\ s = IF i = 0 THEN rate ELSE toServer[i].speed

NoSpeedQueued == \A i \in 1 .. Len(cmds) : cmds[i].type # "SetSpeed"

SpeedInv ==
    /\ TypeOK
    /\ dc # "connecting" /\ Len(cmds) <= issued
    /\ Open /\ NoSpeedQueued => SpeedServed(speed)

(* No command is dropped, and none sent before the channel is open.        *)
Unhindered == OpenAtStart /\ MaxCommands <= CmdCapacity

LEMMA SpeedFrame ==
    ASSUME SpeedInv, UNCHANGED <<cmds, issued, speed, dc, toServer, rate>>, TypeOK'
    PROVE  SpeedInv'
BY DEF SpeedInv, Open, NoSpeedQueued, SpeedServed

LEMMA SpeedRequestServed ==
    ASSUME TypeOK, NEW m \in Requests, m.type = "set_speed", toServer' = Append(toServer, m)
    PROVE  SpeedServed(m.speed)'
<1>1. toServer \in Seq(Requests) /\ Len(toServer) \in Nat /\ 0 \in 0 .. Len(toServer)
  BY DEF TypeOK
<1>2. /\ LastOf(Append(toServer, m), {"set_speed"}, Len(toServer) + 1)
      /\ Append(toServer, m)[Len(toServer) + 1] = m
  BY <1>1, LastSent
<1>3. Len(Append(toServer, m)) = Len(toServer) + 1
  BY <1>1
<1>4. QED
  BY <1>1, <1>2, <1>3 DEF SpeedServed

LEMMA OtherRequestServed ==
    ASSUME TypeOK, NEW m \in Requests, m.type # "set_speed", toServer' = Append(toServer, m),
           rate' = rate, NEW s, SpeedServed(s)
    PROVE  SpeedServed(s)'
<1>1. PICK i \in 0 .. Len(toServer) : /\ LastOf(toServer, {"set_speed"}, i)
                                      /\ s = IF i = 0 THEN rate ELSE toServer[i].speed
  BY DEF SpeedServed
<1>2. /\ LastOf(toServer', {"set_speed"}, i) /\ (i > 0 => toServer'[i] = toServer[i])
  BY <1>1, LastSent DEF TypeOK
<1>3. i \in 0 .. Len(toServer')
  BY <1>2 DEF LastOf
<1>4. QED
  BY <1>1, <1>2, <1>3 DEF SpeedServed

(* A request of another type is sent, or none.                             *)
LEMMA SpeedOther ==
    ASSUME SpeedInv, TypeOK', NEW m \in Requests, m.type # "set_speed",
           toServer' = Sent(m), rate' = rate, speed' = speed, dc' = dc,
           Len(cmds') <= issued', NoSpeedQueued' => NoSpeedQueued
    PROVE  SpeedInv'
<1>1. Open' /\ NoSpeedQueued' => SpeedServed(speed)'
  BY OtherRequestServed DEF SpeedInv, Open, Sent
<1>2. QED
  BY <1>1 DEF SpeedInv, SpeedServed

(* Taking a command that is not a speed.                                   *)
LEMMA TakeKeepsQueue ==
    ASSUME SpeedInv, NEW type, Take(type)
    PROVE  /\ Len(cmds') <= issued'
           /\ type # "SetSpeed" => (NoSpeedQueued' => NoSpeedQueued)
<1>1. /\ cmds \in Seq(CommandRecords) /\ cmds # <<>> /\ cmds' = Tail(cmds)
      /\ Head(cmds).type = type /\ issued' = issued /\ issued \in Int
  BY DEF SpeedInv, TypeOK, Take
<1>2. /\ Len(cmds') = Len(cmds) - 1 /\ Len(cmds) \in Nat /\ cmds[1] = Head(cmds)
      /\ \A i \in 1 .. Len(cmds) : i = 1 \/ (i - 1 \in 1 .. Len(cmds') /\ cmds'[i - 1] = cmds[i])
  BY <1>1
<1>3. Len(cmds') <= issued'
  BY <1>1, <1>2 DEF SpeedInv
<1>4. type # "SetSpeed" => (NoSpeedQueued' => NoSpeedQueued)
  BY <1>1, <1>2 DEF NoSpeedQueued
<1>5. QED
  BY <1>3, <1>4

LEMMA UserSpeed ==
    ASSUME Unhindered, SpeedInv, TypeOK', UserStep
    PROVE  SpeedInv'
<1>1. PICK c \in Issuable : Issue(c)
  BY DEF UserStep
<1>2. /\ c \in CommandRecords /\ cmds \in Seq(CommandRecords) /\ Len(cmds) \in Nat
      /\ issued \in Nat /\ issued < MaxCommands /\ issued' = issued + 1
  BY <1>1, CommandType, InputAssumption DEF Issue, SpeedInv, TypeOK
<1>3. cmds' = Append(cmds, c)
  BY <1>1, <1>2, InputAssumption DEF Issue, Unhindered, SpeedInv
<1>4. /\ Len(cmds') = Len(cmds) + 1 /\ cmds'[Len(cmds) + 1] = c
      /\ \A i \in 1 .. Len(cmds) : cmds'[i] = cmds[i] /\ i \in 1 .. Len(cmds')
      /\ Len(cmds) + 1 \in 1 .. Len(cmds')
  BY <1>2, <1>3
<1>5. Len(cmds') <= issued'
  BY <1>2, <1>4 DEF SpeedInv
<1>6. NoSpeedQueued' => NoSpeedQueued /\ c.type # "SetSpeed"
  BY <1>4 DEF NoSpeedQueued
<1>7. UNCHANGED <<dc, toServer, rate>> /\ (c.type # "SetSpeed" => speed' = speed)
  BY <1>1 DEF Issue, channelVars, streamVars, serverVars
<1>8. Open' /\ NoSpeedQueued' => SpeedServed(speed)'
  BY <1>6, <1>7 DEF SpeedInv, Open, SpeedServed
<1>9. QED
  BY <1>5, <1>7, <1>8 DEF SpeedInv, SpeedServed

LEMMA LoopSpeed ==
    ASSUME SpeedInv, TypeOK', TakeCommand \/ ContinueCommand
    PROVE  SpeedInv'
<1> USE DEF playVars, streamVars, serverVars, channelVars, commandVars, Continue
<1>1. CASE TakeGetRanges
  BY <1>1, TakeKeepsQueue, RequestTypes, SpeedOther DEF TakeGetRanges, Request
<1>2. CASE TakeSeek
  BY <1>2, TakeKeepsQueue, RequestTypes, SpeedOther DEF TakeSeek, Request
<1>3. CASE TakePause
  BY <1>3, TakeKeepsQueue, RequestTypes, SpeedOther DEF TakePause, Request
<1>4. CASE TakePlay
  BY <1>4, TakeKeepsQueue, RequestTypes, SpeedOther DEF TakePlay, Request
<1>5. CASE TakeSetSpeed
  <2>1. Head(cmds).arg \in {1, 2, 4, 8} /\ Len(cmds') <= issued'
    BY <1>5, TakeType, TakeKeepsQueue, InputAssumption
       DEF SpeedInv, TakeSetSpeed, CommandTypes, CommandRecords, Seeks
  <2> PICK s \in {1, 2, 4, 8} : s = Head(cmds).arg
    BY <2>1
  <2>2. SpeedRequest(s) \in Requests /\ SpeedRequest(s).type = "set_speed"
        /\ SpeedRequest(s).speed = s
    BY RequestTypes DEF SpeedRequest
  <2>3. speed' = s /\ toServer' = Sent(SpeedRequest(s)) /\ dc' = dc
    BY <1>5 DEF TakeSetSpeed
  <2>4. Open' => SpeedServed(s)'
    BY <2>2, <2>3, SpeedRequestServed DEF SpeedInv, Open, Sent
  <2>5. QED
    BY <2>1, <2>3, <2>4 DEF SpeedInv, SpeedServed
<1>6. CASE FinishPlayFrom
  <2>1. SpeedRequest(speed) \in Requests /\ SpeedRequest(speed).type = "set_speed"
        /\ SpeedRequest(speed).speed = speed
    BY RequestTypes DEF SpeedInv, TypeOK, SpeedRequest
  <2>2. /\ toServer' = Sent(SpeedRequest(speed))
        /\ UNCHANGED <<dc, speed, cmds, issued>>
    BY <1>6 DEF FinishPlayFrom
  <2>3. Open' => SpeedServed(speed)'
    BY <2>1, <2>2, SpeedRequestServed DEF SpeedInv, Open, Sent
  <2>4. QED
    BY <2>2, <2>3 DEF SpeedInv
<1>7. CASE RequestTarget
  <2>1. FragmentRequest(loop.target) \in Requests
        /\ FragmentRequest(loop.target).type # "set_speed"
    <3>1. loop.target \in Targets
      BY <1>7 DEF RequestTarget, SpeedInv, TypeOK, LoopStates
    <3>2. QED
      BY <3>1, TargetTypes, RequestTypes DEF FragmentRequest
  <2>2. UNCHANGED <<cmds, issued>> /\ NoSpeedQueued' = NoSpeedQueued
    BY <1>7 DEF RequestTarget, NoSpeedQueued
  <2>3. QED
    BY <1>7, <2>1, <2>2, SpeedOther DEF RequestTarget, SpeedInv
<1>8. CASE StartPlayFrom
  <2>1. UNCHANGED <<cmds, issued>> /\ NoSpeedQueued' = NoSpeedQueued
    BY <1>8 DEF StartPlayFrom, NoSpeedQueued
  <2>2. QED
    BY <1>8, <2>1, RequestTypes, SpeedOther DEF StartPlayFrom, SpeedInv, Request
<1>9. CASE FinishSeek \/ FinishPause \/ FinishStop \/ FinishPlay
  BY <1>9, SpeedFrame DEF FinishSeek, FinishPause, FinishStop, FinishPlay
<1>10. QED
  BY <1>1, <1>2, <1>3, <1>4, <1>5, <1>6, <1>7, <1>8, <1>9 DEF TakeCommand, ContinueCommand

LEMMA TaskSpeed ==
    ASSUME SpeedInv, TypeOK', NEW t \in Timers, TaskStep(t)
    PROVE  SpeedInv'
<1> USE DEF TaskFrame, playVars, streamVars, serverVars, commandVars
<1>1. CASE SendNext(t) \/ RunTask(t)
  <2>1. FragmentRequest(timers[t].next) \in Requests
        /\ FragmentRequest(timers[t].next).type # "set_speed"
    BY RequestTypes DEF SpeedInv, TypeOK, FragmentRequest
  <2>2. /\ toServer' = Sent(FragmentRequest(timers[t].next))
        /\ UNCHANGED <<cmds, issued, rate, speed, dc>>
    BY <1>1 DEF SendNext, RunTask
  <2>3. NoSpeedQueued' = NoSpeedQueued
    BY <2>2 DEF NoSpeedQueued
  <2>4. QED
    BY <2>1, <2>2, <2>3, SpeedOther DEF SpeedInv
<1>2. CASE CancelTask(t) \/ WakeTask(t) \/ StoreNext(t)
  BY <1>2, SpeedFrame DEF CancelTask, WakeTask, StoreNext
<1>3. QED
  BY <1>1, <1>2 DEF TaskStep

(* A request served takes effect.                                          *)
LEMMA ServeSpeedServed ==
    ASSUME SpeedInv, TypeOK', ServeRequest
    PROVE  SpeedInv'
<1> USE DEF playVars, serverVars, commandVars
<1>1. /\ toServer # <<>> /\ toServer' = Tail(toServer) /\ toServer \in Seq(Requests)
      /\ UNCHANGED <<cmds, issued, speed, dc>>
      /\ rate' = IF Head(toServer).type = "set_speed" THEN Head(toServer).speed ELSE rate
  BY DEF ServeRequest, Serve, ServeFragment, ServeRanges, ServeDrop, ServePlay, ServeSpeed,
         SpeedInv, TypeOK
<1>2. ASSUME SpeedServed(speed)
      PROVE  SpeedServed(speed)'
  <2>1. PICK i \in 0 .. Len(toServer) : /\ LastOf(toServer, {"set_speed"}, i)
                                        /\ speed = IF i = 0 THEN rate ELSE toServer[i].speed
    BY <1>2 DEF SpeedServed
  <2>2. CASE i = 0 \/ i = 1
    <3>1. LastOf(toServer', {"set_speed"}, 0) /\ speed' = rate'
      BY <1>1, <2>1, <2>2, LastServed
    <3>2. QED
      BY <3>1 DEF SpeedServed, LastOf
  <2>3. CASE i > 1
    <3>1. /\ LastOf(toServer', {"set_speed"}, i - 1) /\ i - 1 > 0
          /\ toServer'[i - 1] = toServer[i]
      BY <1>1, <2>1, <2>3, LastServed
    <3>2. QED
      BY <1>1, <2>1, <2>3, <3>1 DEF SpeedServed, LastOf
  <2>4. QED
    BY <2>1, <2>2, <2>3
<1>3. QED
  BY <1>1, <1>2 DEF SpeedInv, Open, NoSpeedQueued

(* The ranges are asked for between two speeds, or after the last one.     *)
LEMMA SendRangesSpeed ==
    ASSUME SpeedInv, TypeOK', SendRanges
    PROVE  SpeedInv'
<1> USE DEF streamVars, serverVars, commandVars
<1>1. /\ Request("get_ranges") \in Requests
      /\ Request("get_ranges").type # "set_speed"
  BY RequestTypes DEF Request
<1>2. /\ toServer' = Append(toServer, Request("get_ranges")) /\ Open
      /\ UNCHANGED <<cmds, issued, rate, speed>> /\ dc' = "open"
  BY DEF SendRanges, Sent, Open
<1>3. SpeedServed(speed) => SpeedServed(speed)'
  BY <1>1, <1>2, OtherRequestServed DEF SpeedInv, SpeedServed
<1>4. NoSpeedQueued' = NoSpeedQueued
  BY <1>2 DEF NoSpeedQueued
<1>5. QED
  BY <1>2, <1>3, <1>4 DEF SpeedInv

(* When no command is dropped and the channel is open from the beginning,  *)
(* the speed shown is the one the server plays at, whenever every command  *)
(* has been executed and served (timeline.rs:643-680, archive_loop.rs:127). *)
THEOREM SpeedReaches ==
    ASSUME OpenAtStart, MaxCommands <= CmdCapacity
    PROVE  Spec => []SpeedAgrees
<1>1. Init => SpeedInv
  <2> SUFFICES ASSUME Init PROVE SpeedInv
    OBVIOUS
  <2>1. TypeOK /\ dc # "connecting" /\ Len(cmds) <= issued
    BY InitType DEF Init
  <2>2. Len(toServer) = 0 /\ rate = speed
    BY DEF Init
  <2>3. LastOf(toServer, {"set_speed"}, 0)
    BY <2>2 DEF LastOf
  <2>4. SpeedServed(speed)
    BY <2>2, <2>3 DEF SpeedServed
  <2>5. QED
    BY <2>1, <2>4 DEF SpeedInv
<1>2. SpeedInv /\ [Next]_vars => SpeedInv'
  <2> SUFFICES ASSUME SpeedInv, [Next]_vars PROVE SpeedInv'
    OBVIOUS
  <2>1. TypeOK' /\ Unhindered
    BY StepType DEF SpeedInv, Unhindered
  <2> USE DEF playVars, streamVars, serverVars, channelVars, commandVars
  <2>2. CASE OpenChannel \/ CloseChannel
    BY <2>1, <2>2 DEF OpenChannel, CloseChannel, SpeedInv, Open
  <2>3. CASE SendRanges
    BY <2>1, <2>3, SendRangesSpeed
  <2>4. CASE ReceiveMessage \/ StreamUnit \/ Tick
    BY <2>1, <2>4, SpeedFrame
       DEF ReceiveMessage, ReceiveRanges, ReceiveError, ReceiveFragment, Receive,
           StreamUnit, Tick
  <2>5. CASE UNCHANGED vars
    BY <2>1, <2>5, SpeedFrame DEF vars
  <2>6. QED
    BY <2>1, <2>2, <2>3, <2>4, <2>5, UserSpeed, LoopSpeed, TaskSpeed, ServeSpeedServed DEF Next
<1>3. SpeedInv => SpeedAgrees
  <2> SUFFICES ASSUME SpeedInv, CommandsServed PROVE rate = speed
    BY DEF SpeedAgrees
  <2>1. NoSpeedQueued /\ Open /\ Len(toServer) = 0
    BY DEF CommandsServed, NoSpeedQueued
  <2>2. QED
    BY <2>1 DEF SpeedInv, SpeedServed
<1>4. QED
  BY <1>1, <1>2, <1>3, PTL DEF Spec

-----------------------------------------------------------------------------
(* Playing. Once the loop has finished its command, the last request that  *)
(* starts or stops the stream says what the play button shows; until then, *)
(* it says what the button will show.                                      *)

PlayTypes == {"play_stream", "stop_stream", "drop_buffer"}

StreamServed(v) ==
    \E i \in 0 .. Len(toServer) :
        /\ LastOf(toServer, PlayTypes, i)
        /\ v <=> IF i = 0 THEN streaming ELSE toServer[i].type = "play_stream"

Intended ==
    \/ loop.pc = "play"
    \/ loop.pc = "idle" /\ IsPlaying

PlayInv ==
    /\ TypeOK
    /\ dc # "connecting"
    /\ \A i \in 1 .. Len(cmds) : cmds[i].type # "PlayFrom"
    /\ loop.pc \in {"idle", "seek", "seekRequested", "pause", "stop", "play"}
    /\ Open => StreamServed(Intended)

(* PlayFrom leaves a pause as it is; a pause and the play after it are not *)
(* in one millisecond; nothing is sent before the channel is open.         *)
Distinct == OpenAtStart /\ ~SameMillisecond /\ "PlayFrom" \notin Commands

LEMMA PlayFrame ==
    ASSUME PlayInv, TypeOK',
           UNCHANGED <<cmds, loop, started, paused, dc, toServer, streaming>>
    PROVE  PlayInv'
BY DEF PlayInv, Open, StreamServed, Intended, IsPlaying

(* A request that starts or stops the stream is sent.                      *)
LEMMA PlayRequestServed ==
    ASSUME TypeOK, NEW m \in Requests, m.type \in PlayTypes, toServer' = Append(toServer, m),
           NEW v, v <=> m.type = "play_stream"
    PROVE  StreamServed(v)'
<1>1. toServer \in Seq(Requests) /\ Len(toServer) \in Nat /\ 0 \in 0 .. Len(toServer)
  BY DEF TypeOK
<1>2. /\ LastOf(Append(toServer, m), PlayTypes, Len(toServer) + 1)
      /\ Append(toServer, m)[Len(toServer) + 1] = m
  BY <1>1, LastSent
<1>3. Len(Append(toServer, m)) = Len(toServer) + 1
  BY <1>1
<1>4. QED
  BY <1>1, <1>2, <1>3 DEF StreamServed

LEMMA OtherRequestStreams ==
    ASSUME TypeOK, NEW m \in Requests, m.type \notin PlayTypes,
           toServer' = Append(toServer, m), streaming' = streaming, NEW v, StreamServed(v)
    PROVE  StreamServed(v)'
<1>1. PICK i \in 0 .. Len(toServer) :
         /\ LastOf(toServer, PlayTypes, i)
         /\ v <=> IF i = 0 THEN streaming ELSE toServer[i].type = "play_stream"
  BY DEF StreamServed
<1>2. /\ LastOf(toServer', PlayTypes, i) /\ (i > 0 => toServer'[i] = toServer[i])
  BY <1>1, LastSent DEF TypeOK
<1>3. i \in 0 .. Len(toServer')
  BY <1>2 DEF LastOf
<1>4. QED
  BY <1>1, <1>2, <1>3 DEF StreamServed

LEMMA PlayOther ==
    ASSUME PlayInv, TypeOK', NEW m \in Requests, m.type \notin PlayTypes,
           toServer' = Sent(m), streaming' = streaming, dc' = dc, Intended' = Intended,
           \A i \in 1 .. Len(cmds') : cmds'[i].type # "PlayFrom",
           loop'.pc \in {"idle", "seek", "seekRequested", "pause", "stop", "play"}
    PROVE  PlayInv'
<1>1. ASSUME Open'
      PROVE  StreamServed(Intended)'
  <2>1. PICK v \in BOOLEAN : v = Intended
    BY DEF Intended
  <2>2. StreamServed(v)'
    BY <1>1, <2>1, OtherRequestStreams DEF PlayInv, Open, Sent
  <2>3. v = Intended'
    BY <2>1
  <2>4. QED
    BY <2>2, <2>3 DEF StreamServed
<1>2. QED
  BY <1>1 DEF PlayInv

LEMMA PlaySent ==
    ASSUME PlayInv, TypeOK', NEW m \in Requests, m.type \in PlayTypes,
           toServer' = Sent(m), dc' = dc, Intended' <=> m.type = "play_stream",
           \A i \in 1 .. Len(cmds') : cmds'[i].type # "PlayFrom",
           loop'.pc \in {"idle", "seek", "seekRequested", "pause", "stop", "play"}
    PROVE  PlayInv'
<1>1. ASSUME Open'
      PROVE  StreamServed(Intended)'
  <2>1. PICK v \in BOOLEAN : v <=> m.type = "play_stream"
    OBVIOUS
  <2>2. StreamServed(v)'
    BY <1>1, <2>1, PlayRequestServed DEF PlayInv, Open, Sent
  <2>3. v <=> Intended'
    BY <2>1
  <2>4. QED
    BY <2>2, <2>3 DEF StreamServed
<1>2. QED
  BY <1>1 DEF PlayInv

LEMMA TakeNoPlayFrom ==
    ASSUME PlayInv, NEW type, Take(type)
    PROVE  /\ type # "PlayFrom" /\ loop.pc = "idle"
           /\ \A i \in 1 .. Len(cmds') : cmds'[i].type # "PlayFrom"
<1>1. /\ cmds \in Seq(CommandRecords) /\ cmds # <<>> /\ cmds' = Tail(cmds)
      /\ Head(cmds).type = type /\ loop.pc = "idle"
  BY DEF PlayInv, TypeOK, Take
<1>2. /\ cmds[1] = Head(cmds) /\ 1 \in 1 .. Len(cmds)
      /\ \A i \in 1 .. Len(cmds') : i + 1 \in 1 .. Len(cmds) /\ cmds'[i] = cmds[i + 1]
  BY <1>1
<1>3. QED
  BY <1>1, <1>2 DEF PlayInv

LEMMA UserPlay ==
    ASSUME Distinct, PlayInv, TypeOK', UserStep
    PROVE  PlayInv'
<1>1. PICK c \in Issuable : Issue(c)
  BY DEF UserStep
<1>2. /\ c \in CommandRecords /\ cmds \in Seq(CommandRecords) /\ c.type # "PlayFrom"
  BY <1>1, CommandType DEF Issue, PlayInv, Distinct, TypeOK
<1>3. \A i \in 1 .. Len(cmds') : cmds'[i].type # "PlayFrom"
  <2>1. CASE cmds' = cmds
    BY <2>1 DEF PlayInv
  <2>2. CASE cmds' = Append(cmds, c)
    BY <1>2, <2>2 DEF PlayInv
  <2>3. QED
    BY <1>1, <2>1, <2>2 DEF Issue
<1>4. UNCHANGED <<loop, started, paused, dc, toServer, streaming>>
  BY <1>1 DEF Issue, channelVars, streamVars, serverVars, playVars
<1>5. QED
  BY <1>3, <1>4 DEF PlayInv, Open, StreamServed, Intended, IsPlaying

LEMMA TakePlayInv ==
    ASSUME PlayInv, TypeOK', TakeCommand
    PROVE  PlayInv'
<1> USE DEF playVars, streamVars, serverVars, channelVars, commandVars
<1>0. loop.pc = "idle" /\ loop \in LoopStates
  BY DEF TakeCommand, TakeGetRanges, TakeSeek, TakePause, TakePlay, TakeSetSpeed, Take,
         PlayInv, TypeOK
<1>1. CASE TakeGetRanges
  <2>1. Intended' = Intended /\ loop' = loop
    BY <1>1 DEF TakeGetRanges, Intended, IsPlaying
  <2>2. QED
    BY <1>0, <1>1, <2>1, TakeNoPlayFrom, RequestTypes, PlayOther
       DEF TakeGetRanges, Request, PlayTypes
<1>2. CASE TakeSeek
  <2>1. loop'.pc = "seek" /\ ~Intended'
    BY <1>2, TakeNoPlayFrom DEF TakeSeek, Intended
  <2>2. Request("drop_buffer") \in Requests /\ Request("drop_buffer").type = "drop_buffer"
    BY RequestTypes DEF Request
  <2>3. QED
    BY <1>2, <2>1, <2>2, TakeNoPlayFrom, PlaySent DEF TakeSeek, PlayTypes
<1>3. CASE TakePause
  <2>1. loop'.pc \in {"pause", "stop"} /\ ~Intended'
    BY <1>0, <1>3 DEF TakePause, At, Intended, LoopStates
  <2>2. Request("stop_stream") \in Requests /\ Request("stop_stream").type = "stop_stream"
    BY RequestTypes DEF Request
  <2>3. QED
    BY <1>3, <2>1, <2>2, TakeNoPlayFrom, PlaySent DEF TakePause, PlayTypes
<1>4. CASE TakePlay
  <2>1. loop'.pc = "play" /\ Intended'
    BY <1>0, <1>4 DEF TakePlay, At, Intended, LoopStates
  <2>2. Request("play_stream") \in Requests /\ Request("play_stream").type = "play_stream"
    BY RequestTypes DEF Request
  <2>3. QED
    BY <1>4, <2>1, <2>2, TakeNoPlayFrom, PlaySent DEF TakePlay, PlayTypes
<1>5. CASE TakeSetSpeed
  <2>1. Intended' = Intended /\ loop' = loop
    BY <1>5 DEF TakeSetSpeed, Intended, IsPlaying
  <2>2. SpeedRequest(Head(cmds).arg) \in Requests
        /\ SpeedRequest(Head(cmds).arg).type = "set_speed"
    <3>1. Head(cmds).arg \in {1, 2, 4, 8}
      BY <1>5, TakeType, InputAssumption
         DEF PlayInv, TakeSetSpeed, CommandTypes, CommandRecords, Seeks
    <3>2. QED
      BY <3>1, RequestTypes DEF SpeedRequest
  <2>3. QED
    BY <1>0, <1>5, <2>1, <2>2, TakeNoPlayFrom, PlayOther DEF TakeSetSpeed, PlayTypes
<1>6. QED
  BY <1>1, <1>2, <1>3, <1>4, <1>5 DEF TakeCommand

(* The end of a command: the button shows what the last request asked for. *)
LEMMA FinishPlayInv ==
    ASSUME Distinct, PlayInv, TypeOK', ContinueCommand
    PROVE  PlayInv'
<1> USE DEF playVars, streamVars, serverVars, channelVars, commandVars, Continue
<1>1. CASE RequestTarget
  <2>1. loop'.pc = "seekRequested" /\ Intended' = Intended
    BY <1>1 DEF RequestTarget, At, Intended, PlayInv, TypeOK, LoopStates
  <2>2. FragmentRequest(loop.target) \in Requests
        /\ FragmentRequest(loop.target).type = "get_archive_fragment"
    <3>1. loop.target \in Targets
      BY <1>1 DEF RequestTarget, PlayInv, TypeOK, LoopStates
    <3>2. QED
      BY <3>1, TargetTypes, RequestTypes DEF FragmentRequest
  <2>3. \A i \in 1 .. Len(cmds') : cmds'[i].type # "PlayFrom"
    BY <1>1 DEF RequestTarget, PlayInv
  <2>4. QED
    BY <1>1, <2>1, <2>2, <2>3, PlayOther DEF RequestTarget, PlayTypes
<1>2. CASE FinishSeek \/ FinishPause \/ FinishStop \/ FinishPlay
  <2>1. /\ loop'.pc = "idle"
        /\ UNCHANGED <<cmds, dc, toServer, streaming>>
    <3>1. Finish
      BY <1>2 DEF FinishSeek, FinishPause, FinishStop, FinishPlay
    <3>2. UNCHANGED <<cmds, dc, toServer, streaming>>
      BY <1>2 DEF FinishSeek, FinishPause, FinishStop, FinishPlay
    <3>3. QED
      BY <3>1, <3>2 DEF Finish, IdleLoop
  <2>2. Intended' = Intended
    <3>1. CASE FinishSeek \/ FinishPause \/ FinishStop
      BY <2>1, <3>1 DEF FinishSeek, FinishPause, FinishStop, Intended, IsPlaying
    <3>2. CASE FinishPlay
      BY <2>1, <3>2 DEF FinishPlay, Intended, IsPlaying, Distinct
    <3>3. QED
      BY <1>2, <3>1, <3>2
  <2>3. QED
    BY <2>1, <2>2 DEF PlayInv, Open, StreamServed
<1>3. CASE StartPlayFrom \/ FinishPlayFrom
  BY <1>3 DEF StartPlayFrom, FinishPlayFrom, PlayInv
<1>4. QED
  BY <1>1, <1>2, <1>3 DEF ContinueCommand

LEMMA TaskPlay ==
    ASSUME PlayInv, TypeOK', NEW t \in Timers, TaskStep(t)
    PROVE  PlayInv'
<1> USE DEF TaskFrame, playVars, streamVars, serverVars, commandVars
<1>1. CASE SendNext(t) \/ RunTask(t)
  <2>1. FragmentRequest(timers[t].next) \in Requests
        /\ FragmentRequest(timers[t].next).type = "get_archive_fragment"
    BY RequestTypes DEF PlayInv, TypeOK, FragmentRequest
  <2>2. /\ toServer' = Sent(FragmentRequest(timers[t].next))
        /\ UNCHANGED <<cmds, loop, started, paused, dc, streaming>>
    BY <1>1 DEF SendNext, RunTask
  <2>3. Intended' = Intended
    BY <2>2 DEF Intended, IsPlaying
  <2>4. QED
    BY <2>1, <2>2, <2>3, PlayOther DEF PlayInv, PlayTypes
<1>2. CASE CancelTask(t) \/ WakeTask(t) \/ StoreNext(t)
  BY <1>2, PlayFrame DEF CancelTask, WakeTask, StoreNext
<1>3. QED
  BY <1>1, <1>2 DEF TaskStep

LEMMA ServePlayInv ==
    ASSUME PlayInv, TypeOK', ServeRequest
    PROVE  PlayInv'
<1> USE DEF playVars, serverVars, commandVars
<1>1. /\ toServer # <<>> /\ toServer' = Tail(toServer) /\ toServer \in Seq(Requests)
      /\ UNCHANGED <<cmds, loop, started, paused, dc>>
      /\ streaming' = IF Head(toServer).type \in PlayTypes
                      THEN Head(toServer).type = "play_stream" ELSE streaming
  BY DEF ServeRequest, Serve, ServeFragment, ServeRanges, ServeDrop, ServePlay, ServeSpeed,
         PlayInv, TypeOK, PlayTypes
<1>2. Intended' = Intended
  BY <1>1 DEF Intended, IsPlaying
<1>3. ASSUME StreamServed(Intended)
      PROVE  StreamServed(Intended)'
  <2>1. PICK i \in 0 .. Len(toServer) :
           /\ LastOf(toServer, PlayTypes, i)
           /\ Intended <=> IF i = 0 THEN streaming ELSE toServer[i].type = "play_stream"
    BY <1>3 DEF StreamServed
  <2>2. CASE i = 0 \/ i = 1
    <3>1. LastOf(toServer', PlayTypes, 0) /\ (Intended' <=> streaming')
      BY <1>1, <1>2, <2>1, <2>2, LastServed
    <3>2. QED
      BY <3>1 DEF StreamServed, LastOf
  <2>3. CASE i > 1
    <3>1. /\ LastOf(toServer', PlayTypes, i - 1) /\ i - 1 > 0
          /\ toServer'[i - 1] = toServer[i]
      BY <1>1, <2>1, <2>3, LastServed
    <3>2. i - 1 \in 0 .. Len(toServer') /\ i - 1 # 0
      BY <1>1, <2>1, <2>3, <3>1 DEF LastOf
    <3>3. Intended' <=> toServer'[i - 1].type = "play_stream"
      BY <1>2, <2>1, <2>3, <3>1
    <3>4. QED
      BY <3>1, <3>2, <3>3 DEF StreamServed
  <2>4. QED
    BY <2>1, <2>2, <2>3
<1>4. QED
  BY <1>1, <1>3 DEF PlayInv, Open

(* The ranges are asked for: no matter to the stream.                      *)
LEMMA SendRangesPlay ==
    ASSUME PlayInv, TypeOK', SendRanges
    PROVE  PlayInv'
<1> USE DEF streamVars, serverVars, commandVars, playVars
<1>1. /\ Request("get_ranges") \in Requests
      /\ Request("get_ranges").type \notin PlayTypes
  BY RequestTypes DEF Request, PlayTypes
<1>2. /\ toServer' = Append(toServer, Request("get_ranges")) /\ Open
      /\ UNCHANGED <<cmds, loop, started, paused, streaming>> /\ dc' = "open"
  BY DEF SendRanges, Sent, Open
<1>3. Intended' = Intended
  BY <1>2 DEF Intended, IsPlaying
<1>4. PICK v \in BOOLEAN : v = Intended
  BY DEF Intended
<1>5. StreamServed(v)
  BY <1>2, <1>4 DEF PlayInv, StreamServed
<1>6. StreamServed(v)'
  BY <1>1, <1>2, <1>5, OtherRequestStreams DEF PlayInv
<1>7. StreamServed(Intended)'
  BY <1>3, <1>4, <1>6 DEF StreamServed
<1>8. QED
  BY <1>2, <1>7 DEF PlayInv

(* Whenever every command has been executed and served, the play button    *)
(* shows what the server does: provided no PlayFrom falls into a pause, no *)
(* pause and play into one millisecond, and the channel is open from the   *)
(* beginning (app_state.rs:282-312).                                       *)
THEOREM PlayStateReaches ==
    ASSUME OpenAtStart, ~SameMillisecond, "PlayFrom" \notin Commands
    PROVE  Spec => []PlayStateAgrees
<1>1. Init => PlayInv
  <2> SUFFICES ASSUME Init PROVE PlayInv
    OBVIOUS
  <2>1. TypeOK /\ dc # "connecting" /\ Len(cmds) = 0 /\ loop.pc = "idle" /\ ~Intended
    BY InitType DEF Init, IdleLoop, Intended, IsPlaying
  <2>2. Len(toServer) = 0 /\ streaming = FALSE
    BY DEF Init
  <2>3. LastOf(toServer, PlayTypes, 0)
    BY <2>2 DEF LastOf, PlayTypes
  <2>4. StreamServed(Intended)
    BY <2>1, <2>2, <2>3 DEF StreamServed
  <2>5. QED
    BY <2>1, <2>4 DEF PlayInv
<1>2. PlayInv /\ [Next]_vars => PlayInv'
  <2> SUFFICES ASSUME PlayInv, [Next]_vars PROVE PlayInv'
    OBVIOUS
  <2>1. TypeOK' /\ Distinct
    BY StepType DEF PlayInv, Distinct
  <2> USE DEF playVars, streamVars, serverVars, channelVars, commandVars
  <2>2. CASE OpenChannel \/ CloseChannel
    BY <2>1, <2>2 DEF OpenChannel, CloseChannel, PlayInv, Open
  <2>3. CASE SendRanges
    BY <2>1, <2>3, SendRangesPlay
  <2>4. CASE ReceiveMessage \/ StreamUnit \/ Tick
    BY <2>1, <2>4, PlayFrame
       DEF ReceiveMessage, ReceiveRanges, ReceiveError, ReceiveFragment, Receive,
           StreamUnit, Tick
  <2>5. CASE UNCHANGED vars
    BY <2>1, <2>5, PlayFrame DEF vars
  <2>6. QED
    BY <2>1, <2>2, <2>3, <2>4, <2>5, UserPlay, TakePlayInv, FinishPlayInv, TaskPlay, ServePlayInv
       DEF Next
<1>3. PlayInv => PlayStateAgrees
  <2> SUFFICES ASSUME PlayInv, CommandsServed PROVE IsPlaying <=> streaming
    BY DEF PlayStateAgrees
  <2>1. Open /\ Len(toServer) = 0 /\ loop.pc = "idle"
    BY DEF CommandsServed
  <2>2. QED
    BY <2>1 DEF PlayInv, StreamServed, Intended
<1>4. QED
  BY <1>1, <1>2, <1>3, PTL DEF Spec

-----------------------------------------------------------------------------
(* The refill chain: one fragment at a time is asked for, answered and     *)
(* waited for, so that the server's buffer never has a hole or an overlap, *)
(* and the chain goes on to the end of the archive.                        *)
(*                                                                         *)
(* ChainInv says where the one token of the chain is - a request that no   *)
(* drop_buffer follows, the reply to it, or a task of the session - and    *)
(* that everything else on its way is stale: beyond the margin of what was *)
(* asked for last, of the seek under way and of every seek that waits.     *)
(* TokenInv, on top of it, says that the token is never lost, and SupplyInv*)
(* that it always comes round before the server has run dry.               *)

(* Where the requests, the replies and the seeks stand in their queues.     *)
Fragments(q) == {i \in 1 .. Len(q) : q[i].type = "get_archive_fragment"}
Drops(q) == {i \in 1 .. Len(q) : q[i].type = "drop_buffer"}
Answers(q) == {i \in 1 .. Len(q) : q[i].type = "archive_fragment"}
SeeksQueued(q) == {i \in 1 .. Len(q) : q[i].type \in Seeks}

Dropped(q, i) == \E d \in Drops(q) : d > i
LiveTask(t) == timers[t].pc # "free" /\ timers[t].session = session
Joins(s) == buffer # <<>> => buffer[Len(buffer)].end = s

(* The start of what has been asked for last.                              *)
Asked ==
    IF loop.pc \in {"seek", "seekRequested", "playFrom", "playFromRequested"}
    THEN loop.target ELSE requested

RequestsInOrder ==
    /\ \A i, j \in Fragments(toServer) : i < j => \E d \in Drops(toServer) : i < d /\ d < j
    /\ \A i \in Fragments(toServer) :
          /\ Asked > 0
          /\ IF Dropped(toServer, i) THEN toServer[i].start > Asked + Margin
                                     ELSE toServer[i].start = Asked
          /\ (\A d \in Drops(toServer) : d > i) => Joins(toServer[i].start)
    /\ loop.pc \in {"seek", "playFrom"} =>
          /\ \A i \in Fragments(toServer) : Dropped(toServer, i)
          /\ Drops(toServer) = {} => buffer = <<>>

AnswersInOrder ==
    \A k \in Answers(toClient) :
        /\ Asked > 0
        /\ toClient[k].start < toClient[k].end
        /\ \/ toClient[k].start > Asked + Margin
           \/ /\ toClient[k].start = Asked
              /\ Fragments(toServer) = {} /\ Drops(toServer) = {}
              /\ Joins(toClient[k].end)
              /\ \A l \in Answers(toClient) : l <= k
              /\ \A l \in Answers(toClient) : l < k => toClient[l].start > Asked + Margin
              /\ \A t \in Timers : ~LiveTask(t)
              /\ loop.pc \notin {"seek", "playFrom"}

TasksInOrder ==
    \A t \in Timers :
        /\ timers[t].pc \in {"free", "sleep"}
        /\ timers[t].session <= session
        /\ timers[t].pc # "free" => timers[t].next > 0
        /\ LiveTask(t) =>
              /\ Fragments(toServer) = {} /\ Drops(toServer) = {}
              /\ Joins(timers[t].next)
              /\ Answers(toClient) = {}
              /\ \A u \in Timers : LiveTask(u) => u = t
              /\ loop.pc \notin {"seek", "seekRequested", "playFrom", "playFromRequested"}

(* A seek that waits goes well before everything on its way, earlier seeks *)
(* included.                                                               *)
Precedes(s) ==
    /\ \A i \in Fragments(toServer) : toServer[i].start > s + Margin
    /\ \A k \in Answers(toClient) : toClient[k].start > s + Margin
    /\ loop.target # 0 => loop.target > s + Margin
    /\ \A t \in Timers :
          timers[t].pc # "free" /\ (Prompt => timers[t].left = 0)
          => timers[t].next > s + Margin

SeeksInOrder ==
    \A i \in SeeksQueued(cmds) :
        /\ Precedes(cmds[i].arg)
        /\ \A j \in SeeksQueued(cmds) : j < i => cmds[j].arg > cmds[i].arg + Margin

BeforeOpen ==
    /\ ~ranges /\ requested = 0 /\ toClient = <<>> /\ SeeksQueued(cmds) = {}
    /\ loop.target = 0
    /\ \A t \in Timers : timers[t] = FreeTimer

ChainInv ==
    /\ TypeOK
    /\ BufferContiguous
    /\ Open => RequestsInOrder /\ AnswersInOrder /\ TasksInOrder /\ SeeksInOrder
    /\ ~Open => buffer = <<>> /\ toServer = <<>>
    /\ dc = "connecting" => BeforeOpen

(* Tasks are atomic, and the user seeks no closer to what is on its way.   *)
Orderly == AtomicTasks /\ ~NearSeeks

LEMMA RequestAppended ==
    ASSUME NEW q \in Seq(Requests), NEW m \in Requests
    PROVE  LET r == Append(q, m)
               n == Len(q) + 1 IN
           /\ n \in Nat /\ r[n] = m
           /\ Fragments(r) = Fragments(q) \cup (IF m.type = "get_archive_fragment" THEN {n} ELSE {})
           /\ Drops(r) = Drops(q) \cup (IF m.type = "drop_buffer" THEN {n} ELSE {})
           /\ \A i \in 1 .. Len(q) : i \in Int /\ i < n /\ r[i] = q[i]
           /\ Fragments(q) \subseteq 1 .. Len(q) /\ Drops(q) \subseteq 1 .. Len(q)
<1> DEFINE r == Append(q, m)
           n == Len(q) + 1
<1>1. /\ n \in Nat /\ r[n] = m /\ Len(r) = n /\ Len(q) \in Nat
      /\ \A i \in 1 .. Len(q) : i \in Int /\ i < n /\ r[i] = q[i]
      /\ 1 .. n = (1 .. Len(q)) \cup {n}
  OBVIOUS
<1> HIDE DEF r, n
<1>2. Fragments(r) = Fragments(q) \cup (IF m.type = "get_archive_fragment" THEN {n} ELSE {})
  BY <1>1 DEF Fragments
<1>3. Drops(r) = Drops(q) \cup (IF m.type = "drop_buffer" THEN {n} ELSE {})
  BY <1>1 DEF Drops
<1>4. Fragments(q) \subseteq 1 .. Len(q) /\ Drops(q) \subseteq 1 .. Len(q)
  BY DEF Fragments, Drops
<1>5. QED
  BY <1>1, <1>2, <1>3, <1>4 DEF r, n

LEMMA RequestTaken ==
    ASSUME NEW q \in Seq(Requests), q # <<>>
    PROVE  LET r == Tail(q) IN
           /\ Head(q) = q[1]
           /\ \A i \in Fragments(r) : /\ i \in Nat /\ i > 0 /\ i + 1 \in Fragments(q)
                                      /\ r[i] = q[i + 1]
           /\ \A i \in Drops(r) : i \in Nat /\ i > 0 /\ i + 1 \in Drops(q)
           /\ \A i \in Drops(q) : i \in Nat /\ i > 0 /\ (i > 1 => i - 1 \in Drops(r))
           /\ \A i \in Fragments(q) : i \in Nat /\ i > 0
           /\ 1 \in Fragments(q) <=> q[1].type = "get_archive_fragment"
           /\ 1 \in Drops(q) <=> q[1].type = "drop_buffer"
<1> DEFINE r == Tail(q)
<1>1. /\ Len(q) \in Nat \ {0} /\ Len(r) = Len(q) - 1 /\ Head(q) = q[1]
      /\ \A i \in 1 .. Len(r) : i + 1 \in 1 .. Len(q) /\ r[i] = q[i + 1]
  OBVIOUS
<1> HIDE DEF r
<1>2. \A i \in 1 .. Len(q) : i > 1 => i - 1 \in 1 .. Len(r) /\ r[i - 1] = q[i]
  BY <1>1
<1>3. QED
  BY <1>1, <1>2 DEF Fragments, Drops, r

LEMMA AnswerTaken ==
    ASSUME NEW q \in Seq(Replies), q # <<>>
    PROVE  LET r == Tail(q) IN
           /\ Head(q) = q[1] /\ (1 \in Answers(q) <=> q[1].type = "archive_fragment")
           /\ \A i \in Answers(r) : /\ i \in Nat /\ i > 0 /\ i + 1 \in Answers(q)
                                    /\ r[i] = q[i + 1]
           /\ \A i \in Answers(q) : i \in Nat /\ i > 0
<1> DEFINE r == Tail(q)
<1>1. /\ Len(q) \in Nat \ {0} /\ Len(r) = Len(q) - 1 /\ Head(q) = q[1]
      /\ \A i \in 1 .. Len(r) : i + 1 \in 1 .. Len(q) /\ r[i] = q[i + 1]
  OBVIOUS
<1> HIDE DEF r
<1>2. QED
  BY <1>1 DEF Answers, r

LEMMA AnswerAppended ==
    ASSUME NEW q \in Seq(Replies), NEW m \in Replies
    PROVE  LET r == Append(q, m)
               n == Len(q) + 1 IN
           /\ n \in Nat /\ r[n] = m
           /\ Answers(r) = Answers(q) \cup (IF m.type = "archive_fragment" THEN {n} ELSE {})
           /\ \A i \in Answers(q) : i \in Nat /\ i < n /\ r[i] = q[i]
<1> DEFINE r == Append(q, m)
           n == Len(q) + 1
<1>1. /\ n \in Nat /\ r[n] = m /\ Len(r) = n /\ Len(q) \in Nat
      /\ \A i \in 1 .. Len(q) : i \in Nat /\ i < n /\ r[i] = q[i]
      /\ 1 .. n = (1 .. Len(q)) \cup {n}
  OBVIOUS
<1> HIDE DEF r, n
<1>2. Answers(r) = Answers(q) \cup (IF m.type = "archive_fragment" THEN {n} ELSE {})
  BY <1>1 DEF Answers
<1>3. \A i \in Answers(q) : i \in Nat /\ i < n /\ r[i] = q[i]
  BY <1>1 DEF Answers
<1>4. QED
  BY <1>1, <1>2, <1>3 DEF r, n

(* The seeks left in the command channel are in order, before and after    *)
(* the first command is taken.                                             *)
QueueInOrder(q) ==
    \A i \in SeeksQueued(q) :
        /\ Precedes(q[i].arg)
        /\ \A j \in SeeksQueued(q) : j < i => q[j].arg > q[i].arg + Margin

LEMMA QueueTaken ==
    ASSUME TypeOK, QueueInOrder(cmds), cmds # <<>>
    PROVE  /\ QueueInOrder(Tail(cmds))
           /\ 1 \in SeeksQueued(cmds) <=> Head(cmds).type \in Seeks
           /\ Head(cmds) = cmds[1]
           /\ Head(cmds).type \in Seeks =>
                 \A i \in SeeksQueued(Tail(cmds)) : Head(cmds).arg > Tail(cmds)[i].arg + Margin
<1> DEFINE r == Tail(cmds)
<1>1. /\ Len(cmds) \in Nat \ {0} /\ Len(r) = Len(cmds) - 1 /\ Head(cmds) = cmds[1]
      /\ \A i \in 1 .. Len(r) : i + 1 \in 1 .. Len(cmds) /\ r[i] = cmds[i + 1]
  BY DEF TypeOK
<1> HIDE DEF r
<1>2. /\ 1 \in SeeksQueued(cmds) <=> Head(cmds).type \in Seeks
      /\ \A i \in SeeksQueued(r) : i \in Nat /\ i > 0 /\ i + 1 \in SeeksQueued(cmds)
                                   /\ r[i] = cmds[i + 1]
  BY <1>1 DEF SeeksQueued
<1>3. QueueInOrder(r)
  BY <1>2 DEF QueueInOrder
<1>4. Head(cmds).type \in Seeks => \A i \in SeeksQueued(r) : Head(cmds).arg > r[i].arg + Margin
  BY <1>1, <1>2 DEF QueueInOrder
<1>5. QED
  BY <1>1, <1>2, <1>3, <1>4 DEF r

LEMMA ChainTypes ==
    ASSUME TypeOK
    PROVE  /\ Margin \in Nat /\ requested \in Nat /\ loop.target \in Nat /\ Asked \in Nat
           /\ session \in Nat /\ toServer \in Seq(Requests) /\ toClient \in Seq(Replies)
           /\ buffer \in Seq(Intervals) /\ cmds \in Seq(CommandRecords)
           /\ \A i \in Fragments(toServer) : toServer[i].start \in Nat
           /\ \A k \in Answers(toClient) : toClient[k].start \in Nat /\ toClient[k].end \in Nat
           /\ \A i \in SeeksQueued(cmds) : cmds[i].arg \in Targets /\ cmds[i].arg \in Nat
           /\ \A t \in Timers : /\ timers[t].next \in Nat /\ timers[t].left \in Nat
                                /\ timers[t].session \in Nat
<1>1. /\ Margin \in Nat /\ Times \subseteq Nat /\ Targets \subseteq Nat /\ 0 \in Times
  BY FragmentAssumption, ArchiveAssumption DEF Times
<1>2. requested \in Nat /\ loop.target \in Nat
  BY <1>1 DEF TypeOK, LoopStates
<1>3. \A i \in Fragments(toServer) : toServer[i] \in Requests
  BY DEF TypeOK, Fragments
<1>4. \A i \in Fragments(toServer) : toServer[i].start \in Nat
  BY <1>1, <1>3 DEF Requests
<1>5. \A k \in Answers(toClient) : toClient[k] \in Replies
  BY DEF TypeOK, Answers
<1>6. \A i \in SeeksQueued(cmds) : cmds[i] \in CommandRecords /\ cmds[i].type \in Seeks
  BY DEF TypeOK, SeeksQueued
<1>7. \A i \in SeeksQueued(cmds) : cmds[i].arg \in Targets
  BY <1>6 DEF CommandRecords, Seeks, CommandTypes
<1>8. QED
  BY <1>1, <1>2, <1>4, <1>5, <1>7 DEF TypeOK, Asked, Replies

(* Steps that move no content: what is on its way, and what comes before   *)
(* what, stays as it is.                                                   *)
SameRequests ==
    /\ Fragments(toServer') = Fragments(toServer) /\ Drops(toServer') = Drops(toServer)
    /\ \A i \in Fragments(toServer) : toServer'[i] = toServer[i]

TasksKept ==
    \A t \in Timers :
        \/ timers'[t].pc = "free" /\ timers'[t].session = 0
        \/ /\ timers'[t].pc = timers[t].pc /\ timers'[t].session = timers[t].session
           /\ timers'[t].next = timers[t].next
           /\ timers'[t].left = timers[t].left \/ SeeksQueued(cmds') = {} \/ ~Prompt

LEMMA SentSame ==
    ASSUME TypeOK, NEW m \in Requests, m.type \notin {"get_archive_fragment", "drop_buffer"},
           toServer' = toServer \/ toServer' = Append(toServer, m)
    PROVE  SameRequests
<1>1. CASE toServer' = toServer
  BY <1>1 DEF SameRequests
<1>2. CASE toServer' = Append(toServer, m)
  <2> DEFINE r == Append(toServer, m)
  <2>1. /\ Fragments(r) = Fragments(toServer) /\ Drops(r) = Drops(toServer)
        /\ \A i \in 1 .. Len(toServer) : r[i] = toServer[i]
        /\ Fragments(toServer) \subseteq 1 .. Len(toServer)
    <3>1. toServer \in Seq(Requests) /\ m.type # "get_archive_fragment" /\ m.type # "drop_buffer"
      BY DEF TypeOK
    <3>2. /\ Fragments(r) = Fragments(toServer) \cup {} /\ Drops(r) = Drops(toServer) \cup {}
          /\ \A i \in 1 .. Len(toServer) : r[i] = toServer[i]
          /\ Fragments(toServer) \subseteq 1 .. Len(toServer)
      BY <3>1, RequestAppended
    <3>3. QED
      BY <3>2
  <2> HIDE DEF r
  <2>2. QED
    BY <1>2, <2>1 DEF SameRequests, r
<1>3. QED
  BY <1>1, <1>2

LEMMA ChainKept ==
    ASSUME TypeOK, RequestsInOrder, AnswersInOrder, TasksInOrder,
           SameRequests, TasksKept, UNCHANGED <<toClient, buffer, session>>, Asked' = Asked,
           loop'.pc \in {"seek", "playFrom"} => loop.pc \in {"seek", "playFrom"},
           loop'.pc \in {"seekRequested", "playFromRequested"}
               => loop.pc \in {"seek", "playFrom", "seekRequested", "playFromRequested"},
           loop'.target \in {0, loop.target}, QueueInOrder(cmds')
    PROVE  RequestsInOrder' /\ AnswersInOrder' /\ TasksInOrder' /\ SeeksInOrder'
<1>1. RequestsInOrder'
  BY DEF RequestsInOrder, SameRequests, Dropped, Joins
<1>2. \A t \in Timers : LiveTask(t)' => LiveTask(t)
  BY DEF TasksKept, LiveTask
<1>3. AnswersInOrder'
  BY <1>2 DEF AnswersInOrder, SameRequests, Joins
<1>4. TasksInOrder'
  <2> SUFFICES ASSUME NEW t \in Timers
               PROVE  /\ timers'[t].pc \in {"free", "sleep"}
                      /\ timers'[t].session <= session
                      /\ timers'[t].pc # "free" => timers'[t].next > 0
                      /\ LiveTask(t)' =>
                            /\ Fragments(toServer') = {} /\ Drops(toServer') = {}
                            /\ Joins(timers[t].next)'
                            /\ Answers(toClient) = {}
                            /\ \A u \in Timers : LiveTask(u)' => u = t
                            /\ loop'.pc \notin {"seek", "seekRequested", "playFrom",
                                                "playFromRequested"}
    BY DEF TasksInOrder
  <2>1. /\ timers'[t].pc \in {"free", "sleep"}
        /\ timers'[t].session <= session
        /\ timers'[t].pc # "free" => timers'[t].next > 0
    BY ChainTypes DEF TasksKept, TasksInOrder
  <2>2. ASSUME LiveTask(t)'
        PROVE  LiveTask(t) /\ timers'[t].next = timers[t].next
    BY <1>2, <2>2 DEF TasksKept, LiveTask
  <2>3. QED
    BY <1>2, <2>1, <2>2 DEF TasksInOrder, SameRequests, Joins
<1>5. ASSUME NEW s, Precedes(s), SeeksQueued(cmds') # {}
      PROVE  Precedes(s)'
  <2>1. \A t \in Timers : timers'[t].pc # "free" /\ (Prompt => timers'[t].left = 0)
                          => timers'[t].next > s + Margin
    BY <1>5 DEF TasksKept, Precedes
  <2>2. QED
    BY <1>5, <2>1 DEF Precedes, SameRequests
<1>6. SeeksInOrder'
  <2> SUFFICES ASSUME NEW i \in SeeksQueued(cmds')
               PROVE  /\ Precedes(cmds[i].arg)'
                      /\ \A j \in SeeksQueued(cmds') : j < i => cmds'[j].arg > cmds'[i].arg + Margin
    BY DEF SeeksInOrder
  <2>1. QED
    BY <1>5 DEF QueueInOrder
<1>7. QED
  BY <1>1, <1>3, <1>4, <1>6

(* The steps of this kind.                                                 *)
LEMMA ChainFrame ==
    ASSUME ChainInv, TypeOK', SameRequests \/ ~Open, toServer' = toServer \/ Open,
           TasksKept, UNCHANGED <<toClient, buffer, session, requested, ranges, dc>>,
           Asked' = Asked,
           loop'.pc \in {"seek", "playFrom"} => loop.pc \in {"seek", "playFrom"},
           loop'.pc \in {"seekRequested", "playFromRequested"}
               => loop.pc \in {"seek", "playFrom", "seekRequested", "playFromRequested"},
           loop'.target \in {0, loop.target}, Open => QueueInOrder(cmds'),
           dc = "connecting" => SeeksQueued(cmds') = {} /\ timers' = timers
    PROVE  ChainInv'
<1>1. BufferContiguous'
  BY DEF ChainInv, BufferContiguous
<1>2. CASE Open
  BY <1>1, <1>2, ChainKept DEF ChainInv, Open
<1>3. CASE dc = "connecting"
  BY <1>1, <1>3 DEF ChainInv, Open, BeforeOpen
<1>4. CASE ~Open /\ dc # "connecting"
  BY <1>1, <1>4 DEF ChainInv, Open
<1>5. QED
  BY <1>2, <1>3, <1>4

LEMMA TasksUnchanged == ASSUME UNCHANGED timers PROVE TasksKept
BY DEF TasksKept

LEMMA QueueIs == ChainInv /\ Open => QueueInOrder(cmds)
BY DEF ChainInv, SeeksInOrder, QueueInOrder

LEMMA NothingSent == ASSUME UNCHANGED toServer PROVE SameRequests
BY DEF SameRequests

(* A request that moves no content is sent.                                *)
LEMMA SentQuietly ==
    ASSUME ChainInv, NEW m \in Requests, m.type \notin {"get_archive_fragment", "drop_buffer"},
           toServer' = Sent(m)
    PROVE  (SameRequests \/ ~Open) /\ (toServer' = toServer \/ Open)
BY SentSame DEF ChainInv, Sent

LEMMA SeeksBeforeOpen ==
    ASSUME ChainInv, NEW type, Take(type), type \notin Seeks
    PROVE  /\ Open => QueueInOrder(cmds')
           /\ dc = "connecting" => SeeksQueued(cmds') = {}
           /\ loop.pc = "idle" /\ issued' = issued
<1>1. TypeOK /\ cmds # <<>> /\ cmds' = Tail(cmds) /\ Head(cmds).type = type
      /\ loop.pc = "idle" /\ issued' = issued
  BY DEF ChainInv, Take
<1>2. Open => QueueInOrder(cmds')
  BY <1>1, QueueIs, QueueTaken
<1>3. dc = "connecting" => SeeksQueued(cmds') = {}
  <2> SUFFICES ASSUME dc = "connecting", NEW i \in SeeksQueued(cmds')
               PROVE  FALSE
    OBVIOUS
  <2>1. SeeksQueued(cmds) = {}
    BY DEF ChainInv, BeforeOpen
  <2>2. i \in 1 .. (Len(cmds) - 1) /\ cmds[i + 1].type \in Seeks /\ i + 1 \in 1 .. Len(cmds)
    BY <1>1 DEF SeeksQueued, TypeOK
  <2>3. QED
    BY <2>1, <2>2 DEF SeeksQueued
<1>4. QED
  BY <1>1, <1>2, <1>3

LEMMA TakeQuietly ==
    ASSUME ChainInv, TypeOK', TakeGetRanges \/ TakePause \/ TakePlay \/ TakeSetSpeed
    PROVE  ChainInv'
<1> USE DEF playVars, streamVars, serverVars, channelVars, commandVars
<1>1. PICK m \in Requests : /\ m.type \notin {"get_archive_fragment", "drop_buffer"}
                            /\ toServer' = Sent(m)
  <2>1. CASE TakeGetRanges
    BY <2>1, RequestTypes DEF TakeGetRanges, Request
  <2>2. CASE TakePause
    BY <2>2, RequestTypes DEF TakePause, Request
  <2>3. CASE TakePlay
    BY <2>3, RequestTypes DEF TakePlay, Request
  <2>4. CASE TakeSetSpeed
    <3>1. Head(cmds).arg \in {1, 2, 4, 8}
      BY <2>4, TakeType, InputAssumption
         DEF ChainInv, TakeSetSpeed, CommandTypes, CommandRecords, Seeks
    <3>2. QED
      BY <2>4, <3>1, RequestTypes DEF TakeSetSpeed, SpeedRequest
  <2>5. QED
    BY <2>1, <2>2, <2>3, <2>4
<1>2. UNCHANGED <<toClient, buffer, session, requested, ranges, dc, timers>>
  BY DEF TakeGetRanges, TakePause, TakePlay, TakeSetSpeed
<1>3. PICK type \in CommandTypes : Take(type) /\ type \notin Seeks
  BY DEF TakeGetRanges, TakePause, TakePlay, TakeSetSpeed, CommandTypes, Seeks
<1>4. /\ loop.pc = "idle" /\ loop \in LoopStates
      /\ loop' = loop \/ \E pc \in {"pause", "stop", "play"} : loop' = [loop EXCEPT !.pc = pc]
  BY DEF TakeGetRanges, TakePause, TakePlay, TakeSetSpeed, Take, At, ChainInv, TypeOK
<1>5. /\ loop'.pc \in {"idle", "pause", "stop", "play"} /\ loop'.target = loop.target
  BY <1>4 DEF LoopStates
<1>6. Asked' = Asked
  BY <1>2, <1>4, <1>5 DEF Asked
<1>7. QED
  BY <1>1, <1>2, <1>3, <1>5, <1>6, SentQuietly, SeeksBeforeOpen, TasksUnchanged, ChainFrame

LEMMA ContinueQuietly ==
    ASSUME ChainInv, TypeOK', ContinueCommand, ~RequestTarget
    PROVE  ChainInv'
<1> USE DEF playVars, streamVars, serverVars, channelVars, commandVars, Continue
<1>0. /\ cmds' = cmds /\ (Open => QueueInOrder(cmds'))
      /\ dc = "connecting" => SeeksQueued(cmds') = {}
  BY QueueIs
     DEF ContinueCommand, FinishSeek, StartPlayFrom, FinishPlayFrom, FinishPause,
         FinishStop, FinishPlay, ChainInv, BeforeOpen
<1>1. UNCHANGED <<toClient, buffer, session, ranges, dc, timers>>
  BY DEF ContinueCommand, FinishSeek, StartPlayFrom, FinishPlayFrom, FinishPause,
         FinishStop, FinishPlay
<1>2. loop \in LoopStates
  BY DEF ChainInv, TypeOK
<1>3. CASE FinishPause \/ FinishStop \/ FinishPlay \/ FinishPlayFrom
  <2>1. loop' = IdleLoop /\ requested' = requested
        /\ loop.pc \in {"pause", "stop", "play", "playFromStarted"}
    BY <1>3 DEF FinishPause, FinishStop, FinishPlay, FinishPlayFrom, Finish
  <2>2. Asked' = Asked
    BY <2>1 DEF Asked, IdleLoop
  <2>3. (SameRequests \/ ~Open) /\ (toServer' = toServer \/ Open)
    <3>1. CASE FinishPlayFrom
      <4>1. SpeedRequest(speed) \in Requests /\ SpeedRequest(speed).type = "set_speed"
        BY RequestTypes DEF ChainInv, TypeOK, SpeedRequest
      <4>2. QED
        BY <3>1, <4>1, SentQuietly DEF FinishPlayFrom
    <3>2. CASE FinishPause \/ FinishStop \/ FinishPlay
      BY <3>2, NothingSent DEF FinishPause, FinishStop, FinishPlay
    <3>3. QED
      BY <1>3, <3>1, <3>2
  <2>4. QED
    BY <1>0, <1>1, <2>1, <2>2, <2>3, TasksUnchanged, ChainFrame DEF IdleLoop
<1>4. CASE FinishSeek \/ StartPlayFrom
  <2>1. /\ requested' = loop.target /\ loop.pc \in {"seekRequested", "playFromRequested"}
        /\ loop'.pc \in {"idle", "playFromStarted"} /\ loop'.target \in {0, loop.target}
    BY <1>2, <1>4
       DEF FinishSeek, StartPlayFrom, Finish, At, IdleLoop, LoopStates
  <2>2. Asked' = Asked
    BY <2>1 DEF Asked
  <2>3. (SameRequests \/ ~Open) /\ (toServer' = toServer \/ Open)
    <3>1. CASE StartPlayFrom
      BY <3>1, RequestTypes, SentQuietly DEF StartPlayFrom, Request
    <3>2. CASE FinishSeek
      BY <3>2, NothingSent DEF FinishSeek
    <3>3. QED
      BY <1>4, <3>1, <3>2
  <2>4. dc # "connecting"
    <3>1. loop.target \in Targets
      BY <1>2, <2>1 DEF LoopStates
    <3>2. loop.target # 0
      BY <3>1, TargetTypes
    <3>3. QED
      BY <3>2 DEF ChainInv, BeforeOpen
  <2>5. BufferContiguous'
    BY <1>1 DEF ChainInv, BufferContiguous
  <2>6. Open => RequestsInOrder' /\ AnswersInOrder' /\ TasksInOrder' /\ SeeksInOrder'
    BY <1>0, <1>1, <2>1, <2>2, <2>3, TasksUnchanged, ChainKept DEF ChainInv
  <2>7. QED
    BY <1>1, <2>3, <2>4, <2>5, <2>6 DEF ChainInv, Open
<1>5. QED
  BY <1>3, <1>4 DEF ContinueCommand

LEMMA StutterChain ==
    ASSUME ChainInv, TypeOK', UNCHANGED vars
    PROVE  ChainInv'
<1>1. /\ UNCHANGED <<toServer, toClient, buffer, session, requested, ranges, dc, timers, loop, cmds>>
  BY DEF vars
<1>2. Asked' = Asked
  BY <1>1 DEF Asked
<1>3. dc = "connecting" => SeeksQueued(cmds') = {}
  BY <1>1 DEF ChainInv, BeforeOpen
<1>4. QED
  BY <1>1, <1>2, <1>3, QueueIs, NothingSent, TasksUnchanged, ChainFrame

(* Under Prompt time passes only when no command waits.                    *)
LEMMA TickChain ==
    ASSUME ChainInv, TypeOK', Tick
    PROVE  ChainInv'
<1>1. /\ UNCHANGED <<toServer, toClient, buffer, session, requested, ranges, dc, loop, cmds>>
      /\ timers' = [t \in Timers |-> [timers[t] EXCEPT !.left = Monus(timers[t].left, 1)]]
      /\ Prompt => cmds = <<>>
  BY DEF Tick, playVars, commandVars, channelVars, serverVars, Settled
<1>2. Asked' = Asked
  BY <1>1 DEF Asked
<1>3. dc = "connecting" => SeeksQueued(cmds') = {}
  BY <1>1 DEF ChainInv, BeforeOpen
<1>4. TasksKept
  <2>1. Prompt => SeeksQueued(cmds') = {}
    BY <1>1 DEF SeeksQueued
  <2>2. \A t \in Timers : /\ timers'[t].pc = timers[t].pc
                          /\ timers'[t].session = timers[t].session
                          /\ timers'[t].next = timers[t].next
    BY <1>1 DEF ChainInv, TypeOK
  <2>3. QED
    BY <2>1, <2>2 DEF TasksKept
<1>5. dc = "connecting" => timers' = timers
  <2> SUFFICES ASSUME dc = "connecting" PROVE timers' = timers
    OBVIOUS
  <2>1. \A t \in Timers : [timers[t] EXCEPT !.left = Monus(timers[t].left, 1)] = timers[t]
    BY DEF ChainInv, BeforeOpen, FreeTimer, Monus
  <2>2. timers = [t \in Timers |-> timers[t]]
    BY DEF ChainInv, TypeOK
  <2>3. QED
    BY <1>1, <2>1, <2>2
<1>6. QED
  BY <1>1, <1>2, <1>3, <1>4, <1>5, QueueIs, NothingSent, ChainFrame

LEMMA TargetNumber ==
    ASSUME NEW t \in Targets
    PROVE  t \in Nat
<1>1. t \in 1 .. (ArchiveEnd - 1)
  BY ArchiveAssumption
<1>2. QED
  BY <1>1

LEMMA SeekArgument ==
    ASSUME NEW c \in CommandRecords, c.type \in Seeks
    PROVE  c.arg \in Targets
<1>1. CASE c \in [type : Seeks, arg : Targets]
  BY <1>1
<1>2. c \notin [type : {"SetSpeed"}, arg : Speeds]
  BY DEF Seeks
<1>3. c \notin [type : CommandTypes \ (Seeks \cup {"SetSpeed"}), arg : {0}]
  OBVIOUS
<1>4. QED
  BY <1>1, <1>2, <1>3 DEF CommandRecords

(* A seek is issued only if it goes well before everything on its way.     *)
LEMMA UserChain ==
    ASSUME Orderly, ChainInv, TypeOK', UserStep
    PROVE  ChainInv'
<1>1. PICK c \in Issuable : Issue(c)
  BY DEF UserStep
<1>2. /\ UNCHANGED <<toServer, toClient, buffer, session, requested, ranges, dc, timers, loop>>
      /\ cmds' = cmds \/ cmds' = Append(cmds, c)
      /\ c \in CommandRecords
  BY <1>1, CommandType
     DEF Issue, playVars, channelVars, streamVars, serverVars, ChainInv
<1>3. Asked' = Asked
  BY <1>2 DEF Asked
<1> DEFINE r == Append(cmds, c)
           n == Len(cmds) + 1
<1>4. /\ r[n] = c /\ \A i \in SeeksQueued(cmds) : i < n /\ r[i] = cmds[i]
      /\ \A i \in SeeksQueued(r) : i \in Int /\ (i \in SeeksQueued(cmds) \/ (i = n /\ c.type \in Seeks))
      /\ n \in Int
  <2>1. cmds \in Seq(CommandRecords) /\ Len(cmds) \in Nat
    BY DEF ChainInv, TypeOK
  <2>2. /\ Len(r) = n /\ r[n] = c /\ \A i \in 1 .. Len(cmds) : i < n /\ r[i] = cmds[i]
        /\ \A i \in 1 .. n : i \in 1 .. Len(cmds) \/ i = n
    BY <1>2, <2>1
  <2> HIDE DEF r
  <2>3. QED
    BY <2>1, <2>2 DEF SeeksQueued
<1> HIDE DEF r, n
<1>5. c.type \in Seeks => ranges /\ \A u \in InTransit : c.arg + Margin < u
  BY DEF Issuable, SeekTargets, Orderly, Seeks
<1>6. ASSUME Open, c.type \in Seeks
      PROVE  /\ Precedes(c.arg)
             /\ \A j \in SeeksQueued(cmds) : cmds[j].arg > c.arg + Margin
  <2>1. /\ RequestsInOrder /\ AnswersInOrder /\ TasksInOrder /\ TypeOK /\ c.arg \in Nat
    <3>1. c.arg \in Targets
      BY <1>2, <1>6, SeekArgument
    <3>2. c.arg \in Nat
      BY <3>1, TargetNumber
    <3>3. QED
      BY <1>6, <3>2 DEF ChainInv
  <2>2. ASSUME NEW i \in Fragments(toServer)
        PROVE  toServer[i].start > c.arg + Margin
    <3>1. toServer[i].start \in Nat /\ toServer[i].start # 0
      BY <2>1, ChainTypes DEF RequestsInOrder
    <3>2. toServer[i].start \in InTransit
      BY <3>1 DEF InTransit, Fragments
    <3>3. QED
      BY <1>5, <1>6, <2>1, <3>1, <3>2, ChainTypes
  <2>3. ASSUME NEW k \in Answers(toClient)
        PROVE  toClient[k].start > c.arg + Margin
    <3>1. toClient[k].start \in Nat /\ toClient[k].start # 0
      BY <2>1, ChainTypes DEF AnswersInOrder
    <3>2. toClient[k].start \in InTransit
      BY <3>1 DEF InTransit, Answers
    <3>3. QED
      BY <1>5, <1>6, <2>1, <3>1, <3>2, ChainTypes
  <2>4. loop.target # 0 => loop.target > c.arg + Margin
    <3>1. loop.target # 0 => loop.target \in InTransit
      BY DEF InTransit
    <3>2. QED
      BY <1>5, <1>6, <2>1, <3>1, ChainTypes
  <2>5. ASSUME NEW t \in Timers, timers[t].pc # "free", Prompt => timers[t].left = 0
        PROVE  timers[t].next > c.arg + Margin
    <3>1. timers[t].next # 0 /\ timers[t].next \in Nat
      BY <2>1, <2>5, ChainTypes DEF TasksInOrder
    <3>2. timers[t].next \in InTransit
      BY <2>5, <3>1 DEF InTransit
    <3>3. QED
      BY <1>5, <1>6, <2>1, <3>1, <3>2, ChainTypes
  <2>6. ASSUME NEW j \in SeeksQueued(cmds)
        PROVE  cmds[j].arg > c.arg + Margin
    <3>1. cmds[j].arg \in Targets /\ cmds[j].arg \in Nat
      BY <2>1, ChainTypes
    <3>2. cmds[j].arg # 0
      BY <3>1, TargetTypes
    <3>3. cmds[j].arg \in InTransit
      BY <3>2 DEF InTransit, SeeksQueued
    <3>4. QED
      BY <1>5, <1>6, <2>1, <3>1, <3>3, ChainTypes
  <2>7. QED
    BY <2>2, <2>3, <2>4, <2>5, <2>6 DEF Precedes
<1>7. Open => QueueInOrder(cmds')
  <2> SUFFICES ASSUME Open PROVE QueueInOrder(cmds')
    OBVIOUS
  <2>1. QueueInOrder(cmds)
    BY QueueIs
  <2>2. QueueInOrder(r)
    <3> SUFFICES ASSUME NEW i \in SeeksQueued(r)
                 PROVE  /\ Precedes(r[i].arg)
                        /\ \A j \in SeeksQueued(r) : j < i => r[j].arg > r[i].arg + Margin
      BY DEF QueueInOrder
    <3>1. CASE i = n /\ c.type \in Seeks
      BY <1>4, <1>6, <3>1
    <3>2. CASE i \in SeeksQueued(cmds)
      BY <1>4, <2>1, <3>2 DEF QueueInOrder
    <3>3. QED
      BY <1>4, <3>1, <3>2
  <2>3. QED
    BY <1>2, <2>1, <2>2 DEF r
<1>8. dc = "connecting" => SeeksQueued(cmds') = {}
  <2> SUFFICES ASSUME dc = "connecting" PROVE SeeksQueued(cmds') = {}
    OBVIOUS
  <2>1. SeeksQueued(cmds) = {} /\ c.type \notin Seeks
    BY <1>5 DEF ChainInv, BeforeOpen
  <2>2. SeeksQueued(r) = {}
    BY <1>4, <2>1
  <2>3. QED
    BY <1>2, <2>1, <2>2 DEF r
<1>9. QED
  BY <1>2, <1>3, <1>7, <1>8, NothingSent, TasksUnchanged, ChainFrame

-----------------------------------------------------------------------------
(* Seeks.                                                                  *)

(* What was asked for before is now stale: a drop_buffer follows it, or it *)
(* lies beyond the margin, or its session is over.                         *)
LEMMA TakeSeekChain ==
    ASSUME ChainInv, TypeOK', TakeSeek
    PROVE  ChainInv'
<1> USE DEF playVars, streamVars, serverVars, channelVars, commandVars
<1> DEFINE s == Head(cmds).arg
           m == Request("drop_buffer")
<1>1. /\ loop.pc = "idle" /\ cmds # <<>> /\ cmds' = Tail(cmds) /\ Head(cmds).type \in Seeks
      /\ loop'.pc \in {"seek", "playFrom"} /\ loop'.target = s
      /\ session' = session + 1 /\ toServer' = Sent(m)
      /\ UNCHANGED <<toClient, buffer, requested, ranges, dc, timers>>
  BY DEF TakeSeek, Take, Seeks
<1>2. m \in Requests /\ m.type = "drop_buffer"
  BY RequestTypes DEF Request
<1>3. Asked' = s
  BY <1>1 DEF Asked
<1>4. BufferContiguous'
  BY <1>1 DEF ChainInv, BufferContiguous
<1>5. CASE Open
  <2>1. /\ RequestsInOrder /\ AnswersInOrder /\ TasksInOrder /\ QueueInOrder(cmds) /\ TypeOK
        /\ toServer' = Append(toServer, m)
    BY <1>1, <1>5, QueueIs DEF ChainInv, Sent
  <2>2. 1 \in SeeksQueued(cmds) /\ cmds[1].arg = s /\ s \in Nat /\ s > 0
    BY <1>1, <2>1, QueueTaken, ChainTypes, TargetTypes
  <2>3. Precedes(s)
    BY <2>1, <2>2 DEF QueueInOrder
  <2> DEFINE n == Len(toServer) + 1
             r == Append(toServer, m)
  <2>4. /\ Fragments(r) = Fragments(toServer) /\ Drops(r) = Drops(toServer) \cup {n} /\ n \in Nat
        /\ \A i \in Fragments(toServer) : r[i] = toServer[i] /\ i < n /\ i \in Int
        /\ \A i \in Drops(toServer) : i < n /\ i \in Int
    <3>1. toServer \in Seq(Requests)
      BY <2>1, ChainTypes
    <3>2. /\ Fragments(r) = Fragments(toServer) \cup {} /\ Drops(r) = Drops(toServer) \cup {n}
          /\ n \in Nat /\ \A i \in 1 .. Len(toServer) : i \in Int /\ i < n /\ r[i] = toServer[i]
          /\ Fragments(toServer) \subseteq 1 .. Len(toServer)
          /\ Drops(toServer) \subseteq 1 .. Len(toServer)
      BY <1>2, <3>1, RequestAppended
    <3> HIDE DEF r, n
    <3>3. QED
      BY <3>2
  <2> HIDE DEF r, n, s, m
  <2>5. RequestsInOrder'
    <3>1. \A i, j \in Fragments(r) : i < j => \E d \in Drops(r) : i < d /\ d < j
      BY <2>1, <2>4 DEF RequestsInOrder
    <3>2. \A i \in Fragments(r) : Dropped(r, i) /\ r[i].start > s + Margin
      BY <2>3, <2>4 DEF Dropped, Precedes
    <3>3. \A i \in Fragments(r) : (\A d \in Drops(r) : d > i) => Joins(r[i].start)
      BY <2>1, <2>4 DEF RequestsInOrder
    <3>4. Drops(r) # {}
      BY <2>4
    <3>5. toServer' = r /\ Asked' > 0 /\ Asked' = s
      BY <1>3, <2>1, <2>2 DEF r
    <3>6. \A u : Joins(u)' = Joins(u)
      BY <1>1 DEF Joins
    <3>7. QED
      BY <3>1, <3>2, <3>3, <3>4, <3>5, <3>6 DEF RequestsInOrder
  <2>6. AnswersInOrder'
    BY <1>1, <1>3, <2>1, <2>2, <2>3 DEF AnswersInOrder, Precedes
  <2>7. TasksInOrder'
    <3>1. \A t \in Timers : timers[t].session <= session /\ timers[t].session \in Nat
      BY <2>1, ChainTypes DEF TasksInOrder
    <3>2. \A t \in Timers : timers'[t].session <= session' /\ ~LiveTask(t)'
      BY <1>1, <2>1, <3>1, ChainTypes DEF LiveTask
    <3>3. QED
      BY <1>1, <2>1, <3>2 DEF TasksInOrder
  <2>8. SeeksInOrder'
    <3>1. /\ QueueInOrder(cmds') /\ \A i \in SeeksQueued(cmds') : s > cmds'[i].arg + Margin
      BY <1>1, <2>1, QueueTaken DEF s
    <3>2. ASSUME NEW i \in SeeksQueued(cmds')
          PROVE  Precedes(cmds[i].arg)'
      <4>1. Precedes(cmds'[i].arg) /\ s > cmds'[i].arg + Margin
        BY <3>1 DEF QueueInOrder
      <4>2. \A j \in Fragments(toServer') : toServer'[j].start > cmds'[i].arg + Margin
        BY <2>1, <2>4, <4>1 DEF Precedes, r
      <4>3. QED
        BY <1>1, <4>1, <4>2 DEF Precedes, s
    <3>3. QED
      BY <3>1, <3>2 DEF SeeksInOrder, QueueInOrder
  <2>9. QED
    BY <1>1, <1>4, <1>5, <2>5, <2>6, <2>7, <2>8 DEF ChainInv, Open
<1>6. CASE ~Open
  <2>1. dc # "connecting"
    <3>1. SeeksQueued(cmds) # {}
      <4>1. 1 \in 1 .. Len(cmds) /\ Head(cmds) = cmds[1]
        BY <1>1 DEF ChainInv, TypeOK
      <4>2. QED
        BY <1>1, <4>1 DEF SeeksQueued
    <3>2. QED
      BY <3>1 DEF ChainInv, BeforeOpen
  <2>2. QED
    BY <1>1, <1>4, <1>6, <2>1 DEF ChainInv, Open, Sent
<1>7. QED
  BY <1>5, <1>6

(* The second send of a seek: everything before it is stale.               *)
LEMMA RequestTargetChain ==
    ASSUME ChainInv, TypeOK', RequestTarget
    PROVE  ChainInv'
<1> USE DEF playVars, streamVars, serverVars, channelVars, commandVars
<1> DEFINE s == loop.target
           m == FragmentRequest(s)
<1>1. /\ loop.pc \in {"seek", "playFrom"} /\ loop \in LoopStates
      /\ loop'.pc \in {"seekRequested", "playFromRequested"} /\ loop'.target = s
      /\ toServer' = Sent(m)
      /\ UNCHANGED <<cmds, toClient, buffer, session, requested, ranges, dc, timers>>
  BY DEF RequestTarget, Continue, At, ChainInv, TypeOK, LoopStates
<1>2. s \in Targets
  BY <1>1 DEF LoopStates
<1>3. m \in Requests /\ m.type = "get_archive_fragment" /\ m.start = s /\ s \in Nat /\ s > 0
  BY <1>2, TargetTypes, TargetNumber, RequestTypes DEF FragmentRequest
<1>4. Asked = s /\ Asked' = s
  BY <1>1 DEF Asked
<1>5. dc # "connecting"
  BY <1>3 DEF ChainInv, BeforeOpen
<1>6. BufferContiguous'
  BY <1>1 DEF ChainInv, BufferContiguous
<1>7. CASE Open
  <2>1. /\ RequestsInOrder /\ AnswersInOrder /\ TasksInOrder /\ SeeksInOrder /\ TypeOK
        /\ toServer' = Append(toServer, m)
    BY <1>1, <1>7 DEF ChainInv, Sent
  <2> DEFINE n == Len(toServer) + 1
             r == Append(toServer, m)
  <2>2. /\ Fragments(r) = Fragments(toServer) \cup {n} /\ Drops(r) = Drops(toServer)
        /\ n \in Nat /\ r[n] = m
        /\ \A i \in Fragments(toServer) : r[i] = toServer[i] /\ i < n /\ i \in Int
        /\ \A i \in Drops(toServer) : i < n /\ i \in Int
    <3>1. toServer \in Seq(Requests)
      BY <2>1, ChainTypes
    <3>2. /\ Fragments(r) = Fragments(toServer) \cup {n} /\ Drops(r) = Drops(toServer) \cup {}
          /\ n \in Nat /\ r[n] = m
          /\ \A i \in 1 .. Len(toServer) : i \in Int /\ i < n /\ r[i] = toServer[i]
          /\ Fragments(toServer) \subseteq 1 .. Len(toServer)
          /\ Drops(toServer) \subseteq 1 .. Len(toServer)
      BY <1>3, <3>1, RequestAppended
    <3> HIDE DEF r, n
    <3>3. QED
      BY <3>2
  <2> HIDE DEF r, n, s, m
  <2>3. /\ \A i \in Fragments(toServer) : Dropped(toServer, i)
        /\ Drops(toServer) = {} => buffer = <<>>
    BY <1>1, <2>1 DEF RequestsInOrder
  <2>4. RequestsInOrder'
    <3>1. \A i, j \in Fragments(r) : i < j => \E d \in Drops(r) : i < d /\ d < j
      <4>1. \A i, j \in Fragments(toServer) : i < j => \E d \in Drops(r) : i < d /\ d < j
        BY <2>1, <2>2 DEF RequestsInOrder
      <4>2. \A i \in Fragments(toServer) : \E d \in Drops(r) : i < d /\ d < n
        BY <2>2, <2>3 DEF Dropped
      <4>3. QED
        BY <2>2, <4>1, <4>2
    <3>2. \A i \in Fragments(toServer) : Dropped(r, i) /\ r[i].start > s + Margin
      BY <1>4, <2>1, <2>2, <2>3 DEF Dropped, RequestsInOrder
    <3>3. ~Dropped(r, n) /\ r[n].start = s
      BY <1>3, <2>2 DEF Dropped
    <3>4. \A i \in Fragments(toServer) : (\A d \in Drops(r) : d > i) => Joins(r[i].start)
      BY <2>1, <2>2 DEF RequestsInOrder
    <3>5. (\A d \in Drops(r) : d > n) => Joins(r[n].start)
      BY <2>2, <2>3 DEF Joins
    <3>6. toServer' = r /\ Asked' > 0 /\ Asked' = s
      BY <1>3, <1>4, <2>1 DEF r
    <3>7. \A u : Joins(u)' = Joins(u)
      BY <1>1 DEF Joins
    <3>8. \A i \in Fragments(r) :
             /\ IF Dropped(r, i) THEN r[i].start > s + Margin ELSE r[i].start = s
             /\ (\A d \in Drops(r) : d > i) => Joins(r[i].start)
      BY <2>2, <3>2, <3>3, <3>4, <3>5
    <3>9. loop'.pc \notin {"seek", "playFrom"}
      BY <1>1
    <3>10. QED
      BY <3>1, <3>6, <3>7, <3>8, <3>9 DEF RequestsInOrder
  <2>5. AnswersInOrder'
    BY <1>1, <1>3, <1>4, <2>1 DEF AnswersInOrder
  <2>6. TasksInOrder'
    BY <1>1, <2>1 DEF TasksInOrder, LiveTask
  <2>7. SeeksInOrder'
    <3>1. ASSUME NEW i \in SeeksQueued(cmds)
          PROVE  Precedes(cmds[i].arg)'
      <4>1. Precedes(cmds[i].arg) /\ s > cmds[i].arg + Margin
        BY <1>3, <2>1, <3>1 DEF SeeksInOrder, Precedes, s
      <4>2. \A j \in Fragments(toServer') : toServer'[j].start > cmds[i].arg + Margin
        BY <1>3, <2>1, <2>2, <4>1 DEF Precedes, r
      <4>3. QED
        BY <1>1, <4>1, <4>2 DEF Precedes, s
    <3>2. QED
      BY <1>1, <2>1, <3>1 DEF SeeksInOrder
  <2>8. QED
    BY <1>1, <1>6, <1>7, <2>4, <2>5, <2>6, <2>7 DEF ChainInv, Open
<1>8. CASE ~Open
  BY <1>1, <1>5, <1>6, <1>8 DEF ChainInv, Open, Sent
<1>9. QED
  BY <1>7, <1>8

-----------------------------------------------------------------------------
(* Refill tasks.                                                           *)

LEMMA CancelTaskChain ==
    ASSUME ChainInv, TypeOK', NEW t \in Timers, CancelTask(t)
    PROVE  ChainInv'
<1>1. /\ UNCHANGED <<toServer, toClient, buffer, session, requested, ranges, dc, loop, cmds>>
      /\ timers' = [timers EXCEPT ![t] = FreeTimer] /\ timers[t].pc = "sleep"
  BY DEF CancelTask, Expired, TaskFrame, TaskEnds, playVars, commandVars,
         streamVars, serverVars
<1>2. Asked' = Asked
  BY <1>1 DEF Asked
<1>3. dc = "connecting" => FALSE
  BY <1>1 DEF ChainInv, BeforeOpen, FreeTimer
<1>4. TasksKept
  BY <1>1 DEF TasksKept, FreeTimer, ChainInv, TypeOK
<1>5. QED
  BY <1>1, <1>2, <1>3, <1>4, QueueIs, NothingSent, ChainFrame

(* A live task asks for what comes after the buffer, and nothing else is   *)
(* on its way.                                                             *)
LEMMA RunTaskChain ==
    ASSUME ChainInv, TypeOK', NEW t \in Timers, RunTask(t)
    PROVE  ChainInv'
<1> USE DEF playVars, streamVars, serverVars, channelVars, commandVars
<1> DEFINE s == timers[t].next
           m == FragmentRequest(s)
<1>1. /\ timers[t].pc = "sleep" /\ timers[t].left = 0 /\ timers[t].session = session
      /\ timers' = [timers EXCEPT ![t] = FreeTimer]
      /\ toServer' = Sent(m) /\ requested' = IF Open THEN s ELSE requested
      /\ UNCHANGED <<cmds, loop, toClient, buffer, session, ranges, dc>>
  BY DEF RunTask, Expired, TaskFrame, TaskEnds
<1>2. dc # "connecting"
  BY <1>1 DEF ChainInv, BeforeOpen, FreeTimer
<1>3. BufferContiguous'
  BY <1>1 DEF ChainInv, BufferContiguous
<1>4. /\ timers' \in [Timers -> [pc : {"free", "sleep", "send", "store"},
                                 session : Nat, next : Times, left : Nat]]
      /\ timers'[t].pc = "free" /\ timers'[t].session = 0
      /\ \A u \in Timers : u # t => timers'[u] = timers[u]
  BY <1>1 DEF ChainInv, TypeOK, FreeTimer
<1>5. CASE Open
  <2>1. /\ RequestsInOrder /\ AnswersInOrder /\ TasksInOrder /\ SeeksInOrder /\ TypeOK
        /\ toServer' = Append(toServer, m) /\ requested' = s
    BY <1>1, <1>5 DEF ChainInv, Sent
  <2>2. /\ LiveTask(t) /\ s \in Nat /\ s > 0
        /\ Fragments(toServer) = {} /\ Drops(toServer) = {} /\ Joins(s)
        /\ Answers(toClient) = {} /\ \A u \in Timers : LiveTask(u) => u = t
        /\ loop.pc \notin {"seek", "seekRequested", "playFrom", "playFromRequested"}
    <3>1. LiveTask(t)
      BY <1>1 DEF LiveTask
    <3>2. s \in Nat
      BY <2>1, ChainTypes
    <3>3. QED
      BY <1>1, <2>1, <3>1, <3>2 DEF TasksInOrder
  <2>3. m \in Requests /\ m.type = "get_archive_fragment" /\ m.start = s
    <3>1. s \in Times
      BY <2>1 DEF TypeOK
    <3>2. QED
      BY <3>1, RequestTypes DEF FragmentRequest
  <2> DEFINE n == Len(toServer) + 1
             r == Append(toServer, m)
  <2>4. /\ Fragments(r) = {n} /\ Drops(r) = {} /\ n \in Nat /\ r[n] = m
    <3>1. toServer \in Seq(Requests)
      BY <2>1, ChainTypes
    <3>2. /\ Fragments(r) = Fragments(toServer) \cup {n} /\ Drops(r) = Drops(toServer) \cup {}
          /\ n \in Nat /\ r[n] = m
      BY <2>3, <3>1, RequestAppended
    <3> HIDE DEF r, n
    <3>3. QED
      BY <2>2, <3>2
  <2> HIDE DEF r, n, s, m
  <2>5. Asked' = s
    BY <1>1, <2>1, <2>2 DEF Asked
  <2>6. RequestsInOrder'
    <3>1. toServer' = r
      BY <2>1 DEF r
    <3>2. buffer' # <<>> => buffer'[Len(buffer')].end = s
      BY <1>1, <2>2 DEF Joins
    <3>3. ~Dropped(r, n) /\ r[n].start = s
      BY <2>3, <2>4 DEF Dropped
    <3>4. loop'.pc \notin {"seek", "playFrom"}
      BY <1>1, <2>2
    <3>5. \A i, j \in Fragments(r) : ~(i < j)
      BY <2>4
    <3>7. \A i \in Fragments(toServer') :
             /\ Asked' > 0 /\ ~Dropped(toServer', i) /\ toServer'[i].start = Asked'
             /\ buffer' # <<>> => buffer'[Len(buffer')].end = toServer'[i].start
      BY <2>2, <2>4, <2>5, <3>1, <3>2, <3>3
    <3>8. QED
      BY <3>1, <3>4, <3>5, <3>7 DEF RequestsInOrder, Joins
  <2>7. AnswersInOrder'
    BY <1>1, <2>2 DEF AnswersInOrder
  <2>8. \A u \in Timers : ~LiveTask(u)'
    BY <1>1, <1>4, <2>2 DEF LiveTask
  <2>9. TasksInOrder'
    <3>1. \A u \in Timers : timers[u].session \in Nat /\ session \in Nat
      BY <2>1, ChainTypes
    <3>2. QED
      BY <1>1, <1>4, <2>1, <2>8, <3>1 DEF TasksInOrder
  <2>10. SeeksInOrder'
    <3>1. ASSUME NEW i \in SeeksQueued(cmds)
          PROVE  Precedes(cmds[i].arg)'
      <4>1. Precedes(cmds[i].arg) /\ s > cmds[i].arg + Margin
        BY <1>1, <2>1, <3>1 DEF SeeksInOrder, Precedes, s
      <4>2. \A j \in Fragments(toServer') : toServer'[j].start > cmds[i].arg + Margin
        BY <2>1, <2>3, <2>4, <4>1 DEF r
      <4>3. \A u \in Timers :
              timers'[u].pc # "free" /\ (Prompt => timers'[u].left = 0)
              => timers'[u].next > cmds[i].arg + Margin
        BY <1>4, <4>1 DEF Precedes
      <4>4. QED
        BY <1>1, <4>1, <4>2, <4>3 DEF Precedes
    <3>2. QED
      BY <1>1, <2>1, <3>1 DEF SeeksInOrder
  <2>11. QED
    BY <1>1, <1>3, <1>5, <2>6, <2>7, <2>9, <2>10 DEF ChainInv, Open
<1>6. CASE ~Open
  BY <1>1, <1>2, <1>3, <1>6 DEF ChainInv, Open, Sent
<1>7. QED
  BY <1>5, <1>6

LEMMA TaskChain ==
    ASSUME Orderly, ChainInv, TypeOK', NEW t \in Timers, TaskStep(t)
    PROVE  ChainInv'
<1>1. CASE CancelTask(t)
  BY <1>1, CancelTaskChain
<1>2. CASE RunTask(t)
  BY <1>2, RunTaskChain
<1>3. CASE SendNext(t) \/ StoreNext(t)
  <2>1. timers[t].pc \in {"send", "store"}
    BY <1>3 DEF SendNext, StoreNext
  <2>2. ~Open /\ dc # "connecting"
    BY <2>1 DEF ChainInv, TasksInOrder, BeforeOpen, FreeTimer
  <2>3. UNCHANGED <<toServer, buffer, dc>>
    BY <1>3, <2>2
       DEF SendNext, StoreNext, TaskFrame, Sent, streamVars, serverVars
  <2>4. QED
    BY <2>2, <2>3 DEF ChainInv, BufferContiguous, Open
<1>4. ~WakeTask(t)
  BY DEF Orderly, WakeTask
<1>5. QED
  BY <1>1, <1>2, <1>3, <1>4 DEF TaskStep

-----------------------------------------------------------------------------
(* The server.                                                             *)

(* What a served request leaves of the order of the others.                *)
ServedInOrder(r) ==
    /\ RequestsInOrder /\ AnswersInOrder /\ TasksInOrder /\ SeeksInOrder /\ TypeOK
    /\ toServer' = r /\ Open /\ Open' /\ dc # "connecting" /\ dc' # "connecting"
    /\ UNCHANGED <<cmds, loop, session, requested, ranges, dc, timers>>
    /\ Asked' = Asked
    /\ \A i, j \in Fragments(r) : i < j => \E d \in Drops(r) : i < d /\ d < j
    /\ \A i \in Fragments(r) :
          /\ Asked > 0
          /\ IF Dropped(r, i) THEN r[i].start > Asked + Margin ELSE r[i].start = Asked
    /\ loop.pc \in {"seek", "playFrom"} => \A i \in Fragments(r) : Dropped(r, i)
    /\ \A i \in Fragments(r) :
          (1 \in Fragments(toServer) => \E d \in Drops(r) : d < i)
    /\ \A s : Precedes(s) => \A i \in Fragments(r) : r[i].start > s + Margin

LEMMA ServedChain ==
    ASSUME ChainInv, NEW types, Serve(types)
    PROVE  /\ ServedInOrder(Tail(toServer)) /\ toServer # <<>>
           /\ toServer[1].type \in types
<1> DEFINE q == toServer
           r == Tail(toServer)
<1>1. /\ toServer # <<>> /\ toServer' = r /\ Head(toServer).type \in types
      /\ UNCHANGED <<cmds, loop, session, requested, ranges, dc, timers>>
  BY DEF Serve, commandVars
<1>2. Open /\ dc # "connecting"
  BY <1>1 DEF ChainInv, Open
<1>3. RequestsInOrder /\ AnswersInOrder /\ TasksInOrder /\ SeeksInOrder /\ TypeOK
  BY <1>2 DEF ChainInv
<1>4. /\ Head(q) = q[1]
      /\ \A i \in Fragments(r) : i \in Nat /\ i > 0 /\ i + 1 \in Fragments(q) /\ r[i] = q[i + 1]
      /\ \A i \in Drops(r) : i \in Nat /\ i > 0 /\ i + 1 \in Drops(q)
      /\ \A i \in Drops(q) : i \in Nat /\ i > 0 /\ (i > 1 => i - 1 \in Drops(r))
  BY <1>1, <1>3, ChainTypes, RequestTaken
<1> HIDE DEF r
<1>5. Asked' = Asked
  BY <1>1 DEF Asked
<1>6. ASSUME NEW i \in Nat, NEW j \in Nat, i + 1 \in Fragments(q), j + 1 \in Fragments(q), i < j
      PROVE  \E d \in Drops(r) : i < d /\ d < j
  <2>1. PICK d \in Drops(q) : i + 1 < d /\ d < j + 1
    BY <1>3, <1>6 DEF RequestsInOrder
  <2>2. d \in Nat /\ d - 1 \in Drops(r)
    BY <1>4, <1>6, <2>1
  <2>3. i < d - 1 /\ d - 1 < j
    BY <1>6, <2>1, <2>2
  <2>4. QED
    BY <2>2, <2>3
<1>7. \A i, j \in Fragments(r) : i < j => \E d \in Drops(r) : i < d /\ d < j
  BY <1>4, <1>6
<1>8. \A i \in Fragments(r) : Dropped(r, i) <=> Dropped(q, i + 1)
  <2> SUFFICES ASSUME NEW i \in Fragments(r)
               PROVE  Dropped(r, i) <=> Dropped(q, i + 1)
    OBVIOUS
  <2>1. i \in Nat
    BY <1>4
  <2>2. ASSUME Dropped(r, i) PROVE Dropped(q, i + 1)
    <3>1. PICK d \in Drops(r) : d > i
      BY <2>2 DEF Dropped
    <3>2. d \in Nat /\ d + 1 \in Drops(q) /\ d + 1 > i + 1
      BY <1>4, <2>1, <3>1
    <3>3. QED
      BY <3>2 DEF Dropped
  <2>3. ASSUME Dropped(q, i + 1) PROVE Dropped(r, i)
    <3>1. PICK d \in Drops(q) : d > i + 1
      BY <2>3 DEF Dropped
    <3>2. d \in Nat /\ d - 1 \in Drops(r) /\ d - 1 > i
      BY <1>4, <2>1, <3>1
    <3>3. QED
      BY <3>2 DEF Dropped
  <2>4. QED
    BY <2>2, <2>3
<1>9. \A i \in Fragments(r) :
         /\ Asked > 0
         /\ IF Dropped(r, i) THEN r[i].start > Asked + Margin ELSE r[i].start = Asked
  BY <1>3, <1>4, <1>8 DEF RequestsInOrder
<1>10. loop.pc \in {"seek", "playFrom"} => \A i \in Fragments(r) : Dropped(r, i)
  BY <1>3, <1>4, <1>8 DEF RequestsInOrder
<1>11. ASSUME NEW i \in Fragments(r), 1 \in Fragments(toServer)
       PROVE  \E d \in Drops(r) : d < i
  BY <1>4, <1>6, <1>11
<1>12. ASSUME NEW s, Precedes(s)
       PROVE  \A i \in Fragments(r) : r[i].start > s + Margin
  BY <1>4, <1>12 DEF Precedes
<1>13. QED
  BY <1>1, <1>2, <1>3, <1>4, <1>5, <1>7, <1>9, <1>10, <1>11, <1>12 DEF r, Open, ServedInOrder

(* The request served first is the only one that is not dropped, or it is  *)
(* stale; its content continues the buffer.                                *)
LEMMA ServeFragmentChain ==
    ASSUME ChainInv, TypeOK', ServeFragment
    PROVE  ChainInv'
<1> DEFINE q == toServer
           r == Tail(toServer)
           st == Head(toServer).start
           f == Interval(st, Least(st + Fragment, ArchiveEnd))
           a == Reply("archive_fragment", f)
<1>1. Serve({"get_archive_fragment"})
  BY DEF ServeFragment
<1>2. ServedInOrder(r) /\ q # <<>> /\ q[1].type = "get_archive_fragment"
  BY <1>1, ServedChain
<1>3. /\ 1 \in Fragments(q) /\ 1 \notin Drops(q) /\ Head(q) = q[1]
      /\ \A i \in Fragments(r) : i \in Nat /\ i > 0 /\ i + 1 \in Fragments(q)
      /\ \A i \in Drops(r) : i \in Nat /\ i > 0 /\ i + 1 \in Drops(q)
      /\ \A i \in Drops(q) : i \in Nat /\ i > 0 /\ (i > 1 => i - 1 \in Drops(r))
  BY <1>2, ChainTypes, RequestTaken DEF ServedInOrder
<1>4. /\ st = q[1].start /\ st \in Nat
      /\ f.start = st /\ f.end = Least(st + Fragment, ArchiveEnd)
      /\ a.type = "archive_fragment" /\ a.start = st /\ a.end = f.end
  BY <1>2, <1>3, ChainTypes DEF Interval, Reply, ServedInOrder
<1>5. \/ /\ st < ArchiveEnd /\ buffer' = Append(buffer, f) /\ toClient' = Append(toClient, a)
      \/ buffer' = buffer /\ toClient' = Append(toClient, Reply("error", Unset))
  BY DEF ServeFragment
<1> HIDE DEF q, r, f, a, st
<1> USE DEF ServedInOrder
<1>6. Asked > 0 /\ (IF Dropped(q, 1) THEN st > Asked + Margin ELSE st = Asked) /\ Joins(st)
  BY <1>2, <1>3, <1>4 DEF RequestsInOrder, q
<1>between. \A i \in Fragments(r) : \E d \in Drops(r) : d < i
  BY <1>2, <1>3 DEF q
<1>7. Dropped(q, 1) \/ (Fragments(r) = {} /\ Drops(r) = {})
  <2>1. Drops(r) # {} => Dropped(q, 1)
    BY <1>3 DEF Dropped
  <2>2. QED
    BY <1>between, <2>1
<1>8. loop.pc \in {"seek", "playFrom"} => Dropped(q, 1) /\ Drops(r) # {}
  BY <1>2, <1>3 DEF RequestsInOrder, Dropped, q
<1>9. \A k \in Answers(toClient) : /\ toClient[k].start > Asked + Margin
                                   /\ toClient[k].start < toClient[k].end
  BY <1>2, <1>3 DEF AnswersInOrder, q
<1>10. \A t \in Timers : ~LiveTask(t)
  BY <1>2, <1>3 DEF TasksInOrder, q
<1>11. RequestsInOrder'
  <2>1. \A i \in Fragments(r) : ~(\A d \in Drops(r) : d > i)
    BY <1>3, <1>between
  <2>2. QED
    BY <1>2, <1>8, <2>1 DEF RequestsInOrder
<1>12. /\ TasksInOrder'
  BY <1>2, <1>10 DEF TasksInOrder, LiveTask
<1>13. toClient \in Seq(Replies) /\ buffer \in Seq(Intervals) /\ Margin \in Nat /\ Asked \in Nat
  BY <1>2, ChainTypes
<1>14. CASE buffer' = buffer /\ toClient' = Append(toClient, Reply("error", Unset))
  <2>1. Reply("error", Unset) \in Replies /\ Reply("error", Unset).type # "archive_fragment"
    BY UnsetType DEF Reply, Replies, Intervals
  <2>2. /\ Answers(toClient') = Answers(toClient)
        /\ \A i \in Answers(toClient) : toClient'[i] = toClient[i]
    <3> DEFINE e == Reply("error", Unset)
               n == Len(toClient) + 1
               u == Append(toClient, e)
    <3>1. /\ Answers(u) = Answers(toClient) \cup {}
          /\ \A i \in Answers(toClient) : u[i] = toClient[i]
      BY <1>13, <2>1, AnswerAppended
    <3> HIDE DEF u
    <3>2. QED
      BY <1>14, <3>1 DEF u
  <2>3. AnswersInOrder'
    BY <1>2, <1>6, <1>9, <2>2 DEF AnswersInOrder
  <2>4. \A s : Precedes(s) => Precedes(s)'
    BY <1>2, <2>2 DEF Precedes
  <2>5. SeeksInOrder'
    BY <1>2, <2>4 DEF SeeksInOrder
  <2>6. BufferContiguous'
    BY <1>14 DEF ChainInv, BufferContiguous
  <2>7. QED
    BY <1>2, <1>11, <1>12, <2>3, <2>5, <2>6 DEF ChainInv
<1>15. CASE st < ArchiveEnd /\ buffer' = Append(buffer, f) /\ toClient' = Append(toClient, a)
  <2> DEFINE n == Len(toClient) + 1
  <2>1. /\ ArchiveEnd \in Nat /\ Fragment \in Nat /\ Fragment > 0
    BY FragmentAssumption, ArchiveAssumption
  <2>2. st < f.end /\ f.end \in Times /\ st \in Times
    BY <1>4, <1>15, <2>1 DEF Least, Times
  <2>3. a \in Replies /\ f \in Intervals
    BY <2>2, <1>4 DEF a, f, Reply, Replies, Interval, Intervals
  <2>4. /\ n \in Nat /\ toClient'[n] = a
        /\ Answers(toClient') = Answers(toClient) \cup {n}
        /\ \A i \in Answers(toClient) : i \in Nat /\ i < n /\ toClient'[i] = toClient[i]
    <3> DEFINE u == Append(toClient, a)
    <3>1. /\ n \in Nat /\ u[n] = a
          /\ Answers(u) = Answers(toClient) \cup {n}
          /\ \A i \in Answers(toClient) : i \in Nat /\ i < n /\ u[i] = toClient[i]
      BY <1>4, <1>13, <2>3, AnswerAppended
    <3> HIDE DEF u, n
    <3>2. QED
      BY <1>15, <3>1 DEF u
  <2>5. /\ Len(buffer') = Len(buffer) + 1 /\ buffer'[Len(buffer')] = f /\ Len(buffer) \in Nat
        /\ \A i \in 1 .. Len(buffer) : buffer'[i] = buffer[i]
        /\ buffer = <<>> => Len(buffer) = 0
    BY <1>13, <1>15, <2>3
  <2> HIDE DEF n
  <2>6. BufferContiguous'
    <3> SUFFICES ASSUME NEW i \in 1 .. (Len(buffer') - 1)
                 PROVE  buffer'[i].end = buffer'[i + 1].start
      BY DEF BufferContiguous
    <3>1. i \in 1 .. Len(buffer) /\ buffer'[i] = buffer[i]
      BY <2>5
    <3>2. CASE i = Len(buffer)
      BY <1>4, <1>6, <2>5, <3>1, <3>2 DEF Joins
    <3>3. CASE i # Len(buffer)
      <4>1. i + 1 \in 1 .. Len(buffer) /\ i \in 1 .. (Len(buffer) - 1)
        BY <2>5, <3>1, <3>3
      <4>2. QED
        BY <2>5, <3>1, <4>1 DEF ChainInv, BufferContiguous
    <3>4. QED
      BY <3>2, <3>3
  <2>7. AnswersInOrder'
    <3> SUFFICES ASSUME NEW k \in Answers(toClient')
                 PROVE  /\ Asked > 0
                        /\ toClient'[k].start < toClient'[k].end
                        /\ \/ toClient'[k].start > Asked + Margin
                           \/ /\ toClient'[k].start = Asked
                              /\ Fragments(toServer') = {} /\ Drops(toServer') = {}
                              /\ Joins(toClient[k].end)'
                              /\ \A l \in Answers(toClient') : l <= k
                              /\ \A l \in Answers(toClient') :
                                    l < k => toClient'[l].start > Asked + Margin
                              /\ \A t \in Timers : ~LiveTask(t)'
                              /\ loop'.pc \notin {"seek", "playFrom"}
      BY <1>2 DEF AnswersInOrder
    <3>1. CASE k \in Answers(toClient)
      BY <1>6, <1>9, <2>4, <3>1
    <3>2. CASE k = n
      <4>1. toClient'[k].start = st /\ toClient'[k].end = f.end /\ st < f.end
        BY <1>4, <2>2, <2>4, <3>2
      <4>2. CASE Dropped(q, 1)
        BY <1>6, <4>1, <4>2
      <4>3. CASE ~Dropped(q, 1)
        <5>1. st = Asked /\ Fragments(r) = {} /\ Drops(r) = {}
          BY <1>6, <1>7, <4>3
        <5>2. Joins(toClient[k].end)'
          BY <2>5, <4>1 DEF Joins
        <5>3. ASSUME NEW l \in Answers(toClient')
              PROVE  l <= k /\ (l < k => toClient'[l].start > Asked + Margin)
          <6>1. CASE l = n
            BY <2>4, <3>2, <6>1
          <6>2. CASE l \in Answers(toClient)
            <7>1. l \in Nat /\ l < n /\ toClient'[l] = toClient[l] /\ n \in Nat
              BY <2>4, <6>2
            <7>2. QED
              BY <1>9, <3>2, <6>2, <7>1
          <6>3. QED
            BY <2>4, <6>1, <6>2
        <5>4. \A t \in Timers : ~LiveTask(t)'
          BY <1>2, <1>10 DEF LiveTask
        <5>5. loop'.pc \notin {"seek", "playFrom"}
          BY <1>2, <1>8, <4>3
        <5>6. QED
          BY <1>2, <1>6, <4>1, <5>1, <5>2, <5>3, <5>4, <5>5
      <4>4. QED
        BY <4>2, <4>3
    <3>3. QED
      BY <2>4, <3>1, <3>2
  <2>8. ASSUME NEW s, Precedes(s)
        PROVE  Precedes(s)'
    <3>1. st > s + Margin
      BY <1>3, <1>4, <2>8 DEF Precedes, q
    <3>2. \A k \in Answers(toClient') : toClient'[k].start > s + Margin
      BY <1>4, <2>4, <2>8, <3>1 DEF Precedes
    <3>3. QED
      BY <1>2, <2>8, <3>2 DEF Precedes
  <2>9. SeeksInOrder'
    BY <1>2, <2>8 DEF SeeksInOrder
  <2>10. QED
    BY <1>2, <1>11, <1>12, <2>6, <2>7, <2>9 DEF ChainInv
<1>16. QED
  BY <1>5, <1>14, <1>15

(* drop_buffer empties the buffer.                                         *)
LEMMA ServeDropChain ==
    ASSUME ChainInv, TypeOK', ServeDrop
    PROVE  ChainInv'
<1> DEFINE r == Tail(toServer)
<1>1. /\ Serve({"drop_buffer"}) /\ buffer' = <<>> /\ toClient' = toClient
  BY DEF ServeDrop
<1>2. ServedInOrder(r) /\ toServer # <<>> /\ toServer[1].type = "drop_buffer"
  BY <1>1, ServedChain
<1>3. 1 \in Drops(toServer)
  BY <1>2, ChainTypes, RequestTaken DEF ServedInOrder
<1> HIDE DEF r
<1> USE DEF ServedInOrder
<1>4. RequestsInOrder'
  BY <1>1, <1>2 DEF RequestsInOrder, Joins
<1>5. AnswersInOrder'
  BY <1>1, <1>2, <1>3 DEF AnswersInOrder
<1>6. TasksInOrder'
  BY <1>2, <1>3 DEF TasksInOrder, LiveTask
<1>7. \A s : Precedes(s) => Precedes(s)'
  BY <1>1, <1>2 DEF Precedes
<1>8. SeeksInOrder'
  BY <1>2, <1>7 DEF SeeksInOrder
<1>9. BufferContiguous'
  BY <1>1 DEF BufferContiguous
<1>10. QED
  BY <1>2, <1>4, <1>5, <1>6, <1>8, <1>9 DEF ChainInv

(* The other requests leave the buffer as it is.                           *)
LEMMA ServeOtherChain ==
    ASSUME ChainInv, TypeOK', ServeRanges \/ ServePlay \/ ServeSpeed
    PROVE  ChainInv'
<1> DEFINE q == toServer
           r == Tail(toServer)
           types == {"get_ranges", "play_stream", "stop_stream", "set_speed"}
           e == Reply("ranges", Unset)
<1>1. /\ Serve(types) /\ buffer' = buffer
      /\ toClient' = toClient \/ toClient' = Append(toClient, e)
  BY DEF ServeRanges, ServePlay, ServeSpeed, Serve, serverVars
<1>2. ServedInOrder(r) /\ q # <<>> /\ q[1].type \in types
  BY <1>1, ServedChain
<1>3. /\ 1 \notin Fragments(q) /\ 1 \notin Drops(q)
      /\ \A i \in Fragments(r) : i \in Nat /\ i > 0 /\ i + 1 \in Fragments(q) /\ r[i] = q[i + 1]
      /\ \A i \in Drops(r) : i \in Nat /\ i > 0 /\ i + 1 \in Drops(q)
      /\ \A i \in Drops(q) : i \in Nat /\ i > 0 /\ (i > 1 => i - 1 \in Drops(r))
  BY <1>2, ChainTypes, RequestTaken DEF ServedInOrder
<1>4. toClient \in Seq(Replies)
  BY <1>2, ChainTypes DEF ServedInOrder
<1> HIDE DEF r, q, types
<1> USE DEF ServedInOrder
<1>5. /\ Answers(toClient') = Answers(toClient)
      /\ \A i \in Answers(toClient) : toClient'[i] = toClient[i]
  <2>1. e \in Replies /\ e.type # "archive_fragment"
    BY UnsetType DEF Reply, Replies, Intervals
  <2> DEFINE n == Len(toClient) + 1
             u == Append(toClient, e)
  <2>2. /\ Answers(u) = Answers(toClient) \cup {}
        /\ \A i \in Answers(toClient) : u[i] = toClient[i]
    BY <1>4, <2>1, AnswerAppended
  <2> HIDE DEF u
  <2>3. QED
    BY <1>1, <2>2 DEF u
<1>6. /\ Drops(r) = {} <=> Drops(q) = {}
      /\ Fragments(q) = {} => Fragments(r) = {}
  <2>1. \A d \in Drops(q) : d > 1
    BY <1>3
  <2>2. QED
    BY <1>3, <2>1
<1>7. RequestsInOrder'
  <2>1. ASSUME NEW i \in Fragments(r), \A d \in Drops(r) : d > i
        PROVE  Joins(r[i].start)
    <3>1. \A d \in Drops(q) : d > i + 1
      <4> SUFFICES ASSUME NEW d \in Drops(q) PROVE d > i + 1
        OBVIOUS
      <4>1. d \in Nat /\ d # 1 /\ d > 0 /\ i \in Nat
        BY <1>3
      <4>2. d - 1 \in Drops(r)
        BY <1>3, <4>1
      <4>3. d - 1 > i
        BY <2>1, <4>2
      <4>4. QED
        BY <4>1, <4>3
    <3>2. i + 1 \in Fragments(q) /\ r[i] = q[i + 1]
      BY <1>3
    <3>3. RequestsInOrder
      BY <1>2
    <3>4. QED
      BY <3>1, <3>2, <3>3 DEF RequestsInOrder, q
  <2>2. \A u : Joins(u)' = Joins(u)
    BY <1>1 DEF Joins
  <2>3. loop.pc \in {"seek", "playFrom"} => (Drops(q) = {} => buffer = <<>>)
    BY <1>2 DEF RequestsInOrder, q
  <2>4. QED
    BY <1>1, <1>2, <1>6, <2>1, <2>2, <2>3 DEF RequestsInOrder
<1>8. AnswersInOrder'
  BY <1>1, <1>2, <1>5, <1>6 DEF AnswersInOrder, Joins, LiveTask, q
<1>9. TasksInOrder'
  BY <1>1, <1>2, <1>5, <1>6 DEF TasksInOrder, Joins, LiveTask, q
<1>10. \A s : Precedes(s) => Precedes(s)'
  BY <1>2, <1>5 DEF Precedes
<1>11. SeeksInOrder'
  BY <1>2, <1>10 DEF SeeksInOrder
<1>12. BufferContiguous'
  BY <1>1 DEF ChainInv, BufferContiguous
<1>13. QED
  BY <1>2, <1>7, <1>8, <1>9, <1>11, <1>12 DEF ChainInv

(* Content leaves the buffer at its start.                                 *)
LEMMA StreamChain ==
    ASSUME ChainInv, TypeOK', StreamUnit
    PROVE  ChainInv'
<1> DEFINE f == Head(buffer)
           g == Interval(f.start + 1, f.end)
           b == Tail(buffer)
<1>1. /\ buffer # <<>>
      /\ buffer' = <<g>> \o b \/ buffer' = b
      /\ UNCHANGED <<cmds, loop, toServer, toClient, session, requested, ranges, dc, timers>>
  BY DEF StreamUnit, CanStream, commandVars, channelVars
<1>2. Open /\ dc # "connecting" /\ RequestsInOrder /\ AnswersInOrder /\ TasksInOrder
      /\ SeeksInOrder /\ BufferContiguous /\ TypeOK
  BY <1>1 DEF ChainInv, Open
<1>3. Asked' = Asked
  BY <1>1 DEF Asked
<1>4. /\ Len(buffer) \in Nat \ {0} /\ Len(b) = Len(buffer) - 1 /\ f = buffer[1]
      /\ \A i \in 1 .. Len(b) : b[i] = buffer[i + 1]
      /\ b \in Seq(Intervals)
      /\ b # <<>> => Len(b) > 0
  <2>1. buffer \in Seq(Intervals)
    BY <1>2 DEF TypeOK
  <2>2. QED
    BY <1>1, <2>1
<1>5. g.end = f.end
  BY DEF Interval
<1>6. /\ Len(<<g>> \o b) = Len(buffer) /\ (<<g>> \o b)[1] = g
      /\ \A i \in 2 .. Len(buffer) : (<<g>> \o b)[i] = b[i - 1]
  <2> HIDE DEF g, b
  <2>1. QED
    BY <1>4
<1> HIDE DEF g, b, f
<1>7. CASE buffer' = b
  <2>1. BufferContiguous'
    BY <1>2, <1>4, <1>7 DEF BufferContiguous
  <2>2. buffer' # <<>> => buffer'[Len(buffer')].end = buffer[Len(buffer)].end
    BY <1>4, <1>7
  <2>3. QED
    BY <1>1, <1>2, <1>3, <2>1, <2>2
       DEF ChainInv, Open, RequestsInOrder, AnswersInOrder, TasksInOrder, SeeksInOrder,
           Precedes, Joins, LiveTask
<1>8. CASE buffer' = <<g>> \o b
  <2>1. /\ Len(buffer') = Len(buffer) /\ buffer'[1] = g
        /\ \A i \in 2 .. Len(buffer) : buffer'[i] = buffer[i]
    BY <1>4, <1>6, <1>8
  <2>2. BufferContiguous'
    BY <1>2, <1>4, <1>5, <2>1 DEF BufferContiguous
  <2>3. buffer'[Len(buffer')].end = buffer[Len(buffer)].end
    BY <1>4, <1>5, <2>1
  <2>4. QED
    BY <1>1, <1>2, <1>3, <2>2, <2>3
       DEF ChainInv, Open, RequestsInOrder, AnswersInOrder, TasksInOrder, SeeksInOrder,
           Precedes, Joins, LiveTask
<1>9. QED
  BY <1>1, <1>7, <1>8

-----------------------------------------------------------------------------
(* Messages.                                                               *)

(* A message is taken and no task is started.                              *)
LEMMA AnswerGone ==
    ASSUME ChainInv, TypeOK', toClient # <<>>, toClient' = Tail(toClient),
           loop.pc = "idle", ranges' \in BOOLEAN,
           UNCHANGED <<cmds, loop, session, requested, dc, toServer, buffer, timers>>
    PROVE  ChainInv'
<1> DEFINE r == Tail(toClient)
<1>1. dc # "connecting" /\ TypeOK
  BY DEF ChainInv, BeforeOpen
<1>2. \A k \in Answers(r) : k \in Nat /\ k > 0 /\ k + 1 \in Answers(toClient)
                            /\ r[k] = toClient[k + 1]
  BY <1>1, ChainTypes, AnswerTaken
<1> HIDE DEF r
<1>3. Asked' = Asked
  BY DEF Asked
<1>4. BufferContiguous'
  BY DEF ChainInv, BufferContiguous
<1>5. CASE Open
  <2>1. RequestsInOrder /\ AnswersInOrder /\ TasksInOrder /\ SeeksInOrder
    BY <1>5 DEF ChainInv
  <2>2. RequestsInOrder'
    BY <1>3, <2>1 DEF RequestsInOrder, Joins
  <2>3. AnswersInOrder'
    <3> SUFFICES ASSUME NEW k \in Answers(r)
                 PROVE  /\ Asked > 0
                        /\ r[k].start < r[k].end
                        /\ \/ r[k].start > Asked + Margin
                           \/ /\ r[k].start = Asked
                              /\ Fragments(toServer) = {} /\ Drops(toServer) = {}
                              /\ Joins(r[k].end)
                              /\ \A l \in Answers(r) : l <= k
                              /\ \A l \in Answers(r) : l < k => r[l].start > Asked + Margin
                              /\ \A t \in Timers : ~LiveTask(t)
                              /\ loop.pc \notin {"seek", "playFrom"}
      BY <1>3 DEF AnswersInOrder, r, Joins, LiveTask
    <3>1. k \in Nat /\ k + 1 \in Answers(toClient) /\ r[k] = toClient[k + 1]
      BY <1>2
    <3>2. \A l \in Answers(r) : l + 1 <= k + 1 => l <= k
      BY <1>2, <3>1
    <3>3. \A l \in Answers(r) : l < k => l + 1 < k + 1
      BY <1>2, <3>1
    <3>4. QED
      BY <1>2, <2>1, <3>1, <3>2, <3>3 DEF AnswersInOrder
  <2>4. TasksInOrder'
    <3>1. Answers(toClient) = {} => Answers(r) = {}
      BY <1>2
    <3>2. QED
      BY <2>1, <3>1 DEF TasksInOrder, LiveTask, Joins, r
  <2>5. \A s : Precedes(s) => Precedes(s)'
    BY <1>2 DEF Precedes, r
  <2>6. SeeksInOrder'
    BY <2>1, <2>5 DEF SeeksInOrder
  <2>7. QED
    BY <1>1, <1>4, <1>5, <2>2, <2>3, <2>4, <2>6 DEF ChainInv, Open
<1>6. CASE ~Open
  BY <1>1, <1>4, <1>6 DEF ChainInv, Open
<1>7. QED
  BY <1>5, <1>6

(* An accepted reply is the one to the last request: nothing else is on    *)
(* its way, and the task it starts is the only one of the session.         *)
LEMMA AcceptChain ==
    ASSUME ChainInv, TypeOK', ReceiveFragment, Open,
           IsForCurrentRequest(Interval(Head(toClient).start, Head(toClient).end))
    PROVE  ChainInv'
<1> USE DEF playVars, streamVars, serverVars, channelVars, commandVars
<1> DEFINE q == toClient
           r == Tail(toClient)
           f == Interval(Head(toClient).start, Head(toClient).end)
<1>1. /\ loop.pc = "idle" /\ toClient # <<>> /\ toClient' = r
      /\ Head(toClient).type = "archive_fragment"
      /\ UNCHANGED <<cmds, loop, session, requested, dc, toServer, buffer, ranges>>
      /\ ScheduleNextFragment(f.end)
  BY DEF ReceiveFragment, Receive
<1>2. RequestsInOrder /\ AnswersInOrder /\ TasksInOrder /\ SeeksInOrder /\ TypeOK
  BY DEF ChainInv
<1>3. /\ Head(q) = q[1] /\ 1 \in Answers(q)
      /\ \A k \in Answers(r) : k \in Nat /\ k > 0 /\ k + 1 \in Answers(q) /\ r[k] = q[k + 1]
  BY <1>1, <1>2, ChainTypes, AnswerTaken
<1>4. /\ f.start = q[1].start /\ f.end = q[1].end
      /\ f.start \in Nat /\ f.end \in Nat /\ requested \in Nat /\ Margin \in Nat
  BY <1>2, <1>3, ChainTypes DEF Interval
<1>5. Asked = requested /\ Asked' = Asked
  BY <1>1 DEF Asked
<1> HIDE DEF r, q, f
<1>6. requested > 0 /\ f.start < f.end /\ f.start <= requested + Margin
  BY <1>2, <1>3, <1>4, <1>5 DEF AnswersInOrder, IsForCurrentRequest, f, q
<1>7. /\ Fragments(toServer) = {} /\ Drops(toServer) = {} /\ Joins(f.end)
      /\ \A l \in Answers(q) : l <= 1
      /\ \A t \in Timers : ~LiveTask(t)
  <2>1. ~(q[1].start > Asked + Margin)
    BY <1>4, <1>5, <1>6
  <2>2. QED
    BY <1>2, <1>3, <1>4, <2>1 DEF AnswersInOrder, q
<1>8. Answers(r) = {}
  <2>1. \A k \in Answers(r) : k > 0 /\ k \in Nat /\ k + 1 <= 1
    BY <1>3, <1>7
  <2>2. QED
    BY <2>1
<1>9. PICK slot \in Timers :
         timers[slot].pc = "free" /\
         timers' = [timers EXCEPT ![slot] =
                       [pc |-> "sleep", session |-> session, next |-> f.end,
                        left |-> ContentDelay \div Greatest(speed, 1)]]
  BY <1>1 DEF ScheduleNextFragment
<1>10. /\ timers'[slot].pc = "sleep" /\ timers'[slot].session = session
       /\ timers'[slot].next = f.end
       /\ \A t \in Timers : t # slot => timers'[t] = timers[t]
  BY <1>2, <1>9 DEF TypeOK
<1>11. RequestsInOrder'
  BY <1>1, <1>2, <1>5 DEF RequestsInOrder, Joins
<1>12. AnswersInOrder'
  BY <1>1, <1>8 DEF AnswersInOrder
<1>13. \A t \in Timers : LiveTask(t)' => t = slot
  BY <1>1, <1>7, <1>10 DEF LiveTask
<1>14. TasksInOrder'
  <2>1. session \in Nat
    BY <1>2, ChainTypes
  <2>2. \A t \in Timers : /\ timers'[t].pc \in {"free", "sleep"}
                          /\ timers'[t].session <= session
                          /\ timers'[t].pc # "free" => timers'[t].next > 0
    BY <1>2, <1>4, <1>6, <1>10, <2>1 DEF TasksInOrder
  <2>3. buffer' # <<>> => buffer'[Len(buffer')].end = timers'[slot].next
    BY <1>1, <1>7, <1>10 DEF Joins
  <2>4. QED
    BY <1>1, <1>7, <1>8, <1>13, <2>2, <2>3 DEF TasksInOrder, Joins
<1>15. ASSUME NEW s, Precedes(s), s \in Nat
       PROVE  Precedes(s)'
  <2>1. f.end > s + Margin
    BY <1>3, <1>4, <1>6, <1>15 DEF Precedes, q
  <2>2. QED
    BY <1>1, <1>8, <1>10, <1>15, <2>1 DEF Precedes
<1>16. SeeksInOrder'
  <2>1. \A i \in SeeksQueued(cmds) : cmds[i].arg \in Nat
    BY <1>2, ChainTypes
  <2>2. QED
    BY <1>1, <1>2, <1>15, <2>1 DEF SeeksInOrder
<1>17. BufferContiguous'
  BY <1>1 DEF ChainInv, BufferContiguous
<1>18. QED
  BY <1>1, <1>11, <1>12, <1>14, <1>16, <1>17 DEF ChainInv, Open

LEMMA ReceiveChain ==
    ASSUME ChainInv, TypeOK', ReceiveMessage
    PROVE  ChainInv'
<1> USE DEF playVars, streamVars, serverVars, channelVars, commandVars
<1> DEFINE f == Interval(Head(toClient).start, Head(toClient).end)
<1>1. CASE ReceiveRanges \/ ReceiveError
  <2>1. /\ toClient # <<>> /\ toClient' = Tail(toClient) /\ loop.pc = "idle"
        /\ UNCHANGED <<cmds, loop, session, requested, dc, toServer, buffer, timers>>
    BY <1>1 DEF ReceiveRanges, ReceiveError, Receive
  <2>2. ranges' \in BOOLEAN
    BY DEF TypeOK
  <2>3. QED
    BY <2>1, <2>2, AnswerGone
<1>2. CASE ReceiveFragment /\ ~IsForCurrentRequest(f)
  <2>1. /\ toClient # <<>> /\ toClient' = Tail(toClient) /\ loop.pc = "idle"
        /\ UNCHANGED <<cmds, loop, session, requested, dc, toServer, buffer, timers>>
    BY <1>2 DEF ReceiveFragment, Receive
  <2>2. ranges' \in BOOLEAN
    BY DEF TypeOK
  <2>3. QED
    BY <2>1, <2>2, AnswerGone
<1>3. CASE ReceiveFragment /\ IsForCurrentRequest(f) /\ Open
  BY <1>3, AcceptChain
<1>4. CASE ReceiveFragment /\ ~Open
  <2>1. UNCHANGED <<dc, toServer, buffer>> /\ toClient # <<>>
    BY <1>4 DEF ReceiveFragment, Receive
  <2>2. QED
    BY <1>4, <2>1 DEF ChainInv, BufferContiguous, Open, BeforeOpen
<1>5. QED
  BY <1>1, <1>2, <1>3, <1>4 DEF ReceiveMessage

-----------------------------------------------------------------------------
(* The channel, and the whole.                                             *)

(* Nothing is on its way.                                                  *)
JustOpen ==
    /\ TypeOK /\ Open
    /\ toServer = <<>> /\ toClient = <<>> /\ buffer = <<>>
    /\ requested = 0 /\ loop.target = 0 /\ SeeksQueued(cmds) = {}
    /\ \A t \in Timers : timers[t] = FreeTimer

LEMMA FreshChain == JustOpen => ChainInv
<1> SUFFICES ASSUME JustOpen PROVE ChainInv
  OBVIOUS
<1> USE DEF JustOpen
<1>1. Fragments(toServer) = {} /\ Drops(toServer) = {}
  BY DEF Fragments, Drops
<1>2. Answers(toClient) = {}
  BY DEF Answers
<1>3. loop.pc \notin {"seek", "playFrom"}
  <2>1. 0 \notin Targets
    BY TargetTypes
  <2>2. QED
    BY <2>1 DEF TypeOK, LoopStates
<1>4. session \in Nat
  BY DEF TypeOK
<1>5. RequestsInOrder /\ AnswersInOrder /\ SeeksInOrder
  BY <1>1, <1>2, <1>3 DEF RequestsInOrder, AnswersInOrder, SeeksInOrder
<1>6. TasksInOrder
  BY <1>4 DEF TasksInOrder, LiveTask, FreeTimer
<1>7. BufferContiguous
  BY DEF BufferContiguous
<1>8. QED
  BY <1>5, <1>6, <1>7 DEF ChainInv, Open

(* get_ranges moves no content.                                            *)
LEMMA SendRangesQuietly ==
    ASSUME ChainInv, SendRanges
    PROVE  /\ Open /\ dc' = "open" /\ SameRequests
           /\ UNCHANGED <<cmds, loop, requested, session, timers, toClient, buffer,
                          streaming, credit, received>>
<1>1. /\ Request("get_ranges") \in Requests
      /\ Request("get_ranges").type \notin {"get_archive_fragment", "drop_buffer"}
  BY RequestTypes DEF Request
<1>2. /\ toServer' = Append(toServer, Request("get_ranges")) /\ Open /\ dc' = "open"
      /\ UNCHANGED <<cmds, loop, requested, session, timers, toClient, buffer,
                     streaming, credit, received>>
  BY DEF SendRanges, Sent, Open, streamVars, serverVars, commandVars
<1>3. SameRequests
  BY <1>1, <1>2, SentSame DEF ChainInv
<1>4. QED
  BY <1>2, <1>3

LEMMA ChannelChain ==
    ASSUME ChainInv, TypeOK', OpenChannel \/ SendRanges \/ CloseChannel
    PROVE  ChainInv'
<1> USE DEF playVars, streamVars, serverVars, channelVars, commandVars
<1>1. CASE OpenChannel
  <2>1. /\ dc = "connecting" /\ dc' = "opened"
        /\ UNCHANGED <<cmds, loop, requested, timers, toServer, toClient, buffer>>
    BY <1>1 DEF OpenChannel
  <2>2. BeforeOpen /\ buffer = <<>> /\ toServer = <<>>
    BY <2>1 DEF ChainInv, Open
  <2>3. JustOpen'
    BY <2>1, <2>2 DEF BeforeOpen, Open, JustOpen
  <2>4. QED
    BY <2>3, FreshChain, PTL
<1>2. CASE CloseChannel
  BY <1>2 DEF CloseChannel, ChainInv, Open, BufferContiguous
<1>3. CASE SendRanges
  <2>1. /\ Open /\ dc' = "open" /\ SameRequests
        /\ UNCHANGED <<cmds, loop, requested, session, timers, toClient, buffer>>
    BY <1>3, SendRangesQuietly
  <2>2. RequestsInOrder' /\ AnswersInOrder' /\ TasksInOrder' /\ SeeksInOrder'
    <3>1. Asked' = Asked
      BY <2>1 DEF Asked
    <3>2. QED
      BY <2>1, <3>1, ChainKept, QueueIs, TasksUnchanged DEF ChainInv
  <2>3. QED
    BY <2>1, <2>2 DEF ChainInv, Open, BufferContiguous
<1>4. QED
  BY <1>1, <1>2, <1>3

LEMMA InitChain ==
    ASSUME Init
    PROVE  ChainInv
<1>1. TypeOK
  BY InitType
<1>2. /\ toClient = <<>> /\ buffer = <<>> /\ requested = 0 /\ loop.target = 0 /\ ~ranges
      /\ SeeksQueued(cmds) = {} /\ \A t \in Timers : timers[t] = FreeTimer
  BY DEF Init, IdleLoop, SeeksQueued
<1>3. CASE OpenAtStart
  BY <1>1, <1>2, <1>3, FreshChain DEF Init, Open, JustOpen
<1>4. CASE ~OpenAtStart
  BY <1>1, <1>2, <1>4 DEF Init, ChainInv, BeforeOpen, Open, BufferContiguous
<1>5. QED
  BY <1>3, <1>4

LEMMA StepChain ==
    ASSUME Orderly, ChainInv, TypeOK', [Next]_vars
    PROVE  ChainInv'
<1>1. CASE UserStep
  BY <1>1, UserChain
<1>2. CASE TakeCommand
  BY <1>2, TakeQuietly, TakeSeekChain DEF TakeCommand
<1>3. CASE ContinueCommand
  BY <1>3, ContinueQuietly, RequestTargetChain
<1>4. CASE ReceiveMessage
  BY <1>4, ReceiveChain
<1>5. CASE \E t \in Timers : TaskStep(t)
  BY <1>5, TaskChain
<1>6. CASE OpenChannel \/ SendRanges \/ CloseChannel
  BY <1>6, ChannelChain
<1>7. CASE ServeRequest
  BY <1>7, ServeFragmentChain, ServeDropChain, ServeOtherChain DEF ServeRequest
<1>8. CASE StreamUnit
  BY <1>8, StreamChain
<1>9. CASE Tick
  BY <1>9, TickChain
<1>10. CASE UNCHANGED vars
  BY <1>10, StutterChain
<1>11. QED
  BY <1>1, <1>2, <1>3, <1>4, <1>5, <1>6, <1>7, <1>8, <1>9, <1>10 DEF Next

(* For every archive, margin, fragment length, capacity and number of      *)
(* tasks: if a woken refill task is not interrupted and no seek comes close*)
(* to content on its way, the server's buffer is one uninterrupted stretch.*)
THEOREM ContentContiguous ==
    ASSUME Orderly
    PROVE  Spec => []BufferContiguous
<1>1. Init => ChainInv
  BY InitChain
<1>2. ChainInv /\ TypeOK' /\ [Next]_vars => ChainInv'
  BY StepChain
<1>3. ChainInv => BufferContiguous
  BY DEF ChainInv
<1>4. QED
  BY <1>1, <1>2, <1>3, TypeCorrect, PTL DEF Spec

-----------------------------------------------------------------------------
(* The chain does not break off: as long as the channel is open, something *)
(* is still to come of what was asked for last, unless it was the end.     *)

TokenLives ==
    Asked > 0 =>
        \/ loop.pc \in {"seek", "playFrom"}
        \/ \E i \in Fragments(toServer) : ~Dropped(toServer, i)
        \/ \E k \in Answers(toClient) : toClient[k].start = Asked
        \/ \E t \in Timers : LiveTask(t)
        \/ Asked = ArchiveEnd

(* Nothing is asked for that lies beyond the end of the archive.           *)
WithinArchive ==
    /\ requested <= ArchiveEnd
    /\ \A k \in Answers(toClient) : toClient[k].end <= ArchiveEnd
    /\ \A t \in Timers : timers[t].pc # "free" => timers[t].next <= ArchiveEnd

TokenInv == Open => TokenLives /\ WithinArchive

(* Steps that neither take nor answer a request, nor run a task.           *)
LEMMA TokenFrame ==
    ASSUME TokenInv, Open, SameRequests,
           UNCHANGED <<toClient, session>>, Asked' = Asked,
           requested' = requested \/ requested' \in Targets,
           \A t \in Timers : LiveTask(t) => timers'[t].pc # "free" /\ timers'[t].session = session,
           \A t \in Timers : timers'[t].pc # "free"
                             => timers[t].pc # "free" /\ timers'[t].next = timers[t].next,
           loop.pc \in {"seek", "playFrom"} => loop'.pc \in {"seek", "playFrom"}
    PROVE  TokenInv'
<1>1. TokenLives'
  BY DEF TokenInv, TokenLives, SameRequests, Dropped, LiveTask
<1>2. requested' \in Targets => requested' <= ArchiveEnd
  <2> SUFFICES ASSUME requested' \in Targets PROVE requested' <= ArchiveEnd
    OBVIOUS
  <2>1. requested' \in 1 .. (ArchiveEnd - 1) /\ ArchiveEnd \in Nat
    BY ArchiveAssumption
  <2>2. QED
    BY <2>1
<1>3. WithinArchive'
  BY <1>2 DEF TokenInv, WithinArchive
<1>4. QED
  BY <1>1, <1>3 DEF TokenInv

(* Steps that leave everything the chain consists of alone.                *)
LEMMA TokenSame ==
    ASSUME TokenInv, UNCHANGED <<toServer, toClient, session, requested, timers, dc, loop>>
    PROVE  TokenInv'
BY DEF TokenInv, TokenLives, WithinArchive, Asked, LiveTask, Open

LEMMA TickToken ==
    ASSUME ChainInv, TokenInv, Tick
    PROVE  TokenInv'
<1>1. /\ UNCHANGED <<toServer, toClient, session, requested, dc, loop>>
      /\ timers' = [t \in Timers |-> [timers[t] EXCEPT !.left = Monus(timers[t].left, 1)]]
  BY DEF Tick, playVars, commandVars, channelVars, serverVars
<1>2. \A t \in Timers : /\ timers'[t].pc = timers[t].pc
                        /\ timers'[t].session = timers[t].session
                        /\ timers'[t].next = timers[t].next
  BY <1>1 DEF ChainInv, TypeOK
<1>3. Asked' = Asked
  BY <1>1 DEF Asked
<1>4. CASE Open
  BY <1>1, <1>2, <1>3, <1>4, NothingSent, TokenFrame DEF LiveTask
<1>5. CASE ~Open
  BY <1>1, <1>5 DEF TokenInv, Open
<1>6. QED
  BY <1>4, <1>5

LEMMA TakeToken ==
    ASSUME ChainInv, TokenInv, TypeOK', TakeCommand
    PROVE  TokenInv'
<1> USE DEF playVars, streamVars, serverVars, channelVars, commandVars
<1>1. CASE TakeSeek
  <2>1. /\ loop'.pc \in {"seek", "playFrom"}
        /\ UNCHANGED <<requested, timers, dc, toClient>>
    BY <1>1 DEF TakeSeek
  <2>2. QED
    BY <2>1 DEF TokenInv, TokenLives, WithinArchive, Open
<1>2. CASE TakeGetRanges \/ TakePause \/ TakePlay \/ TakeSetSpeed
  <2>1. PICK m \in Requests : /\ m.type \notin {"get_archive_fragment", "drop_buffer"}
                              /\ toServer' = Sent(m)
    <3>1. CASE TakeGetRanges
      BY <3>1, RequestTypes DEF TakeGetRanges, Request
    <3>2. CASE TakePause
      BY <3>2, RequestTypes DEF TakePause, Request
    <3>3. CASE TakePlay
      BY <3>3, RequestTypes DEF TakePlay, Request
    <3>4. CASE TakeSetSpeed
      <4>1. Head(cmds).arg \in {1, 2, 4, 8}
        BY <3>4, TakeType, InputAssumption
           DEF ChainInv, TakeSetSpeed, CommandTypes, CommandRecords, Seeks
      <4>2. QED
        BY <3>4, <4>1, RequestTypes DEF TakeSetSpeed, SpeedRequest
    <3>5. QED
      BY <1>2, <3>1, <3>2, <3>3, <3>4
  <2>2. UNCHANGED <<toClient, session, requested, dc, timers>>
    BY <1>2 DEF TakeGetRanges, TakePause, TakePlay, TakeSetSpeed
  <2>3. /\ loop.pc = "idle" /\ loop \in LoopStates
        /\ loop' = loop \/ \E pc \in {"pause", "stop", "play"} : loop' = [loop EXCEPT !.pc = pc]
    BY <1>2 DEF TakeGetRanges, TakePause, TakePlay, TakeSetSpeed, Take, At, ChainInv, TypeOK
  <2>4. /\ loop'.pc \in {"idle", "pause", "stop", "play"} /\ loop'.target = loop.target
    BY <2>3 DEF LoopStates
  <2>5. Asked' = Asked
    BY <2>2, <2>3, <2>4 DEF Asked
  <2>6. CASE Open
    BY <2>1, <2>2, <2>3, <2>5, <2>6, SentQuietly, TokenFrame DEF LiveTask
  <2>7. QED
    BY <2>2, <2>6 DEF TokenInv, Open
<1>3. QED
  BY <1>1, <1>2 DEF TakeCommand

LEMMA ContinueToken ==
    ASSUME ChainInv, TokenInv, TypeOK', ContinueCommand
    PROVE  TokenInv'
<1> USE DEF playVars, streamVars, serverVars, channelVars, commandVars, Continue
<1>0. loop \in LoopStates /\ UNCHANGED <<toClient, session, dc, timers>>
  BY DEF ContinueCommand, RequestTarget, FinishSeek, StartPlayFrom, FinishPlayFrom,
         FinishPause, FinishStop, FinishPlay, ChainInv, TypeOK
<1>1. SUFFICES ASSUME Open
               PROVE  TokenInv'
  BY <1>0 DEF TokenInv, Open
<1>2. CASE RequestTarget
  <2> DEFINE m == FragmentRequest(loop.target)
             n == Len(toServer) + 1
             r == Append(toServer, m)
  <2>1. toServer' = r /\ requested' = requested
    BY <1>1, <1>2 DEF RequestTarget, Sent
  <2>2. m \in Requests /\ m.type = "get_archive_fragment" /\ toServer \in Seq(Requests)
    <3>1. loop.target \in Targets
      BY <1>0, <1>2 DEF RequestTarget, LoopStates
    <3>2. loop.target \in Times
      BY <3>1, TargetTypes
    <3>3. QED
      BY <3>2, RequestTypes DEF FragmentRequest, ChainInv, TypeOK
  <2>3. n \in Fragments(r) /\ ~Dropped(r, n)
    <3>1. /\ Fragments(r) = Fragments(toServer) \cup {n} /\ Drops(r) = Drops(toServer) \cup {}
          /\ \A i \in 1 .. Len(toServer) : i \in Int /\ i < n
          /\ Drops(toServer) \subseteq 1 .. Len(toServer) /\ n \in Nat
      BY <2>2, RequestAppended
    <3> HIDE DEF r, n
    <3>2. QED
      BY <3>1 DEF Dropped
  <2> HIDE DEF r, n, m
  <2>4. QED
    BY <1>0, <2>1, <2>3, <1>1 DEF TokenInv, TokenLives, WithinArchive
<1>3. CASE FinishPause \/ FinishStop \/ FinishPlay \/ FinishPlayFrom
  <2>1. loop' = IdleLoop /\ requested' = requested
        /\ loop.pc \in {"pause", "stop", "play", "playFromStarted"}
    BY <1>3 DEF FinishPause, FinishStop, FinishPlay, FinishPlayFrom, Finish
  <2>2. Asked' = Asked
    BY <2>1 DEF Asked, IdleLoop
  <2>3. SameRequests
    <3>1. CASE FinishPlayFrom
      <4>1. SpeedRequest(speed) \in Requests /\ SpeedRequest(speed).type = "set_speed"
        BY RequestTypes DEF ChainInv, TypeOK, SpeedRequest
      <4>2. QED
        BY <1>1, <3>1, <4>1, SentQuietly DEF FinishPlayFrom
    <3>2. CASE FinishPause \/ FinishStop \/ FinishPlay
      BY <3>2, NothingSent DEF FinishPause, FinishStop, FinishPlay
    <3>3. QED
      BY <1>3, <3>1, <3>2
  <2>4. QED
    BY <1>0, <1>1, <2>1, <2>2, <2>3, TokenFrame DEF LiveTask
<1>4. CASE FinishSeek \/ StartPlayFrom
  <2>1. /\ requested' = loop.target /\ loop.pc \in {"seekRequested", "playFromRequested"}
        /\ loop'.pc \in {"idle", "playFromStarted"} /\ loop.target \in Targets
    BY <1>0, <1>4
       DEF FinishSeek, StartPlayFrom, Finish, At, IdleLoop, LoopStates
  <2>2. Asked' = Asked
    BY <2>1 DEF Asked
  <2>3. SameRequests
    <3>1. CASE StartPlayFrom
      BY <1>1, <3>1, RequestTypes, SentQuietly DEF StartPlayFrom, Request
    <3>2. CASE FinishSeek
      BY <3>2, NothingSent DEF FinishSeek
    <3>3. QED
      BY <1>4, <3>1, <3>2
  <2>4. QED
    BY <1>0, <1>1, <2>1, <2>2, <2>3, TokenFrame DEF LiveTask
<1>5. QED
  BY <1>2, <1>3, <1>4 DEF ContinueCommand

(* A task that runs asks for what it waited to ask for.                    *)
LEMMA TaskToken ==
    ASSUME Orderly, ChainInv, TokenInv, TypeOK', NEW t \in Timers, TaskStep(t)
    PROVE  TokenInv'
<1> USE DEF playVars, streamVars, serverVars, channelVars, commandVars
<1>0. UNCHANGED <<loop, session, dc, toClient>>
  BY DEF TaskStep, CancelTask, WakeTask, SendNext, StoreNext, RunTask, TaskFrame
<1>1. SUFFICES ASSUME Open
               PROVE  TokenInv'
  BY <1>0 DEF TokenInv, Open
<1>2. timers \in [Timers -> [pc : {"free", "sleep", "send", "store"},
                             session : Nat, next : Times, left : Nat]]
  BY DEF ChainInv, TypeOK
<1>3. CASE CancelTask(t)
  <2>1. /\ UNCHANGED <<toServer, requested>> /\ timers[t].session # session
        /\ timers' = [timers EXCEPT ![t] = FreeTimer]
    BY <1>3 DEF CancelTask, TaskEnds
  <2>2. timers'[t].pc = "free" /\ \A u \in Timers : u # t => timers'[u] = timers[u]
    BY <1>2, <2>1 DEF FreeTimer
  <2>3. Asked' = Asked
    BY <1>0, <2>1 DEF Asked
  <2>4. QED
    BY <1>0, <1>1, <2>1, <2>2, <2>3, NothingSent, TokenFrame DEF LiveTask
<1>4. CASE RunTask(t)
  <2> DEFINE s == timers[t].next
             m == FragmentRequest(s)
             n == Len(toServer) + 1
             r == Append(toServer, m)
  <2>1. /\ timers[t].pc = "sleep" /\ timers' = [timers EXCEPT ![t] = FreeTimer]
        /\ toServer' = r /\ requested' = s
    BY <1>1, <1>4 DEF RunTask, Expired, TaskEnds, Sent
  <2>2. m \in Requests /\ m.type = "get_archive_fragment" /\ toServer \in Seq(Requests)
    <3>1. s \in Times
      BY <1>2
    <3>2. QED
      BY <3>1, RequestTypes DEF FragmentRequest, ChainInv, TypeOK
  <2>3. n \in Fragments(r) /\ ~Dropped(r, n)
    <3>1. /\ Fragments(r) = Fragments(toServer) \cup {n} /\ Drops(r) = Drops(toServer) \cup {}
          /\ \A i \in 1 .. Len(toServer) : i \in Int /\ i < n
          /\ Drops(toServer) \subseteq 1 .. Len(toServer) /\ n \in Nat
      BY <2>2, RequestAppended
    <3> HIDE DEF r, n
    <3>2. QED
      BY <3>1 DEF Dropped
  <2>4. timers'[t].pc = "free" /\ \A u \in Timers : u # t => timers'[u] = timers[u]
    BY <1>2, <2>1 DEF FreeTimer
  <2> HIDE DEF r, n, m
  <2>5. WithinArchive'
    BY <1>0, <1>1, <2>1, <2>4 DEF TokenInv, WithinArchive
  <2> HIDE DEF s
  <2>6. QED
    BY <1>0, <1>1, <2>1, <2>3, <2>5 DEF TokenInv, TokenLives
<1>5. timers[t].pc \in {"free", "sleep"}
  BY <1>1 DEF ChainInv, TasksInOrder
<1>6. QED
  BY <1>3, <1>4, <1>5 DEF TaskStep, Orderly, WakeTask, SendNext, StoreNext

(* What is left of the queues when their first member is taken.            *)
LEMMA RequestLeft ==
    ASSUME NEW q \in Seq(Requests), q # <<>>, NEW i \in Fragments(q), i # 1, ~Dropped(q, i)
    PROVE  i - 1 \in Fragments(Tail(q)) /\ ~Dropped(Tail(q), i - 1)
<1> DEFINE r == Tail(q)
<1>1. /\ Len(q) \in Nat \ {0} /\ Len(r) = Len(q) - 1
      /\ \A j \in 1 .. Len(r) : r[j] = q[j + 1]
  OBVIOUS
<1> HIDE DEF r
<1>2. i \in 1 .. Len(q) /\ q[i].type = "get_archive_fragment"
  BY DEF Fragments
<1>3. i - 1 \in Fragments(r)
  BY <1>1, <1>2 DEF Fragments
<1>4. \A d \in Drops(r) : d + 1 \in Drops(q) /\ d \in Nat
  BY <1>1 DEF Drops
<1>5. ~Dropped(r, i - 1)
  BY <1>2, <1>4 DEF Dropped
<1>6. QED
  BY <1>3, <1>5 DEF r

LEMMA AnswerLeft ==
    ASSUME NEW q \in Seq(Replies), q # <<>>, NEW k \in Answers(q), k # 1
    PROVE  k - 1 \in Answers(Tail(q)) /\ Tail(q)[k - 1] = q[k]
<1> DEFINE r == Tail(q)
<1>1. /\ Len(q) \in Nat \ {0} /\ Len(r) = Len(q) - 1
      /\ \A j \in 1 .. Len(r) : r[j] = q[j + 1]
  OBVIOUS
<1> HIDE DEF r
<1>2. k \in 1 .. Len(q) /\ q[k].type = "archive_fragment"
  BY DEF Answers
<1>3. k - 1 \in Answers(r) /\ r[k - 1] = q[k]
  BY <1>1, <1>2 DEF Answers
<1>4. QED
  BY <1>3 DEF r

(* A request that is not dropped is the last one, and is answered unless   *)
(* it asks for the end.                                                    *)
LEMMA ServeToken ==
    ASSUME ChainInv, TokenInv, ServeRequest
    PROVE  TokenInv'
<1> DEFINE types == {"get_archive_fragment", "get_ranges", "drop_buffer", "play_stream",
                     "stop_stream", "set_speed"}
           q == toServer
           r == Tail(q)
<1>1. Serve(types)
  BY DEF ServeRequest, ServeFragment, ServeRanges, ServeDrop, ServePlay, ServeSpeed, Serve
<1>2. /\ q # <<>> /\ toServer' = r /\ Head(q) = q[1]
      /\ UNCHANGED <<loop, session, requested, timers, dc>>
      /\ q \in Seq(Requests) /\ toClient \in Seq(Replies)
  <2>1. q \in Seq(Requests) /\ toClient \in Seq(Replies)
    BY ChainTypes DEF ChainInv
  <2>2. QED
    BY <1>1, <2>1 DEF Serve
<1>3. Open /\ RequestsInOrder /\ AnswersInOrder /\ TypeOK
  BY <1>2 DEF ChainInv, Open
<1> HIDE DEF q, r, types
<1>4. Asked' = Asked
  BY <1>2 DEF Asked
<1>5. Asked \in Nat /\ Asked <= ArchiveEnd /\ ArchiveEnd \in Nat /\ Fragment \in Nat
  <2>1. \A t \in Targets : t < ArchiveEnd
    <3> SUFFICES ASSUME NEW t \in Targets PROVE t < ArchiveEnd
      OBVIOUS
    <3>1. t \in 1 .. (ArchiveEnd - 1) /\ ArchiveEnd \in Nat
      BY ArchiveAssumption
    <3>2. QED
      BY <3>1
  <2>2. Asked = requested \/ Asked \in Targets
    BY <1>3 DEF Asked, TypeOK, LoopStates
  <2>3. QED
    BY <1>3, <2>1, <2>2, ChainTypes, ArchiveAssumption, FragmentAssumption
       DEF TokenInv, WithinArchive
<1>6. ASSUME NEW i \in Fragments(q), ~Dropped(q, i), i # 1
      PROVE  \E j \in Fragments(toServer') : ~Dropped(toServer', j)
  BY <1>2, <1>6, RequestLeft DEF r
<1>7. ASSUME UNCHANGED toClient \/ \E m \in Replies : m.type # "archive_fragment"
                                      /\ toClient' = Append(toClient, m),
             1 \notin Fragments(q) \/ Dropped(q, 1) \/ Asked = ArchiveEnd
      PROVE  TokenInv'
  <2>1. /\ Answers(toClient') = Answers(toClient)
        /\ \A k \in Answers(toClient) : toClient'[k] = toClient[k]
    <3>1. CASE UNCHANGED toClient
      BY <3>1
    <3>2. CASE ~UNCHANGED toClient
      <4>1. PICK m \in Replies : m.type # "archive_fragment" /\ toClient' = Append(toClient, m)
        BY <1>7, <3>2
      <4>2. /\ Answers(Append(toClient, m)) = Answers(toClient) \cup {}
            /\ \A k \in Answers(toClient) : Append(toClient, m)[k] = toClient[k]
        BY <1>2, <4>1, AnswerAppended
      <4>3. QED
        BY <4>1, <4>2
    <3>3. QED
      BY <3>1, <3>2
  <2>2. WithinArchive'
    BY <1>2, <1>3, <2>1 DEF TokenInv, WithinArchive
  <2>3. TokenLives'
    BY <1>2, <1>3, <1>4, <1>6, <1>7, <2>1 DEF TokenInv, TokenLives, LiveTask, q
  <2>4. QED
    BY <2>2, <2>3 DEF TokenInv
<1>8. CASE ServeFragment
  <2> DEFINE st == Head(toServer).start
             f == Interval(st, Least(st + Fragment, ArchiveEnd))
             a == Reply("archive_fragment", f)
             n == Len(toClient) + 1
             u == Append(toClient, a)
  <2>1. /\ q[1].type = "get_archive_fragment" /\ st = q[1].start
        /\ \/ st < ArchiveEnd /\ toClient' = u
           \/ ~(st < ArchiveEnd) /\ toClient' = Append(toClient, Reply("error", Unset))
    BY <1>2, <1>8 DEF ServeFragment, Serve, q
  <2>2. 1 \in Fragments(q) /\ st \in Nat /\ st \in Times
    <3>1. 1 \in Fragments(q)
      BY <1>2, <2>1, RequestTaken
    <3>2. q[1] \in Requests
      BY <1>2, <3>1 DEF Fragments
    <3>3. q[1].start \in Times
      BY <2>1, <3>2, UnsetType DEF Requests
    <3>4. QED
      BY <1>3, <2>1, <3>1, <3>3, ChainTypes DEF q
  <2>3. ~Dropped(q, 1) => st = Asked
    BY <1>3, <2>1, <2>2 DEF RequestsInOrder, q
  <2>4. CASE ~(st < ArchiveEnd)
    <3>1. Reply("error", Unset) \in Replies /\ Reply("error", Unset).type # "archive_fragment"
      BY UnsetType DEF Reply, Replies, Intervals
    <3>2. Dropped(q, 1) \/ Asked = ArchiveEnd
      BY <1>5, <2>2, <2>3, <2>4
    <3>3. QED
      BY <1>7, <2>1, <2>4, <3>1, <3>2
  <2>5. CASE st < ArchiveEnd
    <3>1. f.end \in Times /\ f.end <= ArchiveEnd /\ f.start = st
      BY <1>5, <2>2, <2>5 DEF Least, Times, Interval
    <3>2. /\ a \in Replies /\ a.type = "archive_fragment" /\ a.start = st /\ a.end = f.end
      BY <2>2, <3>1 DEF Reply, Replies
    <3> HIDE DEF a
    <3>3. /\ n \in Nat /\ u[n] = a /\ Answers(u) = Answers(toClient) \cup {n}
          /\ \A k \in Answers(toClient) : u[k] = toClient[k]
      BY <1>2, <3>2, AnswerAppended
    <3> HIDE DEF u, n, f, st
    <3>4. toClient' = u
      BY <2>1, <2>5
    <3>5. WithinArchive'
      BY <1>2, <1>3, <3>1, <3>2, <3>3, <3>4 DEF TokenInv, WithinArchive
    <3>6. TokenLives'
      <4>1. CASE Dropped(q, 1)
        <5>1. Asked > 0 =>
                 \/ loop.pc \in {"seek", "playFrom"}
                 \/ \E i \in Fragments(q) : ~Dropped(q, i) /\ i # 1
                 \/ \E k \in Answers(toClient) : toClient[k].start = Asked
                 \/ \E t \in Timers : LiveTask(t)
                 \/ Asked = ArchiveEnd
          BY <1>3, <4>1 DEF TokenInv, TokenLives, q
        <5>2. (\E k \in Answers(toClient) : toClient[k].start = Asked)
              => \E k \in Answers(u) : u[k].start = Asked
          BY <3>3
        <5>3. QED
          BY <1>2, <1>4, <1>6, <3>4, <5>1, <5>2 DEF TokenLives, LiveTask
      <4>2. CASE ~Dropped(q, 1)
        <5>1. n \in Answers(u) /\ u[n].start = Asked
          BY <2>3, <3>2, <3>3, <4>2
        <5>2. QED
          BY <1>4, <3>4, <5>1 DEF TokenLives
      <4>3. QED
        BY <4>1, <4>2
    <3>7. QED
      BY <3>5, <3>6 DEF TokenInv
  <2>6. QED
    BY <2>4, <2>5
<1>9. CASE ServeRanges \/ ServeDrop \/ ServePlay \/ ServeSpeed
  <2>1. /\ q[1].type # "get_archive_fragment"
        /\ UNCHANGED toClient \/ toClient' = Append(toClient, Reply("ranges", Unset))
    BY <1>2, <1>9 DEF ServeRanges, ServeDrop, ServePlay, ServeSpeed, Serve, serverVars, q
  <2>2. Reply("ranges", Unset) \in Replies /\ Reply("ranges", Unset).type # "archive_fragment"
    BY UnsetType DEF Reply, Replies, Intervals
  <2>3. 1 \notin Fragments(q)
    BY <2>1 DEF Fragments
  <2>4. QED
    BY <1>7, <2>1, <2>2, <2>3
<1>10. QED
  BY <1>8, <1>9 DEF ServeRequest

(* The reply to the last request is accepted whenever it comes, and a task *)
(* takes over from it.                                                     *)
LEMMA ReceiveToken ==
    ASSUME ChainInv, TokenInv, ReceiveMessage
    PROVE  TokenInv'
<1> USE DEF playVars, streamVars, serverVars, channelVars, commandVars
<1> DEFINE q == toClient
           r == Tail(toClient)
           f == Interval(Head(toClient).start, Head(toClient).end)
<1>1. /\ loop.pc = "idle" /\ q # <<>> /\ toClient' = r
      /\ UNCHANGED <<loop, session, requested, dc, toServer>>
  BY DEF ReceiveMessage, ReceiveRanges, ReceiveError, ReceiveFragment, Receive
<1>2. SUFFICES ASSUME Open
               PROVE  TokenInv'
  BY <1>1 DEF TokenInv, Open
<1>3. RequestsInOrder /\ AnswersInOrder /\ TasksInOrder /\ TypeOK
  BY <1>2 DEF ChainInv
<1>4. /\ q \in Seq(Replies) /\ Head(q) = q[1]
      /\ 1 \in Answers(q) <=> q[1].type = "archive_fragment"
      /\ \A k \in Answers(r) : k \in Nat /\ k > 0 /\ k + 1 \in Answers(q) /\ r[k] = q[k + 1]
  BY <1>1, <1>3, ChainTypes, AnswerTaken
<1>5. Asked = requested /\ Asked' = Asked /\ Asked \in Nat
  BY <1>1, <1>3, ChainTypes DEF Asked
<1> HIDE DEF q, r
<1>6. \A k \in Answers(q) : k # 1 => k - 1 \in Answers(r) /\ r[k - 1] = q[k]
  BY <1>1, <1>4, AnswerLeft DEF r, q
<1>7. \A k \in Answers(r) : r[k].end <= ArchiveEnd
  BY <1>2, <1>4 DEF TokenInv, WithinArchive, q
<1>8. ASSUME UNCHANGED timers, 1 \in Answers(q) => q[1].start # Asked \/ Asked = 0
      PROVE  TokenInv'
  <2>1. WithinArchive'
    BY <1>1, <1>2, <1>7, <1>8 DEF TokenInv, WithinArchive
  <2>2. (\E k \in Answers(q) : q[k].start = Asked) /\ Asked > 0
        => \E k \in Answers(r) : r[k].start = Asked
    BY <1>5, <1>6, <1>8
  <2>3. TokenLives'
    BY <1>1, <1>2, <1>5, <1>8, <2>2 DEF TokenInv, TokenLives, LiveTask, q
  <2>4. QED
    BY <2>1, <2>3 DEF TokenInv
<1>9. CASE ReceiveRanges \/ ReceiveError
  <2>1. UNCHANGED timers /\ q[1].type # "archive_fragment"
    BY <1>4, <1>9 DEF ReceiveRanges, ReceiveError, Receive, q
  <2>2. QED
    BY <1>4, <1>8, <2>1
<1>10. CASE ReceiveFragment /\ ~IsForCurrentRequest(f)
  <2>1. UNCHANGED timers /\ q[1].type = "archive_fragment"
    BY <1>4, <1>10 DEF ReceiveFragment, Receive, q
  <2>2. f.start = q[1].start /\ f.end = q[1].end /\ Margin \in Nat
    BY <1>4, FragmentAssumption DEF Interval, q
  <2>3. q[1].start < q[1].end /\ q[1].start \in Nat /\ q[1].end \in Nat
    BY <1>3, <1>4, <2>1, ChainTypes DEF AnswersInOrder, q
  <2>4. q[1].start # Asked
    BY <1>5, <1>10, <2>2, <2>3 DEF IsForCurrentRequest, Monus
  <2>5. QED
    BY <1>8, <2>1, <2>4
<1>11. CASE ReceiveFragment /\ IsForCurrentRequest(f)
  <2>1. ScheduleNextFragment(f.end) /\ q[1].type = "archive_fragment"
    BY <1>4, <1>11 DEF ReceiveFragment, Receive, q
  <2>2. PICK slot \in Timers :
           timers[slot].pc = "free" /\
           timers' = [timers EXCEPT ![slot] =
                         [pc |-> "sleep", session |-> session, next |-> f.end,
                          left |-> ContentDelay \div Greatest(speed, 1)]]
    BY <2>1 DEF ScheduleNextFragment
  <2>3. /\ timers'[slot].pc = "sleep" /\ timers'[slot].session = session
        /\ timers'[slot].next = f.end
        /\ \A t \in Timers : t # slot => timers'[t] = timers[t]
    BY <1>3, <2>2 DEF TypeOK
  <2>4. LiveTask(slot)'
    BY <1>1, <2>3 DEF LiveTask
  <2>5. f.end <= ArchiveEnd
    <3>1. 1 \in Answers(q) /\ f.end = q[1].end
      BY <1>4, <2>1 DEF Interval, q
    <3>2. QED
      BY <1>2, <3>1 DEF TokenInv, WithinArchive, q
  <2>6. WithinArchive'
    BY <1>1, <1>2, <1>7, <2>3, <2>5 DEF TokenInv, WithinArchive
  <2>7. QED
    BY <2>4, <2>6 DEF TokenInv, TokenLives
<1>12. QED
  BY <1>9, <1>10, <1>11 DEF ReceiveMessage

LEMMA FreshToken ==
    ASSUME requested = 0, loop.target = 0, loop \in LoopStates, toClient = <<>>,
           \A t \in Timers : timers[t] = FreeTimer
    PROVE  TokenInv
<1>1. Asked = 0
  BY DEF Asked
<1>2. Answers(toClient) = {} /\ ArchiveEnd \in Nat
  BY ArchiveAssumption DEF Answers
<1>3. QED
  BY <1>1, <1>2 DEF TokenInv, TokenLives, WithinArchive, FreeTimer

LEMMA ChannelToken ==
    ASSUME ChainInv, TokenInv, TypeOK', OpenChannel \/ SendRanges \/ CloseChannel
    PROVE  TokenInv'
<1> USE DEF playVars, streamVars, serverVars, channelVars, commandVars
<1>1. CASE OpenChannel
  <2>1. dc = "connecting" /\ UNCHANGED <<loop, requested, timers, toClient>>
    BY <1>1 DEF OpenChannel
  <2>2. BeforeOpen
    BY <2>1 DEF ChainInv
  <2> DEFINE Fresh == /\ requested = 0 /\ loop.target = 0 /\ loop \in LoopStates
                      /\ toClient = <<>> /\ \A t \in Timers : timers[t] = FreeTimer
  <2>3. Fresh'
    BY <2>1, <2>2 DEF BeforeOpen, TypeOK
  <2>4. QED
    BY <2>3, FreshToken, PTL
<1>2. CASE CloseChannel
  BY <1>2 DEF CloseChannel, TokenInv, Open
<1>3. CASE SendRanges
  <2>1. /\ Open /\ SameRequests /\ UNCHANGED <<loop, requested, session, timers, toClient>>
    BY <1>3, SendRangesQuietly
  <2>2. Asked' = Asked
    BY <2>1 DEF Asked
  <2>3. QED
    BY <2>1, <2>2, TokenFrame DEF LiveTask
<1>4. QED
  BY <1>1, <1>2, <1>3

LEMMA StepToken ==
    ASSUME Orderly, ChainInv, TokenInv, TypeOK', [Next]_vars
    PROVE  TokenInv'
<1> USE DEF playVars, streamVars, serverVars, channelVars, commandVars
<1>1. CASE UserStep
  BY <1>1, TokenSame DEF UserStep, Issue
<1>2. CASE StreamUnit
  BY <1>2, TokenSame DEF StreamUnit
<1>3. CASE UNCHANGED vars
  BY <1>3, TokenSame DEF vars
<1>4. CASE \E t \in Timers : TaskStep(t)
  BY <1>4, TaskToken
<1>5. QED
  BY <1>1, <1>2, <1>3, <1>4, TakeToken, ContinueToken, ReceiveToken, ServeToken,
     ChannelToken, TickToken DEF Next

(* For every archive, margin, fragment length, capacity and number of      *)
(* tasks: if a woken refill task is not interrupted and no seek comes close*)
(* to content on its way, then an open channel on which nothing is         *)
(* scheduled, asked for or answered any more has been asked for the end.   *)
THEOREM ChainUnbroken ==
    ASSUME Orderly
    PROVE  Spec => []RefillNeverStops
<1>1. Init => ChainInv
  BY InitChain
<1>2. Init => TokenInv
  <2> SUFFICES ASSUME Init PROVE TokenInv
    OBVIOUS
  <2>1. loop \in LoopStates
    BY InitType DEF TypeOK
  <2>2. QED
    BY <2>1, FreshToken DEF Init, IdleLoop
<1>3. ChainInv /\ TypeOK' /\ [Next]_vars => ChainInv'
  BY StepChain
<1>4. ChainInv /\ TokenInv /\ TypeOK' /\ [Next]_vars => TokenInv'
  BY StepToken
<1>5. ChainInv /\ TokenInv => RefillNeverStops
  <2> SUFFICES ASSUME ChainInv, TokenInv, Open, requested # 0, Quiescent
               PROVE  requested = ArchiveEnd
    BY DEF RefillNeverStops
  <2>1. Asked = requested /\ requested \in Nat
    BY ChainTypes DEF ChainInv, Quiescent, Asked
  <2>2. Fragments(toServer) = {} /\ Answers(toClient) = {}
    BY DEF Quiescent, Fragments, Answers
  <2>3. QED
    BY <2>1, <2>2 DEF TokenInv, TokenLives, Quiescent, LiveTask
<1>6. QED
  BY <1>1, <1>2, <1>3, <1>4, <1>5, TypeCorrect, PTL DEF Spec

-----------------------------------------------------------------------------
(* The server never runs dry: what its buffer holds outlasts the wait for  *)
(* the next refill. Buffered is how much that is, in units of content.     *)

Buffered ==
    IF buffer = <<>> THEN 0 ELSE buffer[Len(buffer)].end - buffer[1].start

(* The buffer runs empty only once the last unit has been read.            *)
Exhausted == buffer = <<>> => received = ArchiveEnd - 1

Filled ==
    \A i \in 1 .. Len(buffer) :
        /\ buffer[i].start < buffer[i].end
        /\ buffer[i].start < buffer[Len(buffer)].end

(* A fragment just answered is in the buffer, but for the unit the server  *)
(* may have sent of it since; a task that waits leaves Lead units of it.   *)
AnswersSupplied ==
    \A k \in Answers(toClient) :
        toClient[k].start = Asked =>
            IF toClient[k].end < ArchiveEnd
            THEN Buffered - credit >= Fragment - 1
            ELSE Exhausted

TasksSupplied ==
    \A t \in Timers :
        LiveTask(t) =>
            IF timers[t].next < ArchiveEnd
            THEN Buffered - credit >= timers[t].left + Lead - 1
            ELSE Exhausted

EndSupplied ==
    Asked = ArchiveEnd => Joins(ArchiveEnd) /\ Exhausted /\ Drops(toServer) = {}

Supplied == Filled /\ AnswersSupplied /\ TasksSupplied /\ EndSupplied

(* The speed is the one of the start, everywhere.                          *)
SpeedOne(q) == \A i \in 1 .. Len(q) : q[i].type = "set_speed" => q[i].speed = 1
NoSpeed(q) == \A i \in 1 .. Len(q) : q[i].type # "SetSpeed"

Steady ==
    /\ speed = 1 /\ rate = 1 /\ credit \in {0, 1}
    /\ SpeedOne(toServer) /\ NoSpeed(cmds)

SupplyInv == Steady /\ (streaming => Open) /\ (Open => Supplied)

(* Nobody changes the speed.                                               *)
SteadySpeed == Speeds \subseteq {1} \/ "SetSpeed" \notin Commands

(* Steps that leave the buffer and its reading alone, and start no task and *)
(* answer nothing.                                                         *)
LEMMA SupplyFrame ==
    ASSUME Supplied, UNCHANGED <<buffer, credit, received>>, Asked' = Asked,
           \A k \in Answers(toClient') : \E l \in Answers(toClient) :
               toClient'[k].start = toClient[l].start /\ toClient'[k].end = toClient[l].end,
           \A t \in Timers : LiveTask(t)' =>
               /\ LiveTask(t)
               /\ timers'[t].next = timers[t].next /\ timers'[t].left = timers[t].left,
           Drops(toServer) = {} => Drops(toServer') = {}
    PROVE  Supplied'
<1>1. Buffered' = Buffered /\ Exhausted' = Exhausted /\ Joins(ArchiveEnd)' = Joins(ArchiveEnd)
  BY DEF Buffered, Exhausted, Joins
<1>2. Filled'
  BY DEF Supplied, Filled
<1>3. AnswersSupplied'
  BY <1>1 DEF Supplied, AnswersSupplied
<1>4. TasksSupplied'
  BY <1>1 DEF Supplied, TasksSupplied
<1>5. EndSupplied'
  BY <1>1 DEF Supplied, EndSupplied
<1>6. QED
  BY <1>2, <1>3, <1>4, <1>5 DEF Supplied

LEMMA SpeedOneKept ==
    ASSUME NEW q \in Seq(Requests), SpeedOne(q)
    PROVE  /\ q # <<>> => SpeedOne(Tail(q)) /\ (Head(q).type = "set_speed" => Head(q).speed = 1)
           /\ \A m \in Requests : (m.type = "set_speed" => m.speed = 1) => SpeedOne(Append(q, m))
<1>1. ASSUME q # <<>>
      PROVE  SpeedOne(Tail(q)) /\ (Head(q).type = "set_speed" => Head(q).speed = 1)
  <2> DEFINE r == Tail(q)
  <2>1. /\ Len(q) \in Nat \ {0} /\ Len(r) = Len(q) - 1 /\ Head(q) = q[1]
        /\ \A i \in 1 .. Len(r) : i + 1 \in 1 .. Len(q) /\ r[i] = q[i + 1]
    BY <1>1
  <2> HIDE DEF r
  <2>2. QED
    BY <2>1 DEF SpeedOne, r
<1>2. ASSUME NEW m \in Requests, m.type = "set_speed" => m.speed = 1
      PROVE  SpeedOne(Append(q, m))
  <2> DEFINE r == Append(q, m)
  <2>1. /\ Len(r) = Len(q) + 1 /\ Len(q) \in Nat /\ r[Len(q) + 1] = m
        /\ \A i \in 1 .. Len(q) : r[i] = q[i]
    OBVIOUS
  <2> HIDE DEF r
  <2>2. QED
    BY <1>2, <2>1 DEF SpeedOne, r
<1>3. QED
  BY <1>1, <1>2

LEMMA NoSpeedKept ==
    ASSUME NEW q \in Seq(CommandRecords), NoSpeed(q)
    PROVE  /\ q # <<>> => NoSpeed(Tail(q)) /\ Head(q).type # "SetSpeed"
           /\ \A c \in CommandRecords : c.type # "SetSpeed" => NoSpeed(Append(q, c))
<1>1. ASSUME q # <<>>
      PROVE  NoSpeed(Tail(q)) /\ Head(q).type # "SetSpeed"
  <2> DEFINE r == Tail(q)
  <2>1. /\ Len(q) \in Nat \ {0} /\ Len(r) = Len(q) - 1 /\ Head(q) = q[1]
        /\ \A i \in 1 .. Len(r) : i + 1 \in 1 .. Len(q) /\ r[i] = q[i + 1]
    BY <1>1
  <2> HIDE DEF r
  <2>2. QED
    BY <2>1 DEF NoSpeed, r
<1>2. ASSUME NEW c \in CommandRecords, c.type # "SetSpeed"
      PROVE  NoSpeed(Append(q, c))
  <2> DEFINE r == Append(q, c)
  <2>1. /\ Len(r) = Len(q) + 1 /\ Len(q) \in Nat /\ r[Len(q) + 1] = c
        /\ \A i \in 1 .. Len(q) : r[i] = q[i]
    OBVIOUS
  <2> HIDE DEF r
  <2>2. QED
    BY <1>2, <2>1 DEF NoSpeed, r
<1>3. QED
  BY <1>1, <1>2

LEMMA SteadyStep ==
    ASSUME SteadySpeed, TypeOK, TypeOK', Steady, [Next]_vars
    PROVE  Steady'
<1> USE DEF playVars, streamVars, serverVars, channelVars, commandVars
<1>0. toServer \in Seq(Requests) /\ cmds \in Seq(CommandRecords)
  BY DEF TypeOK
<1>1. CASE UserStep
  <2>1. PICK c \in Issuable : Issue(c)
    BY <1>1 DEF UserStep
  <2>2. c \in CommandRecords
    BY <2>1, CommandType
  <2>3. c.type # "SetSpeed"
    <3>1. c.type \in Commands
      BY <2>1 DEF Issue
    <3>2. ASSUME c.type = "SetSpeed"
          PROVE  c.arg \in Speeds /\ c.arg # speed
      BY <3>2 DEF Issuable
    <3>3. speed = 1
      BY DEF Steady
    <3>4. QED
      BY <3>1, <3>2, <3>3 DEF SteadySpeed
  <2>4. NoSpeed(cmds')
    BY <1>0, <2>1, <2>2, <2>3, NoSpeedKept DEF Steady, Issue
  <2>5. QED
    BY <2>1, <2>3, <2>4 DEF Issue, Steady
<1>2. CASE TakeCommand
  <2>1. cmds # <<>> /\ cmds' = Tail(cmds) /\ Head(cmds).type # "SetSpeed"
    <3>1. cmds # <<>> /\ cmds' = Tail(cmds)
      BY <1>2 DEF TakeCommand, TakeGetRanges, TakeSeek, TakePause, TakePlay, TakeSetSpeed, Take
    <3>2. QED
      BY <1>0, <3>1, NoSpeedKept DEF Steady
  <2>2. \E type \in {"get_ranges", "drop_buffer", "play_stream", "stop_stream"} :
            toServer' = Sent(Request(type))
    BY <1>2, <2>1
       DEF TakeCommand, TakeGetRanges, TakeSeek, TakePause, TakePlay, TakeSetSpeed, Take
  <2>3. SpeedOne(toServer')
    <3>1. \A type \in {"get_ranges", "drop_buffer", "play_stream", "stop_stream"} :
              Request(type) \in Requests /\ Request(type).type # "set_speed"
      BY RequestTypes DEF Request
    <3>2. QED
      BY <1>0, <2>2, <3>1, SpeedOneKept DEF Steady, Sent
  <2>4. UNCHANGED <<speed, rate, credit>>
    BY <1>2, <2>1
       DEF TakeCommand, TakeGetRanges, TakeSeek, TakePause, TakePlay, TakeSetSpeed, Take
  <2>5. QED
    BY <1>0, <2>1, <2>3, <2>4, NoSpeedKept DEF Steady
<1>3. CASE ContinueCommand
  <2>1. UNCHANGED <<cmds, speed, rate, credit>>
    BY <1>3 DEF ContinueCommand, RequestTarget, FinishSeek, StartPlayFrom, FinishPlayFrom,
                FinishPause, FinishStop, FinishPlay, Continue
  <2>2. \/ toServer' = toServer
        \/ toServer' = Sent(FragmentRequest(loop.target)) /\ loop.target \in Times
        \/ toServer' = Sent(Request("play_stream"))
        \/ toServer' = Sent(SpeedRequest(1))
    <3>1. loop.target \in Times
      BY UnsetType, TargetTypes DEF TypeOK, LoopStates
    <3>2. QED
      BY <1>3, <3>1
         DEF ContinueCommand, RequestTarget, FinishSeek, StartPlayFrom, FinishPlayFrom,
             FinishPause, FinishStop, FinishPlay, Continue, Steady
  <2>3. SpeedOne(toServer')
    <3>1. /\ Request("play_stream") \in Requests /\ Request("play_stream").type # "set_speed"
          /\ SpeedRequest(1) \in Requests /\ SpeedRequest(1).speed = 1
      BY RequestTypes DEF Request, SpeedRequest
    <3>2. \A t \in Times : FragmentRequest(t) \in Requests
                           /\ FragmentRequest(t).type # "set_speed"
      BY RequestTypes DEF FragmentRequest
    <3>3. QED
      BY <1>0, <2>2, <3>1, <3>2, SpeedOneKept DEF Steady, Sent
  <2>4. QED
    BY <2>1, <2>3 DEF Steady
<1>4. CASE \E t \in Timers : TaskStep(t)
  <2>1. PICK t \in Timers : TaskStep(t)
    BY <1>4
  <2>2. UNCHANGED <<cmds, speed, rate, credit>>
    BY <2>1 DEF TaskStep, CancelTask, WakeTask, SendNext, StoreNext, RunTask, TaskFrame
  <2>3. toServer' = toServer \/ toServer' = Sent(FragmentRequest(timers[t].next))
    BY <2>1 DEF TaskStep, CancelTask, WakeTask, SendNext, StoreNext, RunTask, TaskFrame
  <2>4. FragmentRequest(timers[t].next) \in Requests
        /\ FragmentRequest(timers[t].next).type # "set_speed"
    BY RequestTypes DEF TypeOK, FragmentRequest
  <2>5. SpeedOne(toServer')
    BY <1>0, <2>3, <2>4, SpeedOneKept DEF Steady, Sent
  <2>6. QED
    BY <2>2, <2>5 DEF Steady
<1>5. CASE OpenChannel \/ SendRanges \/ CloseChannel
  <2>1. UNCHANGED <<cmds, speed, rate, credit>>
    BY <1>5 DEF OpenChannel, SendRanges, CloseChannel
  <2>2. toServer' \in {toServer, <<>>, Append(toServer, Request("get_ranges"))}
    BY <1>5 DEF OpenChannel, SendRanges, CloseChannel, Sent
  <2>3. Request("get_ranges") \in Requests /\ Request("get_ranges").type # "set_speed"
    BY RequestTypes DEF Request
  <2>4. SpeedOne(<<>>)
    BY DEF SpeedOne
  <2>5. SpeedOne(toServer')
    BY <1>0, <2>2, <2>3, <2>4, SpeedOneKept DEF Steady
  <2>6. QED
    BY <2>1, <2>5 DEF Steady
<1>6. CASE ServeRequest
  <2>1. /\ toServer # <<>> /\ toServer' = Tail(toServer) /\ UNCHANGED <<cmds, speed, credit>>
        /\ rate' = rate \/ (Head(toServer).type = "set_speed" /\ rate' = Head(toServer).speed)
    BY <1>6 DEF ServeRequest, ServeFragment, ServeRanges, ServeDrop, ServePlay, ServeSpeed, Serve
  <2>2. QED
    BY <1>0, <2>1, SpeedOneKept DEF Steady
<1>7. CASE ReceiveMessage
  BY <1>7 DEF ReceiveMessage, ReceiveRanges, ReceiveError, ReceiveFragment, Receive,
              Steady
<1>8. CASE StreamUnit
  BY <1>8 DEF StreamUnit, Steady
<1>9. CASE Tick
  BY <1>9 DEF Tick, Steady
<1>10. CASE UNCHANGED vars
  BY <1>10 DEF vars, Steady
<1>11. QED
  BY <1>1, <1>2, <1>3, <1>4, <1>5, <1>6, <1>7, <1>8, <1>9, <1>10 DEF Next

LEMMA InitToken ==
    ASSUME Init
    PROVE  TokenInv
<1>1. loop \in LoopStates
  BY InitType DEF TypeOK
<1>2. QED
  BY <1>1, FreshToken DEF Init, IdleLoop

(* Steps of the user.                                                      *)
LEMMA QuietSupply ==
    ASSUME ChainInv, TypeOK', Supplied, Open,
           UserStep \/ UNCHANGED vars
    PROVE  Supplied'
<1> USE DEF playVars, streamVars, serverVars, channelVars, commandVars
<1>1. UNCHANGED <<buffer, credit, received, toServer, toClient, timers, session, loop, requested>>
  BY DEF UserStep, Issue, vars
<1>2. QED
  BY <1>1, SupplyFrame DEF Asked, LiveTask

(* A seek starts a new session and goes before all that is on its way.     *)
LEMMA TakeSupply ==
    ASSUME ChainInv, TypeOK', Supplied, Open, TakeCommand
    PROVE  Supplied'
<1> USE DEF playVars, streamVars, serverVars, channelVars, commandVars
<1>0. TypeOK /\ toServer \in Seq(Requests) /\ loop.pc = "idle"
  BY DEF ChainInv, TypeOK, TakeCommand, TakeGetRanges, TakeSeek, TakePause, TakePlay,
         TakeSetSpeed, Take
<1>1. CASE TakeSeek
  <2> DEFINE s == Head(cmds).arg
             m == Request("drop_buffer")
  <2>1. /\ cmds # <<>> /\ Head(cmds).type \in Seeks
        /\ loop'.pc \in {"seek", "playFrom"} /\ loop'.target = s /\ session' = session + 1
        /\ UNCHANGED <<toClient, buffer, received, credit, requested, timers>>
    BY <1>1 DEF TakeSeek, Take, Seeks
  <2>2. Asked' = s
    BY <2>1 DEF Asked
  <2>3. 1 \in SeeksQueued(cmds) /\ cmds[1].arg = s /\ s \in Targets
    BY <1>0, <2>1, QueueIs, QueueTaken, ChainTypes
  <2>4. Precedes(s)
    BY <2>3, QueueIs DEF QueueInOrder
  <2>5. s \in Nat /\ s < ArchiveEnd /\ Margin \in Nat
    <3>1. s \in 1 .. (ArchiveEnd - 1) /\ ArchiveEnd \in Nat /\ Margin \in Nat
      BY <2>3, ArchiveAssumption, FragmentAssumption
    <3>2. QED
      BY <3>1
  <2> HIDE DEF s, m
  <2>6. AnswersSupplied'
    <3>1. \A k \in Answers(toClient) : toClient[k].start \in Nat /\ toClient[k].start > s + Margin
      BY <1>0, <2>4, ChainTypes DEF Precedes
    <3>2. QED
      BY <2>1, <2>2, <2>5, <3>1 DEF AnswersSupplied
  <2>7. TasksSupplied'
    <3>1. \A t \in Timers : ~LiveTask(t)'
      BY <1>0, <2>1, ChainTypes DEF ChainInv, TasksInOrder, LiveTask
    <3>2. QED
      BY <3>1 DEF TasksSupplied
  <2>8. Filled'
    BY <2>1 DEF Supplied, Filled
  <2>9. EndSupplied'
    BY <2>2, <2>5 DEF EndSupplied
  <2>10. QED
    BY <2>6, <2>7, <2>8, <2>9 DEF Supplied
<1>2. CASE TakeGetRanges \/ TakePause \/ TakePlay \/ TakeSetSpeed
  <2>1. UNCHANGED <<buffer, credit, received, toClient, timers, session, requested>>
    BY <1>2 DEF TakeGetRanges, TakePause, TakePlay, TakeSetSpeed
  <2>2. Asked' = Asked
    <3>1. loop \in LoopStates
      BY <1>0 DEF TypeOK
    <3>2. \/ loop' = loop
          \/ \E pc \in {"pause", "stop", "play"} : loop' = [loop EXCEPT !.pc = pc]
      BY <1>2 DEF TakeGetRanges, TakePause, TakePlay, TakeSetSpeed, At
    <3>3. QED
      BY <1>0, <2>1, <3>1, <3>2 DEF Asked, LoopStates
  <2>3. Drops(toServer) = {} => Drops(toServer') = {}
    <3>1. PICK m \in Requests : m.type # "drop_buffer" /\ toServer' = Append(toServer, m)
      <4>1. CASE TakeGetRanges
        BY <4>1, RequestTypes DEF TakeGetRanges, Request, Sent
      <4>2. CASE TakePause
        BY <4>2, RequestTypes DEF TakePause, Request, Sent
      <4>3. CASE TakePlay
        BY <4>3, RequestTypes DEF TakePlay, Request, Sent
      <4>4. CASE TakeSetSpeed
        <5>1. Head(cmds).arg \in {1, 2, 4, 8}
          BY <1>0, <4>4, TakeType, InputAssumption
             DEF TakeSetSpeed, CommandTypes, CommandRecords, Seeks
        <5>2. QED
          BY <4>4, <5>1, RequestTypes DEF TakeSetSpeed, SpeedRequest, Sent
      <4>5. QED
        BY <1>2, <4>1, <4>2, <4>3, <4>4
    <3>2. Drops(Append(toServer, m)) = Drops(toServer) \cup {}
      BY <1>0, <3>1, RequestAppended
    <3>3. QED
      BY <3>1, <3>2
  <2>4. QED
    BY <2>1, <2>2, <2>3, SupplyFrame DEF LiveTask
<1>3. QED
  BY <1>1, <1>2 DEF TakeCommand

LEMMA ContinueSupply ==
    ASSUME ChainInv, TypeOK', Supplied, Open, ContinueCommand
    PROVE  Supplied'
<1> USE DEF playVars, streamVars, serverVars, channelVars, commandVars
<1>0. TypeOK /\ toServer \in Seq(Requests) /\ loop \in LoopStates
      /\ UNCHANGED <<buffer, credit, received, toClient, timers, session>>
  BY DEF ChainInv, TypeOK, ContinueCommand, RequestTarget, FinishSeek, StartPlayFrom,
         FinishPlayFrom, FinishPause, FinishStop, FinishPlay, Continue
<1>1. Asked' = Asked
  <2>1. CASE RequestTarget \/ StartPlayFrom
    BY <1>0, <2>1 DEF RequestTarget, StartPlayFrom, Continue, At, Asked, LoopStates
  <2>2. CASE FinishSeek
    BY <1>0, <2>2 DEF FinishSeek, Continue, Finish, IdleLoop, Asked, LoopStates
  <2>3. CASE FinishPlayFrom \/ FinishPause \/ FinishStop \/ FinishPlay
    <3>1. /\ loop.pc \in {"playFromStarted", "pause", "stop", "play"}
          /\ loop' = IdleLoop /\ requested' = requested
      BY <2>3 DEF FinishPlayFrom, FinishPause, FinishStop, FinishPlay, Continue, Finish
    <3>2. QED
      BY <3>1 DEF IdleLoop, Asked
  <2>4. QED
    BY <2>1, <2>2, <2>3 DEF ContinueCommand
<1>2. Drops(toServer) = {} => Drops(toServer') = {}
  <2>1. \/ toServer' = toServer
        \/ toServer' = Append(toServer, FragmentRequest(loop.target))
        \/ toServer' = Append(toServer, Request("play_stream"))
        \/ toServer' = Append(toServer, SpeedRequest(speed))
    BY DEF ContinueCommand, RequestTarget, FinishSeek, StartPlayFrom, FinishPlayFrom,
           FinishPause, FinishStop, FinishPlay, Continue, Sent
  <2>2. /\ FragmentRequest(loop.target) \in Requests
        /\ FragmentRequest(loop.target).type # "drop_buffer"
    <3>1. loop.target \in Times
      BY <1>0, UnsetType, TargetTypes DEF LoopStates
    <3>2. QED
      BY <3>1, RequestTypes DEF FragmentRequest
  <2>3. /\ Request("play_stream") \in Requests /\ Request("play_stream").type # "drop_buffer"
        /\ SpeedRequest(speed) \in Requests /\ SpeedRequest(speed).type # "drop_buffer"
    BY <1>0, RequestTypes DEF TypeOK, Request, SpeedRequest
  <2>4. \A m \in Requests : m.type # "drop_buffer"
                            => Drops(Append(toServer, m)) = Drops(toServer) \cup {}
    BY <1>0, RequestAppended
  <2>5. QED
    BY <2>1, <2>2, <2>3, <2>4
<1>3. QED
  BY <1>0, <1>1, <1>2, SupplyFrame DEF LiveTask

(* A task that runs hands its claim on the buffer to its request.          *)
LEMMA TaskSupply ==
    ASSUME Orderly, ChainInv, TypeOK', Supplied, Open, NEW t \in Timers, TaskStep(t)
    PROVE  Supplied'
<1> USE DEF playVars, streamVars, serverVars, channelVars, commandVars
<1>0. UNCHANGED <<buffer, credit, received, toClient, session, loop>>
  BY DEF TaskStep, CancelTask, WakeTask, SendNext, StoreNext, RunTask, TaskFrame
<1>1. TypeOK /\ TasksInOrder /\ toServer \in Seq(Requests)
      /\ timers \in [Timers -> [pc : {"free", "sleep", "send", "store"},
                                session : Nat, next : Times, left : Nat]]
  BY DEF ChainInv, TypeOK
<1>2. CASE CancelTask(t)
  <2>1. /\ UNCHANGED <<toServer, requested>>
        /\ timers' = [timers EXCEPT ![t] = FreeTimer]
    BY <1>2 DEF CancelTask, TaskEnds
  <2>2. timers'[t].pc = "free" /\ \A u \in Timers : u # t => timers'[u] = timers[u]
    BY <1>1, <2>1 DEF FreeTimer
  <2>3. Asked' = Asked
    BY <1>0, <2>1 DEF Asked
  <2>4. QED
    BY <1>0, <2>1, <2>2, <2>3, SupplyFrame DEF LiveTask
<1>3. CASE RunTask(t)
  <2> DEFINE s == timers[t].next
             m == FragmentRequest(s)
  <2>1. /\ timers[t].pc = "sleep" /\ timers[t].session = session
        /\ timers' = [timers EXCEPT ![t] = FreeTimer]
        /\ toServer' = Append(toServer, m) /\ requested' = s
    BY <1>3 DEF RunTask, Expired, TaskEnds, Sent
  <2>2. /\ LiveTask(t) /\ Answers(toClient) = {} /\ Drops(toServer) = {} /\ Joins(s)
        /\ \A u \in Timers : LiveTask(u) => u = t
        /\ loop.pc \notin {"seek", "seekRequested", "playFrom", "playFromRequested"}
    BY <1>1, <2>1 DEF LiveTask, TasksInOrder
  <2>3. Asked' = s
    BY <1>0, <2>1, <2>2 DEF Asked
  <2>4. Drops(toServer') = {}
    <3>1. m \in Requests /\ m.type # "drop_buffer"
      BY <1>1, RequestTypes DEF FragmentRequest
    <3> HIDE DEF m
    <3>2. Drops(Append(toServer, m)) = Drops(toServer) \cup {}
      BY <1>1, <3>1, RequestAppended
    <3>3. QED
      BY <2>1, <2>2, <3>2
  <2>5. TasksSupplied'
    <3>1. timers'[t].pc = "free" /\ \A u \in Timers : u # t => timers'[u] = timers[u]
      BY <1>1, <2>1 DEF FreeTimer
    <3>2. \A u \in Timers : ~LiveTask(u)'
      BY <1>0, <2>2, <3>1 DEF LiveTask
    <3>3. QED
      BY <3>2 DEF TasksSupplied
  <2>6. AnswersSupplied' /\ Filled'
    BY <1>0, <2>2 DEF AnswersSupplied, Supplied, Filled
  <2>7. EndSupplied'
    <3>1. s = ArchiveEnd => Exhausted
      BY <2>2, ArchiveAssumption DEF Supplied, TasksSupplied
    <3>2. QED
      BY <1>0, <2>2, <2>3, <2>4, <3>1 DEF EndSupplied, Exhausted, Joins
  <2>8. QED
    BY <2>5, <2>6, <2>7 DEF Supplied
<1>4. timers[t].pc \in {"free", "sleep"}
  BY <1>1 DEF TasksInOrder
<1>5. QED
  BY <1>2, <1>3, <1>4 DEF TaskStep, Orderly, WakeTask, SendNext, StoreNext

(* The server loads what it is asked for behind what it has.               *)
LEMMA ServeFragmentSupply ==
    ASSUME ChainInv, TypeOK', Supplied, Open, ServeFragment, credit \in {0, 1}
    PROVE  Supplied'
<1> USE DEF playVars, streamVars, serverVars, channelVars, commandVars
<1> DEFINE q == toServer
           st == Head(q).start
           f == Interval(st, Least(st + Fragment, ArchiveEnd))
           a == Reply("archive_fragment", f)
           n == Len(toClient) + 1
           u == Append(toClient, a)
<1>1. /\ q # <<>> /\ toServer' = Tail(q) /\ Head(q).type = "get_archive_fragment"
      /\ UNCHANGED <<loop, session, requested, timers, credit, received>>
      /\ \/ /\ st < ArchiveEnd
            /\ buffer' = Append(buffer, f) /\ toClient' = u
         \/ /\ ~(st < ArchiveEnd)
            /\ buffer' = buffer /\ toClient' = Append(toClient, Reply("error", Unset))
  BY DEF ServeFragment, Serve
<1>2. /\ RequestsInOrder /\ AnswersInOrder /\ TasksInOrder /\ BufferContiguous /\ TypeOK
      /\ q \in Seq(Requests) /\ toClient \in Seq(Replies) /\ buffer \in Seq(Intervals)
      /\ Asked \in Nat /\ Margin \in Nat
      /\ Fragment \in Nat \ {0} /\ ArchiveEnd \in Nat
  BY ChainTypes, FragmentAssumption, ArchiveAssumption DEF ChainInv
<1>3. Asked' = Asked
  BY <1>1 DEF Asked
<1>4. /\ Head(q) = q[1] /\ 1 \in Fragments(q) /\ 1 \notin Drops(q)
      /\ Drops(q) = {} => Drops(Tail(q)) = {}
      /\ \A d \in Drops(q) : d > 1
  <2>1. Head(q) = q[1]
    BY <1>1, <1>2, RequestTaken
  <2>2. 1 \in Fragments(q) /\ 1 \notin Drops(q)
    BY <1>1, <1>2, RequestTaken
  <2>3. \A d \in Drops(Tail(q)) : d + 1 \in Drops(q)
    BY <1>1, <1>2, RequestTaken
  <2>4. \A d \in Drops(q) : d \in Nat /\ d > 0
    BY <1>1, <1>2, RequestTaken
  <2>5. QED
    BY <2>1, <2>2, <2>3, <2>4
<1>5. \A t \in Timers : ~LiveTask(t)
  BY <1>2, <1>4 DEF TasksInOrder
<1>6. \A k \in Answers(toClient) : toClient[k].start # Asked
  <2>1. \A k \in Answers(toClient) : toClient[k].start > Asked + Margin
    BY <1>2, <1>4 DEF AnswersInOrder
  <2>2. \A k \in Answers(toClient) : toClient[k].start \in Nat
    BY <1>2, ChainTypes
  <2>3. QED
    BY <1>2, <2>1, <2>2
<1>7. /\ st \in Nat /\ Joins(st)
      /\ st = Asked \/ st > Asked + Margin
  <2>1. st \in Nat
    BY <1>2, <1>4, ChainTypes
  <2>2. QED
    BY <1>2, <1>4, <2>1 DEF RequestsInOrder
<1> HIDE DEF q
<1>8. CASE ~(st < ArchiveEnd)
  <2>1. /\ buffer' = buffer
        /\ Answers(toClient') = Answers(toClient)
        /\ \A k \in Answers(toClient) : toClient'[k] = toClient[k]
    <3>1. Reply("error", Unset) \in Replies /\ Reply("error", Unset).type # "archive_fragment"
      BY UnsetType DEF Reply, Replies, Intervals
    <3> DEFINE e == Reply("error", Unset)
    <3> HIDE DEF e
    <3>2. /\ Answers(Append(toClient, e)) = Answers(toClient) \cup {}
          /\ \A k \in Answers(toClient) : Append(toClient, e)[k] = toClient[k]
      BY <1>2, <3>1, AnswerAppended DEF e
    <3>3. QED
      BY <1>1, <1>8, <3>2 DEF e
  <2>2. QED
    BY <1>1, <1>3, <1>4, <2>1, SupplyFrame DEF LiveTask, q
<1>9. CASE st < ArchiveEnd
  <2>1. /\ f.start = st /\ f.end \in Nat /\ st < f.end /\ f \in Intervals
        /\ f.end < ArchiveEnd => f.end = st + Fragment
    BY <1>2, <1>7, <1>9 DEF Interval, Least, Intervals, Times
  <2>2. a \in Replies /\ a.type = "archive_fragment" /\ a.start = st /\ a.end = f.end
    BY <2>1 DEF Reply, Replies, Intervals
  <2> HIDE DEF f, a, st
  <2>3. /\ u[n] = a /\ Answers(u) = Answers(toClient) \cup {n}
        /\ \A k \in Answers(toClient) : u[k] = toClient[k]
    BY <1>2, <2>2, AnswerAppended
  <2>4. /\ Len(buffer) \in Nat /\ Len(buffer') = Len(buffer) + 1
        /\ buffer'[Len(buffer) + 1] = f
        /\ \A i \in 1 .. Len(buffer) : /\ i \in Nat /\ buffer'[i] = buffer[i]
                                      /\ buffer[i].start \in Nat /\ buffer[i].end \in Nat
        /\ buffer # <<>> => Len(buffer) > 0
        /\ buffer' # <<>>
    <3>1. \A i \in 1 .. Len(buffer) : buffer[i] \in Intervals
      BY <1>2
    <3>2. \A i \in 1 .. Len(buffer) : buffer[i].start \in Nat /\ buffer[i].end \in Nat
      BY <1>2, <3>1 DEF Intervals, Times
    <3>3. buffer' = Append(buffer, f)
      BY <1>1, <1>9
    <3> HIDE DEF u, n
    <3>4. /\ Len(buffer) \in Nat /\ Len(buffer') = Len(buffer) + 1
          /\ buffer'[Len(buffer) + 1] = f
          /\ \A i \in 1 .. Len(buffer) : buffer'[i] = buffer[i]
          /\ buffer # <<>> => Len(buffer) > 0
      BY <1>2, <2>1, <3>3
    <3>5. buffer' # <<>>
      BY <3>4
    <3>6. QED
      BY <3>2, <3>4, <3>5
  <2>5. Filled'
    <3>1. \A i \in 1 .. Len(buffer) : buffer[i].start < buffer[i].end /\ buffer[i].start < f.end
      <4>1. \A i \in 1 .. Len(buffer) : buffer[i].start < st
        BY <1>7, <2>4 DEF Supplied, Filled, Joins
      <4>2. QED
        BY <1>7, <2>1, <2>4, <4>1 DEF Supplied, Filled
    <3>2. QED
      BY <2>1, <2>4, <3>1 DEF Filled
  <2>6. Exhausted'
    BY <2>4 DEF Exhausted
  <2>7. Buffered' >= f.end - st /\ Buffered' \in Int
    <3>1. CASE buffer = <<>>
      BY <1>7, <2>1, <2>4, <3>1 DEF Buffered
    <3>2. CASE buffer # <<>>
      <4>1. buffer'[1] = buffer[1] /\ buffer[1].start < st /\ buffer[1].start \in Nat
        BY <1>7, <2>4, <3>2 DEF Supplied, Filled, Joins
      <4>2. Buffered' = f.end - buffer[1].start
        BY <2>4, <4>1 DEF Buffered
      <4>3. QED
        BY <1>7, <2>1, <4>1, <4>2
    <3>3. QED
      BY <3>1, <3>2
  <2>8. AnswersSupplied'
    <3>1. toClient' = u /\ credit' = credit
      BY <1>1, <1>9
    <3>2. f.end < ArchiveEnd => Buffered' - credit >= Fragment - 1
      <4>1. st \in Nat /\ Fragment \in Nat /\ credit <= 1 /\ credit \in Int
        BY <1>2, <1>7
      <4> DEFINE more == Buffered'
      <4>2. more >= f.end - st /\ more \in Int
        BY <2>7
      <4> HIDE DEF u, n, more
      <4>3. f.end < ArchiveEnd => more - credit >= Fragment - 1
        BY <2>1, <4>1, <4>2
      <4>4. QED
        BY <4>3 DEF more
    <3> HIDE DEF u, n
    <3>3. \A k \in Answers(u) : u[k].start = Asked => k = n
      BY <1>6, <2>3
    <3>4. QED
      BY <1>3, <2>2, <2>3, <2>6, <3>1, <3>2, <3>3 DEF AnswersSupplied
  <2>9. TasksSupplied'
    BY <1>1, <1>5 DEF TasksSupplied, LiveTask
  <2>10. EndSupplied'
    BY <1>2, <1>3, <1>7, <1>9 DEF EndSupplied
  <2>11. QED
    BY <2>5, <2>8, <2>9, <2>10 DEF Supplied
<1>10. QED
  BY <1>8, <1>9

LEMMA ServeOtherSupply ==
    ASSUME ChainInv, TypeOK', Supplied, Open,
           ServeRanges \/ ServeDrop \/ ServePlay \/ ServeSpeed
    PROVE  Supplied'
<1> USE DEF playVars, streamVars, serverVars, channelVars, commandVars
<1>1. /\ toServer # <<>> /\ toServer' = Tail(toServer)
      /\ UNCHANGED <<loop, session, requested, timers, credit, received>>
  BY DEF ServeRanges, ServeDrop, ServePlay, ServeSpeed, Serve
<1>2. /\ AnswersInOrder /\ TasksInOrder /\ TypeOK
      /\ toServer \in Seq(Requests) /\ toClient \in Seq(Replies)
      /\ Asked \in Nat /\ Margin \in Nat
  BY ChainTypes DEF ChainInv
<1>3. Asked' = Asked
  BY <1>1 DEF Asked
<1>4. CASE ServeDrop
  <2>1. /\ buffer' = <<>> /\ toClient' = toClient /\ Drops(toServer) # {}
    <3>1. Head(toServer).type = "drop_buffer" /\ buffer' = <<>> /\ toClient' = toClient
      BY <1>4 DEF ServeDrop, Serve
    <3>2. 1 \in Drops(toServer)
      BY <1>1, <1>2, <3>1, RequestTaken
    <3>3. QED
      BY <3>1, <3>2
  <2>2. AnswersSupplied'
    <3>1. \A k \in Answers(toClient) : toClient[k].start > Asked + Margin
      BY <1>2, <2>1 DEF AnswersInOrder
    <3>2. \A k \in Answers(toClient) : toClient[k].start \in Nat
      BY <1>2, ChainTypes
    <3>3. QED
      BY <1>2, <1>3, <2>1, <3>1, <3>2 DEF AnswersSupplied
  <2>3. TasksSupplied'
    BY <1>1, <1>2, <2>1 DEF TasksSupplied, LiveTask, TasksInOrder
  <2>4. Filled'
    BY <2>1 DEF Filled
  <2>5. EndSupplied'
    BY <1>3, <2>1 DEF EndSupplied, Supplied
  <2>6. QED
    BY <2>2, <2>3, <2>4, <2>5 DEF Supplied
<1>5. CASE ServeRanges \/ ServePlay \/ ServeSpeed
  <2>1. buffer' = buffer
    BY <1>5 DEF ServeRanges, ServePlay, ServeSpeed
  <2>2. /\ Answers(toClient') = Answers(toClient)
        /\ \A k \in Answers(toClient) : toClient'[k] = toClient[k]
    <3> DEFINE e == Reply("ranges", Unset)
    <3>1. toClient' = toClient \/ toClient' = Append(toClient, e)
      BY <1>5 DEF ServeRanges, ServePlay, ServeSpeed
    <3>2. e \in Replies /\ e.type # "archive_fragment"
      BY UnsetType DEF Reply, Replies, Intervals
    <3> HIDE DEF e
    <3>3. /\ Answers(Append(toClient, e)) = Answers(toClient) \cup {}
          /\ \A k \in Answers(toClient) : Append(toClient, e)[k] = toClient[k]
      BY <1>2, <3>2, AnswerAppended
    <3>4. QED
      BY <3>1, <3>3
  <2>3. Drops(toServer) = {} => Drops(toServer') = {}
    BY <1>1, <1>2, RequestTaken
  <2>4. QED
    BY <1>1, <1>3, <2>1, <2>2, <2>3, SupplyFrame DEF LiveTask
<1>6. QED
  BY <1>4, <1>5

LEMMA StreamSupply ==
    ASSUME ChainInv, TokenInv, TypeOK', Supplied, Open, StreamUnit
    PROVE  Supplied'
<1> USE DEF playVars, streamVars, serverVars, channelVars, commandVars
<1> DEFINE f == Head(buffer)
           g == Interval(f.start + 1, f.end)
           b == Tail(buffer)
           last == buffer[Len(buffer)].end
<1>1. /\ buffer # <<>> /\ credit' = credit - 1
      /\ IF f.start + 1 < f.end THEN buffer' = <<g>> \o b ELSE buffer' = b
      /\ UNCHANGED <<loop, toServer, toClient, session, requested, timers>>
  BY DEF StreamUnit, CanStream
<1>2. received' = f.start
  BY DEF StreamUnit
<1>3. AnswersInOrder /\ TasksInOrder /\ BufferContiguous /\ Filled /\ WithinArchive /\ TypeOK
      /\ buffer \in Seq(Intervals) /\ credit \in Nat /\ credit' \in Int
      /\ ArchiveEnd \in Nat /\ Fragment \in Nat /\ Lead \in Nat
  <2>1. credit \in 0 .. 8
    BY DEF ChainInv, TypeOK
  <2>2. QED
    BY <1>1, <2>1, ChainTypes, FragmentAssumption, ArchiveAssumption
       DEF ChainInv, Supplied, TokenInv
<1>4. Asked' = Asked
  BY <1>1 DEF Asked
<1>5. /\ Len(buffer) \in Nat \ {0} /\ Len(b) = Len(buffer) - 1 /\ f = buffer[1]
      /\ \A i \in 1 .. Len(b) : b[i] = buffer[i + 1]
      /\ b \in Seq(Intervals) /\ (b = <<>> <=> Len(buffer) = 1)
      /\ \A i \in 1 .. Len(buffer) : buffer[i].start \in Nat /\ buffer[i].end \in Nat
  <2>1. \A i \in 1 .. Len(buffer) : buffer[i] \in Intervals
    BY <1>3
  <2>2. \A i \in 1 .. Len(buffer) : buffer[i].start \in Nat /\ buffer[i].end \in Nat
    BY <2>1 DEF Intervals, Times
  <2>3. /\ Len(buffer) \in Nat \ {0} /\ Len(b) = Len(buffer) - 1 /\ f = buffer[1]
        /\ \A i \in 1 .. Len(b) : b[i] = buffer[i + 1]
        /\ b \in Seq(Intervals)
    BY <1>1, <1>3
  <2> HIDE DEF b
  <2>4. b = <<>> <=> Len(b) = 0
    BY <2>3
  <2>5. QED
    BY <2>2, <2>3, <2>4
<1>6. /\ g.start = f.start + 1 /\ g.end = f.end
      /\ f.start \in Nat /\ f.end \in Nat /\ f.start < f.end
      /\ last \in Nat /\ f.start < last
  BY <1>3, <1>5 DEF Interval, Filled
<1>7. /\ Len(<<g>> \o b) = Len(buffer) /\ (<<g>> \o b)[1] = g
      /\ \A i \in 2 .. Len(buffer) : (<<g>> \o b)[i] = b[i - 1]
  <2> HIDE DEF g, b
  <2>1. QED
    BY <1>5
<1>8. /\ Filled'
      /\ buffer' # <<>> => buffer'[Len(buffer')].end = last /\ buffer'[1].start = f.start + 1
      /\ buffer' = <<>> => last = f.start + 1
  <2> HIDE DEF f, g, b, last
  <2>1. CASE buffer' = <<g>> \o b /\ f.start + 1 < f.end
    <3>1. /\ Len(buffer') = Len(buffer) /\ buffer'[1] = g /\ buffer' # <<>>
          /\ \A i \in 2 .. Len(buffer) : buffer'[i] = buffer[i]
      BY <1>5, <1>7, <2>1
    <3>2. last = buffer[Len(buffer)].end /\ buffer'[Len(buffer')].end = last
      BY <1>5, <1>6, <3>1 DEF last
    <3>3. g.start < last
      <4>1. CASE Len(buffer) = 1
        BY <1>5, <1>6, <2>1, <3>2, <4>1
      <4>2. CASE Len(buffer) # 1
        <5>1. 2 \in 1 .. Len(buffer) /\ 1 \in 1 .. (Len(buffer) - 1)
          BY <1>5, <4>2
        <5>2. buffer[2].start < last /\ buffer[2].start = f.end /\ buffer[2].start \in Nat
          BY <1>3, <1>5, <3>2, <5>1 DEF Filled, BufferContiguous
        <5>3. QED
          BY <1>6, <2>1, <5>2
      <4>3. QED
        BY <4>1, <4>2
    <3>4. Filled'
      BY <1>3, <1>6, <2>1, <3>1, <3>2, <3>3 DEF Filled
    <3>5. QED
      BY <1>6, <3>1, <3>2, <3>4
  <2>2. CASE buffer' = b /\ ~(f.start + 1 < f.end)
    <3>1. f.end = f.start + 1
      BY <1>6, <2>2
    <3>2. last = buffer[Len(buffer)].end
      BY DEF last
    <3>3. CASE Len(buffer) = 1
      BY <1>5, <2>2, <3>1, <3>2, <3>3 DEF Filled
    <3>4. CASE Len(buffer) # 1
      <4>1. 1 \in 1 .. (Len(buffer) - 1) /\ 1 \in 1 .. Len(b) /\ b # <<>>
            /\ b[1] = buffer[2] /\ b[Len(b)] = buffer[Len(buffer)]
        BY <1>5, <3>4
      <4>2. b[1].start = f.end
        BY <1>3, <1>5, <4>1 DEF BufferContiguous
      <4>3. \A i \in 1 .. Len(b) : b[i].start < b[i].end /\ b[i].start < last
        <5>1. \A i \in 1 .. Len(b) : i + 1 \in 1 .. Len(buffer) /\ b[i] = buffer[i + 1]
          BY <1>5
        <5>2. QED
          BY <1>3, <3>2, <5>1 DEF Filled
      <4>4. Filled'
        BY <2>2, <3>2, <4>1, <4>3 DEF Filled
      <4>5. QED
        BY <2>2, <3>1, <3>2, <4>1, <4>2, <4>4
    <3>5. QED
      BY <3>3, <3>4
  <2>3. QED
    BY <1>1, <2>1, <2>2 DEF f, g, b
<1> HIDE DEF g, b
<1>9. Buffered' = Buffered - 1 /\ Buffered \in Int
  <2>1. Buffered = last - f.start
    BY <1>1, <1>5 DEF Buffered
  <2> HIDE DEF f, last
  <2>2. Buffered' = IF buffer' = <<>> THEN 0 ELSE last - (f.start + 1)
    BY <1>8 DEF Buffered
  <2>3. QED
    BY <1>6, <1>8, <2>1, <2>2
<1>10. Buffered' - credit' = Buffered - credit
  BY <1>1, <1>3, <1>9
<1>11. last = ArchiveEnd => Exhausted'
  <2> HIDE DEF f, last
  <2>1. QED
    BY <1>2, <1>6, <1>8 DEF Exhausted
<1>12. \A s : Joins(s) => Joins(s)' /\ last = s
  BY <1>1, <1>8 DEF Joins
<1> HIDE DEF f, last
<1>13. AnswersSupplied'
  <2> SUFFICES ASSUME NEW k \in Answers(toClient), toClient[k].start = Asked
               PROVE  IF toClient[k].end < ArchiveEnd
                      THEN Buffered' - credit' >= Fragment - 1
                      ELSE Exhausted'
    BY <1>1, <1>4 DEF AnswersSupplied
  <2>1. Asked \in Nat /\ Margin \in Nat /\ toClient[k].end \in Nat
    BY <1>3, ChainTypes
  <2>2. Joins(toClient[k].end) /\ toClient[k].end <= ArchiveEnd
    BY <1>3, <2>1 DEF AnswersInOrder, WithinArchive
  <2>3. CASE toClient[k].end < ArchiveEnd
    BY <1>10, <2>3 DEF Supplied, AnswersSupplied
  <2>4. CASE ~(toClient[k].end < ArchiveEnd)
    <3>1. toClient[k].end = ArchiveEnd
      BY <1>3, <2>1, <2>2, <2>4
    <3>2. QED
      BY <1>11, <1>12, <2>2, <2>4, <3>1
  <2>5. QED
    BY <2>3, <2>4
<1>14. TasksSupplied'
  <2> SUFFICES ASSUME NEW t \in Timers, LiveTask(t)
               PROVE  IF timers[t].next < ArchiveEnd
                      THEN Buffered' - credit' >= timers[t].left + Lead - 1
                      ELSE Exhausted'
    BY <1>1 DEF TasksSupplied, LiveTask
  <2>1. Joins(timers[t].next) /\ timers[t].next <= ArchiveEnd /\ timers[t].next \in Nat
    BY <1>3, ChainTypes DEF TasksInOrder, WithinArchive, LiveTask
  <2>2. CASE timers[t].next < ArchiveEnd
    BY <1>10, <2>2 DEF Supplied, TasksSupplied
  <2>3. CASE ~(timers[t].next < ArchiveEnd)
    <3>1. timers[t].next = ArchiveEnd
      BY <1>3, <2>1, <2>3
    <3>2. QED
      BY <1>11, <1>12, <2>1, <2>3, <3>1
  <2>4. QED
    BY <2>2, <2>3
<1>15. EndSupplied'
  BY <1>1, <1>4, <1>11, <1>12 DEF Supplied, EndSupplied
<1>16. QED
  BY <1>8, <1>13, <1>14, <1>15 DEF Supplied

(* A Tick takes a unit from what a task waits, and lets the server send    *)
(* one.                                                                    *)
LEMMA TickSupply ==
    ASSUME Prompt, ChainInv, TypeOK', Supplied, Steady, Open, Tick
    PROVE  Supplied'
<1> USE DEF playVars, serverVars, channelVars, commandVars
<1>1. /\ Settled /\ (CanStream => credit = 0) /\ credit' = IF streaming THEN rate ELSE 0
      /\ timers' = [t \in Timers |-> [timers[t] EXCEPT !.left = Monus(timers[t].left, 1)]]
      /\ UNCHANGED <<loop, session, requested, toServer, toClient, buffer, streaming, received>>
  BY DEF Tick
<1>2. /\ timers \in [Timers -> [pc : {"free", "sleep", "send", "store"},
                                session : Nat, next : Times, left : Nat]]
      /\ TypeOK /\ Lead \in Nat /\ Lead > 0 /\ credit \in {0, 1} /\ rate = 1
      /\ buffer \in Seq(Intervals)
  BY FragmentAssumption DEF ChainInv, TypeOK, Steady
<1>3. Asked' = Asked /\ Buffered' = Buffered /\ Exhausted' = Exhausted
      /\ Joins(ArchiveEnd)' = Joins(ArchiveEnd)
  BY <1>1 DEF Asked, Buffered, Exhausted, Joins
<1>4. Filled' /\ EndSupplied'
  BY <1>1, <1>3 DEF Supplied, Filled, EndSupplied
<1>5. AnswersSupplied'
  BY <1>1 DEF AnswersSupplied, Answers, Settled
<1>6. ASSUME NEW t \in Timers, LiveTask(t)'
      PROVE  IF timers'[t].next < ArchiveEnd
             THEN Buffered' - credit' >= timers'[t].left + Lead - 1
             ELSE Exhausted'
  <2>1. /\ timers'[t].pc = timers[t].pc /\ timers'[t].session = timers[t].session
        /\ timers'[t].next = timers[t].next /\ timers'[t].left = Monus(timers[t].left, 1)
    BY <1>1, <1>2
  <2>2. LiveTask(t)
    BY <1>1, <1>6, <2>1 DEF LiveTask
  <2>3. timers[t].left \in Nat /\ timers[t].left > 0
    BY <1>1, <1>2, <2>2 DEF LiveTask, Settled, Expired
  <2>4. timers'[t].left = timers[t].left - 1
    BY <2>1, <2>3 DEF Monus
  <2>5. CASE timers[t].next < ArchiveEnd
    <3>1. Buffered - credit >= timers[t].left + Lead - 1
      BY <2>2, <2>5 DEF Supplied, TasksSupplied
    <3>2. buffer # <<>> /\ Buffered \in Int
      <4>1. buffer # <<>>
        BY <1>2, <2>3, <3>1 DEF Buffered
      <4>2. buffer[1] \in Intervals /\ buffer[Len(buffer)] \in Intervals
        BY <1>2, <4>1
      <4>3. buffer[1].start \in Int /\ buffer[Len(buffer)].end \in Int
        BY <4>2 DEF Intervals, Times
      <4>4. QED
        BY <4>1, <4>3 DEF Buffered
    <3>3. credit' <= credit + 1 /\ credit' \in Int
      BY <1>1, <1>2
    <3>4. Buffered - credit' >= (timers[t].left - 1) + Lead - 1
      BY <1>2, <2>3, <3>1, <3>2, <3>3
    <3>5. QED
      BY <1>3, <2>1, <2>4, <2>5, <3>4
  <2>6. CASE ~(timers[t].next < ArchiveEnd)
    BY <1>3, <2>1, <2>2, <2>6 DEF Supplied, TasksSupplied
  <2>7. QED
    BY <2>5, <2>6
<1>7. QED
  BY <1>4, <1>5, <1>6 DEF Supplied, TasksSupplied

(* A reply that is taken for the current request starts the wait for the   *)
(* next one.                                                               *)
LEMMA ReceiveSupply ==
    ASSUME ChainInv, TypeOK', Supplied, Steady, Open, ReceiveMessage
    PROVE  Supplied'
<1> USE DEF playVars, streamVars, serverVars, channelVars, commandVars
<1> DEFINE q == toClient
           r == Tail(toClient)
           f == Interval(Head(toClient).start, Head(toClient).end)
<1>1. /\ loop.pc = "idle" /\ q # <<>> /\ toClient' = r
      /\ UNCHANGED <<loop, session, requested, toServer, buffer, credit, received>>
  BY DEF ReceiveMessage, ReceiveRanges, ReceiveError, ReceiveFragment, Receive
<1>2. /\ AnswersInOrder /\ TasksInOrder /\ TypeOK /\ q \in Seq(Replies)
      /\ Asked \in Nat /\ Margin \in Nat
  BY ChainTypes DEF ChainInv
<1>3. Asked = requested /\ Asked' = Asked
  BY <1>1 DEF Asked
<1>4. /\ Head(q) = q[1] /\ (1 \in Answers(q) <=> q[1].type = "archive_fragment")
      /\ \A k \in Answers(r) : k \in Nat /\ k > 0 /\ k + 1 \in Answers(q) /\ r[k] = q[k + 1]
  BY <1>1, <1>2, AnswerTaken
<1> HIDE DEF r
<1>5. CASE UNCHANGED timers
  <2>1. \A k \in Answers(toClient') : \E l \in Answers(toClient) :
            toClient'[k].start = toClient[l].start /\ toClient'[k].end = toClient[l].end
    BY <1>1, <1>4
  <2>2. QED
    BY <1>1, <1>3, <1>5, <2>1, SupplyFrame DEF LiveTask
<1>6. CASE ReceiveFragment /\ IsForCurrentRequest(f)
  <2>1. ScheduleNextFragment(f.end) /\ Head(q).type = "archive_fragment"
    BY <1>6 DEF ReceiveFragment, Receive
  <2>2. /\ 1 \in Answers(q) /\ f.start = q[1].start /\ f.end = q[1].end
        /\ f.start \in Nat /\ f.end \in Nat
    <3>1. 1 \in Answers(q)
      BY <1>4, <2>1
    <3>2. QED
      BY <1>2, <1>4, <3>1, ChainTypes DEF Interval
  <2> HIDE DEF f
  <2>3. f.start = Asked
    <3>1. Asked > 0 /\ (f.start > Asked + Margin \/ f.start = Asked)
      BY <1>2, <2>2 DEF AnswersInOrder
    <3>2. f.start <= Asked + Margin
      BY <1>2, <1>3, <1>6, <3>1 DEF IsForCurrentRequest
    <3>3. QED
      BY <1>2, <2>2, <3>1, <3>2
  <2>4. /\ \A l \in Answers(q) : l <= 1 /\ l > 0 /\ l \in Nat
        /\ \A t \in Timers : ~LiveTask(t)
    <3>1. f.start \in Nat /\ ~(f.start > Asked + Margin)
      BY <1>2, <2>2, <2>3
    <3>2. /\ \A l \in Answers(q) : l <= 1
          /\ \A t \in Timers : ~LiveTask(t)
      BY <1>2, <2>2, <3>1 DEF AnswersInOrder
    <3>3. \A l \in Answers(q) : l > 0 /\ l \in Nat
      BY <1>1, <1>2, AnswerTaken
    <3>4. QED
      BY <3>2, <3>3
  <2>5. Answers(r) = {}
    BY <1>4, <2>4
  <2>6. PICK slot \in Timers :
           timers' = [timers EXCEPT ![slot] =
                         [pc |-> "sleep", session |-> session, next |-> f.end,
                          left |-> ContentDelay \div Greatest(speed, 1)]]
    BY <2>1 DEF ScheduleNextFragment
  <2>7. /\ timers'[slot].next = f.end /\ timers'[slot].left = Fragment - Lead
        /\ \A t \in Timers : t # slot => timers'[t] = timers[t]
    <3>1. ContentDelay \div Greatest(speed, 1) = Fragment - Lead
      BY FragmentAssumption DEF ContentDelay, Greatest, Steady
    <3>2. QED
      BY <1>2, <2>6, <3>1 DEF TypeOK
  <2>8. TasksSupplied'
    <3>1. IF f.end < ArchiveEnd THEN Buffered - credit >= Fragment - 1 ELSE Exhausted
      BY <2>2, <2>3 DEF Supplied, AnswersSupplied
    <3>2. Fragment - 1 = (Fragment - Lead) + Lead - 1
      BY FragmentAssumption
    <3>3. Buffered' = Buffered /\ Exhausted' = Exhausted /\ credit' = credit
      BY <1>1 DEF Buffered, Exhausted
    <3>4. \A t \in Timers : LiveTask(t)' => t = slot
      BY <1>1, <2>4, <2>7 DEF LiveTask
    <3>5. QED
      BY <2>7, <3>1, <3>2, <3>3, <3>4 DEF TasksSupplied
  <2>9. AnswersSupplied' /\ Filled' /\ EndSupplied'
    <3>1. AnswersSupplied'
      BY <1>1, <2>5 DEF AnswersSupplied
    <3>2. Filled'
      BY <1>1 DEF Supplied, Filled
    <3>3. EndSupplied'
      BY <1>1, <1>3 DEF Supplied, EndSupplied, Exhausted, Joins
    <3>4. QED
      BY <3>1, <3>2, <3>3
  <2>10. QED
    BY <2>8, <2>9 DEF Supplied
<1>7. QED
  BY <1>5, <1>6 DEF ReceiveMessage, ReceiveRanges, ReceiveError, ReceiveFragment

(* Before the first seek nothing is asked for, and there is nothing to     *)
(* supply.                                                                 *)
LEMMA FreshSupply ==
    ASSUME buffer = <<>>, toClient = <<>>, requested = 0, loop.target = 0,
           \A t \in Timers : timers[t] = FreeTimer
    PROVE  Supplied
<1>1. Asked = 0 /\ ArchiveEnd # 0 /\ Answers(toClient) = {}
  BY ArchiveAssumption DEF Asked, Answers
<1>2. QED
  BY <1>1 DEF Supplied, Filled, AnswersSupplied, TasksSupplied, EndSupplied, LiveTask, FreeTimer

LEMMA InitSupply ==
    ASSUME Init
    PROVE  SupplyInv
<1>1. Steady
  <2>1. /\ cmds = <<>> /\ speed = 1 /\ rate = 1 /\ credit = 0
        /\ toServer = <<>>
    BY DEF Init
  <2>2. SpeedOne(toServer)
    BY <2>1 DEF SpeedOne
  <2>3. QED
    BY <2>1, <2>2 DEF Steady, NoSpeed
<1>2. Supplied
  BY FreshSupply DEF Init, IdleLoop
<1>3. QED
  BY <1>1, <1>2 DEF Init, SupplyInv

LEMMA StepSupply ==
    ASSUME Orderly, Prompt, SteadySpeed, ChainInv, TokenInv, SupplyInv, TypeOK', [Next]_vars
    PROVE  SupplyInv'
<1> USE DEF playVars, streamVars, serverVars, channelVars, commandVars
<1>1. Steady'
  BY SteadyStep DEF ChainInv, SupplyInv
<1>2. CASE OpenChannel
  <2>1. /\ dc = "connecting" /\ dc' = "opened"
        /\ UNCHANGED <<buffer, toClient, requested, loop, timers>>
    BY <1>2 DEF OpenChannel
  <2>2. BeforeOpen /\ buffer = <<>>
    BY <2>1 DEF ChainInv, Open
  <2> DEFINE Fresh == /\ buffer = <<>> /\ toClient = <<>> /\ requested = 0 /\ loop.target = 0
                      /\ \A t \in Timers : timers[t] = FreeTimer
  <2>3. Fresh'
    BY <2>1, <2>2 DEF BeforeOpen
  <2>4. Supplied'
    BY <2>3, FreshSupply, PTL
  <2>5. QED
    BY <1>1, <2>1, <2>4 DEF SupplyInv, Open
<1>3. CASE CloseChannel
  BY <1>1, <1>3 DEF CloseChannel, SupplyInv, Open
<1>4. CASE ~OpenChannel /\ ~SendRanges /\ ~CloseChannel
  <2>1. dc' = dc
    BY <1>4 DEF Next, UserStep, Issue, TakeCommand, TakeGetRanges, TakeSeek, TakePause,
       TakePlay, TakeSetSpeed, ContinueCommand, RequestTarget, FinishSeek, StartPlayFrom,
       FinishPlayFrom, FinishPause, FinishStop, FinishPlay, ReceiveMessage, ReceiveRanges,
       ReceiveError, ReceiveFragment, Receive, TaskStep, CancelTask, WakeTask, SendNext,
       StoreNext, RunTask, TaskFrame, ServeRequest, ServeFragment, ServeRanges, ServeDrop,
       ServePlay, ServeSpeed, Serve, StreamUnit, Tick, vars
  <2>2. streaming' => streaming \/ toServer # <<>>
    BY <1>4 DEF Next, UserStep, Issue, TakeCommand, TakeGetRanges, TakeSeek, TakePause,
       TakePlay, TakeSetSpeed, ContinueCommand, RequestTarget, FinishSeek, StartPlayFrom,
       FinishPlayFrom, FinishPause, FinishStop, FinishPlay, ReceiveMessage, ReceiveRanges,
       ReceiveError, ReceiveFragment, Receive, TaskStep, CancelTask, WakeTask, SendNext,
       StoreNext, RunTask, TaskFrame, ServeRequest, ServeFragment, ServeRanges, ServeDrop,
       ServePlay, ServeSpeed, Serve, StreamUnit, Tick, vars
  <2>3. streaming' => Open'
    BY <2>1, <2>2 DEF SupplyInv, ChainInv, Open
  <2>4. ASSUME Open
        PROVE  Supplied'
    <3>1. Supplied /\ Steady /\ credit \in {0, 1}
      BY <2>4 DEF SupplyInv, Steady
    <3>2. QED
      BY <1>4, <2>4, <3>1, QuietSupply, TakeSupply, ContinueSupply, TaskSupply,
         ServeFragmentSupply, ServeOtherSupply, StreamSupply, TickSupply, ReceiveSupply
         DEF Next, ServeRequest
  <2>5. QED
    BY <1>1, <2>1, <2>3, <2>4 DEF SupplyInv, Open
<1>5. CASE SendRanges
  <2>1. /\ Open /\ dc' = "open" /\ SameRequests
        /\ UNCHANGED <<loop, requested, session, timers, toClient, buffer, credit,
                       received, streaming>>
    BY <1>5, SendRangesQuietly
  <2>2. Supplied
    BY <2>1 DEF SupplyInv
  <2>3. Supplied'
    BY <2>1, <2>2, SupplyFrame DEF Asked, LiveTask, SameRequests
  <2>4. QED
    BY <1>1, <2>1, <2>3 DEF SupplyInv, Open
<1>6. QED
  BY <1>2, <1>3, <1>4, <1>5

(* For every archive, fragment length, lead, margin and number of tasks: if*)
(* the loop, its tasks and the server take less than a unit of time, no    *)
(* seek comes close to content on its way and nobody changes the speed,    *)
(* then the server never runs out of content before the end of the archive.*)
THEOREM RefillsInTime ==
    ASSUME Orderly, Prompt, SteadySpeed
    PROVE  Spec => []NoUnderrun
<1>1. Init => ChainInv /\ TokenInv /\ SupplyInv
  BY InitChain, InitToken, InitSupply
<1>2. ChainInv /\ TypeOK' /\ [Next]_vars => ChainInv'
  BY StepChain
<1>3. ChainInv /\ TokenInv /\ TypeOK' /\ [Next]_vars => TokenInv'
  BY StepToken
<1>4. ChainInv /\ TokenInv /\ SupplyInv /\ TypeOK' /\ [Next]_vars => SupplyInv'
  BY StepSupply
<1>5. ChainInv /\ TokenInv /\ SupplyInv => NoUnderrun
  <2> SUFFICES ASSUME ChainInv, TokenInv, SupplyInv, streaming, requested # 0, Settled,
                      received # ArchiveEnd - 1, buffer = <<>>
               PROVE  FALSE
    BY DEF NoUnderrun
  <2>1. Open /\ Supplied /\ TokenLives /\ TypeOK
    BY DEF SupplyInv, TokenInv, ChainInv
  <2>2. Asked = requested /\ requested \in Nat
    BY <2>1, ChainTypes DEF Settled, Asked
  <2>3. Fragments(toServer) = {} /\ Answers(toClient) = {} /\ loop.pc = "idle"
    BY DEF Settled, Fragments, Answers
  <2>4. (\E t \in Timers : LiveTask(t)) \/ Asked = ArchiveEnd
    BY <2>1, <2>2, <2>3 DEF TokenLives
  <2>5. ~Exhausted
    BY DEF Exhausted
  <2>6. PICK t \in Timers : LiveTask(t)
    BY <2>1, <2>4, <2>5 DEF Supplied, EndSupplied
  <2>7. 0 - credit >= timers[t].left + Lead - 1
    BY <2>1, <2>5, <2>6 DEF Supplied, TasksSupplied, Buffered
  <2>8. timers[t].left \in Nat /\ timers[t].left > 0
    BY <2>1, <2>6, ChainTypes DEF Settled, LiveTask, Expired
  <2>9. credit \in {0, 1} /\ Lead \in Nat /\ Lead > 0
    BY FragmentAssumption DEF SupplyInv, Steady
  <2>10. QED
    BY <2>7, <2>8, <2>9
<1>6. QED
  BY <1>1, <1>2, <1>3, <1>4, <1>5, TypeCorrect, PTL DEF Spec
=============================================================================
