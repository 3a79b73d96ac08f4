---------------------------- MODULE SpeedControl ----------------------------
(***************************************************************************)
(* The speed menu (src/ui/timeline.rs). The GTK thread stores a speed the  *)
(* user has chosen and queues a command; every 100 ms it puts the menu     *)
(* back to the speed stored. The archive loop stores the speed of each     *)
(* command it executes once more (src/archive_loop.rs), in the middle of   *)
(* anything the GTK thread does: every access of the atomic playback_speed *)
(* is a step. The send that follows fails while the data channel is not    *)
(* open, which is logged and leaves the speed stored as it is.             *)
(***************************************************************************)
EXTENDS Sequences, Naturals

CONSTANTS
    Speeds,     \* SPEEDS, the entries of the menu
    Normal,     \* the speed at first
    Capacity,   \* of the channel of commands
    MaxChoices  \* bound: how often the user chooses

NoSpeed == 0

ASSUME SpeedsAssumption == Normal \in Speeds /\ NoSpeed \notin Speeds
ASSUME ChannelAssumption == Capacity \in Nat /\ MaxChoices \in Nat

VARIABLES
    selected,   \* the entry the menu shows
    stored,     \* ArchiveState.playback_speed
    commands,   \* the SetSpeed commands in the channel
    notify,     \* where the menu's callback is
    sending,    \* the speed the loop is sending, or NoSpeed
    channel,    \* the data channel: connecting, open or closed
    rate,       \* the speed the server plays at
    choices,    \* how often the user has chosen
    dropped,    \* history: a command was dropped
    missed      \* history: the last send of a speed has failed

menuVars == <<selected, notify, choices>>
loopVars == <<sending, rate, missed>>
speedVars == <<menuVars, stored, commands, loopVars, channel, dropped>>

SpeedInit ==
    /\ selected = Normal /\ stored = Normal /\ rate = Normal
    /\ commands = <<>> /\ sending = NoSpeed
    /\ channel = "connecting"
    /\ notify = "idle" /\ choices = 0 /\ dropped = FALSE /\ missed = FALSE

-----------------------------------------------------------------------------
(* The GTK thread: one callback at a time.                                 *)

(* The menu calls back when its selection changes.                         *)
Choose(s) ==
    /\ notify = "idle" /\ s # selected
    /\ choices < MaxChoices /\ choices' = choices + 1
    /\ selected' = s /\ notify' = "compare"
    /\ UNCHANGED <<stored, commands, loopVars, channel, dropped>>

ReselectNever == \* mutant: the timer leaves the menu alone
    /\ notify = "idle" /\ selected # stored /\ FALSE
    /\ UNCHANGED speedVars

(* The 100 ms timer, which may change the selection itself.                *)
Reselect ==
    /\ notify = "idle" /\ selected # stored
    /\ selected' = stored /\ notify' = "compare"
    /\ UNCHANGED <<choices, stored, commands, loopVars, channel, dropped>>

Compare ==
    /\ notify = "compare"
    /\ notify' = IF stored = selected THEN "idle" ELSE "store"
    /\ UNCHANGED <<selected, choices, stored, commands, loopVars, channel, dropped>>

Store ==
    /\ notify = "store" /\ notify' = "send"
    /\ stored' = selected
    /\ UNCHANGED <<selected, choices, commands, loopVars, channel, dropped>>

TrySendBusy == \* mutant: a command that finds the loop busy is lost
    /\ notify = "send" /\ notify' = "idle"
    /\ commands' = IF sending = NoSpeed THEN Append(commands, selected) ELSE commands
    /\ UNCHANGED <<selected, choices, stored, loopVars, channel, dropped>>

(* try_send: a command that finds the channel full is dropped.             *)
TrySend ==
    /\ notify = "send" /\ notify' = "idle"
    /\ IF Len(commands) < Capacity
       THEN commands' = Append(commands, selected) /\ UNCHANGED dropped
       ELSE dropped' = TRUE /\ UNCHANGED commands
    /\ UNCHANGED <<selected, choices, stored, loopVars, channel>>

-----------------------------------------------------------------------------
(* The archive loop, SetSpeed.                                             *)

Take ==
    /\ sending = NoSpeed /\ commands # <<>>
    /\ sending' = Head(commands) /\ commands' = Tail(commands)
    /\ stored' = Head(commands)
    /\ UNCHANGED <<menuVars, rate, missed, channel, dropped>>

(* dc.send_text: on a channel that is not open its error is only logged.   *)
SendSpeed ==
    /\ sending # NoSpeed /\ sending' = NoSpeed
    /\ rate' = IF channel = "open" THEN sending ELSE rate
    /\ missed' = (channel # "open")
    /\ UNCHANGED <<menuVars, stored, commands, channel, dropped>>

(* External: the data channel opens, or never does, and may close.         *)
ChannelStep ==
    /\ \/ channel = "connecting" /\ channel' \in {"open", "closed"}
       \/ channel = "open" /\ channel' = "closed"
    /\ UNCHANGED <<menuVars, stored, commands, loopVars, dropped>>

Menu == Reselect \/ Compare \/ Store \/ TrySend
Loop == Take \/ SendSpeed
SpeedNext == (\E s \in Speeds : Choose(s)) \/ Menu \/ Loop \/ ChannelStep

(* The timer fires again and again and callbacks end; the loop is polled   *)
(* as long as there is a command. Nobody makes the user choose, or the     *)
(* channel open.                                                           *)
SpeedFairness == WF_speedVars(Menu) /\ WF_speedVars(Loop)
SpeedSpec == SpeedInit /\ [][SpeedNext]_speedVars /\ SpeedFairness

-----------------------------------------------------------------------------
(* Properties.                                                             *)

SpeedTypeOK ==
    /\ {selected, stored, rate} \subseteq Speeds /\ sending \in Speeds \cup {NoSpeed}
    /\ commands \in Seq(Speeds) /\ Len(commands) <= Capacity
    /\ notify \in {"idle", "compare", "store", "send"}
    /\ channel \in {"connecting", "open", "closed"}
    /\ choices \in 0 .. MaxChoices /\ {dropped, missed} \subseteq BOOLEAN

(* While nothing is under way the server plays at the speed stored, in     *)
(* whatever order the menu, the timer and the loop stored theirs, unless   *)
(* the last speed sent did not reach it: a later one that does puts it     *)
(* right (timeline.rs:643, archive_loop.rs:121).                           *)
SettledRate ==
    /\ notify \in {"idle", "compare", "store"}
    /\ commands = <<>> /\ sending = NoSpeed
    /\ ~dropped /\ ~missed
    => rate = stored

(* Once the user leaves the menu alone, the timer, the callback it sets    *)
(* off and the loop cease to undo each other's speed: the menu shows the   *)
(* speed stored, and the server plays at it unless a command was dropped   *)
(* or the last send has failed.                                            *)
SpeedsConverge == <>[](selected = stored /\ (dropped \/ missed \/ stored = rate))

-----------------------------------------------------------------------------
(* What the code does not do: the user's last choice may be undone by the  *)
(* speed of an older command, and a command the channel has no room for    *)
(* leaves the menu at a speed the server does not know of.                 *)
ChoiceKept == [][selected' # selected => choices' # choices]_speedVars
NothingDropped == ~dropped
=============================================================================
