------------------------------ MODULE DcBridge ------------------------------
(***************************************************************************)
(* The way of a message from the data channels to the archive loop         *)
(* (src/webrtc_offer.rs, src/main.rs): the on_message callback puts it     *)
(* into a std channel, a bridge thread moves it to a tokio channel, and    *)
(* the loop takes it from there.                                           *)
(*                                                                         *)
(* The callback runs on a worker thread of the tokio runtime and blocks it *)
(* while the std channel is full. The loop is a task of the same runtime:  *)
(* it needs a worker that is not blocked. The bridge is a thread of its    *)
(* own and needs none.                                                     *)
(***************************************************************************)
EXTENDS Naturals, Sequences, FiniteSets

CONSTANTS
    Channels,     \* our data channel, and one the server may open
    Workers,      \* worker threads of the runtime, by default one per core
    SyncCapacity, \* capacity of the std channel (64)
    LoopCapacity, \* capacity of the tokio channel (64)
    PerChannel    \* bound: messages the server sends on each channel

ASSUME ChannelsAssumption == IsFiniteSet(Channels)
ASSUME CapacityAssumption ==
    /\ Workers \in Nat \ {0}
    /\ SyncCapacity \in Nat \ {0} /\ LoopCapacity \in Nat \ {0}
    /\ PerChannel \in Nat

VARIABLES
    arrived,   \* how many messages of each channel reached its callback
    callback,  \* the message each channel's callback holds
    syncQueue, \* sync_tx to sync_rx
    bridge,    \* the bridge thread: the message it holds, or exited
    loopQueue, \* tokio_tx to message_rx
    loop,      \* the loop: not spawned yet, running, or never to be spawned
    sent,      \* history: messages accepted by the std channel
    received   \* history: messages the loop has taken

vars == <<arrived, callback, syncQueue, bridge, loopQueue, loop, sent, received>>

Message == [channel : Channels, number : 1 .. PerChannel]
NoMessage == [channel |-> "none", number |-> 0]
Exited == [channel |-> "exited", number |-> 0]

ASSUME NamesAssumption == {"none", "exited"} \cap Channels = {}

Init ==
    /\ arrived = [c \in Channels |-> 0]
    /\ callback = [c \in Channels |-> NoMessage]
    /\ syncQueue = <<>>
    /\ bridge = NoMessage
    /\ loopQueue = <<>>
    /\ loop = "starting"
    /\ sent = <<>> /\ received = <<>>

Blocked == {c \in Channels : callback[c] # NoMessage}
WorkerFree == Cardinality(Blocked) < Workers

(* The read loop of a channel calls on_message: a worker is taken.         *)
EnterCallbackOverwriting(c) == \* mutant: the callback does not wait its turn
    /\ WorkerFree
    /\ arrived[c] < PerChannel
    /\ arrived' = [arrived EXCEPT ![c] = @ + 1]
    /\ callback' = [callback EXCEPT ![c] = [channel |-> c, number |-> arrived[c] + 1]]
    /\ UNCHANGED <<syncQueue, bridge, loopQueue, loop, sent, received>>

EnterCallback(c) ==
    /\ WorkerFree
    /\ callback[c] = NoMessage /\ arrived[c] < PerChannel
    /\ arrived' = [arrived EXCEPT ![c] = @ + 1]
    /\ callback' = [callback EXCEPT ![c] = [channel |-> c, number |-> arrived[c] + 1]]
    /\ UNCHANGED <<syncQueue, bridge, loopQueue, loop, sent, received>>

SendSyncUnbounded(c) == \* mutant: the std channel has no bound
    /\ callback[c] # NoMessage /\ bridge # Exited
    /\ syncQueue' = Append(syncQueue, callback[c])
    /\ sent' = Append(sent, callback[c])
    /\ callback' = [callback EXCEPT ![c] = NoMessage]
    /\ UNCHANGED <<arrived, bridge, loopQueue, loop, received>>

(* tx.send(s): it returns once the channel has room, and the worker is     *)
(* free again.                                                             *)
SendSync(c) ==
    /\ callback[c] # NoMessage /\ bridge # Exited
    /\ Len(syncQueue) < SyncCapacity
    /\ syncQueue' = Append(syncQueue, callback[c])
    /\ sent' = Append(sent, callback[c])
    /\ callback' = [callback EXCEPT ![c] = NoMessage]
    /\ UNCHANGED <<arrived, bridge, loopQueue, loop, received>>

(* ... or with an error when the bridge has exited: the message is lost.   *)
FailSync(c) ==
    /\ callback[c] # NoMessage /\ bridge = Exited
    /\ callback' = [callback EXCEPT ![c] = NoMessage]
    /\ UNCHANGED <<arrived, syncQueue, bridge, loopQueue, loop, sent, received>>

TakeSyncWhileHolding == \* mutant: the message held is not forwarded first
    /\ bridge # Exited
    /\ syncQueue # <<>>
    /\ bridge' = Head(syncQueue)
    /\ syncQueue' = Tail(syncQueue)
    /\ UNCHANGED <<arrived, callback, loopQueue, loop, sent, received>>

(* The bridge thread: sync_rx.recv(), then blocking_send.                  *)
TakeSync ==
    /\ bridge = NoMessage
    /\ syncQueue # <<>>
    /\ bridge' = Head(syncQueue)
    /\ syncQueue' = Tail(syncQueue)
    /\ UNCHANGED <<arrived, callback, loopQueue, loop, sent, received>>

ForwardAhead == \* mutant: a message goes to the front of the queue
    /\ bridge \notin {NoMessage, Exited}
    /\ loop # "gone" /\ Len(loopQueue) < LoopCapacity
    /\ loopQueue' = <<bridge>> \o loopQueue
    /\ bridge' = NoMessage
    /\ UNCHANGED <<arrived, callback, syncQueue, loop, sent, received>>

Forward ==
    /\ bridge \notin {NoMessage, Exited}
    /\ loop # "gone" /\ Len(loopQueue) < LoopCapacity
    /\ loopQueue' = Append(loopQueue, bridge)
    /\ bridge' = NoMessage
    /\ UNCHANGED <<arrived, callback, syncQueue, loop, sent, received>>

(* message_rx is gone: the thread exits, and sync_rx with it.              *)
ExitBridgeNever == FALSE \* mutant: a failed send is only logged
ExitBridge ==
    /\ bridge \notin {NoMessage, Exited}
    /\ loop = "gone"
    /\ bridge' = Exited
    /\ syncQueue' = <<>>
    /\ UNCHANGED <<arrived, callback, loopQueue, loop, sent, received>>

(* main spawns the loop, or returns early and drops what build_offer made. *)
StartLoop ==
    /\ loop = "starting"
    /\ loop' = "running"
    /\ UNCHANGED <<arrived, callback, syncQueue, bridge, loopQueue, sent, received>>

AbandonLoop ==
    /\ loop = "starting"
    /\ loop' = "gone"
    /\ loopQueue' = <<>>
    /\ UNCHANGED <<arrived, callback, syncQueue, bridge, sent, received>>

(* The loop handles a message: any worker that is not blocked runs it.     *)
Handle ==
    /\ loop = "running"
    /\ WorkerFree
    /\ loopQueue # <<>>
    /\ received' = Append(received, Head(loopQueue))
    /\ loopQueue' = Tail(loopQueue)
    /\ UNCHANGED <<arrived, callback, syncQueue, bridge, loop, sent>>

Next ==
    \/ \E c \in Channels : EnterCallback(c) \/ SendSync(c) \/ FailSync(c)
    \/ TakeSync \/ Forward \/ ExitBridge
    \/ StartLoop \/ AbandonLoop \/ Handle

Spec == Init /\ [][Next]_vars

(* Threads run; a runtime with a free worker gives every ready task its    *)
(* turn, though others may take the worker first; main gets to its end.    *)
BridgeFairness ==
    /\ \A c \in Channels : SF_vars(SendSync(c)) /\ WF_vars(FailSync(c))
    /\ WF_vars(TakeSync) /\ WF_vars(Forward) /\ WF_vars(ExitBridge)
    /\ SF_vars(Handle)
Fairness ==
    /\ BridgeFairness
    /\ \A c \in Channels : SF_vars(EnterCallback(c))
    /\ WF_vars(StartLoop \/ AbandonLoop)

FairSpec == Spec /\ Fairness

-----------------------------------------------------------------------------
(* Properties.                                                             *)

MessageOr(x) == Message \cup {x}

(* The shape of the state; neither channel holds more than its capacity.   *)
TypeOK ==
    /\ arrived \in [Channels -> 0 .. PerChannel]
    /\ callback \in [Channels -> MessageOr(NoMessage)]
    /\ syncQueue \in Seq(Message) /\ Len(syncQueue) <= SyncCapacity
    /\ bridge \in Message \cup {NoMessage, Exited}
    /\ loopQueue \in Seq(Message) /\ Len(loopQueue) <= LoopCapacity
    /\ loop \in {"starting", "running", "gone"}
    /\ sent \in Seq(Message) /\ received \in Seq(Message)

Held == IF bridge \in {NoMessage, Exited} THEN <<>> ELSE <<bridge>>
InFlight == loopQueue \o Held \o syncQueue

(* Nothing is lost, doubled or reordered on the way: while the loop is not *)
(* given up, what was sent is what was received and what is in flight, in  *)
(* this order.                                                             *)
NothingLost == loop # "gone" => sent = received \o InFlight

(* The bridge implements a queue.                                          *)
Queue == INSTANCE MessageQueue WITH Message <- Message, sent <- sent, received <- received
QueueSpec == Queue!Spec

(* Each callback returns: no worker is blocked for ever, be the loop       *)
(* spawned or given up.                                                    *)
CallbacksReturn ==
    \A c \in Channels : callback[c] # NoMessage ~> callback[c] = NoMessage

-----------------------------------------------------------------------------
(* webrtc_offer.rs:538: the callback's synchronous send does not depend on *)
(* the polling of a future. With as many channels as workers it does: the  *)
(* std channel empties only if the loop is polled.                         *)
SendNeedsNoPolling == CallbacksReturn
=============================================================================
