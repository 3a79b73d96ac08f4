---------------------------- MODULE VideoPipeline ---------------------------
(***************************************************************************)
(* From the track to the screen (src/webrtc_offer.rs, src/ui/mod.rs): a    *)
(* thread that reads packets and moves the playhead, a bounded channel, a  *)
(* thread that decodes, the shared frame, and the window, which redraws    *)
(* every 33 ms.                                                            *)
(*                                                                         *)
(* Packets are numbered in the order of reading, and a frame has the       *)
(* number of the packet it comes from. ffmpeg is external: a packet gives  *)
(* it some frame it has been fed and not yet given back, or none.          *)
(***************************************************************************)
EXTENDS Integers, Sequences

CONSTANTS
    Buffer,       \* capacity of the payload channel, 8
    PayloadTypes, \* what the server may put into a packet
    MaxPackets    \* bound: how many packets the track has

KindOf == [pt \in {102, 103} |-> IF pt = 102 THEN "H264" ELSE "H265"]

ASSUME ConstantsAssumption ==
    /\ Buffer \in Nat \ {0} /\ MaxPackets \in Nat
    /\ PayloadTypes \subseteq 1 .. 127

VARIABLES
    read,     \* how many packets have been read
    reader,   \* where the reading thread is: [at, packet]
    position, \* the packet the playhead was last set from
    channel,  \* the payload channel
    worker,   \* where the decoding thread is: [at, packet]
    decoder,  \* kind, last_pt, and which packets it was fed and gave back
    frame,    \* shared_frame: the number of its packet, 0 for none
    note,     \* the notification channel, of capacity 1
    ui        \* a redraw is queued; the frame on the screen

vars == <<read, reader, position, channel, worker, decoder, frame, note, ui>>

None == [id |-> 0, pt |-> 0]
Fresh(kind, pt) == [kind |-> kind, pt |-> pt, fed |-> {}, given |-> 0]

Init ==
    /\ read = 0 /\ reader = [at |-> "read", packet |-> None] /\ position = 0
    /\ channel = <<>>
    /\ worker = [at |-> "recv", packet |-> None]
    /\ decoder = Fresh("none", 0)
    /\ frame = 0 /\ note = 0
    /\ ui = [queued |-> FALSE, shown |-> 0]

-----------------------------------------------------------------------------
(* The reading thread: the playhead moves, then the packet is sent.        *)

Read(pt) ==
    /\ reader.at = "read"
    /\ read < MaxPackets
    /\ read' = read + 1
    /\ reader' = [at |-> "send", packet |-> [id |-> read + 1, pt |-> pt]]
    /\ position' = read + 1
    /\ UNCHANGED <<channel, worker, decoder, frame, note, ui>>

SendUnbounded == \* mutant: a channel without capacity
    /\ reader.at = "send"
    /\ channel' = Append(channel, reader.packet)
    /\ reader' = [at |-> "read", packet |-> None]
    /\ UNCHANGED <<read, position, worker, decoder, frame, note, ui>>

Send ==
    /\ reader.at = "send"
    /\ Len(channel) < Buffer
    /\ channel' = Append(channel, reader.packet)
    /\ reader' = [at |-> "read", packet |-> None]
    /\ UNCHANGED <<read, position, worker, decoder, frame, note, ui>>

(* The track ends; the last sender goes with the thread.                   *)
TrackEnds ==
    /\ reader.at = "read"
    /\ reader' = [at |-> "ended", packet |-> None]
    /\ UNCHANGED <<read, position, channel, worker, decoder, frame, note, ui>>

-----------------------------------------------------------------------------
(* The decoding thread.                                                    *)

Goto(at, packet) == worker' = [at |-> at, packet |-> packet]

Receive ==
    /\ worker.at = "recv"
    /\ channel # <<>>
    /\ channel' = Tail(channel)
    /\ Goto("choose", Head(channel))
    /\ UNCHANGED <<read, reader, position, decoder, frame, note, ui>>

DropUnknown ==
    /\ worker.at = "choose"
    /\ worker.packet.pt \notin DOMAIN KindOf
    /\ Goto("recv", None)
    /\ UNCHANGED <<read, reader, position, channel, decoder, frame, note, ui>>

ChooseDecoderOnce == \* mutant: a decoder that exists is kept
    /\ worker.at = "choose"
    /\ worker.packet.pt \in DOMAIN KindOf
    /\ LET pt == worker.packet.pt
       IN decoder' = IF decoder.kind # "none" THEN [decoder EXCEPT !.pt = pt]
                     ELSE Fresh(KindOf[pt], pt)
    /\ Goto("push", worker.packet)
    /\ UNCHANGED <<read, reader, position, channel, frame, note, ui>>

(* A new payload type always means a new decoder, and so does a failure to *)
(* create the last one.                                                    *)
ChooseDecoder ==
    /\ worker.at = "choose"
    /\ worker.packet.pt \in DOMAIN KindOf
    /\ LET pt == worker.packet.pt
       IN IF decoder.pt = pt /\ decoder.kind = KindOf[pt]
          THEN /\ Goto("push", worker.packet)
               /\ UNCHANGED decoder
          ELSE \/ /\ decoder' = Fresh(KindOf[pt], pt)
                  /\ Goto("push", worker.packet)
               \/ /\ decoder' = Fresh("none", pt) \* VideoDecoder::new fails
                  /\ Goto("recv", None)
    /\ UNCHANGED <<read, reader, position, channel, frame, note, ui>>

(* push_payload: of the frames that come out the last is returned.         *)
Push ==
    /\ worker.at = "push"
    /\ LET fed == decoder.fed \cup {worker.packet}
       IN \/ /\ decoder' = [decoder EXCEPT !.fed = fed]
             /\ Goto("recv", None)
          \/ \E p \in fed :
                /\ p.id > decoder.given
                /\ decoder' = [decoder EXCEPT !.fed = fed, !.given = p.id]
                /\ Goto("store", p)
    /\ UNCHANGED <<read, reader, position, channel, frame, note, ui>>

StoreFirst == \* mutant: a frame that has not been drawn yet is kept
    /\ worker.at = "store"
    /\ frame' = IF ui.shown = frame THEN worker.packet.id ELSE frame
    /\ Goto("notify", None)
    /\ UNCHANGED <<read, reader, position, channel, decoder, note, ui>>

Store ==
    /\ worker.at = "store"
    /\ frame' = worker.packet.id
    /\ Goto("notify", None)
    /\ UNCHANGED <<read, reader, position, channel, decoder, note, ui>>

NotifyWaiting == \* mutant: send in place of try_send
    /\ worker.at = "notify"
    /\ note = 0
    /\ note' = 1
    /\ Goto("recv", None)
    /\ UNCHANGED <<read, reader, position, channel, decoder, frame, ui>>

(* try_send: a notification too many is dropped.                           *)
Notify ==
    /\ worker.at = "notify"
    /\ note' = 1
    /\ Goto("recv", None)
    /\ UNCHANGED <<read, reader, position, channel, decoder, frame, ui>>

Finish ==
    /\ worker.at = "recv"
    /\ channel = <<>> /\ reader.at = "ended"
    /\ Goto("ended", None)
    /\ UNCHANGED <<read, reader, position, channel, decoder, frame, note, ui>>

-----------------------------------------------------------------------------
(* The window.                                                             *)

(* The 33 ms timer: notifications are drained and a redraw is queued.      *)
Tick ==
    /\ note' = 0
    /\ ui' = [ui EXCEPT !.queued = TRUE]
    /\ UNCHANGED <<read, reader, position, channel, worker, decoder, frame>>

Draw ==
    /\ ui.queued
    /\ ui' = [queued |-> FALSE, shown |-> frame]
    /\ UNCHANGED <<read, reader, position, channel, worker, decoder, frame, note>>

-----------------------------------------------------------------------------

Decoding ==
    Receive \/ DropUnknown \/ ChooseDecoder \/ Push \/ Store \/ Notify \/ Finish

Next ==
    \/ \E pt \in PayloadTypes : Read(pt)
    \/ Send
    \/ TrackEnds
    \/ Decoding
    \/ Tick
    \/ Draw

(* The two threads run. The server may send nothing more, and GTK may be   *)
(* busy for ever.                                                          *)
Spec == Init /\ [][Next]_vars /\ WF_vars(Send) /\ WF_vars(Decoding)

(* What FramesShown assumes besides: GTK runs.                             *)
WindowFairness == WF_vars(Tick) /\ WF_vars(Draw)

-----------------------------------------------------------------------------
(* Properties.                                                             *)

Packets == [id : 1 .. MaxPackets, pt : PayloadTypes]

(* The shape of the state; the channel keeps its capacity.                 *)
TypeOK ==
    /\ read \in 0 .. MaxPackets /\ position \in 0 .. MaxPackets
    /\ reader \in [at : {"read", "send", "ended"}, packet : Packets \cup {None}]
    /\ channel \in Seq(Packets) /\ Len(channel) <= Buffer
    /\ worker \in [at : {"recv", "choose", "push", "store", "notify", "ended"},
                   packet : Packets \cup {None}]
    /\ decoder \in [kind : {"none", "H264", "H265"}, pt : PayloadTypes \cup {0},
                    fed : SUBSET Packets, given : 0 .. MaxPackets]
    /\ frame \in 0 .. MaxPackets /\ note \in 0 .. 1
    /\ ui \in [queued : BOOLEAN, shown : 0 .. MaxPackets]

(* No decoder is fed packets of two payload types, or of a type it is not  *)
(* for: nothing of the last codec is carried over a switch.                *)
OneCodecPerDecoder ==
    \A p \in decoder.fed : p.pt = decoder.pt /\ decoder.kind = KindOf[p.pt]

(* The packet being decoded, or the last one received.                     *)
Undecoded == Len(channel) + (IF reader.at = "send" THEN 1 ELSE 0)

(* The playhead runs ahead of the decoder by what the channel holds and    *)
(* the packet that is being sent, never more, and no frame is shown before *)
(* the playhead has reached it.                                            *)
PlayheadNearPicture ==
    /\ \A p \in decoder.fed : p.id <= position - Undecoded
    /\ Undecoded <= Buffer + 1
    /\ ui.shown <= frame /\ frame <= position

(* The decoder does not wait for the window: every packet is decoded, and  *)
(* after the end of the track the thread ends, though GTK never runs.      *)
DecoderFinishes == reader.at = "ended" ~> worker.at = "ended"

(* As long as GTK runs, every frame or a later one gets to the screen, and *)
(* never one before it after that, though notifications are dropped, the   *)
(* shared frame is overwritten and codecs alternate.                       *)
FramesShown ==
    WindowFairness =>
        \A i \in 1 .. MaxPackets :
            [](worker.at = "store" /\ worker.packet.id = i => <>[](ui.shown >= i))
=============================================================================
