----------------------- MODULE VideoPipeline_proofs ------------------------
(***************************************************************************)
(* Proofs about the way of the frames, for any capacity of the channel,    *)
(* any payload types and any length of the track.                          *)
(***************************************************************************)
EXTENDS VideoPipeline, TLAPS

(* Why packets keep their order: they are on their way one after the       *)
(* other, the one taken last is at the worker, and nothing it has to show  *)
(* is older than what is shown.                                            *)
Taken == position - Undecoded

InHand ==
    /\ reader.at = "send" => reader.packet \in Packets /\ reader.packet.id = read
    /\ worker.at \in {"choose", "push", "store"} => worker.packet \in Packets

OnTheWay ==
    /\ position = read
    /\ \A i \in 1 .. Len(channel) : channel[i].id = Taken + i
    /\ worker.at \in {"choose", "push"} =>
          /\ worker.packet.id = Taken /\ frame < Taken
          /\ \A p \in decoder.fed : p.id < Taken
    /\ \A p \in decoder.fed : p.id <= Taken

Forward ==
    /\ ui.shown <= frame /\ frame <= Taken
    /\ \A p \in decoder.fed : p.id <= decoder.given \/ frame <= p.id
    /\ worker.at = "store" =>
          /\ worker.packet.id = decoder.given
          /\ frame <= worker.packet.id /\ worker.packet.id <= Taken

OneCodec ==
    /\ OneCodecPerDecoder
    /\ worker.at = "push" =>
          /\ worker.packet.pt = decoder.pt
          /\ worker.packet.pt \in DOMAIN KindOf /\ decoder.kind = KindOf[decoder.pt]

Inv == TypeOK /\ InHand /\ OnTheWay /\ Forward /\ OneCodec

-----------------------------------------------------------------------------
(* Types.                                                                  *)

(* The kind of a payload type the player knows.                            *)
LEMMA KindKnown ==
    ASSUME NEW pt \in DOMAIN KindOf
    PROVE  KindOf[pt] \in {"H264", "H265"}
BY DEF KindOf

LEMMA PacketFields ==
    /\ \A p \in Packets : p.id \in 1 .. MaxPackets /\ p.pt \in PayloadTypes
    /\ None \notin Packets
BY ConstantsAssumption DEF Packets, None

LEMMA TypeInit == Init => TypeOK
<1> SUFFICES ASSUME Init PROVE TypeOK
  OBVIOUS
<1>1. read \in 0 .. MaxPackets /\ position \in 0 .. MaxPackets /\ frame \in 0 .. MaxPackets
      /\ note \in 0 .. 1
  BY ConstantsAssumption DEF Init
<1>2. channel \in Seq(Packets) /\ Len(channel) <= Buffer
  BY ConstantsAssumption DEF Init
<1>3. reader \in [at : {"read", "send", "ended"}, packet : Packets \cup {None}]
  BY DEF Init
<1>4. worker \in [at : {"recv", "choose", "push", "store", "notify", "ended"},
                  packet : Packets \cup {None}]
  BY DEF Init
<1>5. decoder \in [kind : {"none", "H264", "H265"}, pt : PayloadTypes \cup {0},
                   fed : SUBSET Packets, given : 0 .. MaxPackets]
  BY ConstantsAssumption DEF Init, Fresh
<1>6. ui \in [queued : BOOLEAN, shown : 0 .. MaxPackets]
  BY ConstantsAssumption DEF Init
<1>7. QED
  BY <1>1, <1>2, <1>3, <1>4, <1>5, <1>6 DEF TypeOK

LEMMA TypeStep ==
    ASSUME TypeOK, InHand, [Next]_vars
    PROVE  TypeOK' /\ InHand'
<1> USE ConstantsAssumption DEF TypeOK, InHand, Goto
<1>1. ASSUME NEW pt \in PayloadTypes, Read(pt)
      PROVE  TypeOK' /\ InHand'
  <2>1. [id |-> read + 1, pt |-> pt] \in Packets /\ read + 1 \in 0 .. MaxPackets
    BY <1>1 DEF Read, Packets
  <2>2. QED
    BY <1>1, <2>1 DEF Read
<1>2. CASE Send
  BY <1>2 DEF Send
<1>3. CASE TrackEnds
  BY <1>3 DEF TrackEnds
<1>4. CASE Receive
  <2>1. /\ Head(channel) \in Packets /\ Tail(channel) \in Seq(Packets)
        /\ Len(Tail(channel)) <= Buffer
    BY <1>4 DEF Receive
  <2>2. QED
    BY <1>4, <2>1 DEF Receive
<1>5. CASE DropUnknown
  BY <1>5 DEF DropUnknown
<1>6. CASE ChooseDecoder
  <2>1. worker.packet \in Packets /\ worker.packet.pt \in PayloadTypes
    BY <1>6, PacketFields DEF ChooseDecoder
  <2>2. KindOf[worker.packet.pt] \in {"H264", "H265"}
    BY <1>6, KindKnown DEF ChooseDecoder
  <2>3. /\ Fresh(KindOf[worker.packet.pt], worker.packet.pt) \in
              [kind : {"none", "H264", "H265"}, pt : PayloadTypes \cup {0},
               fed : SUBSET Packets, given : 0 .. MaxPackets]
        /\ Fresh("none", worker.packet.pt) \in
              [kind : {"none", "H264", "H265"}, pt : PayloadTypes \cup {0},
               fed : SUBSET Packets, given : 0 .. MaxPackets]
    BY <2>1, <2>2 DEF Fresh
  <2>4. /\ worker' \in [at : {"recv", "push"}, packet : Packets \cup {None}]
        /\ worker'.at = "push" => worker'.packet \in Packets
    BY <1>6, <2>1 DEF ChooseDecoder
  <2>5. decoder' \in [kind : {"none", "H264", "H265"}, pt : PayloadTypes \cup {0},
                      fed : SUBSET Packets, given : 0 .. MaxPackets]
    BY <1>6, <2>3 DEF ChooseDecoder
  <2>6. UNCHANGED <<read, reader, position, channel, frame, note, ui>>
    BY <1>6 DEF ChooseDecoder
  <2>7. QED
    BY <2>4, <2>5, <2>6
<1>7. CASE Push
  <2> DEFINE fed == decoder.fed \cup {worker.packet}
  <2>1. fed \in SUBSET Packets
    BY <1>7 DEF Push
  <2>2. CASE decoder' = [decoder EXCEPT !.fed = fed] /\ Goto("recv", None)
    BY <1>7, <2>1, <2>2 DEF Push
  <2>3. ASSUME NEW p \in fed, decoder' = [decoder EXCEPT !.fed = fed, !.given = p.id],
               Goto("store", p)
        PROVE  TypeOK' /\ InHand'
    <3>1. p \in Packets /\ p.id \in 0 .. MaxPackets
      BY <2>1, PacketFields
    <3>2. QED
      BY <1>7, <2>1, <2>3, <3>1 DEF Push
  <2>4. QED
    BY <1>7, <2>2, <2>3 DEF Push
<1>8. CASE Store
  BY <1>8, PacketFields DEF Store
<1>9. CASE Notify \/ Finish
  BY <1>9 DEF Notify, Finish
<1>10. CASE Tick
  <2>1. ui' \in [queued : BOOLEAN, shown : 0 .. MaxPackets]
    <3>1. ui' = [queued |-> TRUE, shown |-> ui.shown]
      BY <1>10 DEF Tick
    <3>2. QED
      BY <3>1
  <2>2. QED
    BY <1>10, <2>1 DEF Tick
<1>11. CASE Draw
  BY <1>11 DEF Draw
<1>12. CASE UNCHANGED vars
  BY <1>12 DEF vars
<1>13. QED
  BY <1>1, <1>2, <1>3, <1>4, <1>5, <1>6, <1>7, <1>8, <1>9, <1>10, <1>11, <1>12
     DEF Next, Decoding

-----------------------------------------------------------------------------
(* Order.                                                                  *)

LEMMA TakenNat ==
    ASSUME TypeOK
    PROVE  Taken \in Int /\ Undecoded \in Nat
BY DEF TypeOK, Taken, Undecoded

(* What feeding a decoder changes.                                         *)
LEMMA PushResult ==
    ASSUME TypeOK, Push
    PROVE  /\ decoder'.fed = decoder.fed \cup {worker.packet}
           /\ decoder'.kind = decoder.kind /\ decoder'.pt = decoder.pt
           /\ worker.at = "push" /\ worker'.at \in {"recv", "store"}
           /\ UNCHANGED <<read, reader, position, channel, frame, note, ui>>
<1> DEFINE fed == decoder.fed \cup {worker.packet}
<1>1. CASE decoder' = [decoder EXCEPT !.fed = fed] /\ Goto("recv", None)
  BY <1>1 DEF Push, TypeOK, Goto
<1>2. ASSUME NEW p \in fed, decoder' = [decoder EXCEPT !.fed = fed, !.given = p.id],
             Goto("store", p)
      PROVE  /\ decoder'.fed = fed /\ decoder'.kind = decoder.kind
             /\ decoder'.pt = decoder.pt /\ worker'.at = "store"
  BY <1>2 DEF TypeOK, Goto
<1>3. QED
  BY <1>1, <1>2 DEF Push

(* The reader and the channel: what has been taken stays taken.            *)
LEMMA ReaderStep ==
    ASSUME Inv, \/ \E pt \in PayloadTypes : Read(pt)
                \/ Send \/ TrackEnds
    PROVE  /\ OnTheWay' /\ Taken' = Taken
           /\ UNCHANGED <<worker, decoder, frame, ui>>
<1> USE DEF Inv, TypeOK, InHand, OnTheWay, Taken, Undecoded
<1>1. ASSUME NEW pt \in PayloadTypes, Read(pt)
      PROVE  Taken' = Taken /\ UNCHANGED <<channel, worker, decoder, frame, ui>> /\ position' = read'
  BY <1>1 DEF Read
<1>2. CASE TrackEnds
  BY <1>2 DEF TrackEnds
<1>3. CASE Send
  <2>1. /\ Taken' = Taken /\ UNCHANGED <<worker, decoder, frame, ui, position, read>>
        /\ channel' = Append(channel, reader.packet) /\ reader.packet.id = Taken + Len(channel) + 1
    BY <1>3, TakenNat DEF Send
  <2>2. ASSUME NEW i \in 1 .. Len(channel')
        PROVE  channel'[i].id = Taken + i
    <3>1. Len(channel') = Len(channel) + 1 /\ channel'[Len(channel) + 1] = reader.packet
      BY <2>1
    <3>2. CASE i \in 1 .. Len(channel)
      BY <2>1, <3>2
    <3>3. CASE i = Len(channel) + 1
      BY <2>1, <3>1, <3>3, TakenNat
    <3>4. QED
      BY <3>1, <3>2, <3>3
  <2>3. QED
    BY <2>1, <2>2
<1>4. QED
  BY <1>1, <1>2, <1>3

LEMMA WayStep ==
    ASSUME Inv, [Next]_vars
    PROVE  OnTheWay'
<1> USE DEF Goto
<1>1. CASE (\E pt \in PayloadTypes : Read(pt)) \/ Send \/ TrackEnds
  BY <1>1, ReaderStep
<1>2. CASE Receive
  <2>1. /\ channel' = Tail(channel) /\ worker' = [at |-> "choose", packet |-> Head(channel)]
        /\ channel # <<>> /\ UNCHANGED <<read, reader, position, decoder, frame>>
    BY <1>2 DEF Receive
  <2>2. Taken' = Taken + 1 /\ Taken \in Int
    BY <2>1, TakenNat DEF Taken, Undecoded, Inv, TypeOK
  <2>3. Head(channel).id = Taken + 1
    BY <2>1 DEF Inv, OnTheWay, TypeOK
  <2>4. \A i \in 1 .. Len(channel') : channel'[i].id = Taken' + i
    BY <2>1, <2>2 DEF Inv, OnTheWay, TypeOK
  <2>5. frame < Taken'
    BY <2>2 DEF Inv, Forward, TypeOK
  <2>6. \A p \in decoder.fed : p.id < Taken' /\ p.id <= Taken'
    BY <2>2, PacketFields DEF Inv, OnTheWay, TypeOK
  <2>7. QED
    BY <2>1, <2>2, <2>3, <2>4, <2>5, <2>6 DEF Inv, OnTheWay
<1>3. ASSUME UNCHANGED <<read, reader, position, channel>>
      PROVE  Taken' = Taken
  BY <1>3 DEF Taken, Undecoded
<1>4. CASE DropUnknown
  BY <1>3, <1>4 DEF DropUnknown, Inv, OnTheWay
<1>5. CASE ChooseDecoder
  <2>1. decoder'.fed = decoder.fed \/ decoder'.fed = {}
    BY <1>5 DEF ChooseDecoder, Fresh
  <2>2. worker'.at \in {"choose", "push"} => worker'.packet = worker.packet
    BY <1>5 DEF ChooseDecoder
  <2>3. worker.at = "choose" /\ UNCHANGED <<read, reader, position, channel, frame>>
    BY <1>5 DEF ChooseDecoder
  <2>4. QED
    BY <1>3, <2>1, <2>2, <2>3 DEF Inv, OnTheWay
<1>6. CASE Push
  <2>1. decoder'.fed = decoder.fed \cup {worker.packet}
    BY <1>6, PushResult DEF Inv
  <2>2. /\ worker.at = "push" /\ UNCHANGED <<read, reader, position, channel, frame>>
        /\ worker'.at \notin {"choose", "push"}
    BY <1>6, PushResult DEF Inv
  <2>3. \A p \in decoder'.fed : p.id <= Taken
    BY <2>1, <2>2, TakenNat DEF Inv, OnTheWay
  <2>4. QED
    BY <1>3, <2>2, <2>3 DEF Inv, OnTheWay
<1>7. CASE Store \/ Notify \/ Finish
  BY <1>3, <1>7 DEF Store, Notify, Finish, Inv, OnTheWay
<1>8. CASE Tick \/ Draw
  BY <1>3, <1>8 DEF Tick, Draw, Inv, OnTheWay
<1>9. CASE UNCHANGED vars
  BY <1>3, <1>9 DEF vars, Inv, OnTheWay
<1>10. QED
  BY <1>1, <1>2, <1>4, <1>5, <1>6, <1>7, <1>8, <1>9 DEF Next, Decoding

LEMMA ForwardStep ==
    ASSUME Inv, [Next]_vars
    PROVE  Forward'
<1> USE DEF Goto
<1>1. CASE (\E pt \in PayloadTypes : Read(pt)) \/ Send \/ TrackEnds
  BY <1>1, ReaderStep DEF Inv, Forward
<1>2. CASE Receive
  <2>1. /\ channel' = Tail(channel) /\ worker'.at = "choose" /\ channel # <<>>
        /\ UNCHANGED <<read, reader, position, decoder, frame, ui>>
    BY <1>2 DEF Receive
  <2>2. Taken' = Taken + 1 /\ Taken \in Int
    BY <2>1, TakenNat DEF Taken, Undecoded, Inv, TypeOK
  <2>3. frame <= Taken'
    BY <2>2 DEF Inv, Forward, TypeOK
  <2>4. QED
    BY <2>1, <2>3 DEF Inv, Forward
<1>3. ASSUME UNCHANGED <<read, reader, position, channel>>
      PROVE  Taken' = Taken
  BY <1>3 DEF Taken, Undecoded
<1>4. CASE DropUnknown
  BY <1>3, <1>4 DEF DropUnknown, Inv, Forward
<1>5. CASE ChooseDecoder
  <2>1. decoder' = decoder \/ decoder'.fed = {}
    BY <1>5 DEF ChooseDecoder, Fresh
  <2>2. worker'.at # "store" /\ UNCHANGED <<read, reader, position, channel, frame, ui>>
    BY <1>5 DEF ChooseDecoder
  <2>3. QED
    BY <1>3, <2>1, <2>2 DEF Inv, Forward
<1>6. CASE Push
  <2> DEFINE fed == decoder.fed \cup {worker.packet}
  <2>1. /\ worker.at = "push" /\ Taken' = Taken
        /\ UNCHANGED <<read, reader, position, channel, frame, ui>>
    BY <1>3, <1>6 DEF Push
  <2>2. /\ \A p \in fed : p.id <= decoder.given \/ frame <= p.id
        /\ \A p \in fed : p.id <= Taken /\ p.id \in Nat
        /\ frame \in Nat /\ decoder.given \in Nat
    <3>1. \A p \in fed : p.id <= decoder.given \/ frame <= p.id
      BY <2>1, TakenNat DEF Inv, Forward, OnTheWay, TypeOK
    <3>2. \A p \in fed : p.id <= Taken
      BY <2>1, TakenNat DEF Inv, OnTheWay
    <3>3. \A p \in fed : p.id \in Nat
      BY <2>1, PacketFields DEF Inv, InHand, TypeOK
    <3>4. QED
      BY <3>1, <3>2, <3>3 DEF Inv, TypeOK
  <2>3. CASE decoder' = [decoder EXCEPT !.fed = fed] /\ Goto("recv", None)
    <3>1. decoder'.fed = fed /\ decoder'.given = decoder.given /\ worker'.at # "store"
      BY <2>3 DEF Inv, TypeOK
    <3>2. QED
      BY <2>1, <2>2, <3>1 DEF Inv, Forward
  <2>4. ASSUME NEW p \in fed, p.id > decoder.given, Goto("store", p),
               decoder' = [decoder EXCEPT !.fed = fed, !.given = p.id]
        PROVE  Forward'
    <3>1. decoder'.fed = fed /\ decoder'.given = p.id /\ worker'.packet = p
      BY <2>4 DEF Inv, TypeOK
    <3>2. frame <= p.id /\ p.id <= Taken
      BY <2>2, <2>4
    <3>3. \A q \in fed : q.id <= p.id \/ frame <= q.id
      BY <2>2, <2>4
    <3>4. QED
      BY <2>1, <3>1, <3>2, <3>3 DEF Inv, Forward
  <2>5. QED
    BY <1>6, <2>3, <2>4 DEF Push
<1>7. CASE Store
  <2>1. /\ frame' = decoder.given /\ frame <= frame' /\ frame' <= Taken
        /\ worker'.at = "notify" /\ Taken' = Taken /\ UNCHANGED <<decoder, ui>>
    BY <1>3, <1>7 DEF Store, Inv, Forward
  <2>2. ui.shown \in Nat /\ frame \in Nat /\ decoder.given \in Nat
    BY DEF Inv, TypeOK
  <2>3. \A p \in decoder.fed : p.id \in Nat
    BY PacketFields DEF Inv, TypeOK
  <2>4. \A p \in decoder'.fed : p.id <= decoder'.given \/ frame' <= p.id
    BY <2>1, <2>2, <2>3
  <2>5. ui'.shown <= frame'
    BY <2>1, <2>2 DEF Inv, Forward
  <2>6. QED
    BY <2>1, <2>4, <2>5 DEF Forward
<1>8. CASE Notify \/ Finish
  BY <1>3, <1>8 DEF Notify, Finish, Inv, Forward
<1>9. CASE Tick
  BY <1>3, <1>9 DEF Tick, Inv, Forward, TypeOK
<1>10. CASE Draw
  BY <1>3, <1>10 DEF Draw, Inv, Forward, TypeOK
<1>11. CASE UNCHANGED vars
  BY <1>3, <1>11 DEF vars, Inv, Forward
<1>12. QED
  BY <1>1, <1>2, <1>4, <1>5, <1>6, <1>7, <1>8, <1>9, <1>10, <1>11 DEF Next, Decoding

-----------------------------------------------------------------------------
(* Codecs.                                                                 *)

LEMMA CodecStep ==
    ASSUME Inv, [Next]_vars
    PROVE  OneCodec'
<1> USE DEF Goto
<1>1. CASE UNCHANGED <<worker, decoder>>
  BY <1>1 DEF Inv, OneCodec, OneCodecPerDecoder
<1>2. CASE UNCHANGED decoder /\ worker'.at # "push"
  BY <1>2 DEF Inv, OneCodec, OneCodecPerDecoder
<1>3. CASE ChooseDecoder
  <2>1. CASE decoder' = decoder
    BY <1>3, <2>1 DEF ChooseDecoder, Fresh, Inv, OneCodec, OneCodecPerDecoder
  <2>2. CASE decoder' # decoder
    BY <1>3, <2>2 DEF ChooseDecoder, Fresh, OneCodec, OneCodecPerDecoder
  <2>3. QED
    BY <2>1, <2>2
<1>4. CASE Push
  <2>1. /\ decoder'.fed = decoder.fed \cup {worker.packet}
        /\ decoder'.kind = decoder.kind /\ decoder'.pt = decoder.pt
        /\ worker.at = "push" /\ worker'.at # "push"
    BY <1>4, PushResult DEF Inv
  <2>2. QED
    BY <2>1 DEF Inv, OneCodec, OneCodecPerDecoder
<1>5. QED
  BY <1>1, <1>2, <1>3, <1>4
     DEF Next, Decoding, Read, Send, TrackEnds, Receive, DropUnknown, Store, Notify, Finish,
         Tick, Draw, vars

-----------------------------------------------------------------------------
(* The theorems.                                                           *)

LEMMA Invariant == Spec => []Inv
<1>1. Init => Inv
  <2> SUFFICES ASSUME Init PROVE Inv
    OBVIOUS
  <2>1. TypeOK /\ InHand
    BY TypeInit DEF Init, InHand
  <2>2. Undecoded = 0 /\ Taken = 0 /\ Len(channel) = 0
    <3>1. Len(channel) = 0 /\ reader.at # "send" /\ position = 0
      BY DEF Init
    <3>2. Undecoded = Len(channel) + 0
      BY <3>1 DEF Undecoded
    <3>3. QED
      BY <3>1, <3>2 DEF Taken
  <2>3. OnTheWay /\ Forward /\ OneCodec
    BY <2>2 DEF Init, Fresh, OnTheWay, Forward, OneCodec, OneCodecPerDecoder
  <2>4. QED
    BY <2>1, <2>3 DEF Inv
<1>2. Inv /\ [Next]_vars => Inv'
  <2> SUFFICES ASSUME Inv, [Next]_vars PROVE Inv'
    OBVIOUS
  <2>1. TypeOK' /\ InHand'
    BY TypeStep DEF Inv
  <2>2. QED
    BY <2>1, WayStep, ForwardStep, CodecStep DEF Inv
<1>3. QED
  BY <1>1, <1>2, PTL DEF Spec

(* The shape of the state; the channel keeps its capacity.                 *)
THEOREM TypeCorrect == Spec => []TypeOK
<1>1. Inv => TypeOK
  BY DEF Inv
<1>2. QED
  BY <1>1, Invariant, PTL

(* No decoder is fed packets of two payload types (webrtc_offer.rs:465).   *)
THEOREM CodecsApart == Spec => []OneCodecPerDecoder
<1>1. Inv => OneCodecPerDecoder
  BY DEF Inv, OneCodec
<1>2. QED
  BY <1>1, Invariant, PTL

(* The playhead runs ahead of the decoder by the channel and one packet,   *)
(* and the picture is never ahead of the playhead (webrtc_offer.rs:419).   *)
THEOREM PlayheadNear == Spec => []PlayheadNearPicture
<1>1. Inv => PlayheadNearPicture
  <2> SUFFICES ASSUME Inv PROVE PlayheadNearPicture
    OBVIOUS
  <2>1. Undecoded \in Nat /\ Undecoded <= Buffer + 1 /\ Taken = position - Undecoded
    BY ConstantsAssumption DEF Inv, TypeOK, Undecoded, Taken
  <2>2. ui.shown <= frame /\ frame <= position
    BY <2>1 DEF Inv, TypeOK, Forward
  <2>3. QED
    BY <2>1, <2>2 DEF Inv, OnTheWay, PlayheadNearPicture
<1>2. QED
  BY <1>1, Invariant, PTL
=============================================================================
