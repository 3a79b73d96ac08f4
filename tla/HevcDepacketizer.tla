-------------------------- MODULE HevcDepacketizer --------------------------
(***************************************************************************)
(* The HEVC branch of VideoDecoder::push_payload (src/video_decoder.rs):   *)
(* RTP payloads in, NAL units out. A NAL travels alone, with others in an  *)
(* aggregation packet, or cut into fragmentation units. The sender and the *)
(* network are external: packets arrive in order, some of them not at all. *)
(*                                                                         *)
(* Payloads and NALs are sequences of bytes; a NAL has two bytes of header *)
(* and a body, which the depacketizer copies and never looks into: its     *)
(* bytes are the numbers Byte(n, 1) ... that name it. The start code put   *)
(* before every NAL is the cut between two elements of out.                *)
(***************************************************************************)
EXTENDS Integers, Sequences, SequencesExt

CONSTANTS
    NalCount,  \* bound: how many NALs are sent
    MaxBody,   \* bound: the longest body
    Headers    \* first bytes of NAL headers

ASSUME BoundsAssumption ==
    /\ NalCount \in Nat
    /\ MaxBody \in 1 .. 65533  \* the length of a NAL fits two bytes
    /\ Headers \subseteq {b \in 0 .. 255 : (b % 128) \div 2 < 48}

VARIABLES
    sent,     \* history: the NALs sent
    wire,     \* the packets on their way: a payload and the NALs in it
    fu,       \* hevc_fu_buffer, <<>> for none
    out,      \* history: the NALs given to the decoder
    damaged   \* history: the NALs that have lost a packet

vars == <<sent, wire, fu, out, damaged>>

Init ==
    /\ sent = <<>> /\ wire = <<>> /\ out = <<>> /\ fu = <<>>
    /\ damaged = {}

-----------------------------------------------------------------------------
(* Bytes: b & 0x81, (b & 0x7E) >> 1.                                       *)
Kept(b) == 128 * (b \div 128) + (b % 2)
NalType(b) == (b % 128) \div 2

Single == 0 .. 47
Aggregation == 48
Fragmentation == 49

-----------------------------------------------------------------------------
(* The depacketizer.                                                       *)

AggregatedShort(p) == \* mutant: a NAL that ends with the packet is taken for truncated
    LET From[pos \in 3 .. (Len(p) + 1)] ==
          IF pos + 1 > Len(p) THEN <<>>
          ELSE LET n == 256 * p[pos] + p[pos + 1]
                   next == pos + 2 + n
               IN IF n = 0 \/ next > Len(p) THEN <<>>
                  ELSE <<SubSeq(p, pos + 2, next - 1)>> \o From[next]
    IN From[3]

(* The NALs of an aggregation packet: each after two bytes of length, up   *)
(* to the first that is empty or reaches past the end of the packet.       *)
Aggregated(p) ==
    LET From[pos \in 3 .. (Len(p) + 1)] ==
          IF pos + 1 > Len(p) THEN <<>>
          ELSE LET n == 256 * p[pos] + p[pos + 1]
                   next == pos + 2 + n
               IN IF n = 0 \/ next - 1 > Len(p) THEN <<>>
                  ELSE <<SubSeq(p, pos + 2, next - 1)>> \o From[next]
    IN From[3]

Result(buffer, nals) == [fu |-> buffer, nals |-> nals]

FragmentUnmasked(p) == \* mutant: the type of the fragmentation unit is left in the header
    LET e == (p[3] \div 64) % 2 = 1
        whole == (IF p[3] >= 128 THEN <<p[1] + 2 * (p[3] % 64), p[2]>> ELSE fu)
                 \o SubSeq(p, 4, Len(p))
    IN IF e THEN Result(<<>>, <<whole>>) ELSE Result(whole, <<>>)

FragmentKeeping(p) == \* mutant: the end of a NAL leaves it in the buffer
    LET s == p[3] >= 128
        e == (p[3] \div 64) % 2 = 1
        body == SubSeq(p, 4, Len(p))
        begun == <<Kept(p[1]) + 2 * (p[3] % 64), p[2]>> \o body
    IN CASE s /\ e -> Result(fu, <<begun>>)
         [] s /\ ~e -> Result(begun, <<>>)
         [] ~s /\ fu = <<>> -> Result(fu, <<>>)
         [] ~s /\ fu # <<>> -> Result(fu \o body, IF e THEN <<fu \o body>> ELSE <<>>)

(* A fragment: the first one has the start bit and begins the buffer anew, *)
(* the last one has the end bit and empties it; without a start it is      *)
(* dropped.                                                                *)
Fragment(p) ==
    LET s == p[3] >= 128
        e == (p[3] \div 64) % 2 = 1
        body == SubSeq(p, 4, Len(p))
        begun == <<Kept(p[1]) + 2 * (p[3] % 64), p[2]>> \o body
    IN CASE s /\ e -> Result(fu, <<begun>>)
         [] s /\ ~e -> Result(begun, <<>>)
         [] ~s /\ fu = <<>> -> Result(fu, <<>>)
         [] ~s /\ fu # <<>> ->
              IF e THEN Result(<<>>, <<fu \o body>>) ELSE Result(fu \o body, <<>>)

(* Types from 50 on are passed on like single NALs.                        *)
Depacketized(p) ==
    CASE Len(p) < 3 -> Result(fu, <<>>)
      [] Len(p) >= 3 /\ NalType(p[1]) = Aggregation -> Result(fu, Aggregated(p))
      [] Len(p) >= 3 /\ NalType(p[1]) = Fragmentation -> Fragment(p)
      [] OTHER -> Result(fu, <<p>>)

-----------------------------------------------------------------------------
(* The sender.                                                             *)

Byte(n, i) == 65536 * n + i
Body(n, len) == [i \in 1 .. len |-> Byte(n, i)]
Nal(h, n, len) == <<h, 1>> \o Body(n, len)
Lengthed(nal) == <<Len(nal) \div 256, Len(nal) % 256>> \o nal
Packet(payload, nals) == [payload |-> payload, nals |-> nals]

Sends(nals, packets) ==
    /\ wire = <<>>
    /\ Len(sent) + Len(nals) <= NalCount
    /\ sent' = sent \o nals
    /\ wire' = packets
    /\ UNCHANGED <<fu, out, damaged>>

Upcoming == Len(sent) + 1

SendSingle ==
    \E h \in Headers, len \in 1 .. MaxBody :
        LET nal == Nal(h, Upcoming, len)
        IN Sends(<<nal>>, <<Packet(nal, {Upcoming})>>)

Pair(a, b) == <<2 * Aggregation, 1>> \o Lengthed(a) \o Lengthed(b)

SendAggregated ==
    \E h \in Headers, len, len2 \in 1 .. MaxBody :
        LET a == Nal(h, Upcoming, len)
            b == Nal(h, Upcoming + 1, len2)
        IN Sends(<<a, b>>, <<Packet(Pair(a, b), {Upcoming, Upcoming + 1})>>)

(* The i-th fragment of a NAL: one byte of its body.                       *)
Unit(h, n, len, i) ==
    LET start == IF i = 1 THEN 128 ELSE 0
        end == IF i = len THEN 64 ELSE 0
    IN <<Kept(h) + 2 * Fragmentation, 1, start + end + NalType(h), Byte(n, i)>>

SendFragmented ==
    \E h \in Headers, len \in 1 .. MaxBody :
        Sends(<<Nal(h, Upcoming, len)>>,
              [i \in 1 .. len |-> Packet(Unit(h, Upcoming, len, i), {Upcoming})])

-----------------------------------------------------------------------------

(* push_payload, up to the decoder.                                        *)
Push ==
    /\ wire # <<>>
    /\ LET r == Depacketized(Head(wire).payload)
       IN fu' = r.fu /\ out' = out \o r.nals
    /\ wire' = Tail(wire)
    /\ UNCHANGED <<sent, damaged>>

Lose ==
    /\ wire # <<>>
    /\ damaged' = damaged \cup Head(wire).nals
    /\ wire' = Tail(wire)
    /\ UNCHANGED <<sent, fu, out>>

Next == SendSingle \/ SendAggregated \/ SendFragmented \/ Push \/ Lose

Spec == Init /\ [][Next]_vars

-----------------------------------------------------------------------------
(* Properties.                                                             *)

BodyBytes == {Byte(n, i) : n \in 1 .. NalCount, i \in 1 .. MaxBody}

TypeOK ==
    /\ \A s \in ({fu} \ {<<>>}) \cup ToSet(out) \cup ToSet(sent) :
          /\ Len(s) >= 3
          /\ \A i \in 1 .. Len(s) : s[i] \in IF i <= 2 THEN 0 .. 255 ELSE BodyBytes
    /\ Len(fu) <= NalCount * MaxBody + 2
    /\ damaged \subseteq 1 .. NalCount

(* Until a packet is lost, what comes out is what was sent, byte for byte, *)
(* headers included, in the order of sending, however it was packed.       *)
Reassembled == damaged = {} /\ wire = <<>> => out = sent /\ fu = <<>>

(* Whatever was lost before it, a NAL all of whose packets arrive comes    *)
(* out whole: no leftover of a damaged one is put before it.               *)
RecoversAtStart ==
    wire = <<>> => \A n \in DOMAIN sent : n \notin damaged => sent[n] \in ToSet(out)

(* Which NAL a byte of a body belongs to, and its place there.             *)
Owner(b) == b \div 65536
Place(b) == b % 65536

(* Every NAL that comes out begins as a NAL that was sent does; none comes *)
(* out twice, and the undamaged ones keep the order of sending.            *)
BeginsAtStart ==
    /\ \A i \in DOMAIN out :
         /\ Place(out[i][3]) = 1
         /\ SubSeq(out[i], 1, 2) = SubSeq(sent[Owner(out[i][3])], 1, 2)
    /\ \A i, j \in DOMAIN out : i < j =>
         LET m == Owner(out[i][3])  n == Owner(out[j][3])
         IN m # n /\ ({m, n} \cap damaged = {} => m < n)

(* Loss stays where it is: neither in the NALs that arrive whole nor in    *)
(* what comes out of the others does it show.                              *)
LossContained == RecoversAtStart /\ BeginsAtStart

-----------------------------------------------------------------------------
(* What a comment says of the program, and the code does not do.           *)

(* video_decoder.rs:191: a middle or an end of a NAL without its start is  *)
(* dropped; so what comes out is made of pieces of one NAL.                *)
DropsWithoutStart ==
    \A i \in DOMAIN out : \A k \in 3 .. Len(out[i]) : Owner(out[i][k]) = Owner(out[i][3])
=============================================================================
