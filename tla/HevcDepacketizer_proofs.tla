---------------------- MODULE HevcDepacketizer_proofs ----------------------
(***************************************************************************)
(* Proofs about HevcDepacketizer for any number of NALs, any headers and   *)
(* bodies of any length: the type invariant, that without loss what comes  *)
(* out is what was sent, and that loss stays where it is.                  *)
(*                                                                         *)
(* The loop over an aggregation packet is a recursive function. That such  *)
(* a function exists is shown by the least number of bytes before the end  *)
(* of the packet from which it would not.                                  *)
(***************************************************************************)
EXTENDS HevcDepacketizer, SequenceTheorems, WellFoundedInduction, TLAPS

(* What holds of the NALs sent and of the packets on their way: all these  *)
(* packets carry the same NALs, and these are the last ones sent.          *)
InFlight(w) == IF w = <<>> THEN {} ELSE w[1].nals

SentShape(s) ==
    /\ s \in Seq(Seq(Nat)) /\ Len(s) <= NalCount
    /\ \A n \in 1 .. Len(s) : \E h \in Headers, len \in 1 .. MaxBody : s[n] = Nal(h, n, len)

(* What is left of the last NAL's fragments, the k-th first.               *)
Remaining(s, w, h, len, k) ==
    /\ Len(s) > 0 /\ s[Len(s)] = Nal(h, Len(s), len)
    /\ k \in 1 .. len
    /\ w \in Seq([payload : Seq(Nat), nals : SUBSET Nat]) /\ Len(w) = len - k + 1
    /\ \A j \in 1 .. Len(w) : w[j] = Packet(Unit(h, Len(s), len, k - 1 + j), {Len(s)})

Underway(s, w, k) == \E h \in Headers, len \in 1 .. MaxBody : Remaining(s, w, h, len, k)

SinglePacket(s) == <<Packet(s[Len(s)], {Len(s)})>>
PairPacket(s) == <<Packet(Pair(s[Len(s) - 1], s[Len(s)]), {Len(s) - 1, Len(s)})>>

WireShape(s, w) ==
    \/ w = <<>>
    \/ Len(s) > 0 /\ w = SinglePacket(s)
    \/ Len(s) > 1 /\ w = PairPacket(s)
    \/ \E k \in 1 .. MaxBody : Underway(s, w, k)

Halfway(s, w) == \E k \in 2 .. MaxBody : Underway(s, w, k)

(* A NAL, or the beginning of one, that begins as one that was sent.       *)
Begins(s, nal) ==
    LET m == Owner(nal[3]) IN
    /\ nal \in Seq(Nat) /\ Len(nal) >= 3
    /\ \A i \in 3 .. Len(nal) : nal[i] \in BodyBytes
    /\ m \in 1 .. Len(s) /\ Place(nal[3]) = 1
    /\ nal[1] = s[m][1] /\ nal[2] = s[m][2]

(* What is in flight has lost nothing but fragments before those to come.  *)
DamageInv ==
    /\ damaged \subseteq 1 .. Len(sent)
    /\ InFlight(wire) \cap damaged # {} => Halfway(sent, wire)

(* The buffer holds the beginning of a NAL of which nothing came out yet:  *)
(* one that has lost its end, or the one whose fragments are on their way; *)
(* that one, unless it is damaged, up to the next fragment to come.        *)
BufferInv ==
    /\ fu # <<>> =>
         /\ Begins(sent, fu)
         /\ \A i \in 1 .. Len(out) : Owner(out[i][3]) # Owner(fu[3])
         /\ Owner(fu[3]) \in damaged \/ (Owner(fu[3]) = Len(sent) /\ Halfway(sent, wire))
         /\ Len(fu) + Len(wire) <= Len(sent) * MaxBody + 2
    /\ \A h \in Headers, len \in 1 .. MaxBody, k \in 2 .. MaxBody :
          Remaining(sent, wire, h, len, k) /\ Len(sent) \notin damaged => fu = Nal(h, Len(sent), k - 1)

OutInv ==
    /\ out \in Seq(Seq(Nat))
    /\ \A i \in 1 .. Len(out) : Begins(sent, out[i]) /\ Owner(out[i][3]) \notin InFlight(wire)
    /\ \A i, j \in 1 .. Len(out) : i < j =>
          /\ Owner(out[i][3]) # Owner(out[j][3])
          /\ Owner(out[i][3]) \notin damaged /\ Owner(out[j][3]) \notin damaged
                => Owner(out[i][3]) < Owner(out[j][3])
    /\ \A n \in 1 .. Len(sent) :
          n \notin damaged /\ n \notin InFlight(wire) => \E i \in 1 .. Len(out) : out[i] = sent[n]

InOrder ==
    damaged = {} =>
        /\ Len(out) <= Len(sent)
        /\ \A i \in 1 .. Len(sent) : i <= Len(out) <=> i \notin InFlight(wire)
        /\ \A i \in 1 .. Len(out) : out[i] = sent[i]

LossInv ==
    /\ SentShape(sent) /\ WireShape(sent, wire)
    /\ DamageInv /\ BufferInv /\ OutInv /\ InOrder

-----------------------------------------------------------------------------
(* The least member of a set of numbers.                                   *)
LEMMA Smallest ==
    ASSUME NEW T, T \subseteq Nat, T # {}
    PROVE  \E x \in T : \A y \in T : x <= y
<1> DEFINE R == OpToRel(<, Nat)
<1>1. IsWellFoundedOn(R, Nat)
  BY NatLessThanWellFounded
<1>2. \A x, y \in Nat : x < y => <<x, y>> \in R
  BY DEF OpToRel
<1> HIDE DEF R
<1>3. \E x \in T : \A y \in T : ~(<<y, x>> \in R)
  BY <1>1, WFMin
<1>4. PICK x \in T : \A y \in T : ~(<<y, x>> \in R)
  BY <1>3
<1>5. ASSUME NEW y \in T PROVE x <= y
  <2>1. ~(y < x)
    BY <1>2, <1>4
  <2>2. x \in Nat /\ y \in Nat
    OBVIOUS
  <2>3. QED
    BY <2>1, <2>2
<1>6. QED
  BY <1>5

(* What the loop adds from a position on, given what it adds from later    *)
(* ones.                                                                   *)
NalThen(f, p, pos, n) ==
    LET next == pos + 2 + n
    IN IF n = 0 \/ next - 1 > Len(p) THEN <<>>
       ELSE <<SubSeq(p, pos + 2, next - 1)>> \o f[next]

NalsAt(f, p, pos) ==
    IF pos + 1 > Len(p) THEN <<>> ELSE NalThen(f, p, pos, 256 * p[pos] + p[pos + 1])

LEMMA LaterOnly ==
    ASSUME NEW p \in Seq(Nat), NEW f, NEW g, NEW pos \in Nat,  pos >= 3, pos <= Len(p) + 1,
           \A q \in (pos + 1) .. (Len(p) + 1) : f[q] = g[q]
    PROVE  NalsAt(f, p, pos) = NalsAt(g, p, pos)
<1> DEFINE n == 256 * p[pos] + p[pos + 1]
           next == pos + 2 + n
<1>1. CASE pos + 1 > Len(p)
  BY <1>1 DEF NalsAt, NalThen
<1>2. CASE ~(pos + 1 > Len(p)) /\ (n = 0 \/ next - 1 > Len(p))
  BY <1>2 DEF NalsAt, NalThen
<1>3. CASE ~(pos + 1 > Len(p)) /\ ~(n = 0 \/ next - 1 > Len(p))
  <2>1. Len(p) \in Nat /\ pos \in 1 .. Len(p) /\ pos + 1 \in 1 .. Len(p)
    BY <1>3
  <2>2. p[pos] \in Nat /\ p[pos + 1] \in Nat
    BY <2>1
  <2>3. n \in Nat /\ n # 0 /\ next - 1 <= Len(p)
    <3>1. n \in Nat
      BY <2>2
    <3> HIDE DEF n
    <3>2. QED
      BY <1>3, <2>1, <3>1
  <2>4. f[next] = g[next]
    <3> HIDE DEF n
    <3>1. next \in (pos + 1) .. (Len(p) + 1)
      BY <2>1, <2>3
    <3>2. QED
      BY <3>1
  <2>5. QED
    BY <1>3, <2>4 DEF NalsAt, NalThen
<1>4. QED
  BY <1>1, <1>2, <1>3

Loop(p, f, first) ==
    f = [pos \in first .. (Len(p) + 1) |-> NalsAt(f, p, pos)]

LEMMA LoopExists ==
    ASSUME NEW p \in Seq(Nat), Len(p) >= 2
    PROVE  \E f : Loop(p, f, 3)
<1> DEFINE L == Len(p) + 1
           Missing == {d \in Nat : d <= L - 3 /\ ~\E f : Loop(p, f, L - d)}
<1>1. L \in Nat /\ L >= 3
  OBVIOUS
<1>2. SUFFICES ASSUME Missing # {} PROVE FALSE
  <2>1. L - 3 \in Nat /\ L - (L - 3) = 3
    BY <1>1
  <2>2. L - 3 \notin Missing => \E f : Loop(p, f, L - (L - 3))
    BY <2>1
  <2>3. QED
    BY <1>2, <2>1, <2>2
<1>3. PICK d \in Missing : \A y \in Missing : d <= y
  <2> HIDE DEF Missing
  <2>1. Missing \subseteq Nat
    BY DEF Missing
  <2>2. QED
    BY <1>2, <2>1, Smallest
<1>4. d \in Nat /\ d <= L - 3 /\ ~\E f : Loop(p, f, L - d)
  OBVIOUS
<1>5. CASE d = 0
  <2> DEFINE f == [pos \in L .. L |-> <<>>]
  <2>1. f = [pos \in L .. L |-> NalsAt(f, p, pos)]
    <3>1. \A pos \in L .. L : NalsAt(f, p, pos) = <<>>
      BY <1>1 DEF NalsAt
    <3> HIDE DEF NalsAt
    <3>2. QED
      BY <3>1
  <2>2. Loop(p, f, L - d)
    BY <1>1, <1>5, <2>1 DEF Loop
  <2>3. QED
    BY <1>4, <2>2
<1>6. CASE d # 0
  <2>1. d - 1 \in Nat /\ d - 1 <= L - 3
    BY <1>1, <1>4, <1>6
  <2>2. d - 1 \notin Missing
    <3> HIDE DEF Missing
    <3>1. ~(d <= d - 1)
      BY <1>4
    <3>2. QED
      BY <1>3, <3>1
  <2>3. PICK g : Loop(p, g, L - (d - 1))
    BY <2>1, <2>2
  <2> DEFINE k == L - d
             f == [pos \in k .. L |-> IF pos = k THEN NalsAt(g, p, k) ELSE g[pos]]
  <2>4. k \in Nat /\ k >= 3 /\ k <= L /\ L - (d - 1) = k + 1
    BY <1>1, <1>4
  <2> HIDE DEF k
  <2>5. \A q \in (k + 1) .. L : f[q] = g[q] /\ g[q] = NalsAt(g, p, q)
    <3>1. g = [pos \in (k + 1) .. L |-> NalsAt(g, p, pos)]
      BY <2>3, <2>4 DEF Loop
    <3> HIDE DEF NalsAt
    <3> DEFINE h == [pos \in (k + 1) .. L |-> NalsAt(g, p, pos)]
    <3>2. \A q \in (k + 1) .. L : h[q] = NalsAt(g, p, q)
      OBVIOUS
    <3>3. \A q \in (k + 1) .. L : f[q] = g[q]
      BY <1>1, <2>4
    <3>4. g = h
      BY <3>1
    <3> HIDE DEF h, f
    <3>5. QED
      BY <3>2, <3>3, <3>4
  <2>6. \A pos \in k .. L : f[pos] = NalsAt(f, p, pos)
    <3> SUFFICES ASSUME NEW pos \in k .. L PROVE f[pos] = NalsAt(f, p, pos)
      OBVIOUS
    <3> HIDE DEF NalsAt
    <3>1. f[pos] = NalsAt(g, p, pos)
      <4>1. CASE pos = k
        BY <4>1
      <4>2. CASE pos # k
        <5>1. pos \in (k + 1) .. L
          BY <1>1, <2>4, <4>2
        <5>2. QED
          BY <2>5, <5>1
      <4>3. QED
        BY <4>1, <4>2
    <3>2. \A q \in (pos + 1) .. L : f[q] = g[q]
      BY <1>1, <2>4, <2>5
    <3> HIDE DEF f
    <3>3. NalsAt(f, p, pos) = NalsAt(g, p, pos)
      BY <1>1, <2>4, <3>2, LaterOnly
    <3>4. QED
      BY <3>1, <3>3
  <2>7. Loop(p, f, L - d)
    <3> HIDE DEF NalsAt
    <3>1. DOMAIN f = k .. L /\ f = [pos \in k .. L |-> f[pos]]
      OBVIOUS
    <3> HIDE DEF f
    <3>2. f = [pos \in k .. L |-> NalsAt(f, p, pos)]
      BY <2>6, <3>1
    <3>3. QED
      BY <3>2 DEF Loop, k
  <2>8. QED
    BY <1>4, <2>7
<1>7. QED
  BY <1>5, <1>6

(* The loop of push_payload, one turn at a time.                           *)
LEMMA AggregatedLoop ==
    ASSUME NEW p \in Seq(Nat), Len(p) >= 2
    PROVE  \E f : /\ Aggregated(p) = f[3]
                  /\ \A pos \in 3 .. (Len(p) + 1) : f[pos] = NalsAt(f, p, pos)
<1> DEFINE f == CHOOSE f : f = [pos \in 3 .. (Len(p) + 1) |-> NalsAt(f, p, pos)]
<1>1. f = [pos \in 3 .. (Len(p) + 1) |-> NalsAt(f, p, pos)]
  BY LoopExists DEF Loop
<1>2. Aggregated(p) = f[3]
  BY DEF Aggregated, NalsAt, NalThen
<1> HIDE DEF f, NalsAt
<1>3. \A pos \in 3 .. (Len(p) + 1) : f[pos] = NalsAt(f, p, pos)
  BY <1>1
<1>4. QED
  BY <1>2, <1>3

-----------------------------------------------------------------------------
(* An aggregation packet of two NALs, byte by byte.                        *)
LEMMA JoinedAt ==
    ASSUME NEW s \in Seq(Nat), NEW t \in Seq(Nat)
    PROVE  LET j == s \o t IN
           /\ j \in Seq(Nat) /\ Len(j) = Len(s) + Len(t)
           /\ \A i \in 1 .. Len(s) : j[i] = s[i]
           /\ \A i \in 1 .. Len(t) : j[Len(s) + i] = t[i]
  OBVIOUS

LEMMA LengthedAt ==
    ASSUME NEW a \in Seq(Nat)
    PROVE  LET l == Lengthed(a) IN
           /\ l \in Seq(Nat) /\ Len(l) = 2 + Len(a)
           /\ 256 * l[1] + l[2] = Len(a)
           /\ \A i \in 1 .. Len(a) : l[2 + i] = a[i]
<1> DEFINE d == <<Len(a) \div 256, Len(a) % 256>>
<1>1. /\ Len(a) \div 256 \in Nat /\ Len(a) % 256 \in Nat
      /\ 256 * (Len(a) \div 256) + (Len(a) % 256) = Len(a)
  <2>1. Len(a) \in Nat
    OBVIOUS
  <2>2. QED
    BY <2>1
<1>2. d \in Seq(Nat) /\ Len(d) = 2 /\ d[1] = Len(a) \div 256 /\ d[2] = Len(a) % 256
  BY <1>1
<1>3. Lengthed(a) = d \o a
  BY DEF Lengthed
<1> HIDE DEF d
<1>4. LET j == d \o a IN
      /\ j \in Seq(Nat) /\ Len(j) = Len(d) + Len(a)
      /\ \A i \in 1 .. Len(d) : j[i] = d[i]
      /\ \A i \in 1 .. Len(a) : j[Len(d) + i] = a[i]
  BY <1>2, JoinedAt
<1> DEFINE l == Lengthed(a)
<1>5. /\ l \in Seq(Nat) /\ Len(l) = 2 + Len(a)
      /\ \A i \in 1 .. 2 : l[i] = d[i]
      /\ \A i \in 1 .. Len(a) : l[2 + i] = a[i]
  BY <1>2, <1>3, <1>4
<1> HIDE DEF l
<1>6. 256 * l[1] + l[2] = Len(a)
  <2>1. l[1] = d[1] /\ l[2] = d[2]
    BY <1>5
  <2>2. QED
    BY <1>1, <1>2, <2>1
<1>7. QED
  BY <1>5, <1>6 DEF l

Packs(p, a, b) ==
    /\ p \in Seq(Nat) /\ Len(p) = 6 + Len(a) + Len(b)
    /\ p[1] = 96
    /\ 256 * p[3] + p[4] = Len(a)
    /\ \A i \in 1 .. Len(a) : p[4 + i] = a[i]
    /\ 256 * p[5 + Len(a)] + p[6 + Len(a)] = Len(b)
    /\ \A i \in 1 .. Len(b) : p[6 + Len(a) + i] = b[i]

LEMMA PairAt ==
    ASSUME NEW a \in Seq(Nat), NEW b \in Seq(Nat)
    PROVE  Packs(Pair(a, b), a, b)
<1> DEFINE h == <<96, 1>>
           x == Lengthed(a)
           y == Lengthed(b)
           u == h \o x
           p == u \o y
<1>1. h \in Seq(Nat) /\ Len(h) = 2 /\ h[1] = 96
  OBVIOUS
<1>2. /\ x \in Seq(Nat) /\ Len(x) = 2 + Len(a) /\ 256 * x[1] + x[2] = Len(a)
      /\ \A i \in 1 .. Len(a) : x[2 + i] = a[i]
  BY LengthedAt
<1>3. /\ y \in Seq(Nat) /\ Len(y) = 2 + Len(b) /\ 256 * y[1] + y[2] = Len(b)
      /\ \A i \in 1 .. Len(b) : y[2 + i] = b[i]
  BY LengthedAt
<1>4. Pair(a, b) = p
  BY DEF Pair, Aggregation
<1>5. Len(a) \in Nat /\ Len(b) \in Nat
  OBVIOUS
<1> HIDE DEF h, x, y
<1>6. /\ u \in Seq(Nat) /\ Len(u) = 4 + Len(a)
      /\ \A i \in 1 .. 2 : u[i] = h[i]
      /\ \A i \in 1 .. Len(x) : u[2 + i] = x[i]
  <2>1. /\ u \in Seq(Nat) /\ Len(u) = Len(h) + Len(x)
        /\ \A i \in 1 .. Len(h) : u[i] = h[i]
        /\ \A i \in 1 .. Len(x) : u[Len(h) + i] = x[i]
    BY <1>1, <1>2, JoinedAt
  <2> HIDE DEF u
  <2>2. QED
    BY <1>1, <1>2, <1>5, <2>1
<1> HIDE DEF u
<1>7. /\ p \in Seq(Nat) /\ Len(p) = 6 + Len(a) + Len(b)
      /\ \A i \in 1 .. Len(u) : p[i] = u[i]
      /\ \A i \in 1 .. Len(y) : p[4 + Len(a) + i] = y[i]
  <2>1. /\ p \in Seq(Nat) /\ Len(p) = Len(u) + Len(y)
        /\ \A i \in 1 .. Len(u) : p[i] = u[i]
        /\ \A i \in 1 .. Len(y) : p[Len(u) + i] = y[i]
    BY <1>3, <1>6, JoinedAt
  <2> HIDE DEF p
  <2>2. QED
    BY <1>3, <1>5, <1>6, <2>1
<1> HIDE DEF p
<1>8. p[1] = 96 /\ 256 * p[3] + p[4] = Len(a)
  <2>1. p[1] = h[1] /\ p[3] = x[1] /\ p[4] = x[2]
    <3>1. p[1] = u[1] /\ p[3] = u[3] /\ p[4] = u[4]
      BY <1>5, <1>6, <1>7
    <3>2. u[1] = h[1] /\ u[2 + 1] = x[1] /\ u[2 + 2] = x[2]
      BY <1>2, <1>5, <1>6
    <3>3. QED
      BY <3>1, <3>2
  <2>2. QED
    BY <1>1, <1>2, <2>1
<1>9. \A i \in 1 .. Len(a) : p[4 + i] = a[i]
  <2> SUFFICES ASSUME NEW i \in 1 .. Len(a) PROVE p[4 + i] = a[i]
    OBVIOUS
  <2>1. 4 + i \in 1 .. Len(u) /\ 2 + i \in 1 .. Len(x) /\ 2 + (2 + i) = 4 + i
    <3>1. i \in Nat /\ i >= 1 /\ i <= Len(a)
      BY <1>5
    <3>2. Len(u) = 4 + Len(a) /\ Len(x) = 2 + Len(a)
      BY <1>2, <1>6
    <3>3. QED
      BY <1>5, <3>1, <3>2
  <2>2. p[4 + i] = u[4 + i]
    BY <1>7, <2>1
  <2>3. u[2 + (2 + i)] = x[2 + i]
    BY <1>6, <2>1
  <2>4. x[2 + i] = a[i]
    BY <1>2
  <2>5. QED
    BY <2>1, <2>2, <2>3, <2>4
<1>10. 256 * p[5 + Len(a)] + p[6 + Len(a)] = Len(b)
  <2>1. p[4 + Len(a) + 1] = y[1] /\ p[4 + Len(a) + 2] = y[2]
    BY <1>3, <1>5, <1>7
  <2>2. 4 + Len(a) + 1 = 5 + Len(a) /\ 4 + Len(a) + 2 = 6 + Len(a)
    BY <1>5
  <2>3. QED
    BY <1>3, <2>1, <2>2
<1>11. \A i \in 1 .. Len(b) : p[6 + Len(a) + i] = b[i]
  <2> SUFFICES ASSUME NEW i \in 1 .. Len(b) PROVE p[6 + Len(a) + i] = b[i]
    OBVIOUS
  <2>1. 2 + i \in 1 .. Len(y) /\ 4 + Len(a) + (2 + i) = 6 + Len(a) + i
    <3>1. i \in Nat /\ i >= 1 /\ i <= Len(b)
      BY <1>5
    <3>2. Len(y) = 2 + Len(b)
      BY <1>3
    <3>3. QED
      BY <1>5, <3>1, <3>2
  <2>2. p[4 + Len(a) + (2 + i)] = y[2 + i]
    BY <1>7, <2>1
  <2>3. y[2 + i] = b[i]
    BY <1>3
  <2>4. QED
    BY <2>1, <2>2, <2>3
<1>12. QED
  BY <1>4, <1>7, <1>8, <1>9, <1>10, <1>11 DEF Packs

LEMMA CutOut ==
    ASSUME NEW p \in Seq(Nat), NEW a \in Seq(Nat), NEW k \in Nat, k + Len(a) <= Len(p),
           \A i \in 1 .. Len(a) : p[k + i] = a[i]
    PROVE  SubSeq(p, k + 1, k + Len(a)) = a
<1> DEFINE m == k + 1
           n == k + Len(a)
           c == SubSeq(p, m, n)
<1>1. Len(a) \in Nat /\ Len(p) \in Nat
  OBVIOUS
<1>2. m \in 1 .. Len(p) + 1 /\ n \in m - 1 .. Len(p) /\ n - m + 1 = Len(a)
  BY <1>1
<1>3. \A i \in 1 .. Len(a) : m + i - 1 = k + i
  BY <1>1
<1> HIDE DEF m, n
<1>4. /\ c \in Seq(Nat) /\ Len(c) = n - m + 1
      /\ \A i \in 1 .. n - m + 1 : c[i] = p[m + i - 1]
  <2>1. Len(c) = IF m <= n THEN n - m + 1 ELSE 0
    BY <1>2, SubSeqProperties
  <2>2. /\ c \in Seq(Nat)
        /\ \A i \in 1 .. n - m + 1 : c[i] = p[m + i - 1]
    <3>1. m \in Int /\ n \in Int /\ \A i \in m .. n : p[i] \in Nat
      <4>1. Len(p) \in Nat
        OBVIOUS
      <4>2. m \in Int /\ n \in Int /\ \A i \in m .. n : i \in 1 .. Len(p)
        BY <1>2, <4>1
      <4>3. QED
        BY <4>2
    <3>2. c \in Seq(Nat)
      BY <3>1, SubSeqProperties
    <3>3. \A i \in 1 .. n - m + 1 : c[i] = p[m + i - 1]
      BY <3>1, SubSeqProperties
    <3>4. QED
      BY <3>2, <3>3
  <2>3. m \in Int /\ n \in Int /\ n >= m - 1
    BY <1>1, <1>2
  <2> HIDE DEF c
  <2>4. QED
    BY <2>1, <2>2, <2>3
<1> HIDE DEF c
<1>5. Len(c) = Len(a) /\ \A i \in 1 .. Len(c) : c[i] = a[i]
  BY <1>2, <1>3, <1>4
<1>6. c = a
  BY <1>4, <1>5, SeqEqual
<1>7. QED
  BY <1>6 DEF c, m, n

(* One turn of the loop, and the last one.                                 *)
LEMMA NalNext ==
    ASSUME NEW p, NEW f, NEW pos, NEW n, ~(pos + 1 > Len(p)), n = 256 * p[pos] + p[pos + 1]
    PROVE  NalsAt(f, p, pos) = NalThen(f, p, pos, n)
BY DEF NalsAt

LEMMA NoNalLeft ==
    ASSUME NEW p, NEW f, NEW pos, pos + 1 > Len(p)
    PROVE  NalsAt(f, p, pos) = <<>>
BY DEF NalsAt

(* The depacketizer takes out of an aggregation packet the two NALs that   *)
(* were put into it, up to the longest that two bytes of length allow.     *)
LEMMA PairUnpacked ==
    ASSUME NEW a \in Seq(Nat), NEW b \in Seq(Nat), Len(a) > 0, Len(b) > 0
    PROVE  Aggregated(Pair(a, b)) = <<a, b>>
<1> DEFINE p == Pair(a, b)
           la == Len(a)
           lb == Len(b)
           x == 5 + la
           y == 7 + la + lb
<1>1. Packs(p, a, b)
  BY PairAt
<1> HIDE DEF p
<1>2. p \in Seq(Nat) /\ Len(p) = 6 + la + lb
  BY <1>1 DEF Packs
<1>3. la \in Nat /\ la # 0 /\ lb \in Nat /\ lb # 0
  OBVIOUS
<1>4. PICK f : /\ Aggregated(p) = f[3]
               /\ \A pos \in 3 .. (Len(p) + 1) : f[pos] = NalsAt(f, p, pos)
  <2>1. Len(p) >= 2
    <3> HIDE DEF la, lb
    <3>1. QED
      BY <1>2, <1>3
  <2>2. QED
    BY <1>2, <2>1, AggregatedLoop
<1>5. /\ 3 \in 3 .. (Len(p) + 1) /\ x \in 3 .. (Len(p) + 1) /\ y \in 3 .. (Len(p) + 1)
      /\ x \in Nat /\ x > 0 /\ y + 1 > Len(p)
      /\ 3 + 2 + la = x /\ 3 + 1 + la <= Len(p)
      /\ x + 1 = 6 + la /\ x + 2 = 6 + la + 1 /\ x + 1 + lb = 6 + la + lb /\ x + 2 + lb = y
      /\ 6 + la \in Nat /\ 6 + la + lb <= Len(p)
  <2> HIDE DEF la, lb
  <2>1. QED
    BY <1>2, <1>3
<1>6. f[3] = NalsAt(f, p, 3) /\ f[x] = NalsAt(f, p, x) /\ f[y] = NalsAt(f, p, y)
  <2> HIDE DEF x, y, NalsAt
  <2>1. QED
    BY <1>4, <1>5
<1>7. f[3] = <<a>> \o f[x]
  <2>1. SubSeq(p, 4 + 1, 4 + Len(a)) = a
    <3>1. \A i \in 1 .. Len(a) : p[4 + i] = a[i]
      BY <1>1 DEF Packs
    <3>2. 4 + Len(a) <= Len(p)
      BY <1>5
    <3>3. QED
      BY <1>2, <3>1, <3>2, CutOut
  <2>2. 256 * p[3] + p[3 + 1] = la
    BY <1>1 DEF Packs
  <2> HIDE DEF x, la, NalsAt
  <2>3. NalsAt(f, p, 3) = <<SubSeq(p, 3 + 2, 3 + 1 + la)>> \o f[3 + 2 + la]
    <3>0. Len(p) = 6 + la + lb /\ la \in Nat /\ lb \in Nat
      BY <1>2, <1>3
    <3>1. 3 \in Nat /\ ~(3 + 1 > Len(p)) /\ ~(3 + 2 + la - 1 > Len(p)) /\ Len(p) \in Nat
          /\ 3 + 2 + la - 1 = 3 + 1 + la
      <4> HIDE DEF lb
      <4>1. QED
        BY <3>0
    <3>2. NalsAt(f, p, 3) = NalThen(f, p, 3, la)
      BY <2>2, <3>1, NalNext
    <3> HIDE DEF NalThen
    <3>3. NalThen(f, p, 3, la) = <<SubSeq(p, 3 + 2, 3 + 2 + la - 1)>> \o f[3 + 2 + la]
      <4>1. ~(3 + 2 + la - 1 > Len(p)) /\ Len(p) \in Nat /\ la \in Nat /\ la # 0
            /\ 3 \in Nat
        BY <1>3, <3>0, <3>1
      <4>2. QED
        BY <4>1, SMTT(30) DEF NalThen
    <3>4. QED
      BY <3>1, <3>2, <3>3
  <2>4. SubSeq(p, 3 + 2, 3 + 1 + la) = a
    BY <2>1 DEF la
  <2>5. QED
    BY <1>5, <1>6, <2>3, <2>4
<1>8. f[x] = <<b>> \o f[y]
  <2> DEFINE k == 6 + la
  <2>1. \A i \in 1 .. Len(b) : p[k + i] = b[i]
    BY <1>1 DEF Packs
  <2>2. 256 * p[x] + p[x + 1] = lb
    <3>1. 256 * p[5 + la] + p[6 + la] = lb
      BY <1>1 DEF Packs
    <3>2. x = 5 + la /\ x + 1 = 6 + la
      BY <1>5
    <3> HIDE DEF x, la, lb
    <3>3. QED
      BY <3>1, <3>2
  <2>3. k \in Nat /\ k + Len(b) <= Len(p)
    BY <1>5
  <2>4. x + 2 = k + 1 /\ x + 1 + lb = k + lb
    BY <1>5
  <2> HIDE DEF k, x, y, la, NalsAt
  <2>5. SubSeq(p, k + 1, k + Len(b)) = b
    BY <1>2, <2>1, <2>3, CutOut
  <2>6. x + 1 + lb <= Len(p)
    BY <2>3, <2>4
  <2>7. SubSeq(p, x + 2, x + 1 + lb) = b
    BY <2>4, <2>5
  <2> HIDE DEF lb
  <2>8. NalsAt(f, p, x) = <<SubSeq(p, x + 2, x + 1 + lb)>> \o f[x + 2 + lb]
    <3>0. x \in Nat /\ x + 1 + lb <= Len(p) /\ Len(p) \in Nat /\ lb \in Nat /\ lb # 0
      BY <1>2, <1>3, <1>5, <2>6
    <3>1. x \in Nat /\ ~(x + 1 > Len(p)) /\ ~(x + 2 + lb - 1 > Len(p)) /\ Len(p) \in Nat
          /\ x + 2 + lb - 1 = x + 1 + lb
      BY <3>0
    <3>2. NalsAt(f, p, x) = NalThen(f, p, x, lb)
      BY <2>2, <3>1, NalNext
    <3> HIDE DEF NalThen
    <3>3. NalThen(f, p, x, lb) = <<SubSeq(p, x + 2, x + 2 + lb - 1)>> \o f[x + 2 + lb]
      <4>1. ~(x + 2 + lb - 1 > Len(p)) /\ Len(p) \in Nat /\ lb \in Nat /\ lb # 0
            /\ x \in Nat
        BY <1>3, <3>0, <3>1
      <4>2. QED
        BY <4>1, SMTT(30) DEF NalThen
    <3>4. QED
      BY <3>1, <3>2, <3>3
  <2>9. QED
    BY <1>5, <1>6, <2>7, <2>8
<1>9. f[y] = <<>>
  <2> HIDE DEF y, NalsAt
  <2>1. QED
    BY <1>5, <1>6, NoNalLeft
<1> HIDE DEF x, y, la, lb
<1>10. <<a>> \o (<<b>> \o <<>>) = <<a, b>>
  <2> DEFINE S == Seq(Nat)
  <2>1. a \in S /\ b \in S
    OBVIOUS
  <2> HIDE DEF S
  <2>2. <<b>> \in Seq(S) /\ <<a>> \in Seq(S)
    BY <2>1
  <2>3. <<b>> \o <<>> = <<b>>
    BY <2>2, ConcatEmptySeq
  <2>4. <<a>> \o <<b>> = <<a, b>>
    <3> DEFINE s == <<a>>
               t == <<b>>
               c == s \o t
    <3>1. s \in Seq(S) /\ t \in Seq(S) /\ Len(s) = 1 /\ Len(t) = 1 /\ s[1] = a /\ t[1] = b
      BY <2>1
    <3> HIDE DEF s, t
    <3>2. /\ c \in Seq(S) /\ Len(c) = Len(s) + Len(t)
          /\ \A i \in 1 .. Len(s) + Len(t) : c[i] = IF i <= Len(s) THEN s[i] ELSE t[i - Len(s)]
      BY <3>1, ConcatProperties
    <3> HIDE DEF c
    <3>3. c \in Seq(S) /\ Len(c) = 2 /\ c[1] = a /\ c[2] = b
      BY <3>1, <3>2
    <3>4. c = <<a, b>>
      BY <3>3
    <3>5. QED
      BY <3>4 DEF c, s, t
  <2>5. QED
    BY <2>3, <2>4
<1>11. QED
  BY <1>4, <1>7, <1>8, <1>9, <1>10 DEF p
-----------------------------------------------------------------------------
(* The bytes of a NAL.                                                     *)
LEMMA BoundsTyped ==
    /\ NalCount \in Nat /\ MaxBody \in Nat /\ MaxBody > 0 /\ MaxBody < 65534
    /\ \A h \in Headers : h \in Nat /\ h < 256 /\ NalType(h) < 48
<1>1. NalCount \in Nat
  BY BoundsAssumption
<1>2. MaxBody \in Nat /\ MaxBody > 0 /\ MaxBody < 65534
  BY BoundsAssumption
<1>3. ASSUME NEW h \in Headers PROVE h \in Nat /\ h < 256 /\ NalType(h) < 48
  <2>1. h \in 0 .. 255 /\ (h % 128) \div 2 < 48
    BY BoundsAssumption
  <2>2. QED
    BY <2>1 DEF NalType
<1>4. QED
  BY <1>1, <1>2, <1>3

LEMMA ByteNamed ==
    ASSUME NEW n \in Nat, NEW i \in Nat, i < 65536
    PROVE  Byte(n, i) \in Nat /\ Owner(Byte(n, i)) = n /\ Place(Byte(n, i)) = i
<1> DEFINE b == 65536 * n + i
<1>1. b \in Nat /\ b \div 65536 = n /\ b % 65536 = i
  OBVIOUS
<1> HIDE DEF b
<1>2. Byte(n, i) = b
  BY DEF Byte, b
<1>3. QED
  BY <1>1, <1>2 DEF Owner, Place

LEMMA OfABody ==
    ASSUME NEW n \in 1 .. NalCount, NEW i \in 1 .. MaxBody
    PROVE  Byte(n, i) \in BodyBytes
BY DEF BodyBytes

Spells(s, h, n, len) ==
    /\ s \in Seq(Nat) /\ Len(s) = len + 2
    /\ s[1] = h /\ s[2] = 1
    /\ \A i \in 1 .. len : s[2 + i] = Byte(n, i)

LEMMA NalBytes ==
    ASSUME NEW h \in Nat, NEW n \in Nat, NEW len \in Nat
    PROVE  Spells(Nal(h, n, len), h, n, len)
<1> DEFINE d == <<h, 1>>
           c == Body(n, len)
           s == d \o c
<1>1. d \in Seq(Nat) /\ Len(d) = 2 /\ d[1] = h /\ d[2] = 1
  OBVIOUS
<1>2. \A i \in 1 .. len : Byte(n, i) \in Nat
  BY DEF Byte
<1>3. c \in Seq(Nat) /\ Len(c) = len /\ \A i \in 1 .. len : c[i] = Byte(n, i)
  <2>1. c = [i \in 1 .. len |-> Byte(n, i)]
    BY DEF Body
  <2> HIDE DEF c, Byte
  <2>2. QED
    BY <1>2, <2>1
<1>4. Nal(h, n, len) = s
  BY DEF Nal
<1> HIDE DEF d, c
<1>5. /\ s \in Seq(Nat) /\ Len(s) = Len(d) + Len(c)
      /\ \A i \in 1 .. Len(d) : s[i] = d[i]
      /\ \A i \in 1 .. Len(c) : s[Len(d) + i] = c[i]
  BY <1>1, <1>3, JoinedAt
<1> HIDE DEF s
<1>6. /\ s \in Seq(Nat) /\ Len(s) = len + 2
      /\ \A i \in 1 .. 2 : s[i] = d[i]
      /\ \A i \in 1 .. len : s[2 + i] = c[i]
  BY <1>1, <1>3, <1>5
<1>7. QED
  BY <1>1, <1>3, <1>4, <1>6 DEF Spells

(* The bytes determine a NAL.                                              *)
LEMMA NalOf ==
    ASSUME NEW h \in Nat, NEW n \in Nat, NEW len \in Nat, NEW s, Spells(s, h, n, len)
    PROVE  s = Nal(h, n, len)
<1> DEFINE t == Nal(h, n, len)
<1>0. Spells(t, h, n, len)
  BY NalBytes
<1> HIDE DEF t
<1>1. /\ t \in Seq(Nat) /\ Len(t) = len + 2 /\ t[1] = h /\ t[2] = 1
      /\ \A i \in 1 .. len : t[2 + i] = Byte(n, i)
      /\ s \in Seq(Nat) /\ Len(s) = len + 2 /\ s[1] = h /\ s[2] = 1
      /\ \A i \in 1 .. len : s[2 + i] = Byte(n, i)
  BY <1>0 DEF Spells
<1>2. ASSUME NEW i \in 1 .. len + 2 PROVE s[i] = t[i]
  <2>1. CASE i = 1 \/ i = 2
    BY <1>1, <2>1
  <2>2. CASE i > 2
    <3>1. i - 2 \in 1 .. len /\ 2 + (i - 2) = i
      BY <2>2
    <3>2. s[2 + (i - 2)] = Byte(n, i - 2) /\ t[2 + (i - 2)] = Byte(n, i - 2)
      BY <1>1, <3>1
    <3>3. QED
      BY <3>1, <3>2
  <2>3. QED
    BY <2>1, <2>2
<1>3. s = t
  BY <1>1, <1>2, SeqEqual
<1>4. QED
  BY <1>3 DEF t

(* A fragment's byte after what came before it.                            *)
LEMMA ByteAdded ==
    ASSUME NEW f \in Seq(Nat), NEW b \in Nat
    PROVE  /\ f \o <<b>> \in Seq(Nat) /\ Len(f \o <<b>>) = Len(f) + 1
           /\ \A i \in 1 .. Len(f) : (f \o <<b>>)[i] = f[i]
           /\ (f \o <<b>>)[Len(f) + 1] = b
<1> DEFINE t == <<b>>
           s == f \o t
<1>1. t \in Seq(Nat) /\ Len(t) = 1 /\ t[1] = b
  OBVIOUS
<1> HIDE DEF t
<1>2. /\ s \in Seq(Nat) /\ Len(s) = Len(f) + Len(t)
      /\ \A i \in 1 .. Len(f) : s[i] = f[i]
      /\ \A i \in 1 .. Len(t) : s[Len(f) + i] = t[i]
  BY <1>1, JoinedAt
<1> HIDE DEF s
<1>3. s \in Seq(Nat) /\ Len(s) = Len(f) + 1 /\ (\A i \in 1 .. Len(f) : s[i] = f[i]) /\ s[Len(f) + 1] = b
  BY <1>1, <1>2
<1>4. QED
  BY <1>3 DEF s, t

LEMMA NalContinued ==
    ASSUME NEW h \in Nat, NEW n \in Nat, NEW k \in Nat, k > 0
    PROVE  Nal(h, n, k - 1) \o <<Byte(n, k)>> = Nal(h, n, k)
<1> DEFINE f == Nal(h, n, k - 1)
           b == Byte(n, k)
           s == f \o <<b>>
<1>1. /\ f \in Seq(Nat) /\ Len(f) = k - 1 + 2 /\ f[1] = h /\ f[2] = 1
      /\ \A i \in 1 .. k - 1 : f[2 + i] = Byte(n, i)
  <2> DEFINE m == k - 1
  <2>1. m \in Nat
    OBVIOUS
  <2> HIDE DEF m
  <2> DEFINE g == Nal(h, n, m)
  <2>2. Spells(g, h, n, m)
    BY <2>1, NalBytes
  <2> HIDE DEF g
  <2>3. /\ g \in Seq(Nat) /\ Len(g) = m + 2 /\ g[1] = h /\ g[2] = 1
        /\ \A i \in 1 .. m : g[2 + i] = Byte(n, i)
    BY <2>2 DEF Spells
  <2>4. QED
    BY <2>3 DEF g, m
<1>2. b \in Nat
  BY DEF Byte
<1> HIDE DEF f, b
<1>3. /\ s \in Seq(Nat) /\ Len(s) = Len(f) + 1
      /\ \A i \in 1 .. Len(f) : s[i] = f[i]
      /\ s[Len(f) + 1] = b
  BY <1>1, <1>2, ByteAdded
<1> HIDE DEF s
<1>4. Len(s) = k + 2 /\ s[1] = h /\ s[2] = 1
  BY <1>1, <1>3
<1>5. ASSUME NEW i \in 1 .. k PROVE s[2 + i] = Byte(n, i)
  <2>1. CASE i = k
    <3>1. 2 + i = Len(f) + 1
      BY <1>1, <2>1
    <3>2. s[2 + i] = b
      BY <1>3, <3>1
    <3>3. QED
      BY <2>1, <3>2 DEF b
  <2>2. CASE i # k
    <3>1. i \in 1 .. k - 1 /\ 2 + i \in 1 .. Len(f)
      BY <1>1, <2>2
    <3>2. QED
      BY <1>1, <1>3, <3>1
  <2>3. QED
    BY <2>1, <2>2
<1>6. s = Nal(h, n, k)
  <2>1. Spells(s, h, n, k)
    BY <1>3, <1>4, <1>5 DEF Spells
  <2>2. QED
    BY <2>1, NalOf
<1>7. QED
  BY <1>6 DEF s, f, b

LEMMA NalBegun ==
    ASSUME NEW h \in Nat, NEW n \in Nat
    PROVE  <<h, 1>> \o <<Byte(n, 1)>> = Nal(h, n, 1)
<1> DEFINE f == <<h, 1>>
           b == Byte(n, 1)
           s == f \o <<b>>
<1>1. f \in Seq(Nat) /\ Len(f) = 2 /\ f[1] = h /\ f[2] = 1
  OBVIOUS
<1>2. b \in Nat
  BY DEF Byte
<1> HIDE DEF f, b
<1>3. /\ s \in Seq(Nat) /\ Len(s) = Len(f) + 1
      /\ \A i \in 1 .. Len(f) : s[i] = f[i]
      /\ s[Len(f) + 1] = b
  BY <1>1, <1>2, ByteAdded
<1> HIDE DEF s
<1>4. Len(s) = 1 + 2 /\ s[1] = h /\ s[2] = 1 /\ s[2 + 1] = b
  BY <1>1, <1>3
<1>5. \A i \in 1 .. 1 : s[2 + i] = Byte(n, i)
  <2>1. s[2 + 1] = Byte(n, 1)
    BY <1>4 DEF b
  <2> HIDE DEF Byte
  <2>2. QED
    BY <2>1
<1>6. s = Nal(h, n, 1)
  <2>1. Spells(s, h, n, 1)
    BY <1>3, <1>4, <1>5 DEF Spells
  <2>2. QED
    BY <2>1, NalOf
<1>7. QED
  BY <1>6 DEF s, f, b

-----------------------------------------------------------------------------
(* The headers.                                                            *)
LEMMA HeaderParts ==
    ASSUME NEW h \in Nat, h < 256, NalType(h) < 48
    PROVE  /\ NalType(h) \in Nat /\ Kept(h) + 2 * Fragmentation \in Nat
           /\ NalType(Kept(h) + 2 * Fragmentation) = Fragmentation
           /\ Kept(Kept(h) + 2 * Fragmentation) = Kept(h)
           /\ Kept(h) + 2 * NalType(h) = h
<1> DEFINE t == h \div 128
           l == h % 2
           y == (h % 128) \div 2
<1>1. t \in {0, 1} /\ l \in {0, 1} /\ y \in 0 .. 47 /\ h = 128 * t + 2 * y + l
  BY DEF NalType
<1>2. NalType(h) = y /\ Kept(h) = 128 * t + l
  BY DEF NalType, Kept
<1> HIDE DEF t, l, y
<1> DEFINE u == 128 * t + l + 98
<1>3. u \in Nat /\ (u % 128) \div 2 = 49 /\ 128 * (u \div 128) + (u % 2) = 128 * t + l
  <2>1. CASE t = 0 /\ l = 0
    BY <2>1
  <2>2. CASE t = 0 /\ l = 1
    BY <2>2
  <2>3. CASE t = 1 /\ l = 0
    BY <2>3
  <2>4. CASE t = 1 /\ l = 1
    BY <2>4
  <2>5. QED
    BY <1>1, <2>1, <2>2, <2>3, <2>4
<1>4. Kept(h) + 2 * Fragmentation = u
  BY <1>1, <1>2 DEF Fragmentation
<1> HIDE DEF u
<1>5. NalType(u) = 49 /\ Kept(u) = 128 * t + l
  BY <1>3 DEF NalType, Kept
<1>6. Kept(h) + 2 * NalType(h) = h
  BY <1>1, <1>2
<1>7. QED
  BY <1>1, <1>2, <1>3, <1>4, <1>5, <1>6 DEF Fragmentation

(* The third byte of a fragment: the bits of start and end, and the type.  *)
LEMMA FragmentFlags ==
    ASSUME NEW y \in Nat, y < 48, NEW start \in {0, 128}, NEW end \in {0, 64}
    PROVE  /\ start + end + y \in Nat
           /\ start + end + y >= 128 <=> start = 128
           /\ ((start + end + y) \div 64) % 2 = 1 <=> end = 64
           /\ (start + end + y) % 64 = y
<1>1. CASE start = 0 /\ end = 0
  BY <1>1
<1>2. CASE start = 0 /\ end = 64
  BY <1>2
<1>3. CASE start = 128 /\ end = 0
  BY <1>3
<1>4. CASE start = 128 /\ end = 64
  BY <1>4
<1>5. QED
  BY <1>1, <1>2, <1>3, <1>4
-----------------------------------------------------------------------------
(* What the depacketizer makes of each kind of packet.                     *)
LEMMA SingleTaken ==
    ASSUME NEW h \in Headers, NEW n \in Nat, NEW len \in Nat, len > 0
    PROVE  Depacketized(Nal(h, n, len)) = Result(fu, <<Nal(h, n, len)>>)
<1> DEFINE p == Nal(h, n, len)
<1>1. h \in Nat /\ NalType(h) < 48
  BY BoundsTyped
<1>2. Spells(p, h, n, len)
  BY <1>1, NalBytes
<1> HIDE DEF p
<1>3. p[1] = h /\ Len(p) = len + 2
  BY <1>2 DEF Spells
<1>4. NalType(p[1]) # Aggregation /\ NalType(p[1]) # Fragmentation
  <2>1. NalType(p[1]) = NalType(h)
    BY <1>3
  <2>2. QED
    BY <1>1, <2>1 DEF Aggregation, Fragmentation
<1>5. ~(Len(p) < 3)
  BY <1>3
<1>6. Depacketized(p) = Result(fu, <<p>>)
  BY <1>4, <1>5 DEF Depacketized
<1>7. QED
  BY <1>6 DEF p

LEMMA PairTaken ==
    ASSUME NEW a \in Seq(Nat), NEW b \in Seq(Nat), Len(a) > 0, Len(b) > 0
    PROVE  Depacketized(Pair(a, b)) = Result(fu, <<a, b>>)
<1> DEFINE p == Pair(a, b)
<1>1. Packs(p, a, b)
  BY PairAt
<1>2. Aggregated(p) = <<a, b>>
  BY PairUnpacked
<1> HIDE DEF p
<1>3. p[1] = 96 /\ Len(p) = 6 + Len(a) + Len(b)
  BY <1>1 DEF Packs
<1>4. NalType(p[1]) = Aggregation
  <2>1. NalType(96) = 48
    BY DEF NalType
  <2>2. QED
    BY <1>3, <2>1 DEF Aggregation
<1>5. ~(Len(p) < 3) /\ Len(p) >= 3
  BY <1>3
<1>6. Depacketized(p) = Result(fu, Aggregated(p))
  <2>1. NalType(p[1]) # Fragmentation
    BY <1>4 DEF Aggregation, Fragmentation
  <2> DEFINE g == Aggregated(p)
             k == Fragment(p)
  <2>2. Depacketized(p) =
          CASE Len(p) < 3 -> Result(fu, <<>>)
            [] Len(p) >= 3 /\ NalType(p[1]) = Aggregation -> Result(fu, g)
            [] Len(p) >= 3 /\ NalType(p[1]) = Fragmentation -> k
            [] OTHER -> Result(fu, <<p>>)
    BY DEF Depacketized
  <2> HIDE DEF g, k
  <2>3. Depacketized(p) = Result(fu, g)
    BY <1>4, <1>5, <2>1, <2>2
  <2>4. QED
    BY <2>3 DEF g
<1>7. QED
  BY <1>2, <1>6 DEF p

Flag(on, bit) == IF on THEN bit ELSE 0

LEMMA UnitBytes ==
    ASSUME NEW h \in Headers, NEW n \in Nat, NEW len \in Nat, NEW i \in Nat
    PROVE  /\ Unit(h, n, len, i) \in Seq(Nat) /\ Len(Unit(h, n, len, i)) = 4
           /\ Unit(h, n, len, i)[1] = Kept(h) + 2 * Fragmentation /\ Unit(h, n, len, i)[2] = 1
           /\ Unit(h, n, len, i)[3] = Flag(i = 1, 128) + Flag(i = len, 64) + NalType(h)
           /\ Unit(h, n, len, i)[4] = Byte(n, i)
<1> DEFINE x == Kept(h) + 2 * Fragmentation
           z == Flag(i = 1, 128) + Flag(i = len, 64) + NalType(h)
           b == Byte(n, i)
<1>1. x \in Nat
  BY BoundsTyped, HeaderParts
<1>2. z \in Nat
  <2>1. NalType(h) \in Nat
    BY BoundsTyped, HeaderParts
  <2>2. Flag(i = 1, 128) \in Nat /\ Flag(i = len, 64) \in Nat
    BY DEF Flag
  <2>3. QED
    BY <2>1, <2>2
<1>3. b \in Nat
  BY DEF Byte
<1>4. Unit(h, n, len, i) = <<x, 1, z, b>>
  BY DEF Unit, Flag
<1> HIDE DEF x, z, b
<1>5. QED
  BY <1>1, <1>2, <1>3, <1>4 DEF x, z, b

LEMMA FragmentTaken ==
    ASSUME NEW h \in Headers, NEW n \in Nat, NEW len \in Nat, NEW i \in Nat
    PROVE  Depacketized(Unit(h, n, len, i)) =
             IF i = 1 THEN IF i = len THEN Result(fu, <<Nal(h, n, 1)>>) ELSE Result(Nal(h, n, 1), <<>>)
             ELSE IF fu = <<>> THEN Result(fu, <<>>)
             ELSE IF i = len THEN Result(<<>>, <<fu \o <<Byte(n, i)>>>>)
             ELSE Result(fu \o <<Byte(n, i)>>, <<>>)
<1> DEFINE p == Unit(h, n, len, i)
           st == Flag(i = 1, 128)
           en == Flag(i = len, 64)
           y == NalType(h)
           b == Byte(n, i)
<1>1. /\ p \in Seq(Nat) /\ Len(p) = 4
      /\ p[1] = Kept(h) + 2 * Fragmentation /\ p[2] = 1 /\ p[3] = st + en + y /\ p[4] = b
  BY UnitBytes
<1>2. h \in Nat /\ h < 256 /\ y < 48
  BY BoundsTyped
<1>3. /\ y \in Nat /\ NalType(p[1]) = Fragmentation /\ Kept(p[1]) = Kept(h) /\ Kept(h) + 2 * y = h
  <2> HIDE DEF p
  <2>1. QED
    BY <1>1, <1>2, HeaderParts
<1>4. st \in {0, 128} /\ en \in {0, 64} /\ (st = 128 <=> i = 1) /\ (en = 64 <=> i = len)
  BY DEF Flag
<1> HIDE DEF p, st, en, y, b
<1>5. /\ p[3] >= 128 <=> i = 1
      /\ (p[3] \div 64) % 2 = 1 <=> i = len
      /\ p[3] % 64 = y
  <2>1. /\ st + en + y >= 128 <=> st = 128
        /\ ((st + en + y) \div 64) % 2 = 1 <=> en = 64
        /\ (st + en + y) % 64 = y
    BY <1>2, <1>3, <1>4, FragmentFlags
  <2>2. QED
    BY <1>1, <1>4, <2>1
<1>6. SubSeq(p, 4, Len(p)) = <<b>>
  <2> DEFINE c == SubSeq(p, 4, 4)
  <2>1. b \in Nat
    BY DEF b, Byte
  <2>2. \A j \in 4 .. 4 : p[j] \in Nat
    BY <1>1, <2>1
  <2>3. c \in Seq(Nat) /\ Len(c) = IF 4 <= 4 THEN 4 - 4 + 1 ELSE 0
    BY <2>2, SubSeqProperties
  <2>4. \A j \in 1 .. 4 - 4 + 1 : c[j] = p[4 + j - 1]
    BY <2>2, SubSeqProperties
  <2> HIDE DEF c
  <2>5. c \in Seq(Nat) /\ Len(c) = 1 /\ c[1] = b
    BY <1>1, <2>3, <2>4
  <2>6. c = <<b>>
    BY <2>5
  <2>7. QED
    BY <1>1, <2>6 DEF c
<1>7. <<Kept(p[1]) + 2 * (p[3] % 64), p[2]>> \o <<b>> = Nal(h, n, 1) \/ i # 1
  <2>1. Kept(p[1]) + 2 * (p[3] % 64) = h /\ p[2] = 1
    BY <1>1, <1>3, <1>5
  <2>2. <<h, 1>> \o <<Byte(n, 1)>> = Nal(h, n, 1)
    BY <1>2, NalBegun
  <2>3. i = 1 => b = Byte(n, 1)
    BY DEF b
  <2>4. QED
    BY <2>1, <2>2, <2>3
<1>8. Depacketized(p) = Fragment(p)
  <2>1. NalType(p[1]) # Aggregation /\ ~(Len(p) < 3) /\ Len(p) >= 3
    BY <1>1, <1>3 DEF Aggregation, Fragmentation
  <2>2. QED
    BY <1>3, <2>1 DEF Depacketized
<1> DEFINE g == <<Kept(p[1]) + 2 * (p[3] % 64), p[2]>> \o <<b>>
<1>9. Fragment(p) =
        IF i = 1 THEN IF i = len THEN Result(fu, <<g>>) ELSE Result(g, <<>>)
        ELSE IF fu = <<>> THEN Result(fu, <<>>)
        ELSE IF i = len THEN Result(<<>>, <<fu \o <<b>>>>)
        ELSE Result(fu \o <<b>>, <<>>)
  <2> DEFINE S == p[3] >= 128
             E == (p[3] \div 64) % 2 = 1
             c == SubSeq(p, 4, Len(p))
             k == <<Kept(p[1]) + 2 * (p[3] % 64), p[2]>> \o c
  <2>1. Fragment(p) =
          CASE S /\ E -> Result(fu, <<k>>)
            [] S /\ ~E -> Result(k, <<>>)
            [] ~S /\ fu = <<>> -> Result(fu, <<>>)
            [] ~S /\ fu # <<>> ->
                 IF E THEN Result(<<>>, <<fu \o c>>) ELSE Result(fu \o c, <<>>)
    BY DEF Fragment
  <2>2. (S <=> i = 1) /\ (E <=> i = len) /\ k = g /\ c = <<b>>
    BY <1>5, <1>6
  <2> HIDE DEF S, E, c, k, g
  <2>3. QED
    BY <2>1, <2>2
<1>10. QED
  <2>1. i = 1 => g = Nal(h, n, 1)
    BY <1>7
  <2> HIDE DEF g
  <2>2. QED
    BY <1>8, <1>9, <2>1 DEF p, b
-----------------------------------------------------------------------------
(* NALs that were sent, and beginnings of them.                            *)
LEMMA BegunNal ==
    ASSUME NEW s, SentShape(s), NEW n \in 1 .. Len(s), NEW h \in Headers, NEW len \in 1 .. MaxBody,
           s[n] = Nal(h, n, len), NEW k \in 1 .. len
    PROVE  /\ Begins(s, Nal(h, n, k)) /\ Owner(Nal(h, n, k)[3]) = n
           /\ Len(Nal(h, n, k)) = k + 2
<1> DEFINE f == Nal(h, n, k)
           t == Nal(h, n, len)
<1>1. /\ h \in Nat /\ n \in Nat /\ n \in 1 .. NalCount /\ len \in Nat /\ k \in Nat
      /\ k \in 1 .. MaxBody /\ MaxBody \in Nat /\ MaxBody < 65534
  <2>1. Len(s) \in Nat /\ Len(s) <= NalCount
    BY DEF SentShape
  <2>2. QED
    BY <2>1, BoundsTyped
<1>2. Spells(f, h, n, k) /\ Spells(t, h, n, len)
  BY <1>1, NalBytes
<1> HIDE DEF f, t
<1>3. /\ f \in Seq(Nat) /\ Len(f) = k + 2 /\ f[1] = h /\ f[2] = 1
      /\ \A i \in 1 .. k : f[2 + i] = Byte(n, i)
      /\ t[1] = h /\ t[2] = 1
  BY <1>2 DEF Spells
<1>4. ASSUME NEW i \in 3 .. Len(f) PROVE f[i] \in BodyBytes
  <2>1. i - 2 \in 1 .. k /\ i - 2 \in 1 .. MaxBody /\ 2 + (i - 2) = i
    BY <1>1, <1>3
  <2>2. f[2 + (i - 2)] = Byte(n, i - 2)
    BY <1>3, <2>1
  <2>3. Byte(n, i - 2) \in BodyBytes
    BY <1>1, <2>1, OfABody
  <2>4. QED
    BY <2>1, <2>2, <2>3
<1>5. f[3] = Byte(n, 1)
  <2>1. 1 \in 1 .. k
    BY <1>1
  <2>2. f[2 + 1] = Byte(n, 1)
    BY <1>3, <2>1
  <2>3. QED
    BY <2>2
<1>6. Owner(f[3]) = n /\ Place(f[3]) = 1
  BY <1>1, <1>5, ByteNamed
<1>7. s[n] = t
  BY DEF t
<1>8. Len(f) >= 3
  BY <1>1, <1>3
<1>9. Begins(s, f)
  BY <1>3, <1>4, <1>6, <1>7, <1>8 DEF Begins
<1>10. QED
  BY <1>3, <1>6, <1>9 DEF f

LEMMA SentNal ==
    ASSUME NEW s, SentShape(s), NEW n \in 1 .. Len(s)
    PROVE  /\ Begins(s, s[n]) /\ Owner(s[n][3]) = n /\ s[n] \in Seq(Nat) /\ Len(s[n]) > 0
           /\ s[n][1] \in 0 .. 255 /\ s[n][2] = 1
<1>1. PICK h \in Headers, len \in 1 .. MaxBody : s[n] = Nal(h, n, len)
  BY DEF SentShape
<1>2. len \in 1 .. len /\ len \in Nat
  BY BoundsTyped
<1>3. Begins(s, Nal(h, n, len)) /\ Owner(Nal(h, n, len)[3]) = n
  BY <1>1, <1>2, BegunNal
<1>4. Begins(s, s[n]) /\ Owner(s[n][3]) = n
  BY <1>1, <1>3
<1>5. s[n] \in Seq(Nat) /\ Len(s[n]) > 0
  <2>1. s[n] \in Seq(Nat) /\ Len(s[n]) >= 3
    BY <1>4 DEF Begins
  <2>2. QED
    BY <2>1
<1>6. s[n][1] \in 0 .. 255 /\ s[n][2] = 1
  <2>1. h \in 0 .. 255 /\ h \in Nat /\ n \in Nat
    <3>1. h \in Nat /\ h < 256
      BY BoundsTyped
    <3>2. n \in Nat
      BY DEF SentShape
    <3>3. QED
      BY <3>1, <3>2
  <2>2. Spells(s[n], h, n, len)
    BY <1>1, <1>2, <2>1, NalBytes
  <2>3. QED
    BY <2>1, <2>2 DEF Spells
<1>7. QED
  BY <1>4, <1>5, <1>6

LEMMA ByteOfABody ==
    ASSUME NEW b \in BodyBytes
    PROVE  b \in Nat
<1>1. PICK n \in 1 .. NalCount, i \in 1 .. MaxBody : b = Byte(n, i)
  BY DEF BodyBytes
<1>2. n \in Nat /\ i \in Nat
  BY BoundsTyped
<1>3. QED
  BY <1>1, <1>2 DEF Byte

LEMMA Continued ==
    ASSUME NEW s, NEW f, Begins(s, f), NEW b \in BodyBytes
    PROVE  /\ Begins(s, f \o <<b>>) /\ Owner((f \o <<b>>)[3]) = Owner(f[3])
           /\ Len(f \o <<b>>) = Len(f) + 1
<1> DEFINE g == f \o <<b>>
<1>1. f \in Seq(Nat) /\ Len(f) >= 3 /\ Len(f) \in Nat
  BY DEF Begins
<1>2. /\ g \in Seq(Nat) /\ Len(g) = Len(f) + 1
      /\ \A i \in 1 .. Len(f) : g[i] = f[i]
      /\ g[Len(f) + 1] = b
  BY <1>1, ByteOfABody, ByteAdded
<1> HIDE DEF g
<1>3. g[1] = f[1] /\ g[2] = f[2] /\ g[3] = f[3]
  BY <1>1, <1>2
<1>4. ASSUME NEW i \in 3 .. Len(g) PROVE g[i] \in BodyBytes
  <2>1. CASE i = Len(f) + 1
    BY <1>2, <2>1
  <2>2. CASE i # Len(f) + 1
    <3>1. i \in 1 .. Len(f) /\ i \in 3 .. Len(f)
      BY <1>1, <1>2, <2>2
    <3>2. f[i] \in BodyBytes
      BY <3>1 DEF Begins
    <3>3. QED
      BY <1>2, <3>1, <3>2
  <2>3. QED
    BY <2>1, <2>2
<1>5. Len(g) >= 3
  BY <1>1, <1>2
<1>6. Begins(s, g)
  BY <1>2, <1>3, <1>4, <1>5 DEF Begins
<1>7. QED
  BY <1>2, <1>3, <1>6 DEF g

(* What was sent stays sent.                                               *)
LEMMA BeginsStill ==
    ASSUME NEW s, NEW t, NEW f, Begins(s, f), Len(s) \in Nat, Len(t) \in Nat, Len(s) <= Len(t),
           \A n \in 1 .. Len(s) : t[n] = s[n]
    PROVE  Begins(t, f)
<1> DEFINE m == Owner(f[3])
<1>1. /\ f \in Seq(Nat) /\ Len(f) >= 3
      /\ \A i \in 3 .. Len(f) : f[i] \in BodyBytes
      /\ m \in 1 .. Len(s) /\ Place(f[3]) = 1
      /\ f[1] = s[m][1] /\ f[2] = s[m][2]
  BY DEF Begins
<1> HIDE DEF m
<1>2. m \in 1 .. Len(t) /\ t[m] = s[m]
  BY <1>1
<1>3. QED
  BY <1>1, <1>2 DEF Begins, m
-----------------------------------------------------------------------------
(* The packets on their way.                                               *)
Packets == [payload : Seq(Nat), nals : SUBSET Nat]

FragmentPacket(s, h, len, k) == Packet(Unit(h, Len(s), len, k), {Len(s)})

LEMMA RemainingFirst ==
    ASSUME NEW s, SentShape(s), NEW w, NEW h \in Headers, NEW len \in 1 .. MaxBody, NEW k,
           Remaining(s, w, h, len, k)
    PROVE  /\ w # <<>> /\ k \in 1 .. MaxBody /\ Len(w) = len - k + 1
           /\ Head(w) = FragmentPacket(s, h, len, k) /\ InFlight(w) = {Len(s)}
           /\ Len(Tail(w)) = Len(w) - 1
           /\ k = len => Tail(w) = <<>>
           /\ k < len => Remaining(s, Tail(w), h, len, k + 1)
<1> DEFINE n == Len(s)
           t == Tail(w)
<1>1. /\ n > 0 /\ s[n] = Nal(h, n, len) /\ k \in 1 .. len
      /\ w \in Seq(Packets) /\ Len(w) = len - k + 1
      /\ \A j \in 1 .. Len(w) : w[j] = Packet(Unit(h, n, len, k - 1 + j), {n})
  BY DEF Remaining, Packets
<1>2. len \in Nat /\ k \in Nat /\ k \in 1 .. MaxBody
  BY <1>1, BoundsTyped
<1>3. w # <<>> /\ 1 \in 1 .. Len(w)
  <2>1. Len(w) > 0
    BY <1>1, <1>2
  <2>2. QED
    BY <1>1, <2>1
<1>4. w[1] = Packet(Unit(h, n, len, k), {n})
  <2>1. w[1] = Packet(Unit(h, n, len, k - 1 + 1), {n})
    BY <1>1, <1>3
  <2>2. k - 1 + 1 = k
    BY <1>2
  <2>3. QED
    BY <2>1, <2>2
<1>5. Head(w) = w[1]
  BY <1>1, <1>3
<1>6. InFlight(w) = {n}
  BY <1>3, <1>4 DEF InFlight, Packet
<1>7. t \in Seq(Packets) /\ Len(t) = Len(w) - 1 /\ \A j \in 1 .. Len(t) : t[j] = w[j + 1]
  BY <1>1, <1>3, HeadTailProperties
<1> HIDE DEF t
<1>8. k = len => t = <<>>
  <2>1. k = len => Len(t) = 0
    BY <1>1, <1>2, <1>7
  <2>2. QED
    BY <1>7, <2>1, EmptySeq
<1>9. ASSUME k < len PROVE Remaining(s, t, h, len, k + 1)
  <2>1. Len(t) = len - (k + 1) + 1 /\ k + 1 \in 1 .. len
    BY <1>1, <1>2, <1>7, <1>9
  <2>2. ASSUME NEW j \in 1 .. Len(t) PROVE t[j] = Packet(Unit(h, n, len, (k + 1) - 1 + j), {n})
    <3>1. j + 1 \in 1 .. Len(w) /\ k - 1 + (j + 1) = (k + 1) - 1 + j
      BY <1>1, <1>2, <1>7
    <3>2. w[j + 1] = Packet(Unit(h, n, len, k - 1 + (j + 1)), {n})
      BY <1>1, <3>1
    <3>3. QED
      BY <1>7, <3>1, <3>2
  <2>3. QED
    BY <1>1, <1>7, <2>1, <2>2 DEF Remaining, Packets
<1>10. Head(w) = FragmentPacket(s, h, len, k)
  BY <1>4, <1>5 DEF FragmentPacket
<1>11. QED
  BY <1>1, <1>2, <1>3, <1>6, <1>7, <1>8, <1>9, <1>10 DEF t

(* The fragments left tell of which NAL and from which one on.             *)
LEMMA RemainingUnique ==
    ASSUME NEW s, SentShape(s), NEW w, NEW h \in Headers, NEW len \in 1 .. MaxBody, NEW k,
           NEW g \in Headers, NEW m \in 1 .. MaxBody, NEW j,
           Remaining(s, w, h, len, k), Remaining(s, w, g, m, j)
    PROVE  h = g /\ len = m /\ k = j
<1> DEFINE n == Len(s)
<1>1. /\ n > 0 /\ s[n] = Nal(h, n, len) /\ s[n] = Nal(g, n, m)
      /\ Len(w) = len - k + 1 /\ Len(w) = m - j + 1 /\ k \in 1 .. len /\ j \in 1 .. m
  BY DEF Remaining
<1>2. n \in Nat /\ len \in Nat /\ m \in Nat /\ h \in Nat /\ g \in Nat
  BY BoundsTyped DEF SentShape
<1>3. Spells(s[n], h, n, len) /\ Spells(s[n], g, n, m)
  <2> HIDE DEF n
  <2>1. Spells(Nal(h, n, len), h, n, len) /\ Spells(Nal(g, n, m), g, n, m)
    BY <1>2, NalBytes
  <2>2. QED
    BY <1>1, <2>1
<1>4. h = g /\ len + 2 = m + 2
  BY <1>3 DEF Spells
<1>5. len = m
  BY <1>2, <1>4
<1>6. k \in Int /\ j \in Int /\ len - k + 1 = len - j + 1
  BY <1>1, <1>2, <1>5
<1>7. QED
  BY <1>2, <1>4, <1>5, <1>6

LEMMA NoneRemaining ==
    ASSUME NEW s, NEW h, NEW len \in 1 .. MaxBody, NEW k
    PROVE  ~Remaining(s, <<>>, h, len, k)
<1> SUFFICES ASSUME Remaining(s, <<>>, h, len, k) PROVE FALSE
  OBVIOUS
<1>1. Len(<<>>) = len - k + 1 /\ k \in 1 .. len /\ len \in Nat
  BY BoundsTyped DEF Remaining
<1>2. len - k + 1 > 0
  BY <1>1
<1>3. QED
  BY <1>1, <1>2

(* Packets of whole NALs are no fragments.                                 *)
LEMMA WholeIsNoFragment ==
    ASSUME NEW s, SentShape(s), NEW w, NEW nal \in Seq(Nat), NEW nals,
           Head(w) = Packet(nal, nals), NalType(nal[1]) # Fragmentation,
           NEW h \in Headers, NEW len \in 1 .. MaxBody, NEW k
    PROVE  ~Remaining(s, w, h, len, k)
<1> SUFFICES ASSUME Remaining(s, w, h, len, k) PROVE FALSE
  OBVIOUS
<1> DEFINE u == Unit(h, Len(s), len, k)
<1>1. Head(w) = Packet(u, {Len(s)}) /\ k \in 1 .. MaxBody
  BY RemainingFirst DEF FragmentPacket
<1>2. nal = u
  <2> HIDE DEF u
  <2>1. Head(w).payload = nal /\ Head(w).payload = u
    BY <1>1 DEF Packet
  <2>2. QED
    BY <2>1
<1>3. k \in Nat /\ len \in Nat /\ Len(s) \in Nat
  BY <1>1, BoundsTyped DEF SentShape
<1>4. u[1] = Kept(h) + 2 * Fragmentation
  BY <1>3, UnitBytes
<1>5. NalType(u[1]) = Fragmentation
  BY <1>4, BoundsTyped, HeaderParts
<1>6. QED
  BY <1>2, <1>5

(* What may arrive: packets of whole NALs, and a fragment.                 *)
Whole(s, w, nals, ns) ==
    /\ ~Halfway(s, w)
    /\ \/ nals = <<s[Len(s)]>> /\ ns = {Len(s)} /\ Len(s) > 0
       \/ nals = <<s[Len(s) - 1], s[Len(s)]>> /\ ns = {Len(s) - 1, Len(s)} /\ Len(s) > 1

LEMMA SingleArrives ==
    ASSUME NEW s, NEW w, SentShape(s), Len(s) > 0, w = SinglePacket(s)
    PROVE  /\ Depacketized(Head(w).payload) = Result(fu, <<s[Len(s)]>>)
           /\ Whole(s, w, <<s[Len(s)]>>, {Len(s)})
           /\ Tail(w) = <<>> /\ InFlight(w) = {Len(s)} /\ Len(w) = 1 /\ w # <<>>
           /\ \A h \in Headers, len \in 1 .. MaxBody, k \in 1 .. MaxBody :
                 ~Remaining(s, w, h, len, k)
<1> DEFINE n == Len(s)
           nal == s[n]
<1>1. n \in Nat /\ n \in 1 .. Len(s)
  BY DEF SentShape
<1>2. PICK h \in Headers, len \in 1 .. MaxBody : nal = Nal(h, n, len)
  BY <1>1 DEF SentShape
<1>3. len \in Nat /\ len > 0 /\ h \in Nat /\ NalType(h) < 48
  BY BoundsTyped
<1>4. w = <<Packet(nal, {n})>>
  BY DEF SinglePacket
<1>5. Spells(Nal(h, n, len), h, n, len)
  BY <1>1, <1>3, NalBytes
<1>6. nal \in Seq(Nat) /\ NalType(nal[1]) # Fragmentation
  <2>1. nal \in Seq(Nat) /\ nal[1] = h
    BY <1>2, <1>5 DEF Spells
  <2>2. NalType(nal[1]) = NalType(h)
    BY <2>1
  <2>3. QED
    BY <1>3, <2>1, <2>2 DEF Fragmentation
<1>7. Depacketized(nal) = Result(fu, <<nal>>)
  BY <1>1, <1>2, <1>3, SingleTaken
<1> HIDE DEF nal, n
<1> DEFINE pk == Packet(nal, {n})
<1>8. Head(w) = pk /\ Tail(w) = <<>> /\ Len(w) = 1 /\ w # <<>> /\ w[1] = pk
  <2> HIDE DEF pk
  <2>1. w = <<pk>>
    BY <1>4 DEF pk
  <2>2. QED
    BY <2>1
<1>9. pk.payload = nal /\ InFlight(w) = {n}
  BY <1>8 DEF Packet, InFlight
<1>10. \A g \in Headers, m \in 1 .. MaxBody, k \in 1 .. MaxBody : ~Remaining(s, w, g, m, k)
  BY <1>6, <1>8, WholeIsNoFragment
<1>11. ~Halfway(s, w)
  <2>1. \A k \in 2 .. MaxBody : k \in 1 .. MaxBody
    OBVIOUS
  <2>2. QED
    BY <1>10, <2>1 DEF Halfway, Underway
<1>12. Whole(s, w, <<nal>>, {n})
  BY <1>11 DEF Whole, nal, n
<1>13. Depacketized(Head(w).payload) = Result(fu, <<nal>>)
  BY <1>7, <1>8, <1>9
<1>14. QED
  BY <1>8, <1>9, <1>10, <1>12, <1>13 DEF nal, n

LEMMA PairArrives ==
    ASSUME NEW s, NEW w, SentShape(s), Len(s) > 1, w = PairPacket(s)
    PROVE  LET nals == <<s[Len(s) - 1], s[Len(s)]>>
               ns == {Len(s) - 1, Len(s)} IN
           /\ Depacketized(Head(w).payload) = Result(fu, nals)
           /\ Whole(s, w, nals, ns)
           /\ Tail(w) = <<>> /\ InFlight(w) = ns /\ Len(w) = 1 /\ w # <<>>
           /\ \A h \in Headers, len \in 1 .. MaxBody, k \in 1 .. MaxBody :
                 ~Remaining(s, w, h, len, k)
<1> DEFINE n == Len(s)
           a == s[n - 1]
           b == s[n]
           p == Pair(a, b)
           ns == {n - 1, n}
           pk == Packet(p, ns)
<1>1. n - 1 \in 1 .. Len(s) /\ n \in 1 .. Len(s)
  <2>1. n \in Nat
    BY DEF SentShape
  <2>2. QED
    BY <2>1
<1>2. a \in Seq(Nat) /\ b \in Seq(Nat) /\ Len(a) > 0 /\ Len(b) > 0
  BY <1>1, SentNal
<1>3. w = <<pk>>
  BY DEF PairPacket
<1>4. Depacketized(p) = Result(fu, <<a, b>>) /\ Packs(p, a, b)
  <2> HIDE DEF a, b
  <2>1. QED
    BY <1>2, PairTaken, PairAt
<1> HIDE DEF p
<1>5. p \in Seq(Nat) /\ NalType(p[1]) # Fragmentation
  <2>1. p \in Seq(Nat) /\ p[1] = 96
    BY <1>4 DEF Packs
  <2>2. NalType(96) = 48
    BY DEF NalType
  <2>3. QED
    BY <2>1, <2>2 DEF Fragmentation
<1> HIDE DEF a, b, ns
<1>6. Head(w) = pk /\ Tail(w) = <<>> /\ Len(w) = 1 /\ w # <<>> /\ w[1] = pk
  <2> HIDE DEF pk
  <2>1. QED
    BY <1>3
<1>7. pk.payload = p /\ InFlight(w) = ns
  BY <1>6 DEF Packet, InFlight
<1>8. \A g \in Headers, m \in 1 .. MaxBody, k \in 1 .. MaxBody : ~Remaining(s, w, g, m, k)
  BY <1>5, <1>6, WholeIsNoFragment
<1>9. ~Halfway(s, w)
  <2>1. \A k \in 2 .. MaxBody : k \in 1 .. MaxBody
    OBVIOUS
  <2>2. QED
    BY <1>8, <2>1 DEF Halfway, Underway
<1>10. Whole(s, w, <<a, b>>, ns)
  BY <1>9 DEF Whole, a, b, ns
<1>11. Depacketized(Head(w).payload) = Result(fu, <<a, b>>)
  BY <1>4, <1>6, <1>7
<1>12. QED
  BY <1>6, <1>7, <1>8, <1>10, <1>11 DEF a, b, ns

(* A NAL in one fragment arrives like one in a packet of its own.          *)
LEMMA OnlyFragmentArrives ==
    ASSUME SentShape(sent), NEW h \in Headers, 1 \in 1 .. MaxBody,
           Remaining(sent, wire, h, 1, 1)
    PROVE  /\ Depacketized(Head(wire).payload) = Result(fu, <<sent[Len(sent)]>>)
           /\ Whole(sent, wire, <<sent[Len(sent)]>>, {Len(sent)})
           /\ Tail(wire) = <<>> /\ InFlight(wire) = {Len(sent)} /\ wire # <<>>
<1> DEFINE n == Len(sent)
           u == Unit(h, n, 1, 1)
<1>1. /\ wire # <<>> /\ Head(wire) = Packet(u, {n}) /\ InFlight(wire) = {n} /\ Tail(wire) = <<>>
  <2>1. 1 \in 1 .. MaxBody /\ Remaining(sent, wire, h, 1, 1)
    OBVIOUS
  <2>2. Head(wire) = Packet(u, {n})
    <3>1. Head(wire) = FragmentPacket(sent, h, 1, 1)
      BY <2>1, RemainingFirst
    <3>2. QED
      BY <3>1 DEF FragmentPacket
  <2>3. wire # <<>> /\ InFlight(wire) = {n} /\ Tail(wire) = <<>>
    BY <2>1, RemainingFirst
  <2>4. QED
    BY <2>2, <2>3
<1>2. n \in Nat /\ n > 0 /\ sent[n] = Nal(h, n, 1)
  BY DEF SentShape, Remaining
<1>3. Depacketized(u) = Result(fu, <<Nal(h, n, 1)>>)
  BY <1>2, FragmentTaken
<1>4. Head(wire).payload = u
  <2> HIDE DEF u
  <2>1. QED
    BY <1>1 DEF Packet
<1>5. ~Halfway(sent, wire)
  <2> SUFFICES ASSUME NEW k \in 2 .. MaxBody, NEW g \in Headers, NEW m \in 1 .. MaxBody,
                      Remaining(sent, wire, g, m, k)
               PROVE FALSE
    BY DEF Halfway, Underway
  <2>1. k = 1
    BY RemainingUnique
  <2>2. QED
    BY <2>1
<1>6. QED
  BY <1>1, <1>2, <1>3, <1>4, <1>5 DEF Whole

LEMMA FragmentArrives ==
    ASSUME SentShape(sent), NEW h \in Headers, NEW len \in 1 .. MaxBody, NEW k,
           Remaining(sent, wire, h, len, k), ~(len = 1 /\ k = 1)
    PROVE  Depacketized(Head(wire).payload) =
             IF k = 1 THEN Result(Nal(h, Len(sent), 1), <<>>)
             ELSE IF fu = <<>> THEN Result(fu, <<>>)
             ELSE IF k = len THEN Result(<<>>, <<fu \o <<Byte(Len(sent), k)>>>>)
             ELSE Result(fu \o <<Byte(Len(sent), k)>>, <<>>)
<1> DEFINE n == Len(sent)
           u == Unit(h, n, len, k)
<1>1. Head(wire) = Packet(u, {n}) /\ k \in 1 .. MaxBody
  <2>1. Head(wire) = Packet(u, {n})
    <3>1. Head(wire) = FragmentPacket(sent, h, len, k)
      BY RemainingFirst
    <3>2. QED
      BY <3>1 DEF FragmentPacket
  <2>2. k \in 1 .. MaxBody
    BY RemainingFirst
  <2>3. QED
    BY <2>1, <2>2
<1>2. n \in Nat /\ k \in Nat /\ len \in Nat
  BY <1>1, BoundsTyped DEF SentShape
<1>3. Depacketized(u) =
        IF k = 1 THEN IF k = len THEN Result(fu, <<Nal(h, n, 1)>>) ELSE Result(Nal(h, n, 1), <<>>)
        ELSE IF fu = <<>> THEN Result(fu, <<>>)
        ELSE IF k = len THEN Result(<<>>, <<fu \o <<Byte(n, k)>>>>)
        ELSE Result(fu \o <<Byte(n, k)>>, <<>>)
  BY <1>2, FragmentTaken
<1>4. Head(wire).payload = u
  <2> HIDE DEF u
  <2>1. QED
    BY <1>1 DEF Packet
<1>5. QED
  BY <1>3, <1>4

LEMMA NoneHalfway ==
    ASSUME NEW s
    PROVE  ~Halfway(s, <<>>)
BY NoneRemaining DEF Halfway, Underway

(* What is on its way once the first packet is gone.                       *)
LEMMA TailShape ==
    ASSUME SentShape(sent), WireShape(sent, wire), wire # <<>>
    PROVE  /\ Len(sent) \in InFlight(wire) /\ InFlight(wire) \subseteq 1 .. Len(sent)
           /\ Tail(wire) = <<>>
              \/ (InFlight(Tail(wire)) = InFlight(wire) /\ Halfway(sent, Tail(wire)))
           /\ WireShape(sent, Tail(wire))
           /\ Len(Tail(wire)) \in Nat /\ Len(wire) \in Nat /\ Len(Tail(wire)) < Len(wire)
<1> DEFINE n == Len(sent)
           t == Tail(wire)
<1>1. n \in Nat
  BY DEF SentShape
<1>2. CASE n > 0 /\ wire = SinglePacket(sent)
  <2>1. InFlight(wire) = {n} /\ t = <<>> /\ Len(wire) = 1
    BY <1>2, SingleArrives
  <2>2. {n} \subseteq 1 .. n /\ n \in {n}
    BY <1>1, <1>2
  <2> HIDE DEF t, n
  <2>3. WireShape(sent, t)
    BY <2>1 DEF WireShape
  <2>4. Len(t) = 0
    BY <2>1
  <2>5. QED
    BY <2>1, <2>2, <2>3, <2>4 DEF t, n
<1>3. CASE n > 1 /\ wire = PairPacket(sent)
  <2>1. InFlight(wire) = {n - 1, n} /\ t = <<>> /\ Len(wire) = 1
    BY <1>3, PairArrives
  <2>2. {n - 1, n} \subseteq 1 .. n /\ n \in {n - 1, n}
    BY <1>1, <1>3
  <2> HIDE DEF t, n
  <2>3. WireShape(sent, t)
    BY <2>1 DEF WireShape
  <2>4. Len(t) = 0
    BY <2>1
  <2>5. QED
    BY <2>1, <2>2, <2>3, <2>4 DEF t, n
<1>4. CASE \E k \in 1 .. MaxBody : Underway(sent, wire, k)
  <2>1. PICK k \in 1 .. MaxBody, h \in Headers, len \in 1 .. MaxBody : Remaining(sent, wire, h, len, k)
    BY <1>4 DEF Underway
  <2>2. /\ InFlight(wire) = {n} /\ Len(wire) = len - k + 1 /\ Len(t) = Len(wire) - 1
        /\ k = len => t = <<>>
        /\ k < len => Remaining(sent, t, h, len, k + 1)
    <3>1. InFlight(wire) = {n}
      BY <2>1, RemainingFirst
    <3>2. Len(wire) = len - k + 1 /\ Len(t) = Len(wire) - 1
      BY <2>1, RemainingFirst
    <3>3. k = len => t = <<>>
      BY <2>1, RemainingFirst
    <3>4. k < len => Remaining(sent, t, h, len, k + 1)
      BY <2>1, RemainingFirst
    <3>5. QED
      BY <3>1, <3>2, <3>3, <3>4
  <2>3. n > 0 /\ k \in 1 .. len
    BY <2>1 DEF Remaining
  <2>4. {n} \subseteq 1 .. n /\ n \in {n}
    BY <1>1, <2>3
  <2>5. len \in Nat /\ k \in Nat /\ k <= len
    BY <2>3, BoundsTyped
  <2>6. Len(t) \in Nat /\ Len(wire) \in Nat /\ Len(t) < Len(wire)
    BY <2>2, <2>5
  <2>7. CASE k = len
    <3>1. WireShape(sent, <<>>)
      BY DEF WireShape
    <3>2. QED
      BY <2>2, <2>4, <2>6, <2>7, <3>1
  <2>8. CASE k < len
    <3>0. MaxBody \in Nat /\ len <= MaxBody /\ k >= 1
      BY <2>3, BoundsTyped
    <3>1. Remaining(sent, t, h, len, k + 1) /\ k + 1 \in 2 .. MaxBody
          /\ k + 1 \in 1 .. MaxBody
      BY <2>2, <2>5, <2>8, <3>0
    <3>2. Underway(sent, t, k + 1)
      BY <3>1 DEF Underway
    <3>3. Halfway(sent, t) /\ WireShape(sent, t)
      BY <3>1, <3>2 DEF Halfway, WireShape
    <3>4. InFlight(t) = {n}
      BY <3>1, RemainingFirst
    <3>5. QED
      BY <2>2, <2>4, <2>6, <3>3, <3>4
  <2>9. QED
    BY <2>5, <2>7, <2>8
<1>5. QED
  BY <1>2, <1>3, <1>4 DEF WireShape

-----------------------------------------------------------------------------
(* The steps.                                                              *)
LEMMA InitLoss == Init => LossInv
<1> SUFFICES ASSUME Init PROVE LossInv
  OBVIOUS
<1>1. sent = <<>> /\ wire = <<>> /\ out = <<>> /\ fu = <<>> /\ damaged = {}
  BY DEF Init
<1>2. Len(sent) = 0 /\ Len(out) = 0 /\ sent \in Seq(Seq(Nat)) /\ out \in Seq(Seq(Nat))
  BY <1>1
<1>3. SentShape(sent)
  BY <1>2, BoundsTyped DEF SentShape
<1>4. WireShape(sent, wire) /\ InFlight(wire) = {}
  BY <1>1 DEF WireShape, InFlight
<1>5. DamageInv
  BY <1>1, <1>4 DEF DamageInv
<1>6. BufferInv
  <2>1. \A h \in Headers, len \in 1 .. MaxBody, k \in 2 .. MaxBody : ~Remaining(sent, wire, h, len, k)
    BY <1>1, NoneRemaining
  <2>2. QED
    BY <1>1, <2>1 DEF BufferInv
<1>7. OutInv
  <2>1. 1 .. Len(out) = {} /\ 1 .. Len(sent) = {}
    BY <1>2
  <2>2. QED
    BY <1>2, <2>1 DEF OutInv
<1>8. InOrder
  <2>1. 1 .. Len(out) = {} /\ 1 .. Len(sent) = {} /\ Len(out) <= Len(sent)
    BY <1>2
  <2>2. QED
    BY <2>1 DEF InOrder
<1>9. QED
  BY <1>3, <1>4, <1>5, <1>6, <1>7, <1>8 DEF LossInv

(* A longer history leaves more room.                                      *)
LEMMA MoreRoom ==
    ASSUME NEW n \in Nat, NEW d \in {1, 2}, NEW m \in Nat
    PROVE  n * m \in Nat /\ (n + d) * m >= n * m + m
<1>1. CASE d = 1
  BY <1>1
<1>2. CASE d = 2
  BY <1>2
<1>3. QED
  BY <1>1, <1>2

LEMMA SendingKeeps ==
    ASSUME LossInv, wire = <<>>, NEW d \in {1, 2},
           Len(sent') = Len(sent) + d, \A i \in 1 .. Len(sent) : sent'[i] = sent[i],
           UNCHANGED <<fu, out, damaged>>,
           SentShape(sent'), WireShape(sent', wire'),
           InFlight(wire') = (Len(sent) + 1) .. (Len(sent) + d),
           Len(wire') \in Nat, Len(wire') <= MaxBody,
           \A h \in Headers, len \in 1 .. MaxBody, k \in 2 .. MaxBody :
              ~Remaining(sent', wire', h, len, k)
    PROVE  LossInv'
<1> DEFINE n == Len(sent)
           m == Len(sent')
           W == InFlight(wire')
<1>1. n \in Nat /\ m \in Nat /\ m = n + d /\ d > 0 /\ n <= m /\ W = (n + 1) .. m
  BY DEF LossInv, SentShape
<1>2. InFlight(wire) = {} /\ ~Halfway(sent, wire)
  BY NoneHalfway DEF InFlight
<1>3. fu' = fu /\ out' = out /\ damaged' = damaged
  OBVIOUS
<1>4. damaged \subseteq 1 .. n
  BY DEF LossInv, DamageInv
<1>5. \A f : Begins(sent, f) => Begins(sent', f)
  BY <1>1, BeginsStill
<1>6. DamageInv'
  <2>1. damaged \subseteq 1 .. m
    BY <1>1, <1>4
  <2>2. W \cap damaged = {}
    BY <1>1, <1>4
  <2>3. QED
    BY <1>3, <2>1, <2>2 DEF DamageInv
<1>7. BufferInv'
  <2>1. ASSUME fu # <<>>
        PROVE  /\ Begins(sent', fu)
               /\ \A i \in 1 .. Len(out) : Owner(out[i][3]) # Owner(fu[3])
               /\ Owner(fu[3]) \in damaged
               /\ Len(fu) + Len(wire') <= m * MaxBody + 2
    <3>1. /\ Begins(sent, fu)
          /\ \A i \in 1 .. Len(out) : Owner(out[i][3]) # Owner(fu[3])
          /\ Owner(fu[3]) \in damaged
          /\ Len(fu) + Len(wire) <= n * MaxBody + 2
      BY <1>2, <2>1 DEF LossInv, BufferInv
    <3>2. Len(fu) \in Nat /\ Len(wire) = 0 /\ MaxBody \in Nat
      BY <3>1, BoundsTyped DEF Begins
    <3>3. n * MaxBody \in Nat /\ m * MaxBody >= n * MaxBody + MaxBody
      <4> HIDE DEF m, n
      <4>1. QED
        BY <1>1, <3>2, MoreRoom
    <3>4. Len(fu) + Len(wire') <= m * MaxBody + 2
      <4> DEFINE x == n * MaxBody
                 y == m * MaxBody
      <4>1. x \in Nat /\ y \in Int
        BY <1>1, <3>2, <3>3
      <4> HIDE DEF x, y
      <4>2. Len(fu) <= x + 2 /\ y >= x + MaxBody
        BY <3>1, <3>2, <3>3 DEF x, y
      <4>3. QED
        BY <3>2, <4>1, <4>2 DEF y
    <3>5. QED
      BY <1>5, <3>1, <3>4
  <2>2. QED
    BY <1>3, <2>1 DEF BufferInv
<1>8. OutInv'
  <2>1. ASSUME NEW i \in 1 .. Len(out)
        PROVE  Begins(sent', out[i]) /\ Owner(out[i][3]) \notin W
    <3>1. Begins(sent, out[i])
      BY DEF LossInv, OutInv
    <3>2. Owner(out[i][3]) \in 1 .. n
      BY <3>1 DEF Begins
    <3>3. QED
      BY <1>1, <1>5, <3>1, <3>2
  <2>2. ASSUME NEW j \in 1 .. m, j \notin damaged, j \notin W
        PROVE  \E i \in 1 .. Len(out) : out[i] = sent'[j]
    <3>1. j \in 1 .. n
      BY <1>1, <2>2
    <3>2. \E i \in 1 .. Len(out) : out[i] = sent[j]
      BY <1>2, <2>2, <3>1 DEF LossInv, OutInv
    <3>3. QED
      BY <3>1, <3>2
  <2>3. QED
    BY <1>3, <2>1, <2>2 DEF LossInv, OutInv
<1>9. InOrder'
  <2> SUFFICES ASSUME damaged = {}
               PROVE  /\ Len(out) <= m
                      /\ \A i \in 1 .. m : i <= Len(out) <=> i \notin W
                      /\ \A i \in 1 .. Len(out) : out[i] = sent'[i]
    BY <1>3 DEF InOrder
  <2>1. /\ Len(out) <= n /\ Len(out) \in Nat
        /\ \A i \in 1 .. n : i <= Len(out)
        /\ \A i \in 1 .. Len(out) : out[i] = sent[i]
    BY <1>2 DEF LossInv, InOrder, OutInv
  <2>2. Len(out) = n
    BY <1>1, <2>1
  <2>3. QED
    BY <1>1, <2>1, <2>2
<1>10. QED
  BY <1>6, <1>7, <1>8, <1>9 DEF LossInv

LEMMA MoreSent ==
    ASSUME NEW s, SentShape(s), NEW nals \in Seq(Seq(Nat)), Len(nals) \in {1, 2},
           Len(s) + Len(nals) <= NalCount,
           \A i \in 1 .. Len(nals) : \E h \in Headers, len \in 1 .. MaxBody :
              nals[i] = Nal(h, Len(s) + i, len)
    PROVE  /\ SentShape(s \o nals) /\ Len(s \o nals) = Len(s) + Len(nals)
           /\ \A i \in 1 .. Len(s) : (s \o nals)[i] = s[i]
           /\ \A i \in 1 .. Len(nals) : (s \o nals)[Len(s) + i] = nals[i]
<1> DEFINE t == s \o nals
           n == Len(s)
           d == Len(nals)
           N == Seq(Nat)
<1>1. s \in Seq(N) /\ n \in Nat /\ d \in Nat /\ nals \in Seq(N)
  BY DEF SentShape
<1>2. /\ t \in Seq(N) /\ Len(t) = n + d
      /\ \A i \in 1 .. n + d : t[i] = IF i <= n THEN s[i] ELSE nals[i - n]
  <2> HIDE DEF N
  <2>1. QED
    BY <1>1, ConcatProperties
<1> HIDE DEF t
<1>3. \A i \in 1 .. n : t[i] = s[i]
  BY <1>1, <1>2
<1>4. ASSUME NEW i \in 1 .. d PROVE t[n + i] = nals[i]
  <2>1. n + i \in 1 .. n + d /\ ~(n + i <= n) /\ n + i - n = i
    BY <1>1
  <2>2. QED
    BY <1>2, <2>1
<1>5. ASSUME NEW j \in 1 .. Len(t)
      PROVE  \E h \in Headers, len \in 1 .. MaxBody : t[j] = Nal(h, j, len)
  <2>1. CASE j <= n
    <3>1. j \in 1 .. n
      BY <2>1
    <3>2. QED
      BY <1>3, <3>1 DEF SentShape
  <2>2. CASE ~(j <= n)
    <3>1. j - n \in 1 .. d /\ n + (j - n) = j
      BY <1>1, <1>2, <2>2
    <3>2. t[n + (j - n)] = nals[j - n]
      BY <1>4, <3>1
    <3>3. \E h \in Headers, len \in 1 .. MaxBody : nals[j - n] = Nal(h, n + (j - n), len)
      BY <3>1
    <3>4. QED
      BY <3>1, <3>2, <3>3
  <2>3. QED
    BY <2>1, <2>2
<1>6. SentShape(t)
  BY <1>2, <1>5 DEF SentShape
<1>7. QED
  BY <1>2, <1>3, <1>4, <1>6 DEF t

LEMMA UpcomingNal ==
    ASSUME NEW h \in Headers, NEW n \in Nat, NEW len \in 1 .. MaxBody
    PROVE  Nal(h, n, len) \in Seq(Nat)
<1>1. h \in Nat /\ len \in Nat
  BY BoundsTyped
<1>2. Spells(Nal(h, n, len), h, n, len)
  BY <1>1, NalBytes
<1>3. QED
  BY <1>2 DEF Spells

LEMMA SingleKeeps == LossInv /\ SendSingle => LossInv'
<1> SUFFICES ASSUME LossInv, SendSingle PROVE LossInv'
  OBVIOUS
<1> DEFINE n == Len(sent)
<1>1. PICK h \in Headers, len \in 1 .. MaxBody :
        Sends(<<Nal(h, n + 1, len)>>, <<Packet(Nal(h, n + 1, len), {n + 1})>>)
  BY DEF SendSingle, Upcoming
<1> DEFINE nal == Nal(h, n + 1, len)
           nals == <<nal>>
<1>2. SentShape(sent) /\ n \in Nat
  BY DEF LossInv, SentShape
<1>3. nal \in Seq(Nat)
  BY <1>2, UpcomingNal
<1>4. /\ wire = <<>> /\ n + Len(nals) <= NalCount
      /\ sent' = sent \o nals /\ wire' = <<Packet(nal, {n + 1})>>
      /\ UNCHANGED <<fu, out, damaged>>
  BY <1>1 DEF Sends
<1>5. nals \in Seq(Seq(Nat)) /\ Len(nals) = 1 /\ nals[1] = nal
  <2> HIDE DEF nal
  <2> DEFINE N == Seq(Nat)
  <2>1. nal \in N
    BY <1>3
  <2> HIDE DEF N
  <2>2. nals \in Seq(N) /\ Len(nals) = 1 /\ nals[1] = nal
    BY <2>1
  <2>3. QED
    BY <2>2 DEF N
<1>6. \A i \in 1 .. Len(nals) : \E g \in Headers, m \in 1 .. MaxBody : nals[i] = Nal(g, n + i, m)
  <2> HIDE DEF nals
  <2>1. \A i \in 1 .. Len(nals) : i = 1
    BY <1>5
  <2>2. QED
    BY <1>5, <2>1
<1> HIDE DEF nal, nals
<1>7. /\ SentShape(sent') /\ Len(sent') = n + Len(nals)
      /\ \A i \in 1 .. n : sent'[i] = sent[i]
      /\ \A i \in 1 .. Len(nals) : sent'[n + i] = nals[i]
  BY <1>2, <1>4, <1>5, <1>6, MoreSent
<1>8. Len(sent') = n + 1 /\ sent'[n + 1] = nal
  BY <1>2, <1>5, <1>7
<1>9. wire' = SinglePacket(sent')
  BY <1>4, <1>8 DEF SinglePacket
<1>10. /\ InFlight(wire') = {n + 1} /\ Len(wire') = 1
       /\ \A g \in Headers, m, k \in 1 .. MaxBody : ~Remaining(sent', wire', g, m, k)
  <2>1. Len(sent') > 0
    BY <1>2, <1>8
  <2>2. QED
    BY <1>7, <1>8, <1>9, <2>1, SingleArrives
<1>11. WireShape(sent', wire')
  BY <1>2, <1>8, <1>9 DEF WireShape
<1>12. {n + 1} = (n + 1) .. (n + 1)
  BY <1>2
<1>13. \A g \in Headers, m \in 1 .. MaxBody, k \in 2 .. MaxBody : ~Remaining(sent', wire', g, m, k)
  <2>1. \A k \in 2 .. MaxBody : k \in 1 .. MaxBody
    OBVIOUS
  <2>2. QED
    BY <1>10, <2>1
<1>14. QED
  <2> DEFINE d == 1
  <2>1. /\ d \in {1, 2} /\ Len(sent') = Len(sent) + d
        /\ InFlight(wire') = (Len(sent) + 1) .. (Len(sent) + d)
        /\ Len(wire') \in Nat /\ Len(wire') <= MaxBody
    BY <1>8, <1>10, <1>12, BoundsTyped
  <2> HIDE DEF d
  <2>2. QED
    BY <1>4, <1>7, <1>11, <1>13, <2>1, SendingKeeps

LEMMA AggregatedKeeps == LossInv /\ SendAggregated => LossInv'
<1> SUFFICES ASSUME LossInv, SendAggregated PROVE LossInv'
  OBVIOUS
<1> DEFINE n == Len(sent)
<1>1. PICK h \in Headers, len \in 1 .. MaxBody, len2 \in 1 .. MaxBody :
        Sends(<<Nal(h, n + 1, len), Nal(h, n + 1 + 1, len2)>>,
              <<Packet(Pair(Nal(h, n + 1, len), Nal(h, n + 1 + 1, len2)), {n + 1, n + 1 + 1})>>)
  BY DEF SendAggregated, Upcoming
<1> DEFINE a == Nal(h, n + 1, len)
           b == Nal(h, n + 1 + 1, len2)
           nals == <<a, b>>
<1>2. SentShape(sent) /\ n \in Nat /\ n + 1 \in Nat /\ n + 1 + 1 \in Nat /\ n + 1 + 1 = n + 2
  BY DEF LossInv, SentShape
<1>3. a \in Seq(Nat) /\ b \in Seq(Nat)
  BY <1>2, UpcomingNal
<1>4. /\ wire = <<>> /\ n + Len(nals) <= NalCount
      /\ sent' = sent \o nals /\ wire' = <<Packet(Pair(a, b), {n + 1, n + 1 + 1})>>
      /\ UNCHANGED <<fu, out, damaged>>
  BY <1>1 DEF Sends
<1>5. nals \in Seq(Seq(Nat)) /\ Len(nals) = 2 /\ nals[1] = a /\ nals[2] = b
  <2> HIDE DEF a, b
  <2> DEFINE N == Seq(Nat)
  <2>1. a \in N /\ b \in N
    BY <1>3
  <2> HIDE DEF N
  <2>2. nals \in Seq(N) /\ Len(nals) = 2 /\ nals[1] = a /\ nals[2] = b
    BY <2>1
  <2>3. QED
    BY <2>2 DEF N
<1>6. \A i \in 1 .. Len(nals) : \E g \in Headers, m \in 1 .. MaxBody : nals[i] = Nal(g, n + i, m)
  <2> HIDE DEF nals
  <2>1. \A i \in 1 .. Len(nals) : i = 1 \/ i = 2
    BY <1>5
  <2>2. nals[1] = Nal(h, n + 1, len) /\ nals[2] = Nal(h, n + 2, len2)
    BY <1>2, <1>5
  <2>3. QED
    BY <2>1, <2>2
<1> HIDE DEF a, b, nals
<1>7. /\ SentShape(sent') /\ Len(sent') = n + Len(nals)
      /\ \A i \in 1 .. n : sent'[i] = sent[i]
      /\ \A i \in 1 .. Len(nals) : sent'[n + i] = nals[i]
  BY <1>2, <1>4, <1>5, <1>6, MoreSent
<1>8. Len(sent') = n + 2 /\ sent'[n + 1] = a /\ sent'[n + 2] = b /\ n + 2 - 1 = n + 1
  BY <1>2, <1>5, <1>7
<1>9. wire' = PairPacket(sent')
  <2>1. sent'[Len(sent')] = b /\ sent'[Len(sent') - 1] = a
    BY <1>8
  <2>2. {Len(sent') - 1, Len(sent')} = {n + 1, n + 1 + 1}
    BY <1>2, <1>8
  <2>3. QED
    BY <1>4, <2>1, <2>2 DEF PairPacket
<1>10. /\ InFlight(wire') = {Len(sent') - 1, Len(sent')} /\ Len(wire') = 1
       /\ \A g \in Headers, m, k \in 1 .. MaxBody : ~Remaining(sent', wire', g, m, k)
  <2>1. Len(sent') > 1
    BY <1>2, <1>8
  <2>2. QED
    BY <1>7, <1>9, <2>1, PairArrives
<1>11. WireShape(sent', wire')
  BY <1>2, <1>8, <1>9 DEF WireShape
<1>12. {Len(sent') - 1, Len(sent')} = (n + 1) .. (n + 2)
  BY <1>2, <1>8
<1>13. \A g \in Headers, m \in 1 .. MaxBody, k \in 2 .. MaxBody : ~Remaining(sent', wire', g, m, k)
  <2>1. \A k \in 2 .. MaxBody : k \in 1 .. MaxBody
    OBVIOUS
  <2>2. QED
    BY <1>10, <2>1
<1>14. QED
  <2> DEFINE d == 2
  <2>1. /\ d \in {1, 2} /\ Len(sent') = Len(sent) + d
        /\ InFlight(wire') = (Len(sent) + 1) .. (Len(sent) + d)
        /\ Len(wire') \in Nat /\ Len(wire') <= MaxBody
    BY <1>8, <1>10, <1>12, BoundsTyped
  <2> HIDE DEF d
  <2>2. QED
    BY <1>4, <1>7, <1>11, <1>13, <2>1, SendingKeeps

LEMMA FragmentedKeeps == LossInv /\ SendFragmented => LossInv'
<1> SUFFICES ASSUME LossInv, SendFragmented PROVE LossInv'
  OBVIOUS
<1> DEFINE n == Len(sent)
<1>1. PICK h \in Headers, len \in 1 .. MaxBody :
        Sends(<<Nal(h, n + 1, len)>>,
              [i \in 1 .. len |-> Packet(Unit(h, n + 1, len, i), {n + 1})])
  BY DEF SendFragmented, Upcoming
<1> DEFINE nal == Nal(h, n + 1, len)
           nals == <<nal>>
           N == n + 1
<1>2. SentShape(sent) /\ n \in Nat /\ N \in Nat /\ len \in Nat /\ len > 0 /\ len <= MaxBody
  <2>1. SentShape(sent) /\ n \in Nat
    BY DEF LossInv, SentShape
  <2>2. len \in Nat /\ len > 0 /\ len <= MaxBody
    BY BoundsTyped
  <2>3. QED
    BY <2>1, <2>2
<1>3. nal \in Seq(Nat)
  BY <1>2, UpcomingNal
<1>4. /\ wire = <<>> /\ n + Len(nals) <= NalCount
      /\ sent' = sent \o nals
      /\ wire' = [i \in 1 .. len |-> Packet(Unit(h, N, len, i), {N})]
      /\ UNCHANGED <<fu, out, damaged>>
  BY <1>1 DEF Sends
<1>5. nals \in Seq(Seq(Nat)) /\ Len(nals) = 1 /\ nals[1] = nal
  <2> HIDE DEF nal
  <2> DEFINE S == Seq(Nat)
  <2>1. nal \in S
    BY <1>3
  <2> HIDE DEF S
  <2>2. nals \in Seq(S) /\ Len(nals) = 1 /\ nals[1] = nal
    BY <2>1
  <2>3. QED
    BY <2>2 DEF S
<1>6. \A i \in 1 .. Len(nals) : \E g \in Headers, m \in 1 .. MaxBody : nals[i] = Nal(g, n + i, m)
  <2> HIDE DEF nals
  <2>1. \A i \in 1 .. Len(nals) : i = 1
    BY <1>5
  <2>2. QED
    BY <1>5, <2>1
<1> HIDE DEF nal, nals
<1>7. /\ SentShape(sent') /\ Len(sent') = n + Len(nals)
      /\ \A i \in 1 .. n : sent'[i] = sent[i]
      /\ \A i \in 1 .. Len(nals) : sent'[n + i] = nals[i]
  BY <1>2, <1>4, <1>5, <1>6, MoreSent
<1>8. Len(sent') = N /\ sent'[N] = Nal(h, N, len)
  BY <1>2, <1>5, <1>7 DEF nal
<1> HIDE DEF N
<1>9. Remaining(sent', wire', h, len, 1)
  <2>1. \A i \in 1 .. len : Packet(Unit(h, N, len, i), {N}) \in Packets
    <3> SUFFICES ASSUME NEW i \in 1 .. len PROVE Packet(Unit(h, N, len, i), {N}) \in Packets
      OBVIOUS
    <3>1. Unit(h, N, len, i) \in Seq(Nat)
      BY <1>2, UnitBytes
    <3>2. {N} \in SUBSET Nat
      BY <1>2
    <3>3. QED
      BY <3>1, <3>2 DEF Packet, Packets
  <2> DEFINE pk(i) == Packet(Unit(h, N, len, i), {N})
  <2>2. \A i \in 1 .. len : pk(i) \in Packets
    BY <2>1
  <2>3. wire' = [i \in 1 .. len |-> pk(i)]
    BY <1>4
  <2> HIDE DEF pk
  <2>4. wire' \in Seq(Packets) /\ Len(wire') = len /\ \A i \in 1 .. len : wire'[i] = pk(i)
    BY <1>2, <2>2, <2>3
  <2>5. ASSUME NEW j \in 1 .. len PROVE wire'[j] = Packet(Unit(h, N, len, 1 - 1 + j), {N})
    <3>1. 1 - 1 + j = j
      OBVIOUS
    <3>2. wire'[j] = Packet(Unit(h, N, len, j), {N})
      BY <2>4 DEF pk
    <3>3. QED
      BY <3>1, <3>2
  <2>6. 1 \in 1 .. len /\ len - 1 + 1 = len /\ N > 0
    BY <1>2 DEF N
  <2>7. QED
    BY <1>8, <2>4, <2>5, <2>6 DEF Remaining, Packets
<1>10. InFlight(wire') = {N} /\ Len(wire') = len
  <2>1. SentShape(sent')
    BY <1>7
  <2>2. InFlight(wire') = {Len(sent')}
    BY <1>9, <2>1, RemainingFirst
  <2>3. Len(wire') = len - 1 + 1
    BY <1>9, <2>1, RemainingFirst
  <2>4. QED
    BY <1>2, <1>8, <2>2, <2>3
<1>11. WireShape(sent', wire')
  <2>1. 1 \in 1 .. MaxBody
    BY BoundsTyped
  <2>2. QED
    BY <1>9, <2>1 DEF WireShape, Underway
<1>12. {N} = (n + 1) .. (n + 1)
  BY <1>2 DEF N
<1>13. ASSUME NEW g \in Headers, NEW m \in 1 .. MaxBody, NEW k \in 2 .. MaxBody,
              Remaining(sent', wire', g, m, k)
       PROVE  FALSE
  <2>1. 1 = k
    BY <1>7, <1>9, <1>13, RemainingUnique
  <2>2. QED
    BY <2>1
<1>14. QED
  <2> DEFINE d == 1
  <2>1. /\ d \in {1, 2} /\ Len(sent') = Len(sent) + d
        /\ InFlight(wire') = (Len(sent) + 1) .. (Len(sent) + d)
        /\ Len(wire') \in Nat /\ Len(wire') <= MaxBody
    BY <1>2, <1>8, <1>10, <1>12, BoundsTyped DEF N
  <2> HIDE DEF d
  <2>2. QED
    BY <1>4, <1>7, <1>11, <1>13, <2>1, SendingKeeps

(* A packet is lost.                                                       *)
LEMMA LoseKeeps == LossInv /\ Lose => LossInv'
<1> SUFFICES ASSUME LossInv, Lose PROVE LossInv'
  OBVIOUS
<1> DEFINE n == Len(sent)
           W == InFlight(wire)
           x == InFlight(wire')
<1>1. /\ wire # <<>> /\ damaged' = damaged \cup Head(wire).nals /\ wire' = Tail(wire)
      /\ sent' = sent /\ fu' = fu /\ out' = out
  BY DEF Lose
<1>2. SentShape(sent) /\ WireShape(sent, wire)
  BY DEF LossInv
<1>3. /\ n \in W /\ W \subseteq 1 .. n
      /\ wire' = <<>> \/ (x = W /\ Halfway(sent, wire'))
      /\ WireShape(sent, wire')
      /\ Len(wire') \in Nat /\ Len(wire) \in Nat /\ Len(wire') < Len(wire)
  BY <1>1, <1>2, TailShape
<1>4. Head(wire).nals = W
  <2>1. CASE Len(sent) > 0 /\ wire = SinglePacket(sent)
    BY <1>1, <2>1 DEF SinglePacket, InFlight
  <2>2. CASE Len(sent) > 1 /\ wire = PairPacket(sent)
    BY <1>1, <2>2 DEF PairPacket, InFlight
  <2>3. CASE \E k \in 1 .. MaxBody : Underway(sent, wire, k)
    <3>1. PICK k \in 1 .. MaxBody, h \in Headers, len \in 1 .. MaxBody :
            Remaining(sent, wire, h, len, k)
      BY <2>3 DEF Underway
    <3>2. Head(wire) = FragmentPacket(sent, h, len, k) /\ W = {n}
      BY <1>2, <3>1, RemainingFirst
    <3>3. QED
      BY <3>2 DEF FragmentPacket, Packet
  <2>4. QED
    BY <1>1, <1>2, <2>1, <2>2, <2>3 DEF WireShape
<1>5. damaged' = damaged \cup W
  BY <1>1, <1>4
<1>6. x \subseteq W
  <2>1. wire' = <<>> => x = {}
    BY DEF InFlight
  <2>2. QED
    BY <1>3, <2>1
<1> HIDE DEF W, x
<1>7. DamageInv'
  <2>1. damaged \subseteq 1 .. n
    BY DEF LossInv, DamageInv
  <2>2. x \cap damaged' # {} => Halfway(sent, wire')
    <3>1. wire' = <<>> => x = {}
      BY DEF InFlight, x
    <3>2. QED
      BY <1>3, <3>1
  <2>3. QED
    BY <1>1, <1>3, <1>5, <2>1, <2>2 DEF DamageInv, x
<1>8. BufferInv'
  <2>1. ASSUME fu # <<>>
        PROVE  /\ Begins(sent, fu)
               /\ \A i \in 1 .. Len(out) : Owner(out[i][3]) # Owner(fu[3])
               /\ Owner(fu[3]) \in damaged'
               /\ Len(fu) + Len(wire') <= n * MaxBody + 2
    <3>1. /\ Begins(sent, fu)
          /\ \A i \in 1 .. Len(out) : Owner(out[i][3]) # Owner(fu[3])
          /\ Owner(fu[3]) \in damaged \/ Owner(fu[3]) = n
          /\ Len(fu) + Len(wire) <= n * MaxBody + 2
      BY <2>1 DEF LossInv, BufferInv
    <3>2. Owner(fu[3]) \in damaged'
      BY <1>3, <1>5, <3>1
    <3>3. Len(fu) + Len(wire') <= n * MaxBody + 2
      <4> DEFINE y == n * MaxBody
      <4>1. y \in Int /\ Len(fu) \in Nat
        BY <1>2, <3>1, BoundsTyped DEF SentShape, Begins
      <4> HIDE DEF y
      <4>2. Len(fu) + Len(wire) <= y + 2
        BY <3>1 DEF y
      <4>3. Len(fu) + Len(wire') <= y + 2
        BY <1>3, <4>1, <4>2
      <4>4. QED
        BY <4>3 DEF y
    <3>4. QED
      BY <3>1, <3>2, <3>3
  <2>2. n \in damaged'
    BY <1>3, <1>5
  <2>3. QED
    BY <1>1, <2>1, <2>2 DEF BufferInv
<1>9. OutInv'
  <2>1. /\ out \in Seq(Seq(Nat))
        /\ \A i \in 1 .. Len(out) : Begins(sent, out[i]) /\ Owner(out[i][3]) \notin W
        /\ \A i, j \in 1 .. Len(out) : i < j =>
              /\ Owner(out[i][3]) # Owner(out[j][3])
              /\ Owner(out[i][3]) \notin damaged /\ Owner(out[j][3]) \notin damaged
                    => Owner(out[i][3]) < Owner(out[j][3])
        /\ \A i \in 1 .. n : i \notin damaged /\ i \notin W => \E j \in 1 .. Len(out) : out[j] = sent[i]
    BY DEF LossInv, OutInv, W
  <2>2. \A i \in 1 .. Len(out) : Begins(sent, out[i]) /\ Owner(out[i][3]) \notin x
    BY <1>6, <2>1
  <2>3. \A i : i \notin damaged' => i \notin damaged /\ i \notin W
    BY <1>5
  <2>4. QED
    BY <1>1, <2>1, <2>2, <2>3 DEF OutInv, x
<1>10. InOrder'
  <2>1. damaged' # {}
    BY <1>3, <1>5
  <2>2. QED
    BY <2>1 DEF InOrder
<1>11. QED
  BY <1>1, <1>2, <1>3, <1>7, <1>8, <1>9, <1>10 DEF LossInv

-----------------------------------------------------------------------------
(* A packet arrives.                                                       *)

(* NALs that come out after what came out before.                          *)
LEMMA OutMore ==
    ASSUME NEW o \in Seq(Seq(Nat)), NEW nals \in Seq(Seq(Nat))
    PROVE  /\ o \o nals \in Seq(Seq(Nat)) /\ Len(o \o nals) = Len(o) + Len(nals)
           /\ \A i \in 1 .. Len(o) : (o \o nals)[i] = o[i]
           /\ \A i \in 1 .. Len(nals) : (o \o nals)[Len(o) + i] = nals[i]
<1> DEFINE S == Seq(Nat)
           c == o \o nals
<1>1. o \in Seq(S) /\ nals \in Seq(S) /\ Len(o) \in Nat /\ Len(nals) \in Nat
  OBVIOUS
<1> HIDE DEF S
<1>2. /\ c \in Seq(S) /\ Len(c) = Len(o) + Len(nals)
      /\ \A i \in 1 .. Len(o) + Len(nals) : c[i] = IF i <= Len(o) THEN o[i] ELSE nals[i - Len(o)]
  BY <1>1, ConcatProperties
<1> HIDE DEF c
<1>3. ASSUME NEW i \in 1 .. Len(o) PROVE c[i] = o[i]
  <2>1. i \in 1 .. Len(o) + Len(nals) /\ i <= Len(o)
    BY <1>1
  <2>2. QED
    BY <1>2, <2>1
<1>4. ASSUME NEW i \in 1 .. Len(nals) PROVE c[Len(o) + i] = nals[i]
  <2>1. Len(o) + i \in 1 .. Len(o) + Len(nals) /\ ~(Len(o) + i <= Len(o)) /\ Len(o) + i - Len(o) = i
    BY <1>1
  <2>2. QED
    BY <1>2, <2>1
<1>5. QED
  BY <1>2, <1>3, <1>4 DEF c, S

(* Packets of whole NALs, one at a time: the last NAL sent but one of two, *)
(* then the last one.                                                      *)
LEMMA NewestNals ==
    ASSUME SentShape(sent), NEW nals, NEW ns, Whole(sent, wire, nals, ns)
    PROVE  \E d \in {1, 2} :
              /\ nals \in Seq(Seq(Nat)) /\ Len(nals) = d /\ d <= Len(sent)
              /\ ns = (Len(sent) - d + 1) .. Len(sent)
              /\ \A i \in 1 .. d : nals[i] = sent[Len(sent) - d + i]
<1> DEFINE n == Len(sent)
           N == Seq(Nat)
<1>1. n \in Nat /\ \A i \in 1 .. n : sent[i] \in N
  BY DEF SentShape
<1> HIDE DEF N, n
<1>2. CASE nals = <<sent[n]>> /\ ns = {n} /\ n > 0
  <2>1. sent[n] \in N
    BY <1>1, <1>2
  <2>2. nals \in Seq(N) /\ Len(nals) = 1 /\ nals[1] = sent[n]
    BY <1>2, <2>1
  <2>3. ns = (n - 1 + 1) .. n /\ 1 <= n /\ n - 1 + 1 = n
    BY <1>1, <1>2
  <2>4. \A i \in 1 .. 1 : nals[i] = sent[n - 1 + i]
    <3>1. \A i \in 1 .. 1 : i = 1
      OBVIOUS
    <3>2. QED
      BY <2>2, <2>3, <3>1
  <2>5. QED
    BY <2>2, <2>3, <2>4 DEF N, n
<1>3. CASE nals = <<sent[n - 1], sent[n]>> /\ ns = {n - 1, n} /\ n > 1
  <2>1. sent[n] \in N /\ sent[n - 1] \in N
    BY <1>1, <1>3
  <2>2. nals \in Seq(N) /\ Len(nals) = 2 /\ nals[1] = sent[n - 1] /\ nals[2] = sent[n]
    BY <1>3, <2>1
  <2>3. ns = (n - 2 + 1) .. n /\ 2 <= n /\ n - 2 + 1 = n - 1 /\ n - 2 + 2 = n
    BY <1>1, <1>3
  <2>4. \A i \in 1 .. 2 : nals[i] = sent[n - 2 + i]
    <3>1. \A i \in 1 .. 2 : i = 1 \/ i = 2
      OBVIOUS
    <3>2. QED
      BY <2>2, <2>3, <3>1
  <2>5. QED
    BY <2>2, <2>3, <2>4 DEF N, n
<1>4. QED
  BY <1>2, <1>3 DEF Whole, n

LEMMA WholeKeeps ==
    ASSUME LossInv, NEW nals, NEW ns, Whole(sent, wire, nals, ns), InFlight(wire) = ns,
           wire # <<>>, wire' = <<>>, fu' = fu, out' = out \o nals, sent' = sent, damaged' = damaged
    PROVE  LossInv'
<1> DEFINE n == Len(sent)
           q == Len(out)
           c == out'
           own(i) == Owner(c[i][3])
<1>1. SentShape(sent) /\ WireShape(sent, wire) /\ n \in Nat /\ sent \in Seq(Seq(Nat))
  <2>1. SentShape(sent) /\ WireShape(sent, wire)
    BY DEF LossInv
  <2>2. QED
    BY <2>1 DEF SentShape
<1>2. /\ out \in Seq(Seq(Nat)) /\ q \in Nat
      /\ \A i \in 1 .. q : Begins(sent, out[i]) /\ Owner(out[i][3]) \notin ns
      /\ \A i, j \in 1 .. q : i < j =>
            /\ Owner(out[i][3]) # Owner(out[j][3])
            /\ Owner(out[i][3]) \notin damaged /\ Owner(out[j][3]) \notin damaged
                  => Owner(out[i][3]) < Owner(out[j][3])
      /\ \A i \in 1 .. n : i \notin damaged /\ i \notin ns => \E j \in 1 .. q : out[j] = sent[i]
  BY DEF LossInv, OutInv
<1>3. ~Halfway(sent, wire)
  BY DEF Whole
<1>4. ns \cap damaged = {} /\ damaged \subseteq 1 .. n
  BY <1>3 DEF LossInv, DamageInv
<1>5. PICK d \in {1, 2} :
        /\ nals \in Seq(Seq(Nat)) /\ Len(nals) = d /\ d <= n
        /\ ns = (n - d + 1) .. n
        /\ \A i \in 1 .. d : nals[i] = sent[n - d + i]
  BY <1>1, NewestNals
<1>6. /\ c \in Seq(Seq(Nat)) /\ Len(c) = q + d
      /\ \A i \in 1 .. q : c[i] = out[i]
      /\ \A i \in 1 .. d : c[q + i] = sent[n - d + i]
  <2>1. /\ out \o nals \in Seq(Seq(Nat)) /\ Len(out \o nals) = q + d
        /\ \A i \in 1 .. q : (out \o nals)[i] = out[i]
        /\ \A i \in 1 .. d : (out \o nals)[q + i] = nals[i]
    BY <1>2, <1>5, OutMore
  <2>2. QED
    BY <1>5, <2>1
<1> HIDE DEF c
<1>7. ASSUME NEW i \in 1 .. q
      PROVE  c[i] = out[i] /\ Begins(sent, c[i]) /\ own(i) \in 1 .. n /\ own(i) \notin ns
  <2>1. c[i] = out[i] /\ Begins(sent, c[i]) /\ own(i) \notin ns
    BY <1>2, <1>6
  <2>2. own(i) \in 1 .. n
    BY <2>1 DEF Begins
  <2>3. QED
    BY <2>1, <2>2
<1>8. ASSUME NEW i \in 1 .. q + d, ~(i <= q)
      PROVE  Begins(sent, c[i]) /\ own(i) = n - d + (i - q) /\ own(i) \in ns
  <2> DEFINE j == i - q
             k == n - d + j
  <2>1. j \in 1 .. d /\ i = q + j /\ k \in 1 .. n /\ k \in ns
    BY <1>1, <1>2, <1>5, <1>8
  <2> HIDE DEF j, k
  <2>2. c[i] = sent[k]
    BY <1>6, <2>1 DEF k
  <2>3. Begins(sent, sent[k]) /\ Owner(sent[k][3]) = k
    BY <1>1, <2>1, SentNal
  <2>4. QED
    BY <2>1, <2>2, <2>3 DEF j, k
<1>9. OutInv'
  <2>1. \A i \in 1 .. Len(c) : Begins(sent, c[i])
    <3> SUFFICES ASSUME NEW i \in 1 .. q + d PROVE Begins(sent, c[i])
      BY <1>6
    <3>1. i <= q => i \in 1 .. q
      BY <1>2
    <3>2. QED
      BY <1>7, <1>8, <3>1
  <2>2. ASSUME NEW i \in 1 .. q + d, NEW j \in 1 .. q + d, i < j
        PROVE  own(i) # own(j) /\ (own(i) \notin damaged /\ own(j) \notin damaged => own(i) < own(j))
    <3>1. CASE j <= q
      <4>1. i \in 1 .. q /\ j \in 1 .. q
        BY <1>2, <2>2, <3>1
      <4>2. c[i] = out[i] /\ c[j] = out[j]
        BY <1>6, <4>1
      <4>3. QED
        BY <1>2, <2>2, <4>1, <4>2
    <3>2. CASE i <= q /\ ~(j <= q)
      <4>1. i \in 1 .. q
        BY <1>2, <3>2
      <4>2. own(i) \in 1 .. n /\ own(i) \notin ns /\ own(j) \in ns
        BY <1>7, <1>8, <3>2, <4>1
      <4> HIDE DEF own
      <4>3. own(i) < own(j)
        BY <1>1, <1>5, <4>2
      <4>4. own(i) \in Nat /\ own(j) \in Int
        BY <1>1, <1>5, <4>2
      <4>5. QED
        BY <4>3, <4>4
    <3>3. CASE ~(i <= q)
      <4>1. ~(j <= q)
        BY <1>2, <2>2, <3>3
      <4>2. own(i) = n - d + (i - q) /\ own(j) = n - d + (j - q)
        BY <1>8, <3>3, <4>1
      <4> HIDE DEF own
      <4>3. own(i) < own(j) /\ own(i) \in Int /\ own(j) \in Int
        BY <1>1, <1>2, <2>2, <4>2
      <4>4. QED
        BY <4>3
    <3>4. QED
      BY <3>1, <3>2, <3>3
  <2>3. ASSUME NEW k \in 1 .. n, k \notin damaged
        PROVE  \E i \in 1 .. Len(c) : c[i] = sent[k]
    <3>1. CASE k \in ns
      <4> DEFINE j == k - (n - d)
      <4>1. j \in 1 .. d /\ n - d + j = k /\ q + j \in 1 .. Len(c)
        <5>1. q \in Nat /\ n \in Nat /\ d \in {1, 2} /\ Len(c) = q + d
          BY <1>1, <1>2, <1>6
        <5>2. k \in (n - d + 1) .. n
          BY <1>5, <3>1
        <5> HIDE DEF n, q, own
        <5>3. QED
          BY <5>1, <5>2
      <4> HIDE DEF j
      <4>2. c[q + j] = sent[k]
        BY <1>6, <4>1
      <4>3. QED
        BY <4>1, <4>2
    <3>2. CASE k \notin ns
      <4>1. PICK i \in 1 .. q : out[i] = sent[k]
        BY <1>2, <2>3, <3>2
      <4>2. c[i] = sent[k] /\ i \in 1 .. Len(c)
        BY <1>2, <1>5, <1>6, <4>1
      <4>3. QED
        BY <4>2
    <3>3. QED
      BY <3>1, <3>2
  <2>4. InFlight(wire') = {}
    BY DEF InFlight
  <2>5. \A i, j \in 1 .. Len(c) : i < j =>
            /\ Owner(c[i][3]) # Owner(c[j][3])
            /\ Owner(c[i][3]) \notin damaged /\ Owner(c[j][3]) \notin damaged
                  => Owner(c[i][3]) < Owner(c[j][3])
    <3>1. Len(c) = q + d
      BY <1>6
    <3>2. QED
      BY <2>2, <3>1
  <2>6. \A i \in 1 .. Len(c) : Begins(sent', c[i]) /\ Owner(c[i][3]) \notin InFlight(wire')
    BY <2>1, <2>4
  <2>7. \A k \in 1 .. Len(sent') : k \notin damaged' /\ k \notin InFlight(wire')
           => \E i \in 1 .. Len(c) : c[i] = sent'[k]
    BY <2>3
  <2>8. c \in Seq(Seq(Nat)) /\ damaged' = damaged
    BY <1>6
  <2>9. \A i, j \in 1 .. Len(c) : i < j =>
            /\ Owner(c[i][3]) # Owner(c[j][3])
            /\ Owner(c[i][3]) \notin damaged' /\ Owner(c[j][3]) \notin damaged'
                  => Owner(c[i][3]) < Owner(c[j][3])
    BY <2>5, <2>8
  <2> HIDE DEF own
  <2>10. QED
    BY <2>6, <2>7, <2>8, <2>9, Zenon DEF OutInv, c
<1>10. BufferInv'
  <2>1. ASSUME fu # <<>>
        PROVE  /\ Begins(sent, fu)
               /\ \A i \in 1 .. Len(c) : Owner(c[i][3]) # Owner(fu[3])
               /\ Owner(fu[3]) \in damaged
               /\ Len(fu) + Len(wire') <= n * MaxBody + 2
    <3>1. /\ Begins(sent, fu)
          /\ \A i \in 1 .. q : Owner(out[i][3]) # Owner(fu[3])
          /\ Owner(fu[3]) \in damaged
          /\ Len(fu) + Len(wire) <= n * MaxBody + 2
      BY <1>3, <2>1 DEF LossInv, BufferInv
    <3>2. ASSUME NEW i \in 1 .. q + d PROVE own(i) # Owner(fu[3])
      <4>1. CASE i <= q
        <5>1. i \in 1 .. q
          BY <1>2, <4>1
        <5>2. QED
          BY <1>6, <3>1, <5>1
      <4>2. CASE ~(i <= q)
        <5>1. own(i) \in ns
          BY <1>8, <4>2
        <5>2. QED
          BY <1>4, <3>1, <5>1
      <4>3. QED
        BY <4>1, <4>2
    <3>3. Len(fu) + Len(wire') <= n * MaxBody + 2
      <4> DEFINE y == n * MaxBody
      <4>1. y \in Int /\ Len(fu) \in Nat
        BY <1>1, <3>1, BoundsTyped DEF Begins
      <4>2. Len(wire) \in Nat /\ Len(wire') = 0
        BY <1>1, TailShape
      <4> HIDE DEF y
      <4>3. Len(fu) + Len(wire) <= y + 2
        BY <3>1 DEF y
      <4>4. Len(fu) + Len(wire') <= y + 2
        BY <4>1, <4>2, <4>3
      <4>5. QED
        BY <4>4 DEF y
    <3>4. QED
      BY <1>6, <3>1, <3>2, <3>3
  <2>2. \A h \in Headers, len \in 1 .. MaxBody, k \in 2 .. MaxBody : ~Remaining(sent, wire', h, len, k)
    BY NoneRemaining
  <2>3. QED
    BY <2>1, <2>2 DEF BufferInv, c
<1>11. InOrder'
  <2> SUFFICES ASSUME damaged = {}
               PROVE  /\ Len(c) <= n
                      /\ \A i \in 1 .. n : i <= Len(c)
                      /\ \A i \in 1 .. Len(c) : c[i] = sent[i]
    BY DEF InOrder, InFlight, c
  <2>1. /\ q <= n
        /\ \A i \in 1 .. n : i <= q <=> i \notin ns
        /\ \A i \in 1 .. q : out[i] = sent[i]
    BY DEF LossInv, InOrder
  <2>2. q = n - d
    <3>1. n - d + 1 \in 1 .. n /\ n - d + 1 \in ns
      BY <1>1, <1>5
    <3>2. n - d + 1 > q
      BY <1>1, <1>2, <1>5, <2>1, <3>1
    <3>3. n - d > 0 => n - d \in 1 .. n /\ n - d \notin ns
      BY <1>1, <1>5
    <3>4. n - d > 0 => n - d <= q
      BY <2>1, <3>3
    <3>5. QED
      BY <1>1, <1>2, <1>5, <3>2, <3>4
  <2>3. Len(c) = n
    BY <1>1, <1>2, <1>5, <1>6, <2>2
  <2>4. ASSUME NEW i \in 1 .. n PROVE c[i] = sent[i]
    <3>1. CASE i <= q
      <4>1. i \in 1 .. q
        BY <1>2, <3>1
      <4>2. QED
        BY <1>6, <2>1, <4>1
    <3>2. CASE ~(i <= q)
      <4>1. i - q \in 1 .. d /\ q + (i - q) = i /\ n - d + (i - q) = i
        BY <1>1, <1>2, <1>5, <2>2, <3>2
      <4>2. c[q + (i - q)] = sent[n - d + (i - q)]
        BY <1>6, <4>1
      <4>3. QED
        BY <4>1, <4>2
    <3>3. QED
      BY <3>1, <3>2
  <2>5. QED
    BY <1>1, <2>3, <2>4
<1>12. DamageInv' /\ WireShape(sent', wire')
  BY <1>4 DEF DamageInv, InFlight, WireShape
<1>13. QED
  BY <1>1, <1>9, <1>10, <1>11, <1>12 DEF LossInv

(* While fragments of the same NAL remain, nothing that came out and no    *)
(* damage changes.                                                         *)
LEMMA MeanwhileKeeps ==
    ASSUME LossInv, sent' = sent, out' = out, damaged' = damaged,
           InFlight(wire') = InFlight(wire), Halfway(sent, wire')
    PROVE  OutInv' /\ InOrder' /\ DamageInv'
<1>1. OutInv'
  BY Zenon DEF LossInv, OutInv
<1>2. InOrder'
  BY Zenon DEF LossInv, InOrder
<1>3. DamageInv'
  BY DEF LossInv, DamageInv
<1>4. QED
  BY <1>1, <1>2, <1>3

(* A fragment that is not the last: the next one is then the first left.   *)
LEMMA NextRemains ==
    ASSUME SentShape(sent), NEW h \in Headers, NEW len \in 1 .. MaxBody, NEW k,
           Remaining(sent, wire, h, len, k), k < len, wire' = Tail(wire)
    PROVE  /\ Remaining(sent, wire', h, len, k + 1) /\ k + 1 \in 2 .. MaxBody
           /\ InFlight(wire') = InFlight(wire) /\ InFlight(wire) = {Len(sent)}
           /\ Halfway(sent, wire') /\ WireShape(sent, wire')
           /\ Len(wire') = len - k /\ Len(wire) = len - k + 1
           /\ \A g \in Headers, m \in 1 .. MaxBody, j \in 2 .. MaxBody :
                 Remaining(sent, wire', g, m, j) => g = h /\ m = len /\ j = k + 1
<1>1. /\ k \in 1 .. MaxBody /\ Len(wire) = len - k + 1 /\ Len(Tail(wire)) = Len(wire) - 1
      /\ InFlight(wire) = {Len(sent)}
  BY RemainingFirst
<1>2. Remaining(sent, wire', h, len, k + 1)
  BY RemainingFirst
<1>3. k \in Nat /\ k >= 1 /\ len \in Nat /\ len <= MaxBody /\ MaxBody \in Nat
  BY <1>1, BoundsTyped
<1>4. k + 1 \in 2 .. MaxBody /\ k + 1 \in 1 .. MaxBody
  BY <1>3
<1>5. InFlight(wire') = {Len(sent)}
  BY <1>2, RemainingFirst
<1>6. Underway(sent, wire', k + 1)
  BY <1>2 DEF Underway
<1>7. Halfway(sent, wire') /\ WireShape(sent, wire')
  BY <1>4, <1>6 DEF Halfway, WireShape
<1>8. Len(wire') = len - k
  BY <1>1, <1>3
<1>9. \A g \in Headers, m \in 1 .. MaxBody, j \in 2 .. MaxBody :
         Remaining(sent, wire', g, m, j) => g = h /\ m = len /\ j = k + 1
  BY <1>2, RemainingUnique
<1>10. QED
  BY <1>1, <1>2, <1>4, <1>5, <1>7, <1>8, <1>9

(* What the buffer has to satisfy while fragments remain.                  *)
LEMMA BufferKept ==
    ASSUME LossInv, sent' = sent, out' = out, damaged' = damaged, Halfway(sent, wire'),
           fu' # <<>> =>
             /\ Begins(sent, fu')
             /\ \A i \in 1 .. Len(out) : Owner(out[i][3]) # Owner(fu'[3])
             /\ Owner(fu'[3]) \in damaged \/ Owner(fu'[3]) = Len(sent)
             /\ Len(fu') + Len(wire') <= Len(sent) * MaxBody + 2,
           \A h \in Headers, len \in 1 .. MaxBody, k \in 2 .. MaxBody :
             Remaining(sent, wire', h, len, k) /\ Len(sent) \notin damaged
               => fu' = Nal(h, Len(sent), k - 1)
    PROVE  BufferInv'
BY DEF BufferInv

LEMMA FirstKeeps ==
    ASSUME LossInv, NEW h \in Headers, NEW len \in 1 .. MaxBody, Remaining(sent, wire, h, len, 1),
           1 < len, wire' = Tail(wire), fu' = Nal(h, Len(sent), 1),
           out' = out, sent' = sent, damaged' = damaged
    PROVE  LossInv'
<1> DEFINE n == Len(sent)
<1>1. SentShape(sent) /\ n \in Nat /\ MaxBody \in Nat /\ len \in Nat /\ len <= MaxBody
  <2>1. SentShape(sent) /\ n \in Nat
    BY DEF LossInv, SentShape
  <2>2. QED
    BY <2>1, BoundsTyped
<1>2. n > 0 /\ sent[n] = Nal(h, n, len)
  BY DEF Remaining
<1>3. /\ 1 + 1 \in 2 .. MaxBody
      /\ InFlight(wire') = InFlight(wire) /\ InFlight(wire) = {n}
      /\ Halfway(sent, wire') /\ WireShape(sent, wire')
      /\ Len(wire') = len - 1
      /\ \A g \in Headers, m \in 1 .. MaxBody, j \in 2 .. MaxBody :
            Remaining(sent, wire', g, m, j) => g = h /\ m = len /\ j = 1 + 1
  BY <1>1, NextRemains
<1>4. Begins(sent, fu') /\ Owner(fu'[3]) = n /\ Len(fu') = 3
  <2>1. n \in 1 .. Len(sent) /\ 1 \in 1 .. len
    BY <1>1, <1>2
  <2>2. Begins(sent, Nal(h, n, 1)) /\ Owner(Nal(h, n, 1)[3]) = n /\ Len(Nal(h, n, 1)) = 1 + 2
    BY <1>1, <1>2, <2>1, BegunNal
  <2>3. QED
    BY <2>2
<1>5. \A i \in 1 .. Len(out) : Owner(out[i][3]) # n
  <2>1. \A i \in 1 .. Len(out) : Owner(out[i][3]) \notin InFlight(wire)
    BY DEF LossInv, OutInv
  <2>2. QED
    BY <1>3, <2>1
<1>6. Len(fu') + Len(wire') <= n * MaxBody + 2
  <2>1. n * MaxBody >= MaxBody
    <3>1. n - 1 \in Nat
      BY <1>1, <1>2
    <3>2. (n - 1) * MaxBody \in Nat /\ (n - 1 + 1) * MaxBody >= (n - 1) * MaxBody + MaxBody
      BY <1>1, <3>1, MoreRoom
    <3>3. n - 1 + 1 = n
      BY <1>1
    <3> DEFINE x == (n - 1) * MaxBody
    <3>4. x \in Nat /\ n * MaxBody >= x + MaxBody /\ n * MaxBody \in Int
      BY <1>1, <3>2, <3>3
    <3> HIDE DEF x
    <3>5. QED
      BY <1>1, <3>4
  <2>2. Len(fu') + Len(wire') = len + 2
    <3> DEFINE lf == Len(fu')
               lw == Len(wire')
    <3>1. lf = 3 /\ lw = len - 1 /\ len \in Nat
      BY <1>1, <1>3, <1>4
    <3> HIDE DEF lf, lw
    <3>2. lf + lw = len + 2
      BY <3>1
    <3>3. QED
      BY <3>2 DEF lf, lw
  <2> DEFINE y == n * MaxBody
  <2>3. y \in Int
    BY <1>1
  <2> HIDE DEF y
  <2>4. y >= MaxBody
    BY <2>1 DEF y
  <2>5. Len(fu') + Len(wire') <= y + 2
    BY <1>1, <2>2, <2>3, <2>4
  <2>6. QED
    BY <2>5 DEF y
<1>7. \A g \in Headers, m \in 1 .. MaxBody, j \in 2 .. MaxBody :
         Remaining(sent, wire', g, m, j) => fu' = Nal(g, n, j - 1)
  BY <1>3
<1>8. BufferInv'
  BY <1>3, <1>4, <1>5, <1>6, <1>7, BufferKept
<1>9. OutInv' /\ InOrder' /\ DamageInv'
  BY <1>3, MeanwhileKeeps
<1>10. QED
  BY <1>1, <1>3, <1>8, <1>9 DEF LossInv

(* A middle or an end whose start was lost.                                *)
LEMMA IgnoredKeeps ==
    ASSUME LossInv, NEW h \in Headers, NEW len \in 1 .. MaxBody, NEW k,
           Remaining(sent, wire, h, len, k), k # 1, fu = <<>>, wire' = Tail(wire),
           fu' = fu, out' = out, sent' = sent, damaged' = damaged
    PROVE  LossInv'
<1> DEFINE n == Len(sent)
<1>1. SentShape(sent) /\ n \in Nat /\ WireShape(sent, wire)
  BY DEF LossInv, SentShape
<1>2. /\ k \in 1 .. MaxBody /\ wire # <<>> /\ InFlight(wire) = {n}
      /\ k = len => Tail(wire) = <<>>
  BY <1>1, RemainingFirst
<1>3. k \in 1 .. len /\ k \in Nat /\ len \in Nat /\ k \in 2 .. MaxBody
  BY <1>2, BoundsTyped DEF Remaining
<1>4. n \in damaged
  <2> SUFFICES ASSUME n \notin damaged PROVE FALSE
    OBVIOUS
  <2>1. fu = Nal(h, n, k - 1)
    BY <1>3 DEF LossInv, BufferInv
  <2>2. k - 1 \in Nat /\ h \in Nat
    BY <1>3, BoundsTyped
  <2>3. Spells(fu, h, n, k - 1)
    BY <1>1, <2>1, <2>2, NalBytes
  <2>4. Len(fu) = k - 1 + 2
    BY <2>3 DEF Spells
  <2>5. Len(fu) = 0
    OBVIOUS
  <2>6. QED
    BY <1>3, <2>4, <2>5
<1>5. CASE k < len
  <2>1. /\ InFlight(wire') = InFlight(wire) /\ Halfway(sent, wire') /\ WireShape(sent, wire')
    BY <1>1, <1>5, NextRemains
  <2>2. BufferInv'
    BY <1>4, <2>1, BufferKept
  <2>3. OutInv' /\ InOrder' /\ DamageInv'
    BY <2>1, MeanwhileKeeps
  <2>4. QED
    BY <1>1, <2>1, <2>2, <2>3 DEF LossInv
<1>6. CASE k = len
  <2>1. wire' = <<>> /\ InFlight(wire') = {}
    BY <1>2, <1>6 DEF InFlight
  <2>2. BufferInv'
    BY <1>4 DEF BufferInv
  <2>3. OutInv'
    <3>1. /\ out \in Seq(Seq(Nat))
          /\ \A i \in 1 .. Len(out) : Begins(sent, out[i])
          /\ \A i, j \in 1 .. Len(out) : i < j =>
                /\ Owner(out[i][3]) # Owner(out[j][3])
                /\ Owner(out[i][3]) \notin damaged /\ Owner(out[j][3]) \notin damaged
                      => Owner(out[i][3]) < Owner(out[j][3])
          /\ \A j \in 1 .. n : j \notin damaged => \E i \in 1 .. Len(out) : out[i] = sent[j]
      BY <1>2, <1>4 DEF LossInv, OutInv
    <3>2. \A j : j \notin InFlight(wire')
      BY <2>1
    <3>3. QED
      BY <3>1, <3>2, Zenon DEF OutInv
  <2>4. InOrder' /\ DamageInv' /\ WireShape(sent', wire')
    BY <1>4, <2>1 DEF InOrder, LossInv, DamageInv, WireShape
  <2>5. QED
    BY <1>1, <2>2, <2>3, <2>4 DEF LossInv
<1>7. QED
  BY <1>3, <1>5, <1>6

(* A middle after what came before it.                                     *)
LEMMA MoreKeeps ==
    ASSUME LossInv, NEW h \in Headers, NEW len \in 1 .. MaxBody, NEW k,
           Remaining(sent, wire, h, len, k), k # 1, k < len, fu # <<>>, wire' = Tail(wire),
           fu' = fu \o <<Byte(Len(sent), k)>>, out' = out, sent' = sent, damaged' = damaged
    PROVE  LossInv'
<1> DEFINE n == Len(sent)
           b == Byte(n, k)
<1>1. SentShape(sent) /\ n \in Nat
  BY DEF LossInv, SentShape
<1>2. k \in 1 .. MaxBody /\ InFlight(wire) = {n}
  BY <1>1, RemainingFirst
<1>3. k \in Nat /\ k > 0 /\ k \in 2 .. MaxBody /\ k + 1 - 1 = k /\ h \in Nat /\ len \in Nat
  BY <1>2, BoundsTyped
<1>4. /\ InFlight(wire') = InFlight(wire) /\ Halfway(sent, wire') /\ WireShape(sent, wire')
      /\ Len(wire') = len - k /\ Len(wire) = len - k + 1
      /\ \A g \in Headers, m \in 1 .. MaxBody, j \in 2 .. MaxBody :
            Remaining(sent, wire', g, m, j) => g = h /\ m = len /\ j = k + 1
  BY <1>1, NextRemains
<1>5. b \in BodyBytes
  <2>1. n \in 1 .. NalCount
    BY <1>1 DEF SentShape, Remaining
  <2>2. QED
    BY <1>2, <2>1, OfABody
<1>6. /\ Begins(sent, fu)
      /\ \A i \in 1 .. Len(out) : Owner(out[i][3]) # Owner(fu[3])
      /\ Owner(fu[3]) \in damaged \/ Owner(fu[3]) = n
      /\ Len(fu) + Len(wire) <= n * MaxBody + 2
      /\ n \notin damaged => fu = Nal(h, n, k - 1)
  BY <1>3 DEF LossInv, BufferInv
<1> HIDE DEF b
<1>7. Begins(sent, fu') /\ Owner(fu'[3]) = Owner(fu[3]) /\ Len(fu') = Len(fu) + 1
  <2>1. fu' = fu \o <<b>>
    BY DEF b
  <2>2. /\ Begins(sent, fu \o <<b>>) /\ Owner((fu \o <<b>>)[3]) = Owner(fu[3])
        /\ Len(fu \o <<b>>) = Len(fu) + 1
    BY <1>5, <1>6, Continued
  <2>3. QED
    BY <2>1, <2>2
<1>8. Len(fu') + Len(wire') <= n * MaxBody + 2
  <2>1. Len(fu) \in Nat
    BY <1>6 DEF Begins
  <2>2. Len(fu') + Len(wire') = Len(fu) + Len(wire)
    <3> DEFINE lf == Len(fu')
               lw == Len(wire')
               l == Len(fu)
    <3>1. lf = l + 1 /\ lw = len - k /\ Len(wire) = len - k + 1
          /\ l \in Nat /\ len \in Nat /\ k \in Nat
      BY <1>3, <1>4, <1>7, <2>1
    <3> HIDE DEF l, lf, lw
    <3>2. lf + lw = l + Len(wire)
      BY <3>1
    <3>3. QED
      BY <3>2 DEF l, lf, lw
  <2>3. QED
    BY <1>6, <2>2
<1>9. n \notin damaged => fu' = Nal(h, n, k)
  <2>1. Nal(h, n, k - 1) \o <<Byte(n, k)>> = Nal(h, n, k)
    BY <1>1, <1>3, NalContinued
  <2>2. n \notin damaged => fu = Nal(h, n, k - 1)
    BY <1>6
  <2>3. QED
    BY <2>1, <2>2
<1>10. \A g \in Headers, m \in 1 .. MaxBody, j \in 2 .. MaxBody :
          Remaining(sent, wire', g, m, j) /\ n \notin damaged => fu' = Nal(g, n, j - 1)
  <2> SUFFICES ASSUME NEW g \in Headers, NEW m \in 1 .. MaxBody, NEW j \in 2 .. MaxBody,
                      Remaining(sent, wire', g, m, j), n \notin damaged
               PROVE  fu' = Nal(g, n, j - 1)
    OBVIOUS
  <2>1. g = h /\ j = k + 1
    BY <1>4
  <2>2. j - 1 = k
    BY <1>3, <2>1
  <2>3. QED
    BY <1>9, <2>1, <2>2
<1>11. BufferInv'
  <2>1. \A i \in 1 .. Len(out) : Owner(out[i][3]) # Owner(fu'[3])
    BY <1>6, <1>7
  <2>2. Owner(fu'[3]) \in damaged \/ Owner(fu'[3]) = n
    BY <1>6, <1>7
  <2>3. QED
    BY <1>4, <1>7, <1>8, <1>10, <2>1, <2>2, BufferKept
<1>12. OutInv' /\ InOrder' /\ DamageInv'
  BY <1>4, MeanwhileKeeps
<1>13. QED
  BY <1>1, <1>4, <1>11, <1>12 DEF LossInv

(* The end of a NAL after what came before it.                             *)
LEMMA EndKeeps ==
    ASSUME LossInv, NEW h \in Headers, NEW len \in 1 .. MaxBody,
           Remaining(sent, wire, h, len, len), len # 1, fu # <<>>, wire' = Tail(wire),
           fu' = <<>>, out' = out \o <<fu \o <<Byte(Len(sent), len)>>>>,
           sent' = sent, damaged' = damaged
    PROVE  LossInv'
<1> DEFINE n == Len(sent)
           b == Byte(n, len)
           x == fu \o <<b>>
           q == Len(out)
           c == out'
           m == Owner(fu[3])
<1>1. SentShape(sent) /\ n \in Nat
  BY DEF LossInv, SentShape
<1>2. InFlight(wire) = {n} /\ wire' = <<>>
  BY <1>1, RemainingFirst
<1>3. len \in Nat /\ len \in 2 .. MaxBody /\ h \in Nat /\ len - 1 \in Nat /\ len > 0
  BY BoundsTyped
<1>4. n > 0 /\ sent[n] = Nal(h, n, len) /\ n \in 1 .. NalCount
  BY <1>1 DEF SentShape, Remaining
<1>5. b \in BodyBytes
  BY <1>4, OfABody
<1>6. /\ Begins(sent, fu)
      /\ \A i \in 1 .. q : Owner(out[i][3]) # m
      /\ m \in damaged \/ m = n
      /\ n \notin damaged => fu = Nal(h, n, len - 1)
  BY <1>3 DEF LossInv, BufferInv
<1>7. /\ out \in Seq(Seq(Nat)) /\ q \in Nat
      /\ \A i \in 1 .. q : Begins(sent, out[i]) /\ Owner(out[i][3]) # n
      /\ \A i, j \in 1 .. q : i < j =>
            /\ Owner(out[i][3]) # Owner(out[j][3])
            /\ Owner(out[i][3]) \notin damaged /\ Owner(out[j][3]) \notin damaged
                  => Owner(out[i][3]) < Owner(out[j][3])
      /\ \A i \in 1 .. n : i \notin damaged /\ i # n => \E j \in 1 .. q : out[j] = sent[i]
  BY <1>2 DEF LossInv, OutInv
<1> HIDE DEF b
<1>8. Begins(sent, x) /\ Owner(x[3]) = m /\ x \in Seq(Nat)
  <2>1. Begins(sent, x) /\ Owner(x[3]) = m
    BY <1>5, <1>6, Continued
  <2>2. QED
    BY <2>1 DEF Begins
<1>9. n \notin damaged => x = sent[n] /\ m = n
  <2>1. n \notin damaged => x = Nal(h, n, len)
    <3>1. h \in Nat /\ n \in Nat /\ len \in Nat /\ len > 0
      BY <1>1, <1>3
    <3> HIDE DEF n
    <3>2. Nal(h, n, len - 1) \o <<Byte(n, len)>> = Nal(h, n, len)
      BY <3>1, NalContinued
    <3>3. QED
      BY <1>6, <3>2 DEF b
  <2>2. n \notin damaged => x = sent[n]
    BY <1>4, <2>1
  <2>3. n \in 1 .. Len(sent)
    BY <1>1, <1>4
  <2>4. Owner(sent[n][3]) = n
    BY <1>1, <2>3, SentNal
  <2>5. QED
    BY <1>8, <2>2, <2>4
<1> HIDE DEF x
<1>10. /\ c \in Seq(Seq(Nat)) /\ Len(c) = q + 1
       /\ \A i \in 1 .. q : c[i] = out[i]
       /\ c[q + 1] = x
  <2> DEFINE S == Seq(Nat)
             t == <<x>>
  <2>1. x \in S
    BY <1>8
  <2> HIDE DEF S
  <2>2. t \in Seq(S) /\ Len(t) = 1 /\ t[1] = x
    BY <2>1
  <2>3. c = out \o t
    BY DEF x, b
  <2>4. t \in Seq(Seq(Nat))
    BY <2>2 DEF S
  <2> HIDE DEF t
  <2>5. /\ out \o t \in Seq(Seq(Nat)) /\ Len(out \o t) = q + Len(t)
        /\ \A i \in 1 .. q : (out \o t)[i] = out[i]
        /\ \A i \in 1 .. Len(t) : (out \o t)[q + i] = t[i]
    BY <1>7, <2>4, OutMore
  <2>6. (out \o t)[q + 1] = t[1]
    BY <2>2, <2>5
  <2>7. QED
    BY <2>2, <2>3, <2>5, <2>6
<1> HIDE DEF c
<1> DEFINE own(i) == Owner(c[i][3])
<1>11. OutInv'
  <2>1. \A i \in 1 .. Len(c) : Begins(sent, c[i])
    <3> SUFFICES ASSUME NEW i \in 1 .. q + 1 PROVE Begins(sent, c[i])
      BY <1>10
    <3>1. i \in 1 .. q \/ i = q + 1
      BY <1>7
    <3>2. QED
      BY <1>7, <1>8, <1>10, <3>1
  <2>2. ASSUME NEW i \in 1 .. q + 1, NEW j \in 1 .. q + 1, i < j
        PROVE  own(i) # own(j) /\ (own(i) \notin damaged /\ own(j) \notin damaged => own(i) < own(j))
    <3>1. CASE j <= q
      <4>1. i \in 1 .. q /\ j \in 1 .. q
        BY <1>7, <2>2, <3>1
      <4>2. c[i] = out[i] /\ c[j] = out[j]
        BY <1>10, <4>1
      <4>3. QED
        BY <1>7, <2>2, <4>1, <4>2
    <3>2. CASE ~(j <= q)
      <4>1. i \in 1 .. q /\ j = q + 1
        <5>1. q \in Nat
          BY <1>7
        <5> HIDE DEF q
        <5>2. QED
          BY <2>2, <3>2, <5>1
      <4>2. own(j) = m /\ own(i) = Owner(out[i][3])
        BY <1>8, <1>10, <4>1
      <4>3. own(i) # m /\ own(i) # n
        BY <1>6, <1>7, <4>1, <4>2
      <4>4. own(i) \in 1 .. n
        BY <1>7, <4>1, <4>2 DEF Begins
      <4>5. m \notin damaged => m = n
        BY <1>6
      <4> HIDE DEF own, m
      <4>6. own(i) < n /\ own(i) # own(j)
        BY <1>1, <4>2, <4>3, <4>4
      <4>7. QED
        BY <4>2, <4>5, <4>6
    <3>3. QED
      BY <3>1, <3>2
  <2>3. ASSUME NEW k \in 1 .. n, k \notin damaged
        PROVE  \E i \in 1 .. Len(c) : c[i] = sent[k]
    <3>1. CASE k = n
      <4>1. q + 1 \in 1 .. Len(c) /\ c[q + 1] = sent[k]
        BY <1>7, <1>9, <1>10, <2>3, <3>1
      <4>2. QED
        BY <4>1
    <3>2. CASE k # n
      <4>1. PICK i \in 1 .. q : out[i] = sent[k]
        BY <1>7, <2>3, <3>2
      <4>2. c[i] = sent[k] /\ i \in 1 .. Len(c)
        BY <1>7, <1>10, <4>1
      <4>3. QED
        BY <4>2
    <3>3. QED
      BY <3>1, <3>2
  <2>4. InFlight(wire') = {}
    BY <1>2 DEF InFlight
  <2>5. \A i \in 1 .. Len(c) : Begins(sent', c[i]) /\ Owner(c[i][3]) \notin InFlight(wire')
    BY <2>1, <2>4
  <2>6. \A i, j \in 1 .. Len(c) : i < j =>
            /\ Owner(c[i][3]) # Owner(c[j][3])
            /\ Owner(c[i][3]) \notin damaged' /\ Owner(c[j][3]) \notin damaged'
                  => Owner(c[i][3]) < Owner(c[j][3])
    <3>1. Len(c) = q + 1
      BY <1>10
    <3>2. QED
      BY <2>2, <3>1
  <2>7. \A k \in 1 .. Len(sent') : k \notin damaged' /\ k \notin InFlight(wire')
           => \E i \in 1 .. Len(c) : c[i] = sent'[k]
    BY <2>3
  <2>8. c \in Seq(Seq(Nat))
    BY <1>10
  <2> HIDE DEF own
  <2>9. QED
    BY <2>5, <2>6, <2>7, <2>8, Zenon DEF OutInv, c
<1>12. BufferInv'
  <2>1. \A g \in Headers, l \in 1 .. MaxBody, k \in 2 .. MaxBody : ~Remaining(sent, wire', g, l, k)
    BY <1>2, NoneRemaining
  <2>2. QED
    BY <2>1 DEF BufferInv
<1>13. InOrder'
  <2> SUFFICES ASSUME damaged = {}
               PROVE  /\ Len(c) <= n
                      /\ \A i \in 1 .. n : i <= Len(c)
                      /\ \A i \in 1 .. Len(c) : c[i] = sent[i]
    BY <1>2 DEF InOrder, InFlight, c
  <2>1. /\ q <= n
        /\ \A i \in 1 .. n : i <= q <=> i # n
        /\ \A i \in 1 .. q : out[i] = sent[i]
    BY <1>2 DEF LossInv, InOrder
  <2>2. q = n - 1
    <3>1. n \in 1 .. n
      BY <1>1, <1>4
    <3>2. ~(n <= q)
      BY <2>1, <3>1
    <3>3. n - 1 > 0 => n - 1 \in 1 .. n /\ n - 1 # n
      BY <1>1
    <3>4. n - 1 > 0 => n - 1 <= q
      BY <2>1, <3>3
    <3>5. QED
      BY <1>1, <1>4, <1>7, <3>2, <3>4
  <2>3. Len(c) = n
    BY <1>1, <1>10, <2>2
  <2>4. ASSUME NEW i \in 1 .. n PROVE c[i] = sent[i]
    <3>1. CASE i = n
      <4>1. i = q + 1
        BY <1>1, <2>2, <3>1
      <4>2. x = sent[n]
        BY <1>9
      <4>3. QED
        BY <1>10, <3>1, <4>1, <4>2
    <3>2. CASE i # n
      <4>1. i \in 1 .. q
        BY <1>1, <2>2, <3>2
      <4>2. QED
        BY <1>10, <2>1, <4>1
    <3>3. QED
      BY <3>1, <3>2
  <2>5. QED
    BY <1>1, <2>3, <2>4
<1>14. DamageInv' /\ WireShape(sent', wire')
  BY <1>2 DEF LossInv, DamageInv, InFlight, WireShape
<1>15. QED
  BY <1>1, <1>11, <1>12, <1>13, <1>14 DEF LossInv

LEMMA PushKeeps == LossInv /\ Push => LossInv'
<1> SUFFICES ASSUME LossInv, Push PROVE LossInv'
  OBVIOUS
<1> DEFINE n == Len(sent)
           r == Depacketized(Head(wire).payload)
<1>1. /\ wire # <<>> /\ fu' = r.fu /\ out' = out \o r.nals
      /\ wire' = Tail(wire) /\ sent' = sent /\ damaged' = damaged
  BY DEF Push
<1>2. SentShape(sent) /\ WireShape(sent, wire) /\ n \in Nat /\ out \in Seq(Seq(Nat))
  <2>1. SentShape(sent) /\ WireShape(sent, wire) /\ out \in Seq(Seq(Nat))
    BY DEF LossInv, OutInv
  <2>2. QED
    BY <2>1 DEF SentShape
<1>3. out \o <<>> = out
  BY <1>2, ConcatEmptySeq
<1> HIDE DEF r
<1>4. ASSUME NEW nals, NEW ns, r = Result(fu, nals), Whole(sent, wire, nals, ns),
             InFlight(wire) = ns, Tail(wire) = <<>>
      PROVE  LossInv'
  <2>1. r.fu = fu /\ r.nals = nals
    BY <1>4 DEF Result
  <2>2. QED
    BY <1>1, <1>4, <2>1, WholeKeeps
<1>5. CASE n > 0 /\ wire = SinglePacket(sent)
  <2>1. /\ r = Result(fu, <<sent[n]>>) /\ Whole(sent, wire, <<sent[n]>>, {n})
        /\ InFlight(wire) = {n} /\ Tail(wire) = <<>>
    BY <1>2, <1>5, SingleArrives DEF r
  <2>2. QED
    BY <1>4, <2>1
<1>6. CASE n > 1 /\ wire = PairPacket(sent)
  <2> DEFINE nals == <<sent[n - 1], sent[n]>>
             ns == {n - 1, n}
  <2>1. /\ r = Result(fu, nals) /\ Whole(sent, wire, nals, ns)
        /\ InFlight(wire) = ns /\ Tail(wire) = <<>>
    BY <1>2, <1>6, PairArrives DEF r
  <2> HIDE DEF nals, ns
  <2>2. QED
    BY <1>4, <2>1
<1>7. CASE \E k \in 1 .. MaxBody : Underway(sent, wire, k)
  <2>1. PICK k \in 1 .. MaxBody, h \in Headers, len \in 1 .. MaxBody :
          Remaining(sent, wire, h, len, k)
    BY <1>7 DEF Underway
  <2>2. k \in 1 .. len /\ k \in Nat /\ len \in Nat
    BY <2>1, BoundsTyped DEF Remaining
  <2>3. CASE len = 1 /\ k = 1
    <3>1. Remaining(sent, wire, h, 1, 1) /\ 1 \in 1 .. MaxBody
      BY <2>1, <2>3, BoundsTyped
    <3>2. /\ r = Result(fu, <<sent[n]>>) /\ Whole(sent, wire, <<sent[n]>>, {n})
          /\ InFlight(wire) = {n} /\ Tail(wire) = <<>>
      BY <1>2, <3>1, OnlyFragmentArrives DEF r
    <3>3. QED
      BY <1>4, <3>2
  <2>4. CASE ~(len = 1 /\ k = 1)
    <3>1. r = IF k = 1 THEN Result(Nal(h, n, 1), <<>>)
              ELSE IF fu = <<>> THEN Result(fu, <<>>)
              ELSE IF k = len THEN Result(<<>>, <<fu \o <<Byte(n, k)>>>>)
              ELSE Result(fu \o <<Byte(n, k)>>, <<>>)
      BY <1>2, <2>1, <2>4, FragmentArrives DEF r
    <3>2. CASE k = 1
      <4>1. fu' = Nal(h, n, 1) /\ out' = out
        BY <1>1, <1>3, <3>1, <3>2 DEF Result
      <4>2. 1 < len /\ Remaining(sent, wire, h, len, 1)
        BY <2>1, <2>2, <2>4, <3>2
      <4>3. QED
        BY <1>1, <4>1, <4>2, FirstKeeps
    <3>3. CASE k # 1 /\ fu = <<>>
      <4>1. fu' = fu /\ out' = out
        BY <1>1, <1>3, <3>1, <3>3 DEF Result
      <4>2. QED
        BY <1>1, <2>1, <3>3, <4>1, IgnoredKeeps
    <3>4. CASE k # 1 /\ fu # <<>> /\ k = len
      <4>1. fu' = <<>> /\ out' = out \o <<fu \o <<Byte(n, len)>>>>
        BY <1>1, <3>1, <3>4 DEF Result
      <4>2. Remaining(sent, wire, h, len, len) /\ len # 1
        BY <2>1, <3>4
      <4>3. QED
        BY <1>1, <3>4, <4>1, <4>2, EndKeeps
    <3>5. CASE k # 1 /\ fu # <<>> /\ k # len
      <4>1. fu' = fu \o <<Byte(n, k)>> /\ out' = out
        BY <1>1, <1>3, <3>1, <3>5 DEF Result
      <4>2. k < len
        BY <2>2, <3>5
      <4>3. QED
        BY <1>1, <2>1, <3>5, <4>1, <4>2, MoreKeeps
    <3>6. QED
      BY <3>2, <3>3, <3>4, <3>5
  <2>5. QED
    BY <2>3, <2>4
<1>8. QED
  BY <1>1, <1>2, <1>5, <1>6, <1>7 DEF WireShape

LEMMA LossStep == LossInv /\ [Next]_vars => LossInv'
<1> SUFFICES ASSUME LossInv, [Next]_vars PROVE LossInv'
  OBVIOUS
<1>1. CASE UNCHANGED vars
  <2>1. /\ sent' = sent /\ wire' = wire /\ fu' = fu /\ out' = out /\ damaged' = damaged
    BY <1>1 DEF vars
  <2>2. DamageInv' /\ SentShape(sent') /\ WireShape(sent', wire')
    BY <2>1 DEF LossInv, DamageInv
  <2>3. BufferInv'
    BY <2>1, Zenon DEF LossInv, BufferInv
  <2>4. OutInv'
    BY <2>1, Zenon DEF LossInv, OutInv
  <2>5. InOrder'
    BY <2>1, Zenon DEF LossInv, InOrder
  <2>6. QED
    BY <2>2, <2>3, <2>4, <2>5 DEF LossInv
<1>2. CASE SendSingle
  BY <1>2, SingleKeeps
<1>3. CASE SendAggregated
  BY <1>3, AggregatedKeeps
<1>4. CASE SendFragmented
  BY <1>4, FragmentedKeeps
<1>5. CASE Push
  BY <1>5, PushKeeps
<1>6. CASE Lose
  BY <1>6, LoseKeeps
<1>7. QED
  BY <1>1, <1>2, <1>3, <1>4, <1>5, <1>6 DEF Next

-----------------------------------------------------------------------------
(* The invariants.                                                         *)
LEMMA LossHolds == Spec => []LossInv
<1>1. QED
  BY InitLoss, LossStep, PTL DEF Spec

LEMMA BegunTyped ==
    ASSUME NEW s, SentShape(s), NEW nal, Begins(s, nal)
    PROVE  /\ Len(nal) >= 3
           /\ \A i \in 1 .. Len(nal) : nal[i] \in IF i <= 2 THEN 0 .. 255 ELSE BodyBytes
<1> DEFINE m == Owner(nal[3])
<1>1. /\ nal \in Seq(Nat) /\ Len(nal) >= 3 /\ m \in 1 .. Len(s)
      /\ \A i \in 3 .. Len(nal) : nal[i] \in BodyBytes
      /\ nal[1] = s[m][1] /\ nal[2] = s[m][2]
  BY DEF Begins
<1>2. nal[1] \in 0 .. 255 /\ nal[2] \in 0 .. 255
  <2> HIDE DEF m
  <2>1. s[m][1] \in 0 .. 255 /\ s[m][2] = 1
    BY <1>1, SentNal
  <2>2. QED
    BY <1>1, <2>1
<1> HIDE DEF m
<1>3. ASSUME NEW i \in 1 .. Len(nal) PROVE nal[i] \in IF i <= 2 THEN 0 .. 255 ELSE BodyBytes
  <2>1. CASE i <= 2
    <3>1. i = 1 \/ i = 2
      BY <2>1
    <3>2. QED
      BY <1>2, <2>1, <3>1
  <2>2. CASE ~(i <= 2)
    <3>1. i \in 3 .. Len(nal)
      BY <1>1, <2>2
    <3>2. QED
      BY <1>1, <2>2, <3>1
  <2>3. QED
    BY <2>1, <2>2
<1>4. QED
  BY <1>1, <1>3

LEMMA LossTypes == LossInv => TypeOK
<1> SUFFICES ASSUME LossInv PROVE TypeOK
  OBVIOUS
<1> DEFINE n == Len(sent)
<1>1. SentShape(sent) /\ n \in Nat /\ n <= NalCount /\ NalCount \in Nat /\ MaxBody \in Nat
  <2>1. SentShape(sent) /\ n \in Nat /\ n <= NalCount
    BY DEF LossInv, SentShape
  <2>2. QED
    BY <2>1, BoundsTyped
<1>2. fu # <<>> => Begins(sent, fu) /\ Len(fu) + Len(wire) <= n * MaxBody + 2
  BY DEF LossInv, BufferInv
<1>3. ASSUME NEW s \in ({fu} \ {<<>>}) \cup ToSet(out) \cup ToSet(sent) PROVE Begins(sent, s)
  <2>1. CASE s = fu /\ s # <<>>
    BY <1>2, <2>1
  <2>2. CASE s \in ToSet(out)
    <3>1. out \in Seq(Seq(Nat)) /\ \A i \in 1 .. Len(out) : Begins(sent, out[i])
      BY DEF LossInv, OutInv
    <3>2. PICK i \in DOMAIN out : s = out[i]
      BY <2>2 DEF ToSet
    <3>3. i \in 1 .. Len(out)
      BY <3>1
    <3>4. QED
      BY <3>1, <3>2, <3>3
  <2>3. CASE s \in ToSet(sent)
    <3>1. PICK i \in DOMAIN sent : s = sent[i]
      BY <2>3 DEF ToSet
    <3>2. i \in 1 .. Len(sent)
      BY <1>1 DEF SentShape
    <3>3. QED
      BY <1>1, <3>1, <3>2, SentNal
  <2>4. QED
    BY <2>1, <2>2, <2>3
<1>4. \A s \in ({fu} \ {<<>>}) \cup ToSet(out) \cup ToSet(sent) :
         /\ Len(s) >= 3
         /\ \A i \in 1 .. Len(s) : s[i] \in IF i <= 2 THEN 0 .. 255 ELSE BodyBytes
  BY <1>1, <1>3, BegunTyped
<1>5. Len(fu) <= NalCount * MaxBody + 2
  <2> DEFINE x == n * MaxBody
             y == NalCount * MaxBody
  <2>1. x \in Nat /\ y \in Nat /\ x <= y
    <3> DEFINE d == NalCount - n
    <3>1. d \in Nat /\ NalCount = n + d
      BY <1>1
    <3> HIDE DEF d
    <3>2. (n + d) * MaxBody = n * MaxBody + d * MaxBody
          /\ d * MaxBody \in Nat /\ n * MaxBody \in Nat
      <4> HIDE DEF n
      <4>1. QED
        BY <1>1, <3>1
    <3> DEFINE z == d * MaxBody
    <3>3. y = x + z /\ z \in Nat /\ x \in Nat
      BY <3>1, <3>2
    <3> HIDE DEF x, y, z
    <3>4. QED
      BY <3>3
  <2> HIDE DEF x, y
  <2>2. CASE fu = <<>>
    <3>1. Len(fu) = 0
      BY <2>2
    <3>2. Len(fu) <= y + 2
      BY <2>1, <3>1
    <3>3. QED
      BY <3>2 DEF y
  <2>3. CASE fu # <<>>
    <3>1. Len(fu) \in Nat /\ Len(fu) + Len(wire) <= x + 2
      BY <1>2, <2>3 DEF Begins, x
    <3>2. Len(wire) \in Nat
      <4>1. wire # <<>> => Len(wire) \in Nat
        BY <1>1, TailShape DEF LossInv
      <4>2. wire = <<>> => Len(wire) = 0
        OBVIOUS
      <4>3. QED
        BY <4>1, <4>2
    <3>3. Len(fu) <= y + 2
      BY <2>1, <3>1, <3>2
    <3>4. QED
      BY <3>3 DEF y
  <2>4. QED
    BY <2>2, <2>3
<1>6. damaged \subseteq 1 .. NalCount
  <2>1. damaged \subseteq 1 .. n
    BY DEF LossInv, DamageInv
  <2>2. QED
    BY <1>1, <2>1
<1>7. QED
  BY <1>4, <1>5, <1>6 DEF TypeOK

LEMMA LossReassembled == LossInv => Reassembled
<1> SUFFICES ASSUME LossInv, damaged = {}, wire = <<>> PROVE out = sent /\ fu = <<>>
  BY DEF Reassembled
<1>1. InFlight(wire) = {} /\ ~Halfway(sent, wire)
  BY NoneHalfway DEF InFlight
<1>2. fu = <<>>
  BY <1>1 DEF LossInv, BufferInv
<1>3. /\ sent \in Seq(Seq(Nat)) /\ out \in Seq(Seq(Nat))
      /\ Len(out) <= Len(sent)
      /\ \A i \in 1 .. Len(sent) : i <= Len(out)
      /\ \A i \in 1 .. Len(out) : out[i] = sent[i]
  BY <1>1 DEF LossInv, SentShape, OutInv, InOrder
<1>4. Len(out) = Len(sent)
  <2>1. Len(out) \in Nat /\ Len(sent) \in Nat
    BY <1>3
  <2>2. Len(sent) > 0 => Len(sent) <= Len(out)
    BY <1>3, <2>1
  <2>3. QED
    BY <1>3, <2>1, <2>2
<1>5. out = sent
  BY <1>3, <1>4, SeqEqual
<1>6. QED
  BY <1>2, <1>5

LEMMA FirstTwo ==
    ASSUME NEW a \in Seq(Nat), Len(a) >= 3
    PROVE  SubSeq(a, 1, 2) = <<a[1], a[2]>>
<1> DEFINE c == SubSeq(a, 1, 2)
<1>1. \A i \in 1 .. 2 : a[i] \in Nat
  <2>1. \A i \in 1 .. 2 : i \in 1 .. Len(a)
    OBVIOUS
  <2>2. QED
    BY <2>1
<1>2. c \in Seq(Nat) /\ Len(c) = IF 1 <= 2 THEN 2 - 1 + 1 ELSE 0
  BY <1>1, SubSeqProperties
<1>3. \A i \in 1 .. 2 - 1 + 1 : c[i] = a[1 + i - 1]
  BY <1>1, SubSeqProperties
<1> HIDE DEF c
<1>4. c \in Seq(Nat) /\ Len(c) = 2 /\ c[1] = a[1] /\ c[2] = a[2]
  BY <1>2, <1>3
<1>5. c = <<a[1], a[2]>>
  BY <1>4
<1>6. QED
  BY <1>5 DEF c

LEMMA LossContainedHere == LossInv => LossContained
<1> SUFFICES ASSUME LossInv PROVE LossContained
  OBVIOUS
<1>1. /\ sent \in Seq(Seq(Nat)) /\ out \in Seq(Seq(Nat)) /\ SentShape(sent)
      /\ DOMAIN sent = 1 .. Len(sent) /\ DOMAIN out = 1 .. Len(out)
  BY DEF LossInv, SentShape, OutInv
<1>2. RecoversAtStart
  <2> SUFFICES ASSUME wire = <<>>, NEW n \in DOMAIN sent, n \notin damaged
               PROVE  sent[n] \in ToSet(out)
    BY DEF RecoversAtStart
  <2>1. InFlight(wire) = {}
    BY DEF InFlight
  <2>2. PICK i \in 1 .. Len(out) : out[i] = sent[n]
    BY <1>1, <2>1 DEF LossInv, OutInv
  <2>3. i \in DOMAIN out
    BY <1>1
  <2>4. QED
    BY <2>2, <2>3 DEF ToSet
<1>3. ASSUME NEW i \in DOMAIN out
      PROVE  /\ Place(out[i][3]) = 1
             /\ SubSeq(out[i], 1, 2) = SubSeq(sent[Owner(out[i][3])], 1, 2)
  <2> DEFINE a == out[i]
             m == Owner(a[3])
             b == sent[m]
  <2>1. Begins(sent, a)
    BY <1>1 DEF LossInv, OutInv
  <2>2. /\ a \in Seq(Nat) /\ Len(a) >= 3 /\ m \in 1 .. Len(sent)
        /\ Place(a[3]) = 1 /\ a[1] = b[1] /\ a[2] = b[2]
    BY <2>1 DEF Begins
  <2> HIDE DEF a, m
  <2>3. Begins(sent, b)
    BY <1>1, <2>2, SentNal
  <2>4. b \in Seq(Nat) /\ Len(b) >= 3
    BY <2>3 DEF Begins
  <2> HIDE DEF b
  <2>5. SubSeq(a, 1, 2) = <<a[1], a[2]>>
    BY <2>2, FirstTwo
  <2>6. SubSeq(b, 1, 2) = <<b[1], b[2]>>
    BY <2>4, FirstTwo
  <2>7. QED
    BY <2>2, <2>5, <2>6 DEF a, b, m
<1>4. ASSUME NEW i \in DOMAIN out, NEW j \in DOMAIN out, i < j
      PROVE  LET m == Owner(out[i][3])  n == Owner(out[j][3])
             IN m # n /\ ({m, n} \cap damaged = {} => m < n)
  <2>1. /\ Owner(out[i][3]) # Owner(out[j][3])
        /\ Owner(out[i][3]) \notin damaged /\ Owner(out[j][3]) \notin damaged
              => Owner(out[i][3]) < Owner(out[j][3])
    BY <1>1, <1>4 DEF LossInv, OutInv
  <2> DEFINE m == Owner(out[i][3])
             n == Owner(out[j][3])
  <2>2. {m, n} \cap damaged = {} => m \notin damaged /\ n \notin damaged
    OBVIOUS
  <2> HIDE DEF m, n
  <2>3. m # n /\ ({m, n} \cap damaged = {} => m < n)
    BY <2>1, <2>2 DEF m, n
  <2>4. QED
    BY <2>3 DEF m, n
<1>5. BeginsAtStart
  BY <1>3, <1>4 DEF BeginsAtStart
<1>6. QED
  BY <1>2, <1>5 DEF LossContained

(* Every NAL sent or given to the decoder, and the one in the buffer, has  *)
(* a header and the bytes of bodies that were sent; hevc_fu_buffer never   *)
(* holds more than was sent.                                               *)
THEOREM TypeCorrect == Spec => []TypeOK
<1>1. QED
  BY LossHolds, LossTypes, PTL

(* While no packet is lost, push_payload gives the decoder the NALs that   *)
(* were sent, byte for byte, in their order, however they were packed.     *)
THEOREM Reassembles == Spec => []Reassembled
<1>1. QED
  BY LossHolds, LossReassembled, PTL

(* Whatever is lost, the NALs all of whose packets arrive come out whole   *)
(* and in order, and none begins with what is left of another.             *)
THEOREM LossStaysPut == Spec => []LossContained
<1>1. QED
  BY LossHolds, LossContainedHere, PTL
=============================================================================
