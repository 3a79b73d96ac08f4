------------------------ MODULE PlaybackSpan_proofs ------------------------
(***************************************************************************)
(* The playhead's atomics stay what the player was given, for any content, *)
(* any seeks and any number of operations, and however the three threads'  *)
(* accesses fall; and when calm the playhead goes forward through whole    *)
(* fragments.                                                              *)
(*                                                                         *)
(* The proof is by two invariants. Accesses holds in any race: every       *)
(* atomic, every register and every store still to come is nothing or was  *)
(* set by a seek or a reply, and what a computation uses has been loaded   *)
(* before. CalmQuiet is about calm behaviours. It speaks of the atomics as *)
(* they will be once the lists of accesses are worked off (Settled), since *)
(* between the stores of an operation they are of two minds: there the     *)
(* span is a whole fragment around the position and the newest fragment is *)
(* not lost (Whole), the anchor maps content to itself (Anchored), the     *)
(* stores to come move the position forward only (Forward), and what has   *)
(* been loaded is still so when it is used, or behind (UiCalm, ReaderCalm, *)
(* LoopCalm).                                                              *)
(***************************************************************************)
EXTENDS PlaybackSpan, TLAPS

(* The accesses of a list, by their position.                              *)
Ops == [op : {"load", "store", "apply", "accept", "keep", "track"},
        cell : Cells \cup {"none"}, val : Nat]
Registry == Cells \cup {"result"}
StoreOf(a, c) == a.op = "store" /\ a.cell = c
LoadOf(a, c) == a.op = "load" /\ a.cell = c
Will(q, i, c) == \E j \in 1 .. (i - 1) : LoadOf(q[j], c)
Applies(q, i) == \E j \in 1 .. (i - 1) : q[j].op = "apply"

(* What each atomic may hold: nothing, or what seeks and replies have set. *)
Starts == {f.start : f \in given}
Ends == {f.end : f \in given}
Possible(c) ==
    IF c \in {"start", "pstart"} THEN {0} \cup Starts
    ELSE IF c \in {"end", "pend"} THEN {0} \cup Ends
    ELSE IF c = "gen" THEN 0 .. used["seeks"]
    ELSE {t \in Instants : t = 0 \/ Known(t)}

Typed ==
    /\ calm \in BOOLEAN
    /\ mem \in [Cells -> Nat] /\ reg \in [Threads -> [Registry -> Nat]]
    /\ todo \in [Threads -> Seq(Ops)]
    /\ rtp \in [gen : Nat, anchored : BOOLEAN, real : Instants, ref : Instants]
    /\ rtp.gen <= used["seeks"]
    /\ used \in [{"seeks", "replies", "stops", "packets"} -> Nat]
    /\ used["seeks"] <= Bound["seeks"]
    /\ \A f \in given : f.start \in 1 .. End /\ f = Interval(f.start, f.start + Fragment)

(* The packets are of content that was given.                              *)
Content ==
    /\ due \in Instants /\ stream \in [next : 0 .. due, late : Nat]
    /\ last.target \in Nat
    /\ given = {} <=> due = 0
    /\ due # 0 => /\ 0 < last.target /\ last.target <= stream.next
                  /\ \A c \in last.target .. due : Loaded(c)
    /\ stream.late = 0 \/ Loaded(stream.late)

AccessOK(t, a) ==
    /\ a.op = "load" => a.cell \in Cells
    /\ a.op = "store" =>
          /\ a.cell \in Cells /\ a.val \in Possible(a.cell)
          /\ a.cell \in {"start", "end", "pos"} => a.val # 0
          /\ a.cell \in {"pos", "gen"} => t # "ui"
          /\ a.cell # "pos" => t # "reader"
    /\ a.op = "track" => t = "reader" /\ Loaded(a.val)
    /\ a.op = "accept" => t = "loop" /\ Interval(a.val, a.val + Fragment) \in given
    /\ a.op = "keep" => t = "loop"
    /\ a.op = "apply" => t # "reader"

Values ==
    /\ \A c \in Cells : mem[c] \in Possible(c)
    /\ \A t \in Threads : \A c \in Cells : reg[t][c] \in Possible(c)
    /\ \A t \in Threads : reg[t]["result"] \in Possible("pos")
    /\ \A t \in Threads : \A i \in 1 .. Len(todo[t]) : AccessOK(t, todo[t][i])

StoresFirst(q) ==
    \A i, j \in 1 .. Len(q) : i < j /\ q[j].op = "store" => q[i].op = "store"

(* Until the first seek has set the position there is nothing to read.     *)
FirstSeek(q) ==
    \/ given = {} /\ q = <<>>
    \/ \E t \in Targets :
          \/ q = SeekStores(t)
          \/ q = Tail(SeekStores(t)) /\ mem["start"] # 0
          \/ q = Tail(Tail(SeekStores(t))) /\ mem["start"] # 0 /\ mem["end"] # 0
First ==
    IF mem["pos"] = 0
    THEN /\ mem["gen"] = 0 /\ Idle("reader") /\ stream.next = due /\ stream.late = 0
         /\ FirstSeek(todo["loop"])
    ELSE mem["start"] # 0 /\ mem["end"] # 0

(* What an access uses has been loaded or computed, or will have been.     *)
LoopReady(q, r) ==
    \A i \in 1 .. Len(q) :
        /\ q[i].op = "apply" =>
              /\ r["pos"] # 0 \/ Will(q, i, "pos")
              /\ \A j \in 1 .. Len(q) : q[j].op = "apply" => j = i
        /\ q[i].op \in {"keep", "accept"} => i = Len(q)
        /\ q[i].op = "keep" => r["result"] # 0 \/ Applies(q, i)
        /\ q[i].op = "accept" =>
              /\ IF i > 2 THEN LoadOf(q[i - 2], "start") ELSE r["start"] # 0
              /\ i > 1 => LoadOf(q[i - 1], "end")
ReaderReady(q, r) ==
    \A i \in 1 .. Len(q) : q[i].op = "track" =>
        (r["start"] # 0 \/ Will(q, i, "start")) /\ i = Len(q)

Accesses ==
    /\ Typed /\ Content /\ Values /\ First
    /\ \A t \in Threads : StoresFirst(todo[t])
    /\ LoopReady(todo["loop"], reg["loop"]) /\ ReaderReady(todo["reader"], reg["reader"])


(* What the lists still store in the atomic c, when calm one value, and    *)
(* the atomics as they will be then.                                       *)
FutureOf(q, c) == {q[i].val : i \in {j \in 1 .. Len(q) : StoreOf(q[j], c)}}
Future(c) ==
    FutureOf(todo["ui"], c) \cup FutureOf(todo["reader"], c) \cup FutureOf(todo["loop"], c)
Single == \A c \in Cells : \A v, w \in Future(c) : v = w
Settled ==
    [c \in Cells |-> IF Future(c) = {} THEN mem[c] ELSE CHOOSE v \in Future(c) : TRUE]

SpanOf(m) == Interval(m["start"], m["end"])
PendingOf(m) == Interval(m["pstart"], m["pend"])
TargetSpan == Interval(last.target, last.target + Fragment)
Accepting == \E i \in 1 .. Len(todo["loop"]) : todo["loop"][i].op = "accept"
Answered == IF Accepting THEN due - Fragment ELSE due
Fresh(m) == rtp.gen # m["gen"]

(* The loop works alone; a list of the reader or the screen has its stores *)
(* after its last other access.                                            *)
Stepwise(q) ==
    \A i, j \in 1 .. Len(q) :
        /\ q[i].op = "store" => q[j].op = "store"
        /\ q[i].op \in {"apply", "track"} => i = Len(q)
Apart ==
    /\ stream.late = 0 /\ Single
    /\ rtp.gen <= mem["gen"] /\ rtp.gen <= Settled["gen"]
    /\ ~Idle("loop") => Idle("ui") /\ Idle("reader")
    /\ Stepwise(todo["ui"]) /\ Stepwise(todo["reader"])

(* The span is a whole fragment that holds the position, and the newest    *)
(* fragment is the span or pending behind it.                              *)
Whole(m) ==
    /\ SpanOf(m) \in given /\ m["start"] <= m["pos"] /\ m["pos"] <= m["end"] /\ m["gen"] # 0
    /\ PendingOf(m) # NoFragment =>
          /\ PendingOf(m) \in given
          /\ m["pstart"] >= m["end"] /\ m["pend"] <= Answered
    /\ \/ /\ Answered = last.target /\ SpanOf(m) = TargetSpan
          /\ m["pos"] = last.target /\ PendingOf(m) = NoFragment
       \/ m["end"] <= Answered
    /\ IF Accepting
       THEN last.fragment = Interval(Answered, due)
       ELSE last.fragment = IF PendingOf(m) = NoFragment THEN SpanOf(m) ELSE PendingOf(m)

(* No packet is behind the position, and the anchor maps content to itself.*)
Anchored(m) ==
    /\ m["pos"] <= stream.next
    /\ \A i \in 1 .. Len(todo["reader"]) : todo["reader"][i].op = "track" =>
          /\ m["pos"] <= todo["reader"][i].val
          /\ todo["reader"][i].val < due /\ todo["reader"][i].val < stream.next
    /\ Fresh(m) =>
          /\ m["pos"] = last.target /\ SpanOf(m) = TargetSpan
          /\ \/ stream.next = last.target /\ Idle("reader")
             \/ \E i \in 1 .. Len(todo["reader"]) : 
                  todo["reader"][i].op = "track" /\ todo["reader"][i].val = last.target
    /\ ~Fresh(m) => rtp.anchored /\ rtp.real = rtp.ref

(* Between the stores, too, the span reaches around the position and the   *)
(* position goes forward.                                                  *)
Forward(m) ==
    Idle("loop") =>
        /\ mem["start"] <= mem["pos"] /\ mem["pos"] <= mem["end"] /\ mem["end"] <= m["end"]
        /\ Fresh(m) => SpanOf(mem) = TargetSpan
        /\ \A i \in 1 .. Len(todo["reader"]) : todo["reader"][i].op = "store" =>
              /\ mem["pos"] <= todo["reader"][i].val /\ todo["reader"][i].val <= mem["end"]
        /\ \A i \in 1 .. Len(todo["ui"]) : todo["ui"][i].op = "store" =>
              /\ ~Fresh(m)
              /\ StoreOf(todo["ui"][i], "start") => todo["ui"][i].val <= mem["pos"]

(* What has been loaded from the atomics a is still so when it is used, or *)
(* behind.                                                                 *)
UiCalm(q, r, a) ==
    \A i \in 1 .. Len(q) : q[i].op = "apply" =>
        /\ \A c \in {"start", "end", "pstart", "pend"} : r[c] = a[c] \/ Will(q, i, c)
        /\ (a["start"] <= r["pos"] /\ r["pos"] <= a["pos"]) \/ Will(q, i, "pos")
ReaderCalm(q, r, a, fresh, target) ==
    \A i \in 1 .. Len(q) : q[i].op = "track" =>
        /\ \/ r["start"] <= a["pos"] /\ (fresh => r["start"] = target)
           \/ Will(q, i, "start")
        /\ \/ /\ a["pos"] <= r["end"] /\ r["end"] <= a["end"]
              /\ fresh => r["end"] = target + Fragment
           \/ Will(q, i, "end")
        /\ r["gen"] = a["gen"] \/ Will(q, i, "gen")
LoopCalm(q, r, a, answered) ==
    \A i \in 1 .. Len(q) :
        /\ q[i].op = "apply" =>
              /\ \A c \in {"start", "end", "pos", "pstart", "pend"} :
                    r[c] = a[c] \/ Will(q, i, c)
              /\ \A j \in 1 .. Len(q) : q[j].op # "store"
        /\ q[i].op \in {"accept", "keep"} =>
              /\ r["result"] = a["pos"] \/ Applies(q, i)
              /\ \A j \in 1 .. Len(q) : ~StoreOf(q[j], "pos")
        /\ q[i].op = "accept" => q[i].val = answered

Quiet(m) ==
    /\ Whole(m) /\ Anchored(m) /\ Forward(m)
    /\ UiCalm(todo["ui"], reg["ui"], mem)
    /\ ReaderCalm(todo["reader"], reg["reader"], mem, Fresh(m), last.target)
    /\ LoopCalm(todo["loop"], reg["loop"], mem, Answered)
CalmQuiet ==
    calm => Apart /\ IF given = {} THEN AtRest ELSE \A m \in {Settled} : Quiet(m)

-----------------------------------------------------------------------------
(* Lists of accesses.                                                      *)

LEMMA AccessTypes ==
    /\ \A c \in Cells : Load(c) \in Ops
    /\ \A c \in Cells, v \in Nat : Store(c, v) \in Ops
    /\ \A op \in {"apply", "accept", "keep", "track"}, v \in Nat : Do(op, v) \in Ops
BY DEF Load, Store, Do, Ops, Cells

(* What is left when the first access is made, with ops put in its place.  *)
LEMMA Replaced ==
    ASSUME NEW q \in Seq(Ops), q # <<>>, NEW ops \in Seq(Ops), NEW s, s = ops \o Tail(q)
    PROVE  /\ s \in Seq(Ops) /\ Len(s) = Len(ops) + Len(q) - 1
           /\ Len(q) \in Nat /\ Len(ops) \in Nat /\ Len(q) > 0 /\ Len(s) \in Nat
           /\ Head(q) = q[1] /\ Head(q) \in Ops
           /\ \A i \in 1 .. Len(ops) : i \in 1 .. Len(s) /\ s[i] = ops[i]
           /\ \A i \in 1 .. Len(s) : i > Len(ops) =>
                 i - Len(ops) + 1 \in 2 .. Len(q) /\ s[i] = q[i - Len(ops) + 1]
           /\ \A k \in 2 .. Len(q) :
                 k + Len(ops) - 1 \in 1 .. Len(s) /\ s[k + Len(ops) - 1] = q[k]
<1> DEFINE r == Tail(q)
<1>1. /\ Len(q) \in Nat /\ Len(q) > 0 /\ Len(r) = Len(q) - 1 /\ r \in Seq(Ops)
      /\ Len(ops) \in Nat /\ Head(q) = q[1] /\ Head(q) \in Ops
      /\ \A i \in 1 .. Len(r) : r[i] = q[i + 1]
  OBVIOUS
<1> HIDE DEF r
<1>2. /\ s \in Seq(Ops) /\ Len(s) = Len(ops) + Len(r)
      /\ \A i \in 1 .. Len(s) : s[i] = IF i <= Len(ops) THEN ops[i] ELSE r[i - Len(ops)]
  BY <1>1 DEF r
<1>3. QED
  BY <1>1, <1>2

LEMMA Left ==
    ASSUME NEW q \in Seq(Ops), q # <<>>
    PROVE  LET s == <<>> \o Tail(q) IN
           /\ s = Tail(q) /\ s \in Seq(Ops) /\ Len(s) = Len(q) - 1 /\ Len(q) \in Nat
           /\ Len(s) \in Nat
           /\ Head(q) = q[1] /\ Head(q) \in Ops /\ 1 \in 1 .. Len(q)
           /\ \A i \in 1 .. Len(s) : i + 1 \in 1 .. Len(q) /\ s[i] = q[i + 1]
           /\ \A k \in 1 .. Len(q) : k > 1 => k - 1 \in 1 .. Len(s) /\ s[k - 1] = q[k]
<1> DEFINE r == Tail(q)
<1>1. /\ Len(q) \in Nat /\ Len(q) > 0 /\ Len(r) = Len(q) - 1 /\ r \in Seq(Ops)
      /\ Head(q) = q[1] /\ Head(q) \in Ops
      /\ \A i \in 1 .. Len(r) : r[i] = q[i + 1]
      /\ <<>> \o r = r
  OBVIOUS
<1> HIDE DEF r
<1>2. QED
  BY <1>1 DEF r

LEMMA ReadList ==
    LET q == ReadPosition IN
    /\ q \in Seq(Ops) /\ Len(q) = 6
    /\ q[1] = Load("start") /\ q[2] = Load("end") /\ q[3] = Load("pos")
    /\ q[4] = Load("pstart") /\ q[5] = Load("pend") /\ q[6] = Do("apply", 0)
BY AccessTypes DEF ReadPosition, Cells

LEMMA ReceiveList ==
    ASSUME NEW v \in Nat
    PROVE  LET q == ReadPosition \o <<Load("start"), Load("end"), Do("accept", v)>> IN
           /\ q \in Seq(Ops) /\ Len(q) = 9
           /\ q[1] = Load("start") /\ q[2] = Load("end") /\ q[3] = Load("pos")
           /\ q[4] = Load("pstart") /\ q[5] = Load("pend") /\ q[6] = Do("apply", 0)
           /\ q[7] = Load("start") /\ q[8] = Load("end") /\ q[9] = Do("accept", v)
BY AccessTypes DEF ReadPosition, Cells

LEMMA StopList ==
    LET q == ReadPosition \o <<Do("keep", 0)>> IN
    /\ q \in Seq(Ops) /\ Len(q) = 7
    /\ q[1] = Load("start") /\ q[2] = Load("end") /\ q[3] = Load("pos")
    /\ q[4] = Load("pstart") /\ q[5] = Load("pend") /\ q[6] = Do("apply", 0)
    /\ q[7] = Do("keep", 0)
BY AccessTypes DEF ReadPosition, Cells

LEMMA PacketList ==
    ASSUME NEW c \in Nat
    PROVE  LET q == <<Load("start"), Load("end"), Load("gen"), Do("track", c)>> IN
           /\ q \in Seq(Ops) /\ Len(q) = 4
           /\ q[1] = Load("start") /\ q[2] = Load("end") /\ q[3] = Load("gen")
           /\ q[4] = Do("track", c)
BY AccessTypes DEF Cells

LEMMA SpanList ==
    ASSUME NEW i, NEW j, i.start \in Nat, i.end \in Nat, j.start \in Nat, j.end \in Nat
    PROVE  LET q == SetSpan(i) \o SetPending(j) IN
           /\ q \in Seq(Ops) /\ Len(q) = 4
           /\ q[1] = Store("start", i.start) /\ q[2] = Store("end", i.end)
           /\ q[3] = Store("pstart", j.start) /\ q[4] = Store("pend", j.end)
BY AccessTypes DEF SetSpan, SetPending, Cells

LEMMA PendingList ==
    ASSUME NEW j, j.start \in Nat, j.end \in Nat
    PROVE  LET q == SetPending(j) IN
           /\ q \in Seq(Ops) /\ Len(q) = 2
           /\ q[1] = Store("pstart", j.start) /\ q[2] = Store("pend", j.end)
BY AccessTypes DEF SetPending, Cells

LEMMA SeekList ==
    ASSUME NEW t \in Nat, Fragment \in Nat, mem["gen"] \in Nat
    PROVE  LET q == SeekStores(t) IN
           /\ q \in Seq(Ops) /\ Len(q) = 6
           /\ q[1] = Store("start", t) /\ q[2] = Store("end", t + Fragment)
           /\ q[3] = Store("pos", t) /\ q[4] = Store("pstart", 0)
           /\ q[5] = Store("pend", 0) /\ q[6] = Store("gen", mem["gen"] + 1)
BY AccessTypes DEF SeekStores, SetSpan, SetPending, NoFragment, Interval, Cells

-----------------------------------------------------------------------------
(* What the atomics may hold.                                              *)

LEMMA KnownFacts ==
    ASSUME Typed
    PROVE  /\ End \in Nat /\ Fragment \in Nat /\ Fragment > 0
           /\ \A f \in given : /\ f.start \in Nat /\ f.end \in Nat /\ 0 < f.start
                               /\ f.start < f.end /\ f.end = f.start + Fragment
                               /\ f.start \in Instants /\ f.end \in Instants
                               /\ f = Interval(f.start, f.end)
                               /\ Loaded(f.start) /\ Loaded(f.end)
           /\ \A v \in Int : Loaded(v) => Between(v) /\ Known(v)
           /\ \A v \in Int : Between(v) => v \in Instants /\ v > 0
           /\ \A v \in Int : Known(v) => v \in Possible("pos") /\ v > 0 /\ v \in Instants
<1>1. End \in Nat /\ Fragment \in Nat /\ Fragment > 0
  BY ConstantsAssumption
<1>2. ASSUME NEW f \in given
      PROVE  /\ f.start \in Nat /\ f.end \in Nat /\ 0 < f.start
             /\ f.start < f.end /\ f.end = f.start + Fragment
             /\ f.start \in Instants /\ f.end \in Instants
             /\ f = Interval(f.start, f.end)
             /\ Loaded(f.start) /\ Loaded(f.end)
  <2>1. f.start \in 1 .. End /\ f = Interval(f.start, f.start + Fragment)
    BY DEF Typed
  <2>2. f.end = f.start + Fragment
    BY <2>1 DEF Interval
  <2>3. Loaded(f.start) /\ Loaded(f.end)
    BY <1>1, <2>1, <2>2 DEF Loaded, Within
  <2>4. QED
    BY <1>1, <2>1, <2>2, <2>3 DEF Instants
<1>3. \A v \in Int : Loaded(v) => Between(v)
  BY DEF Loaded, Between, Within
<1>4. \A v \in Int : Between(v) => v \in Instants /\ v > 0
  BY <1>1, <1>2 DEF Between, Instants
<1>5. \A v \in Int : Known(v) => Between(v)
  BY <1>3 DEF Known
<1>6. \A v \in Int : Loaded(v) => Known(v)
  BY <1>3 DEF Known
<1>7. \A v \in Int : Known(v) => v \in Possible("pos")
  BY <1>4, <1>5 DEF Possible
<1>8. QED
  BY <1>1, <1>2, <1>3, <1>4, <1>5, <1>6, <1>7

LEMMA PossibleFacts ==
    ASSUME Typed
    PROVE  /\ \A c \in Cells : \A v \in Possible(c) : v \in Nat
           /\ \A c \in Cells \ {"gen"} : \A v \in Possible(c) : v \in Instants
           /\ \A c \in {"start", "pstart"} : \A v \in Possible(c) :
                 v # 0 => Loaded(v) /\ Known(v) /\ v \in Starts
           /\ \A c \in {"end", "pend"} : \A v \in Possible(c) :
                 v # 0 => Loaded(v) /\ Known(v) /\ v \in Ends
           /\ \A v \in Possible("pos") : v # 0 => Known(v)
           /\ \A v \in Possible("gen") : v <= used["seeks"]
           /\ \A s \in Starts, e \in Ends : \A v \in Int : s <= v /\ v <= e => Between(v)
           /\ \A c \in Cells : 0 \in Possible(c)
<1>1. used["seeks"] \in Nat /\ 0 \in Instants /\ Instants \subseteq Nat
  BY ConstantsAssumption DEF Typed, Instants
<1>2. \A s \in Starts : s \in Instants /\ s \in Int /\ Loaded(s)
  BY KnownFacts, <1>1 DEF Starts
<1>3. \A e \in Ends : e \in Instants /\ e \in Int /\ Loaded(e)
  BY KnownFacts, <1>1 DEF Ends
<1>4. \A s \in Starts : Known(s)
  BY KnownFacts, <1>2
<1>5. \A e \in Ends : Known(e)
  BY KnownFacts, <1>3
<1>6. \A s \in Starts, e \in Ends : \A v \in Int : s <= v /\ v <= e => Between(v)
  BY DEF Starts, Ends, Between
<1>7. Possible("gen") = 0 .. used["seeks"] /\ Possible("pos") = {t \in Instants : t = 0 \/ Known(t)}
  BY DEF Possible
<1>8. \A c \in {"start", "pstart"} : Possible(c) = {0} \cup Starts
  BY DEF Possible
<1>9. \A c \in {"end", "pend"} : Possible(c) = {0} \cup Ends
  BY DEF Possible
<1>10. Cells = {"start", "pstart"} \cup {"end", "pend"} \cup {"pos", "gen"}
  BY DEF Cells
<1> HIDE DEF Possible, Starts, Ends
<1>11. \A c \in {"start", "pstart"} : \A v \in Possible(c) :
          v \in Instants /\ (v # 0 => Loaded(v) /\ Known(v) /\ v \in Starts)
  BY <1>1, <1>2, <1>4, <1>8
<1>12. \A c \in {"end", "pend"} : \A v \in Possible(c) :
          v \in Instants /\ (v # 0 => Loaded(v) /\ Known(v) /\ v \in Ends)
  BY <1>1, <1>3, <1>5, <1>9
<1>13. \A v \in Possible("pos") : v \in Instants /\ (v # 0 => Known(v))
  BY <1>7
<1>14. \A v \in Possible("gen") : v \in Nat /\ v <= used["seeks"]
  BY <1>1, <1>7
<1>15. \A c \in Cells \ {"gen"} : \A v \in Possible(c) : v \in Instants
  BY <1>10, <1>11, <1>12, <1>13
<1>16. \A c \in Cells : \A v \in Possible(c) : v \in Nat
  BY <1>1, <1>14, <1>15
<1>17. \A c \in Cells : 0 \in Possible(c)
  BY <1>1, <1>7, <1>8, <1>9, <1>10
<1>18. QED
  BY <1>6, <1>11, <1>12, <1>13, <1>14, <1>15, <1>16, <1>17

LEMMA PossibleGrows ==
    ASSUME given \subseteq given', used["seeks"] \in Nat, used'["seeks"] \in Nat,
           used["seeks"] <= used'["seeks"], calm' = calm
    PROVE  /\ \A c : \A v \in Possible(c) : v \in Possible(c)'
           /\ \A v : Loaded(v) => Loaded(v)'
           /\ \A v : Known(v) => Known(v)'
<1>1. \A v : Loaded(v) => Loaded(v)'
  BY DEF Loaded
<1>2. \A v : Known(v) => Known(v)'
  BY DEF Loaded, Known, Between
<1>3. Starts \subseteq Starts' /\ Ends \subseteq Ends'
  BY DEF Starts, Ends
<1>4. ASSUME NEW c, NEW v \in Possible(c)
      PROVE  v \in Possible(c)'
  BY <1>2, <1>3, <1>4 DEF Possible
<1>5. QED
  BY <1>1, <1>2, <1>4

LEMMA AccessGrows ==
    ASSUME given \subseteq given', used["seeks"] \in Nat, used'["seeks"] \in Nat,
           used["seeks"] <= used'["seeks"], calm' = calm, NEW t, NEW a, AccessOK(t, a)
    PROVE  AccessOK(t, a)'
BY PossibleGrows DEF AccessOK

(* An operation begins.                                                    *)
LEMMA BeginAccesses ==
    ASSUME Accesses, NEW t \in Threads, NEW ops \in Seq(Ops), Begin(t, ops),
           given \subseteq given', used["seeks"] <= used'["seeks"],
           Typed', Content', First',
           \A i \in 1 .. Len(ops) : AccessOK(t, ops[i])', StoresFirst(ops),
           t = "loop" => LoopReady(ops, reg["loop"]),
           t = "reader" => ReaderReady(ops, reg["reader"])
    PROVE  Accesses'
<1>1. /\ calm' = calm /\ mem' = mem /\ reg' = reg
      /\ todo' = [todo EXCEPT ![t] = ops] /\ todo \in [Threads -> Seq(Ops)]
  BY DEF Begin, Accesses, Typed
<1>2. todo'[t] = ops /\ \A u \in Threads : u # t => todo'[u] = todo[u]
  BY <1>1
<1>3. used["seeks"] \in Nat /\ used'["seeks"] \in Nat
  BY DEF Accesses, Typed
<1>4. Values'
  <2>1. \A c \in Cells : mem'[c] \in Possible(c)'
    BY <1>1, <1>3, PossibleGrows DEF Accesses, Values
  <2>2. \A u \in Threads : \A c \in Cells : reg'[u][c] \in Possible(c)'
    BY <1>1, <1>3, PossibleGrows DEF Accesses, Values
  <2>3. \A u \in Threads : reg'[u]["result"] \in Possible("pos")'
    BY <1>1, <1>3, PossibleGrows DEF Accesses, Values
  <2>4. ASSUME NEW u \in Threads, NEW i \in 1 .. Len(todo'[u])
        PROVE  AccessOK(u, todo[u][i])'
    <3>1. CASE u = t
      BY <1>2, <3>1, <2>4
    <3>2. CASE u # t
      <4>1. todo'[u] = todo[u] /\ AccessOK(u, todo[u][i])
        BY <1>2, <3>2, <2>4 DEF Accesses, Values
      <4>2. QED
        BY <1>1, <1>3, <4>1, AccessGrows DEF AccessOK
    <3>3. QED
      BY <3>1, <3>2
  <2>5. QED
    BY <2>1, <2>2, <2>3, <2>4 DEF Values
<1>5. \A u \in Threads : StoresFirst(todo'[u])
  BY <1>2 DEF Accesses
<1>6. LoopReady(todo'["loop"], reg'["loop"]) /\ ReaderReady(todo'["reader"], reg'["reader"])
  BY <1>1, <1>2 DEF Accesses, Threads
<1>7. QED
  BY <1>4, <1>5, <1>6 DEF Accesses

LEMMA NotFirst ==
    ASSUME Accesses, Idle("loop"), given # {}
    PROVE  mem["pos"] # 0
<1>1. SUFFICES ASSUME mem["pos"] = 0 PROVE FALSE
  OBVIOUS
<1>2. PICK t \in Targets : \/ <<>> = SeekStores(t) \/ <<>> = Tail(SeekStores(t))
                           \/ <<>> = Tail(Tail(SeekStores(t)))
  BY <1>1 DEF Accesses, First, FirstSeek, Idle
<1>3. t \in Nat /\ Fragment \in Nat /\ mem["gen"] \in Nat
  <2>1. t \in 1 .. End
    BY ConstantsAssumption
  <2>2. QED
    BY <2>1, ConstantsAssumption, <1>1 DEF Accesses, First
<1> DEFINE q == SeekStores(t)
<1>4. q \in Seq(Ops) /\ Len(q) = 6
  BY <1>3, SeekList
<1> HIDE DEF q
<1> DEFINE r == Tail(q)
<1>5. Len(r) = 5 /\ r \in Seq(Ops)
  BY <1>4
<1> HIDE DEF r
<1>6. Len(Tail(r)) = 4 /\ Tail(r) \in Seq(Ops)
  BY <1>5
<1> DEFINE s == Tail(r)
<1> HIDE DEF s
<1>7. Len(q) # Len(<<>>) /\ Len(r) # Len(<<>>) /\ Len(s) # Len(<<>>)
  BY <1>4, <1>5, <1>6 DEF s
<1>8. q # <<>> /\ r # <<>> /\ s # <<>>
  BY <1>7
<1>9. QED
  BY <1>2, <1>8 DEF q, r, s

LEMMA UsedMore ==
    ASSUME Typed, NEW what \in {"seeks", "replies", "stops", "packets"}, Spend(what), calm' = calm
    PROVE  /\ used' \in [{"seeks", "replies", "stops", "packets"} -> Nat]
           /\ used["seeks"] <= used'["seeks"] /\ used'["seeks"] <= Bound'["seeks"]
           /\ used["seeks"] \in Nat /\ used'["seeks"] \in Nat
           /\ what = "seeks" => used'["seeks"] = used["seeks"] + 1
<1>1. Bound["seeks"] \in Nat /\ Bound' = Bound
  BY ConstantsAssumption DEF Bound
<1>2. QED
  BY <1>1 DEF Spend, Typed

LEMMA UiReadAccesses ==
    ASSUME Accesses, UiRead
    PROVE  Accesses'
<1> DEFINE q == ReadPosition
<1>1. /\ Begin("ui", q) /\ UNCHANGED <<stream, due, given, last, used>>
      /\ UNCHANGED <<calm, mem, reg, rtp>> /\ todo' = [todo EXCEPT !["ui"] = q]
  BY DEF UiRead, Begin
<1>2. /\ q \in Seq(Ops) /\ Len(q) = 6
      /\ q[1] = Load("start") /\ q[2] = Load("end") /\ q[3] = Load("pos")
      /\ q[4] = Load("pstart") /\ q[5] = Load("pend") /\ q[6] = Do("apply", 0)
  BY ReadList
<1> HIDE DEF q
<1>3. todo' \in [Threads -> Seq(Ops)] /\ todo'["loop"] = todo["loop"]
      /\ todo'["reader"] = todo["reader"]
  BY <1>1, <1>2 DEF Accesses, Typed, Threads
<1>4. Typed'
  BY <1>1, <1>3 DEF Accesses, Typed, Bound
<1>5. Content'
  BY <1>1 DEF Accesses, Content, Loaded
<1>6. First'
  BY <1>1, <1>3 DEF Accesses, First, FirstSeek, SeekStores, Idle
<1>7. \A i \in 1 .. Len(q) : AccessOK("ui", q[i])'
  BY <1>2 DEF AccessOK, Load, Do, Cells
<1>8. StoresFirst(q)
  BY <1>2 DEF StoresFirst, Load, Do
<1>9. given \subseteq given' /\ used["seeks"] <= used'["seeks"]
  BY <1>1 DEF Accesses, Typed
<1>10. QED
  BY <1>1, <1>2, <1>4, <1>5, <1>6, <1>7, <1>8, <1>9, BeginAccesses DEF Threads

LEMMA StopAccesses ==
    ASSUME Accesses, Stop
    PROVE  Accesses'
<1> DEFINE q == ReadPosition \o <<Do("keep", 0)>>
<1>1. /\ Begin("loop", q) /\ UNCHANGED <<stream, due, given, last>> /\ Spend("stops")
      /\ UNCHANGED <<calm, mem, reg, rtp>> /\ todo' = [todo EXCEPT !["loop"] = q]
      /\ given # {} /\ Idle("loop")
  BY DEF Stop, Begin
<1>2. /\ q \in Seq(Ops) /\ Len(q) = 7
      /\ q[1] = Load("start") /\ q[2] = Load("end") /\ q[3] = Load("pos")
      /\ q[4] = Load("pstart") /\ q[5] = Load("pend") /\ q[6] = Do("apply", 0)
      /\ q[7] = Do("keep", 0)
  BY StopList
<1> HIDE DEF q
<1>3. todo' \in [Threads -> Seq(Ops)] /\ todo'["loop"] = q
  BY <1>1, <1>2 DEF Accesses, Typed, Threads
<1>4. Typed'
  BY <1>1, <1>3, UsedMore DEF Accesses, Typed, Bound
<1>5. Content'
  BY <1>1 DEF Accesses, Content, Loaded
<1>6. First'
  BY <1>1, NotFirst DEF Accesses, First
<1>7. \A i \in 1 .. Len(q) : AccessOK("loop", q[i])'
  BY <1>2 DEF AccessOK, Load, Do, Cells
<1>8. StoresFirst(q)
  BY <1>2 DEF StoresFirst, Load, Do
<1>9. LoopReady(q, reg["loop"])
  BY <1>2 DEF LoopReady, Will, Applies, LoadOf, Load, Do
<1>10. used["seeks"] <= used'["seeks"]
  BY <1>1, UsedMore DEF Accesses
<1>11. QED
  BY <1>1, <1>2, <1>4, <1>5, <1>6, <1>7, <1>8, <1>9, <1>10, BeginAccesses DEF Threads

LEMMA ResumeAccesses ==
    ASSUME Accesses, Resume
    PROVE  Accesses'
<1> DEFINE q == ReadPosition
<1>1. /\ Begin("loop", q) /\ UNCHANGED <<stream, due, given, last>> /\ Spend("stops")
      /\ UNCHANGED <<calm, mem, reg, rtp>> /\ todo' = [todo EXCEPT !["loop"] = q]
      /\ given # {} /\ Idle("loop")
  BY DEF Resume, Begin
<1>2. /\ q \in Seq(Ops) /\ Len(q) = 6
      /\ q[1] = Load("start") /\ q[2] = Load("end") /\ q[3] = Load("pos")
      /\ q[4] = Load("pstart") /\ q[5] = Load("pend") /\ q[6] = Do("apply", 0)
  BY ReadList
<1> HIDE DEF q
<1>3. todo' \in [Threads -> Seq(Ops)] /\ todo'["loop"] = q
  BY <1>1, <1>2 DEF Accesses, Typed, Threads
<1>4. Typed'
  BY <1>1, <1>3, UsedMore DEF Accesses, Typed, Bound
<1>5. Content'
  BY <1>1 DEF Accesses, Content, Loaded
<1>6. First'
  BY <1>1, NotFirst DEF Accesses, First
<1>7. \A i \in 1 .. Len(q) : AccessOK("loop", q[i])'
  BY <1>2 DEF AccessOK, Load, Do, Cells
<1>8. StoresFirst(q)
  BY <1>2 DEF StoresFirst, Load, Do
<1>9. LoopReady(q, reg["loop"])
  BY <1>2 DEF LoopReady, Will, Applies, LoadOf, Load, Do
<1>10. used["seeks"] <= used'["seeks"]
  BY <1>1, UsedMore DEF Accesses
<1>11. QED
  BY <1>1, <1>2, <1>4, <1>5, <1>6, <1>7, <1>8, <1>9, <1>10, BeginAccesses DEF Threads

LEMMA ReceiveAccesses ==
    ASSUME Accesses, Receive
    PROVE  Accesses'
<1>0. PICK q : q = ReadPosition \o <<Load("start"), Load("end"), Do("accept", due)>>
  OBVIOUS
<1> DEFINE f == Interval(due, due + Fragment)
<1>1. /\ Begin("loop", q) /\ UNCHANGED stream /\ Spend("replies")
      /\ UNCHANGED <<calm, mem, reg, rtp>> /\ todo' = [todo EXCEPT !["loop"] = q]
      /\ due # 0 /\ due <= End /\ Idle("loop")
      /\ given' = given \cup {f} /\ due' = f.end /\ last' = [last EXCEPT !.fragment = f]
  BY <1>0 DEF Receive, Begin
<1>2. /\ due \in Nat /\ Fragment \in Nat /\ End \in Nat /\ due \in 1 .. End
      /\ due' = due + Fragment /\ f.start = due /\ f.end = due + Fragment
      /\ f = Interval(f.start, f.start + Fragment)
  BY <1>1, ConstantsAssumption DEF Accesses, Content, Instants, Interval
<1>3. /\ q \in Seq(Ops) /\ Len(q) = 9
      /\ q[1] = Load("start") /\ q[2] = Load("end") /\ q[3] = Load("pos")
      /\ q[4] = Load("pstart") /\ q[5] = Load("pend") /\ q[6] = Do("apply", 0)
      /\ q[7] = Load("start") /\ q[8] = Load("end") /\ q[9] = Do("accept", due)
  BY <1>0, <1>2, ReceiveList
<1>4. todo' \in [Threads -> Seq(Ops)]
  BY <1>1, <1>3 DEF Accesses, Typed, Threads
<1>5. Typed'
  BY <1>1, <1>2, <1>4, UsedMore DEF Accesses, Typed, Bound
<1>6. given # {}
  BY <1>1 DEF Accesses, Content
<1>7. Content'
  <2>1. due' \in Instants /\ due' # 0 /\ last'.target = last.target
    BY <1>1, <1>2 DEF Instants, Accesses, Content
  <2>2. stream' \in [next : 0 .. due', late : Nat]
    BY <1>1, <1>2 DEF Accesses, Content
  <2>3. ASSUME NEW c \in last.target .. due'
        PROVE  Loaded(c)'
    <3>1. CASE c <= due
      BY <1>1, <2>3, <3>1, <1>2 DEF Accesses, Content, Loaded
    <3>2. CASE c > due
      <4>1. Within(c, f) /\ f \in given'
        BY <1>1, <1>2, <2>3, <3>2 DEF Within, Accesses, Content
      <4>2. QED
        BY <4>1 DEF Loaded
    <3>3. QED
      BY <1>2, <2>3, <3>1, <3>2 DEF Accesses, Content
  <2>4. stream.late = 0 \/ Loaded(stream.late)'
    BY <1>1 DEF Accesses, Content, Loaded
  <2>5. QED
    BY <1>1, <1>2, <2>1, <2>2, <2>3, <2>4 DEF Accesses, Content
<1>8. First'
  BY <1>1, <1>6, NotFirst DEF Accesses, First
<1>9. \A i \in 1 .. Len(q) : AccessOK("loop", q[i])'
  <2>1. Interval(due, due + Fragment) \in given'
    BY <1>1
  <2>2. \A i \in 1 .. Len(q) : i \in {1, 2, 3, 4, 5, 7, 8} \/ i = 6 \/ i = 9
    BY <1>3
  <2>3. \A i \in {1, 2, 3, 4, 5, 7, 8} : q[i].op = "load" /\ q[i].cell \in Cells
    BY <1>3 DEF Load, Cells
  <2>4. q[6].op = "apply" /\ q[9].op = "accept" /\ q[9].val = due
    BY <1>3 DEF Do
  <2>5. Interval(q[9].val, q[9].val + Fragment) \in given'
    BY <2>1, <2>4
  <2>7. AccessOK("loop", q[9])'
    BY <2>4, <2>5 DEF AccessOK
  <2>8. QED
    BY <2>2, <2>3, <2>4, <2>7 DEF AccessOK
<1>10. StoresFirst(q)
  BY <1>3 DEF StoresFirst, Load, Do
<1>11. LoopReady(q, reg["loop"])
  BY <1>3 DEF LoopReady, Will, Applies, LoadOf, Load, Do
<1>12. used["seeks"] <= used'["seeks"]
  BY <1>1, UsedMore DEF Accesses
<1>13. given \subseteq given'
  BY <1>1
<1>14. QED
  BY <1>1, <1>3, <1>5, <1>7, <1>8, <1>9, <1>10, <1>11, <1>12, <1>13, BeginAccesses DEF Threads

LEMMA PacketAccesses ==
    ASSUME Accesses, Packet
    PROVE  Accesses'
<1>1. PICK c \in Nat :
        /\ Begin("reader", <<Load("start"), Load("end"), Load("gen"), Do("track", c)>>)
        /\ Loaded(c) /\ (stream.next # due \/ stream.late # 0)
        /\ stream' \in [next : 0 .. due, late : Nat] /\ stream'.late = 0
        /\ due # 0 => last.target <= stream'.next
        /\ last'.target = last.target
  <2>0. /\ stream.next \in Nat /\ due \in Nat /\ stream \in [next : 0 .. due, late : Nat]
        /\ last.target \in Nat
    BY ConstantsAssumption DEF Accesses, Content, Instants
  <2>1. CASE /\ stream.next # 0 /\ stream.next < due
             /\ Begin("reader", <<Load("start"), Load("end"), Load("gen"), Do("track", stream.next)>>)
             /\ stream' = [next |-> stream.next + 1, late |-> 0]
             /\ last' = [last EXCEPT !.only = FALSE]
    <3>1. Loaded(stream.next) /\ last.target <= stream.next
      BY <2>0, <2>1 DEF Accesses, Content
    <3>2. last'.target = last.target
      BY <2>1
    <3>3. stream' \in [next : 0 .. due, late : Nat] /\ stream'.late = 0
          /\ last.target <= stream'.next
      BY <2>0, <2>1, <3>1
    <3>4. QED
      BY <2>0, <2>1, <3>1, <3>2, <3>3
  <2>2. CASE /\ stream.late # 0
             /\ Begin("reader", <<Load("start"), Load("end"), Load("gen"), Do("track", stream.late)>>)
             /\ stream' = [stream EXCEPT !.late = 0]
             /\ UNCHANGED last
    <3>1. Loaded(stream.late) /\ stream.late \in Nat
      BY <2>0, <2>2 DEF Accesses, Content
    <3>2. stream' \in [next : 0 .. due, late : Nat] /\ stream'.late = 0
          /\ stream'.next = stream.next
      BY <2>0, <2>2
    <3>3. due # 0 => last.target <= stream'.next
      BY <3>2 DEF Accesses, Content
    <3>4. QED
      BY <2>2, <3>1, <3>2, <3>3
  <2>3. QED
    BY <2>1, <2>2 DEF Packet
<1> DEFINE q == <<Load("start"), Load("end"), Load("gen"), Do("track", c)>>
<1>2. /\ Begin("reader", q) /\ UNCHANGED <<due, given>> /\ Spend("packets")
      /\ UNCHANGED <<calm, mem, reg, rtp>> /\ todo' = [todo EXCEPT !["reader"] = q]
  BY <1>1 DEF Packet, Begin
<1>3. /\ q \in Seq(Ops) /\ Len(q) = 4
      /\ q[1] = Load("start") /\ q[2] = Load("end") /\ q[3] = Load("gen")
      /\ q[4] = Do("track", c)
  BY PacketList
<1> HIDE DEF q
<1>4. todo' \in [Threads -> Seq(Ops)]
  BY <1>2, <1>3 DEF Accesses, Typed, Threads
<1>5. Typed'
  BY <1>2, <1>4, UsedMore DEF Accesses, Typed, Bound
<1>6. Content'
  BY <1>1, <1>2 DEF Accesses, Content, Loaded
<1>7. mem["pos"] # 0
  BY <1>1 DEF Accesses, First
<1>8. First'
  BY <1>2, <1>7 DEF Accesses, First
<1>9. \A i \in 1 .. Len(q) : AccessOK("reader", q[i])'
  <2>1. Loaded(c)'
    BY <1>1, <1>2 DEF Loaded
  <2>2. QED
    BY <1>3, <2>1 DEF AccessOK, Load, Do, Cells
<1>10. StoresFirst(q)
  BY <1>3 DEF StoresFirst, Load, Do
<1>11. ReaderReady(q, reg["reader"])
  BY <1>3 DEF ReaderReady, Will, LoadOf, Load, Do
<1>12. used["seeks"] <= used'["seeks"]
  BY <1>2, UsedMore DEF Accesses
<1>13. QED
  BY <1>2, <1>3, <1>5, <1>6, <1>8, <1>9, <1>10, <1>11, <1>12, BeginAccesses DEF Threads

LEMMA SeekAccesses ==
    ASSUME Accesses, NEW t \in Targets, Seek(t)
    PROVE  Accesses'
<1>0. PICK q : q = SeekStores(t)
  OBVIOUS
<1> DEFINE f == Interval(t, t + Fragment)
<1>1. /\ Begin("loop", q) /\ Spend("seeks") /\ Idle("loop")
      /\ UNCHANGED <<calm, mem, reg, rtp>> /\ todo' = [todo EXCEPT !["loop"] = q]
      /\ given' = given \cup {f} /\ due' = t
      /\ stream' = [next |-> t, late |-> IF calm THEN 0 ELSE stream.next]
      /\ last'.target = t
  BY <1>0 DEF Seek, Begin
<1>2. /\ t \in 1 .. End /\ t \in Nat /\ Fragment \in Nat /\ End \in Nat /\ mem["gen"] \in Nat
      /\ f.start = t /\ f.end = t + Fragment /\ f = Interval(f.start, f.start + Fragment)
  <2>1. t \in 1 .. End
    BY ConstantsAssumption
  <2>2. mem["gen"] \in Nat
    BY DEF Accesses, Typed, Cells
  <2>3. QED
    BY <2>1, <2>2, ConstantsAssumption DEF Interval
<1>3. /\ q \in Seq(Ops) /\ Len(q) = 6
      /\ q[1] = Store("start", t) /\ q[2] = Store("end", t + Fragment)
      /\ q[3] = Store("pos", t) /\ q[4] = Store("pstart", 0)
      /\ q[5] = Store("pend", 0) /\ q[6] = Store("gen", mem["gen"] + 1)
  BY <1>0, <1>2, SeekList
<1>4. /\ used' \in [{"seeks", "replies", "stops", "packets"} -> Nat]
      /\ used["seeks"] <= used'["seeks"] /\ used'["seeks"] <= Bound'["seeks"]
      /\ used["seeks"] \in Nat /\ used'["seeks"] = used["seeks"] + 1
  BY <1>1, UsedMore DEF Accesses
<1>5. First'
  <2>1. CASE mem["pos"] = 0
    <3>1. given = {}
      BY <1>1, <2>1, NotFirst
    <3>2. due = 0 /\ stream.next = 0
      BY <3>1 DEF Accesses, Content
    <3>3. todo'["loop"] = SeekStores(t)' /\ Idle("reader")'
      BY <1>0, <1>1, <2>1 DEF Accesses, First, Typed, Threads, Idle, SeekStores
    <3>4. FirstSeek(todo["loop"])'
      BY <3>3 DEF FirstSeek
    <3>5. QED
      BY <1>1, <2>1, <3>2, <3>3, <3>4 DEF Accesses, First
  <2>2. CASE mem["pos"] # 0
    BY <1>1, <2>2 DEF Accesses, First
  <2>3. QED
    BY <2>1, <2>2
<1>6. f \in given' /\ Within(t, f) /\ Loaded(t)'
  BY <1>1, <1>2 DEF Within, Loaded
<1>7. Content'
  <2>1. due' \in Instants /\ due' # 0 /\ given' # {} /\ last'.target \in Nat
    BY <1>1, <1>2 DEF Instants
  <2>2. stream' \in [next : 0 .. due', late : Nat] /\ last'.target <= stream'.next
    BY <1>1, <1>2 DEF Accesses, Content
  <2>3. \A c \in last'.target .. due' : c = t
    BY <1>1, <1>2
  <2>4. ASSUME stream.next # 0
        PROVE  \E g \in given' : Within(stream.next, g)
    <3>1. due \in Nat /\ stream.next \in 0 .. due /\ last.target \in Nat
      BY ConstantsAssumption DEF Accesses, Content, Instants
    <3>2. due # 0
      BY <2>4, <3>1
    <3>3. stream.next \in last.target .. due
      BY <3>1, <3>2 DEF Accesses, Content
    <3>4. Loaded(stream.next)
      BY <3>2, <3>3 DEF Accesses, Content
    <3>5. QED
      BY <1>1, <3>4 DEF Loaded
  <2>5. stream'.late = 0 \/ Loaded(stream.late)'
    <3>1. stream'.late \in {0, stream.next}
      BY <1>1
    <3>2. CASE stream'.late = 0
      BY <3>2
    <3>3. CASE stream'.late = stream.next /\ stream.next # 0
      BY <2>4, <3>3 DEF Loaded
    <3>4. QED
      BY <3>1, <3>2, <3>3
  <2>6. QED
    <3>1. (given = {})' <=> (due = 0)'
      BY <2>1
    <3>2. \A c \in last'.target .. due' : Loaded(c)'
      BY <1>6, <2>3
    <3>3. 0 < last'.target
      BY <1>1, <1>2
    <3>4. QED
      BY <2>1, <2>2, <2>5, <3>1, <3>2, <3>3 DEF Content
<1>8. todo' \in [Threads -> Seq(Ops)]
  BY <1>1, <1>3 DEF Accesses, Typed, Threads
<1>9. Typed'
  BY <1>1, <1>2, <1>4, <1>8 DEF Accesses, Typed, Bound
<1>10. \A i \in 1 .. Len(q) : AccessOK("loop", q[i])'
  <2>1. t \in Possible("start")' /\ t + Fragment \in Possible("end")'
    BY <1>2, <1>6 DEF Possible, Starts, Ends
  <2>2. t \in Possible("pos")'
    <3>1. Known(t)'
      BY <1>2, <1>9, <1>6, KnownFacts DEF Known, Between, Within
    <3>2. QED
      BY <1>2, <3>1 DEF Possible, Instants
  <2>3. 0 \in Possible("pstart")' /\ 0 \in Possible("pend")'
    BY DEF Possible
  <2>4. mem["gen"] + 1 \in Possible("gen")'
    BY <1>2, <1>4 DEF Possible, Accesses, Values, Cells
  <2>5. t # 0 /\ t + Fragment # 0
    BY <1>2
  <2>6. \A i \in 1 .. Len(q) : i \in {1, 2, 3, 4, 5, 6}
    BY <1>3
  <2>7. QED
    <3>1. AccessOK("loop", q[1])' /\ AccessOK("loop", q[2])'
      BY <1>3, <2>1, <2>5 DEF AccessOK, Store, Cells
    <3>2. AccessOK("loop", q[3])'
      BY <1>3, <2>2, <2>5 DEF AccessOK, Store, Cells
    <3>3. AccessOK("loop", q[4])' /\ AccessOK("loop", q[5])'
      BY <1>3, <2>3 DEF AccessOK, Store, Cells
    <3>4. AccessOK("loop", q[6])'
      BY <1>3, <2>4 DEF AccessOK, Store, Cells
    <3>5. QED
      BY <2>6, <3>1, <3>2, <3>3, <3>4
<1>11. StoresFirst(q)
  BY <1>3 DEF StoresFirst, Store
<1>12. LoopReady(q, reg["loop"])
  BY <1>3 DEF LoopReady, Store
<1>13. given \subseteq given'
  BY <1>1
<1>14. QED
  BY <1>1, <1>3, <1>4, <1>5, <1>7, <1>9, <1>10, <1>11, <1>12, <1>13, BeginAccesses DEF Threads

-----------------------------------------------------------------------------
(* An access is made.                                                      *)

LEMMA Proceeds ==
    ASSUME Accesses, NEW t \in Threads, ~Idle(t), NEW ops \in Seq(Ops), NEW r,
           r \in [Registry -> Nat],
           UNCHANGED <<calm, stream, due, given, last, used>>,
           todo' = [todo EXCEPT ![t] = ops \o Tail(todo[t])],
           reg' = [reg EXCEPT ![t] = r],
           \A i \in 1 .. Len(ops) : ops[i].op = "store" /\ AccessOK(t, ops[i]),
           \A c \in Cells : r[c] \in Possible(c),
           r["result"] \in Possible("pos"),
           mem' \in [Cells -> Nat], \A c \in Cells : mem'[c] \in Possible(c),
           rtp' \in [gen : Nat, anchored : BOOLEAN, real : Instants, ref : Instants],
           rtp'.gen <= used["seeks"], First',
           t = "loop" => LoopReady(ops \o Tail(todo[t]), r),
           t = "reader" => ReaderReady(ops \o Tail(todo[t]), r)
    PROVE  Accesses'
<1> DEFINE q == todo[t]
           s == ops \o Tail(q)
<1>1. /\ todo \in [Threads -> Seq(Ops)] /\ reg \in [Threads -> [Registry -> Nat]]
      /\ q \in Seq(Ops) /\ q # <<>> /\ used["seeks"] \in Nat
      /\ calm' = calm /\ given' = given /\ used' = used
  BY DEF Accesses, Typed, Idle
<1>2. /\ \A c : \A v \in Possible(c) : v \in Possible(c)'
      /\ \A u, a : AccessOK(u, a) => AccessOK(u, a)'
  BY <1>1, PossibleGrows, AccessGrows
<1>3. /\ todo'[t] = s /\ \A u \in Threads : u # t => todo'[u] = todo[u]
      /\ reg'[t] = r /\ \A u \in Threads : u # t => reg'[u] = reg[u]
      /\ reg' \in [Threads -> [Registry -> Nat]]
  BY <1>1
<1>4. /\ s \in Seq(Ops) /\ Len(s) = Len(ops) + Len(q) - 1
      /\ Len(q) \in Nat /\ Len(ops) \in Nat /\ Len(q) > 0 /\ Len(s) \in Nat
      /\ \A i \in 1 .. Len(ops) : i \in 1 .. Len(s) /\ s[i] = ops[i]
      /\ \A i \in 1 .. Len(s) : i > Len(ops) =>
            i - Len(ops) + 1 \in 2 .. Len(q) /\ s[i] = q[i - Len(ops) + 1]
  <2> HIDE DEF q
  <2>1. QED
    BY <1>1, Replaced
<1>5. Typed'
  <2>1. todo' \in [Threads -> Seq(Ops)]
    BY <1>1, <1>4
  <2>2. QED
    BY <1>1, <1>3, <2>1 DEF Accesses, Typed, Bound
<1>6. Content'
  BY DEF Accesses, Content, Loaded
<1>7. Values'
  <2>1. \A c \in Cells : mem'[c] \in Possible(c)'
    BY <1>2
  <2>2. ASSUME NEW u \in Threads, NEW c \in Cells
        PROVE  reg'[u][c] \in Possible(c)'
    BY <1>2, <1>3 DEF Accesses, Values
  <2>3. ASSUME NEW u \in Threads
        PROVE  reg'[u]["result"] \in Possible("pos")'
    BY <1>2, <1>3 DEF Accesses, Values
  <2>4. ASSUME NEW i \in 1 .. Len(s)
        PROVE  AccessOK(t, s[i])
    <3>1. CASE i \in 1 .. Len(ops)
      BY <1>4, <3>1
    <3>2. CASE i > Len(ops)
      <4> DEFINE k == i - Len(ops) + 1
      <4>1. k \in 1 .. Len(q) /\ s[i] = q[k]
        BY <1>4, <3>2
      <4>2. QED
        BY <4>1 DEF Accesses, Values
    <3>3. QED
      BY <1>4, <3>1, <3>2
  <2>5. ASSUME NEW u \in Threads, NEW i \in 1 .. Len(todo'[u])
        PROVE  AccessOK(u, todo'[u][i])
    <3>1. CASE u = t
      BY <1>3, <2>4, <3>1
    <3>2. CASE u # t
      BY <1>3, <3>2 DEF Accesses, Values
    <3>3. QED
      BY <3>1, <3>2
  <2>6. \A u \in Threads : \A i \in 1 .. Len(todo'[u]) : AccessOK(u, todo[u][i])'
    <3>1. ASSUME NEW u \in Threads, NEW i \in 1 .. Len(todo'[u])
          PROVE  AccessOK(u, todo[u][i])'
      <4>1. PICK a : a = todo'[u][i]
        OBVIOUS
      <4>2. AccessOK(u, a)'
        BY <1>2, <2>5, <4>1
      <4>3. QED
        BY <4>1, <4>2 DEF AccessOK
    <3>2. QED
      BY <3>1
  <2>7. QED
    BY <2>1, <2>2, <2>3, <2>6 DEF Values
<1>8. StoresFirst(s)
  <2>1. SUFFICES ASSUME NEW i \in 1 .. Len(s), NEW j \in 1 .. Len(s), i < j, s[j].op = "store"
                 PROVE  s[i].op = "store"
    BY DEF StoresFirst
  <2>2. CASE i \in 1 .. Len(ops)
    BY <1>4, <2>2
  <2>3. CASE i > Len(ops)
    <3> DEFINE k == i - Len(ops) + 1
               l == j - Len(ops) + 1
    <3>1. k \in 1 .. Len(q) /\ l \in 1 .. Len(q) /\ k < l /\ s[i] = q[k] /\ s[j] = q[l]
      BY <1>4, <2>1, <2>3
    <3>2. StoresFirst(q)
      BY DEF Accesses
    <3> HIDE DEF k, l, q, s
    <3>3. QED
      BY <2>1, <3>1, <3>2 DEF StoresFirst
  <2>4. QED
    BY <1>4, <2>2, <2>3
<1>9. \A u \in Threads : StoresFirst(todo'[u])
  BY <1>3, <1>8 DEF Accesses
<1>10. LoopReady(todo'["loop"], reg'["loop"]) /\ ReaderReady(todo'["reader"], reg'["reader"])
  BY <1>3 DEF Accesses, Threads
<1>11. QED
  BY <1>5, <1>6, <1>7, <1>9, <1>10 DEF Accesses

(* What is left of the loop's and of the reader's list is ready if what an *)
(* access has just loaded or computed is not nothing.                      *)
LEMMA LoopReadyNext ==
    ASSUME NEW q \in Seq(Ops), q # <<>>, NEW ops \in Seq(Ops), NEW r, NEW n, LoopReady(q, r),
           \A i \in 1 .. Len(ops) : ops[i].op = "store",
           ops # <<>> => Head(q).op \notin {"load", "store"},
           Len(q) > 1 =>
              /\ r["pos"] # 0 => n["pos"] # 0 \/ Head(q).op = "apply"
              /\ LoadOf(Head(q), "pos") => n["pos"] # 0
              /\ r["result"] # 0 => n["result"] # 0
              /\ Head(q).op = "apply" => n["result"] # 0
              /\ r["start"] # 0 => n["start"] # 0 \/ Head(q).op = "apply"
              /\ LoadOf(Head(q), "start") => n["start"] # 0
    PROVE  LoopReady(ops \o Tail(q), n)
<1> DEFINE s == ops \o Tail(q)
           o == Len(ops)
<1>1. /\ s \in Seq(Ops) /\ Len(s) = o + Len(q) - 1
      /\ Len(q) \in Nat /\ o \in Nat /\ Len(q) > 0 /\ Len(s) \in Nat
      /\ Head(q) = q[1]
      /\ \A i \in 1 .. o : i \in 1 .. Len(s) /\ s[i] = ops[i]
      /\ \A i \in 1 .. Len(s) : i > o => i - o + 1 \in 2 .. Len(q) /\ s[i] = q[i - o + 1]
      /\ \A k \in 2 .. Len(q) : k + o - 1 \in 1 .. Len(s) /\ s[k + o - 1] = q[k]
  BY Replaced
<1>2. o = 0 \/ Head(q).op \notin {"load", "store"}
  <2>1. CASE ops = <<>>
    BY <2>1
  <2>2. CASE ops # <<>>
    BY <2>2
  <2>3. QED
    BY <2>1, <2>2
<1> HIDE DEF s, o
<1>3. ASSUME NEW i \in 1 .. Len(s), s[i].op # "store"
      PROVE  /\ s[i].op = "apply" =>
                  /\ n["pos"] # 0 \/ Will(s, i, "pos")
                  /\ \A j \in 1 .. Len(s) : s[j].op = "apply" => j = i
             /\ s[i].op \in {"keep", "accept"} => i = Len(s)
             /\ s[i].op = "keep" => n["result"] # 0 \/ Applies(s, i)
             /\ s[i].op = "accept" =>
                  /\ IF i > 2 THEN LoadOf(s[i - 2], "start") ELSE n["start"] # 0
                  /\ i > 1 => LoadOf(s[i - 1], "end")
  <2> DEFINE k == i - o + 1
  <2>1. /\ i > o /\ k \in 2 .. Len(q) /\ k \in 1 .. Len(q) /\ 1 \in 1 .. Len(q)
        /\ s[i] = q[k] /\ Len(q) > 1
    <3>1. i > o
      BY <1>1, <1>3 DEF o
    <3>2. QED
      BY <1>1, <3>1
  <2>2. \A j \in 2 .. (k - 1) : j + o - 1 \in 1 .. (i - 1) /\ s[j + o - 1] = q[j]
    BY <1>1, <2>1
  <2> HIDE DEF k
  <2>3. ASSUME s[i].op = "apply"
        PROVE  n["pos"] # 0 \/ Will(s, i, "pos")
    <3>1. q[1].op # "apply"
      BY <2>1, <2>3 DEF LoopReady
    <3>2. r["pos"] # 0 \/ Will(q, k, "pos")
      BY <2>1, <2>3 DEF LoopReady
    <3>3. CASE r["pos"] # 0
      BY <1>1, <2>1, <3>1, <3>3
    <3>4. CASE Will(q, k, "pos")
      <4>1. PICK j \in 1 .. (k - 1) : LoadOf(q[j], "pos")
        BY <3>4 DEF Will
      <4>2. CASE j = 1
        BY <1>1, <2>1, <4>1, <4>2
      <4>3. CASE j # 1
        <5>1. j + o - 1 \in 1 .. (i - 1) /\ LoadOf(s[j + o - 1], "pos")
          BY <2>1, <2>2, <4>1, <4>3
        <5>2. QED
          BY <5>1 DEF Will
      <4>4. QED
        BY <4>2, <4>3
    <3>5. QED
      BY <3>2, <3>3, <3>4
  <2>4. ASSUME s[i].op = "apply", NEW j \in 1 .. Len(s), s[j].op = "apply"
        PROVE  j = i
    <3>1. j > o
      BY <1>1, <2>4 DEF o
    <3>2. j - o + 1 \in 1 .. Len(q) /\ s[j] = q[j - o + 1]
      BY <1>1, <3>1
    <3>3. j - o + 1 = k
      BY <2>1, <2>4, <3>2 DEF LoopReady
    <3>4. QED
      BY <1>1, <3>3 DEF k
  <2>5. ASSUME s[i].op \in {"keep", "accept"}
        PROVE  i = Len(s) /\ k = Len(q)
    <3>1. k = Len(q)
      BY <2>1, <2>5 DEF LoopReady
    <3>2. QED
      BY <1>1, <3>1 DEF k
  <2>6. ASSUME s[i].op = "keep"
        PROVE  n["result"] # 0 \/ Applies(s, i)
    <3>1. r["result"] # 0 \/ Applies(q, k)
      BY <2>1, <2>6 DEF LoopReady
    <3>2. CASE r["result"] # 0
      BY <1>1, <2>1, <3>2
    <3>3. CASE Applies(q, k)
      <4>1. PICK j \in 1 .. (k - 1) : q[j].op = "apply"
        BY <3>3 DEF Applies
      <4>2. CASE j = 1
        BY <1>1, <2>1, <4>1, <4>2
      <4>3. CASE j # 1
        <5>1. j + o - 1 \in 1 .. (i - 1) /\ s[j + o - 1].op = "apply"
          BY <2>1, <2>2, <4>1, <4>3
        <5>2. QED
          BY <5>1 DEF Applies
      <4>4. QED
        BY <4>2, <4>3
    <3>4. QED
      BY <3>1, <3>2, <3>3
  <2>7. ASSUME s[i].op = "accept"
        PROVE  /\ IF i > 2 THEN LoadOf(s[i - 2], "start") ELSE n["start"] # 0
               /\ i > 1 => LoadOf(s[i - 1], "end")
    <3>1. /\ IF k > 2 THEN LoadOf(q[k - 2], "start") ELSE r["start"] # 0
          /\ LoadOf(q[k - 1], "end")
      BY <2>1, <2>7 DEF LoopReady
    <3>2. CASE k = 2
      <4>1. q[1].op = "load" /\ r["start"] # 0 /\ o = 0
        BY <1>1, <1>2, <3>1, <3>2 DEF LoadOf
      <4>2. i = 1
        BY <3>2, <4>1 DEF k
      <4>3. n["start"] # 0
        BY <1>1, <2>1, <4>1
      <4>4. QED
        BY <4>2, <4>3
    <3>3. CASE k = 3
      <4>1. LoadOf(q[1], "start") /\ o = 0
        BY <1>1, <1>2, <3>1, <3>3 DEF LoadOf
      <4>2. i = 2 /\ s[1] = q[2]
        BY <2>1, <2>2, <3>3, <4>1 DEF k
      <4>3. n["start"] # 0
        BY <1>1, <2>1, <4>1
      <4>4. QED
        BY <3>1, <3>3, <4>2, <4>3
    <3>4. CASE k > 3
      <4>1. i - 2 = (k - 2) + o - 1 /\ i - 1 = (k - 1) + o - 1 /\ i > 2
        BY <1>1, <2>1, <3>4 DEF k
      <4>2. k - 2 \in 2 .. (k - 1) /\ k - 1 \in 2 .. (k - 1)
        BY <2>1, <3>4
      <4>3. s[i - 2] = q[k - 2] /\ s[i - 1] = q[k - 1]
        BY <2>2, <4>1, <4>2
      <4>4. LoadOf(q[k - 2], "start") /\ LoadOf(q[k - 1], "end")
        <5>1. k > 2
          BY <2>1, <3>4
        <5>2. QED
          BY <3>1, <5>1
      <4>6. LoadOf(s[i - 2], "start") /\ LoadOf(s[i - 1], "end")
        BY <4>3, <4>4
      <4>5. QED
        BY <4>1, <4>6
    <3>5. QED
      BY <2>1, <3>2, <3>3, <3>4
  <2>8. QED
    BY <2>3, <2>4, <2>5, <2>6, <2>7
<1>4. QED
  <2>1. LoopReady(s, n)
    BY <1>3 DEF LoopReady
  <2>2. QED
    BY <2>1 DEF s

LEMMA ReaderReadyNext ==
    ASSUME NEW q \in Seq(Ops), q # <<>>, NEW ops \in Seq(Ops), NEW r, NEW n, ReaderReady(q, r),
           \A i \in 1 .. Len(ops) : ops[i].op = "store",
           Len(q) > 1 =>
              /\ r["start"] # 0 => n["start"] # 0
              /\ LoadOf(Head(q), "start") => n["start"] # 0
    PROVE  ReaderReady(ops \o Tail(q), n)
<1> DEFINE s == ops \o Tail(q)
           o == Len(ops)
<1>1. /\ s \in Seq(Ops) /\ Len(s) = o + Len(q) - 1
      /\ Len(q) \in Nat /\ o \in Nat /\ Len(q) > 0 /\ Len(s) \in Nat
      /\ Head(q) = q[1]
      /\ \A i \in 1 .. o : i \in 1 .. Len(s) /\ s[i] = ops[i]
      /\ \A i \in 1 .. Len(s) : i > o => i - o + 1 \in 2 .. Len(q) /\ s[i] = q[i - o + 1]
      /\ \A k \in 2 .. Len(q) : k + o - 1 \in 1 .. Len(s) /\ s[k + o - 1] = q[k]
  BY Replaced
<1> HIDE DEF s, o
<1>2. ASSUME NEW i \in 1 .. Len(s), s[i].op = "track"
      PROVE  (n["start"] # 0 \/ Will(s, i, "start")) /\ i = Len(s)
  <2> DEFINE k == i - o + 1
  <2>1. /\ i > o /\ k \in 2 .. Len(q) /\ k \in 1 .. Len(q) /\ s[i] = q[k] /\ Len(q) > 1
    <3>1. i > o
      BY <1>1, <1>2 DEF o
    <3>2. QED
      BY <1>1, <3>1
  <2>2. \A j \in 2 .. (k - 1) : j + o - 1 \in 1 .. (i - 1) /\ s[j + o - 1] = q[j]
    BY <1>1, <2>1
  <2>3. (r["start"] # 0 \/ Will(q, k, "start")) /\ k = Len(q)
    <3> HIDE DEF k
    <3>1. QED
      BY <1>2, <2>1 DEF ReaderReady
  <2>4. i = Len(s)
    BY <1>1, <2>3
  <2> HIDE DEF k
  <2>5. CASE r["start"] # 0
    BY <2>1, <2>4, <2>5
  <2>6. CASE Will(q, k, "start")
    <3>1. PICK j \in 1 .. (k - 1) : LoadOf(q[j], "start")
      BY <2>6 DEF Will
    <3>2. CASE j = 1
      BY <1>1, <2>1, <2>4, <3>1, <3>2
    <3>3. CASE j # 1
      <4>1. j + o - 1 \in 1 .. (i - 1) /\ LoadOf(s[j + o - 1], "start")
        BY <2>1, <2>2, <3>1, <3>3
      <4>2. QED
        BY <2>4, <4>1 DEF Will
    <3>4. QED
      BY <3>2, <3>3
  <2>7. QED
    BY <2>3, <2>5, <2>6
<1>3. QED
  <2>1. ReaderReady(s, n)
    BY <1>2 DEF ReaderReady
  <2>2. QED
    BY <2>1 DEF s

(* A computed position is known, or nothing.                               *)
LEMMA ClampFacts ==
    ASSUME NEW v \in Int, NEW s \in Int, NEW e \in Int, s < e
    PROVE  /\ Clamp(v, s, e) \in {v, s, e} /\ s <= Clamp(v, s, e) /\ Clamp(v, s, e) <= e
           /\ v >= s /\ v <= e => Clamp(v, s, e) = v
BY DEF Clamp

LEMMA ResultFacts ==
    ASSUME Typed, NEW r, r \in [Registry -> Nat], \A c \in Cells : r[c] \in Possible(c)
    PROVE  /\ Result(r) \in Possible("pos")
           /\ r["pos"] # 0 => Result(r) # 0
<1>1. /\ r["start"] \in Nat /\ r["end"] \in Nat /\ r["pstart"] \in Nat /\ r["pend"] \in Nat
      /\ r["pos"] \in Nat /\ r["pos"] \in Possible("pos")
  BY DEF Registry, Cells
<1>2. /\ r["start"] # 0 => Known(r["start"])
      /\ r["end"] # 0 => Known(r["end"])
  BY PossibleFacts DEF Cells
<1>3. CASE Reached(r)
  <2>1. Result(r) = r["pos"]
    BY <1>1, <1>3 DEF Result, Reached, Clamp
  <2>2. QED
    BY <1>1, <2>1
<1>4. CASE ~Reached(r) /\ r["end"] > r["start"]
  <2>1. Result(r) = Clamp(r["pos"], r["start"], r["end"])
    BY <1>4 DEF Result
  <2>2. \/ Result(r) = r["pos"]
        \/ Result(r) = r["start"] /\ r["start"] # 0
        \/ Result(r) = r["end"] /\ r["end"] # 0
    BY <1>1, <1>4, <2>1 DEF Clamp
  <2>3. QED
    BY <1>1, <1>2, <2>2, KnownFacts
<1>5. CASE ~Reached(r) /\ ~(r["end"] > r["start"])
  <2>1. Result(r) = r["pos"]
    BY <1>5 DEF Result
  <2>2. QED
    BY <1>1, <2>1
<1>6. QED
  BY <1>3, <1>4, <1>5

(* The stores of SetSpan and SetPending.                                   *)
LEMMA SpanStores ==
    ASSUME Typed, NEW t \in {"ui", "loop"}, NEW i, NEW j,
           i.start \in Possible("start"), i.end \in Possible("end"), i.start # 0, i.end # 0,
           j.start \in Possible("pstart"), j.end \in Possible("pend")
    PROVE  /\ SetSpan(i) \o SetPending(j) \in Seq(Ops)
           /\ \A k \in 1 .. Len(SetSpan(i) \o SetPending(j)) :
                 /\ (SetSpan(i) \o SetPending(j))[k].op = "store"
                 /\ AccessOK(t, (SetSpan(i) \o SetPending(j))[k])
           /\ SetPending(j) \in Seq(Ops)
           /\ \A k \in 1 .. Len(SetPending(j)) :
                 SetPending(j)[k].op = "store" /\ AccessOK(t, SetPending(j)[k])
<1>1. i.start \in Nat /\ i.end \in Nat /\ j.start \in Nat /\ j.end \in Nat
  BY PossibleFacts DEF Cells
<1> DEFINE q == SetSpan(i) \o SetPending(j)
           p == SetPending(j)
<1>2. /\ q \in Seq(Ops) /\ Len(q) = 4
      /\ q[1] = Store("start", i.start) /\ q[2] = Store("end", i.end)
      /\ q[3] = Store("pstart", j.start) /\ q[4] = Store("pend", j.end)
  BY <1>1, SpanList
<1>3. /\ p \in Seq(Ops) /\ Len(p) = 2
      /\ p[1] = Store("pstart", j.start) /\ p[2] = Store("pend", j.end)
  BY <1>1, PendingList
<1> HIDE DEF q, p
<1>4. /\ AccessOK(t, Store("start", i.start)) /\ AccessOK(t, Store("end", i.end))
      /\ AccessOK(t, Store("pstart", j.start)) /\ AccessOK(t, Store("pend", j.end))
  BY DEF AccessOK, Store, Cells
<1>5. \A k \in 1 .. Len(q) : q[k].op = "store" /\ AccessOK(t, q[k])
  <2>1. \A k \in 1 .. Len(q) : k = 1 \/ k = 2 \/ k = 3 \/ k = 4
    BY <1>2
  <2>2. QED
    BY <1>2, <1>4, <2>1 DEF Store
<1>6. \A k \in 1 .. Len(p) : p[k].op = "store" /\ AccessOK(t, p[k])
  <2>1. \A k \in 1 .. Len(p) : k = 1 \/ k = 2
    BY <1>3
  <2>2. QED
    BY <1>3, <1>4, <2>1 DEF Store
<1>7. QED
  BY <1>2, <1>3, <1>5, <1>6 DEF q, p

LEMMA EmptyStores ==
    /\ <<>> \in Seq(Ops)
    /\ \A t : \A k \in 1 .. Len(<<>>) : <<>>[k].op = "store" /\ AccessOK(t, <<>>[k])
<1>1. <<>> \in Seq(Ops) /\ Len(<<>>) = 0
  OBVIOUS
<1>2. \A k \in 1 .. 0 : FALSE
  OBVIOUS
<1>3. QED
  BY <1>1, <1>2

(* The state before an access of thread t.                                 *)
LEMMA BeforeAccess ==
    ASSUME Accesses, NEW t \in Threads, ~Idle(t)
    PROVE  /\ todo[t] \in Seq(Ops) /\ todo[t] # <<>> /\ Head(todo[t]) = todo[t][1]
           /\ 1 \in 1 .. Len(todo[t]) /\ Head(todo[t]) \in Ops /\ Len(todo[t]) \in Nat
           /\ AccessOK(t, Head(todo[t]))
           /\ reg[t] \in [Registry -> Nat]
           /\ \A c \in Cells : reg[t][c] \in Possible(c)
           /\ reg[t]["result"] \in Possible("pos")
           /\ NoRegisters \in [Registry -> Nat]
           /\ \A c \in Cells : NoRegisters[c] \in Possible(c)
           /\ NoRegisters["result"] \in Possible("pos")
           /\ mem \in [Cells -> Nat] /\ \A c \in Cells : mem[c] \in Possible(c)
<1>1. todo[t] \in Seq(Ops) /\ todo[t] # <<>> /\ reg[t] \in [Registry -> Nat]
      /\ mem \in [Cells -> Nat]
  BY DEF Accesses, Typed, Idle
<1>2. Head(todo[t]) = todo[t][1] /\ 1 \in 1 .. Len(todo[t]) /\ Head(todo[t]) \in Ops
      /\ Len(todo[t]) \in Nat
  BY <1>1
<1>3. AccessOK(t, todo[t][1])
  BY <1>2 DEF Accesses, Values
<1>4. NoRegisters \in [Registry -> Nat] /\ \A c \in Registry : NoRegisters[c] = 0
  BY DEF NoRegisters, Registry
<1>5. \A c \in Cells : 0 \in Possible(c)
  BY PossibleFacts DEF Accesses
<1>6. 0 \in Possible("pos")
  BY <1>5 DEF Cells
<1>7. QED
  BY <1>1, <1>2, <1>3, <1>4, <1>5, <1>6 DEF Accesses, Values, Registry

(* Until the position is set, the first seek's stores are the loop's list. *)
LEMMA FirstStores ==
    ASSUME Accesses, mem["pos"] = 0, ~Idle("loop")
    PROVE  \E t \in Targets :
              /\ t \in Nat /\ t # 0
              /\ \/ /\ Head(todo["loop"]) = Store("start", t)
                    /\ Tail(todo["loop"]) = Tail(SeekStores(t))
                 \/ /\ Head(todo["loop"]) = Store("end", t + Fragment)
                    /\ Tail(todo["loop"]) = Tail(Tail(SeekStores(t))) /\ mem["start"] # 0
                 \/ /\ Head(todo["loop"]) = Store("pos", t)
                    /\ mem["start"] # 0 /\ mem["end"] # 0
<1>1. PICK t \in Targets :
          \/ todo["loop"] = SeekStores(t)
          \/ todo["loop"] = Tail(SeekStores(t)) /\ mem["start"] # 0
          \/ todo["loop"] = Tail(Tail(SeekStores(t))) /\ mem["start"] # 0 /\ mem["end"] # 0
  BY DEF Accesses, First, FirstSeek, Idle
<1>2. t \in Nat /\ t # 0 /\ Fragment \in Nat /\ mem["gen"] \in Nat
  <2>1. t \in 1 .. End
    BY ConstantsAssumption
  <2>2. QED
    BY <2>1, ConstantsAssumption DEF Accesses, First
<1> DEFINE q == SeekStores(t)
<1>3. /\ q \in Seq(Ops) /\ Len(q) = 6
      /\ q[1] = Store("start", t) /\ q[2] = Store("end", t + Fragment)
      /\ q[3] = Store("pos", t)
  BY <1>2, SeekList
<1> HIDE DEF q
<1> DEFINE r == Tail(q)
<1>4. /\ Head(q) = q[1] /\ r \in Seq(Ops) /\ Len(r) = 5
      /\ \A k \in 1 .. Len(r) : r[k] = q[k + 1]
  BY <1>3
<1> HIDE DEF r
<1>5. r[1] = q[2] /\ r[2] = q[3]
  BY <1>4
<1>6. Head(r) = r[1]
  BY <1>4
<1>7. Head(Tail(r)) = r[2]
  <2> DEFINE p == Tail(r)
  <2>0. r \in Seq(Ops) /\ Len(r) = 5
    BY <1>4
  <2>1. p \in Seq(Ops) /\ Len(p) = 4
    BY <2>0
  <2> HIDE DEF p
  <2>4. p[1] = r[2]
    <3>1. Len(r) # Len(<<>>)
      BY <2>0
    <3>2. r # <<>>
      BY <3>1
    <3>3. \A k \in 1 .. Len(p) : p[k] = r[k + 1]
      BY <2>0, <3>2, Left DEF p
    <3>4. QED
      BY <2>1, <3>3
  <2>2. Head(p) = p[1] /\ p[1] = r[2]
    BY <2>1, <2>4
  <2>3. QED
    BY <2>2 DEF p
<1>8. QED
  BY <1>1, <1>2, <1>3, <1>4, <1>5, <1>6, <1>7 DEF q, r

LEMMA FirstFrame ==
    ASSUME Accesses, NEW t \in Threads, ~Idle(t), Head(todo[t]).op # "store",
           UNCHANGED <<mem, stream, due, given>>,
           \A u \in Threads : u # t => todo'[u] = todo[u]
    PROVE  First' /\ (t # "ui" => mem["pos"] # 0)
<1>1. mem["pos"] = 0 => t = "ui"
  <2>1. mem["pos"] = 0 => t # "reader"
    BY DEF Accesses, First
  <2>2. ASSUME mem["pos"] = 0, t = "loop"
        PROVE  FALSE
    <3>1. PICK s : Head(todo["loop"]) \in
                     {Store("start", s), Store("end", s + Fragment), Store("pos", s)}
      BY <2>2, FirstStores
    <3>2. Head(todo["loop"]).op = "store"
      BY <3>1 DEF Store
    <3>3. QED
      BY <2>2, <3>2
  <2>3. QED
    BY <2>1, <2>2 DEF Threads
<1>2. CASE mem["pos"] # 0
  BY <1>2 DEF Accesses, First
<1>3. CASE mem["pos"] = 0
  <2>1. todo'["loop"] = todo["loop"] /\ todo'["reader"] = todo["reader"]
    BY <1>1, <1>3 DEF Threads
  <2>2. FirstSeek(todo["loop"])
    BY <1>3 DEF Accesses, First
  <2>3. PICK q : q = todo["loop"]
    OBVIOUS
  <2>4. FirstSeek(q)'
    BY <2>2, <2>3 DEF FirstSeek, SeekStores
  <2>5. FirstSeek(todo["loop"])'
    BY <2>1, <2>3, <2>4 DEF FirstSeek, SeekStores
  <2>6. QED
    BY <1>1, <1>3, <2>1, <2>5 DEF Accesses, First, Idle
<1>4. QED
  BY <1>1, <1>2, <1>3

LEMMA LoadAccesses ==
    ASSUME Accesses, NEW t \in Threads, Access(t), Head(todo[t]).op = "load"
    PROVE  Accesses'
<1> DEFINE q == todo[t]
           r == reg[t]
           c == Head(q).cell
           n == IF Len(q) > 1 THEN [r EXCEPT ![c] = mem[c]] ELSE NoRegisters
<1>1. /\ ~Idle(t) /\ Registers(t, [r EXCEPT ![c] = mem[c]]) /\ Rest(t, <<>>)
      /\ UNCHANGED <<mem, rtp>> /\ UNCHANGED <<calm, stream, due, given, last, used>>
  BY DEF Access
<1>2. /\ q \in Seq(Ops) /\ q # <<>> /\ Head(q) = q[1] /\ 1 \in 1 .. Len(q) /\ AccessOK(t, Head(q))
      /\ r \in [Registry -> Nat] /\ \A d \in Cells : r[d] \in Possible(d)
      /\ r["result"] \in Possible("pos")
      /\ NoRegisters \in [Registry -> Nat]
      /\ \A d \in Cells : NoRegisters[d] \in Possible(d)
      /\ NoRegisters["result"] \in Possible("pos")
      /\ mem \in [Cells -> Nat] /\ \A d \in Cells : mem[d] \in Possible(d)
  BY <1>1, BeforeAccess
<1>3. todo' = [todo EXCEPT ![t] = <<>> \o Tail(q)] /\ reg' = [reg EXCEPT ![t] = n]
  BY <1>1 DEF Rest, Registers
<1>4. c \in Cells
  BY <1>2 DEF AccessOK
<1>5. /\ n \in [Registry -> Nat] /\ \A d \in Cells : n[d] \in Possible(d)
      /\ n["result"] \in Possible("pos")
      /\ Len(q) > 1 => n[c] = mem[c] /\ \A d \in Registry : d # c => n[d] = r[d]
  <2>1. CASE Len(q) > 1
    BY <1>2, <1>4, <2>1 DEF Registry, Cells
  <2>2. CASE ~(Len(q) > 1)
    BY <1>2, <2>2
  <2>3. QED
    BY <2>1, <2>2
<1> HIDE DEF n
<1>6. First' /\ (t # "ui" => mem["pos"] # 0)
  BY <1>1, <1>3, FirstFrame DEF Accesses, Typed
<1>7. t # "ui" => mem["pos"] # 0 /\ mem["start"] # 0
  BY <1>6 DEF Accesses, First
<1>8. ASSUME t # "ui", Len(q) > 1
      PROVE  /\ r["pos"] # 0 => n["pos"] # 0
             /\ LoadOf(Head(q), "pos") => n["pos"] # 0
             /\ r["result"] # 0 => n["result"] # 0
             /\ r["start"] # 0 => n["start"] # 0
             /\ LoadOf(Head(q), "start") => n["start"] # 0
  BY <1>4, <1>5, <1>7, <1>8 DEF LoadOf, Registry, Cells
<1>9. \A i \in 1 .. Len(<<>>) : <<>>[i].op = "store" /\ AccessOK(t, <<>>[i])
  BY EmptyStores
<1>10. \A i \in 1 .. Len(<<>>) : <<>>[i].op = "store"
  BY <1>9
<1>11. t = "loop" => LoopReady(<<>> \o Tail(q), n)
  <2>1. t = "loop" => LoopReady(q, r)
    BY DEF Accesses
  <2> HIDE DEF q, r, c
  <2>2. Head(q).op = "load"
    BY DEF q
  <2>3. QED
    BY <1>2, <1>8, <1>10, <2>1, <2>2, EmptyStores, LoopReadyNext
<1>12. t = "reader" => ReaderReady(<<>> \o Tail(q), n)
  <2>1. t = "reader" => ReaderReady(q, r)
    BY DEF Accesses
  <2> HIDE DEF q, r, c
  <2>2. QED
    BY <1>2, <1>8, <1>10, <2>1, EmptyStores, ReaderReadyNext
<1>13. rtp' \in [gen : Nat, anchored : BOOLEAN, real : Instants, ref : Instants]
       /\ rtp'.gen <= used["seeks"]
  BY <1>1 DEF Accesses, Typed
<1>14. mem' \in [Cells -> Nat] /\ \A d \in Cells : mem'[d] \in Possible(d)
  BY <1>1, <1>2
<1>15. QED
  BY <1>1, <1>3, <1>5, <1>6, <1>9, <1>11, <1>12, <1>13, <1>14, EmptyStores, Proceeds

LEMMA StoreAccesses ==
    ASSUME Accesses, NEW t \in Threads, Access(t), Head(todo[t]).op = "store"
    PROVE  Accesses'
<1> DEFINE q == todo[t]
           r == reg[t]
           c == Head(q).cell
           v == Head(q).val
           n == IF Len(q) > 1 THEN r ELSE NoRegisters
<1>1. /\ ~Idle(t) /\ Registers(t, r) /\ Rest(t, <<>>)
      /\ mem' = [mem EXCEPT ![c] = v] /\ UNCHANGED rtp
      /\ UNCHANGED <<calm, stream, due, given, last, used>>
  BY DEF Access
<1>2. /\ q \in Seq(Ops) /\ q # <<>> /\ Head(q) = q[1] /\ 1 \in 1 .. Len(q) /\ AccessOK(t, Head(q))
      /\ r \in [Registry -> Nat] /\ \A d \in Cells : r[d] \in Possible(d)
      /\ r["result"] \in Possible("pos")
      /\ NoRegisters \in [Registry -> Nat]
      /\ \A d \in Cells : NoRegisters[d] \in Possible(d)
      /\ NoRegisters["result"] \in Possible("pos")
      /\ mem \in [Cells -> Nat] /\ \A d \in Cells : mem[d] \in Possible(d)
  BY <1>1, BeforeAccess
<1>3. todo' = [todo EXCEPT ![t] = <<>> \o Tail(q)] /\ reg' = [reg EXCEPT ![t] = n]
  BY <1>1 DEF Rest, Registers
<1>4. /\ c \in Cells /\ v \in Possible(c)
      /\ c \in {"start", "end", "pos"} => v # 0
      /\ c \in {"pos", "gen"} => t # "ui"
      /\ c # "pos" => t # "reader"
  BY <1>2 DEF AccessOK
<1>5. /\ n \in [Registry -> Nat] /\ \A d \in Cells : n[d] \in Possible(d)
      /\ n["result"] \in Possible("pos") /\ (Len(q) > 1 => n = r)
  BY <1>2
<1> HIDE DEF n
<1>6. mem' \in [Cells -> Nat] /\ \A d \in Cells : mem'[d] \in Possible(d)
  <2>1. v \in Nat
    BY <1>4, PossibleFacts DEF Accesses
  <2>2. QED
    BY <1>1, <1>2, <1>4, <2>1
<1>7. First'
  <2>1. CASE mem["pos"] # 0
    <3>1. mem["start"] # 0 /\ mem["end"] # 0
      BY <2>1 DEF Accesses, First
    <3>2. mem'["pos"] # 0 /\ mem'["start"] # 0 /\ mem'["end"] # 0
      BY <1>1, <1>2, <1>4, <2>1, <3>1 DEF Cells
    <3>3. QED
      BY <3>2 DEF First
  <2>2. CASE mem["pos"] = 0 /\ t = "loop"
    <3>1. PICK s \in Targets :
              /\ s \in Nat /\ s # 0
              /\ \/ /\ Head(q) = Store("start", s)
                    /\ Tail(q) = Tail(SeekStores(s))
                 \/ /\ Head(q) = Store("end", s + Fragment)
                    /\ Tail(q) = Tail(Tail(SeekStores(s))) /\ mem["start"] # 0
                 \/ /\ Head(q) = Store("pos", s)
                    /\ mem["start"] # 0 /\ mem["end"] # 0
      BY <1>1, <2>2, FirstStores
    <3>2. todo'["loop"] = Tail(q) /\ todo'["reader"] = todo["reader"]
      <4>1. <<>> \o Tail(q) = Tail(q)
        BY <1>2
      <4>2. QED
        BY <1>3, <2>2, <4>1 DEF Accesses, Typed, Threads
    <3>3. mem["gen"] = 0 /\ Idle("reader") /\ stream.next = due /\ stream.late = 0
      BY <2>2 DEF Accesses, First
    <3>4. s + Fragment # 0
      BY <3>1, ConstantsAssumption
    <3>5. CASE Head(q) = Store("start", s) /\ Tail(q) = Tail(SeekStores(s))
      <4>1. mem'["start"] # 0 /\ mem'["pos"] = 0 /\ mem'["gen"] = mem["gen"]
        BY <1>1, <1>2, <2>2, <3>1, <3>5 DEF Store, Cells
      <4>2. todo'["loop"] = Tail(SeekStores(s)')
        BY <3>2, <3>5, <4>1 DEF SeekStores
      <4>3. FirstSeek(todo["loop"])'
        BY <4>1, <4>2 DEF FirstSeek
      <4>4. QED
        BY <1>1, <3>2, <3>3, <4>1, <4>3 DEF First, Idle
    <3>6. CASE Head(q) = Store("end", s + Fragment) /\ Tail(q) = Tail(Tail(SeekStores(s)))
               /\ mem["start"] # 0
      <4>0. c = "end" /\ v = s + Fragment
        BY <3>6 DEF Store
      <4>1. mem'["start"] # 0 /\ mem'["end"] # 0 /\ mem'["pos"] = 0 /\ mem'["gen"] = mem["gen"]
        <5> HIDE DEF c, v
        <5>1. QED
          BY <1>1, <1>2, <2>2, <3>4, <3>6, <4>0 DEF Cells
      <4>2. todo'["loop"] = Tail(Tail(SeekStores(s)'))
        BY <3>2, <3>6, <4>1 DEF SeekStores
      <4>3. FirstSeek(todo["loop"])'
        BY <4>1, <4>2 DEF FirstSeek
      <4>4. QED
        BY <1>1, <3>2, <3>3, <4>1, <4>3 DEF First, Idle
    <3>7. CASE Head(q) = Store("pos", s) /\ mem["start"] # 0 /\ mem["end"] # 0
      BY <1>1, <1>2, <3>1, <3>7 DEF First, Store, Cells
    <3>8. QED
      BY <3>1, <3>5, <3>6, <3>7
  <2>3. CASE mem["pos"] = 0 /\ t = "ui"
    <3>1. /\ mem["gen"] = 0 /\ Idle("reader") /\ stream.next = due /\ stream.late = 0
          /\ FirstSeek(todo["loop"])
      BY <2>3 DEF Accesses, First
    <3>2. todo'["loop"] = todo["loop"] /\ todo'["reader"] = todo["reader"]
      BY <1>3, <2>3 DEF Accesses, Typed, Threads
    <3>3. /\ mem'["pos"] = 0 /\ mem'["gen"] = mem["gen"]
          /\ mem["start"] # 0 => mem'["start"] # 0
          /\ mem["end"] # 0 => mem'["end"] # 0
      BY <1>1, <1>2, <1>4, <2>3 DEF Cells
    <3>4. PICK p : p = todo["loop"]
      OBVIOUS
    <3>5. FirstSeek(p)'
      BY <1>1, <3>1, <3>3, <3>4 DEF FirstSeek, SeekStores
    <3>6. FirstSeek(todo["loop"])'
      BY <3>2, <3>4, <3>5 DEF FirstSeek, SeekStores
    <3>7. QED
      BY <1>1, <3>1, <3>2, <3>3, <3>6 DEF First, Idle
  <2>4. CASE mem["pos"] = 0 /\ t = "reader"
    BY <1>1, <2>4 DEF Accesses, First
  <2>5. QED
    BY <2>1, <2>2, <2>3, <2>4 DEF Threads
<1>8. \A i \in 1 .. Len(<<>>) : <<>>[i].op = "store" /\ AccessOK(t, <<>>[i])
  BY EmptyStores
<1>9. \A i \in 1 .. Len(<<>>) : <<>>[i].op = "store"
  BY <1>8
<1>10. t = "loop" => LoopReady(<<>> \o Tail(q), n)
  <2>1. t = "loop" => LoopReady(q, r)
    BY DEF Accesses
  <2> HIDE DEF q, r, c, v
  <2>2. Head(q).op = "store" /\ ~LoadOf(Head(q), "pos") /\ ~LoadOf(Head(q), "start")
    BY DEF q, LoadOf
  <2>3. QED
    BY <1>2, <1>5, <1>9, <2>1, <2>2, EmptyStores, LoopReadyNext
<1>11. t = "reader" => ReaderReady(<<>> \o Tail(q), n)
  <2>1. t = "reader" => ReaderReady(q, r)
    BY DEF Accesses
  <2> HIDE DEF q, r, c, v
  <2>2. ~LoadOf(Head(q), "start")
    BY DEF q, LoadOf
  <2>3. QED
    BY <1>2, <1>5, <1>9, <2>1, <2>2, EmptyStores, ReaderReadyNext
<1>12. rtp' \in [gen : Nat, anchored : BOOLEAN, real : Instants, ref : Instants]
       /\ rtp'.gen <= used["seeks"]
  BY <1>1 DEF Accesses, Typed
<1>13. QED
  BY <1>1, <1>3, <1>5, <1>6, <1>7, <1>8, <1>10, <1>11, <1>12, EmptyStores, Proceeds

LEMMA ApplyAccesses ==
    ASSUME Accesses, NEW t \in Threads, Access(t), Head(todo[t]).op = "apply"
    PROVE  Accesses'
<1> DEFINE q == todo[t]
           r == reg[t]
           n == IF Len(q) > 1 THEN [NoRegisters EXCEPT !["result"] = Result(r)] ELSE NoRegisters
           ops == ApplyStores(r)
<1>1. /\ ~Idle(t) /\ Registers(t, [NoRegisters EXCEPT !["result"] = Result(r)]) /\ Rest(t, ops)
      /\ UNCHANGED <<mem, rtp>> /\ UNCHANGED <<calm, stream, due, given, last, used>>
  BY DEF Access
<1>2. /\ q \in Seq(Ops) /\ q # <<>> /\ Head(q) = q[1] /\ 1 \in 1 .. Len(q) /\ AccessOK(t, Head(q))
      /\ r \in [Registry -> Nat] /\ \A d \in Cells : r[d] \in Possible(d)
      /\ NoRegisters \in [Registry -> Nat]
      /\ \A d \in Cells : NoRegisters[d] \in Possible(d)
      /\ NoRegisters["result"] \in Possible("pos")
      /\ mem \in [Cells -> Nat] /\ \A d \in Cells : mem[d] \in Possible(d)
  BY <1>1, BeforeAccess
<1>3. todo' = [todo EXCEPT ![t] = ops \o Tail(q)] /\ reg' = [reg EXCEPT ![t] = n]
  BY <1>1 DEF Rest, Registers
<1>4. t # "reader"
  BY <1>2 DEF AccessOK
<1>5. Result(r) \in Possible("pos") /\ Result(r) \in Nat /\ (r["pos"] # 0 => Result(r) # 0)
  <2>1. Result(r) \in Possible("pos") /\ (r["pos"] # 0 => Result(r) # 0)
    BY <1>2, ResultFacts DEF Accesses
  <2>2. QED
    BY <2>1, PossibleFacts DEF Accesses, Cells
<1>6. /\ n \in [Registry -> Nat] /\ \A d \in Cells : n[d] \in Possible(d)
      /\ n["result"] \in Possible("pos")
      /\ Len(q) > 1 => n["result"] = Result(r)
  BY <1>2, <1>5 DEF Registry, Cells
<1>7. /\ ops \in Seq(Ops)
      /\ \A k \in 1 .. Len(ops) : ops[k].op = "store" /\ AccessOK(t, ops[k])
  <2>1. CASE Reached(r)
    <3> DEFINE i == Interval(r["pstart"], r["pend"])
    <3>1. ops = SetSpan(i) \o SetPending(NoFragment)
      BY <2>1 DEF ApplyStores
    <3>2. i.start = r["pstart"] /\ i.end = r["pend"] /\ NoFragment.start = 0 /\ NoFragment.end = 0
      BY DEF Interval, NoFragment
    <3>3. i.start # 0 /\ i.end # 0
      BY <1>2, <2>1, <3>2 DEF Reached, Registry, Cells
    <3>4. r["pstart"] \in Possible("start") /\ r["pend"] \in Possible("end")
      BY <1>2 DEF Possible, Cells
    <3>5. 0 \in Possible("pstart") /\ 0 \in Possible("pend")
      BY DEF Possible
    <3>6. t \in {"ui", "loop"}
      BY <1>4 DEF Threads
    <3> HIDE DEF i, ops
    <3>7. QED
      BY <3>1, <3>2, <3>3, <3>4, <3>5, <3>6, SpanStores DEF Accesses
  <2>2. CASE ~Reached(r)
    <3>1. ops = <<>>
      BY <2>2 DEF ApplyStores
    <3>2. QED
      BY <3>1, EmptyStores
  <2>3. QED
    BY <2>1, <2>2
<1> HIDE DEF n, ops
<1>8. First' /\ (t # "ui" => mem["pos"] # 0)
  BY <1>1, <1>3, FirstFrame DEF Accesses, Typed
<1>9. t = "loop" => LoopReady(ops \o Tail(q), n)
  <2>1. SUFFICES ASSUME t = "loop" PROVE LoopReady(ops \o Tail(q), n)
    OBVIOUS
  <2>2. LoopReady(q, r)
    BY <2>1 DEF Accesses
  <2>3. q[1].op = "apply" /\ Head(q).op = "apply"
    BY <1>2
  <2>4. ~Will(q, 1, "pos")
    BY DEF Will
  <2> HIDE DEF q, r
  <2>5. r["pos"] # 0
    BY <1>2, <2>2, <2>3, <2>4 DEF LoopReady
  <2>6. ~LoadOf(Head(q), "pos") /\ ~LoadOf(Head(q), "start")
    BY <2>3 DEF LoadOf
  <2>7. Len(q) > 1 => n["result"] # 0
    BY <1>5, <1>6, <2>5
  <2>8. \A k \in 1 .. Len(ops) : ops[k].op = "store"
    BY <1>7
  <2>9. QED
    BY <1>2, <1>7, <2>2, <2>3, <2>6, <2>7, <2>8, LoopReadyNext
<1>10. rtp' \in [gen : Nat, anchored : BOOLEAN, real : Instants, ref : Instants]
       /\ rtp'.gen <= used["seeks"]
  BY <1>1 DEF Accesses, Typed
<1>11. mem' \in [Cells -> Nat] /\ \A d \in Cells : mem'[d] \in Possible(d)
  BY <1>1, <1>2
<1>12. QED
  BY <1>1, <1>3, <1>4, <1>6, <1>7, <1>8, <1>9, <1>10, <1>11, Proceeds

(* An access at the end of the list that leaves nothing in the registers.  *)
LEMMA LastAccess ==
    ASSUME Accesses, NEW t \in {"loop", "reader"}, Access(t), NEW ops, ops \in Seq(Ops),
           Head(todo[t]).op \in {"accept", "keep", "track"},
           Registers(t, NoRegisters), Rest(t, ops), UNCHANGED mem,
           \A k \in 1 .. Len(ops) : ops[k].op = "store" /\ AccessOK(t, ops[k]),
           rtp' \in [gen : Nat, anchored : BOOLEAN, real : Instants, ref : Instants],
           rtp'.gen <= used["seeks"]
    PROVE  Accesses'
<1> DEFINE q == todo[t]
<1>1. t \in Threads
  BY DEF Threads
<1>2. ~Idle(t) /\ UNCHANGED <<calm, stream, due, given, last, used>>
  BY DEF Access
<1>3. /\ q \in Seq(Ops) /\ q # <<>> /\ Head(q) = q[1] /\ 1 \in 1 .. Len(q) /\ AccessOK(t, Head(q))
      /\ Len(q) \in Nat
      /\ NoRegisters \in [Registry -> Nat]
      /\ \A d \in Cells : NoRegisters[d] \in Possible(d)
      /\ NoRegisters["result"] \in Possible("pos")
      /\ mem \in [Cells -> Nat] /\ \A d \in Cells : mem[d] \in Possible(d)
  BY <1>1, <1>2, BeforeAccess
<1>4. todo' = [todo EXCEPT ![t] = ops \o Tail(q)] /\ reg' = [reg EXCEPT ![t] = NoRegisters]
  BY DEF Rest, Registers
<1>5. Len(q) = 1
  <2>1. Head(q).op = "track" => t = "reader"
    BY <1>3 DEF AccessOK
  <2>2. Head(q).op \in {"accept", "keep"} => t = "loop"
    BY <1>3 DEF AccessOK
  <2>3. t = "loop" => LoopReady(q, reg["loop"])
    BY DEF Accesses
  <2>4. t = "reader" => ReaderReady(q, reg["reader"])
    BY DEF Accesses
  <2>5. Head(q).op \in {"accept", "keep", "track"} /\ q[1] = Head(q)
    BY <1>3
  <2> HIDE DEF q
  <2>6. CASE t = "loop"
    <3>1. q[1].op \in {"keep", "accept"}
      BY <2>1, <2>5, <2>6
    <3>2. QED
      BY <1>3, <2>3, <2>6, <3>1 DEF LoopReady
  <2>7. CASE t = "reader"
    <3>1. q[1].op = "track"
      BY <2>2, <2>5, <2>7
    <3>2. QED
      BY <1>3, <2>4, <2>7, <3>1 DEF ReaderReady
  <2>8. QED
    BY <2>6, <2>7
<1>6. First'
  <2>1. Head(todo[t]).op # "store"
    OBVIOUS
  <2>2. \A u \in Threads : u # t => todo'[u] = todo[u]
    BY <1>4 DEF Accesses, Typed
  <2>3. QED
    BY <1>1, <1>2, <2>1, <2>2, FirstFrame
<1>7. \A k \in 1 .. Len(ops) : ops[k].op = "store"
  OBVIOUS
<1>8. ops # <<>> => Head(q).op \notin {"load", "store"}
  OBVIOUS
<1>9. t = "loop" => LoopReady(ops \o Tail(q), NoRegisters)
  <2>1. t = "loop" => LoopReady(q, reg["loop"])
    BY DEF Accesses
  <2> HIDE DEF q
  <2>2. ~(Len(q) > 1)
    BY <1>5
  <2>3. QED
    BY <1>3, <1>7, <1>8, <2>1, <2>2, LoopReadyNext
<1>10. t = "reader" => ReaderReady(ops \o Tail(q), NoRegisters)
  <2>1. t = "reader" => ReaderReady(q, reg["reader"])
    BY DEF Accesses
  <2> HIDE DEF q
  <2>2. ~(Len(q) > 1)
    BY <1>5
  <2>3. QED
    BY <1>3, <1>7, <2>1, <2>2, ReaderReadyNext
<1>11. mem' \in [Cells -> Nat] /\ \A d \in Cells : mem'[d] \in Possible(d)
  BY <1>3
<1>12. QED
  BY <1>1, <1>2, <1>3, <1>4, <1>6, <1>9, <1>10, <1>11, Proceeds

LEMMA AcceptAccesses ==
    ASSUME Accesses, NEW t \in Threads, Access(t), Head(todo[t]).op = "accept"
    PROVE  Accesses'
<1> DEFINE r == reg[t]
           a == Head(todo[t])
           f == Interval(a.val, a.val + Fragment)
           ops == AcceptStores(r, f)
<1>1. /\ ~Idle(t) /\ Registers(t, NoRegisters) /\ Rest(t, ops) /\ UNCHANGED <<mem, rtp>>
  BY DEF Access
<1>2. AccessOK(t, a)
  BY <1>1, BeforeAccess
<1>3. t = "loop" /\ f \in given
  BY <1>2 DEF AccessOK
<1>4. /\ f.start \in Possible("start") /\ f.end \in Possible("end") /\ f.start # 0 /\ f.end # 0
      /\ f.start \in Possible("pstart") /\ f.end \in Possible("pend")
      /\ 0 \in Possible("pstart") /\ 0 \in Possible("pend")
  <2> HIDE DEF f
  <2>1. f.start \in Starts /\ f.end \in Ends
    BY <1>3 DEF Starts, Ends
  <2>2. f.start # 0 /\ f.end # 0
    BY <1>3, KnownFacts DEF Accesses
  <2>3. QED
    BY <2>1, <2>2 DEF Possible
<1>5. NoFragment.start = 0 /\ NoFragment.end = 0
  BY DEF NoFragment, Interval
<1> HIDE DEF f
<1>6. /\ ops \in Seq(Ops)
      /\ \A k \in 1 .. Len(ops) : ops[k].op = "store" /\ AccessOK("loop", ops[k])
  <2>1. ops \in {SetSpan(f) \o SetPending(NoFragment), SetPending(f)}
    BY DEF AcceptStores
  <2> HIDE DEF ops
  <2>2. CASE ops = SetSpan(f) \o SetPending(NoFragment)
    BY <1>4, <1>5, <2>2, SpanStores DEF Accesses
  <2>3. CASE ops = SetPending(f)
    BY <1>4, <2>3, SpanStores DEF Accesses
  <2>4. QED
    BY <2>1, <2>2, <2>3
<1> HIDE DEF ops
<1>7. QED
  BY <1>1, <1>3, <1>6, LastAccess DEF Accesses, Typed

LEMMA KeepAccesses ==
    ASSUME Accesses, NEW t \in Threads, Access(t), Head(todo[t]).op = "keep"
    PROVE  Accesses'
<1> DEFINE v == reg[t]["result"]
           q == todo[t]
<1>1. /\ ~Idle(t) /\ Registers(t, NoRegisters) /\ Rest(t, <<Store("pos", v)>>)
      /\ UNCHANGED <<mem, rtp>>
  BY DEF Access
<1>2. AccessOK(t, Head(q)) /\ v \in Possible("pos") /\ q[1] = Head(q) /\ 1 \in 1 .. Len(q)
  BY <1>1, BeforeAccess
<1>3. t = "loop"
  BY <1>2 DEF AccessOK
<1>4. v # 0
  <2>1. LoopReady(q, reg[t]) /\ q[1].op = "keep"
    BY <1>2, <1>3 DEF Accesses
  <2>2. ~Applies(q, 1)
    BY DEF Applies
  <2> HIDE DEF q
  <2>3. QED
    BY <1>2, <2>1, <2>2 DEF LoopReady
<1>5. v \in Nat
  BY <1>2, PossibleFacts DEF Accesses, Cells
<1> HIDE DEF v
<1>6. Store("pos", v) \in Ops /\ Store("pos", v).op = "store" /\ AccessOK("loop", Store("pos", v))
  BY <1>2, <1>4, <1>5, AccessTypes DEF AccessOK, Store, Cells
<1> DEFINE ops == <<Store("pos", v)>>
<1>7. /\ ops \in Seq(Ops)
      /\ \A k \in 1 .. Len(ops) : ops[k].op = "store" /\ AccessOK("loop", ops[k])
  <2>1. ops \in Seq(Ops) /\ Len(ops) = 1 /\ ops[1] = Store("pos", v)
    BY <1>6
  <2>2. QED
    BY <1>6, <2>1
<1> HIDE DEF ops
<1>8. Rest(t, ops)
  BY <1>1 DEF ops
<1>9. QED
  BY <1>1, <1>3, <1>7, <1>8, LastAccess DEF Accesses, Typed

-----------------------------------------------------------------------------
(* The reader places the playhead.                                         *)

NewSpan(r) == r["gen"] # rtp.gen
Tracks(r) == r["gen"] # 0 /\ r["end"] > r["start"]
InSpan(r, c) == r["start"] <= c /\ c <= r["end"]
ByAnchor(r, c) ==
    LET real == IF NewSpan(r) THEN r["start"] ELSE rtp.real
        ref == IF NewSpan(r) THEN c ELSE rtp.ref
    IN IF real + (c - ref) > 0 THEN real + (c - ref) ELSE 0
PlacedAt(r, c) ==
    IF InSpan(r, c) THEN c
    ELSE Placed(r, ~NewSpan(r) /\ rtp.anchored, ByAnchor(r, c))

LEMMA TrackForm ==
    ASSUME NEW r, NEW c
    PROVE  /\ TrackStores(r, c).stores =
                 (IF NewSpan(r) THEN <<Store("pos", r["start"])>> ELSE <<>>)
                 \o IF ~Tracks(r) THEN <<>> ELSE <<Store("pos", PlacedAt(r, c))>>
           /\ LET anchored == ~NewSpan(r) /\ rtp.anchored IN
              TrackStores(r, c).rtp =
                 [gen |-> r["gen"],
                  anchored |-> anchored \/ Tracks(r),
                  real |-> IF Tracks(r) /\ ~anchored
                           THEN IF InSpan(r, c) THEN c ELSE r["start"]
                           ELSE IF NewSpan(r) THEN r["start"] ELSE rtp.real,
                  ref |-> IF Tracks(r) /\ ~anchored THEN c
                          ELSE IF NewSpan(r) THEN c ELSE rtp.ref]
BY DEF TrackStores, NewSpan, Tracks, InSpan, ByAnchor, PlacedAt

LEMMA TrackShape ==
    ASSUME NEW r, NEW c, r["start"] \in Nat, Tracks(r) => PlacedAt(r, c) \in Nat
    PROVE  LET q == TrackStores(r, c).stores IN
           /\ q \in Seq(Ops)
           /\ \/ q = <<>> /\ ~NewSpan(r) /\ ~Tracks(r)
              \/ /\ NewSpan(r) /\ ~Tracks(r)
                 /\ Len(q) = 1 /\ q[1] = Store("pos", r["start"])
              \/ /\ ~NewSpan(r) /\ Tracks(r)
                 /\ Len(q) = 1 /\ q[1] = Store("pos", PlacedAt(r, c))
              \/ /\ NewSpan(r) /\ Tracks(r) /\ Len(q) = 2
                 /\ q[1] = Store("pos", r["start"]) /\ q[2] = Store("pos", PlacedAt(r, c))
<1> DEFINE v == r["start"]
           w == PlacedAt(r, c)
           q == TrackStores(r, c).stores
<1>1. q = (IF NewSpan(r) THEN <<Store("pos", v)>> ELSE <<>>)
          \o IF ~Tracks(r) THEN <<>> ELSE <<Store("pos", w)>>
  BY TrackForm
<1>2. Store("pos", v) \in Ops /\ (Tracks(r) => Store("pos", w) \in Ops)
  BY AccessTypes DEF Cells
<1> HIDE DEF v, w, q
<1>3. CASE ~NewSpan(r) /\ ~Tracks(r)
  <2>1. q = <<>> \o <<>>
    BY <1>1, <1>3
  <2>2. q = <<>>
    BY <2>1
  <2>3. QED
    BY <1>3, <2>2 DEF q
<1>4. CASE NewSpan(r) /\ ~Tracks(r)
  <2>1. q = <<Store("pos", v)>> \o <<>>
    BY <1>1, <1>4
  <2>2. q \in Seq(Ops) /\ Len(q) = 1 /\ q[1] = Store("pos", v)
    BY <1>2, <2>1
  <2>3. QED
    BY <1>4, <2>2 DEF q, v
<1>5. CASE ~NewSpan(r) /\ Tracks(r)
  <2>1. q = <<>> \o <<Store("pos", w)>>
    BY <1>1, <1>5
  <2>2. q \in Seq(Ops) /\ Len(q) = 1 /\ q[1] = Store("pos", w)
    BY <1>2, <1>5, <2>1
  <2>3. QED
    BY <1>5, <2>2 DEF q, w
<1>6. CASE NewSpan(r) /\ Tracks(r)
  <2>1. q = <<Store("pos", v)>> \o <<Store("pos", w)>>
    BY <1>1, <1>6
  <2>2. q \in Seq(Ops) /\ Len(q) = 2 /\ q[1] = Store("pos", v) /\ q[2] = Store("pos", w)
    BY <1>2, <1>6, <2>1
  <2>3. QED
    BY <1>6, <2>2 DEF q, v, w
<1>7. QED
  BY <1>3, <1>4, <1>5, <1>6

(* Nothing is stored but by the lists that may store it.                   *)
LEMMA EmptyFuture ==
    \A c : FutureOf(<<>>, c) = {}
BY EmptyStores DEF FutureOf

LEMMA Storing ==
    ASSUME Accesses, NEW t \in Threads, NEW c \in Cells,
           t = "ui" => c \in {"pos", "gen"}, t = "reader" => c # "pos",
           t = "loop" => Idle("loop")
    PROVE  FutureOf(todo[t], c) = {}
<1>1. CASE t = "loop"
  BY <1>1, EmptyFuture DEF Idle
<1>2. CASE t # "loop"
  <2>1. ASSUME NEW i \in 1 .. Len(todo[t]), StoreOf(todo[t][i], c)
        PROVE  FALSE
    BY <1>2, <2>1 DEF Accesses, Values, AccessOK, StoreOf, Threads
  <2>2. QED
    BY <2>1 DEF FutureOf
<1>3. QED
  BY <1>1, <1>2

LEMMA SettledFacts ==
    ASSUME NEW c \in Cells, Single
    PROVE  IF Future(c) = {} THEN Settled[c] = mem[c] ELSE Future(c) = {Settled[c]}
<1>1. CASE Future(c) = {}
  BY <1>1 DEF Settled
<1>2. CASE Future(c) # {}
  <2>1. Settled[c] = CHOOSE v \in Future(c) : TRUE
    BY <1>2 DEF Settled
  <2>2. Settled[c] \in Future(c)
    BY <1>2, <2>1
  <2>3. QED
    BY <1>2, <2>2 DEF Single
<1>3. QED
  BY <1>1, <1>2

(* The generation is the loop's to store, the position the reader's.       *)
LEMMA GenerationKept ==
    ASSUME Accesses, Single, Idle("loop")
    PROVE  Settled["gen"] = mem["gen"]
<1>1. Future("gen") = {}
  BY Storing DEF Future, Threads, Cells
<1>2. QED
  BY <1>1, SettledFacts DEF Cells

(* When calm, the anchor maps content to itself.                           *)
LEMMA AnchorTrue ==
    ASSUME Accesses, CalmQuiet, calm, ~Idle("reader"), Head(todo["reader"]).op = "track"
    PROVE  /\ reg["reader"]["gen"] = mem["gen"] /\ Settled["gen"] = mem["gen"]
           /\ reg["reader"]["gen"] = rtp.gen => rtp.anchored /\ rtp.real = rtp.ref
<1> DEFINE q == todo["reader"]
<1>1. q[1] = Head(q) /\ 1 \in 1 .. Len(q) /\ AccessOK("reader", Head(q))
  BY BeforeAccess DEF Threads
<1>2. given # {}
  BY <1>1 DEF AccessOK, Loaded
<1>3. Quiet(Settled) /\ Single /\ Idle("loop")
  BY <1>2 DEF CalmQuiet, Apart
<1>4. reg["reader"]["gen"] = mem["gen"]
  <2>1. ReaderCalm(q, reg["reader"], mem, Fresh(Settled), last.target)
    BY <1>3 DEF Quiet
  <2>2. ~Will(q, 1, "gen")
    BY DEF Will
  <2>3. QED
    BY <1>1, <2>1, <2>2 DEF ReaderCalm
<1>5. Settled["gen"] = mem["gen"]
  BY <1>3, GenerationKept
<1>6. Fresh(Settled) \/ (rtp.anchored /\ rtp.real = rtp.ref)
  <2>1. Anchored(Settled)
    BY <1>3 DEF Quiet
  <2>2. QED
    BY <2>1 DEF Anchored
<1>7. QED
  BY <1>4, <1>5, <1>6 DEF Fresh

LEMMA TrackAccesses ==
    ASSUME Accesses, CalmQuiet, NEW t \in Threads, Access(t), Head(todo[t]).op = "track"
    PROVE  Accesses'
<1> DEFINE r == reg[t]
           q == todo[t]
           c == Head(q).val
           ops == TrackStores(r, c).stores
<1>1. /\ ~Idle(t) /\ Registers(t, NoRegisters) /\ Rest(t, ops)
      /\ rtp' = TrackStores(r, c).rtp /\ UNCHANGED mem
  BY DEF Access
<1>2. /\ AccessOK(t, Head(q)) /\ Head(q) \in Ops /\ q[1] = Head(q) /\ 1 \in 1 .. Len(q)
      /\ r \in [Registry -> Nat] /\ \A d \in Cells : r[d] \in Possible(d)
  BY <1>1, BeforeAccess
<1>3. t = "reader" /\ Loaded(c) /\ c \in Nat
  BY <1>2 DEF AccessOK, Ops
<1>4. Known(c) /\ c \in Possible("pos") /\ c > 0 /\ c \in Instants
  BY <1>3, KnownFacts DEF Accesses
<1>5. r["start"] # 0
  <2>1. ReaderReady(q, r)
    BY <1>3 DEF Accesses
  <2>2. ~Will(q, 1, "start") /\ q[1].op = "track"
    BY <1>2 DEF Will
  <2> HIDE DEF q, r
  <2>3. QED
    BY <1>2, <2>1, <2>2 DEF ReaderReady
<1>6. /\ r["start"] \in Nat /\ r["end"] \in Nat /\ r["gen"] \in Nat
      /\ r["start"] \in Starts /\ Known(r["start"]) /\ r["start"] \in Instants
      /\ r["gen"] <= used["seeks"]
      /\ r["end"] # 0 => r["end"] \in Ends /\ Known(r["end"])
  BY <1>2, <1>5, PossibleFacts DEF Accesses, Cells, Registry
<1>7. rtp.real \in Instants /\ rtp.ref \in Instants /\ rtp.anchored \in BOOLEAN /\ rtp.gen \in Nat
      /\ rtp.real \in Nat /\ rtp.ref \in Nat
  BY ConstantsAssumption DEF Accesses, Typed, Instants
<1>8. calm => (~NewSpan(r) => rtp.real = rtp.ref)
  BY <1>1, <1>3, AnchorTrue DEF NewSpan
<1> HIDE DEF r, c, q
<1>9. ASSUME Tracks(r)
      PROVE  PlacedAt(r, c) \in Nat /\ PlacedAt(r, c) # 0 /\ Known(PlacedAt(r, c))
  <2>1. r["end"] > r["start"] /\ r["end"] # 0
    BY <1>6, <1>9 DEF Tracks
  <2>2. CASE InSpan(r, c)
    BY <1>3, <1>4, <2>2 DEF PlacedAt
  <2>3. CASE ~InSpan(r, c) /\ ~(~NewSpan(r) /\ rtp.anchored)
    <3>1. PlacedAt(r, c) = r["start"]
      BY <2>3 DEF PlacedAt, Placed
    <3>2. QED
      BY <1>5, <1>6, <3>1
  <2>4. CASE ~InSpan(r, c) /\ ~NewSpan(r) /\ rtp.anchored
    <3> DEFINE w == ByAnchor(r, c)
               p == PlacedAt(r, c)
    <3>1. p = Clamp(w, r["start"], r["end"])
      BY <2>4 DEF PlacedAt, Placed
    <3>2. w \in Int /\ (rtp.real = rtp.ref => w = c)
      BY <1>3, <1>4, <1>7, <2>4 DEF ByAnchor
    <3> HIDE DEF w, p
    <3>3. p \in {w, r["start"], r["end"]} /\ r["start"] <= p /\ p <= r["end"]
      BY <1>6, <2>1, <3>1, <3>2, ClampFacts
    <3>4. p \in Nat /\ p # 0
      BY <1>5, <1>6, <3>2, <3>3
    <3>5. Between(p)
      BY <1>6, <2>1, <3>3, <3>4, PossibleFacts DEF Accesses
    <3>6. calm => Known(p)
      BY <1>4, <1>6, <1>8, <2>1, <2>4, <3>2, <3>3
    <3>7. Known(p)
      BY <3>5, <3>6 DEF Known
    <3>8. QED
      BY <3>4, <3>7 DEF p
  <2>5. QED
    BY <2>2, <2>3, <2>4
<1>10. /\ Store("pos", r["start"]).op = "store" /\ AccessOK("reader", Store("pos", r["start"]))
       /\ Tracks(r) => AccessOK("reader", Store("pos", PlacedAt(r, c)))
       /\ Store("pos", PlacedAt(r, c)).op = "store"
  <2>1. r["start"] \in Possible("pos")
    BY <1>6, KnownFacts DEF Accesses
  <2>2. Tracks(r) => PlacedAt(r, c) \in Possible("pos") /\ PlacedAt(r, c) # 0
    BY <1>9, KnownFacts DEF Accesses
  <2>3. QED
    BY <1>5, <2>1, <2>2 DEF AccessOK, Store, Cells
<1>11. /\ ops \in Seq(Ops)
       /\ \A k \in 1 .. Len(ops) : ops[k].op = "store" /\ AccessOK("reader", ops[k])
  <2>1. /\ ops \in Seq(Ops)
        /\ \/ ops = <<>>
           \/ Len(ops) = 1 /\ ops[1] = Store("pos", r["start"])
           \/ Tracks(r) /\ Len(ops) = 1 /\ ops[1] = Store("pos", PlacedAt(r, c))
           \/ /\ Tracks(r) /\ Len(ops) = 2 /\ ops[1] = Store("pos", r["start"])
              /\ ops[2] = Store("pos", PlacedAt(r, c))
    BY <1>6, <1>9, TrackShape
  <2> HIDE DEF ops
  <2>2. CASE ops = <<>>
    BY <2>2, EmptyStores
  <2>3. CASE Len(ops) = 1
    BY <1>10, <2>1, <2>3, EmptyStores
  <2>4. CASE Len(ops) = 2
    <3>1. \A k \in 1 .. Len(ops) : k = 1 \/ k = 2
      BY <2>4
    <3>2. QED
      BY <1>10, <2>1, <2>4, <3>1, EmptyStores
  <2>5. QED
    BY <2>1, <2>2, <2>3, <2>4
<1>12. rtp' \in [gen : Nat, anchored : BOOLEAN, real : Instants, ref : Instants]
       /\ rtp'.gen <= used["seeks"]
  <2>1. rtp' = TrackStores(r, c).rtp
    BY <1>1 DEF r, c, q
  <2> DEFINE anchored == ~NewSpan(r) /\ rtp.anchored
             real == IF Tracks(r) /\ ~anchored
                     THEN IF InSpan(r, c) THEN c ELSE r["start"]
                     ELSE IF NewSpan(r) THEN r["start"] ELSE rtp.real
             ref == IF Tracks(r) /\ ~anchored THEN c
                    ELSE IF NewSpan(r) THEN c ELSE rtp.ref
  <2>2. rtp' = [gen |-> r["gen"], anchored |-> anchored \/ Tracks(r), real |-> real, ref |-> ref]
    BY <2>1, TrackForm
  <2>3. real \in Instants /\ ref \in Instants
    BY <1>4, <1>6, <1>7
  <2>4. (anchored \/ Tracks(r)) \in BOOLEAN
    BY <1>7 DEF Tracks
  <2> HIDE DEF anchored, real, ref
  <2>5. QED
    BY <1>6, <2>2, <2>3, <2>4
<1>13. Registers(t, NoRegisters) /\ Rest(t, ops) /\ UNCHANGED mem
  BY <1>1 DEF r, c, q
<1> HIDE DEF ops
<1>14. QED
  BY <1>3, <1>11, <1>12, <1>13, LastAccess

-----------------------------------------------------------------------------
(* What a step, when calm, changes of the atomics as they will be.         *)

LEMMA FutureSplit ==
    ASSUME NEW q \in Seq(Ops), q # <<>>, NEW ops \in Seq(Ops), NEW c
    PROVE  /\ FutureOf(ops \o Tail(q), c) = FutureOf(ops, c) \cup FutureOf(Tail(q), c)
           /\ FutureOf(q, c) = (IF StoreOf(Head(q), c) THEN {Head(q).val} ELSE {})
                               \cup FutureOf(Tail(q), c)
<1> DEFINE s == ops \o Tail(q)
           r == Tail(q)
<1>1. /\ Len(s) = Len(ops) + Len(q) - 1
      /\ Len(q) \in Nat /\ Len(ops) \in Nat /\ Len(q) > 0 /\ Len(s) \in Nat
      /\ Head(q) = q[1]
      /\ \A i \in 1 .. Len(ops) : i \in 1 .. Len(s) /\ s[i] = ops[i]
      /\ \A i \in 1 .. Len(s) : i > Len(ops) =>
            i - Len(ops) + 1 \in 2 .. Len(q) /\ s[i] = q[i - Len(ops) + 1]
      /\ \A k \in 2 .. Len(q) :
            k + Len(ops) - 1 \in 1 .. Len(s) /\ s[k + Len(ops) - 1] = q[k]
  BY Replaced
<1>2. /\ Len(r) = Len(q) - 1 /\ \A i \in 1 .. Len(r) : i + 1 \in 1 .. Len(q) /\ r[i] = q[i + 1]
      /\ \A k \in 1 .. Len(q) : k > 1 => k - 1 \in 1 .. Len(r) /\ r[k - 1] = q[k]
  BY Left
<1> HIDE DEF s, r
<1>3. ASSUME NEW v \in FutureOf(s, c)
      PROVE  v \in FutureOf(ops, c) \cup FutureOf(r, c)
  <2>1. PICK i \in 1 .. Len(s) : StoreOf(s[i], c) /\ s[i].val = v
    BY <1>3 DEF FutureOf
  <2>2. CASE i \in 1 .. Len(ops)
    BY <1>1, <2>1, <2>2 DEF FutureOf
  <2>3. CASE i > Len(ops)
    <3>1. PICK k \in 2 .. Len(q) : s[i] = q[k]
      BY <1>1, <2>3
    <3>2. k - 1 \in 1 .. Len(r) /\ r[k - 1] = s[i]
      BY <1>1, <1>2, <3>1
    <3>3. QED
      BY <2>1, <3>2 DEF FutureOf
  <2>4. QED
    BY <1>1, <2>2, <2>3
<1>4. ASSUME NEW v \in FutureOf(ops, c) \cup FutureOf(r, c)
      PROVE  v \in FutureOf(s, c)
  <2>1. CASE v \in FutureOf(ops, c)
    BY <1>1, <2>1 DEF FutureOf
  <2>2. CASE v \in FutureOf(r, c)
    <3>1. PICK i \in 1 .. Len(r) : StoreOf(r[i], c) /\ r[i].val = v
      BY <2>2 DEF FutureOf
    <3>2. i + Len(ops) \in 1 .. Len(s) /\ s[i + Len(ops)] = r[i]
      BY <1>1, <1>2
    <3>3. QED
      BY <3>1, <3>2 DEF FutureOf
  <2>3. QED
    BY <1>4, <2>1, <2>2
<1>5. ASSUME NEW v \in FutureOf(q, c)
      PROVE  v \in (IF StoreOf(Head(q), c) THEN {Head(q).val} ELSE {}) \cup FutureOf(r, c)
  <2>1. PICK i \in 1 .. Len(q) : StoreOf(q[i], c) /\ q[i].val = v
    BY <1>5 DEF FutureOf
  <2>2. CASE i = 1
    BY <1>1, <2>1, <2>2
  <2>3. CASE i > 1
    BY <1>2, <2>1, <2>3 DEF FutureOf
  <2>4. QED
    BY <1>1, <2>2, <2>3
<1>6. ASSUME NEW v, v \in (IF StoreOf(Head(q), c) THEN {Head(q).val} ELSE {}) \cup FutureOf(r, c)
      PROVE  v \in FutureOf(q, c)
  <2>1. CASE StoreOf(Head(q), c) /\ v = Head(q).val
    BY <1>1, <2>1 DEF FutureOf
  <2>2. CASE v \in FutureOf(r, c)
    BY <1>2, <2>2 DEF FutureOf
  <2>3. QED
    BY <1>6, <2>1, <2>2
<1>7. FutureOf(s, c) = FutureOf(ops, c) \cup FutureOf(r, c)
  BY <1>3, <1>4
<1>8. FutureOf(q, c) = (IF StoreOf(Head(q), c) THEN {Head(q).val} ELSE {}) \cup FutureOf(r, c)
  BY <1>5, <1>6
<1>9. QED
  BY <1>7, <1>8 DEF s, r

LEMMA FutureTail ==
    ASSUME NEW q \in Seq(Ops), q # <<>>, NEW c, ~StoreOf(Head(q), c)
    PROVE  FutureOf(<<>> \o Tail(q), c) = FutureOf(q, c)
<1>0. <<>> \in Seq(Ops)
  OBVIOUS
<1>1. PICK e \in Seq(Ops) : e = <<>>
  BY <1>0
<1>2. FutureOf(e \o Tail(q), c) = FutureOf(e, c) \cup FutureOf(Tail(q), c)
  BY FutureSplit
<1>3. FutureOf(q, c) = {} \cup FutureOf(Tail(q), c)
  <2>1. FutureOf(q, c) = (IF StoreOf(Head(q), c) THEN {Head(q).val} ELSE {})
                         \cup FutureOf(Tail(q), c)
    BY <1>1, FutureSplit
  <2>2. QED
    BY <2>1
<1>4. FutureOf(e, c) = {}
  BY <1>1, EmptyFuture
<1>5. QED
  BY <1>1, <1>2, <1>3, <1>4

LEMMA FutureStep ==
    ASSUME NEW t \in Threads, NEW c, NEW N,
           FutureOf(todo'[t], c) = FutureOf(todo[t], c) \cup N,
           \A u \in Threads : u # t => todo'[u] = todo[u]
    PROVE  Future(c)' = Future(c) \cup N
<1>1. \A u \in Threads : u # t => todo'[u] = todo[u]
  OBVIOUS
<1>2. Future(c)' = FutureOf(todo'["ui"], c) \cup FutureOf(todo'["reader"], c)
                   \cup FutureOf(todo'["loop"], c)
  BY DEF Future, FutureOf
<1>3. CASE t = "ui"
  BY <1>1, <1>2, <1>3 DEF Future, Threads
<1>4. CASE t = "reader"
  BY <1>1, <1>2, <1>4 DEF Future, Threads
<1>5. CASE t = "loop"
  BY <1>1, <1>2, <1>5 DEF Future, Threads
<1>6. QED
  BY <1>3, <1>4, <1>5 DEF Threads

LEMMA FutureSame ==
    ASSUME NEW t \in Threads, NEW c, FutureOf(todo'[t], c) = FutureOf(todo[t], c),
           \A u \in Threads : u # t => todo'[u] = todo[u]
    PROVE  Future(c)' = Future(c)
<1>1. FutureOf(todo'[t], c) = FutureOf(todo[t], c) \cup {}
  OBVIOUS
<1>2. Future(c)' = Future(c) \cup {}
  BY <1>1, FutureStep
<1>3. QED
  BY <1>2

(* What a list adds to the future is settled when nothing else is.         *)
LEMMA SettledWith ==
    ASSUME Single, UNCHANGED mem, NEW N,
           \A c \in Cells : Future(c)' = Future(c) \cup N[c],
           \A c \in Cells : N[c] = {} \/ (Future(c) = {} /\ \E v : N[c] = {v})
    PROVE  /\ Single'
           /\ \A c \in Cells : IF N[c] = {} THEN Settled'[c] = Settled[c]
                               ELSE N[c] = {Settled'[c]}
<1>1. ASSUME NEW c \in Cells
      PROVE  /\ \A v, w \in Future(c)' : v = w
             /\ IF N[c] = {} THEN Settled'[c] = Settled[c] ELSE N[c] = {Settled'[c]}
  <2>1. Settled'[c] = IF Future(c)' = {} THEN mem'[c] ELSE CHOOSE v \in Future(c)' : TRUE
    BY DEF Settled
  <2>2. CASE N[c] = {}
    <3>1. Future(c)' = Future(c)
      BY <2>2
    <3>2. Settled'[c] = Settled[c]
      BY <2>1, <3>1 DEF Settled
    <3>3. QED
      BY <2>2, <3>1, <3>2 DEF Single
  <2>3. CASE N[c] # {}
    <3>1. PICK v : N[c] = {v}
      BY <2>3
    <3>2. Future(c)' = {v}
      BY <2>3, <3>1
    <3>3. Settled'[c] = v
      BY <2>1, <3>2
    <3>4. QED
      BY <2>3, <3>1, <3>2, <3>3
  <2>4. QED
    BY <2>2, <2>3
<1>2. Single'
  BY <1>1 DEF Single
<1>3. QED
  BY <1>1, <1>2

LEMMA SettledSame ==
    ASSUME Single, UNCHANGED mem, \A c \in Cells : Future(c)' = Future(c)
    PROVE  Single' /\ Settled' = Settled
<1> DEFINE N == [c \in Cells |-> {}]
<1>1. \A c \in Cells : N[c] = {}
  OBVIOUS
<1> HIDE DEF N
<1>2. Single' /\ \A c \in Cells : Settled'[c] = Settled[c]
  BY <1>1, SettledWith
<1>3. QED
  BY <1>2 DEF Settled

LEMMA SettledStore ==
    ASSUME Typed, Single, NEW t \in Threads, ~Idle(t), NEW c \in Cells, NEW v,
           Head(todo[t]).op = "store", Head(todo[t]).cell = c, Head(todo[t]).val = v,
           todo' = [todo EXCEPT ![t] = <<>> \o Tail(todo[t])],
           mem' = [mem EXCEPT ![c] = v]
    PROVE  Single' /\ Settled' = Settled /\ Settled[c] = v /\ mem'[c] = v
<1> DEFINE q == todo[t]
           s == <<>> \o Tail(q)
<1>1. todo \in [Threads -> Seq(Ops)] /\ q \in Seq(Ops) /\ q # <<>> /\ mem \in [Cells -> Nat]
  BY DEF Typed, Idle
<1>2. \A d : /\ FutureOf(s, d) = FutureOf(Tail(q), d)
             /\ FutureOf(q, d) = (IF StoreOf(Head(q), d) THEN {v} ELSE {}) \cup FutureOf(Tail(q), d)
  BY <1>1, FutureSplit, EmptyStores, EmptyFuture
<1>3. ASSUME NEW d \in Cells, d # c
      PROVE  Future(d)' = Future(d) /\ Settled'[d] = Settled[d]
  <2>1. ~StoreOf(Head(q), d)
    BY <1>3 DEF StoreOf
  <2>2. FutureOf(s, d) = FutureOf(q, d) \cup {}
    BY <1>2, <2>1
  <2>6. todo'[t] = s /\ \A u \in Threads : u # t => todo'[u] = todo[u]
    BY <1>1
  <2> HIDE DEF s
  <2>3. Future(d)' = Future(d) \cup {}
    BY <2>2, <2>6, FutureStep
  <2>4. mem'[d] = mem[d]
    BY <1>1, <1>3
  <2>5. QED
    BY <2>3, <2>4 DEF Settled
<1>4. Future(c) = Future(c)' \cup {v}
  <2>1. StoreOf(Head(q), c)
    BY DEF StoreOf
  <2>2. FutureOf(q, c) = FutureOf(s, c) \cup {v}
    BY <1>2, <2>1
  <2>3. /\ todo'[t] = s /\ \A u \in Threads : u # t => todo'[u] = todo[u]
    BY <1>1
  <2>4. Future(c)' = FutureOf(todo'["ui"], c) \cup FutureOf(todo'["reader"], c)
                     \cup FutureOf(todo'["loop"], c)
    BY DEF Future, FutureOf
  <2> HIDE DEF s, q
  <2>5. todo[t] = q
    BY DEF q
  <2>6. CASE t = "ui"
    BY <2>2, <2>3, <2>4, <2>5, <2>6 DEF Future, Threads
  <2>7. CASE t = "reader"
    BY <2>2, <2>3, <2>4, <2>5, <2>7 DEF Future, Threads
  <2>8. CASE t = "loop"
    BY <2>2, <2>3, <2>4, <2>5, <2>8 DEF Future, Threads
  <2>9. QED
    BY <2>6, <2>7, <2>8 DEF Threads
<1>5. Future(c) = {v} /\ Settled[c] = v
  BY <1>4, SettledFacts DEF Single
<1>6. mem'[c] = v
  BY <1>1
<1>7. Settled'[c] = v
  <2>1. Settled'[c] = IF Future(c)' = {} THEN mem'[c] ELSE CHOOSE w \in Future(c)' : TRUE
    BY DEF Settled
  <2>2. Future(c)' = {} \/ Future(c)' = {v}
    BY <1>4, <1>5
  <2>3. QED
    BY <1>6, <2>1, <2>2
<1>8. \A d \in Cells : \A x, y \in Future(d)' : x = y
  BY <1>3, <1>4, <1>5 DEF Single
<1>9. \A d \in Cells : Settled'[d] = Settled[d]
  BY <1>3, <1>5, <1>7
<1>10. QED
  BY <1>5, <1>6, <1>8, <1>9 DEF Single, Settled

LEMMA SettledTypes ==
    ASSUME Typed, Single, NEW c \in Cells
    PROVE  Settled[c] \in Nat /\ Settled[c] \in Int /\ mem[c] \in Nat /\ mem[c] \in Int
<1>1. ASSUME NEW q \in Seq(Ops)
      PROVE  FutureOf(q, c) \subseteq Nat
  <2>1. \A a \in Ops : a.val \in Nat
    BY DEF Ops
  <2>2. \A i \in 1 .. Len(q) : q[i] \in Ops
    OBVIOUS
  <2>3. \A i \in 1 .. Len(q) : q[i].val \in Nat
    BY <2>1, <2>2
  <2>4. QED
    BY <2>3 DEF FutureOf
<1>2. Future(c) \subseteq Nat
  BY <1>1 DEF Typed, Future, Threads
<1>3. mem[c] \in Nat
  BY DEF Typed
<1>4. Settled[c] = mem[c] \/ Settled[c] \in Future(c)
  BY SettledFacts
<1>5. QED
  BY <1>2, <1>3, <1>4

(* An operation begins, when calm.                                         *)
LEMMA FutureNone ==
    ASSUME NEW q, NEW c, \A i \in 1 .. Len(q) : ~StoreOf(q[i], c)
    PROVE  FutureOf(q, c) = {}
BY DEF FutureOf

LEMMA FutureOne ==
    ASSUME NEW q, NEW c, NEW k \in 1 .. Len(q), StoreOf(q[k], c),
           \A i \in 1 .. Len(q) : StoreOf(q[i], c) => i = k
    PROVE  FutureOf(q, c) = {q[k].val}
BY DEF FutureOf

LEMMA RestSettled ==
    ASSUME AtRest, Single
    PROVE  (\A c \in Cells : Future(c) = {}) /\ \A c \in Cells : Settled[c] = mem[c]
<1>1. \A t \in Threads : todo[t] = <<>>
  BY DEF AtRest, Idle
<1>2. \A c \in Cells : Future(c) = {}
  BY <1>1, EmptyFuture DEF Future, Threads
<1>3. QED
  BY <1>2, SettledFacts

LEMMA BeginApart ==
    ASSUME Accesses, calm, Apart, NEW t \in Threads, NEW ops \in Seq(Ops), Begin(t, ops),
           \A i \in 1 .. Len(ops) : ops[i].op # "store",
           t # "loop" => Stepwise(ops), stream'.late = 0
    PROVE  /\ Apart' /\ Settled' = Settled /\ Idle("loop")
           /\ todo'[t] = ops /\ \A u \in Threads : u # t => todo'[u] = todo[u]
           /\ UNCHANGED <<calm, mem, reg, rtp>> /\ Idle(t)
           /\ t = "loop" => AtRest
<1>1. /\ todo \in [Threads -> Seq(Ops)] /\ todo' = [todo EXCEPT ![t] = ops]
      /\ UNCHANGED <<calm, mem, reg, rtp>> /\ todo[t] = <<>>
      /\ IF t = "loop" THEN \A u \in Threads : Idle(u) ELSE Idle("loop")
  BY DEF Accesses, Typed, Begin, Idle
<1>2. /\ todo'[t] = ops /\ \A u \in Threads : u # t => todo'[u] = todo[u]
  BY <1>1
<1>3. \A c \in Cells : Future(c)' = Future(c)
  <2>1. SUFFICES ASSUME NEW c \in Cells PROVE Future(c)' = Future(c)
    OBVIOUS
  <2>2. FutureOf(ops, c) = {} /\ FutureOf(todo[t], c) = {}
    BY <1>1, EmptyFuture, FutureNone DEF StoreOf
  <2>3. FutureOf(todo'[t], c) = FutureOf(todo[t], c)
    BY <1>2, <2>2
  <2>4. QED
    BY <1>2, <2>3, FutureSame
<1>4. Single' /\ Settled' = Settled
  BY <1>1, <1>3, SettledSame DEF Apart
<1>5. Idle("loop")
  BY <1>1 DEF Threads
<1>6. ~Idle("loop")' => Idle("ui")' /\ Idle("reader")'
  BY <1>1, <1>2, <1>5 DEF Idle, Threads
<1>7. Stepwise(todo'["ui"]) /\ Stepwise(todo'["reader"])
  BY <1>2 DEF Apart, Threads
<1>8. Apart'
  BY <1>1, <1>4, <1>6, <1>7 DEF Apart, Stepwise
<1>9. t = "loop" => AtRest
  BY <1>1 DEF AtRest
<1>10. QED
  BY <1>1, <1>2, <1>4, <1>5, <1>8, <1>9 DEF Idle

LEMMA WholeSame ==
    ASSUME NEW m, Whole(m), Accepting' <=> Accepting, UNCHANGED <<given, due>>,
           last'.target = last.target, last'.fragment = last.fragment
    PROVE  Whole(m)' /\ Answered' = Answered
BY DEF Whole, Answered, TargetSpan

LEMMA AnchoredSame ==
    ASSUME NEW m, Anchored(m), UNCHANGED <<stream, due, rtp>>, last'.target = last.target,
           todo'["reader"] = todo["reader"]
    PROVE  Anchored(m)' /\ Fresh(m)' = Fresh(m)
BY DEF Anchored, TargetSpan, Fresh, Idle

LEMMA UiReadCalm ==
    ASSUME Accesses, CalmQuiet, calm, UiRead
    PROVE  CalmQuiet'
<1> DEFINE q == ReadPosition
<1>1. /\ Begin("ui", q) /\ UNCHANGED <<stream, due, given, last, used>> /\ given # {}
  BY DEF UiRead
<1>2. /\ q \in Seq(Ops) /\ Len(q) = 6
      /\ q[1] = Load("start") /\ q[2] = Load("end") /\ q[3] = Load("pos")
      /\ q[4] = Load("pstart") /\ q[5] = Load("pend") /\ q[6] = Do("apply", 0)
  BY ReadList
<1> HIDE DEF q
<1>3. \A i \in 1 .. Len(q) : q[i].op # "store" /\ q[i].op # "track" /\ (q[i].op = "apply" => i = 6)
  BY <1>2 DEF Load, Do
<1>4. Stepwise(q)
  BY <1>2, <1>3 DEF Stepwise
<1>5. PICK m : m = Settled
  OBVIOUS
<1>6. Apart /\ Quiet(m)
  BY <1>1, <1>5 DEF CalmQuiet
<1>7. stream'.late = 0
  BY <1>1, <1>6 DEF Apart
<1>8. /\ Apart' /\ Settled' = m /\ todo'["ui"] = q
      /\ todo'["loop"] = todo["loop"] /\ todo'["reader"] = todo["reader"]
      /\ UNCHANGED <<calm, mem, reg, rtp>> /\ Idle("loop")
  BY <1>1, <1>2, <1>3, <1>4, <1>5, <1>6, <1>7, BeginApart DEF Threads
<1>9. Accepting' <=> Accepting
  BY <1>8 DEF Accepting
<1>10. Whole(m)' /\ Answered' = Answered
  BY <1>1, <1>6, <1>9, WholeSame DEF Quiet
<1>11. Anchored(m)' /\ Fresh(m)' = Fresh(m)
  BY <1>1, <1>6, <1>8, AnchoredSame DEF Quiet
<1>12. Forward(m)'
  BY <1>1, <1>3, <1>6, <1>8, <1>11 DEF Forward, Quiet, TargetSpan, Idle
<1>13. UiCalm(q, reg["ui"], mem)
  <2>1. \A c \in {"start", "end", "pos", "pstart", "pend"} : Will(q, 6, c)
    BY <1>2 DEF Will, LoadOf, Load
  <2>2. QED
    BY <1>3, <2>1 DEF UiCalm
<1>14. Quiet(m)'
  BY <1>1, <1>6, <1>8, <1>10, <1>11, <1>12, <1>13
     DEF Quiet, UiCalm, ReaderCalm, LoopCalm, Will, Applies
<1>15. QED
  BY <1>1, <1>8, <1>14 DEF CalmQuiet

LEMMA LoopBegins ==
    ASSUME Accesses, CalmQuiet, calm, given # {}, NEW ops \in Seq(Ops), Begin("loop", ops),
           ops # <<>>, \A i \in 1 .. Len(ops) : ops[i].op # "store", UNCHANGED stream,
           given' # {}, last'.target = last.target, NEW m, m = Settled,
           Whole(m)', due <= due', LoopCalm(ops, reg["loop"], mem, Answered')
    PROVE  CalmQuiet'
<1>1. Apart /\ Quiet(m)
  BY DEF CalmQuiet
<1>2. stream'.late = 0
  BY <1>1 DEF Apart
<1>3. /\ Apart' /\ Settled' = m /\ todo'["loop"] = ops /\ AtRest
      /\ todo'["ui"] = todo["ui"] /\ todo'["reader"] = todo["reader"]
      /\ UNCHANGED <<calm, mem, reg, rtp>>
  BY <1>1, <1>2, BeginApart DEF Threads
<1>4. todo["ui"] = <<>> /\ todo["reader"] = <<>>
  BY <1>3 DEF AtRest, Idle, Threads
<1>5. \A i \in 1 .. Len(<<>>) : FALSE
  BY EmptyStores
<1>6. Fresh(m)' = Fresh(m)
  BY <1>3 DEF Fresh
<1>7. Anchored(m)'
  BY <1>1, <1>3, <1>4, <1>5, <1>6 DEF Quiet, Anchored, TargetSpan, Idle
<1>8. Forward(m)'
  BY <1>3 DEF Forward, Idle
<1>9. UiCalm(todo'["ui"], reg'["ui"], mem')
  BY <1>3, <1>4, <1>5 DEF UiCalm
<1>10. ReaderCalm(todo'["reader"], reg'["reader"], mem', Fresh(m)', last'.target)
  BY <1>3, <1>4, <1>5 DEF ReaderCalm
<1>11. LoopCalm(todo'["loop"], reg'["loop"], mem', Answered')
  BY <1>3
<1>12. Quiet(m)'
  BY <1>7, <1>8, <1>9, <1>10, <1>11 DEF Quiet
<1>13. QED
  BY <1>3, <1>12 DEF CalmQuiet

LEMMA StopCalm ==
    ASSUME Accesses, CalmQuiet, calm, Stop
    PROVE  CalmQuiet'
<1>0. PICK q : q = ReadPosition \o <<Do("keep", 0)>>
  OBVIOUS
<1>1. /\ Begin("loop", q) /\ UNCHANGED <<stream, due, given, last>> /\ given # {}
      /\ Idle("loop") /\ todo' = [todo EXCEPT !["loop"] = q]
  BY <1>0 DEF Stop, Begin
<1>2. /\ q \in Seq(Ops) /\ Len(q) = 7
      /\ q[1] = Load("start") /\ q[2] = Load("end") /\ q[3] = Load("pos")
      /\ q[4] = Load("pstart") /\ q[5] = Load("pend") /\ q[6] = Do("apply", 0)
      /\ q[7] = Do("keep", 0)
  BY <1>0, StopList
<1>3. \A i \in 1 .. Len(q) : /\ q[i].op \notin {"store", "accept"}
                             /\ q[i].op = "apply" => i = 6
                             /\ q[i].op = "keep" => i = 7
  BY <1>2 DEF Load, Do
<1>4. q # <<>>
  BY <1>2
<1>5. PICK m : m = Settled
  OBVIOUS
<1>6. Quiet(m)
  BY <1>1, <1>5 DEF CalmQuiet
<1>7. ~Accepting /\ ~Accepting'
  <2>1. todo'["loop"] = q
    BY <1>1 DEF Accesses, Typed, Threads
  <2>2. ~Accepting'
    BY <1>3, <2>1 DEF Accepting
  <2>3. ~Accepting
    BY <1>1, EmptyStores DEF Accepting, Idle
  <2>4. QED
    BY <2>2, <2>3
<1>8. Whole(m)'
  BY <1>1, <1>6, <1>7, WholeSame DEF Quiet
<1>9. LoopCalm(q, reg["loop"], mem, Answered')
  <2>1. \A c \in {"start", "end", "pos", "pstart", "pend"} : Will(q, 6, c)
    BY <1>2 DEF Will, LoadOf, Load
  <2>2. Applies(q, 7)
    BY <1>2 DEF Applies, Do
  <2>3. QED
    BY <1>3, <2>1, <2>2 DEF LoopCalm, StoreOf
<1>10. due <= due' /\ last'.target = last.target
  BY <1>1, ConstantsAssumption DEF Accesses, Content, Instants
<1>11. given' # {} /\ \A i \in 1 .. Len(q) : q[i].op # "store"
  BY <1>1, <1>3
<1>12. QED
  BY <1>1, <1>2, <1>4, <1>5, <1>8, <1>9, <1>10, <1>11, LoopBegins

LEMMA ResumeCalm ==
    ASSUME Accesses, CalmQuiet, calm, Resume
    PROVE  CalmQuiet'
<1>0. PICK q : q = ReadPosition
  OBVIOUS
<1>1. /\ Begin("loop", q) /\ UNCHANGED <<stream, due, given, last>> /\ given # {}
      /\ Idle("loop") /\ todo' = [todo EXCEPT !["loop"] = q]
  BY <1>0 DEF Resume, Begin
<1>2. /\ q \in Seq(Ops) /\ Len(q) = 6
      /\ q[1] = Load("start") /\ q[2] = Load("end") /\ q[3] = Load("pos")
      /\ q[4] = Load("pstart") /\ q[5] = Load("pend") /\ q[6] = Do("apply", 0)
  BY <1>0, ReadList
<1>3. \A i \in 1 .. Len(q) : /\ q[i].op \notin {"store", "accept", "keep"}
                             /\ q[i].op = "apply" => i = 6
  BY <1>2 DEF Load, Do
<1>4. q # <<>>
  BY <1>2
<1>5. PICK m : m = Settled
  OBVIOUS
<1>6. Quiet(m)
  BY <1>1, <1>5 DEF CalmQuiet
<1>7. ~Accepting /\ ~Accepting'
  <2>1. todo'["loop"] = q
    BY <1>1 DEF Accesses, Typed, Threads
  <2>2. ~Accepting'
    BY <1>3, <2>1 DEF Accepting
  <2>3. ~Accepting
    BY <1>1, EmptyStores DEF Accepting, Idle
  <2>4. QED
    BY <2>2, <2>3
<1>8. Whole(m)'
  BY <1>1, <1>6, <1>7, WholeSame DEF Quiet
<1>9. LoopCalm(q, reg["loop"], mem, Answered')
  <2>1. \A c \in {"start", "end", "pos", "pstart", "pend"} : Will(q, 6, c)
    BY <1>2 DEF Will, LoadOf, Load
  <2>2. QED
    BY <1>3, <2>1 DEF LoopCalm, StoreOf
<1>10. due <= due' /\ last'.target = last.target
  BY <1>1, ConstantsAssumption DEF Accesses, Content, Instants
<1>11. given' # {} /\ \A i \in 1 .. Len(q) : q[i].op # "store"
  BY <1>1, <1>3
<1>12. QED
  BY <1>1, <1>2, <1>4, <1>5, <1>8, <1>9, <1>10, <1>11, LoopBegins

LEMMA ReceiveCalm ==
    ASSUME Accesses, CalmQuiet, calm, Receive
    PROVE  CalmQuiet'
<1>0. PICK q : q = ReadPosition \o <<Load("start"), Load("end"), Do("accept", due)>>
  OBVIOUS
<1> DEFINE f == Interval(due, due + Fragment)
<1>1. /\ Begin("loop", q) /\ UNCHANGED stream
      /\ Idle("loop") /\ todo' = [todo EXCEPT !["loop"] = q]
      /\ due # 0 /\ given' = given \cup {f} /\ due' = f.end
      /\ last' = [last EXCEPT !.fragment = f]
  BY <1>0 DEF Receive, Begin
<1>2. due \in Nat /\ Fragment \in Nat /\ due' = due + Fragment /\ due <= due'
  BY <1>1, ConstantsAssumption DEF Accesses, Content, Instants, Interval
<1>3. /\ q \in Seq(Ops) /\ Len(q) = 9
      /\ q[1] = Load("start") /\ q[2] = Load("end") /\ q[3] = Load("pos")
      /\ q[4] = Load("pstart") /\ q[5] = Load("pend") /\ q[6] = Do("apply", 0)
      /\ q[7] = Load("start") /\ q[8] = Load("end") /\ q[9] = Do("accept", due)
  BY <1>0, <1>2, ReceiveList
<1>4. \A i \in 1 .. Len(q) : /\ q[i].op \notin {"store", "keep"}
                             /\ q[i].op = "apply" => i = 6
                             /\ q[i].op = "accept" => i = 9
  BY <1>3 DEF Load, Do
<1>5. q # <<>>
  <2>1. Len(q) # Len(<<>>)
    BY <1>3
  <2>2. QED
    BY <2>1
<1>6. given # {}
  BY <1>1 DEF Accesses, Content
<1>7. PICK m : m = Settled
  OBVIOUS
<1>8. Quiet(m)
  BY <1>6, <1>7 DEF CalmQuiet
<1>9. ~Accepting /\ Accepting'
  <2>1. todo'["loop"] = q
    BY <1>1, <1>3 DEF Accesses, Typed, Threads
  <2>2. Accepting'
    <3>1. 9 \in 1 .. Len(q) /\ q[9].op = "accept"
      BY <1>3 DEF Do
    <3>2. QED
      BY <2>1, <3>1 DEF Accepting
  <2>3. ~Accepting
    BY <1>1, EmptyStores DEF Accepting, Idle
  <2>4. QED
    BY <2>2, <2>3
<1>10. Answered = due /\ Answered' = due
  BY <1>2, <1>9 DEF Answered
<1>11. last'.target = last.target /\ last'.fragment = f
  BY <1>1 DEF Accesses, Typed
<1>12. Whole(m)'
  <2>1. Whole(m)
    BY <1>8 DEF Quiet
  <2>2. last'.fragment = Interval(Answered', due')
    BY <1>2, <1>10, <1>11
  <2>3. QED
    BY <1>1, <1>9, <1>10, <1>11, <2>1, <2>2 DEF Whole, TargetSpan
<1>13. LoopCalm(q, reg["loop"], mem, Answered')
  <2>1. \A c \in {"start", "end", "pos", "pstart", "pend"} : Will(q, 6, c)
    BY <1>3 DEF Will, LoadOf, Load
  <2>2. Applies(q, 9) /\ q[9].val = Answered'
    BY <1>3, <1>10 DEF Applies, Do
  <2>3. QED
    BY <1>4, <2>1, <2>2 DEF LoopCalm, StoreOf
<1>14. \A i \in 1 .. Len(q) : q[i].op # "store"
  BY <1>4
<1>15. given' # {}
  BY <1>1
<1>16. QED
  BY <1>1, <1>2, <1>3, <1>5, <1>6, <1>7, <1>11, <1>12, <1>13, <1>14, <1>15, LoopBegins

LEMMA PacketCalm ==
    ASSUME Accesses, CalmQuiet, calm, Packet
    PROVE  CalmQuiet'
<1>1. /\ Apart /\ stream.late = 0 /\ UNCHANGED <<due, given>>
      /\ stream.next # 0 /\ stream.next < due
      /\ Begin("reader", <<Load("start"), Load("end"), Load("gen"), Do("track", stream.next)>>)
      /\ stream' = [next |-> stream.next + 1, late |-> 0]
      /\ last' = [last EXCEPT !.only = FALSE]
  BY DEF Packet, CalmQuiet, Apart
<1>2. /\ stream.next \in Nat /\ due \in Nat /\ given # {} /\ last.target \in Nat
      /\ last.target <= stream.next
  BY <1>1, ConstantsAssumption DEF Accesses, Content, Instants
<1>3. PICK c \in Nat : c = stream.next
  BY <1>2
<1>4. PICK q : q = <<Load("start"), Load("end"), Load("gen"), Do("track", c)>>
  OBVIOUS
<1>5. /\ q \in Seq(Ops) /\ Len(q) = 4
      /\ q[1] = Load("start") /\ q[2] = Load("end") /\ q[3] = Load("gen")
      /\ q[4] = Do("track", c)
  BY <1>4, PacketList
<1>6. \A i \in 1 .. Len(q) : q[i].op # "store" /\ q[i].op # "apply" /\ (q[i].op = "track" => i = 4)
  BY <1>5 DEF Load, Do
<1>7. Stepwise(q) /\ 4 \in 1 .. Len(q) /\ q[4].op = "track" /\ q[4].val = c
  BY <1>5, <1>6 DEF Stepwise, Do
<1>8. PICK m : m = Settled
  OBVIOUS
<1>9. Quiet(m)
  BY <1>2, <1>8 DEF CalmQuiet
<1>10. /\ Apart' /\ Settled' = m /\ todo'["reader"] = q /\ Idle("reader")
       /\ todo'["loop"] = todo["loop"] /\ todo'["ui"] = todo["ui"]
       /\ UNCHANGED <<calm, mem, reg, rtp>>
  <2>1. stream'.late = 0 /\ Begin("reader", q)
    BY <1>1, <1>3, <1>4
  <2>2. QED
    BY <1>1, <1>5, <1>6, <1>7, <1>8, <2>1, BeginApart DEF Threads
<1>11. last'.target = last.target /\ last'.fragment = last.fragment
  BY <1>1
<1>12. Accepting' <=> Accepting
  BY <1>10 DEF Accepting
<1>13. Whole(m)' /\ Answered' = Answered
  BY <1>1, <1>9, <1>11, <1>12, WholeSame DEF Quiet
<1>14. Fresh(m)' = Fresh(m) /\ TargetSpan' = TargetSpan
  BY <1>10, <1>11 DEF Fresh, TargetSpan
<1>15. \A i \in 1 .. Len(todo["reader"]) : FALSE
  BY <1>10, EmptyStores DEF Idle
<1>16. Anchored(m)'
  <2>1. m["pos"] <= stream.next /\ stream'.next = stream.next + 1 /\ Anchored(m)
    BY <1>1, <1>9 DEF Quiet, Anchored
  <2>2. m["pos"] = Settled["pos"] /\ Settled["pos"] \in Int
    BY <1>1, <1>8, SettledTypes DEF Accesses, Apart, Cells
  <2>3. m["pos"] <= stream'.next
    BY <1>2, <2>1, <2>2
  <2>4. ASSUME NEW i \in 1 .. Len(q), q[i].op = "track"
        PROVE  m["pos"] <= q[i].val /\ q[i].val < due /\ q[i].val < stream'.next
    BY <1>1, <1>2, <1>3, <1>6, <1>7, <2>1, <2>4
  <2>5. ASSUME Fresh(m)
        PROVE  /\ m["pos"] = last.target /\ SpanOf(m) = TargetSpan
               /\ \E i \in 1 .. Len(q) : q[i].op = "track" /\ q[i].val = last.target
    <3>1. m["pos"] = last.target /\ SpanOf(m) = TargetSpan /\ stream.next = last.target
      BY <1>15, <2>1, <2>5 DEF Anchored
    <3>2. QED
      BY <1>3, <1>7, <3>1
  <2>6. ~Fresh(m) => rtp.anchored /\ rtp.real = rtp.ref
    BY <2>1 DEF Anchored
  <2>7. QED
    BY <1>1, <1>10, <1>11, <1>14, <2>3, <2>4, <2>5, <2>6 DEF Anchored
<1>17. Forward(m)'
  BY <1>6, <1>9, <1>10, <1>14 DEF Forward, Quiet, Idle
<1>18. ReaderCalm(q, reg["reader"], mem, Fresh(m), last.target)
  <2>1. \A c1 \in {"start", "end", "gen"} : Will(q, 4, c1)
    BY <1>5 DEF Will, LoadOf, Load
  <2>2. QED
    BY <1>6, <2>1 DEF ReaderCalm
<1>19. UiCalm(todo'["ui"], reg'["ui"], mem')
  BY <1>9, <1>10 DEF Quiet
<1>20. ReaderCalm(todo'["reader"], reg'["reader"], mem', Fresh(m)', last'.target)
  BY <1>10, <1>11, <1>14, <1>18
<1>21. LoopCalm(todo'["loop"], reg'["loop"], mem', Answered')
  BY <1>9, <1>10, <1>13 DEF Quiet
<1>22. Quiet(m)'
  BY <1>13, <1>16, <1>17, <1>19, <1>20, <1>21 DEF Quiet
<1>23. QED
  BY <1>1, <1>2, <1>10, <1>22 DEF CalmQuiet

LEMMA SeekCalm ==
    ASSUME Accesses, CalmQuiet, calm, NEW t \in Targets, Seek(t)
    PROVE  CalmQuiet'
<1>0. PICK q : q = SeekStores(t)
  OBVIOUS
<1> DEFINE f == Interval(t, t + Fragment)
<1>1. /\ Begin("loop", q) /\ Idle("loop") /\ \A u \in Threads : Idle(u)
      /\ UNCHANGED <<calm, mem, reg, rtp>> /\ todo' = [todo EXCEPT !["loop"] = q]
      /\ given' = given \cup {f} /\ due' = t
      /\ stream' = [next |-> t, late |-> 0]
      /\ last' = [target |-> t, only |-> TRUE, fragment |-> f]
  BY <1>0 DEF Seek, Begin
<1>2. t \in Nat /\ t # 0 /\ Fragment \in Nat /\ mem["gen"] \in Nat /\ rtp.gen \in Nat
  <2>1. t \in 1 .. End
    BY ConstantsAssumption
  <2>2. mem["gen"] \in Nat /\ rtp.gen \in Nat
    BY DEF Accesses, Typed, Cells
  <2>3. QED
    BY <2>1, <2>2, ConstantsAssumption
<1>3. /\ q \in Seq(Ops) /\ Len(q) = 6
      /\ q[1] = Store("start", t) /\ q[2] = Store("end", t + Fragment)
      /\ q[3] = Store("pos", t) /\ q[4] = Store("pstart", 0)
      /\ q[5] = Store("pend", 0) /\ q[6] = Store("gen", mem["gen"] + 1)
  BY <1>0, <1>2, SeekList
<1>4. \A i \in 1 .. Len(q) : q[i].op = "store"
  BY <1>3 DEF Store
<1>5. /\ FutureOf(q, "start") = {t} /\ FutureOf(q, "end") = {t + Fragment}
      /\ FutureOf(q, "pos") = {t} /\ FutureOf(q, "pstart") = {0} /\ FutureOf(q, "pend") = {0}
      /\ FutureOf(q, "gen") = {mem["gen"] + 1}
  <2>1. /\ \A i \in 1 .. Len(q) : StoreOf(q[i], "start") <=> i = 1
        /\ \A i \in 1 .. Len(q) : StoreOf(q[i], "end") <=> i = 2
        /\ \A i \in 1 .. Len(q) : StoreOf(q[i], "pos") <=> i = 3
    BY <1>3 DEF StoreOf, Store
  <2>2. /\ \A i \in 1 .. Len(q) : StoreOf(q[i], "pstart") <=> i = 4
        /\ \A i \in 1 .. Len(q) : StoreOf(q[i], "pend") <=> i = 5
        /\ \A i \in 1 .. Len(q) : StoreOf(q[i], "gen") <=> i = 6
    BY <1>3 DEF StoreOf, Store
  <2>3. /\ q[1].val = t /\ q[2].val = t + Fragment /\ q[3].val = t
        /\ q[4].val = 0 /\ q[5].val = 0 /\ q[6].val = mem["gen"] + 1
    BY <1>3 DEF Store
  <2>4. \A i \in {1, 2, 3, 4, 5, 6} : i \in 1 .. Len(q)
    BY <1>3
  <2>5. FutureOf(q, "start") = {q[1].val} /\ FutureOf(q, "end") = {q[2].val}
    BY <2>1, <2>4, FutureOne
  <2>6. FutureOf(q, "pos") = {q[3].val} /\ FutureOf(q, "pstart") = {q[4].val}
    BY <2>1, <2>2, <2>4, FutureOne
  <2>7. FutureOf(q, "pend") = {q[5].val} /\ FutureOf(q, "gen") = {q[6].val}
    BY <2>2, <2>4, FutureOne
  <2>8. QED
    BY <2>3, <2>5, <2>6, <2>7
<1>6. AtRest /\ Apart
  BY <1>1 DEF AtRest, CalmQuiet
<1>7. (\A c \in Cells : Future(c) = {}) /\ \A c \in Cells : Settled[c] = mem[c]
  BY <1>6, RestSettled DEF Apart
<1>8. /\ todo'["loop"] = q /\ todo'["ui"] = todo["ui"] /\ todo'["reader"] = todo["reader"]
      /\ todo["ui"] = <<>> /\ todo["reader"] = <<>> /\ todo["loop"] = <<>>
  BY <1>1 DEF Accesses, Typed, Threads, Idle
<1> DEFINE N == [c \in Cells |-> FutureOf(q, c)]
<1>9. \A c \in Cells : N[c] = FutureOf(q, c) /\ \E v : N[c] = {v}
  BY <1>5 DEF Cells
<1>10. \A c \in Cells : Future(c)' = Future(c) \cup N[c]
  <2>1. SUFFICES ASSUME NEW c \in Cells PROVE Future(c)' = N[c]
    BY <1>7
  <2>2. Future(c)' = FutureOf(todo'["ui"], c) \cup FutureOf(todo'["reader"], c)
                     \cup FutureOf(todo'["loop"], c)
    BY DEF Future, FutureOf
  <2>3. QED
    BY <1>8, <2>2, EmptyFuture
<1> HIDE DEF N
<1>11. Single' /\ \A c \in Cells : IF N[c] = {} THEN Settled'[c] = Settled[c]
                                   ELSE N[c] = {Settled'[c]}
  BY <1>1, <1>6, <1>7, <1>9, <1>10, SettledWith DEF Apart
<1>12. PICK n : n = Settled'
  OBVIOUS
<1>13. /\ n["start"] = t /\ n["end"] = t + Fragment /\ n["pos"] = t
       /\ n["pstart"] = 0 /\ n["pend"] = 0 /\ n["gen"] = mem["gen"] + 1
  BY <1>5, <1>9, <1>11, <1>12 DEF Cells
<1>14. \A i \in 1 .. Len(<<>>) : FALSE
  BY EmptyStores
<1>15. Apart'
  <2>1. rtp.gen <= mem["gen"] /\ rtp'.gen <= mem'["gen"] /\ rtp'.gen <= Settled'["gen"]
    BY <1>1, <1>2, <1>6, <1>12, <1>13 DEF Apart
  <2>2. Idle("ui")' /\ Idle("reader")'
    BY <1>8 DEF Idle
  <2>3. Stepwise(todo'["ui"]) /\ Stepwise(todo'["reader"])
    BY <1>8, <1>14 DEF Stepwise
  <2>4. QED
    BY <1>1, <1>11, <2>1, <2>2, <2>3 DEF Apart, Stepwise
<1>16. ~Accepting'
  BY <1>4, <1>8 DEF Accepting
<1>17. Answered' = t /\ last'.target = t /\ last'.fragment = f /\ TargetSpan' = f
  BY <1>1, <1>16 DEF Answered, TargetSpan
<1>18. SpanOf(n) = f /\ PendingOf(n) = NoFragment
  BY <1>13 DEF SpanOf, PendingOf, NoFragment
<1>19. Whole(n)'
  BY <1>1, <1>2, <1>13, <1>16, <1>17, <1>18 DEF Whole
<1>20. Fresh(n)'
  BY <1>1, <1>2, <1>6, <1>13 DEF Fresh, Apart
<1>21. Anchored(n)'
  <2>1. Idle("reader")' /\ stream'.next = t
    BY <1>1, <1>8 DEF Idle
  <2>2. QED
    BY <1>2, <1>8, <1>13, <1>14, <1>17, <1>18, <1>20, <2>1 DEF Anchored
<1>22. Forward(n)'
  <2>1. todo'["loop"] # <<>>
    <3>1. Len(q) # Len(<<>>)
      BY <1>3
    <3>2. QED
      BY <1>8, <3>1
  <2>2. QED
    BY <2>1 DEF Forward, Idle
<1>23. UiCalm(todo'["ui"], reg'["ui"], mem')
  BY <1>8, <1>14 DEF UiCalm
<1>24. ReaderCalm(todo'["reader"], reg'["reader"], mem', Fresh(n)', last'.target)
  BY <1>8, <1>14 DEF ReaderCalm
<1>25. LoopCalm(todo'["loop"], reg'["loop"], mem', Answered')
  BY <1>4, <1>8 DEF LoopCalm
<1>26. Quiet(n)'
  BY <1>19, <1>21, <1>22, <1>23, <1>24, <1>25 DEF Quiet
<1>27. QED
  BY <1>1, <1>12, <1>15, <1>26 DEF CalmQuiet

(* An access, when calm.                                                   *)
LEMMA CalmAccess ==
    ASSUME Accesses, CalmQuiet, calm, NEW t \in Threads, Access(t)
    PROVE  /\ given # {} /\ Apart /\ \A m \in {Settled} : Quiet(m)
           /\ UNCHANGED <<calm, stream, due, given, last, used>> /\ ~Idle(t)
           /\ t = "loop" => todo["ui"] = <<>> /\ todo["reader"] = <<>>
           /\ t # "loop" => todo["loop"] = <<>>
<1>1. ~Idle(t) /\ UNCHANGED <<calm, stream, due, given, last, used>>
  BY DEF Access
<1>2. given # {}
  BY <1>1 DEF CalmQuiet, AtRest
<1>3. Apart /\ \A m \in {Settled} : Quiet(m)
  BY <1>2 DEF CalmQuiet
<1>4. t = "loop" => todo["ui"] = <<>> /\ todo["reader"] = <<>>
  BY <1>1, <1>3 DEF Apart, Idle
<1>5. t # "loop" => todo["loop"] = <<>>
  BY <1>1, <1>3 DEF Apart, Idle, Threads
<1>6. QED
  BY <1>1, <1>2, <1>3, <1>4, <1>5

LEMMA ApartNext ==
    ASSUME Accesses, Apart, NEW t \in Threads, ~Idle(t), NEW s,
           todo' = [todo EXCEPT ![t] = s], Single', UNCHANGED stream,
           rtp'.gen <= mem'["gen"], rtp'.gen <= Settled'["gen"],
           t # "loop" => Stepwise(s)
    PROVE  Apart'
<1>1. todo'[t] = s /\ \A u \in Threads : u # t => todo'[u] = todo[u]
  BY DEF Accesses, Typed
<1>2. ~Idle("loop")' => Idle("ui")' /\ Idle("reader")'
  BY <1>1 DEF Apart, Idle, Threads
<1>3. Stepwise(todo'["ui"]) /\ Stepwise(todo'["reader"])
  BY <1>1 DEF Apart, Threads
<1>4. QED
  BY <1>2, <1>3 DEF Apart, Stepwise

LEMMA StepwiseTail ==
    ASSUME NEW q \in Seq(Ops), q # <<>>, Stepwise(q)
    PROVE  Stepwise(<<>> \o Tail(q))
<1> DEFINE s == <<>> \o Tail(q)
<1>1. /\ Len(s) = Len(q) - 1 /\ Len(q) \in Nat /\ Len(s) \in Nat
      /\ \A i \in 1 .. Len(s) : i + 1 \in 1 .. Len(q) /\ s[i] = q[i + 1]
  BY Left
<1> HIDE DEF s
<1>2. ASSUME NEW i \in 1 .. Len(s), NEW j \in 1 .. Len(s)
      PROVE  /\ s[i].op = "store" => s[j].op = "store"
             /\ s[i].op \in {"apply", "track"} => i = Len(s)
  <2>1. i + 1 \in 1 .. Len(q) /\ j + 1 \in 1 .. Len(q) /\ s[i] = q[i + 1] /\ s[j] = q[j + 1]
    BY <1>1
  <2>2. /\ q[i + 1].op = "store" => q[j + 1].op = "store"
        /\ q[i + 1].op \in {"apply", "track"} => i + 1 = Len(q)
    BY <2>1 DEF Stepwise
  <2>3. QED
    BY <1>1, <2>1, <2>2
<1>3. Stepwise(s)
  BY <1>2 DEF Stepwise
<1>4. QED
  BY <1>3 DEF s

LEMMA WillTail ==
    ASSUME NEW q \in Seq(Ops), q # <<>>, NEW i \in 1 .. Len(<<>> \o Tail(q)), NEW c,
           Will(q, i + 1, c)
    PROVE  LoadOf(Head(q), c) \/ Will(<<>> \o Tail(q), i, c)
<1> DEFINE s == <<>> \o Tail(q)
<1>1. /\ Len(s) = Len(q) - 1 /\ Len(q) \in Nat /\ Len(s) \in Nat /\ Head(q) = q[1]
      /\ \A k \in 1 .. Len(q) : k > 1 => k - 1 \in 1 .. Len(s) /\ s[k - 1] = q[k]
  BY Left
<1> HIDE DEF s
<1>2. i \in 1 .. Len(s)
  BY DEF s
<1>3. PICK j \in 1 .. i : LoadOf(q[j], c)
  <2>1. (i + 1) - 1 = i
    BY <1>2
  <2>2. QED
    BY <2>1 DEF Will
<1>4. CASE j = 1
  BY <1>1, <1>3, <1>4
<1>5. CASE j > 1
  <2>1. j \in 1 .. Len(q) /\ j - 1 \in 1 .. (i - 1)
    BY <1>1, <1>2, <1>5
  <2>2. s[j - 1] = q[j]
    BY <1>1, <1>5, <2>1
  <2>3. Will(s, i, c)
    BY <1>3, <2>1, <2>2 DEF Will
  <2>4. QED
    BY <2>3 DEF s
<1>6. QED
  BY <1>1, <1>2, <1>3, <1>4, <1>5

(* What is left after a load is as calm as before.                         *)
LEMMA LoadedCalm ==
    ASSUME NEW q \in Seq(Ops), q # <<>>, Head(q).op = "load", Head(q).cell \in Cells,
           NEW r \in [Registry -> Nat], NEW a, NEW n,
           Len(q) > 1 => n = [r EXCEPT ![Head(q).cell] = a[Head(q).cell]]
    PROVE  /\ UiCalm(q, r, a) /\ a["start"] <= a["pos"] /\ a["pos"] <= a["pos"]
                 => UiCalm(<<>> \o Tail(q), n, a)
           /\ \A answered : LoopCalm(q, r, a, answered)
                 => LoopCalm(<<>> \o Tail(q), n, a, answered)
<1> DEFINE s == <<>> \o Tail(q)
           c == Head(q).cell
<1>1. /\ Len(s) = Len(q) - 1 /\ Len(q) \in Nat /\ Len(s) \in Nat
      /\ \A i \in 1 .. Len(s) : i + 1 \in 1 .. Len(q) /\ s[i] = q[i + 1]
      /\ Head(q) = q[1]
  BY Left
<1>2. \A i \in 1 .. Len(s) : \A d : Will(q, i + 1, d) => d = c \/ Will(s, i, d)
  BY WillTail DEF LoadOf
<1> HIDE DEF s, c
<1>3. ASSUME NEW i \in 1 .. Len(s)
      PROVE  n[c] = a[c] /\ \A d \in Registry : d # c => n[d] = r[d]
  BY <1>1, <1>3 DEF Registry, c
<1>4. ASSUME UiCalm(q, r, a), a["start"] <= a["pos"], a["pos"] <= a["pos"]
      PROVE  UiCalm(s, n, a)
  <2>1. SUFFICES ASSUME NEW i \in 1 .. Len(s), s[i].op = "apply"
                 PROVE  /\ \A d \in {"start", "end", "pstart", "pend"} :
                              n[d] = a[d] \/ Will(s, i, d)
                        /\ (a["start"] <= n["pos"] /\ n["pos"] <= a["pos"]) \/ Will(s, i, "pos")
    BY DEF UiCalm
  <2>2. /\ \A d \in {"start", "end", "pstart", "pend"} : r[d] = a[d] \/ Will(q, i + 1, d)
        /\ (a["start"] <= r["pos"] /\ r["pos"] <= a["pos"]) \/ Will(q, i + 1, "pos")
    BY <1>1, <1>4, <2>1 DEF UiCalm
  <2>3. \A d \in {"start", "end", "pstart", "pend"} : n[d] = a[d] \/ Will(s, i, d)
    BY <1>2, <1>3, <2>2 DEF Registry, Cells
  <2>4. (a["start"] <= n["pos"] /\ n["pos"] <= a["pos"]) \/ Will(s, i, "pos")
    BY <1>2, <1>3, <1>4, <2>2 DEF Registry, Cells
  <2>5. QED
    BY <2>3, <2>4
<1>6. ASSUME NEW answered, LoopCalm(q, r, a, answered)
      PROVE  LoopCalm(s, n, a, answered)
  <2>1. SUFFICES ASSUME NEW i \in 1 .. Len(s)
                 PROVE  /\ s[i].op = "apply" =>
                              /\ \A d \in {"start", "end", "pos", "pstart", "pend"} :
                                    n[d] = a[d] \/ Will(s, i, d)
                              /\ \A j \in 1 .. Len(s) : s[j].op # "store"
                        /\ s[i].op \in {"accept", "keep"} =>
                              /\ n["result"] = a["pos"] \/ Applies(s, i)
                              /\ \A j \in 1 .. Len(s) : ~StoreOf(s[j], "pos")
                        /\ s[i].op = "accept" => s[i].val = answered
    BY DEF LoopCalm
  <2>2. /\ q[i + 1].op = "apply" =>
              /\ \A d \in {"start", "end", "pos", "pstart", "pend"} :
                    r[d] = a[d] \/ Will(q, i + 1, d)
              /\ \A j \in 1 .. Len(q) : q[j].op # "store"
        /\ q[i + 1].op \in {"accept", "keep"} =>
              /\ r["result"] = a["pos"] \/ Applies(q, i + 1)
              /\ \A j \in 1 .. Len(q) : ~StoreOf(q[j], "pos")
        /\ q[i + 1].op = "accept" => q[i + 1].val = answered
    BY <1>1, <1>6 DEF LoopCalm
  <2>3. s[i].op = "apply" =>
           /\ \A d \in {"start", "end", "pos", "pstart", "pend"} : n[d] = a[d] \/ Will(s, i, d)
           /\ \A j \in 1 .. Len(s) : s[j].op # "store"
    BY <1>1, <1>2, <1>3, <2>2 DEF Registry, Cells
  <2>4. s[i].op \in {"accept", "keep"} => \A j \in 1 .. Len(s) : ~StoreOf(s[j], "pos")
    BY <1>1, <2>2
  <2>5. s[i].op \in {"accept", "keep"} => n["result"] = a["pos"] \/ Applies(s, i)
    <3>1. n["result"] = r["result"]
      BY <1>3 DEF Registry, Cells, c
    <3>2. ASSUME Applies(q, i + 1)
          PROVE  Applies(s, i)
      <4>1. PICK j \in 1 .. i : q[j].op = "apply"
        <5>1. (i + 1) - 1 = i
          OBVIOUS
        <5>2. QED
          BY <3>2, <5>1 DEF Applies
      <4>2. j # 1 /\ j \in 1 .. Len(q)
        BY <1>1, <4>1
      <4>3. j - 1 \in 1 .. (i - 1) /\ j - 1 \in 1 .. Len(s) /\ s[j - 1] = q[j]
        BY <1>1, <4>1, <4>2
      <4>4. QED
        BY <4>1, <4>3 DEF Applies
    <3>3. QED
      BY <1>1, <2>2, <3>1, <3>2
  <2>6. s[i].op = "accept" => s[i].val = answered
    BY <1>1, <2>2
  <2>7. QED
    BY <2>3, <2>4, <2>5, <2>6
<1>7. QED
  BY <1>4, <1>6 DEF s

LEMMA LoadedReader ==
    ASSUME NEW q \in Seq(Ops), q # <<>>, Head(q).op = "load", Head(q).cell \in Cells,
           NEW r \in [Registry -> Nat], NEW a, NEW n,
           Len(q) > 1 => n = [r EXCEPT ![Head(q).cell] = a[Head(q).cell]],
           NEW fresh \in BOOLEAN, NEW target, ReaderCalm(q, r, a, fresh, target),
           a["start"] <= a["pos"], a["pos"] <= a["end"], a["end"] <= a["end"],
           fresh => a["start"] = target /\ a["end"] = target + Fragment
    PROVE  ReaderCalm(<<>> \o Tail(q), n, a, fresh, target)
<1> DEFINE s == <<>> \o Tail(q)
           c == Head(q).cell
<1>1. /\ Len(s) = Len(q) - 1 /\ Len(q) \in Nat /\ Len(s) \in Nat
      /\ \A i \in 1 .. Len(s) : i + 1 \in 1 .. Len(q) /\ s[i] = q[i + 1]
      /\ Head(q) = q[1]
  BY Left
<1>2. \A i \in 1 .. Len(s) : \A d : Will(q, i + 1, d) => d = c \/ Will(s, i, d)
  BY WillTail DEF LoadOf
<1> HIDE DEF s, c
<1>3. ASSUME NEW i \in 1 .. Len(s)
      PROVE  n[c] = a[c] /\ \A d \in Registry : d # c => n[d] = r[d]
  BY <1>1, <1>3 DEF Registry, c
<1>4. ReaderCalm(<<>> \o Tail(q), n, a, fresh, target) <=> ReaderCalm(s, n, a, fresh, target)
  BY DEF s
<1>5. SUFFICES ASSUME NEW i \in 1 .. Len(s), s[i].op = "track"
               PROVE  /\ \/ n["start"] <= a["pos"] /\ (fresh => n["start"] = target)
                         \/ Will(s, i, "start")
                      /\ \/ /\ a["pos"] <= n["end"] /\ n["end"] <= a["end"]
                            /\ fresh => n["end"] = target + Fragment
                         \/ Will(s, i, "end")
                      /\ n["gen"] = a["gen"] \/ Will(s, i, "gen")
  BY <1>4 DEF ReaderCalm
<1>6. /\ \/ r["start"] <= a["pos"] /\ (fresh => r["start"] = target)
         \/ Will(q, i + 1, "start")
      /\ \/ /\ a["pos"] <= r["end"] /\ r["end"] <= a["end"]
            /\ fresh => r["end"] = target + Fragment
         \/ Will(q, i + 1, "end")
      /\ r["gen"] = a["gen"] \/ Will(q, i + 1, "gen")
  BY <1>1, <1>5 DEF ReaderCalm
<1>7. \/ n["start"] <= a["pos"] /\ (fresh => n["start"] = target)
      \/ Will(s, i, "start")
  BY <1>2, <1>3, <1>6 DEF Registry, Cells
<1>8. \/ /\ a["pos"] <= n["end"] /\ n["end"] <= a["end"]
         /\ fresh => n["end"] = target + Fragment
      \/ Will(s, i, "end")
  BY <1>2, <1>3, <1>6 DEF Registry, Cells
<1>9. n["gen"] = a["gen"] \/ Will(s, i, "gen")
  BY <1>2, <1>3, <1>6 DEF Registry, Cells
<1>10. QED
  BY <1>7, <1>8, <1>9

(* Once all is at rest the atomics are settled.                            *)
LEMMA RestForward ==
    ASSUME NEW m, AtRest', m = Settled', Whole(m)', Anchored(m)', m["end"] \in Int
    PROVE  Forward(m)'
<1>1. \A t \in Threads : todo'[t] = <<>>
  BY DEF AtRest, Idle
<1>2. ASSUME NEW c \in Cells
      PROVE  mem'[c] = m[c]
  <2>1. Future(c)' = FutureOf(todo'["ui"], c) \cup FutureOf(todo'["reader"], c)
                     \cup FutureOf(todo'["loop"], c)
    BY DEF Future, FutureOf
  <2>2. Future(c)' = {}
    BY <1>1, <2>1, EmptyFuture DEF Threads
  <2>3. QED
    BY <2>2 DEF Settled
<1>3. /\ mem'["start"] = m["start"] /\ mem'["end"] = m["end"] /\ mem'["pos"] = m["pos"]
      /\ SpanOf(mem)' = SpanOf(m)
  BY <1>2 DEF Cells, SpanOf
<1>4. todo'["ui"] = <<>> /\ todo'["reader"] = <<>>
  BY <1>1 DEF Threads
<1>5. Fresh(m)' => SpanOf(mem)' = TargetSpan'
  BY <1>3 DEF Anchored
<1>6. m["start"] <= m["pos"] /\ m["pos"] <= m["end"] /\ m["end"] <= m["end"]
  BY DEF Whole
<1>7. QED
  BY <1>3, <1>4, <1>5, <1>6, EmptyStores DEF Forward

LEMMA AcceptingNext ==
    ASSUME Typed, NEW t \in Threads, ~Idle(t), NEW ops \in Seq(Ops),
           \A i \in 1 .. Len(ops) : ops[i].op = "store", Head(todo[t]).op # "accept",
           todo' = [todo EXCEPT ![t] = ops \o Tail(todo[t])]
    PROVE  Accepting' <=> Accepting
<1> DEFINE q == todo[t]
           s == ops \o Tail(q)
<1>1. q \in Seq(Ops) /\ q # <<>> /\ todo'[t] = s
      /\ \A u \in Threads : u # t => todo'[u] = todo[u]
  BY DEF Typed, Idle
<1>2. CASE t # "loop"
  BY <1>1, <1>2 DEF Accepting, Threads
<1>3. CASE t = "loop"
  <2> HIDE DEF q
  <2>1. /\ Len(q) \in Nat /\ Len(ops) \in Nat /\ Len(q) > 0 /\ Len(s) \in Nat
        /\ Head(q) = q[1]
        /\ \A i \in 1 .. Len(ops) : i \in 1 .. Len(s) /\ s[i] = ops[i]
        /\ \A i \in 1 .. Len(s) : i > Len(ops) =>
              i - Len(ops) + 1 \in 2 .. Len(q) /\ s[i] = q[i - Len(ops) + 1]
        /\ \A k \in 2 .. Len(q) :
              k + Len(ops) - 1 \in 1 .. Len(s) /\ s[k + Len(ops) - 1] = q[k]
    BY <1>1, Replaced
  <2> HIDE DEF s
  <2>2. Head(q).op # "accept"
    BY DEF q
  <2>3. ASSUME NEW i \in 1 .. Len(s), s[i].op = "accept"
        PROVE  \E k \in 1 .. Len(q) : q[k].op = "accept"
    <3>1. i > Len(ops)
      BY <2>1, <2>3
    <3>2. QED
      BY <2>1, <2>3, <3>1
  <2>4. ASSUME NEW k \in 1 .. Len(q), q[k].op = "accept"
        PROVE  \E i \in 1 .. Len(s) : s[i].op = "accept"
    <3>1. k \in 2 .. Len(q)
      BY <2>1, <2>2, <2>4
    <3>2. QED
      BY <2>1, <2>4, <3>1
  <2>5. todo'["loop"] = s /\ todo["loop"] = q
    BY <1>1, <1>3 DEF q
  <2>6. QED
    BY <2>3, <2>4, <2>5 DEF Accepting
<1>4. QED
  BY <1>2, <1>3

LEMMA AnchoredNext ==
    ASSUME Typed, NEW t \in Threads, ~Idle(t), Head(todo[t]).op # "track",
           NEW m, Anchored(m), UNCHANGED <<stream, due, rtp, last>>,
           todo' = [todo EXCEPT ![t] = <<>> \o Tail(todo[t])]
    PROVE  Anchored(m)' /\ Fresh(m)' = Fresh(m)
<1> DEFINE q == todo[t]
           s == <<>> \o Tail(q)
<1>1. q \in Seq(Ops) /\ q # <<>> /\ todo'[t] = s
      /\ \A u \in Threads : u # t => todo'[u] = todo[u]
  BY DEF Typed, Idle
<1>2. CASE t # "reader"
  <2>1. todo'["reader"] = todo["reader"]
    BY <1>1, <1>2 DEF Threads
  <2>2. QED
    BY <2>1, AnchoredSame
<1>3. CASE t = "reader"
  <2>0. todo["reader"] = q /\ todo'["reader"] = s /\ Head(q).op # "track" /\ ~Idle("reader")
    BY <1>1, <1>3
  <2> HIDE DEF q
  <2>1. /\ Len(s) = Len(q) - 1 /\ Len(q) \in Nat /\ Len(s) \in Nat /\ Head(q) = q[1]
        /\ \A i \in 1 .. Len(s) : i + 1 \in 1 .. Len(q) /\ s[i] = q[i + 1]
        /\ \A k \in 1 .. Len(q) : k > 1 => k - 1 \in 1 .. Len(s) /\ s[k - 1] = q[k]
    BY <1>1, Left
  <2> HIDE DEF s
  <2>2. Fresh(m)' = Fresh(m) /\ TargetSpan' = TargetSpan
    BY DEF Fresh, TargetSpan
  <2>3. ASSUME NEW i \in 1 .. Len(s), s[i].op = "track"
        PROVE  m["pos"] <= s[i].val /\ s[i].val < due /\ s[i].val < stream.next
    BY <2>0, <2>1, <2>3 DEF Anchored
  <2>4. ASSUME Fresh(m)
        PROVE  \E i \in 1 .. Len(s) : s[i].op = "track" /\ s[i].val = last.target
    <3>1. PICK k \in 1 .. Len(q) : q[k].op = "track" /\ q[k].val = last.target
      BY <2>0, <2>4 DEF Anchored
    <3>2. k > 1
      BY <2>0, <2>1, <3>1
    <3>3. QED
      BY <2>1, <3>1, <3>2
  <2>5. QED
    BY <2>0, <2>2, <2>3, <2>4 DEF Anchored
<1>4. QED
  BY <1>2, <1>3

LEMMA LoadCalm ==
    ASSUME Accesses, CalmQuiet, calm, NEW t \in Threads, Access(t), Head(todo[t]).op = "load"
    PROVE  CalmQuiet'
<1> DEFINE q == todo[t]
           r == reg[t]
           c == Head(q).cell
           s == <<>> \o Tail(q)
           n == IF Len(q) > 1 THEN [r EXCEPT ![c] = mem[c]] ELSE NoRegisters
<1>1. PICK m : m = Settled
  OBVIOUS
<1>2. /\ given # {} /\ Apart /\ Quiet(m)
      /\ UNCHANGED <<calm, stream, due, given, last, used>> /\ ~Idle(t)
      /\ t = "loop" => todo["ui"] = <<>> /\ todo["reader"] = <<>>
      /\ t # "loop" => todo["loop"] = <<>>
  BY <1>1, CalmAccess
<1>3. /\ todo' = [todo EXCEPT ![t] = s] /\ reg' = [reg EXCEPT ![t] = n]
      /\ UNCHANGED <<mem, rtp>>
  BY DEF Access, Rest, Registers
<1>4. /\ q \in Seq(Ops) /\ q # <<>> /\ c \in Cells /\ r \in [Registry -> Nat]
  BY <1>2, BeforeAccess DEF AccessOK
<1>5. /\ todo'[t] = s /\ \A u \in Threads : u # t => todo'[u] = todo[u]
      /\ reg'[t] = n /\ \A u \in Threads : u # t => reg'[u] = reg[u]
  BY <1>3 DEF Accesses, Typed
<1>6. Head(q).op = "load" /\ (Len(q) > 1 => n = [r EXCEPT ![c] = mem[c]])
  OBVIOUS
<1>7. \A d \in Cells : Future(d)' = Future(d)
  <2>1. SUFFICES ASSUME NEW d \in Cells PROVE Future(d)' = Future(d)
    OBVIOUS
  <2>2. FutureOf(s, d) = FutureOf(q, d)
    <3>1. ~StoreOf(Head(q), d)
      BY DEF StoreOf
    <3> HIDE DEF q, s
    <3>2. QED
      BY <1>4, <3>1, FutureTail DEF s
  <2>3. FutureOf(todo'[t], d) = FutureOf(todo[t], d)
    BY <1>5, <2>2
  <2> HIDE DEF q, s, r, c, n
  <2>4. \A u \in Threads : u # t => todo'[u] = todo[u]
    BY <1>5
  <2>5. QED
    BY <2>3, <2>4, FutureSame
<1>8. Single' /\ Settled' = m
  BY <1>1, <1>2, <1>3, <1>7, SettledSame DEF Apart
<1>9. t # "loop" => Stepwise(s)
  <2>1. t # "loop" => Stepwise(q)
    BY <1>2 DEF Apart, Threads
  <2> HIDE DEF q
  <2>2. QED
    BY <1>4, <2>1, StepwiseTail
<1> HIDE DEF q, s, r, c, n
<1>10. Apart'
  <2>1. rtp'.gen <= mem'["gen"] /\ rtp'.gen <= Settled'["gen"]
    BY <1>1, <1>2, <1>3, <1>8 DEF Apart
  <2>2. QED
    BY <1>2, <1>3, <1>8, <1>9, <2>1, ApartNext
<1>11. Accepting' <=> Accepting
  BY <1>2, <1>3, EmptyStores, AcceptingNext DEF Accesses, s, q
<1>12. Whole(m)' /\ Answered' = Answered
  BY <1>2, <1>11, WholeSame DEF Quiet
<1>13. Anchored(m)' /\ Fresh(m)' = Fresh(m)
  BY <1>2, <1>3, AnchoredNext DEF Quiet, Accesses, s, q
<1>14. /\ mem["start"] \in Int /\ mem["end"] \in Int /\ mem["pos"] \in Int /\ m["end"] \in Int
  BY <1>1, <1>2, SettledTypes DEF Accesses, Apart, Cells
<1>15. Forward(m)'
  <2>1. CASE t = "loop"
    <3>1. SUFFICES ASSUME Idle("loop")' PROVE Forward(m)'
      BY DEF Forward
    <3>2. AtRest'
      BY <1>2, <1>5, <2>1, <3>1 DEF AtRest, Idle, Threads
    <3>3. QED
      BY <1>8, <1>12, <1>13, <1>14, <3>2, RestForward
  <2>2. CASE t # "loop"
    <3>1. Idle("loop") /\ Forward(m)
      BY <1>2, <2>2 DEF Idle, Quiet
    <3>2. \A u \in {"ui", "reader"} : \A i \in 1 .. Len(todo'[u]) :
             \E k \in 1 .. Len(todo[u]) : todo'[u][i] = todo[u][k]
      <4>1. \A i \in 1 .. Len(s) : i + 1 \in 1 .. Len(q) /\ s[i] = q[i + 1]
        BY <1>4, Left DEF s
      <4>2. SUFFICES ASSUME NEW u \in {"ui", "reader"}, NEW i \in 1 .. Len(todo'[u])
                     PROVE  \E k \in 1 .. Len(todo[u]) : todo'[u][i] = todo[u][k]
        OBVIOUS
      <4>3. CASE u = t
        BY <1>5, <4>1, <4>2, <4>3 DEF q
      <4>4. CASE u # t
        BY <1>5, <4>2, <4>4 DEF Threads
      <4>5. QED
        BY <4>3, <4>4
    <3>3. /\ mem["start"] <= mem["pos"] /\ mem["pos"] <= mem["end"] /\ mem["end"] <= m["end"]
          /\ Fresh(m) => SpanOf(mem) = TargetSpan
      BY <3>1 DEF Forward
    <3>4. TargetSpan' = TargetSpan /\ SpanOf(mem)' = SpanOf(mem)
      BY <1>2, <1>3 DEF TargetSpan, SpanOf
    <3>5. \A i \in 1 .. Len(todo'["reader"]) : todo'["reader"][i].op = "store" =>
              /\ mem["pos"] <= todo'["reader"][i].val /\ todo'["reader"][i].val <= mem["end"]
      BY <3>1, <3>2 DEF Forward
    <3>6. \A i \in 1 .. Len(todo'["ui"]) : todo'["ui"][i].op = "store" =>
              /\ ~Fresh(m)
              /\ StoreOf(todo'["ui"][i], "start") => todo'["ui"][i].val <= mem["pos"]
      BY <3>1, <3>2 DEF Forward
    <3>7. QED
      BY <1>3, <1>13, <3>3, <3>4, <3>5, <3>6 DEF Forward, StoreOf
  <2>3. QED
    BY <2>1, <2>2
<1>16. UiCalm(todo'["ui"], reg'["ui"], mem')
  <2>1. UiCalm(todo["ui"], reg["ui"], mem)
    BY <1>2 DEF Quiet
  <2>2. CASE t # "ui"
    BY <1>3, <1>5, <2>1, <2>2 DEF Threads
  <2>3. CASE t = "ui"
    <3>1. mem["start"] <= mem["pos"] /\ mem["pos"] <= mem["pos"]
      BY <1>2, <1>14, <2>3 DEF Quiet, Forward, Idle
    <3>2. UiCalm(q, r, mem)
      BY <2>1, <2>3 DEF q, r
    <3>3. UiCalm(s, n, mem)
      BY <1>4, <1>6, <3>1, <3>2, LoadedCalm DEF s, c
    <3>4. QED
      BY <1>3, <1>5, <2>3, <3>3
  <2>4. QED
    BY <2>2, <2>3
<1>17. ReaderCalm(todo'["reader"], reg'["reader"], mem', Fresh(m)', last'.target)
  <2>1. ReaderCalm(todo["reader"], reg["reader"], mem, Fresh(m), last.target)
    BY <1>2 DEF Quiet
  <2>2. CASE t # "reader"
    BY <1>2, <1>3, <1>5, <1>13, <2>1, <2>2 DEF Threads
  <2>3. CASE t = "reader"
    <3>1. PICK fresh \in BOOLEAN : fresh = Fresh(m)
      BY DEF Fresh
    <3>2. /\ mem["start"] <= mem["pos"] /\ mem["pos"] <= mem["end"] /\ mem["end"] <= mem["end"]
          /\ fresh => mem["start"] = last.target /\ mem["end"] = last.target + Fragment
      BY <1>2, <1>14, <2>3, <3>1 DEF Quiet, Forward, Idle, SpanOf, TargetSpan, Interval
    <3>3. ReaderCalm(q, r, mem, fresh, last.target)
      BY <2>1, <2>3, <3>1 DEF q, r
    <3>4. ReaderCalm(s, n, mem, fresh, last.target)
      <4>1. mem["start"] <= mem["pos"] /\ mem["pos"] <= mem["end"] /\ mem["end"] <= mem["end"]
        BY <3>2
      <4>2. CASE fresh = TRUE
        <5>1. ReaderCalm(q, r, mem, TRUE, last.target)
          BY <3>3, <4>2
        <5>2. mem["start"] = last.target /\ mem["end"] = last.target + Fragment
          BY <3>2, <4>2
        <5>3. ReaderCalm(s, n, mem, TRUE, last.target)
          BY <1>4, <1>6, <4>1, <5>1, <5>2, LoadedReader DEF s, c
        <5>4. QED
          BY <4>2, <5>3
      <4>3. CASE fresh = FALSE
        <5>1. ReaderCalm(q, r, mem, FALSE, last.target)
          BY <3>3, <4>3
        <5>2. ReaderCalm(s, n, mem, FALSE, last.target)
          BY <1>4, <1>6, <4>1, <5>1, LoadedReader DEF s, c
        <5>3. QED
          BY <4>3, <5>2
      <4>4. QED
        BY <4>2, <4>3
    <3>5. QED
      BY <1>2, <1>3, <1>5, <1>13, <2>3, <3>1, <3>4
  <2>4. QED
    BY <2>2, <2>3
<1>18. LoopCalm(todo'["loop"], reg'["loop"], mem', Answered')
  <2>1. LoopCalm(todo["loop"], reg["loop"], mem, Answered)
    BY <1>2 DEF Quiet
  <2>2. CASE t # "loop"
    BY <1>3, <1>5, <1>12, <2>1, <2>2 DEF Threads
  <2>3. CASE t = "loop"
    <3>1. LoopCalm(q, r, mem, Answered)
      BY <2>1, <2>3 DEF q, r
    <3>2. LoopCalm(s, n, mem, Answered)
      BY <1>4, <1>6, <3>1, LoadedCalm DEF s, c
    <3>3. QED
      BY <1>3, <1>5, <1>12, <2>3, <3>2
  <2>4. QED
    BY <2>2, <2>3
<1>19. Quiet(m)'
  BY <1>12, <1>13, <1>15, <1>16, <1>17, <1>18 DEF Quiet
<1>20. QED
  BY <1>2, <1>8, <1>10, <1>19 DEF CalmQuiet

LEMMA StoreCalm ==
    ASSUME Accesses, CalmQuiet, calm, NEW t \in Threads, Access(t), Head(todo[t]).op = "store"
    PROVE  CalmQuiet'
<1> DEFINE q == todo[t]
           r == reg[t]
           c == Head(q).cell
           v == Head(q).val
           s == <<>> \o Tail(q)
           n == IF Len(q) > 1 THEN r ELSE NoRegisters
<1>1. PICK m : m = Settled
  OBVIOUS
<1>2. /\ given # {} /\ Apart /\ Quiet(m)
      /\ UNCHANGED <<calm, stream, due, given, last, used>> /\ ~Idle(t)
      /\ t = "loop" => todo["ui"] = <<>> /\ todo["reader"] = <<>>
      /\ t # "loop" => todo["loop"] = <<>>
  BY <1>1, CalmAccess
<1>3. /\ todo' = [todo EXCEPT ![t] = s] /\ reg' = [reg EXCEPT ![t] = n]
      /\ mem' = [mem EXCEPT ![c] = v] /\ UNCHANGED rtp
  BY DEF Access, Rest, Registers
<1>4. /\ q \in Seq(Ops) /\ q # <<>> /\ c \in Cells /\ r \in [Registry -> Nat]
      /\ c \in {"pos", "gen"} => t # "ui"
      /\ c # "pos" => t # "reader"
  BY <1>2, BeforeAccess DEF AccessOK
<1>5. /\ todo'[t] = s /\ \A u \in Threads : u # t => todo'[u] = todo[u]
      /\ reg'[t] = n /\ \A u \in Threads : u # t => reg'[u] = reg[u]
      /\ mem'[c] = v /\ \A d \in Cells : d # c => mem'[d] = mem[d]
  BY <1>3, <1>4 DEF Accesses, Typed
<1>6. /\ Len(s) = Len(q) - 1 /\ Len(q) \in Nat /\ Len(s) \in Nat /\ Head(q) = q[1]
      /\ 1 \in 1 .. Len(q)
      /\ \A i \in 1 .. Len(s) : i + 1 \in 1 .. Len(q) /\ s[i] = q[i + 1]
  BY <1>4, Left
<1>7. Head(q).op = "store" /\ StoreOf(q[1], c) /\ q[1].val = v
  BY <1>6 DEF StoreOf
<1>8. Single' /\ Settled' = m /\ m[c] = v
  BY <1>1, <1>2, <1>3, <1>4, SettledStore DEF Accesses, Apart
<1>9. t # "loop" => Stepwise(q) /\ Stepwise(s)
  <2>1. t # "loop" => Stepwise(q)
    BY <1>2 DEF Apart, Threads
  <2> HIDE DEF q
  <2>2. QED
    BY <1>4, <2>1, StepwiseTail
<1> HIDE DEF q, s, r, c, v, n
<1>10. Apart'
  <2>1. rtp'.gen <= mem'["gen"] /\ rtp'.gen <= Settled'["gen"]
    <3>1. rtp'.gen = rtp.gen /\ rtp.gen <= mem["gen"] /\ rtp.gen <= m["gen"]
      BY <1>1, <1>2, <1>3 DEF Apart
    <3>2. mem'["gen"] = mem["gen"] \/ mem'["gen"] = m["gen"]
      BY <1>5, <1>8 DEF Cells
    <3>3. QED
      BY <1>8, <3>1, <3>2
  <2>2. QED
    BY <1>2, <1>3, <1>8, <1>9, <2>1, ApartNext
<1>11. Accepting' <=> Accepting
  BY <1>2, <1>3, <1>7, EmptyStores, AcceptingNext DEF Accesses, s, q
<1>12. Whole(m)' /\ Answered' = Answered
  BY <1>2, <1>11, WholeSame DEF Quiet
<1>13. Anchored(m)' /\ Fresh(m)' = Fresh(m) /\ TargetSpan' = TargetSpan
  <2>1. Head(todo[t]).op # "track"
    BY <1>7 DEF q
  <2>2. Anchored(m)' /\ Fresh(m)' = Fresh(m)
    BY <1>2, <1>3, <2>1, AnchoredNext DEF Quiet, Accesses, s, q
  <2>3. QED
    BY <1>2, <2>2 DEF TargetSpan
<1>14. /\ mem["start"] \in Int /\ mem["end"] \in Int /\ mem["pos"] \in Int
       /\ m["end"] \in Int /\ m["pos"] \in Int /\ m["start"] \in Int
  BY <1>1, <1>2, SettledTypes DEF Accesses, Apart, Cells
<1>15. t = "ui" => /\ UNCHANGED <<mem["pos"], mem["gen"]>> /\ ~Fresh(m)
                   /\ mem'["start"] <= mem["pos"]
                   /\ mem["end"] <= mem'["end"] /\ mem'["end"] <= m["end"]
  <2>1. SUFFICES ASSUME t = "ui"
                 PROVE  /\ UNCHANGED <<mem["pos"], mem["gen"]>> /\ ~Fresh(m)
                        /\ mem'["start"] <= mem["pos"]
                        /\ mem["end"] <= mem'["end"] /\ mem'["end"] <= m["end"]
    OBVIOUS
  <2>2. c # "pos" /\ c # "gen"
    BY <1>4, <2>1
  <2>3. todo["ui"] = q
    BY <2>1 DEF q
  <2>4. /\ mem["start"] <= mem["pos"] /\ mem["end"] <= m["end"]
        /\ ~Fresh(m) /\ (StoreOf(q[1], "start") => q[1].val <= mem["pos"])
    BY <1>2, <1>6, <1>7, <2>1, <2>3 DEF Quiet, Forward, Idle, StoreOf
  <2>5. mem'["pos"] = mem["pos"] /\ mem'["gen"] = mem["gen"]
    BY <1>5, <2>2 DEF Cells
  <2>6. mem'["start"] <= mem["pos"]
    BY <1>5, <1>7, <2>4 DEF Cells
  <2>7. mem["end"] <= mem'["end"] /\ mem'["end"] <= m["end"]
    BY <1>5, <1>8, <1>14, <2>4 DEF Cells
  <2>8. QED
    BY <2>4, <2>5, <2>6, <2>7
<1>16. t = "reader" => /\ UNCHANGED <<mem["start"], mem["end"], mem["pstart"], mem["pend"], mem["gen"]>>
                       /\ mem["pos"] <= mem'["pos"] /\ mem'["pos"] <= mem["end"]
                       /\ mem'["pos"] = m["pos"]
  <2>1. SUFFICES ASSUME t = "reader"
                 PROVE  /\ UNCHANGED <<mem["start"], mem["end"], mem["pstart"], mem["pend"], mem["gen"]>>
                        /\ mem["pos"] <= mem'["pos"] /\ mem'["pos"] <= mem["end"]
                        /\ mem'["pos"] = m["pos"]
    OBVIOUS
  <2>2. c = "pos" /\ todo["reader"] = q
    BY <1>4, <2>1 DEF q
  <2>3. mem["pos"] <= q[1].val /\ q[1].val <= mem["end"]
    BY <1>2, <1>6, <1>7, <2>1, <2>2 DEF Quiet, Forward, Idle, StoreOf
  <2>4. QED
    BY <1>5, <1>7, <1>8, <2>2, <2>3 DEF Cells
<1>17. Forward(m)'
  <2>1. CASE t = "loop"
    <3>1. SUFFICES ASSUME Idle("loop")' PROVE Forward(m)'
      BY DEF Forward
    <3>2. AtRest'
      BY <1>2, <1>5, <2>1, <3>1 DEF AtRest, Idle, Threads
    <3>3. QED
      BY <1>8, <1>12, <1>13, <1>14, <3>2, RestForward
  <2>2. CASE t # "loop"
    <3>0. Idle("loop")
      BY <1>2, <2>2 DEF Idle
    <3>1. /\ mem["start"] <= mem["pos"] /\ mem["pos"] <= mem["end"] /\ mem["end"] <= m["end"]
          /\ Fresh(m) => SpanOf(mem) = TargetSpan
          /\ \A i \in 1 .. Len(todo["reader"]) : todo["reader"][i].op = "store" =>
                /\ mem["pos"] <= todo["reader"][i].val /\ todo["reader"][i].val <= mem["end"]
          /\ \A i \in 1 .. Len(todo["ui"]) : todo["ui"][i].op = "store" =>
                /\ ~Fresh(m)
                /\ StoreOf(todo["ui"][i], "start") => todo["ui"][i].val <= mem["pos"]
      BY <1>2, <3>0 DEF Quiet, Forward
    <3>2. CASE t = "ui"
      <4>1. /\ todo'["reader"] = todo["reader"] /\ todo'["ui"] = s /\ todo["ui"] = q
        BY <1>5, <3>2 DEF q, Threads
      <4>2. /\ mem'["start"] <= mem'["pos"] /\ mem'["pos"] <= mem'["end"] /\ mem'["end"] <= m["end"]
        <5>1. mem'["end"] \in Int
          BY <1>5, <1>8, <1>14 DEF Cells
        <5>2. QED
          BY <1>14, <1>15, <3>1, <3>2, <5>1
      <4>3. \A i \in 1 .. Len(todo["reader"]) : todo["reader"][i].op = "store" =>
                /\ mem'["pos"] <= todo["reader"][i].val /\ todo["reader"][i].val <= mem'["end"]
        <5>1. SUFFICES ASSUME NEW i \in 1 .. Len(todo["reader"]), todo["reader"][i].op = "store"
                       PROVE  /\ mem'["pos"] <= todo["reader"][i].val
                              /\ todo["reader"][i].val <= mem'["end"]
          OBVIOUS
        <5>2. todo["reader"][i].val \in Int /\ mem'["end"] \in Int
          <6>1. todo["reader"] \in Seq(Ops)
            BY DEF Accesses, Typed, Threads
          <6>2. todo["reader"][i] \in Ops
            BY <6>1
          <6>3. mem'["end"] \in Int
            BY <1>5, <1>8, <1>14 DEF Cells
          <6>4. QED
            BY <6>2, <6>3 DEF Ops
        <5>3. QED
          BY <1>14, <1>15, <3>1, <3>2, <5>1, <5>2
      <4>4. \A i \in 1 .. Len(s) : s[i].op = "store" =>
                (StoreOf(s[i], "start") => s[i].val <= mem["pos"])
        BY <1>6, <3>1, <4>1
      <4>5. QED
        BY <1>13, <1>15, <3>2, <4>1, <4>2, <4>3, <4>4 DEF Forward, StoreOf
    <3>3. CASE t = "reader"
      <4>1. /\ todo'["ui"] = todo["ui"] /\ todo'["reader"] = s /\ todo["reader"] = q
        BY <1>5, <3>3 DEF q, Threads
      <4>2. mem'["pos"] \in Int
        BY <1>14, <1>16, <3>3
      <4>3. \A i \in 1 .. Len(s) : s[i].op = "store" =>
                mem'["pos"] <= s[i].val /\ s[i].val <= mem["end"]
        <5>1. SUFFICES ASSUME NEW i \in 1 .. Len(s), s[i].op = "store"
                       PROVE  mem'["pos"] <= s[i].val /\ s[i].val <= mem["end"]
          OBVIOUS
        <5>2. i + 1 \in 1 .. Len(q) /\ s[i] = q[i + 1]
          BY <1>6
        <5>3. AccessOK("reader", q[i + 1])
          BY <4>1, <5>2 DEF Accesses, Values, Threads
        <5>4. StoreOf(q[i + 1], "pos")
          BY <5>1, <5>2, <5>3 DEF AccessOK, StoreOf
        <5>5. s[i].val \in Future("pos")
          BY <4>1, <5>2, <5>4 DEF Future, FutureOf
        <5>6. s[i].val = m["pos"]
          BY <1>1, <1>2, <5>5, SettledFacts DEF Apart, Single, Cells
        <5>7. QED
          BY <1>16, <3>3, <4>2, <5>6
      <4>4. \A i \in 1 .. Len(todo["ui"]) : todo["ui"][i].op = "store" =>
                /\ ~Fresh(m)
                /\ StoreOf(todo["ui"][i], "start") => todo["ui"][i].val <= mem'["pos"]
        <5>1. SUFFICES ASSUME NEW i \in 1 .. Len(todo["ui"]), todo["ui"][i].op = "store"
                       PROVE  /\ ~Fresh(m)
                              /\ StoreOf(todo["ui"][i], "start") => todo["ui"][i].val <= mem'["pos"]
          OBVIOUS
        <5>2. todo["ui"][i].val \in Int
          <6>1. todo["ui"] \in Seq(Ops)
            BY DEF Accesses, Typed, Threads
          <6>2. todo["ui"][i] \in Ops
            BY <6>1
          <6>3. QED
            BY <6>2 DEF Ops
        <5>3. QED
          BY <1>14, <1>16, <3>1, <3>3, <4>2, <5>1, <5>2
      <4>5. /\ mem'["start"] <= mem'["pos"] /\ mem'["pos"] <= mem'["end"] /\ mem'["end"] <= m["end"]
            /\ SpanOf(mem)' = SpanOf(mem)
        BY <1>14, <1>16, <3>1, <3>3, <4>2 DEF SpanOf
      <4>6. QED
        BY <1>13, <1>16, <3>1, <3>3, <4>1, <4>3, <4>4, <4>5 DEF Forward, StoreOf
    <3>4. QED
      BY <2>2, <3>2, <3>3 DEF Threads
  <2>3. QED
    BY <2>1, <2>2
<1>18. t # "loop" => \A i \in 1 .. Len(s) : s[i].op = "store"
  BY <1>6, <1>7, <1>9 DEF Stepwise
<1>19. \A i \in 1 .. Len(<<>>) : FALSE
  BY EmptyStores
<1>20. UiCalm(todo'["ui"], reg'["ui"], mem')
  <2>1. UiCalm(todo["ui"], reg["ui"], mem)
    BY <1>2 DEF Quiet
  <2>2. CASE t = "ui"
    BY <1>5, <1>18, <2>2 DEF UiCalm
  <2>3. CASE t = "loop"
    BY <1>2, <1>5, <1>19, <2>3 DEF UiCalm, Threads
  <2>4. CASE t = "reader"
    <3>1. reg["ui"]["pos"] \in Int /\ mem'["pos"] \in Int
      <4>1. reg["ui"] \in [Registry -> Nat] /\ "pos" \in Registry
        BY DEF Accesses, Typed, Threads, Registry, Cells
      <4>2. QED
        BY <1>14, <1>16, <2>4, <4>1
    <3>2. todo'["ui"] = todo["ui"] /\ reg'["ui"] = reg["ui"]
      BY <1>5, <2>4 DEF Threads
    <3>3. SUFFICES ASSUME NEW i \in 1 .. Len(todo["ui"]), todo["ui"][i].op = "apply"
                   PROVE  /\ \A d \in {"start", "end", "pstart", "pend"} :
                                reg["ui"][d] = mem'[d] \/ Will(todo["ui"], i, d)
                          /\ \/ mem'["start"] <= reg["ui"]["pos"] /\ reg["ui"]["pos"] <= mem'["pos"]
                             \/ Will(todo["ui"], i, "pos")
      BY <3>2 DEF UiCalm
    <3>4. /\ \A d \in {"start", "end", "pstart", "pend"} :
                reg["ui"][d] = mem[d] \/ Will(todo["ui"], i, d)
          /\ \/ mem["start"] <= reg["ui"]["pos"] /\ reg["ui"]["pos"] <= mem["pos"]
             \/ Will(todo["ui"], i, "pos")
      BY <2>1, <3>3 DEF UiCalm
    <3>5. QED
      BY <1>14, <1>16, <2>4, <3>1, <3>4
  <2>5. QED
    BY <2>2, <2>3, <2>4 DEF Threads
<1>21. ReaderCalm(todo'["reader"], reg'["reader"], mem', Fresh(m)', last'.target)
  <2>1. ReaderCalm(todo["reader"], reg["reader"], mem, Fresh(m), last.target)
    BY <1>2 DEF Quiet
  <2>2. CASE t = "reader"
    BY <1>5, <1>18, <2>2 DEF ReaderCalm
  <2>3. CASE t = "loop"
    BY <1>2, <1>5, <1>19, <2>3 DEF ReaderCalm, Threads
  <2>4. CASE t = "ui"
    <3>1. reg["reader"]["end"] \in Int /\ mem'["end"] \in Int
      <4>1. reg["reader"] \in [Registry -> Nat] /\ "end" \in Registry
        BY DEF Accesses, Typed, Threads, Registry, Cells
      <4>2. mem'["end"] \in Int
        BY <1>5, <1>8, <1>14 DEF Cells
      <4>3. reg["reader"]["end"] \in Int
        BY <4>1
      <4>4. QED
        BY <4>2, <4>3
    <3>2. todo'["reader"] = todo["reader"] /\ reg'["reader"] = reg["reader"]
      BY <1>5, <2>4 DEF Threads
    <3>3. last'.target = last.target
      BY <1>2
    <3>4. SUFFICES ASSUME NEW i \in 1 .. Len(todo["reader"]), todo["reader"][i].op = "track"
                   PROVE  /\ \/ reg["reader"]["start"] <= mem'["pos"]
                             \/ Will(todo["reader"], i, "start")
                          /\ \/ /\ mem'["pos"] <= reg["reader"]["end"]
                                /\ reg["reader"]["end"] <= mem'["end"]
                             \/ Will(todo["reader"], i, "end")
                          /\ reg["reader"]["gen"] = mem'["gen"] \/ Will(todo["reader"], i, "gen")
      BY <1>13, <1>15, <2>4, <3>2, <3>3 DEF ReaderCalm
    <3>5. /\ \/ reg["reader"]["start"] <= mem["pos"]
             \/ Will(todo["reader"], i, "start")
          /\ \/ /\ mem["pos"] <= reg["reader"]["end"]
                /\ reg["reader"]["end"] <= mem["end"]
             \/ Will(todo["reader"], i, "end")
          /\ reg["reader"]["gen"] = mem["gen"] \/ Will(todo["reader"], i, "gen")
      BY <2>1, <3>4 DEF ReaderCalm
    <3>6. QED
      BY <1>14, <1>15, <2>4, <3>1, <3>5
  <2>5. QED
    BY <2>2, <2>3, <2>4 DEF Threads
<1>22. LoopCalm(todo'["loop"], reg'["loop"], mem', Answered')
  <2>1. LoopCalm(todo["loop"], reg["loop"], mem, Answered)
    BY <1>2 DEF Quiet
  <2>2. CASE t # "loop"
    BY <1>2, <1>5, <1>19, <2>2 DEF LoopCalm, Threads
  <2>3. CASE t = "loop"
    <3>1. todo'["loop"] = s /\ todo["loop"] = q /\ reg["loop"] = r /\ reg'["loop"] = n
      BY <1>5, <2>3 DEF q, r
    <3>2. \A i \in 1 .. Len(q) : q[i].op # "apply"
      BY <1>6, <1>7, <2>1, <3>1 DEF LoopCalm
    <3>3. \A i \in 1 .. Len(q) : ~Applies(q, i)
      BY <1>6, <3>2 DEF Applies
    <3>4. ASSUME NEW i \in 1 .. Len(s), s[i].op \in {"accept", "keep"}
          PROVE  /\ n["result"] = mem'["pos"]
                 /\ \A j \in 1 .. Len(s) : ~StoreOf(s[j], "pos")
                 /\ s[i].op = "accept" => s[i].val = Answered
      <4>1. i + 1 \in 1 .. Len(q) /\ s[i] = q[i + 1] /\ Len(q) > 1
        BY <1>6, <3>4
      <4>2. /\ r["result"] = mem["pos"] /\ \A j \in 1 .. Len(q) : ~StoreOf(q[j], "pos")
            /\ s[i].op = "accept" => s[i].val = Answered
        BY <2>1, <3>1, <3>3, <3>4, <4>1 DEF LoopCalm
      <4>3. c # "pos"
        BY <1>6, <1>7, <4>2
      <4>4. mem'["pos"] = mem["pos"] /\ n = r
        BY <1>5, <4>1, <4>3 DEF Cells, n
      <4>5. QED
        BY <1>6, <4>2, <4>4
    <3>5. \A i \in 1 .. Len(s) : s[i].op # "apply"
      BY <1>6, <3>2
    <3>6. QED
      BY <1>12, <3>1, <3>4, <3>5 DEF LoopCalm
  <2>4. QED
    BY <2>2, <2>3
<1>23. Quiet(m)'
  BY <1>12, <1>13, <1>17, <1>20, <1>21, <1>22 DEF Quiet
<1>24. QED
  BY <1>2, <1>8, <1>10, <1>23 DEF CalmQuiet

(* What a computation stores is settled.                                   *)
LEMMA Expanded ==
    ASSUME Typed, Single, UNCHANGED mem, NEW t \in Threads, ~Idle(t),
           Head(todo[t]).op # "store", NEW ops \in Seq(Ops),
           todo' = [todo EXCEPT ![t] = ops \o Tail(todo[t])],
           \A c \in Cells : FutureOf(ops, c) = {}
                            \/ (Future(c) = {} /\ \E v : FutureOf(ops, c) = {v})
    PROVE  /\ Single'
           /\ \A c \in Cells : IF FutureOf(ops, c) = {} THEN Settled'[c] = Settled[c]
                               ELSE FutureOf(ops, c) = {Settled'[c]}
<1> DEFINE q == todo[t]
           s == ops \o Tail(q)
           N == [c \in Cells |-> FutureOf(ops, c)]
<1>1. /\ q \in Seq(Ops) /\ q # <<>> /\ todo'[t] = s
      /\ \A u \in Threads : u # t => todo'[u] = todo[u]
  BY DEF Typed, Idle
<1>2. \A c \in Cells : N[c] = FutureOf(ops, c)
  OBVIOUS
<1>3. ASSUME NEW c \in Cells
      PROVE  FutureOf(s, c) = FutureOf(q, c) \cup N[c]
  <2>1. ~StoreOf(Head(q), c)
    BY DEF StoreOf
  <2> HIDE DEF q
  <2>2. /\ FutureOf(s, c) = FutureOf(ops, c) \cup FutureOf(Tail(q), c)
        /\ FutureOf(q, c) = (IF StoreOf(Head(q), c) THEN {Head(q).val} ELSE {})
                            \cup FutureOf(Tail(q), c)
    BY <1>1, FutureSplit
  <2>3. QED
    BY <1>2, <2>1, <2>2
<1> HIDE DEF N, s
<1>4. \A c \in Cells : Future(c)' = Future(c) \cup N[c]
  <2>1. SUFFICES ASSUME NEW c \in Cells PROVE Future(c)' = Future(c) \cup N[c]
    OBVIOUS
  <2>2. FutureOf(todo'[t], c) = FutureOf(todo[t], c) \cup N[c]
    BY <1>1, <1>3
  <2>3. \A u \in Threads : u # t => todo'[u] = todo[u]
    BY <1>1
  <2>4. QED
    BY <2>2, <2>3, FutureStep
<1>5. \A c \in Cells : N[c] = {} \/ (Future(c) = {} /\ \E v : N[c] = {v})
  BY <1>2
<1>6. Single' /\ \A c \in Cells : IF N[c] = {} THEN Settled'[c] = Settled[c]
                                  ELSE N[c] = {Settled'[c]}
  BY <1>4, <1>5, SettledWith
<1>7. QED
  BY <1>2, <1>6

LEMMA SpanFuture ==
    ASSUME NEW i, NEW j, i.start \in Nat, i.end \in Nat, j.start \in Nat, j.end \in Nat
    PROVE  LET q == SetSpan(i) \o SetPending(j)
               p == SetPending(j)
           IN /\ FutureOf(q, "start") = {i.start} /\ FutureOf(q, "end") = {i.end}
              /\ FutureOf(q, "pstart") = {j.start} /\ FutureOf(q, "pend") = {j.end}
              /\ FutureOf(q, "pos") = {} /\ FutureOf(q, "gen") = {}
              /\ FutureOf(p, "start") = {} /\ FutureOf(p, "end") = {}
              /\ FutureOf(p, "pstart") = {j.start} /\ FutureOf(p, "pend") = {j.end}
              /\ FutureOf(p, "pos") = {} /\ FutureOf(p, "gen") = {}
<1> DEFINE q == SetSpan(i) \o SetPending(j)
           p == SetPending(j)
<1>1. /\ Len(q) = 4
      /\ q[1] = Store("start", i.start) /\ q[2] = Store("end", i.end)
      /\ q[3] = Store("pstart", j.start) /\ q[4] = Store("pend", j.end)
  BY SpanList
<1>2. /\ Len(p) = 2 /\ p[1] = Store("pstart", j.start) /\ p[2] = Store("pend", j.end)
  BY PendingList
<1> HIDE DEF q, p
<1>3. /\ \A k \in 1 .. Len(q) : StoreOf(q[k], "start") <=> k = 1
      /\ \A k \in 1 .. Len(q) : StoreOf(q[k], "end") <=> k = 2
      /\ \A k \in 1 .. Len(q) : StoreOf(q[k], "pstart") <=> k = 3
      /\ \A k \in 1 .. Len(q) : StoreOf(q[k], "pend") <=> k = 4
      /\ \A k \in 1 .. Len(q) : ~StoreOf(q[k], "pos") /\ ~StoreOf(q[k], "gen")
  BY <1>1 DEF StoreOf, Store
<1>4. /\ \A k \in 1 .. Len(p) : StoreOf(p[k], "pstart") <=> k = 1
      /\ \A k \in 1 .. Len(p) : StoreOf(p[k], "pend") <=> k = 2
      /\ \A k \in 1 .. Len(p) : ~StoreOf(p[k], "start") /\ ~StoreOf(p[k], "end")
      /\ \A k \in 1 .. Len(p) : ~StoreOf(p[k], "pos") /\ ~StoreOf(p[k], "gen")
  BY <1>2 DEF StoreOf, Store
<1>5. /\ q[1].val = i.start /\ q[2].val = i.end /\ q[3].val = j.start /\ q[4].val = j.end
      /\ p[1].val = j.start /\ p[2].val = j.end
  BY <1>1, <1>2 DEF Store
<1>6. /\ \A k \in {1, 2, 3, 4} : k \in 1 .. Len(q)
      /\ \A k \in {1, 2} : k \in 1 .. Len(p)
  BY <1>1, <1>2
<1>7. FutureOf(q, "start") = {q[1].val} /\ FutureOf(q, "end") = {q[2].val}
  BY <1>3, <1>6, FutureOne
<1>8. FutureOf(q, "pstart") = {q[3].val} /\ FutureOf(q, "pend") = {q[4].val}
  BY <1>3, <1>6, FutureOne
<1>9. FutureOf(p, "pstart") = {p[1].val} /\ FutureOf(p, "pend") = {p[2].val}
  BY <1>4, <1>6, FutureOne
<1>10. /\ FutureOf(q, "pos") = {} /\ FutureOf(q, "gen") = {}
       /\ FutureOf(p, "start") = {} /\ FutureOf(p, "end") = {}
       /\ FutureOf(p, "pos") = {} /\ FutureOf(p, "gen") = {}
  BY <1>3, <1>4, FutureNone
<1>11. QED
  BY <1>5, <1>7, <1>8, <1>9, <1>10 DEF q, p

(* Nothing is loaded any more where only stores are left.                  *)
LEMMA StoresCalm ==
    ASSUME NEW q, \A i \in 1 .. Len(q) : q[i].op = "store"
    PROVE  /\ Stepwise(q)
           /\ \A r, a : UiCalm(q, r, a)
           /\ \A r, a, target : \A fresh \in BOOLEAN : ReaderCalm(q, r, a, fresh, target)
           /\ \A r, a, answered : LoopCalm(q, r, a, answered)
BY DEF Stepwise, UiCalm, ReaderCalm, LoopCalm

(* What the last access of a list leaves to do.                            *)
LEMMA OnlyOps ==
    ASSUME NEW q \in Seq(Ops), q # <<>>, NEW ops \in Seq(Ops),
           \A i \in 1 .. Len(ops) : ops[i].op = "store"
    PROVE  Len(q) = 1 =>
              LET s == ops \o Tail(q) IN
              /\ Len(s) = Len(ops)
              /\ \A i \in 1 .. Len(s) : s[i] = ops[i] /\ s[i].op = "store"
<1> DEFINE s == ops \o Tail(q)
<1>1. /\ Len(s) = Len(ops) + Len(q) - 1 /\ Len(ops) \in Nat
      /\ \A i \in 1 .. Len(ops) : i \in 1 .. Len(s) /\ s[i] = ops[i]
  BY Replaced
<1> HIDE DEF s
<1>2. SUFFICES ASSUME Len(q) = 1
               PROVE  /\ Len(s) = Len(ops)
                      /\ \A i \in 1 .. Len(s) : s[i] = ops[i] /\ s[i].op = "store"
  BY DEF s
<1>3. Len(s) = Len(ops) /\ \A i \in 1 .. Len(ops) : s[i] = ops[i]
  BY <1>1, <1>2
<1>4. \A i \in 1 .. Len(s) : s[i] = ops[i] /\ s[i].op = "store"
  BY <1>3
<1>5. QED
  BY <1>3, <1>4

(* The thread that applies a pending fragment sees the span and the        *)
(* pending fragment as they are.                                           *)
LEMMA ApplyFacts ==
    ASSUME Accesses, CalmQuiet, calm, NEW t \in Threads, Access(t), Head(todo[t]).op = "apply",
           NEW m, m = Settled
    PROVE  /\ t \in {"ui", "loop"}
           /\ \A c \in {"start", "end", "pstart", "pend", "gen"} : Future(c) = {} /\ m[c] = mem[c]
           /\ \A c \in {"start", "end", "pstart", "pend"} : reg[t][c] = mem[c]
           /\ mem["start"] <= reg[t]["pos"] /\ reg[t]["pos"] <= mem["pos"]
           /\ mem["pos"] <= m["pos"]
           /\ t = "loop" => /\ reg[t]["pos"] = mem["pos"] /\ m["pos"] = mem["pos"]
                            /\ \A i \in 1 .. Len(todo[t]) : todo[t][i].op # "store"
           /\ t = "ui" => Len(todo[t]) = 1
<1> DEFINE q == todo[t]
           r == reg[t]
<1>1. /\ given # {} /\ Apart /\ Quiet(m) /\ ~Idle(t)
      /\ t = "loop" => todo["ui"] = <<>> /\ todo["reader"] = <<>>
      /\ t # "loop" => todo["loop"] = <<>>
  BY CalmAccess
<1>2. /\ AccessOK(t, Head(q)) /\ q[1] = Head(q) /\ 1 \in 1 .. Len(q) /\ q \in Seq(Ops)
      /\ q[1].op = "apply"
  BY <1>1, BeforeAccess
<1>3. t \in {"ui", "loop"}
  BY <1>2 DEF AccessOK, Threads
<1>4. \A c : ~Will(q, 1, c)
  BY DEF Will
<1>5. \A c \in Cells : FutureOf(<<>>, c) = {}
  BY EmptyFuture
<1>6. ASSUME t = "ui"
      PROVE  Len(q) = 1 /\ \A i \in 1 .. Len(q) : q[i].op # "store"
  <2>1. Stepwise(q)
    BY <1>1, <1>6 DEF Apart
  <2>2. Len(q) = 1
    BY <1>2, <2>1 DEF Stepwise
  <2>3. QED
    BY <1>2, <2>2
<1>7. ASSUME t = "loop"
      PROVE  \A i \in 1 .. Len(q) : q[i].op # "store"
  BY <1>1, <1>2, <1>7 DEF Quiet, LoopCalm
<1>8. \A c \in Cells : FutureOf(q, c) = {}
  BY <1>3, <1>6, <1>7, FutureNone DEF StoreOf
<1>9. ASSUME NEW c \in Cells, c # "pos" \/ t = "loop"
      PROVE  Future(c) = {} /\ m[c] = mem[c]
  <2>1. FutureOf(todo["reader"], c) = {}
    BY <1>1, <1>5, <1>9, Storing DEF Threads
  <2>2. FutureOf(todo["ui"], c) = {}
    BY <1>1, <1>3, <1>5, <1>8
  <2>3. FutureOf(todo["loop"], c) = {}
    BY <1>1, <1>3, <1>5, <1>8 DEF Threads
  <2>4. Future(c) = {}
    BY <2>1, <2>2, <2>3 DEF Future
  <2>5. QED
    BY <1>1, <2>4, SettledFacts DEF Apart
<1>10. \A c \in {"start", "end", "pstart", "pend"} : r[c] = mem[c]
  <2>1. CASE t = "ui"
    BY <1>1, <1>2, <1>4, <2>1 DEF Quiet, UiCalm
  <2>2. CASE t = "loop"
    BY <1>1, <1>2, <1>4, <2>2 DEF Quiet, LoopCalm
  <2>3. QED
    BY <1>3, <2>1, <2>2
<1>11. /\ mem["pos"] \in Int /\ m["pos"] \in Int /\ mem["start"] \in Int /\ mem["end"] \in Int
  BY <1>1, SettledTypes DEF Accesses, Apart, Cells
<1>12. mem["pos"] <= m["pos"]
  <2>1. CASE t = "loop"
    BY <1>9, <1>11, <2>1 DEF Cells
  <2>2. CASE t = "ui"
    <3>1. CASE Future("pos") = {}
      BY <1>1, <1>11, <3>1, SettledFacts DEF Apart, Cells
    <3>2. CASE Future("pos") # {}
      <4>1. m["pos"] \in Future("pos")
        BY <1>1, <3>2, SettledFacts DEF Apart, Cells
      <4>2. m["pos"] \in FutureOf(todo["reader"], "pos")
        BY <1>1, <1>5, <1>8, <2>2, <4>1 DEF Future, Cells
      <4>3. PICK i \in 1 .. Len(todo["reader"]) :
               StoreOf(todo["reader"][i], "pos") /\ todo["reader"][i].val = m["pos"]
        BY <4>2 DEF FutureOf
      <4>4. Forward(m) /\ Idle("loop")
        BY <1>1, <2>2 DEF Quiet, Idle
      <4>5. QED
        BY <4>3, <4>4 DEF Forward, StoreOf
    <3>3. QED
      BY <3>1, <3>2
  <2>3. QED
    BY <1>3, <2>1, <2>2
<1>13. /\ mem["start"] <= r["pos"] /\ r["pos"] <= mem["pos"]
       /\ t = "loop" => r["pos"] = mem["pos"] /\ m["pos"] = mem["pos"]
  <2>1. CASE t = "ui"
    BY <1>1, <1>2, <1>4, <2>1 DEF Quiet, UiCalm
  <2>2. CASE t = "loop"
    <3>1. r["pos"] = mem["pos"]
      BY <1>1, <1>2, <1>4, <2>2 DEF Quiet, LoopCalm
    <3>2. m["pos"] = mem["pos"] /\ m["start"] = mem["start"]
      BY <1>9, <2>2 DEF Cells
    <3>3. m["start"] <= m["pos"]
      BY <1>1 DEF Quiet, Whole
    <3>4. QED
      BY <1>11, <2>2, <3>1, <3>2, <3>3
  <2>3. QED
    BY <1>3, <2>1, <2>2
<1>14. QED
  BY <1>3, <1>6, <1>7, <1>9, <1>10, <1>12, <1>13 DEF Cells

LEMMA ApplyCalm ==
    ASSUME Accesses, CalmQuiet, calm, NEW t \in Threads, Access(t), Head(todo[t]).op = "apply"
    PROVE  CalmQuiet'
<1> DEFINE q == todo[t]
           r == reg[t]
           ops == ApplyStores(r)
           s == ops \o Tail(q)
           k == IF Len(q) > 1 THEN [NoRegisters EXCEPT !["result"] = Result(r)] ELSE NoRegisters
           p == Interval(r["pstart"], r["pend"])
<1>1. PICK m : m = Settled
  OBVIOUS
<1>2. /\ given # {} /\ Apart /\ Quiet(m)
      /\ UNCHANGED <<calm, stream, due, given, last, used>> /\ ~Idle(t)
      /\ t = "loop" => todo["ui"] = <<>> /\ todo["reader"] = <<>>
      /\ t # "loop" => todo["loop"] = <<>>
  BY <1>1, CalmAccess
<1>3. /\ todo' = [todo EXCEPT ![t] = s] /\ reg' = [reg EXCEPT ![t] = k]
      /\ UNCHANGED <<mem, rtp>>
  BY DEF Access, Rest, Registers
<1>4. /\ q \in Seq(Ops) /\ q # <<>> /\ Head(q) = q[1] /\ 1 \in 1 .. Len(q) /\ Len(q) \in Nat
      /\ r \in [Registry -> Nat] /\ NoRegisters \in [Registry -> Nat]
  BY <1>2, BeforeAccess
<1>5. /\ todo'[t] = s /\ \A u \in Threads : u # t => todo'[u] = todo[u]
      /\ reg'[t] = k /\ \A u \in Threads : u # t => reg'[u] = reg[u]
  BY <1>3 DEF Accesses, Typed
<1>6. /\ t \in {"ui", "loop"}
      /\ \A c \in {"start", "end", "pstart", "pend", "gen"} : Future(c) = {} /\ m[c] = mem[c]
      /\ \A c \in {"start", "end", "pstart", "pend"} : r[c] = mem[c]
      /\ mem["start"] <= r["pos"] /\ r["pos"] <= mem["pos"]
      /\ mem["pos"] <= m["pos"]
      /\ t = "loop" => /\ r["pos"] = mem["pos"] /\ m["pos"] = mem["pos"]
                       /\ \A i \in 1 .. Len(q) : q[i].op # "store"
      /\ t = "ui" => Len(q) = 1
  BY <1>1, ApplyFacts
<1>7. /\ r["start"] \in Nat /\ r["end"] \in Nat /\ r["pstart"] \in Nat /\ r["pend"] \in Nat
      /\ r["pos"] \in Nat /\ p.start = r["pstart"] /\ p.end = r["pend"]
      /\ NoFragment.start = 0 /\ NoFragment.end = 0
      /\ Len(q) > 1 => k["result"] = Result(r)
  BY <1>4 DEF Registry, Cells, Interval, NoFragment
<1>8. m["start"] = r["start"] /\ m["end"] = r["end"] /\ m["pstart"] = r["pstart"] /\ m["pend"] = r["pend"]
      /\ m["pos"] \in Int /\ mem["pos"] \in Int /\ m["gen"] = mem["gen"]
  BY <1>1, <1>2, <1>6, SettledTypes DEF Accesses, Apart, Cells
<1>9. Whole(m) /\ Anchored(m)
  BY <1>2 DEF Quiet
<1>10. m["start"] <= m["pos"] /\ m["pos"] <= m["end"]
  BY <1>9 DEF Whole
<1>11. Head(q).op # "store" /\ Head(q).op # "accept" /\ Head(q).op # "track" /\ ~Idle(t)
  BY <1>2
<1> HIDE DEF q, r, s, k, p
<1>12. Reached(r) => /\ m["pend"] > m["pstart"] /\ m["pend"] \in Int
                     /\ m["pos"] = m["end"] /\ m["pstart"] = m["pos"]
                     /\ mem["pos"] = m["pos"]
                     /\ ~Fresh(m) /\ PendingOf(m) \in given /\ m["pend"] <= Answered
                     /\ PendingOf(m) # NoFragment
  <2>1. SUFFICES ASSUME Reached(r)
                 PROVE  /\ m["pend"] > m["pstart"] /\ m["pend"] \in Int
                        /\ m["pos"] = m["end"] /\ m["pstart"] = m["pos"]
                        /\ mem["pos"] = m["pos"]
                        /\ ~Fresh(m) /\ PendingOf(m) \in given /\ m["pend"] <= Answered
                        /\ PendingOf(m) # NoFragment
    OBVIOUS
  <2>2. /\ m["pstart"] # 0 /\ m["pend"] > m["pstart"] /\ m["pend"] \in Int
        /\ m["pstart"] <= r["pos"]
    BY <1>7, <1>8, <2>1 DEF Reached
  <2>3. PendingOf(m) # NoFragment
    BY <2>2 DEF PendingOf, NoFragment, Interval
  <2>4. PendingOf(m) \in given /\ m["pstart"] >= m["end"] /\ m["pend"] <= Answered
    BY <1>9, <2>3 DEF Whole
  <2>5. m["pos"] = m["end"] /\ m["pstart"] = m["pos"] /\ mem["pos"] = m["pos"]
    BY <1>6, <1>7, <1>8, <1>10, <2>2, <2>4
  <2>6. ~Fresh(m)
    <3>1. SUFFICES ASSUME Fresh(m) PROVE FALSE
      OBVIOUS
    <3>2. m["pos"] = last.target /\ SpanOf(m) = TargetSpan
      BY <1>9, <3>1 DEF Anchored
    <3>3. m["end"] = last.target + Fragment
      BY <3>2 DEF SpanOf, TargetSpan, Interval
    <3>4. QED
      BY <1>8, <2>5, <3>2, <3>3, ConstantsAssumption
  <2>7. QED
    BY <2>2, <2>3, <2>4, <2>5, <2>6
<1>13. Result(r) = r["pos"] \/ t # "loop"
  <2>1. SUFFICES ASSUME t = "loop" PROVE Result(r) = r["pos"]
    OBVIOUS
  <2>2. r["start"] <= r["pos"] /\ r["pos"] <= r["end"]
    BY <1>6, <1>8, <1>10, <2>1
  <2>3. CASE Reached(r)
    BY <1>7, <2>3 DEF Result, Reached, Clamp
  <2>4. CASE ~Reached(r)
    BY <1>7, <2>2, <2>4 DEF Result, Clamp
  <2>5. QED
    BY <2>3, <2>4
<1>14. /\ ops \in Seq(Ops)
       /\ \A i \in 1 .. Len(ops) : ops[i].op = "store" /\ ~StoreOf(ops[i], "pos")
       /\ \A i \in 1 .. Len(ops) : Reached(r)
       /\ \A i \in 1 .. Len(ops) : StoreOf(ops[i], "start") => ops[i].val = r["pstart"]
  <2>1. CASE Reached(r)
    <3>1. ops = SetSpan(p) \o SetPending(NoFragment)
      BY <2>1 DEF ApplyStores, p
    <3>2. /\ ops \in Seq(Ops) /\ Len(ops) = 4
          /\ ops[1] = Store("start", r["pstart"]) /\ ops[2] = Store("end", r["pend"])
          /\ ops[3] = Store("pstart", 0) /\ ops[4] = Store("pend", 0)
      BY <1>7, <3>1, SpanList
    <3> HIDE DEF ops
    <3>3. QED
      BY <2>1, <3>2 DEF Store, StoreOf
  <2>2. CASE ~Reached(r)
    <3>1. ops = <<>>
      BY <2>2 DEF ApplyStores
    <3>2. QED
      BY <3>1, EmptyStores
  <2>3. QED
    BY <2>1, <2>2
<1>15. IF Reached(r)
       THEN /\ FutureOf(ops, "start") = {r["pstart"]} /\ FutureOf(ops, "end") = {r["pend"]}
            /\ FutureOf(ops, "pstart") = {0} /\ FutureOf(ops, "pend") = {0}
            /\ FutureOf(ops, "pos") = {} /\ FutureOf(ops, "gen") = {}
       ELSE \A c \in Cells : FutureOf(ops, c) = {}
  <2>1. CASE Reached(r)
    <3>1. ops = SetSpan(p) \o SetPending(NoFragment)
      BY <2>1 DEF ApplyStores, p
    <3> HIDE DEF ops
    <3>2. QED
      BY <1>7, <2>1, <3>1, SpanFuture
  <2>2. CASE ~Reached(r)
    <3>1. ops = <<>>
      BY <2>2 DEF ApplyStores
    <3>2. QED
      BY <2>2, <3>1, EmptyFuture
  <2>3. QED
    BY <2>1, <2>2
<1> HIDE DEF ops
<1>16. PICK n : n = Settled'
  OBVIOUS
<1>17. Single' /\ \A c \in Cells : IF FutureOf(ops, c) = {} THEN n[c] = m[c]
                                   ELSE FutureOf(ops, c) = {n[c]}
  <2>1. \A c \in Cells : FutureOf(ops, c) = {}
                         \/ (Future(c) = {} /\ \E v : FutureOf(ops, c) = {v})
    BY <1>6, <1>15 DEF Cells
  <2>2. todo' = [todo EXCEPT ![t] = ops \o Tail(todo[t])] /\ Head(todo[t]).op # "store"
    BY <1>3, <1>11 DEF s, q
  <2>3. Typed /\ Single /\ UNCHANGED mem
    BY <1>2, <1>3 DEF Accesses, Apart
  <2>4. QED
    BY <1>1, <1>11, <1>14, <1>16, <2>1, <2>2, <2>3, Expanded
<1>18. n["pos"] = m["pos"] /\ n["gen"] = m["gen"]
  BY <1>15, <1>17 DEF Cells
<1>19. IF Reached(r)
       THEN n["start"] = m["pstart"] /\ n["end"] = m["pend"] /\ n["pstart"] = 0 /\ n["pend"] = 0
       ELSE n["start"] = m["start"] /\ n["end"] = m["end"]
            /\ n["pstart"] = m["pstart"] /\ n["pend"] = m["pend"]
  BY <1>8, <1>15, <1>17 DEF Cells
<1>20. Accepting' <=> Accepting
  BY <1>2, <1>3, <1>11, <1>14, AcceptingNext DEF Accesses, s, q
<1>21. Answered' = Answered /\ TargetSpan' = TargetSpan /\ Fresh(n)' = Fresh(m)
  BY <1>2, <1>3, <1>18, <1>20 DEF Answered, TargetSpan, Fresh
<1>22. IF Reached(r) THEN SpanOf(n) = PendingOf(m) /\ PendingOf(n) = NoFragment
       ELSE SpanOf(n) = SpanOf(m) /\ PendingOf(n) = PendingOf(m)
  BY <1>19 DEF SpanOf, PendingOf, NoFragment
<1>23. Whole(n)'
  <2>1. CASE Reached(r)
    <3>1. n["start"] <= n["pos"] /\ n["pos"] <= n["end"] /\ n["gen"] # 0
      BY <1>8, <1>9, <1>12, <1>18, <1>19, <2>1 DEF Whole
    <3>2. SpanOf(n) \in given /\ n["end"] <= Answered
      BY <1>12, <1>19, <1>22, <2>1
    <3>3. IF Accepting THEN last.fragment = Interval(Answered, due)
          ELSE last.fragment = SpanOf(n)
      BY <1>9, <1>12, <1>22, <2>1 DEF Whole
    <3>4. QED
      BY <1>2, <1>20, <1>21, <1>22, <2>1, <3>1, <3>2, <3>3 DEF Whole
  <2>2. CASE ~Reached(r)
    BY <1>2, <1>9, <1>18, <1>19, <1>20, <1>21, <1>22, <2>2 DEF Whole
  <2>3. QED
    BY <2>1, <2>2
<1>24. t = "ui" => todo'["reader"] = todo["reader"] /\ reg'["reader"] = reg["reader"]
  BY <1>5 DEF Threads
<1>25. t = "loop" => todo["reader"] = <<>> /\ todo'["reader"] = <<>> /\ todo'["ui"] = <<>>
  BY <1>2, <1>5 DEF Threads
<1>26. todo'["reader"] = todo["reader"]
  BY <1>6, <1>24, <1>25
<1>27. Anchored(n)'
  <2>1. Fresh(m) => SpanOf(n) = SpanOf(m)
    BY <1>12, <1>22
  <2>2. QED
    BY <1>2, <1>3, <1>9, <1>18, <1>21, <1>26, <2>1 DEF Anchored, Idle
<1>28. t = "ui" => /\ \A i \in 1 .. Len(s) : s[i].op = "store"
                   /\ \A i \in 1 .. Len(s) : /\ Reached(r)
                                             /\ StoreOf(s[i], "start") => s[i].val = r["pstart"]
  <2>1. SUFFICES ASSUME t = "ui"
                 PROVE  \A i \in 1 .. Len(s) : /\ s[i].op = "store" /\ Reached(r)
                                               /\ StoreOf(s[i], "start") => s[i].val = r["pstart"]
    OBVIOUS
  <2>2. Len(s) = Len(ops) /\ \A i \in 1 .. Len(s) : s[i] = ops[i] /\ s[i].op = "store"
    BY <1>4, <1>6, <1>14, <2>1, OnlyOps DEF s
  <2>3. QED
    BY <1>14, <2>2
<1>29. Forward(n)'
  <2>1. CASE t = "ui"
    <3>1. Forward(m) /\ Idle("loop")
      BY <1>2, <2>1 DEF Quiet, Idle
    <3>2. mem["end"] <= n["end"] /\ (Reached(r) => r["pstart"] = mem["pos"])
      BY <1>6, <1>7, <1>8, <1>12, <1>19
    <3>3. /\ mem["start"] <= mem["pos"] /\ mem["pos"] <= mem["end"]
          /\ Fresh(m) => SpanOf(mem) = TargetSpan
          /\ \A i \in 1 .. Len(todo["reader"]) : todo["reader"][i].op = "store" =>
                /\ mem["pos"] <= todo["reader"][i].val /\ todo["reader"][i].val <= mem["end"]
      BY <3>1 DEF Forward
    <3>4. \A i \in 1 .. Len(s) : s[i].op = "store" =>
              /\ ~Fresh(m)
              /\ StoreOf(s[i], "start") => s[i].val <= mem["pos"]
      BY <1>7, <1>8, <1>12, <1>28, <2>1, <3>2
    <3>5. todo'["ui"] = s
      BY <1>5, <2>1
    <3>6. QED
      BY <1>3, <1>21, <1>26, <3>2, <3>3, <3>4, <3>5 DEF Forward, StoreOf, SpanOf
  <2>2. CASE t = "loop"
    <3>1. SUFFICES ASSUME Idle("loop")' PROVE Forward(n)'
      BY DEF Forward
    <3>2. AtRest'
      BY <1>25, <2>2, <3>1 DEF AtRest, Idle, Threads
    <3>3. n["end"] \in Int
      BY <1>7, <1>8, <1>19
    <3>4. QED
      BY <1>16, <1>23, <1>27, <3>2, <3>3, RestForward
  <2>3. QED
    BY <1>6, <2>1, <2>2
<1>30. /\ UiCalm(todo'["ui"], reg'["ui"], mem')
       /\ t = "ui" => Stepwise(s)
  <2>1. CASE t = "ui"
    BY <1>5, <1>28, <2>1, StoresCalm
  <2>2. CASE t = "loop"
    BY <1>25, <2>2, EmptyStores DEF UiCalm
  <2>3. QED
    BY <1>6, <2>1, <2>2
<1>31. ReaderCalm(todo'["reader"], reg'["reader"], mem', Fresh(n)', last'.target)
  <2>1. CASE t = "ui"
    BY <1>2, <1>3, <1>21, <1>24, <2>1 DEF Quiet
  <2>2. CASE t = "loop"
    BY <1>25, <2>2, EmptyStores DEF ReaderCalm
  <2>3. QED
    BY <1>6, <2>1, <2>2
<1>32. LoopCalm(todo'["loop"], reg'["loop"], mem', Answered')
  <2>1. CASE t = "ui"
    BY <1>2, <1>5, <2>1, EmptyStores DEF LoopCalm, Threads
  <2>2. CASE t = "loop"
    <3>1. todo'["loop"] = s /\ todo["loop"] = q /\ reg["loop"] = r /\ reg'["loop"] = k
      BY <1>5, <2>2 DEF q, r
    <3>2. LoopCalm(q, r, mem, Answered) /\ LoopReady(q, r)
      BY <1>2, <3>1 DEF Quiet, Accesses
    <3>3. /\ Len(s) = Len(ops) + Len(q) - 1 /\ Len(s) \in Nat /\ Len(ops) \in Nat
          /\ \A i \in 1 .. Len(ops) : i \in 1 .. Len(s) /\ s[i] = ops[i]
          /\ \A i \in 1 .. Len(s) : i > Len(ops) =>
                i - Len(ops) + 1 \in 2 .. Len(q) /\ s[i] = q[i - Len(ops) + 1]
      BY <1>4, <1>14, Replaced DEF s
    <3>4. q[1].op = "apply"
      BY <1>4 DEF q
    <3>5. \A j \in 2 .. Len(q) : q[j].op # "apply"
      BY <1>4, <3>2, <3>4 DEF LoopReady
    <3>6. \A i \in 1 .. Len(s) : i > Len(ops) \/ i \in 1 .. Len(ops)
      BY <3>3
    <3>7. \A i \in 1 .. Len(s) : s[i].op # "apply" /\ ~StoreOf(s[i], "pos")
      <4>1. SUFFICES ASSUME NEW i \in 1 .. Len(s)
                     PROVE  s[i].op # "apply" /\ ~StoreOf(s[i], "pos")
        OBVIOUS
      <4>2. CASE i \in 1 .. Len(ops)
        <5>1. s[i] = ops[i] /\ ops[i].op = "store" /\ ~StoreOf(ops[i], "pos")
          BY <1>14, <3>3, <4>2
        <5>2. QED
          BY <5>1
      <4>3. CASE i > Len(ops)
        <5>1. PICK j \in 2 .. Len(q) : s[i] = q[j]
          BY <3>3, <4>3
        <5>2. j \in 1 .. Len(q)
          BY <1>4
        <5>3. QED
          BY <1>6, <2>2, <3>5, <5>1, <5>2 DEF StoreOf
      <4>4. QED
        BY <3>6, <4>2, <4>3
    <3>8. ASSUME NEW i \in 1 .. Len(s), s[i].op \in {"accept", "keep"}
          PROVE  k["result"] = mem["pos"] /\ (s[i].op = "accept" => s[i].val = Answered)
      <4>1. PICK j \in 2 .. Len(q) : s[i] = q[j]
        BY <1>14, <3>3, <3>6, <3>8
      <4>2. Len(q) > 1 /\ j \in 1 .. Len(q)
        BY <1>4, <4>1
      <4>3. k["result"] = mem["pos"]
        BY <1>6, <1>7, <1>13, <2>2, <4>2
      <4>4. s[i].op = "accept" => s[i].val = Answered
        BY <3>2, <4>1, <4>2 DEF LoopCalm
      <4>5. QED
        BY <4>3, <4>4
    <3>9. LoopCalm(s, k, mem, Answered)
      BY <3>7, <3>8 DEF LoopCalm
    <3>10. QED
      BY <1>3, <1>21, <3>1, <3>9
  <2>3. QED
    BY <1>6, <2>1, <2>2
<1>33. Apart'
  <2>1. rtp'.gen <= mem'["gen"] /\ rtp'.gen <= Settled'["gen"]
    BY <1>1, <1>2, <1>3, <1>16, <1>18 DEF Apart
  <2>2. t # "loop" => Stepwise(s)
    BY <1>6, <1>30
  <2>3. QED
    BY <1>2, <1>3, <1>17, <2>1, <2>2, ApartNext
<1>34. Quiet(n)'
  BY <1>23, <1>27, <1>29, <1>30, <1>31, <1>32 DEF Quiet
<1>35. QED
  BY <1>2, <1>16, <1>33, <1>34 DEF CalmQuiet

(* The loop's last computation of an operation, and the stores it leaves.  *)
LEMMA LoopLast ==
    ASSUME Accesses, CalmQuiet, calm, NEW t \in Threads, Access(t),
           Head(todo[t]).op \in {"accept", "keep"}, NEW m, m = Settled
    PROVE  /\ t = "loop" /\ Len(todo[t]) = 1
           /\ \A c \in Cells : Future(c) = {} /\ m[c] = mem[c]
           /\ reg[t]["result"] = mem["pos"]
           /\ Head(todo[t]).op = "accept" =>
                 reg[t]["start"] # 0 /\ Head(todo[t]).val = Answered /\ Accepting
<1> DEFINE q == todo[t]
           r == reg[t]
<1>1. /\ given # {} /\ Apart /\ Quiet(m) /\ ~Idle(t)
      /\ t = "loop" => todo["ui"] = <<>> /\ todo["reader"] = <<>>
  BY CalmAccess
<1>2. /\ AccessOK(t, Head(q)) /\ q[1] = Head(q) /\ 1 \in 1 .. Len(q) /\ q \in Seq(Ops)
      /\ q[1].op \in {"accept", "keep"} /\ Len(q) \in Nat
  BY <1>1, BeforeAccess
<1>3. t = "loop"
  BY <1>2 DEF AccessOK
<1>4. LoopReady(q, r) /\ LoopCalm(q, r, mem, Answered)
  BY <1>1, <1>3 DEF Accesses, Quiet
<1>5. ~Applies(q, 1)
  BY DEF Applies
<1>6. Accepting <=> q[1].op = "accept"
  <2>1. Len(q) = 1
    BY <1>2, <1>4 DEF LoopReady
  <2>2. \A i \in 1 .. Len(q) : i = 1
    BY <2>1
  <2>3. q = todo["loop"]
    BY <1>3
  <2> HIDE DEF q
  <2>4. QED
    BY <1>2, <2>2, <2>3 DEF Accepting
<1> HIDE DEF q, r
<1>7. Len(q) = 1
  BY <1>2, <1>4 DEF LoopReady
<1>8. r["result"] = mem["pos"] /\ (q[1].op = "accept" => q[1].val = Answered)
  BY <1>2, <1>4, <1>5 DEF LoopCalm
<1>9. q[1].op = "accept" => r["start"] # 0
  BY <1>2, <1>4 DEF LoopReady
<1>10. \A c : FutureOf(q, c) = {}
  <2>1. \A i \in 1 .. Len(q) : i = 1
    BY <1>7
  <2>2. q[1].op # "store"
    BY <1>2
  <2>3. \A c : \A i \in 1 .. Len(q) : ~StoreOf(q[i], c)
    BY <2>1, <2>2 DEF StoreOf
  <2>4. QED
    BY <2>3, FutureNone
<1>11. ASSUME NEW c \in Cells
       PROVE  Future(c) = {} /\ m[c] = mem[c]
  <2>1. todo["loop"] = q
    BY <1>3 DEF q
  <2>2. Future(c) = {}
    BY <1>1, <1>3, <1>10, <2>1, EmptyFuture DEF Future
  <2>3. QED
    BY <1>1, <2>2, SettledFacts DEF Apart
<1>12. QED
  BY <1>2, <1>3, <1>6, <1>7, <1>8, <1>9, <1>11 DEF q, r

LEMMA LoopStores ==
    ASSUME Accesses, CalmQuiet, calm, Access("loop"), Len(todo["loop"]) = 1,
           Head(todo["loop"]).op # "store",
           NEW ops \in Seq(Ops), \A i \in 1 .. Len(ops) : ops[i].op = "store", ops # <<>>,
           todo' = [todo EXCEPT !["loop"] = ops \o Tail(todo["loop"])],
           UNCHANGED <<mem, rtp>>, NEW m, m = Settled, NEW n, n = Settled', Single',
           n["gen"] = m["gen"], n["pos"] = m["pos"], Whole(n)',
           Fresh(m) => SpanOf(n) = SpanOf(m)
    PROVE  CalmQuiet'
<1>1. /\ given # {} /\ Apart /\ Quiet(m) /\ ~Idle("loop")
      /\ UNCHANGED <<calm, stream, due, given, last, used>>
      /\ todo["ui"] = <<>> /\ todo["reader"] = <<>>
  BY CalmAccess DEF Threads
<1>2. PICK s : s = ops \o Tail(todo["loop"])
  OBVIOUS
<1>3. todo["loop"] \in Seq(Ops) /\ todo["loop"] # <<>>
  BY <1>1 DEF Accesses, Typed, Threads, Idle
<1>4. Len(s) = Len(ops) /\ \A i \in 1 .. Len(s) : s[i].op = "store"
  BY <1>2, <1>3, OnlyOps
<1>5. todo'["loop"] = s /\ todo'["ui"] = <<>> /\ todo'["reader"] = <<>>
  BY <1>1, <1>2 DEF Accesses, Typed, Threads
<1>6. s # <<>>
  <2>1. Len(ops) # 0
    OBVIOUS
  <2>2. Len(s) # Len(<<>>)
    BY <1>4, <2>1
  <2>3. QED
    BY <2>2
<1>7. ~Idle("loop")'
  BY <1>5, <1>6 DEF Idle
<1>8. Apart'
  <2>1. rtp'.gen <= mem'["gen"] /\ rtp'.gen <= Settled'["gen"]
    BY <1>1 DEF Apart
  <2>2. todo' = [todo EXCEPT !["loop"] = s]
    BY <1>2
  <2>3. QED
    BY <1>1, <2>1, <2>2, ApartNext DEF Threads
<1>9. Fresh(n)' = Fresh(m) /\ TargetSpan' = TargetSpan
  BY <1>1 DEF Fresh, TargetSpan
<1>10. Anchored(n)'
  BY <1>1, <1>5, <1>9 DEF Quiet, Anchored, Idle
<1>11. Forward(n)'
  BY <1>7 DEF Forward
<1>12. /\ UiCalm(todo'["ui"], reg'["ui"], mem')
       /\ ReaderCalm(todo'["reader"], reg'["reader"], mem', Fresh(n)', last'.target)
  BY <1>5, EmptyStores DEF UiCalm, ReaderCalm
<1>13. LoopCalm(todo'["loop"], reg'["loop"], mem', Answered')
  BY <1>4, <1>5, StoresCalm
<1>14. Quiet(n)'
  BY <1>10, <1>11, <1>12, <1>13 DEF Quiet
<1>15. QED
  BY <1>1, <1>8, <1>14 DEF CalmQuiet

LEMMA AcceptCalm ==
    ASSUME Accesses, CalmQuiet, calm, NEW t \in Threads, Access(t), Head(todo[t]).op = "accept"
    PROVE  CalmQuiet'
<1> DEFINE f == Interval(Answered, due)
           q == todo["loop"]
           r == reg["loop"]
<1>1. PICK m : m = Settled
  OBVIOUS
<1>2. PICK ops : ops = AcceptStores(r, f)
  OBVIOUS
<1>3. /\ t = "loop" /\ Len(q) = 1
      /\ \A c \in Cells : Future(c) = {} /\ m[c] = mem[c]
      /\ r["result"] = mem["pos"] /\ r["start"] # 0
      /\ Head(q).val = Answered /\ Accepting
  BY <1>1, LoopLast
<1>4. /\ given # {} /\ Apart /\ Quiet(m) /\ ~Idle("loop")
      /\ UNCHANGED <<calm, stream, due, given, last, used>>
  BY <1>1, <1>3, CalmAccess
<1>5. due \in Nat /\ due # 0 /\ Fragment \in Nat /\ Fragment # 0
      /\ last.target \in Nat
  BY <1>4, ConstantsAssumption DEF Accesses, Content, Instants
<1>6. Answered = due - Fragment /\ Answered \in Int /\ Answered + Fragment = due
  BY <1>3, <1>5 DEF Answered
<1>7. f \in given /\ Answered \in Nat
  <2>1. /\ AccessOK("loop", Head(q)) /\ Head(q) \in Ops
    BY <1>4, BeforeAccess DEF Threads
  <2>2. QED
    BY <1>3, <1>6, <2>1 DEF AccessOK, Ops
<1>8. /\ UNCHANGED <<mem, rtp>> /\ Head(q).op # "store"
      /\ todo' = [todo EXCEPT !["loop"] = ops \o Tail(q)]
  BY <1>2, <1>3, <1>6 DEF Access, Rest
<1>9. /\ mem["pos"] \in Int /\ m["pos"] \in Int /\ m["start"] \in Int /\ m["end"] \in Int
      /\ m["pos"] = mem["pos"]
  BY <1>1, <1>3, <1>4, SettledTypes DEF Accesses, Apart, Cells
<1>10. f.start = Answered /\ f.end = due /\ NoFragment.start = 0 /\ NoFragment.end = 0
  BY DEF Interval, NoFragment
<1>11. Whole(m) /\ Anchored(m)
  BY <1>4 DEF Quiet
<1>12. last.fragment = f
  BY <1>3, <1>11 DEF Whole
<1>13. ops = IF Within(m["pos"], f) THEN SetSpan(f) \o SetPending(NoFragment) ELSE SetPending(f)
  BY <1>2, <1>3, <1>9 DEF AcceptStores
<1> HIDE DEF f, q, r
<1>14. /\ ops \in Seq(Ops) /\ Len(ops) # 0
       /\ \A i \in 1 .. Len(ops) : ops[i].op = "store"
  <2>1. CASE Within(m["pos"], f)
    <3>1. /\ ops \in Seq(Ops) /\ Len(ops) = 4
          /\ ops[1] = Store("start", f.start) /\ ops[2] = Store("end", f.end)
          /\ ops[3] = Store("pstart", 0) /\ ops[4] = Store("pend", 0)
      BY <1>5, <1>7, <1>10, <1>13, <2>1, SpanList
    <3>2. QED
      BY <3>1 DEF Store
  <2>2. CASE ~Within(m["pos"], f)
    <3>1. /\ ops \in Seq(Ops) /\ Len(ops) = 2
          /\ ops[1] = Store("pstart", f.start) /\ ops[2] = Store("pend", f.end)
      BY <1>5, <1>7, <1>10, <1>13, <2>2, PendingList
    <3>2. QED
      BY <3>1 DEF Store
  <2>3. QED
    BY <2>1, <2>2
<1>15. IF Within(m["pos"], f)
       THEN /\ FutureOf(ops, "start") = {Answered} /\ FutureOf(ops, "end") = {due}
            /\ FutureOf(ops, "pstart") = {0} /\ FutureOf(ops, "pend") = {0}
            /\ FutureOf(ops, "pos") = {} /\ FutureOf(ops, "gen") = {}
       ELSE /\ FutureOf(ops, "start") = {} /\ FutureOf(ops, "end") = {}
            /\ FutureOf(ops, "pstart") = {Answered} /\ FutureOf(ops, "pend") = {due}
            /\ FutureOf(ops, "pos") = {} /\ FutureOf(ops, "gen") = {}
  <2>1. CASE Within(m["pos"], f)
    <3>1. ops = SetSpan(f) \o SetPending(NoFragment)
      BY <1>13, <2>1
    <3>2. QED
      BY <1>5, <1>7, <1>10, <2>1, <3>1, SpanFuture
  <2>2. CASE ~Within(m["pos"], f)
    <3>1. ops = SetPending(f)
      BY <1>13, <2>2
    <3>2. QED
      BY <1>5, <1>7, <1>10, <2>2, <3>1, SpanFuture
  <2>3. QED
    BY <2>1, <2>2
<1>16. PICK n : n = Settled'
  OBVIOUS
<1>17. Single' /\ \A c \in Cells : IF FutureOf(ops, c) = {} THEN n[c] = m[c]
                                   ELSE FutureOf(ops, c) = {n[c]}
  <2>1. \A c \in Cells : FutureOf(ops, c) = {}
                         \/ (Future(c) = {} /\ \E v : FutureOf(ops, c) = {v})
    BY <1>3, <1>15 DEF Cells
  <2>2. Typed /\ Single /\ UNCHANGED mem /\ "loop" \in Threads
    BY <1>4, <1>8 DEF Accesses, Apart, Threads
  <2>3. todo' = [todo EXCEPT !["loop"] = ops \o Tail(todo["loop"])] /\ Head(todo["loop"]).op # "store"
    BY <1>8 DEF q
  <2>4. QED
    BY <1>1, <1>4, <1>14, <1>16, <2>1, <2>2, <2>3, Expanded
<1>18. n["pos"] = m["pos"] /\ n["gen"] = m["gen"]
  BY <1>15, <1>17 DEF Cells
<1>19. IF Within(m["pos"], f)
       THEN n["start"] = Answered /\ n["end"] = due /\ n["pstart"] = 0 /\ n["pend"] = 0
       ELSE n["start"] = m["start"] /\ n["end"] = m["end"]
            /\ n["pstart"] = Answered /\ n["pend"] = due
  BY <1>15, <1>17 DEF Cells
<1>20. IF Within(m["pos"], f) THEN SpanOf(n) = f /\ PendingOf(n) = NoFragment
       ELSE SpanOf(n) = SpanOf(m) /\ PendingOf(n) = f
  BY <1>19 DEF SpanOf, PendingOf, NoFragment, f
<1>21. ~Accepting'
  <2>1. \A i \in 1 .. Len(todo'["loop"]) : todo'["loop"][i].op = "store"
    <3>1. todo["loop"] \in Seq(Ops) /\ todo["loop"] # <<>>
      BY <1>4 DEF Accesses, Typed, Threads, Idle
    <3>2. todo'["loop"] = ops \o Tail(todo["loop"])
      BY <1>8 DEF q, Accesses, Typed, Threads
    <3>3. Len(todo["loop"]) = 1
      BY <1>3 DEF q
    <3>4. QED
      BY <1>14, <3>1, <3>2, <3>3, OnlyOps
  <2>2. QED
    BY <2>1 DEF Accepting
<1>22. Answered' = due /\ TargetSpan' = TargetSpan
  BY <1>4, <1>21 DEF Answered, TargetSpan
<1>23. m["end"] <= Answered \/ (Within(m["pos"], f) /\ Answered = last.target)
  <2>1. CASE m["end"] <= Answered
    BY <2>1
  <2>2. CASE Answered = last.target /\ m["pos"] = last.target
    BY <1>5, <1>6, <1>10, <2>2 DEF Within
  <2>3. QED
    BY <1>11, <2>1, <2>2 DEF Whole
<1>24. f # NoFragment
  BY <1>5, <1>10
<1>25. Whole(n)'
  <2>1. n["gen"] # 0 /\ m["start"] <= m["pos"] /\ m["pos"] <= m["end"] /\ SpanOf(m) \in given
    BY <1>11, <1>18 DEF Whole
  <2>2. CASE Within(m["pos"], f)
    <3>1. n["start"] <= n["pos"] /\ n["pos"] <= n["end"] /\ n["end"] <= due
      BY <1>5, <1>10, <1>18, <1>19, <2>2 DEF Within
    <3>2. QED
      BY <1>4, <1>7, <1>12, <1>20, <1>21, <1>22, <2>1, <2>2, <3>1 DEF Whole
  <2>3. CASE ~Within(m["pos"], f)
    <3>1. n["end"] <= n["pstart"] /\ n["pend"] <= due /\ n["end"] <= due /\ n["pstart"] >= n["end"]
      BY <1>5, <1>6, <1>9, <1>19, <1>23, <2>3
    <3>2. n["start"] <= n["pos"] /\ n["pos"] <= n["end"]
      BY <1>18, <1>19, <2>1, <2>3
    <3>3. QED
      BY <1>4, <1>7, <1>12, <1>20, <1>21, <1>22, <1>24, <2>1, <2>3, <3>1, <3>2 DEF Whole
  <2>4. QED
    BY <2>2, <2>3
<1>26. Fresh(m) => SpanOf(n) = SpanOf(m)
  <2>1. SUFFICES ASSUME Fresh(m), Within(m["pos"], f) PROVE SpanOf(n) = SpanOf(m)
    BY <1>20
  <2>2. m["pos"] = last.target /\ SpanOf(m) = TargetSpan
    BY <1>11, <2>1 DEF Anchored
  <2>3. m["end"] = last.target + Fragment
    BY <2>2 DEF SpanOf, TargetSpan, Interval
  <2>4. Answered = last.target
    BY <1>5, <1>6, <1>10, <1>23, <2>1, <2>2, <2>3 DEF Within
  <2>5. f = TargetSpan
    BY <1>6, <2>4 DEF f, TargetSpan
  <2>6. QED
    BY <1>20, <2>1, <2>2, <2>5
<1>27. ops # <<>>
  <2>1. Len(ops) # Len(<<>>)
    BY <1>14
  <2>2. QED
    BY <2>1
<1>28. Access("loop") /\ Len(todo["loop"]) = 1
  BY <1>3 DEF q
<1>29. Head(todo["loop"]).op # "store" /\ todo' = [todo EXCEPT !["loop"] = ops \o Tail(todo["loop"])]
  BY <1>8 DEF q
<1>30. QED
  BY <1>1, <1>8, <1>14, <1>16, <1>17, <1>18, <1>25, <1>26, <1>27, <1>28, <1>29, LoopStores

LEMMA KeepCalm ==
    ASSUME Accesses, CalmQuiet, calm, NEW t \in Threads, Access(t), Head(todo[t]).op = "keep"
    PROVE  CalmQuiet'
<1> DEFINE q == todo["loop"]
<1>1. PICK m : m = Settled
  OBVIOUS
<1>2. PICK ops : ops = <<Store("pos", mem["pos"])>>
  OBVIOUS
<1>3. /\ t = "loop" /\ Len(q) = 1
      /\ \A c \in Cells : Future(c) = {} /\ m[c] = mem[c]
      /\ reg["loop"]["result"] = mem["pos"]
  BY <1>1, LoopLast
<1>4. /\ given # {} /\ Apart /\ Quiet(m) /\ ~Idle("loop")
      /\ UNCHANGED <<calm, stream, due, given, last, used>>
  BY <1>1, <1>3, CalmAccess
<1>5. /\ UNCHANGED <<mem, rtp>> /\ Head(q).op # "store" /\ Head(q).op # "accept"
      /\ todo' = [todo EXCEPT !["loop"] = ops \o Tail(q)]
  BY <1>2, <1>3 DEF Access, Rest
<1>6. /\ ops \in Seq(Ops) /\ Len(ops) = 1 /\ ops[1] = Store("pos", mem["pos"])
  BY <1>2, AccessTypes DEF Accesses, Typed, Cells
<1>7. /\ \A i \in 1 .. Len(ops) : ops[i].op = "store" /\ (StoreOf(ops[i], "pos") /\ i = 1)
      /\ \A c \in Cells : c # "pos" => \A i \in 1 .. Len(ops) : ~StoreOf(ops[i], c)
      /\ 1 \in 1 .. Len(ops) /\ ops[1].val = mem["pos"]
  BY <1>6 DEF Store, StoreOf
<1>8. FutureOf(ops, "pos") = {mem["pos"]} /\ \A c \in Cells : c # "pos" => FutureOf(ops, c) = {}
  <2>1. FutureOf(ops, "pos") = {ops[1].val}
    BY <1>7, FutureOne
  <2>2. QED
    BY <1>7, <2>1, FutureNone
<1> HIDE DEF q
<1>9. PICK n : n = Settled'
  OBVIOUS
<1>10. Single' /\ \A c \in Cells : IF FutureOf(ops, c) = {} THEN n[c] = m[c]
                                   ELSE FutureOf(ops, c) = {n[c]}
  <2>1. \A c \in Cells : FutureOf(ops, c) = {}
                         \/ (Future(c) = {} /\ \E v : FutureOf(ops, c) = {v})
    BY <1>3, <1>8
  <2>2. Typed /\ Single /\ UNCHANGED mem /\ "loop" \in Threads
    BY <1>4, <1>5 DEF Accesses, Apart, Threads
  <2>3. todo' = [todo EXCEPT !["loop"] = ops \o Tail(todo["loop"])] /\ Head(todo["loop"]).op # "store"
    BY <1>5 DEF q
  <2>4. QED
    BY <1>1, <1>4, <1>6, <1>9, <2>1, <2>2, <2>3, Expanded
<1>11. \A c \in Cells : n[c] = m[c]
  BY <1>3, <1>8, <1>10
<1>12. n = m
  BY <1>1, <1>9, <1>11 DEF Settled
<1>13. Accepting' <=> Accepting
  <2>1. "loop" \in Threads /\ Head(todo["loop"]).op # "accept"
    BY <1>5 DEF q, Threads
  <2>2. todo' = [todo EXCEPT !["loop"] = ops \o Tail(todo["loop"])]
    BY <1>5 DEF q
  <2>3. QED
    BY <1>4, <1>6, <1>7, <2>1, <2>2, AcceptingNext DEF Accesses
<1>14. Whole(n)'
  BY <1>4, <1>12, <1>13, WholeSame DEF Quiet
<1>15. ops # <<>>
  <2>1. Len(ops) # Len(<<>>)
    BY <1>6
  <2>2. QED
    BY <2>1
<1>16. Access("loop") /\ Len(todo["loop"]) = 1 /\ Head(todo["loop"]).op # "store"
       /\ todo' = [todo EXCEPT !["loop"] = ops \o Tail(todo["loop"])]
  BY <1>3, <1>5 DEF q
<1>17. QED
  BY <1>1, <1>5, <1>6, <1>7, <1>9, <1>10, <1>12, <1>14, <1>15, <1>16, LoopStores

(* The reader moves the playhead forward, to the packet or to the end of   *)
(* the span, and is then anchored.                                         *)
LEMMA TrackFacts ==
    ASSUME Accesses, CalmQuiet, calm, NEW t \in Threads, Access(t), Head(todo[t]).op = "track",
           NEW m, m = Settled, NEW c, c = Head(todo[t]).val,
           NEW ops, ops = TrackStores(reg[t], c).stores
    PROVE  /\ t = "reader" /\ Len(todo[t]) = 1 /\ Future("pos") = {} /\ m["pos"] = mem["pos"]
           /\ c \in Nat /\ c < stream.next /\ m["pos"] <= mem["end"]
           /\ m["end"] <= Answered /\ rtp'.gen = m["gen"] /\ mem["gen"] = m["gen"]
           /\ rtp'.anchored /\ rtp'.real = rtp'.ref
           /\ ops \in Seq(Ops)
           /\ \E v \in Nat :
                 /\ m["pos"] <= v /\ v <= mem["end"] /\ v <= c
                 /\ \A i \in 1 .. Len(ops) : ops[i] = Store("pos", v)
<1> DEFINE q == todo[t]
           r == reg[t]
<1>1. /\ given # {} /\ Apart /\ Quiet(m) /\ ~Idle(t) /\ Single
  BY CalmAccess DEF Apart
<1>2. /\ AccessOK(t, Head(q)) /\ Head(q) \in Ops /\ q[1] = Head(q) /\ 1 \in 1 .. Len(q)
      /\ q \in Seq(Ops) /\ Len(q) \in Nat /\ r \in [Registry -> Nat]
  BY <1>1, BeforeAccess
<1>3. t = "reader" /\ Loaded(c) /\ c \in Nat
  BY <1>2 DEF AccessOK, Ops
<1>4. Idle("loop") /\ c # 0
  <2>1. c # 0
    BY <1>3, KnownFacts DEF Accesses
  <2>2. QED
    BY <1>1, <1>3, <2>1, CalmAccess DEF Idle
<1>5. /\ r["gen"] = mem["gen"] /\ m["gen"] = mem["gen"]
      /\ r["gen"] = rtp.gen => rtp.anchored /\ rtp.real = rtp.ref
  BY <1>1, <1>3, AnchorTrue
<1>6. q = todo["reader"] /\ r = reg["reader"] /\ q[1].op = "track" /\ q[1].val = c
  BY <1>2, <1>3
<1> HIDE DEF q, r
<1>7. Len(q) = 1 /\ \A i \in 1 .. Len(q) : i = 1
  <2>1. Stepwise(q)
    BY <1>1, <1>6 DEF Apart
  <2>2. Len(q) = 1
    BY <1>2, <1>6, <2>1 DEF Stepwise
  <2>3. QED
    BY <2>2
<1>8. \A d : ~Will(q, 1, d)
  BY DEF Will
<1>9. ReaderCalm(q, r, mem, Fresh(m), last.target)
  BY <1>1, <1>6 DEF Quiet
<1>10. /\ r["start"] <= mem["pos"] /\ (Fresh(m) => r["start"] = last.target)
       /\ mem["pos"] <= r["end"] /\ r["end"] <= mem["end"]
       /\ Fresh(m) => r["end"] = last.target + Fragment
  BY <1>2, <1>6, <1>8, <1>9 DEF ReaderCalm
<1>11. /\ r["start"] \in Nat /\ r["end"] \in Nat /\ r["gen"] \in Nat
       /\ mem["pos"] \in Int /\ mem["end"] \in Int /\ m["end"] \in Int
       /\ last.target \in Nat /\ Fragment \in Nat /\ Fragment # 0 /\ due \in Nat
  <2>1. r["start"] \in Nat /\ r["end"] \in Nat /\ r["gen"] \in Nat
    BY <1>2 DEF Registry, Cells
  <2>2. mem["pos"] \in Int /\ mem["end"] \in Int /\ m["end"] \in Int
    BY <1>1, SettledTypes DEF Accesses, Cells
  <2>3. QED
    BY <2>1, <2>2, ConstantsAssumption DEF Accesses, Content, Instants
<1>12. Future("pos") = {} /\ m["pos"] = mem["pos"]
  <2>1. FutureOf(todo["reader"], "pos") = {}
    <3>1. \A i \in 1 .. Len(q) : ~StoreOf(q[i], "pos")
      BY <1>6, <1>7 DEF StoreOf
    <3>2. QED
      BY <1>6, <3>1, FutureNone
  <2>2. FutureOf(todo["ui"], "pos") = {} /\ FutureOf(todo["loop"], "pos") = {}
    BY <1>4, Storing DEF Threads, Cells
  <2>3. Future("pos") = {}
    BY <2>1, <2>2 DEF Future
  <2>4. QED
    BY <1>1, <2>3, SettledFacts DEF Cells
<1>13. Anchored(m) /\ Whole(m)
  BY <1>1 DEF Quiet
<1>14. m["pos"] <= c /\ c < due /\ c < stream.next
  BY <1>2, <1>6, <1>13 DEF Anchored
<1>15. Fresh(m) => c = last.target /\ m["pos"] = last.target
  BY <1>6, <1>7, <1>1, <1>3, <1>13 DEF Anchored
<1>16. Answered = due /\ ~Accepting
  BY <1>4, EmptyStores DEF Answered, Accepting, Idle
<1>17. m["end"] <= Answered
  <2>1. ~(Answered = last.target /\ m["pos"] = last.target)
    BY <1>3, <1>11, <1>14, <1>16
  <2>2. QED
    BY <1>13, <2>1 DEF Whole
<1>18. r["gen"] # 0 /\ (Fresh(m) <=> NewSpan(r)) /\ (Tracks(r) <=> r["end"] > r["start"])
  BY <1>5, <1>13 DEF Whole, Fresh, NewSpan, Tracks
<1>19. rtp' = TrackStores(r, c).rtp
  BY DEF Access, r
<1> DEFINE anchored == ~NewSpan(r) /\ rtp.anchored
           real == IF Tracks(r) /\ ~anchored
                   THEN IF InSpan(r, c) THEN c ELSE r["start"]
                   ELSE IF NewSpan(r) THEN r["start"] ELSE rtp.real
           ref == IF Tracks(r) /\ ~anchored THEN c
                  ELSE IF NewSpan(r) THEN c ELSE rtp.ref
<1>20. rtp' = [gen |-> r["gen"], anchored |-> anchored \/ Tracks(r), real |-> real, ref |-> ref]
  BY <1>19, TrackForm
<1>21. /\ rtp'.gen = r["gen"] /\ rtp'.anchored = (anchored \/ Tracks(r))
       /\ rtp'.real = real /\ rtp'.ref = ref
  BY <1>20
<1>22. rtp'.gen = m["gen"]
  <2>1. rtp'.gen = r["gen"]
    BY <1>21
  <2>2. QED
    BY <1>5, <2>1
<1>23. rtp'.anchored /\ rtp'.real = rtp'.ref
  <2>1. CASE Fresh(m)
    <3>1. Tracks(r)
      BY <1>10, <1>11, <1>18, <2>1
    <3>2. InSpan(r, c)
      BY <1>10, <1>11, <1>15, <2>1 DEF InSpan
    <3>3. QED
      BY <1>18, <1>21, <2>1, <3>1, <3>2
  <2>2. CASE ~Fresh(m)
    <3>1. rtp.anchored /\ rtp.real = rtp.ref /\ ~NewSpan(r)
      BY <1>13, <1>18, <2>2 DEF Anchored
    <3>2. QED
      BY <1>21, <3>1
  <2>3. QED
    BY <2>1, <2>2
<1>24. ASSUME Tracks(r)
       PROVE  /\ PlacedAt(r, c) \in Nat /\ m["pos"] <= PlacedAt(r, c)
              /\ PlacedAt(r, c) <= mem["end"] /\ PlacedAt(r, c) <= c
              /\ Fresh(m) => PlacedAt(r, c) = r["start"]
  <2>1. r["end"] > r["start"]
    BY <1>18, <1>24
  <2>2. CASE InSpan(r, c)
    <3>1. PlacedAt(r, c) = c /\ c <= r["end"]
      BY <2>2 DEF PlacedAt, InSpan
    <3>2. QED
      BY <1>3, <1>10, <1>11, <1>12, <1>14, <1>15, <3>1
  <2>3. CASE ~InSpan(r, c)
    <3>1. ~Fresh(m) /\ c > r["end"]
      BY <1>3, <1>10, <1>11, <1>12, <1>14, <1>15, <2>3 DEF InSpan
    <3>2. rtp.anchored /\ rtp.real = rtp.ref /\ ~NewSpan(r)
      BY <1>13, <1>18, <3>1 DEF Anchored
    <3>3. rtp.real \in Int
      BY ConstantsAssumption DEF Accesses, Typed, Instants
    <3>4. ByAnchor(r, c) = c
      BY <1>3, <1>4, <3>2, <3>3 DEF ByAnchor
    <3>5. PlacedAt(r, c) = Clamp(c, r["start"], r["end"])
      BY <2>3, <3>2, <3>4 DEF PlacedAt, Placed
    <3>6. PlacedAt(r, c) = r["end"]
      BY <1>3, <1>11, <2>1, <3>1, <3>5 DEF Clamp
    <3>7. QED
      BY <1>3, <1>10, <1>11, <1>12, <3>1, <3>6
  <2>4. QED
    BY <2>2, <2>3
<1>25. LET w == PlacedAt(r, c) IN
       /\ ops \in Seq(Ops)
       /\ \/ ops = <<>> /\ ~NewSpan(r) /\ ~Tracks(r)
          \/ /\ NewSpan(r) /\ ~Tracks(r)
             /\ Len(ops) = 1 /\ ops[1] = Store("pos", r["start"])
          \/ /\ ~NewSpan(r) /\ Tracks(r)
             /\ Len(ops) = 1 /\ ops[1] = Store("pos", w)
          \/ /\ NewSpan(r) /\ Tracks(r) /\ Len(ops) = 2
             /\ ops[1] = Store("pos", r["start"]) /\ ops[2] = Store("pos", w)
  <2>1. ops = TrackStores(r, c).stores
    BY DEF r
  <2>2. QED
    BY <1>11, <1>24, <2>1, TrackShape
<1>26. \E v \in Nat :
          /\ m["pos"] <= v /\ v <= mem["end"] /\ v <= c
          /\ \A i \in 1 .. Len(ops) : ops[i] = Store("pos", v)
  <2>1. CASE ~Tracks(r)
    <3>1. ~NewSpan(r)
      BY <1>10, <1>11, <1>18, <2>1
    <3>2. \A i \in 1 .. Len(ops) : FALSE
      BY <1>25, <2>1, <3>1, EmptyStores
    <3>3. mem["pos"] \in Nat /\ m["pos"] <= mem["end"]
      BY <1>10, <1>11, <1>12 DEF Accesses, Typed, Cells
    <3>4. QED
      BY <1>11, <1>12, <1>14, <3>2, <3>3
  <2>2. CASE Tracks(r)
    <3>1. PICK w \in Nat : w = PlacedAt(r, c)
      BY <1>24, <2>2
    <3>2. NewSpan(r) => w = r["start"]
      BY <1>18, <1>24, <2>2, <3>1
    <3>3. \A i \in 1 .. Len(ops) : ops[i] = Store("pos", w)
      <4>1. (Len(ops) = 1 /\ ops[1] = Store("pos", w))
            \/ (Len(ops) = 2 /\ ops[1] = Store("pos", w) /\ ops[2] = Store("pos", w))
        BY <1>25, <2>2, <3>1, <3>2
      <4>2. QED
        BY <4>1
    <3>4. QED
      BY <1>24, <2>2, <3>1, <3>3
  <2>3. QED
    BY <2>1, <2>2
<1>27. m["pos"] <= mem["end"]
  BY <1>10, <1>11, <1>12
<1>28. QED
  BY <1>3, <1>5, <1>7, <1>12, <1>14, <1>17, <1>22, <1>23, <1>25, <1>26, <1>27 DEF q

LEMMA TrackCalm ==
    ASSUME Accesses, CalmQuiet, calm, NEW t \in Threads, Access(t), Head(todo[t]).op = "track"
    PROVE  CalmQuiet'
<1> DEFINE q == todo["reader"]
<1>1. PICK m : m = Settled
  OBVIOUS
<1>2. PICK c : c = Head(todo[t]).val
  OBVIOUS
<1>3. PICK ops : ops = TrackStores(reg[t], c).stores
  OBVIOUS
<1>4. /\ t = "reader" /\ Len(todo[t]) = 1 /\ Future("pos") = {} /\ m["pos"] = mem["pos"]
      /\ c \in Nat /\ c < stream.next /\ m["pos"] <= mem["end"]
      /\ m["end"] <= Answered /\ rtp'.gen = m["gen"] /\ mem["gen"] = m["gen"]
      /\ rtp'.anchored /\ rtp'.real = rtp'.ref
      /\ ops \in Seq(Ops)
  BY <1>1, <1>2, <1>3, TrackFacts
<1>5. PICK v \in Nat : /\ m["pos"] <= v /\ v <= mem["end"] /\ v <= c
                       /\ \A i \in 1 .. Len(ops) : ops[i] = Store("pos", v)
  BY <1>1, <1>2, <1>3, TrackFacts
<1>6. /\ given # {} /\ Apart /\ Quiet(m) /\ ~Idle("reader")
      /\ UNCHANGED <<calm, stream, due, given, last, used>> /\ todo["loop"] = <<>>
  BY <1>1, <1>4, CalmAccess
<1>7. /\ todo' = [todo EXCEPT !["reader"] = ops \o Tail(q)]
      /\ UNCHANGED mem /\ reg' = [reg EXCEPT !["reader"] = NoRegisters]
      /\ Head(q).op = "track"
  BY <1>2, <1>3, <1>4 DEF Access, Rest, Registers
<1>8. Head(q).op # "store" /\ Head(q).op # "accept"
  BY <1>7
<1> HIDE DEF q
<1>9. \A i \in 1 .. Len(ops) : ops[i].op = "store" /\ ops[i].val = v /\ ops[i].cell = "pos"
  BY <1>5 DEF Store
<1>10. /\ \A d \in Cells : d # "pos" => FutureOf(ops, d) = {}
       /\ FutureOf(ops, "pos") \in {{}, {v}}
  <2>1. \A d \in Cells : d # "pos" => \A i \in 1 .. Len(ops) : ~StoreOf(ops[i], d)
    BY <1>9 DEF StoreOf
  <2>2. FutureOf(ops, "pos") \subseteq {v}
    BY <1>9 DEF FutureOf
  <2>3. FutureOf(ops, "pos") \in {{}, {v}}
    BY <2>2
  <2>4. QED
    BY <2>1, <2>3, FutureNone
<1>11. PICK s : s = ops \o Tail(q)
  OBVIOUS
<1>12. q \in Seq(Ops) /\ q # <<>> /\ Len(q) = 1
  BY <1>4, <1>6 DEF Accesses, Typed, Threads, Idle, q
<1>13. Len(s) = Len(ops) /\ \A i \in 1 .. Len(s) : s[i] = ops[i] /\ s[i].op = "store"
  BY <1>4, <1>9, <1>11, <1>12, OnlyOps
<1>14. /\ todo'["reader"] = s /\ todo'["ui"] = todo["ui"] /\ todo'["loop"] = <<>>
       /\ reg'["ui"] = reg["ui"] /\ todo["reader"] = q
  BY <1>6, <1>7, <1>11 DEF Accesses, Typed, Threads, q
<1>15. PICK n : n = Settled'
  OBVIOUS
<1>16. Single' /\ \A d \in Cells : IF FutureOf(ops, d) = {} THEN n[d] = m[d]
                                   ELSE FutureOf(ops, d) = {n[d]}
  <2>1. \A d \in Cells : FutureOf(ops, d) = {}
                         \/ (Future(d) = {} /\ \E w : FutureOf(ops, d) = {w})
    BY <1>4, <1>10
  <2>2. Typed /\ Single /\ UNCHANGED mem /\ "reader" \in Threads
    BY <1>6, <1>7 DEF Accesses, Apart, Threads
  <2>3. todo' = [todo EXCEPT !["reader"] = ops \o Tail(todo["reader"])]
        /\ Head(todo["reader"]).op # "store"
    BY <1>7, <1>8 DEF q
  <2>4. QED
    BY <1>1, <1>4, <1>6, <1>15, <2>1, <2>2, <2>3, Expanded
<1>17. /\ n["start"] = m["start"] /\ n["end"] = m["end"] /\ n["pstart"] = m["pstart"]
       /\ n["pend"] = m["pend"] /\ n["gen"] = m["gen"]
       /\ n["pos"] = m["pos"] \/ n["pos"] = v
  BY <1>10, <1>16 DEF Cells
<1>18. /\ m["pos"] \in Int /\ m["start"] \in Int /\ m["end"] \in Int /\ mem["end"] \in Int
       /\ stream.next \in Int
  <2>1. stream.next \in Int
    BY ConstantsAssumption DEF Accesses, Content, Instants
  <2>2. QED
    BY <1>1, <1>6, <2>1, SettledTypes DEF Accesses, Apart, Cells
<1>19. Whole(m) /\ Forward(m)
  BY <1>6 DEF Quiet
<1>20. /\ mem["start"] <= mem["pos"] /\ mem["pos"] <= mem["end"] /\ mem["end"] <= m["end"]
       /\ \A i \in 1 .. Len(todo["ui"]) : todo["ui"][i].op = "store" =>
             (StoreOf(todo["ui"][i], "start") => todo["ui"][i].val <= mem["pos"])
  BY <1>6, <1>19 DEF Forward, Idle
<1>21. n["start"] <= n["pos"] /\ n["pos"] <= n["end"] /\ n["pos"] <= stream.next
  <2>1. m["start"] <= m["pos"] /\ m["pos"] <= m["end"]
    BY <1>19 DEF Whole
  <2>2. QED
    BY <1>4, <1>5, <1>17, <1>18, <1>20, <2>1
<1>22. Accepting' <=> Accepting
  BY <1>6, <1>14 DEF Accepting
<1>23. Answered' = Answered /\ SpanOf(n) = SpanOf(m) /\ PendingOf(n) = PendingOf(m)
  BY <1>6, <1>17, <1>22 DEF Answered, SpanOf, PendingOf
<1>24. Whole(n)'
  BY <1>4, <1>6, <1>17, <1>19, <1>21, <1>22, <1>23 DEF Whole
<1>25. ~Fresh(n)'
  BY <1>4, <1>17 DEF Fresh
<1>26. Anchored(n)'
  BY <1>4, <1>6, <1>13, <1>14, <1>21, <1>25 DEF Anchored
<1>27. Forward(n)'
  <2>1. \A i \in 1 .. Len(s) : s[i].op = "store" =>
              mem["pos"] <= s[i].val /\ s[i].val <= mem["end"]
    BY <1>4, <1>5, <1>9, <1>13
  <2>2. mem["end"] <= n["end"]
    BY <1>17, <1>20
  <2>3. QED
    BY <1>7, <1>14, <1>20, <1>25, <2>1, <2>2 DEF Forward, StoreOf
<1>28. /\ Stepwise(s)
       /\ ReaderCalm(todo'["reader"], reg'["reader"], mem', Fresh(n)', last'.target)
  <2>1. Stepwise(s)
    BY <1>13, StoresCalm
  <2>2. QED
    BY <1>13, <1>14, <2>1 DEF ReaderCalm
<1>29. UiCalm(todo'["ui"], reg'["ui"], mem')
  BY <1>6, <1>7, <1>14 DEF Quiet
<1>30. LoopCalm(todo'["loop"], reg'["loop"], mem', Answered')
  BY <1>14, EmptyStores DEF LoopCalm
<1>31. Quiet(n)'
  BY <1>24, <1>26, <1>27, <1>28, <1>29, <1>30 DEF Quiet
<1>32. Apart'
  <2>1. rtp'.gen <= mem'["gen"] /\ rtp'.gen <= Settled'["gen"]
    <3>1. mem["gen"] \in Int
      BY DEF Accesses, Typed, Cells
    <3>2. QED
      BY <1>4, <1>7, <1>15, <1>17, <3>1
  <2>2. todo' = [todo EXCEPT !["reader"] = s] /\ "reader" \in Threads
    BY <1>7, <1>11 DEF Threads
  <2>3. QED
    BY <1>6, <1>16, <1>28, <2>1, <2>2, ApartNext
<1>33. QED
  BY <1>6, <1>15, <1>31, <1>32 DEF CalmQuiet

-----------------------------------------------------------------------------
(* The two invariants together, and what they say.                         *)

Playing == Accesses /\ CalmQuiet

LEMMA PlayingInit == Init => Playing
<1>1. SUFFICES ASSUME Init PROVE Playing
  OBVIOUS
<1>2. /\ \A t \in Threads : todo[t] = <<>>
      /\ \A t \in Threads : reg[t] = NoRegisters
      /\ \A c \in Cells : mem[c] = 0 /\ NoRegisters[c] = 0
      /\ NoRegisters["result"] = 0 /\ NoRegisters \in [Registry -> Nat]
  BY <1>1 DEF Init, NoRegisters, Registry
<1>3. \A i \in 1 .. Len(<<>>) : FALSE
  BY EmptyStores
<1>4. 0 \in Instants /\ 0 \in Nat /\ 0 \in 0 .. 0
  BY ConstantsAssumption DEF Instants
<1>5. /\ calm \in BOOLEAN /\ given = {} /\ due = 0
      /\ stream = [next |-> 0, late |-> 0] /\ last.target = 0
      /\ used = [seeks |-> 0, replies |-> 0, stops |-> 0, packets |-> 0]
      /\ rtp = [gen |-> 0, anchored |-> FALSE, real |-> 0, ref |-> 0]
  BY <1>1 DEF Init
<1>6. Typed
  <2>1. mem \in [Cells -> Nat] /\ reg \in [Threads -> [Registry -> Nat]]
    BY <1>1, <1>2 DEF Init
  <2>2. todo \in [Threads -> Seq(Ops)]
    BY <1>1 DEF Init
  <2>3. /\ used \in [{"seeks", "replies", "stops", "packets"} -> Nat]
        /\ used["seeks"] = 0
    BY <1>5
  <2>4. Bound["seeks"] \in Nat
    BY ConstantsAssumption DEF Bound
  <2>5. rtp \in [gen : Nat, anchored : BOOLEAN, real : Instants, ref : Instants] /\ rtp.gen = 0
    BY <1>4, <1>5
  <2>6. QED
    BY <1>5, <2>1, <2>2, <2>3, <2>4, <2>5 DEF Typed
<1>7. Content
  BY <1>4, <1>5 DEF Content
<1>8. \A c \in Cells : 0 \in Possible(c)
  BY <1>6, PossibleFacts
<1>9. Values
  <2>1. 0 \in Possible("pos")
    BY <1>8 DEF Cells
  <2>2. \A t \in Threads : \A i \in 1 .. Len(todo[t]) : AccessOK(t, todo[t][i])
    BY <1>2, <1>3
  <2>3. QED
    BY <1>2, <1>8, <2>1, <2>2 DEF Values
<1>10. First
  BY <1>2, <1>5 DEF First, FirstSeek, Idle, Cells, Threads
<1>11. /\ \A t \in Threads : StoresFirst(todo[t])
       /\ LoopReady(todo["loop"], reg["loop"]) /\ ReaderReady(todo["reader"], reg["reader"])
  <2>1. todo["loop"] = <<>> /\ todo["reader"] = <<>>
    BY <1>2 DEF Threads
  <2>2. \A t \in Threads : StoresFirst(todo[t])
    BY <1>2, <1>3 DEF StoresFirst
  <2>3. QED
    BY <1>3, <2>1, <2>2 DEF LoopReady, ReaderReady
<1>12. Accesses
  BY <1>6, <1>7, <1>9, <1>10, <1>11 DEF Accesses
<1>13. \A c \in Cells : Future(c) = {} /\ Settled[c] = 0
  <2>1. SUFFICES ASSUME NEW c \in Cells PROVE Future(c) = {} /\ Settled[c] = 0
    OBVIOUS
  <2>2. Future(c) = {}
    BY <1>2, EmptyFuture DEF Future, Threads
  <2>3. QED
    BY <1>2, <2>2 DEF Settled
<1>14. Apart
  <2>1. Single
    BY <1>13 DEF Single
  <2>2. rtp.gen = 0 /\ mem["gen"] = 0 /\ Settled["gen"] = 0 /\ stream.late = 0
    BY <1>2, <1>5, <1>13 DEF Cells
  <2>3. \A t \in Threads : Stepwise(todo[t])
    BY <1>2, <1>3 DEF Stepwise
  <2>4. Idle("loop")
    BY <1>2 DEF Idle, Threads
  <2>5. QED
    BY <2>1, <2>2, <2>3, <2>4 DEF Apart, Threads
<1>15. CalmQuiet
  BY <1>2, <1>5, <1>14 DEF CalmQuiet, AtRest, Idle
<1>16. QED
  BY <1>12, <1>15 DEF Playing

(* An operation begins, or a thread proceeds by one access.                *)
LEMMA PlayingBegins ==
    ASSUME Playing, UiRead \/ (\E t \in Targets : Seek(t)) \/ Receive \/ Stop \/ Resume \/ Packet
    PROVE  Playing'
<1>1. Accesses /\ CalmQuiet
  BY DEF Playing
<1>2. ASSUME UNCHANGED calm, calm => CalmQuiet'
      PROVE  CalmQuiet'
  BY <1>2 DEF CalmQuiet
<1>3. CASE UiRead
  <2>1. UNCHANGED calm
    BY <1>3 DEF UiRead, Begin
  <2>2. QED
    BY <1>1, <1>2, <1>3, <2>1, UiReadAccesses, UiReadCalm DEF Playing
<1>4. CASE \E t \in Targets : Seek(t)
  <2>1. PICK t \in Targets : Seek(t)
    BY <1>4
  <2>2. UNCHANGED calm
    BY <2>1 DEF Seek, Begin
  <2>3. QED
    BY <1>1, <1>2, <2>1, <2>2, SeekAccesses, SeekCalm DEF Playing
<1>5. CASE Receive
  <2>1. UNCHANGED calm
    BY <1>5 DEF Receive, Begin
  <2>2. QED
    BY <1>1, <1>2, <1>5, <2>1, ReceiveAccesses, ReceiveCalm DEF Playing
<1>6. CASE Stop
  <2>1. UNCHANGED calm
    BY <1>6 DEF Stop, Begin
  <2>2. QED
    BY <1>1, <1>2, <1>6, <2>1, StopAccesses, StopCalm DEF Playing
<1>7. CASE Packet
  <2>1. UNCHANGED calm
    BY <1>7 DEF Packet, Begin
  <2>2. QED
    BY <1>1, <1>2, <1>7, <2>1, PacketAccesses, PacketCalm DEF Playing
<1>8. CASE Resume
  <2>1. UNCHANGED calm
    BY <1>8 DEF Resume, Begin
  <2>2. QED
    BY <1>1, <1>2, <1>8, <2>1, ResumeAccesses, ResumeCalm DEF Playing
<1>9. QED
  BY <1>3, <1>4, <1>5, <1>6, <1>7, <1>8

LEMMA PlayingProceeds ==
    ASSUME Playing, NEW t \in Threads, Access(t)
    PROVE  Playing'
<1>1. Accesses /\ CalmQuiet
  BY DEF Playing
<1>2. UNCHANGED calm /\ ~Idle(t)
  BY DEF Access
<1>3. ASSUME calm => CalmQuiet'
      PROVE  CalmQuiet'
  BY <1>2, <1>3 DEF CalmQuiet
<1>4. Head(todo[t]).op \in {"load", "store", "apply", "accept", "keep", "track"}
  BY <1>1, <1>2, BeforeAccess DEF Ops
<1>5. CASE Head(todo[t]).op = "load"
  BY <1>1, <1>3, <1>5, LoadAccesses, LoadCalm DEF Playing
<1>6. CASE Head(todo[t]).op = "store"
  BY <1>1, <1>3, <1>6, StoreAccesses, StoreCalm DEF Playing
<1>7. CASE Head(todo[t]).op = "apply"
  BY <1>1, <1>3, <1>7, ApplyAccesses, ApplyCalm DEF Playing
<1>8. CASE Head(todo[t]).op = "accept"
  BY <1>1, <1>3, <1>8, AcceptAccesses, AcceptCalm DEF Playing
<1>9. CASE Head(todo[t]).op = "keep"
  BY <1>1, <1>3, <1>9, KeepAccesses, KeepCalm DEF Playing
<1>10. CASE Head(todo[t]).op = "track"
  BY <1>1, <1>3, <1>10, TrackAccesses, TrackCalm DEF Playing
<1>11. QED
  BY <1>4, <1>5, <1>6, <1>7, <1>8, <1>9, <1>10

LEMMA PlayingStep == Playing /\ [Next]_vars => Playing'
<1>1. SUFFICES ASSUME Playing, [Next]_vars PROVE Playing'
  OBVIOUS
<1>2. CASE UNCHANGED vars
  <2>1. UNCHANGED <<calm, mem, todo, reg, rtp, stream, due, given, last, used>>
    BY <1>2 DEF vars
  <2>2. Accesses /\ CalmQuiet
    BY <1>1 DEF Playing
  <2>3. \A v : (Loaded(v)' <=> Loaded(v)) /\ (Between(v)' <=> Between(v)) /\ (Known(v)' <=> Known(v))
    BY <2>1 DEF Known, Loaded, Between
  <2>4. \A c : Possible(c)' = Possible(c)
    BY <2>1, <2>3 DEF Possible, Starts, Ends
  <2>5. \A t, a : AccessOK(t, a)' <=> AccessOK(t, a)
    BY <2>1, <2>3, <2>4 DEF AccessOK
  <2>6. Typed' /\ Content'
    BY <2>1, <2>2, <2>3 DEF Accesses, Typed, Content, Bound
  <2>7. Values'
    BY <2>1, <2>2, <2>4, <2>5 DEF Accesses, Values
  <2>8. First'
    BY <2>1, <2>2 DEF Accesses, First, FirstSeek, Idle, SeekStores
  <2>9. Accesses'
    BY <2>1, <2>2, <2>6, <2>7, <2>8
       DEF Accesses, StoresFirst, LoopReady, ReaderReady, Will, Applies
  <2>10. \A c : Future(c)' = Future(c)
    BY <2>1 DEF Future, FutureOf
  <2>11. calm => Single' /\ Settled' = Settled
    <3>1. calm => Single
      BY <2>2 DEF CalmQuiet, Apart
    <3>2. QED
      BY <2>1, <2>10, <3>1, SettledSame
  <2>12. /\ Accepting' <=> Accepting
         /\ TargetSpan' = TargetSpan /\ (AtRest' <=> AtRest)
    BY <2>1 DEF Accepting, TargetSpan, AtRest, Idle
  <2>13. Answered' = Answered
    BY <2>1, <2>12 DEF Answered
  <2>14. calm => Apart'
    BY <2>1, <2>2, <2>11 DEF CalmQuiet, Apart, Idle, Stepwise
  <2>15. \A m : Quiet(m) => Quiet(m)'
    <3>1. SUFFICES ASSUME NEW m PROVE Quiet(m) => Quiet(m)'
      OBVIOUS
    <3>2. /\ Whole(m)' <=> Whole(m)
          /\ Fresh(m)' <=> Fresh(m)
      BY <2>1, <2>12, <2>13 DEF Whole, Fresh
    <3>3. Anchored(m) => Anchored(m)'
      BY <2>1, <2>12, <3>2 DEF Anchored, Idle
    <3>4. Forward(m) => Forward(m)'
      BY <2>1, <2>12, <3>2 DEF Forward, Idle, SpanOf, StoreOf
    <3>5. QED
      BY <2>1, <2>13, <3>2, <3>3, <3>4 DEF Quiet, UiCalm, ReaderCalm, LoopCalm, Will, Applies
  <2>16. CalmQuiet'
    BY <2>1, <2>2, <2>11, <2>12, <2>14, <2>15 DEF CalmQuiet
  <2>17. QED
    BY <2>9, <2>16 DEF Playing
<1>3. QED
  BY <1>1, <1>2, PlayingBegins, PlayingProceeds DEF Next

(* Both invariants hold always.                                            *)
THEOREM Played == Spec => []Playing
BY PlayingInit, PlayingStep, PTL DEF Spec

(* TypeOK holds always.                                                    *)
THEOREM TypeCorrect == Spec => []TypeOK
<1>1. Playing => TypeOK
  <2>1. SUFFICES ASSUME Playing PROVE TypeOK
    OBVIOUS
  <2>2. Typed /\ Values
    BY <2>1 DEF Playing, Accesses
  <2>3. used["seeks"] \in Nat /\ Bound["seeks"] \in Nat /\ used["seeks"] <= Bound["seeks"]
    BY <2>2, ConstantsAssumption DEF Typed, Bound
  <2>4. \A c \in Cells \ {"gen"} :
           mem[c] \in Instants /\ \A t \in Threads : reg[t][c] \in Instants
    BY <2>2, PossibleFacts DEF Values
  <2>5. \A t \in Threads : reg[t]["result"] \in Instants
    BY <2>2, PossibleFacts DEF Values, Cells
  <2>6. mem["gen"] <= Bound["seeks"]
    <3>1. mem["gen"] \in Possible("gen") /\ mem["gen"] \in Nat
      BY <2>2 DEF Values, Typed, Cells
    <3>2. mem["gen"] <= used["seeks"]
      BY <2>2, <3>1, PossibleFacts
    <3>3. QED
      BY <2>3, <3>1, <3>2
  <2>7. rtp.gen \in 0 .. Bound["seeks"] /\ rtp.real \in Instants /\ rtp.ref \in Instants
    BY <2>2, <2>3 DEF Typed
  <2>8. given \subseteq [start : Instants, end : Instants]
    <3>1. \A f \in given : f = [start |-> f.start, end |-> f.end]
                           /\ f.start \in Instants /\ f.end \in Instants
      BY <2>2, KnownFacts DEF Interval
    <3>2. QED
      BY <3>1
  <2>9. QED
    BY <2>2, <2>4, <2>5, <2>6, <2>7, <2>8 DEF TypeOK, Typed, Registry
<1>2. QED
  BY <1>1, Played, PTL

(* Whatever the interleaving, the positions stored and shown lie in what   *)
(* the player was given, and when calm in one of the fragments.            *)
THEOREM PositionsKnown == Spec => []PositionsAreLoaded
<1>1. Playing => PositionsAreLoaded
  <2>1. SUFFICES ASSUME Playing PROVE PositionsAreLoaded
    OBVIOUS
  <2>2. Typed /\ Values /\ First
    BY <2>1 DEF Playing, Accesses
  <2>3. (mem["pos"] = 0 /\ mem["gen"] = 0) \/ Known(mem["pos"])
    <3>1. mem["pos"] \in Possible("pos")
      BY <2>2 DEF Values, Cells
    <3>2. QED
      BY <2>2, <3>1, PossibleFacts DEF First
  <2>4. ASSUME NEW t \in Threads
        PROVE  Computed(t) = 0 \/ Known(Computed(t))
    <3>1. /\ reg[t] \in [Registry -> Nat]
          /\ \A c \in Cells : reg[t][c] \in Possible(c)
          /\ reg[t]["result"] \in Possible("pos")
      BY <2>2 DEF Values, Typed
    <3>2. Result(reg[t]) \in Possible("pos")
      BY <2>2, <3>1, ResultFacts
    <3>3. Computed(t) \in Possible("pos")
      BY <3>1, <3>2 DEF Computed
    <3>4. QED
      BY <2>2, <3>3, PossibleFacts
  <2>5. QED
    BY <2>3, <2>4 DEF PositionsAreLoaded
<1>2. QED
  BY <1>1, Played, PTL

LEMMA AtRestWhole ==
    ASSUME Playing, calm, AtRest, given # {}
    PROVE  /\ Span \in given /\ mem["start"] <= mem["pos"] /\ mem["pos"] <= mem["end"]
           /\ last.fragment \in {Span, Pending}
<1>1. PICK m : m = Settled
  OBVIOUS
<1>2. Apart /\ Quiet(m)
  BY <1>1 DEF Playing, CalmQuiet
<1>3. \A c \in Cells : m[c] = mem[c]
  BY <1>1, <1>2, RestSettled DEF Apart
<1>4. SpanOf(m) = Span /\ PendingOf(m) = Pending
  BY <1>3 DEF SpanOf, PendingOf, Span, Pending, Cells
<1>5. ~Accepting
  BY EmptyStores DEF Accepting, AtRest, Idle, Threads
<1>6. QED
  BY <1>2, <1>3, <1>4, <1>5 DEF Quiet, Whole, Cells

(* When calm, the span is a whole fragment around the position whenever no *)
(* thread is in the middle of an operation.                                *)
THEOREM SpanWhole == Spec => []SpanWholeAtRest
<1>1. Playing => SpanWholeAtRest
  BY AtRestWhole DEF SpanWholeAtRest, Within, Span, Interval
<1>2. QED
  BY <1>1, Played, PTL

(* When calm, the newest fragment is the span or pending behind it.        *)
THEOREM NewestKept == Spec => []NewestFragmentKept
<1>1. Playing => NewestFragmentKept
  BY AtRestWhole DEF NewestFragmentKept, PendingIsApplied
<1>2. QED
  BY <1>1, Played, PTL

(* When calm, the position goes back only in a seek or a stop.             *)
THEOREM ForwardOnly == Spec => NeverBack
<1> DEFINE A == calm /\ mem'["gen"] = mem["gen"] /\ Idle("loop") => mem'["pos"] >= mem["pos"]
<1>1. ASSUME Playing, [Next]_vars
      PROVE  [A]_vars
  <2>1. SUFFICES ASSUME calm, Idle("loop"), mem'["pos"] # mem["pos"], Next
                 PROVE  mem'["pos"] >= mem["pos"]
    <3>1. mem["pos"] \in Nat
      BY <1>1 DEF Playing, Accesses, Typed, Cells
    <3>2. QED
      BY <1>1, <3>1
  <2>2. PICK t \in Threads : Access(t)
    BY <2>1 DEF Next, UiRead, Seek, Receive, Stop, Resume, Packet, Begin
  <2>3. ~Idle(t) /\ Accesses /\ CalmQuiet /\ Head(todo[t]).op \in {"load", "store", "apply", "accept", "keep", "track"}
    BY <1>1, <2>2, BeforeAccess DEF Playing, Access, Ops
  <2>4. CASE Head(todo[t]).op # "store"
    BY <2>1, <2>2, <2>3, <2>4 DEF Access
  <2>5. CASE Head(todo[t]).op = "store"
    <3>1. mem' = [mem EXCEPT ![Head(todo[t]).cell] = Head(todo[t]).val] /\ mem \in [Cells -> Nat]
      BY <2>2, <2>3, <2>5 DEF Access, Accesses, Typed
    <3>2. Head(todo[t]).cell = "pos"
      BY <2>1, <3>1
    <3>3. mem'["pos"] = Head(todo[t]).val
      BY <3>1, <3>2 DEF Cells
    <3>4. AccessOK(t, Head(todo[t])) /\ Head(todo[t]) = todo[t][1] /\ 1 \in 1 .. Len(todo[t])
          /\ Head(todo[t]) \in Ops
      BY <2>3, BeforeAccess
    <3>5. t = "reader"
      BY <2>1, <2>3, <2>5, <3>2, <3>4 DEF AccessOK, Threads
    <3>6. PICK m : m = Settled
      OBVIOUS
    <3>7. Quiet(m)
      BY <2>1, <2>2, <2>3, <3>6, CalmAccess
    <3>8. mem["pos"] <= Head(todo[t]).val
      BY <2>1, <2>5, <3>4, <3>5, <3>7 DEF Quiet, Forward
    <3>9. Head(todo[t]).val \in Nat /\ mem["pos"] \in Nat
      BY <3>1, <3>4 DEF Ops, Cells
    <3>10. QED
      BY <3>3, <3>8, <3>9
  <2>6. QED
    BY <2>4, <2>5
<1>2. QED
  BY <1>1, Played, PTL DEF Spec, NeverBack
============================================================================
