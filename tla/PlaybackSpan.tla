---------------------------- MODULE PlaybackSpan ----------------------------
(***************************************************************************)
(* The playhead's atomics (src/app_state.rs) one load and one store at a   *)
(* time. Three threads use them without a lock: the GTK thread, which asks *)
(* for the current position and thereby applies a pending fragment; the    *)
(* archive loop, which seeks, stops, resumes and takes in replies; and the *)
(* RTP reader, which moves the position. What the loop does to the rest of *)
(* its state in the same commands is in ArchiveLoop.                       *)
(*                                                                         *)
(* A thread's operation is the list of accesses it still has to make       *)
(* (todo); the computations between them are steps of that list too. The   *)
(* accesses are interleaved as they stand in the code, although Relaxed    *)
(* would let a compiler or a processor do more.                            *)
(***************************************************************************)
EXTENDS Integers, Sequences

CONSTANTS
    Fragment,   \* FRAGMENT_DURATION_MS
    End,        \* recorded content is 1 .. End
    Targets,    \* instants the user may seek to
    CalmBound,  \* bounds: how many seeks, replies and stops or resumptions
    RaceBound   \* the loop executes and packets the reader reads, calm or not

ASSUME ConstantsAssumption ==
    /\ Fragment \in Nat \ {0} /\ End \in Nat /\ Targets \subseteq 1 .. End
    /\ {CalmBound, RaceBound}
         \subseteq [{"seeks", "replies", "stops", "packets"} -> Nat]

Threads == {"ui", "loop", "reader"}
Cells == {"start", "end", "pos", "pstart", "pend", "gen"}

VARIABLES
    calm,   \* fixed at the start: TRUE if the loop's operations overlap with
            \* no other thread's, and no packet of old content follows a seek
    mem,    \* the atomics
    todo,   \* the accesses each thread still has to make
    reg,    \* each thread's local copies, and the position it computed
    rtp,    \* the reader's last_generation, anchor flag and reference
    stream, \* content time of the next packet, and of one still on its way
    due,    \* the start of the next fragment the server answers with
    given,  \* history: the fragments seeks and replies have set
    last,   \* history: the last seek's target, whether no packet of the new
            \* content followed it, and the newest fragment
    used    \* how much of each bound is used up

vars == <<calm, mem, todo, reg, rtp, stream, due, given, last, used>>

Interval(s, e) == [start |-> s, end |-> e]
Within(t, i) == i.start <= t /\ t <= i.end
ClampNone(t, s, e) == t \* mutant: the clamp is forgotten
Clamp(t, s, e) == IF t < s THEN s ELSE IF t > e THEN e ELSE t

Load(c) == [op |-> "load", cell |-> c, val |-> 0]
Store(c, v) == [op |-> "store", cell |-> c, val |-> v]
Do(op, v) == [op |-> op, cell |-> "none", val |-> v]

NoRegisters == [c \in Cells \cup {"result"} |-> 0]

Init ==
    /\ calm \in BOOLEAN
    /\ mem = [c \in Cells |-> 0]
    /\ todo = [t \in Threads |-> <<>>]
    /\ reg = [t \in Threads |-> NoRegisters]
    /\ rtp = [gen |-> 0, anchored |-> FALSE, real |-> 0, ref |-> 0]
    /\ stream = [next |-> 0, late |-> 0]
    /\ due = 0
    /\ given = {}
    /\ last = [target |-> 0, only |-> FALSE, fragment |-> Interval(0, 0)]
    /\ used = [seeks |-> 0, replies |-> 0, stops |-> 0, packets |-> 0]

-----------------------------------------------------------------------------
(* The operations as lists of accesses.                                    *)

(* current_playback_position_ms                                            *)
ReadPosition ==
    <<Load("start"), Load("end"), Load("pos"), Load("pstart"), Load("pend"),
      Do("apply", 0)>>

SetSpan(i) == <<Store("start", i.start), Store("end", i.end)>>
SetPending(i) == <<Store("pstart", i.start), Store("pend", i.end)>>
NoFragment == Interval(0, 0)

SeekTwoGenerations(t) == \* mutant: the generation is advanced twice
    SetSpan(Interval(t, t + Fragment)) \o <<Store("pos", t)>>
    \o SetPending(NoFragment) \o <<Store("gen", mem["gen"] + 2)>>

SeekStores(t) ==
    SetSpan(Interval(t, t + Fragment)) \o <<Store("pos", t)>>
    \o SetPending(NoFragment) \o <<Store("gen", mem["gen"] + 1)>>

(* What a thread does next, from its registers r.                          *)
Reached(r) ==
    /\ r["pstart"] # 0 /\ r["pend"] > r["pstart"]
    /\ r["pstart"] <= r["pos"] /\ r["pos"] <= r["pend"]

ApplyDropping(r) == \* mutant: the pending fragment is only cleared
    IF Reached(r) THEN SetPending(NoFragment) ELSE <<>>

ApplyEndOnly(r) == \* mutant: the start of the span is left as it was
    IF Reached(r)
    THEN <<Store("end", r["pend"])>> \o SetPending(NoFragment)
    ELSE <<>>

ApplyStores(r) ==
    IF Reached(r)
    THEN SetSpan(Interval(r["pstart"], r["pend"])) \o SetPending(NoFragment)
    ELSE <<>>

Result(r) ==
    LET s == IF Reached(r) THEN r["pstart"] ELSE r["start"]
        e == IF Reached(r) THEN r["pend"] ELSE r["end"]
    IN IF e > s THEN Clamp(r["pos"], s, e) ELSE r["pos"]

AcceptStores(r, f) ==
    IF (r["start"] = 0 /\ r["end"] = 0) \/ Within(r["result"], f)
    THEN SetSpan(f) \o SetPending(NoFragment)
    ELSE SetPending(f)

PlacedAtStart(r, anchored, t) == \* mutant: the anchor is forgotten
    r["start"]

(* Where the reader puts the playhead for a packet outside the span: t, by *)
(* its anchor, once there is one.                                          *)
Placed(r, anchored, t) ==
    IF anchored THEN Clamp(t, r["start"], r["end"]) ELSE r["start"]

(* The reader's body for a packet of content time c, after its three loads.*)
TrackStores(r, c) ==
    LET fresh == r["gen"] # rtp.gen
        real == IF fresh THEN r["start"] ELSE rtp.real
        ref == IF fresh THEN c ELSE rtp.ref
        anchored == ~fresh /\ rtp.anchored
        tracked == r["gen"] # 0 /\ r["end"] > r["start"]
        inSpan == r["start"] <= c /\ c <= r["end"]
        byAnchor == IF real + (c - ref) > 0 THEN real + (c - ref) ELSE 0
    IN [stores |->
          (IF fresh THEN <<Store("pos", r["start"])>> ELSE <<>>)
          \o IF ~tracked THEN <<>>
             ELSE IF inSpan THEN <<Store("pos", c)>>
             ELSE <<Store("pos", Placed(r, anchored, byAnchor))>>,
        rtp |->
          [gen |-> r["gen"],
           anchored |-> anchored \/ tracked,
           real |-> IF tracked /\ ~anchored
                    THEN IF inSpan THEN c ELSE r["start"]
                    ELSE real,
           ref |-> IF tracked /\ ~anchored THEN c ELSE ref]]

-----------------------------------------------------------------------------
(* An operation begins.                                                    *)

Idle(t) == todo[t] = <<>>
Begin(t, ops) ==
    /\ Idle(t)
    /\ calm => IF t = "loop" THEN \A u \in Threads : Idle(u) ELSE Idle("loop")
    /\ todo' = [todo EXCEPT ![t] = ops]
    /\ UNCHANGED <<calm, mem, reg, rtp>>
Bound == IF calm THEN CalmBound ELSE RaceBound
Spend(what) == used[what] < Bound[what] /\ used' = [used EXCEPT ![what] = @ + 1]

(* The timeline is drawn, every 50 ms. (What it then draws is capped at the *)
(* end of the span it had read before, which changes pixels only.)         *)
UiRead ==
    /\ given # {}
    /\ Begin("ui", ReadPosition)
    /\ UNCHANGED <<stream, due, given, last, used>>

(* SeekTo or PlayFrom, after its sends: the server has dropped its buffer, *)
(* though packets of the old content may still arrive. (In between the     *)
(* stores of these they store the wall clock and the instant requested,    *)
(* which no thread here reads.)                                            *)
Seek(t) ==
    /\ Spend("seeks")
    /\ Begin("loop", SeekStores(t))
    /\ given' = given \cup {Interval(t, t + Fragment)}
    /\ stream' = [next |-> t, late |-> IF calm THEN 0 ELSE stream.next]
    /\ due' = t
    /\ last' = [target |-> t, only |-> TRUE, fragment |-> Interval(t, t + Fragment)]

(* An archive_fragment reply the loop accepts.                             *)
Receive ==
    LET f == Interval(due, due + Fragment)
    IN /\ due # 0 /\ due <= End
       /\ Spend("replies")
       /\ Begin("loop", ReadPosition \o <<Load("start"), Load("end"), Do("accept", due)>>)
       /\ given' = given \cup {f}
       /\ due' = f.end
       /\ last' = [last EXCEPT !.fragment = f]
       /\ UNCHANGED stream

Stop ==
    /\ given # {}
    /\ Spend("stops")
    /\ Begin("loop", ReadPosition \o <<Do("keep", 0)>>)
    /\ UNCHANGED <<stream, due, given, last>>

(* Play after a stop reads the position, and may thus apply a fragment.    *)
Resume ==
    /\ given # {}
    /\ Spend("stops")
    /\ Begin("loop", ReadPosition)
    /\ UNCHANGED <<stream, due, given, last>>

(* The reader gets a packet, in the order of sending: one that was on its  *)
(* way when the server was told to seek, then the ones of content it has   *)
(* been asked for.                                                         *)
Packet ==
    /\ Spend("packets")
    /\ \/ /\ stream.next # 0 /\ stream.next < due
          /\ Begin("reader", <<Load("start"), Load("end"), Load("gen"), Do("track", stream.next)>>)
          /\ stream' = [next |-> stream.next + 1, late |-> 0]
          /\ last' = [last EXCEPT !.only = FALSE]
       \/ /\ stream.late # 0
          /\ Begin("reader", <<Load("start"), Load("end"), Load("gen"), Do("track", stream.late)>>)
          /\ stream' = [stream EXCEPT !.late = 0]
          /\ UNCHANGED last
    /\ UNCHANGED <<due, given>>

(* ... and proceeds by one access.                                         *)
Rest(t, ops) == todo' = [todo EXCEPT ![t] = ops \o Tail(@)]
Registers(t, r) ==
    reg' = [reg EXCEPT ![t] = IF Len(todo[t]) > 1 THEN r ELSE NoRegisters]

Access(t) ==
    /\ ~Idle(t)
    /\ LET a == Head(todo[t])
       IN CASE a.op = "load" ->
                 /\ Registers(t, [reg[t] EXCEPT ![a.cell] = mem[a.cell]])
                 /\ Rest(t, <<>>) /\ UNCHANGED <<mem, rtp>>
            [] a.op = "store" ->
                 /\ mem' = [mem EXCEPT ![a.cell] = a.val]
                 /\ Registers(t, reg[t])
                 /\ Rest(t, <<>>) /\ UNCHANGED rtp
            [] a.op = "apply" ->
                 /\ Registers(t, [NoRegisters EXCEPT !["result"] = Result(reg[t])])
                 /\ Rest(t, ApplyStores(reg[t])) /\ UNCHANGED <<mem, rtp>>
            [] a.op = "accept" ->
                 /\ Registers(t, NoRegisters)
                 /\ Rest(t, AcceptStores(reg[t], Interval(a.val, a.val + Fragment)))
                 /\ UNCHANGED <<mem, rtp>>
            [] a.op = "keep" ->
                 /\ Registers(t, NoRegisters)
                 /\ Rest(t, <<Store("pos", reg[t]["result"])>>)
                 /\ UNCHANGED <<mem, rtp>>
            [] a.op = "track" ->
                 LET track == TrackStores(reg[t], a.val)
                 IN /\ Registers(t, NoRegisters)
                    /\ Rest(t, track.stores)
                    /\ rtp' = track.rtp /\ UNCHANGED mem
    /\ UNCHANGED <<calm, stream, due, given, last, used>>

Next ==
    \/ UiRead
    \/ \E t \in Targets : Seek(t)
    \/ Receive
    \/ Stop
    \/ Resume
    \/ Packet
    \/ \E t \in Threads : Access(t)

Spec == Init /\ [][Next]_vars

-----------------------------------------------------------------------------
(* Properties.                                                             *)

Instants == 0 .. (End + Fragment)

(* The shape of the state.                                                 *)
TypeOK ==
    /\ mem \in [Cells -> Nat] /\ reg \in [Threads -> [Cells \cup {"result"} -> Nat]]
    /\ \A c \in Cells \ {"gen"} :
          mem[c] \in Instants /\ \A t \in Threads : reg[t][c] \in Instants
    /\ \A t \in Threads : reg[t]["result"] \in Instants
    /\ mem["gen"] <= Bound["seeks"]
    /\ rtp.gen \in 0 .. Bound["seeks"] /\ rtp.real \in Instants /\ rtp.ref \in Instants
    /\ given \subseteq [start : Instants, end : Instants]

Loaded(t) == \E f \in given : Within(t, f)
Between(t) == \E f, g \in given : f.start <= t /\ t <= g.end

(* The position a thread shows or goes on to store.                        *)
Computed(t) ==
    IF ~Idle(t) /\ Head(todo[t]).op = "apply" THEN Result(reg[t])
    ELSE reg[t]["result"]

(* However the three threads' accesses fall, the position stored, and the  *)
(* current position a thread computes, lie in what the player was given:   *)
(* not before the first fragment nor past the last, nor at zero once a     *)
(* seek is complete - and, when calm, in one of the fragments. (In a race  *)
(* it may lie between two: a reader that sees the start of a new span with *)
(* the end of the old one clamps to both.)                                 *)
Known(t) == IF calm THEN Loaded(t) ELSE Between(t)
PositionsAreLoaded ==
    /\ (mem["pos"] = 0 /\ mem["gen"] = 0) \/ Known(mem["pos"])
    /\ \A t \in Threads : Computed(t) = 0 \/ Known(Computed(t))

AtRest == \A t \in Threads : Idle(t)
Span == Interval(mem["start"], mem["end"])
Pending == Interval(mem["pstart"], mem["pend"])

(* The 50 ms redraw and the reader may overlap as they like: between their *)
(* operations the span is a whole fragment and holds the position.         *)
SpanWholeAtRest ==
    calm /\ AtRest /\ given # {} => Span \in given /\ Within(mem["pos"], Span)

(* The newest fragment is the span, or is pending until the position       *)
(* enters it (app_state.rs:64).                                            *)
PendingIsApplied ==
    AtRest /\ given # {} => last.fragment \in {Span, Pending}
NewestFragmentKept == calm => PendingIsApplied

(* Until the next seek or stop, the playhead never goes back, whether      *)
(* packets fall inside the span or outside, before or after a redraw.      *)
NeverBack ==
    [][calm /\ mem'["gen"] = mem["gen"] /\ Idle("loop") => mem'["pos"] >= mem["pos"]]_vars

-----------------------------------------------------------------------------
(* What the documentation says of the program, and the code does not do.   *)

(* app_state.rs:64, without calm: PendingIsApplied. A redraw in the middle *)
(* of applying a fragment erases the next.                                 *)

(* app_state.rs:318-322: the timeline follows the last frame received. It  *)
(* shows its position, or will at the next packet or redraw: the fragment  *)
(* the frame is in is the span, or the pending one has been reached.       *)
TimelineFollowsStream ==
    calm /\ AtRest /\ given # {} /\ ~last.only
        => LET c == stream.next - 1
           IN mem["pos"] = c \/ Within(c, Span) \/ Reached(mem)

(* app_state.rs:29: SeekTo goes to a mark without starting playback. While *)
(* no packet of the new content has come, the playhead stands there.       *)
SeekLandsAtTarget ==
    AtRest /\ last.only => mem["pos"] = last.target

(* webrtc_offer.rs:352: an anchor that may be stale is renewed by the      *)
(* first packet in range.                                                  *)
AnchorRenewed ==
    [][LET a == Head(todo["reader"])
           r == reg["reader"]
       IN ~Idle("reader") /\ todo'["reader"] # todo["reader"] /\ a.op = "track"
          /\ r["gen"] = rtp.gen /\ r["gen"] # 0
          /\ r["start"] <= a.val /\ a.val <= r["end"]
          => rtp'.real = rtp'.ref]_vars
=============================================================================
