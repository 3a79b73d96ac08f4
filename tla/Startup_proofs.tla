--------------------------- MODULE Startup_proofs ---------------------------
(***************************************************************************)
(* For any channels, capacities and numbers of workers and messages, the   *)
(* bridge keeps its bounds and implements a first-in first-out queue; and  *)
(* the start of a session is a behaviour of the bridge, so what DcBridge   *)
(* promises holds of it, whatever fails on the way.                        *)
(***************************************************************************)
EXTENDS Startup, TLAPS, SequenceTheorems

-----------------------------------------------------------------------------
(* The bridge.                                                             *)

(* The shape of the state is preserved by every step (the bounds of the    *)
(* two channels of webrtc_offer.rs:540-541 among it).                      *)
THEOREM TypeCorrect == Spec => []TypeOK
  <1>1. Init => TypeOK
    BY CapacityAssumption DEF Init, TypeOK, MessageOr, NoMessage
  <1>2. TypeOK /\ [Next]_vars => TypeOK'
    <2> SUFFICES ASSUME TypeOK, [Next]_vars PROVE TypeOK'
      OBVIOUS
    <2> USE CapacityAssumption DEF TypeOK, MessageOr
    <2>1. ASSUME NEW c \in Channels, EnterCallback(c) PROVE TypeOK'
      <3>1. [channel |-> c, number |-> arrived[c] + 1] \in Message
        BY <2>1 DEF EnterCallback, Message
      <3> QED
        BY <2>1, <3>1 DEF EnterCallback
    <2>2. ASSUME NEW c \in Channels, SendSync(c) PROVE TypeOK'
      <3>1. callback[c] \in Message
        BY <2>2 DEF SendSync
      <3> QED
        BY <2>2, <3>1 DEF SendSync
    <2>3. ASSUME NEW c \in Channels, FailSync(c) PROVE TypeOK'
      BY <2>3 DEF FailSync
    <2>4. CASE TakeSync
      BY <2>4 DEF TakeSync
    <2>5. CASE Forward
      <3>1. bridge \in Message
        BY <2>5 DEF Forward
      <3> QED
        BY <2>5, <3>1 DEF Forward
    <2>6. CASE ExitBridge
      BY <2>6 DEF ExitBridge
    <2>7. CASE StartLoop
      BY <2>7 DEF StartLoop
    <2>8. CASE AbandonLoop
      BY <2>8 DEF AbandonLoop
    <2>9. CASE Handle
      BY <2>9 DEF Handle
    <2>10. CASE UNCHANGED vars
      BY <2>10 DEF vars
    <2> QED
      BY <2>1, <2>2, <2>3, <2>4, <2>5, <2>6, <2>7, <2>8, <2>9, <2>10 DEF Next
  <1> QED
    BY <1>1, <1>2, PTL DEF Spec

-----------------------------------------------------------------------------
(* The stages of the way, and what a message moving from one to the next   *)
(* does to their concatenation.                                            *)

LEMMA StageTypes ==
    ASSUME TypeOK
    PROVE  Held \in Seq(Message) /\ InFlight \in Seq(Message)
  <1>1. <<>> \in Seq(Message)
    OBVIOUS
  <1>2. Held \in Seq(Message)
    BY <1>1 DEF TypeOK, Held
  <1> QED
    BY <1>2, ConcatProperties DEF TypeOK, InFlight

LEMMA MoveHead ==
    ASSUME NEW S, NEW p \in Seq(S), NEW s \in Seq(S), s # <<>>
    PROVE  /\ s = <<Head(s)>> \o Tail(s)
           /\ p \o s = Append(p, Head(s)) \o Tail(s)
  OBVIOUS

LEMMA AppendLast ==
    ASSUME NEW S, NEW p \in Seq(S), NEW s \in Seq(S), NEW e \in S
    PROVE  p \o Append(s, e) = Append(p \o s, e)
  OBVIOUS

LEMMA FlightMoves ==
    ASSUME TypeOK
    PROVE  /\ \A c \in Channels : SendSync(c) =>
                  InFlight' = Append(InFlight, callback[c])
           /\ TakeSync \/ Forward => InFlight' = InFlight
           /\ Handle => /\ InFlight # <<>> /\ Head(InFlight) = Head(loopQueue)
                        /\ InFlight' = Tail(InFlight)
  <1> USE DEF TypeOK
  <1>0. Held \in Seq(Message) /\ InFlight \in Seq(Message)
    BY StageTypes
  <1>1. ASSUME NEW c \in Channels, SendSync(c)
        PROVE  InFlight' = Append(InFlight, callback[c])
    <2>1. callback[c] \in Message /\ loopQueue \o Held \in Seq(Message)
      BY <1>0, <1>1, ConcatProperties DEF SendSync, MessageOr
    <2>2. Held' = Held /\ loopQueue' = loopQueue
      BY <1>1 DEF SendSync, Held
    <2> QED
      BY <1>1, <2>1, <2>2, AppendLast DEF SendSync, InFlight
  <1>2. ASSUME TakeSync PROVE InFlight' = InFlight
    <2>1. Head(syncQueue) \in Message
      BY <1>2 DEF TakeSync
    <2>2. Held = <<>> /\ Held' = <<Head(syncQueue)>>
      BY <1>2, <2>1, NamesAssumption DEF TakeSync, Held, NoMessage, Exited, Message
    <2>3. loopQueue \o syncQueue
            = Append(loopQueue, Head(syncQueue)) \o Tail(syncQueue)
      BY <1>2, MoveHead DEF TakeSync
    <2>4. Append(loopQueue, Head(syncQueue)) = loopQueue \o <<Head(syncQueue)>>
      BY <2>1
    <2>5. (loopQueue \o Held') \o Tail(syncQueue) = loopQueue \o syncQueue
      BY <2>2, <2>3, <2>4
    <2>6. loopQueue \o Held = loopQueue
      BY <2>2
    <2> QED
      BY <1>2, <2>5, <2>6 DEF TakeSync, InFlight
  <1>3. ASSUME Forward PROVE InFlight' = InFlight
    <2>1. bridge \in Message
      BY <1>3 DEF Forward
    <2>2. Held = <<bridge>> /\ Held' = <<>>
      BY <1>3 DEF Forward, Held
    <2>3. Append(loopQueue, bridge) \o <<>> = loopQueue \o <<bridge>>
      BY <2>1
    <2> QED
      BY <1>3, <2>2, <2>3 DEF Forward, InFlight
  <1>4. ASSUME Handle
        PROVE  /\ InFlight # <<>> /\ Head(InFlight) = Head(loopQueue)
               /\ InFlight' = Tail(InFlight)
    <2>1. Held' = Held /\ syncQueue' = syncQueue /\ loopQueue # <<>>
      BY <1>4 DEF Handle, Held
    <2>2. Tail(loopQueue \o Held) = Tail(loopQueue) \o Held
          /\ loopQueue \o Held # <<>> /\ Head(loopQueue \o Held) = Head(loopQueue)
      BY <1>0, <2>1
    <2>3. loopQueue \o Held \in Seq(Message)
      BY <1>0, ConcatProperties
    <2>4. /\ Tail((loopQueue \o Held) \o syncQueue) = Tail(loopQueue \o Held) \o syncQueue
          /\ (loopQueue \o Held) \o syncQueue # <<>>
          /\ Head((loopQueue \o Held) \o syncQueue) = Head(loopQueue \o Held)
      BY <2>2, <2>3
    <2> QED
      BY <1>4, <2>1, <2>2, <2>4 DEF Handle, InFlight
  <1> QED
    BY <1>1, <1>2, <1>3, <1>4

(* While the loop is not given up, nothing is lost, doubled or reordered   *)
(* between the callbacks and the loop (webrtc_offer.rs:538-556).           *)
THEOREM Lossless == Spec => []NothingLost
  <1>1. Init => NothingLost
    BY DEF Init, NothingLost, InFlight, Held
  <1>2. TypeOK /\ NothingLost /\ [Next]_vars => NothingLost'
    <2> SUFFICES ASSUME TypeOK, NothingLost, [Next]_vars, loop' # "gone"
                 PROVE  sent' = received' \o InFlight'
      BY DEF NothingLost
    <2>1. loop # "gone"
      BY DEF Next, vars, EnterCallback, SendSync, FailSync, TakeSync, Forward,
             ExitBridge, StartLoop, AbandonLoop, Handle
    <2>2. sent = received \o InFlight
      BY <2>1 DEF NothingLost
    <2>3. InFlight \in Seq(Message) /\ received \in Seq(Message)
      BY StageTypes DEF TypeOK
    <2>4. ASSUME NEW c \in Channels, SendSync(c)
          PROVE  sent' = received' \o InFlight'
      <3>1. callback[c] \in Message
        BY <2>4 DEF SendSync, TypeOK, MessageOr
      <3>2. InFlight' = Append(InFlight, callback[c])
        BY <2>4, FlightMoves
      <3>3. received \o Append(InFlight, callback[c]) = Append(received \o InFlight, callback[c])
        BY <2>3, <3>1, AppendLast
      <3> QED
        BY <2>2, <2>4, <3>2, <3>3 DEF SendSync
    <2>5. CASE TakeSync \/ Forward
      <3>1. InFlight' = InFlight
        BY <2>5, FlightMoves
      <3> QED
        BY <2>2, <2>5, <3>1 DEF TakeSync, Forward
    <2>6. CASE Handle
      <3>1. /\ InFlight # <<>> /\ Head(InFlight) = Head(loopQueue)
            /\ InFlight' = Tail(InFlight)
        BY <2>6, FlightMoves
      <3>2. received \o InFlight = Append(received, Head(InFlight)) \o Tail(InFlight)
        BY <2>3, <3>1, MoveHead
      <3> QED
        BY <2>2, <2>6, <3>1, <3>2 DEF Handle
    <2>7. ASSUME UNCHANGED <<bridge, syncQueue, loopQueue, sent, received>>
          PROVE  sent' = received' \o InFlight'
      BY <2>2, <2>7 DEF InFlight, Held
    <2>8. CASE UNCHANGED vars
      BY <2>7, <2>8 DEF vars
    <2>9. CASE \E c \in Channels : EnterCallback(c) \/ FailSync(c)
      BY <2>7, <2>9 DEF EnterCallback, FailSync
    <2>10. CASE ExitBridge
      BY <2>1, <2>10 DEF ExitBridge
    <2>11. CASE StartLoop \/ AbandonLoop
      BY <2>7, <2>11 DEF StartLoop, AbandonLoop
    <2> QED
      BY <2>4, <2>5, <2>6, <2>8, <2>9, <2>10, <2>11 DEF Next
  <1> QED
    BY <1>1, <1>2, TypeCorrect, PTL DEF Spec

(* The bridge is a queue: each step sends a message, receives the oldest   *)
(* one, or is invisible.                                                   *)
THEOREM ImplementsQueue == Spec => QueueSpec
  <1>1. Init => Queue!Init
    BY DEF Init, Queue!Init
  <1>2. TypeOK /\ NothingLost /\ [Next]_vars => [Queue!Next]_<<sent, received>>
    <2> SUFFICES ASSUME TypeOK, NothingLost, [Next]_vars
                 PROVE  [Queue!Next]_<<sent, received>>
      OBVIOUS
    <2>1. ASSUME NEW c \in Channels, SendSync(c) PROVE Queue!Next
      <3>1. callback[c] \in Message
        BY <2>1 DEF SendSync, TypeOK, MessageOr
      <3> QED
        BY <2>1, <3>1 DEF SendSync, Queue!Next, Queue!Send
    <2>2. CASE Handle
      <3>1. InFlight # <<>> /\ Head(InFlight) = Head(loopQueue)
        BY <2>2, FlightMoves
      <3>2. sent = received \o InFlight
        BY <2>2 DEF Handle, NothingLost
      <3>3. InFlight \in Seq(Message) /\ received \in Seq(Message)
        BY StageTypes DEF TypeOK
      <3>4. Len(received) < Len(sent) /\ sent[Len(received) + 1] = Head(InFlight)
        BY <3>1, <3>2, <3>3
      <3> QED
        BY <2>2, <3>1, <3>4 DEF Handle, Queue!Next, Queue!Receive
    <2>3. CASE UNCHANGED vars
      BY <2>3 DEF vars
    <2>4. CASE \/ \E c \in Channels : EnterCallback(c) \/ FailSync(c)
               \/ TakeSync \/ Forward \/ ExitBridge \/ StartLoop \/ AbandonLoop
      BY <2>4 DEF EnterCallback, FailSync, TakeSync, Forward, ExitBridge,
                  StartLoop, AbandonLoop
    <2> QED
      BY <2>1, <2>2, <2>3, <2>4 DEF Next
  <1> QED
    BY <1>1, <1>2, TypeCorrect, Lossless, PTL DEF Spec, QueueSpec, Queue!Spec

-----------------------------------------------------------------------------
(* The session.                                                            *)

(* Every step of the thread, of GTK and of the channels is a step of the   *)
(* bridge, or none of its business (main.rs, webrtc_offer.rs:536-632).     *)
LEMMA StepOfBridge ==
    ASSUME [StartupNext]_startupVars
    PROVE  [Next]_vars
  <1>1. CASE GiveUp \/ NoAddress
    BY <1>1 DEF GiveUp, NoAddress, Next
  <1>2. CASE Spawn
    BY <1>2 DEF Spawn, Next
  <1>3. CASE \/ BuildOffer \/ (\E a \in Answers : PostOffer(a))
             \/ Rewrite \/ ParseAnswer \/ (\E ok \in BOOLEAN : Describe(ok))
             \/ AddCandidate \/ Activate
    BY <1>3 DEF BuildOffer, PostOffer, Rewrite, ParseAnswer, Describe, AddCandidate, Activate
  <1>4. CASE \E c \in Channels : Arrive(c)
    BY <1>4 DEF Arrive, Next
  <1>5. CASE Bridge
    BY <1>5 DEF Bridge, Next
  <1>6. CASE UNCHANGED startupVars
    BY <1>6 DEF startupVars
  <1> QED
    BY <1>1, <1>2, <1>3, <1>4, <1>5, <1>6 DEF StartupNext, Answered

(* The session implements the bridge.                                      *)
THEOREM ImplementsBridge == StartupSpec => Spec
  <1>1. StartupInit => Init
    BY DEF StartupInit
  <1>2. [StartupNext]_startupVars => [Next]_vars
    BY StepOfBridge
  <1> QED
    BY <1>1, <1>2, PTL DEF StartupSpec, Spec

(* The start goes through its steps only, and what it hands to the peer    *)
(* connection has been resolved (main.rs:122-193).                         *)
THEOREM SessionTyped == StartupSpec => []StartupTypeOK
  <1> DEFINE Own ==
        /\ main \in {"build", "post", "rewrite", "parse", "describe", "candidate",
                     "spawn", "idle", "returned"}
        /\ host \in Hosts \cup {"none"} /\ described \in BOOLEAN
        /\ window \in {"none", "shown", "aborted"}
        /\ answer \in Answers \cup {{}}
        /\ candidates \subseteq {"address", "name"}
  <1>1. StartupInit => Own
    BY DEF StartupInit
  <1>2. Own /\ [StartupNext]_startupVars => Own'
    <2> SUFFICES ASSUME Own, [StartupNext]_startupVars PROVE Own'
      OBVIOUS
    <2> USE DEF ownVars
    <2>1. CASE GiveUp \/ BuildOffer \/ ParseAnswer \/ AddCandidate \/ NoAddress \/ Spawn
      BY <2>1 DEF GiveUp, BuildOffer, ParseAnswer, AddCandidate, NoAddress, Spawn
    <2>2. ASSUME NEW a \in Answers, PostOffer(a) PROVE Own'
      BY <2>2 DEF PostOffer
    <2>3. CASE Rewrite
      BY <2>3 DEF Rewrite, Hosts, Resolved
    <2>4. ASSUME NEW ok \in BOOLEAN, Describe(ok) PROVE Own'
      BY <2>4 DEF Describe
    <2>5. CASE Activate
      BY <2>5 DEF Activate
    <2>6. CASE (\E c \in Channels : Arrive(c)) \/ Bridge
      BY <2>6 DEF Arrive, Bridge
    <2>7. CASE UNCHANGED startupVars
      BY <2>7 DEF startupVars
    <2> QED
      BY <2>1, <2>2, <2>3, <2>4, <2>5, <2>6, <2>7 DEF StartupNext, Answered
  <1>3. StartupSpec => []Own
    BY <1>1, <1>2, PTL DEF StartupSpec
  <1>4. TypeOK /\ Own => StartupTypeOK
    BY DEF StartupTypeOK
  <1> QED
    BY <1>3, <1>4, ImplementsBridge, TypeCorrect, PTL

(* From the first message, before the loop is spawned, to the last, the    *)
(* bridge loses nothing; with main gone it is a queue still.               *)
THEOREM SessionLossless == StartupSpec => []NothingLost
  BY ImplementsBridge, Lossless, PTL

THEOREM SessionIsQueue == StartupSpec => QueueSpec
  BY ImplementsBridge, ImplementsQueue, PTL
=============================================================================
