------------------------------ MODULE Startup -------------------------------
(***************************************************************************)
(* How a session comes about (src/main.rs, src/webrtc_client.rs): a thread *)
(* of its own builds the offer, posts it, rewrites the candidates of the   *)
(* answer into addresses, hands the answer to the peer connection and      *)
(* spawns the archive loop, unless something on the way makes it return.   *)
(* From the moment the answer is set, the data channels may open and their *)
(* messages come through the bridge of DcBridge.                           *)
(***************************************************************************)
EXTENDS DcBridge

CONSTANTS
    Answers,       \* of which kinds the candidates of an answer may be
    MaxActivations \* bound: how often the program is started

VARIABLES
    main,       \* where the thread is
    host,       \* the host of webrtc_url
    answer,     \* the candidates of the answer
    candidates, \* those of answer_sdp, in which hosts are addresses
    described,  \* TRUE: the remote description is set
    window,     \* the main window: none, shown, or the program is aborted
    activations \* how often the program was started

ownVars == <<host, answer, candidates, described, window, activations>>
startupVars == <<vars, main, ownVars>>

(* A host is an address, a name, or a name nobody knows.                   *)
Hosts == {"address", "name", "unknown"}
Resolved(h) == h # "unknown"  \* parse::<IpAddr>, or resolve_host_to_ip

StartupInit ==
    /\ Init
    /\ main = "build" /\ host \in Hosts \cup {"none"}
    /\ answer = {} /\ candidates = {} /\ described = FALSE
    /\ window = "none" /\ activations = 0

-----------------------------------------------------------------------------
(* The thread. What it returns without is dropped with the runtime.        *)

(* The offer cannot be built, posted or read, or its answer not be parsed. *)
GiveUp ==
    /\ main \in {"build", "post", "parse"}
    /\ main' = "returned"
    /\ AbandonLoop
    /\ UNCHANGED ownVars

BuildOffer ==
    /\ main = "build" /\ main' = "post"
    /\ UNCHANGED <<vars, ownVars>>

(* send_offer, which waits for the answer without a timeout.               *)
PostOffer(a) ==
    /\ main = "post" /\ main' = "rewrite"
    /\ answer' = a
    /\ UNCHANGED <<vars, host, candidates, described, window, activations>>

RewriteKeeping == \* mutant: a host nobody knows is left as it is
    /\ main = "rewrite" /\ main' = "parse"
    /\ candidates' = answer \cap Hosts
    /\ UNCHANGED <<vars, host, answer, described, window, activations>>

(* Lines that cannot be read, or whose host nobody knows, are dropped.     *)
Rewrite ==
    /\ main = "rewrite" /\ main' = "parse"
    /\ candidates' = {c \in answer \cap Hosts : Resolved(c)}
    /\ UNCHANGED <<vars, host, answer, described, window, activations>>

ParseAnswer ==
    /\ main = "parse" /\ main' = "describe"
    /\ UNCHANGED <<vars, ownVars>>

(* set_remote_description; an error is logged, and the loop spawned.       *)
Describe(ok) ==
    /\ main = "describe" /\ main' = IF ok THEN "candidate" ELSE "spawn"
    /\ described' = ok
    /\ UNCHANGED <<vars, host, answer, candidates, window, activations>>

(* The candidate of the first line once more, at the host of the URL: it   *)
(* is needed only if there is a line and a host.                           *)
Needless == host = "none" \/ candidates = {}

AddCandidateOnly == \* mutant: nothing follows when there is none to add
    /\ main = "candidate" /\ main' = "spawn"
    /\ ~Needless /\ Resolved(host)
    /\ UNCHANGED <<vars, ownVars>>

AddCandidate ==
    /\ main = "candidate" /\ main' = "spawn"
    /\ Needless \/ Resolved(host)
    /\ UNCHANGED <<vars, ownVars>>

(* The host has no address: main returns.                                  *)
NoAddress ==
    /\ main = "candidate" /\ ~Needless /\ ~Resolved(host)
    /\ main' = "returned"
    /\ AbandonLoop
    /\ UNCHANGED ownVars

Spawn ==
    /\ main = "spawn" /\ main' = "idle"
    /\ StartLoop
    /\ UNCHANGED ownVars

-----------------------------------------------------------------------------
(* GTK activates the application, and once more whenever the program is    *)
(* started again: the receiver of frames is gone by then.                  *)
Activate ==
    /\ activations < MaxActivations /\ activations' = activations + 1
    /\ window' = IF window = "none" THEN "shown" ELSE "aborted"
    /\ UNCHANGED <<vars, main, host, answer, candidates, described>>

(* The channels: they open after the answer was set.                       *)
Arrive(c) ==
    /\ described /\ main # "returned"
    /\ EnterCallback(c)
    /\ UNCHANGED <<main, ownVars>>

Bridge ==
    /\ \/ \E c \in Channels : SendSync(c) \/ FailSync(c)
       \/ TakeSync \/ Forward \/ ExitBridge \/ Handle
    /\ UNCHANGED <<main, ownVars>>

Answered ==
    \/ Rewrite \/ ParseAnswer
    \/ \E ok \in BOOLEAN : Describe(ok)
    \/ AddCandidate \/ NoAddress \/ Spawn

StartupNext ==
    /\ window # "aborted"
    /\ \/ GiveUp \/ BuildOffer
       \/ \E a \in Answers : PostOffer(a)
       \/ Answered
       \/ Activate
       \/ \E c \in Channels : Arrive(c)
       \/ Bridge

(* Once there is an answer the thread gets to its end; nothing is assumed  *)
(* of the server before. As in DcBridge, threads run and ready tasks get   *)
(* their turn.                                                             *)
StartupSpec == StartupInit /\ [][StartupNext]_startupVars
StartupFairSpec ==
    /\ StartupSpec /\ WF_startupVars(Answered)
    /\ \A c \in Channels : SF_startupVars(Arrive(c))
    /\ BridgeFairness

-----------------------------------------------------------------------------
(* Properties.                                                             *)

StartupTypeOK ==
    /\ TypeOK
    /\ main \in {"build", "post", "rewrite", "parse", "describe", "candidate",
                 "spawn", "idle", "returned"}
    /\ host \in Hosts \cup {"none"} /\ described \in BOOLEAN
    /\ window \in {"none", "shown", "aborted"}
    /\ answer \in Answers \cup {{}}
    /\ candidates \subseteq {"address", "name"}

(* main.rs:122, 208: whatever candidates the answer has, once it is set    *)
(* and the host of the URL has an address, every message the server sends  *)
(* on either channel reaches the loop.                                     *)
Delivered ==
    (described /\ Resolved(host)) ~> (Len(received) = PerChannel * Cardinality(Channels))

-----------------------------------------------------------------------------
(* main.rs:242: without an address only the explicit candidate is skipped. *)
OnlySkipped == described => main # "returned"

(* What the code does not do: a second start does not end the first.       *)
StaysUp == window # "aborted"
=============================================================================
