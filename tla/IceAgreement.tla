---------------------------- MODULE IceAgreement ----------------------------
(***************************************************************************)
(* What two calm ICE agents promise each other. In every session the       *)
(* controlling agent nominates one link; from then on either agent may     *)
(* come to use it, and uses no other until it leaves the session. The      *)
(* application is told of a connection only while a link is used.          *)
(*                                                                         *)
(* A link is a pair of addresses, <<controlling side, controlled side>>.   *)
(***************************************************************************)
EXTENDS Integers

CONSTANT Links

VARIABLES
    session,      \* the session each agent is in
    nominations,  \* the links nominated, in sessions some agent still is in
    used,         \* the link each agent uses
    connected     \* the agents that report a connection

vars == <<session, nominations, used, connected>>

Agents == {"controlling", "controlled"}
Other(a) == IF a = "controlling" THEN "controlled" ELSE "controlling"
Nothing == <<"none", "none">>

Init ==
    /\ session = [a \in Agents |-> 1]
    /\ nominations = {}
    /\ used = [a \in Agents |-> Nothing] /\ connected = {}

Nominate(l) ==
    /\ \A n \in nominations : n.gen # session["controlling"]
    /\ nominations' =
          nominations \cup {[gen |-> session["controlling"], link |-> l]}
    /\ UNCHANGED <<session, used, connected>>

Use(a) ==
    /\ used[a] = Nothing
    /\ \E n \in nominations :
          n.gen = session[a] /\ used' = [used EXCEPT ![a] = n.link]
    /\ connected' = connected \cup {a}
    /\ UNCHANGED <<session, nominations>>

Report(a) ==
    /\ used[a] # Nothing
    /\ connected' = connected \cup {a}
    /\ UNCHANGED <<session, nominations, used>>

(* It fails or is closed.                                                  *)
GiveUp(a) ==
    /\ connected' = connected \ {a}
    /\ UNCHANGED <<session, nominations, used>>

Leave(a) ==
    /\ session' = [session EXCEPT ![a] = @ + 1]
    /\ used' = [used EXCEPT ![a] = Nothing]
    /\ connected' = connected \ {a}
    /\ nominations' = {n \in nominations : n.gen >= session[Other(a)]}

Next ==
    \/ \E l \in Links : Nominate(l)
    \/ \E a \in Agents : Use(a) \/ Report(a) \/ GiveUp(a) \/ Leave(a)

Spec == Init /\ [][Next]_vars
=============================================================================
