------------------------------ MODULE IceAgent ------------------------------
(***************************************************************************)
(* Two ICE agents (third_party/webrtc-ice/src/agent) over a network that   *)
(* loses, duplicates and delays packets. Each agent has a task that        *)
(* contacts candidates on a timer and one that receives, per local         *)
(* candidate; all of them run on several threads. Signalling is external:  *)
(* it tells an agent the credentials and the candidates of the other.      *)
(*                                                                         *)
(* A task may lose its turn between deciding to nominate a pair, to select *)
(* one or to report a state, and doing so: decided holds what it decided.  *)
(*                                                                         *)
(* What depends on a clock only is a choice: whether a check has expired,  *)
(* the peer is silent, an acceptance wait is over.                         *)
(***************************************************************************)
EXTENDS Integers, FiniteSets

CONSTANTS
    Addrs,      \* the addresses of each agent
    Told,       \* those that gathering finds and signalling tells; the others
                \* are seen only as the source of packets
    MaxBinding, \* max_binding_requests
    Worlds      \* what surrounds the agents: see World

(* mode is "patient" if packets are neither lost, doubled nor slower than  *)
(* the timers, "calm" if a task does what it                               *)
(* decided before any other task of its agent runs, and "races" otherwise; *)
(* paths are the <<from, to>> that let packets pass; with trickle, checks  *)
(* may begin before all candidates are there; with ends, an agent may give *)
(* up or be closed; each is restarted at most restarts times (a bound).    *)
World(w) ==
    /\ w.mode \in {"patient", "calm", "races"}
    /\ w.trickle \in BOOLEAN /\ w.ends \in BOOLEAN /\ w.restarts \in Nat

Agents == {"controlling", "controlled"}
Peer(a) == IF a = "controlling" THEN "controlled" ELSE "controlling"

ASSUME AddrsAssumption ==
    /\ DOMAIN Addrs = Agents
    /\ Addrs["controlling"] \cap Addrs["controlled"] = {}
    /\ {"none", "contact"} \cap UNION {Addrs[a] : a \in Agents} = {}
ASSUME BoundsAssumption ==
    MaxBinding \in Nat /\ \A w \in Worlds : World(w)

VARIABLES
    world,       \* chosen at the start
    state,       \* connection_state
    gen,         \* local credentials, counted
    remoteGen,   \* remote credentials, 0 for none
    gathered,    \* what gathering has found since the last restart
    locals,      \* local_candidates, whose sockets are read
    remotes,     \* remote_candidates
    checklist,   \* agent_conn.checklist
    selected,    \* agent_conn.selected_pair
    nominated,   \* nominated_pair
    decided,     \* what tasks have decided and not done yet
    packets,     \* on their way
    nominations  \* history: where the controlling agent sent USE-CANDIDATE,
                 \* in sessions some agent still is in

candidateVars == <<gathered, locals, remotes>>
credentialVars == <<gen, remoteGen>>
choiceVars == <<selected, nominated, nominations>>
vars == <<world, state, credentialVars, candidateVars, checklist,
          choiceVars, decided, packets>>

-----------------------------------------------------------------------------
(* Pairs, and their entries in the checklist.                              *)

Pairs(a) == [local : Addrs[a], remote : Addrs[Peer(a)], type : {"told", "prflx"}]
NoPair == [local |-> "none", remote |-> "none", type |-> "none"]
Pair(l, c) == [local |-> l, remote |-> c.addr, type |-> c.type]

Absent == [state |-> "absent", count |-> 0, nominate |-> FALSE]
Waiting == [state |-> "waiting", count |-> 0, nominate |-> FALSE]

In(a, s) == {p \in Pairs(a) : checklist[a][p].state \in s}

(* Only the type tells local candidates of one agent apart, and the remote *)
(* ones: a pair with a peer-reflexive candidate has the lower priority.    *)
(* Among equals the first of the list is taken, which may be any.          *)
Best(ps) ==
    IF \E p \in ps : p.type = "told" THEN {p \in ps : p.type = "told"} ELSE ps

BestValid(a) == Best(In(a, {"succeeded"}))
BestAvailable(a) == Best(In(a, {"waiting", "progress", "succeeded"}))

(* add_pair for each of ps. find_pair never returns a second entry for the *)
(* same pair, so there is none here.                                       *)
Listed(list, ps) ==
    [p \in DOMAIN list |-> IF p \in ps /\ list[p] = Absent THEN Waiting ELSE list[p]]

(* find_remote_candidate: the first one with the address. A peer-reflexive *)
(* one is only added when there is none yet, so it comes first.            *)
Known(a, addr) == {c \in remotes[a] : c.addr = addr}
Found(a, addr) ==
    IF Known(a, addr) = {} \/ [addr |-> addr, type |-> "prflx"] \in remotes[a]
    THEN [addr |-> addr, type |-> "prflx"] ELSE [addr |-> addr, type |-> "told"]

-----------------------------------------------------------------------------
(* Packets. Those of an impatient network stay there: one that is never    *)
(* received is lost, one that is received again was doubled.               *)
(*                                                                         *)
(* pending_binding_requests is not kept. A response says what its request  *)
(* was about: there is none without a request; one that comes again finds  *)
(* the pair valid and, if it selects, selected; one whose request has been *)
(* forgotten after four seconds is as good as lost; and a restart, which   *)
(* forgets all of them, changes the generation.                            *)

Request(a, p, use) ==
    [kind |-> "request", from |-> p.local, to |-> p.remote, use |-> use,
     fromGen |-> gen[a], toGen |-> remoteGen[a]]

Response(a, p, m) ==
    [kind |-> "response", from |-> p.local, to |-> p.remote, use |-> m.use,
     fromGen |-> gen[a], toGen |-> m.fromGen]

(* What gets through of a set of packets.                                  *)
Passing(ms) == {m \in ms : <<m.from, m.to>> \in world.paths}

(* m arrives for a, and packets are sent.                                  *)
Arrives(a, m, sent) ==
    /\ m \in packets /\ m.to \in locals[a] /\ state[a] # "New"
    /\ packets' = (IF world.mode = "patient" THEN packets \ {m} ELSE packets)
                     \cup Passing(sent)

(* send_binding_request to each of ps.                                     *)
Ping(a, ps, use) == packets' = packets \cup Passing({Request(a, p, use) : p \in ps})

-----------------------------------------------------------------------------
(* Tasks.                                                                  *)

Decision(task, do, pair) == [task |-> task, do |-> do, pair |-> pair]

(* A task that is in the middle of something does nothing else; in calm    *)
(* modes no other task of the agent does either.                           *)
Free(a, task) ==
    /\ \A d \in decided[a] : d.task # task
    /\ world.mode # "races" => decided[a] = {}

Decide(a, ds) == decided' = [decided EXCEPT ![a] = @ \cup ds]

(* update_connection_state; going to Failed releases all candidates.       *)
Update(a, s) ==
    /\ state' = [state EXCEPT ![a] = s]
    /\ IF s = "Failed" /\ state[a] # "Failed"
       THEN /\ locals' = [locals EXCEPT ![a] = {}]
            /\ remotes' = [remotes EXCEPT ![a] = {}]
       ELSE UNCHANGED <<locals, remotes>>
    /\ UNCHANGED gathered

-----------------------------------------------------------------------------

Init ==
    /\ world \in Worlds
    /\ state = [a \in Agents |-> "New"]
    /\ gen = [a \in Agents |-> 1] /\ remoteGen = [a \in Agents |-> 0]
    /\ gathered = [a \in Agents |-> {}]
    /\ locals = [a \in Agents |-> {}] /\ remotes = [a \in Agents |-> {}]
    /\ checklist = [a \in Agents |-> [p \in Pairs(a) |-> Absent]]
    /\ selected = [a \in Agents |-> NoPair] /\ nominated = NoPair
    /\ decided = [a \in Agents |-> {}]
    /\ packets = {} /\ nominations = {}

-----------------------------------------------------------------------------
(* Signalling, gathering and the application.                              *)

(* An exchange of offer and answer gives both sides new credentials.       *)
Exchanged(a) == gen[a] = gen[Peer(a)]
Complete(a) ==
    /\ \A b \in Agents : gathered[b] = Addrs[b]
    /\ {c.addr : c \in remotes[a]} = Addrs[Peer(a)] \cap Told

(* dial and accept: start_connectivity_checks.                             *)
Start(a) ==
    /\ state[a] = "New" /\ Exchanged(a) /\ Free(a, "contact")
    /\ world.trickle \/ Complete(a)
    /\ state' = [state EXCEPT ![a] = "Checking"]
    /\ remoteGen' = [remoteGen EXCEPT ![a] = gen[Peer(a)]]
    /\ UNCHANGED <<world, gen, candidateVars, checklist, choiceVars,
                   decided, packets>>

SetRemoteCredentials(a) ==
    /\ state[a] # "New" /\ remoteGen[a] = 0 /\ Exchanged(a) /\ Free(a, "contact")
    /\ world.trickle \/ Complete(a)
    /\ remoteGen' = [remoteGen EXCEPT ![a] = gen[Peer(a)]]
    /\ UNCHANGED <<world, state, gen, candidateVars, checklist, choiceVars,
                   decided, packets>>

(* add_candidate, by the gathering task, which may outlive the agent.      *)
AddCandidate(a, l) ==
    /\ l \notin gathered[a] /\ Free(a, "gather")
    /\ gathered' = [gathered EXCEPT ![a] = @ \cup {l}]
    /\ locals' = [locals EXCEPT ![a] = @ \cup {l}]
    /\ checklist' = [checklist EXCEPT ![a] =
                       Listed(@, {Pair(l, c) : c \in remotes[a]})]
    /\ UNCHANGED <<world, state, credentialVars, remotes, choiceVars,
                   decided, packets>>

(* add_remote_candidate, for a candidate the other side has found.         *)
AddRemoteCandidate(a, addr) ==
    LET c == [addr |-> addr, type |-> "told"]
    IN  /\ addr \in Told \cap gathered[Peer(a)] /\ c \notin remotes[a]
        /\ Free(a, "signal")
        /\ remotes' = [remotes EXCEPT ![a] = @ \cup {c}]
        /\ checklist' = [checklist EXCEPT ![a] =
                           Listed(@, {Pair(l, c) : l \in locals[a]})]
        /\ UNCHANGED <<world, state, credentialVars, gathered, locals,
                       choiceVars, decided, packets>>

RestartKeepsState(s) == s \* mutant: the connection state survives a restart
RestartState(s) == "Checking"

(* Packets to the old credentials can only be discarded. The code awaits   *)
(* locks and the closing of candidates between these assignments, where    *)
(* another task may see some of them only: here they are one step.         *)
Restart(a) ==
    /\ gen[a] <= world.restarts
    /\ state[a] \notin {"New", "Closed"} /\ Free(a, "app")
    /\ gathered[a] \in {{}, Addrs[a]} \* not in the middle of gathering
    /\ gen' = [gen EXCEPT ![a] = @ + 1]
    /\ remoteGen' = [remoteGen EXCEPT ![a] = 0]
    /\ checklist' = [checklist EXCEPT ![a] = [p \in Pairs(a) |-> Absent]]
    /\ selected' = [selected EXCEPT ![a] = NoPair]
    /\ gathered' = [gathered EXCEPT ![a] = {}]
    /\ locals' = [locals EXCEPT ![a] = {}] /\ remotes' = [remotes EXCEPT ![a] = {}]
    /\ nominated' = IF a = "controlling" THEN NoPair ELSE nominated
    /\ state' = [state EXCEPT ![a] = RestartState(@)]
    /\ packets' = {m \in packets : m.to \notin Addrs[a]}
    /\ nominations' = {n \in nominations : n.gen >= gen[Peer(a)]}
    /\ UNCHANGED <<world, decided>>

Close(a) ==
    /\ world.ends /\ state[a] # "Closed" /\ Free(a, "app")
    /\ state' = [state EXCEPT ![a] = "Closed"]
    /\ locals' = [locals EXCEPT ![a] = {}] /\ remotes' = [remotes EXCEPT ![a] = {}]
    /\ UNCHANGED <<world, credentialVars, gathered, checklist, choiceVars,
                   decided, packets>>

-----------------------------------------------------------------------------
(* The contact task, on its timer or when it is asked to, in any state but *)
(* Failed. Once the agent is closed the task ends, unless its select picks *)
(* a timer or a demand that is ready as well.                              *)

Contacting(a) ==
    /\ state[a] \notin {"New", "Failed"}
    /\ Free(a, "contact")
    /\ world.mode = "patient" => packets = {} /\ \A b \in Agents : decided[b] = {}

contactUnchanged == <<world, credentialVars, gathered>>

(* Too long in Checking.                                                   *)
GiveUp(a) ==
    /\ Contacting(a) /\ world.ends
    /\ state[a] = "Checking"
    /\ Update(a, "Failed")
    /\ UNCHANGED <<contactUnchanged, checklist, choiceVars, decided, packets>>

(* validate_selected_pair has looked at the time; check_keepalive after it *)
(* may have something to send.                                             *)
Validate(a) ==
    /\ Contacting(a)
    /\ selected[a] # NoPair
    /\ \E s \in {"Connected"} \cup (IF world.mode = "patient" THEN {} ELSE {"Disconnected"})
                \cup (IF world.ends THEN {"Failed"} ELSE {}) :
          Decide(a, {Decision("contact", s, selected[a])})
    /\ UNCHANGED <<contactUnchanged, state, locals, remotes, checklist,
                   choiceVars, packets>>

(* Nothing to nominate yet, or what there is has not waited long enough.   *)
NothingNominatable(a) ==
    a = "controlling" =>
        /\ nominated = NoPair
        /\ \A p \in BestValid(a) : p.type = "prflx" \* host candidates need not wait

GivenUpNever(e) == FALSE \* mutant: a pair is checked forever
GivenUp(e) == e.count > MaxBinding

(* ping_all_candidates, for one entry of the list and for all.             *)
Checked(e) ==
    IF e.state \notin {"waiting", "progress"} THEN e
    ELSE IF GivenUp(e) THEN [e EXCEPT !.state = "failed"]
    ELSE [e EXCEPT !.state = "progress", !.count = @ + 1]

CheckAll(a) ==
    /\ Contacting(a)
    /\ selected[a] = NoPair /\ NothingNominatable(a)
    /\ checklist' = [checklist EXCEPT ![a] = [p \in Pairs(a) |-> Checked(@[p])]]
    /\ Ping(a, {p \in In(a, {"waiting", "progress"}) : ~GivenUp(checklist[a][p])}, FALSE)
    /\ UNCHANGED <<contactUnchanged, state, locals, remotes, choiceVars, decided>>

NominateBestAgain == \* mutant: an earlier nomination is forgotten
    LET a == "controlling"
    IN  /\ Contacting(a)
        /\ selected[a] = NoPair
        /\ \E p \in BestValid(a) : Decide(a, {Decision("contact", "nominate", p)})
        /\ UNCHANGED <<contactUnchanged, state, locals, remotes, checklist,
                       choiceVars, packets>>

NominateBest ==
    LET a == "controlling"
    IN  /\ Contacting(a)
        /\ selected[a] = NoPair /\ nominated = NoPair
        /\ \E p \in BestValid(a) : Decide(a, {Decision("contact", "nominate", p)})
        /\ UNCHANGED <<contactUnchanged, state, locals, remotes, checklist,
                       choiceVars, packets>>

(* nominate_pair.                                                          *)
SendNomination(p) ==
    /\ Ping("controlling", {p}, TRUE)
    /\ nominations' = nominations \cup {[gen |-> gen["controlling"], pair |-> p]}

Renominate ==
    /\ Contacting("controlling")
    /\ selected["controlling"] = NoPair /\ nominated # NoPair
    /\ SendNomination(nominated)
    /\ UNCHANGED <<contactUnchanged, state, locals, remotes, checklist, selected,
                   nominated, decided>>

-----------------------------------------------------------------------------
(* The receiving tasks: handle_inbound.                                    *)

Accepted(a, m) ==
    /\ m.fromGen = remoteGen[a]
    /\ m.toGen = gen[a]

receiveUnchanged ==
    <<world, state, credentialVars, gathered, locals, choiceVars>>

Discard(a, m) ==
    /\ Free(a, m.to)
    /\ ~Accepted(a, m) \/ (m.kind = "response" /\ Known(a, m.from) = {})
    /\ Arrives(a, m, {})
    /\ UNCHANGED <<receiveUnchanged, remotes, checklist, decided>>

(* The candidate a request comes from, a new peer-reflexive one if it is   *)
(* not known, and the checklist with its pairs.                            *)
Source(a, m) == Found(a, m.from)
NoteSource(a, m) == remotes' = [remotes EXCEPT ![a] = @ \cup {Source(a, m)}]
WithSource(a, m) ==
    IF Source(a, m) \in remotes[a] THEN checklist[a]
    ELSE Listed(checklist[a], {Pair(l, Source(a, m)) : l \in locals[a]})

(* The controlling agent answers, and may nominate the pair.               *)
ControllingRequest(m) ==
    LET a == "controlling"
        p == Pair(m.to, Source(a, m))
        nominating ==
            {d \in {Decision(m.to, "nominate", p)} :
                /\ checklist[a][p].state = "succeeded"
                /\ nominated = NoPair /\ selected[a] = NoPair
                /\ p \in BestAvailable(a)}
    IN  /\ m.kind = "request" /\ Free(a, m.to) /\ Accepted(a, m)
        /\ Arrives(a, m, {Response(a, p, m)})
        /\ NoteSource(a, m)
        /\ checklist' = [checklist EXCEPT ![a] = Listed(WithSource(a, m), {p})]
        /\ \E ds \in {nominating} \cup (IF p.type = "prflx" THEN {{}} ELSE {}) :
              Decide(a, ds)
        /\ UNCHANGED receiveUnchanged

(* The controlled agent takes note of a nomination, answers and checks the *)
(* pair itself; a pair it selects it selects before that.                  *)
Reply(p, m) ==
    LET a == "controlled"
    IN  Arrives(a, m, {Response(a, p, m), Request(a, p, FALSE)})

(* A nomination selects a valid pair at once, another when its own check   *)
(* is answered.                                                            *)
Selects(m, e) == m.use /\ e.state = "succeeded"
RemembersNothing(m, e) == FALSE \* mutant: an early nomination is lost
Remembers(m, e) == m.use /\ e.state # "succeeded"

ControlledRequest(m) ==
    LET a == "controlled"
        p == Pair(m.to, Source(a, m))
        list == Listed(WithSource(a, m), {p})
    IN  /\ m.kind = "request" /\ Free(a, m.to) /\ Accepted(a, m)
        /\ NoteSource(a, m) /\ Reply(p, m)
        /\ checklist' = [checklist EXCEPT ![a] =
              IF Remembers(m, list[p]) THEN [list EXCEPT ![p].nominate = TRUE] ELSE list]
        /\ Decide(a, IF Selects(m, list[p]) /\ selected[a] = NoPair
                     THEN {Decision(m.to, "select", p)} ELSE {})
        /\ UNCHANGED receiveUnchanged

(* A response makes its pair valid; the pair is selected if the request    *)
(* nominated it, or, at the controlled agent, if it was nominated before.  *)
ReceiveResponse(a, m) ==
    LET p == Pair(m.to, Found(a, m.from))
        chosen == /\ checklist[a][p] # Absent /\ selected[a] = NoPair
                  /\ IF a = "controlling" THEN m.use ELSE checklist[a][p].nominate
    IN  /\ m.kind = "response" /\ Free(a, m.to)
        /\ Accepted(a, m) /\ Known(a, m.from) # {}
        /\ Arrives(a, m, {})
        /\ checklist' = [checklist EXCEPT ![a][p] =
              IF @ = Absent THEN @ ELSE [@ EXCEPT !.state = "succeeded"]]
        /\ Decide(a, IF chosen THEN {Decision(m.to, "select", p)} ELSE {})
        /\ UNCHANGED <<receiveUnchanged, remotes>>

-----------------------------------------------------------------------------
(* What was decided is done.                                               *)

Nominate(d) ==
    /\ d \in decided["controlling"] /\ d.do = "nominate"
    /\ decided' = [decided EXCEPT !["controlling"] = @ \ {d}]
    /\ nominated' = d.pair
    /\ SendNomination(d.pair)
    /\ UNCHANGED <<contactUnchanged, state, locals, remotes, checklist, selected>>

(* set_selected_pair.                                                      *)
Select(a, d) ==
    /\ d \in decided[a] /\ d.do = "select"
    /\ decided' = [decided EXCEPT ![a] = @ \ {d}]
    /\ selected' = [selected EXCEPT ![a] = d.pair]
    /\ Update(a, "Connected")
    /\ UNCHANGED <<world, credentialVars, checklist, nominated, nominations,
                   packets>>

(* The state that validation found is reported; then, perhaps, keepalive.  *)
Report(a, d) ==
    /\ d \in decided[a] /\ d.do \notin {"nominate", "select"}
    /\ decided' = [decided EXCEPT ![a] = @ \ {d}]
    /\ Update(a, d.do)
    /\ \/ selected[a] # NoPair /\ Ping(a, {selected[a]}, FALSE)
       \/ (selected[a] = NoPair \/ world.mode # "patient") /\ UNCHANGED packets
    /\ UNCHANGED <<world, credentialVars, checklist, choiceVars>>

-----------------------------------------------------------------------------

Receive ==
    \E m \in packets :
          \/ \E a \in Agents : Discard(a, m) \/ ReceiveResponse(a, m)
          \/ ControllingRequest(m) \/ ControlledRequest(m)

Do(a) ==
    \/ \E d \in decided[a] : Select(a, d) \/ Report(a, d)
    \/ a = "controlling" /\ \E d \in decided[a] : Nominate(d)

Contact(a) ==
    \/ Validate(a) \/ CheckAll(a)
    \/ a = "controlling" /\ (NominateBest \/ Renominate)

Signalling(a) ==
    \/ Start(a) \/ SetRemoteCredentials(a)
    \/ \E l \in Addrs[a] : AddCandidate(a, l)
    \/ \E r \in Addrs[Peer(a)] : AddRemoteCandidate(a, r)

Next ==
    \/ \E a \in Agents :
          \/ Signalling(a) \/ Restart(a) \/ Close(a)
          \/ Contact(a) \/ GiveUp(a) \/ Do(a)
    \/ Receive

(* Tasks run, timers fire, signalling and what a patient network carries   *)
(* arrive.                                                                 *)
Fairness ==
    /\ \A a \in Agents : WF_vars(Signalling(a)) /\ WF_vars(Contact(a)) /\ WF_vars(Do(a))
    /\ WF_vars(NominateBest) /\ WF_vars(Receive)

Spec == Init /\ [][Next]_vars
FairSpec == Spec /\ Fairness

-----------------------------------------------------------------------------
(* Properties.                                                             *)

Entries == [state : {"absent", "waiting", "progress", "failed", "succeeded"},
            count : 0 .. MaxBinding + 1, nominate : BOOLEAN]

(* The shape of the state.                                                 *)
TypeOK ==
    /\ state \in [Agents -> {"New", "Checking", "Connected", "Disconnected",
                             "Failed", "Closed"}]
    /\ gen \in [Agents -> Nat] /\ remoteGen \in [Agents -> Nat]
    /\ \A a \in Agents :
          /\ locals[a] \subseteq gathered[a] /\ gathered[a] \subseteq Addrs[a]
          /\ checklist[a] \in [Pairs(a) -> Entries]
          /\ selected[a] \in Pairs(a) \cup {NoPair}
    /\ nominated \in Pairs("controlling") \cup {NoPair}

Mirrored(p, q) == p.local = q.remote /\ p.remote = q.local
SameSession ==
    \A a \in Agents : gen[a] = gen[Peer(a)] /\ remoteGen[a] = gen[Peer(a)]

(* The two agents never use different pairs: in every session, however     *)
(* packets are lost, doubled or late, restarts cross and the sides give    *)
(* up, the pairs selected are each other's mirror image.                   *)
Agreement ==
    world.mode # "races" /\ SameSession /\ (\A a \in Agents : selected[a] # NoPair)
      => Mirrored(selected["controlling"], selected["controlled"])

(* One pair is nominated in a session (of calm agents; racing ones may     *)
(* nominate two).                                                          *)
OneNomination ==
    \A n \in nominations, o \in nominations : n.gen = o.gen => n.pair = o.pair

(* The pair an agent has selected was nominated over the wire in a session *)
(* that some agent still is in: whatever races, and, of calm agents,       *)
(* whoever restarts.                                                       *)
SelectedNominated ==
    \A a \in Agents : selected[a] # NoPair =>
        \E n \in nominations :
            IF a = "controlling" THEN n.pair = selected[a]
            ELSE Mirrored(n.pair, selected[a])

(* What is used is what was agreed on.                                     *)
PairsAgree == Agreement /\ SelectedNominated

(* The application is told of a connection only while a pair is selected.  *)
ConnectedHasPair ==
    world.mode # "races" =>
      \A a \in Agents : state[a] \in {"Connected", "Disconnected"} => selected[a] # NoPair

(* The links of IceAgreement, pairs as both sides see them, and the rest.  *)
Link(p) == <<p.local, p.remote>>
Reversed(p) == <<p.remote, p.local>>
UsedLinks == [a \in Agents |-> IF a = "controlling" THEN Link(selected[a])
                               ELSE Reversed(selected[a])]
ConnectedAgents == {a \in Agents : state[a] \in {"Connected", "Disconnected"}}
NominatedLinks == {[gen |-> n.gen, link |-> Link(n.pair)] : n \in nominations}

Promise == INSTANCE IceAgreement WITH
    Links <- Addrs["controlling"] \X Addrs["controlled"],
    session <- gen, nominations <- NominatedLinks, used <- UsedLinks,
    connected <- ConnectedAgents

(* Calm agents, step by step, do what IceAgreement promises: the           *)
(* controlling one nominates once in a session, a pair is selected only    *)
(* after its nomination in the same session, one that is selected is never *)
(* exchanged for another nor given up before the agent is restarted, and   *)
(* a connection is reported only while there is one.                       *)
KeepsPromise ==
    /\ Promise!Init
    /\ [][world.mode # "races" => Promise!Next \/ UNCHANGED Promise!vars]_vars

(* If the network is patient and some pair works, both sides get to use    *)
(* the same pair for good.                                                 *)
SomePairWorks ==
    \E l \in Addrs["controlling"], r \in Addrs["controlled"] \cap Told :
        <<l, r>> \in world.paths /\ <<r, l>> \in world.paths
Connects ==
    world.mode = "patient" /\ SomePairWorks =>
      <>[](\A a \in Agents : state[a] = "Connected" /\ selected[a] # NoPair)
=============================================================================
