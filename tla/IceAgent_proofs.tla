-------------------------- MODULE IceAgent_proofs --------------------------
(***************************************************************************)
(* The two ICE agents agree, for any addresses, any number of checks and   *)
(* restarts, and a network that loses, doubles, delays and reorders.       *)
(*                                                                         *)
(* IceInv follows a nomination around the two agents. Grounded: what says  *)
(* that a pair was chosen - a packet with USE-CANDIDATE, the answer to it, *)
(* a flag of a checklist, a decision, a selected pair - goes back to a     *)
(* nomination of the session of whoever holds it. AllSteady: while the     *)
(* socket of a nominated pair is read, the remote candidate that is found  *)
(* for it stays the same, so the answer selects the pair that was          *)
(* nominated and not its twin of another type. CalmOrder: where tasks do   *)
(* not overtake each other, the agent nominates once per session.          *)
(***************************************************************************)
EXTENDS IceAgent, TLAPS

AllAddrs == Addrs["controlling"] \cup Addrs["controlled"]
AllPairs == Pairs("controlling") \cup Pairs("controlled")
Lists == [Pairs("controlling") -> Entries] \cup [Pairs("controlled") -> Entries]
Candidates(a) == [addr : Addrs[Peer(a)], type : {"told", "prflx"}]
Reported == {"Connected", "Disconnected", "Failed"}
Decisions(a) == [task : Addrs[a] \cup {"contact"},
                 do : {"nominate", "select"} \cup Reported, pair : Pairs(a)]
Messages == [kind : {"request", "response"}, from : AllAddrs, to : AllAddrs,
             use : BOOLEAN, fromGen : Nat \ {0}, toGen : Nat]
Nominations == [gen : Nat \ {0}, pair : Pairs("controlling")]

(* The shape of the whole state: TypeOK, packets and decisions included.   *)
Typed ==
    /\ TypeOK
    /\ world \in Worlds
    /\ gathered \in [Agents -> SUBSET AllAddrs] /\ locals \in [Agents -> SUBSET AllAddrs]
    /\ remotes \in [Agents -> SUBSET (Candidates("controlling") \cup Candidates("controlled"))]
    /\ checklist \in [Agents -> Lists]
    /\ selected \in [Agents -> AllPairs \cup {NoPair}]
    /\ decided \in [Agents -> SUBSET (Decisions("controlling") \cup Decisions("controlled"))]
    /\ \A a \in Agents :
          /\ gen[a] # 0 /\ remoteGen[a] \in {0, gen[a]}
          /\ remotes[a] \subseteq Candidates(a) /\ decided[a] \subseteq Decisions(a)
    /\ packets \subseteq Messages
    /\ \A m \in packets, a \in Agents : m.to \in Addrs[a] => m.from \in Addrs[Peer(a)]
    /\ nominations \subseteq Nominations
    /\ \A n \in nominations : n.gen <= gen["controlling"]

(* Some nomination of generation g is for the pair p of agent a.           *)
Backed(ns, g, a, p) ==
    \E n \in ns : /\ n.gen = g
                  /\ IF a = "controlling" THEN n.pair = p ELSE Mirrored(n.pair, p)
Agreed(a, p) == Backed(nominations, gen[a], a, p)

(* A packet with USE-CANDIDATE, or the answer to one, that its receiver    *)
(* would accept, was sent for a nomination of the receiver's session.      *)
Wired(ns, g, m) ==
    m.use =>
      /\ m.kind = "request" /\ m.to \in Addrs["controlled"] /\ m.fromGen = g["controlled"] =>
           \E n \in ns : /\ n.gen = g["controlled"]
                         /\ n.pair.local = m.from /\ n.pair.remote = m.to
      /\ m.kind = "response" /\ m.to \in Addrs["controlling"] /\ m.toGen = g["controlling"] =>
           \E n \in ns : /\ n.gen = g["controlling"]
                         /\ n.pair.local = m.to /\ n.pair.remote = m.from

(* Whatever speaks of a chosen pair goes back to a nomination.             *)
Grounded ==
    /\ nominated # NoPair => [gen |-> gen["controlling"], pair |-> nominated] \in nominations
    /\ \A m \in packets : Wired(nominations, gen, m)
    /\ \A p \in Pairs("controlled") : checklist["controlled"][p].nominate => Agreed("controlled", p)
    /\ \A a \in Agents :
          /\ selected[a] # NoPair => Agreed(a, selected[a])
          /\ \A d \in decided[a] : d.do = "select" => Agreed(a, d.pair)

(* While p's socket is read, p is the pair its remote address stands for.  *)
Steady(p) ==
    /\ p.local \in gathered["controlling"]
    /\ p.local \in locals["controlling"] =>
          /\ Known("controlling", p.remote) # {}
          /\ Found("controlling", p.remote).type = p.type

AllSteady ==
    /\ \A p \in Pairs("controlling") :
          checklist["controlling"][p].state = "succeeded" => Steady(p)
    /\ \A n \in nominations : n.gen = gen["controlling"] => Steady(n.pair)
    /\ \A d \in decided["controlling"] : d.do = "nominate" => Steady(d.pair)

Calm == world.mode # "races"
(* One nomination per session, one decision at a time, and what was        *)
(* decided still holds when it is done.                                    *)
CalmOrder ==
    Calm =>
      /\ OneNomination
      /\ \A n \in nominations : n.gen = gen["controlling"] => n.pair = nominated
      /\ \A d \in decided["controlling"] : d.do = "nominate" => nominated = NoPair
      /\ \A a \in Agents :
            /\ \A d, e \in decided[a] : d = e
            /\ \A d \in decided[a] : d.do \in Reported => selected[a] # NoPair
            /\ state[a] \in {"Connected", "Disconnected"} => selected[a] # NoPair

(* Tasks race only where no agent is restarted.                            *)
Tame == \A w \in Worlds : w.mode # "races" \/ w.restarts = 0

IceInv == Typed /\ Grounded /\ AllSteady /\ CalmOrder

-----------------------------------------------------------------------------
(* The constants and the operators of the model.                           *)

LEMMA Ground ==
    /\ Agents = {"controlling", "controlled"}
    /\ Peer("controlling") = "controlled" /\ Peer("controlled") = "controlling"
    /\ \A a \in Agents : /\ Peer(a) \in Agents /\ Peer(a) # a /\ Peer(Peer(a)) = a
                         /\ NoPair \notin Pairs(a) /\ NoPair \notin AllPairs
                         /\ Addrs[a] \subseteq AllAddrs /\ Pairs(a) \subseteq AllPairs
                         /\ Decisions(a) \subseteq Decisions("controlling") \cup Decisions("controlled")
                         /\ Candidates(a) \subseteq Candidates("controlling") \cup Candidates("controlled")
                         /\ Addrs[a] \cap Addrs[Peer(a)] = {}
                         /\ AllAddrs = Addrs[a] \cup Addrs[Peer(a)]
<1>1. Agents = {"controlling", "controlled"} /\ Peer("controlling") = "controlled"
      /\ Peer("controlled") = "controlling"
  BY DEF Agents, Peer
<1>2. \A a \in Agents : Addrs[a] \cap Addrs[Peer(a)] = {} /\ AllAddrs = Addrs[a] \cup Addrs[Peer(a)]
  BY <1>1, AddrsAssumption DEF AllAddrs
<1>3. "none" \notin Addrs["controlling"] /\ "none" \notin Addrs["controlled"]
  BY <1>1, AddrsAssumption
<1>4. NoPair \notin Pairs("controlling") /\ NoPair \notin Pairs("controlled")
  BY <1>1, <1>3 DEF NoPair, Pairs
<1>5. QED
  BY <1>1, <1>2, <1>4 DEF AllPairs, AllAddrs

LEMMA ListedEntries ==
    ASSUME NEW a \in Agents, NEW list \in [Pairs(a) -> Entries], NEW ps
    PROVE  /\ Listed(list, ps) \in [Pairs(a) -> Entries]
           /\ \A p \in Pairs(a) :
                 /\ Listed(list, ps)[p].state = "succeeded" <=> list[p].state = "succeeded"
                 /\ Listed(list, ps)[p].nominate <=> list[p].nominate
<1>1. Waiting \in Entries
  BY BoundsAssumption DEF Waiting, Entries
<1>2. Waiting.state # "succeeded" /\ Absent.state # "succeeded" /\ ~Waiting.nominate /\ ~Absent.nominate
  BY DEF Waiting, Absent
<1>3. QED
  BY <1>1, <1>2 DEF Listed

LEMMA FoundCandidate ==
    ASSUME NEW a \in Agents, NEW r
    PROVE  Found(a, r).addr = r /\ Found(a, r).type \in {"told", "prflx"}
           /\ (r \in Addrs[Peer(a)] => Found(a, r) \in Candidates(a))
           /\ \A l \in Addrs[a] : r \in Addrs[Peer(a)] => Pair(l, Found(a, r)) \in Pairs(a)
  BY DEF Found, Candidates, Pair, Pairs

-----------------------------------------------------------------------------
(* Types.                                                                  *)

LEMMA TypedInit == Init => Typed
<1> SUFFICES ASSUME Init PROVE Typed
  OBVIOUS
<1>1. Absent \in Entries
  BY BoundsAssumption DEF Absent, Entries
<1>2. \A a \in Agents : checklist[a] \in [Pairs(a) -> Entries]
  BY <1>1 DEF Init
<1>3. QED
  BY <1>1, <1>2, Ground DEF Init, Typed, TypeOK, Lists

LEMMA TypedSignalling ==
    ASSUME Typed, NEW a \in Agents, Signalling(a)
    PROVE  Typed'
<1> USE Ground DEF Typed, TypeOK, candidateVars, credentialVars, choiceVars
<1>1. CASE Start(a)
  BY <1>1 DEF Start, Exchanged
<1>2. CASE SetRemoteCredentials(a)
  BY <1>2 DEF SetRemoteCredentials, Exchanged
<1>3. ASSUME NEW l \in Addrs[a], AddCandidate(a, l)
      PROVE  Typed'
  <2> DEFINE list == Listed(checklist[a], {Pair(l, c) : c \in remotes[a]})
  <2>1. list \in [Pairs(a) -> Entries]
    BY ListedEntries
  <2>2. /\ checklist' = [checklist EXCEPT ![a] = list]
        /\ gathered' = [gathered EXCEPT ![a] = @ \cup {l}]
        /\ locals' = [locals EXCEPT ![a] = @ \cup {l}]
        /\ UNCHANGED <<world, state, gen, remoteGen, remotes, selected, nominated, nominations, decided, packets>>
    BY <1>3 DEF AddCandidate
  <2> HIDE DEF list
  <2>3. QED
    BY <2>1, <2>2 DEF Lists
<1>4. ASSUME NEW r \in Addrs[Peer(a)], AddRemoteCandidate(a, r)
      PROVE  Typed'
  <2> DEFINE c == [addr |-> r, type |-> "told"]
             list == Listed(checklist[a], {Pair(l, c) : l \in locals[a]})
  <2>1. list \in [Pairs(a) -> Entries]
    BY ListedEntries
  <2>2. /\ checklist' = [checklist EXCEPT ![a] = list]
        /\ remotes' = [remotes EXCEPT ![a] = @ \cup {c}]
        /\ UNCHANGED <<world, state, gen, remoteGen, gathered, locals, selected, nominated, nominations, decided, packets>>
    BY <1>4 DEF AddRemoteCandidate
  <2>3. c \in Candidates(a)
    BY DEF Candidates
  <2> HIDE DEF list, c
  <2>4. QED
    BY <2>1, <2>2, <2>3 DEF Lists
<1>5. QED
  BY <1>1, <1>2, <1>3, <1>4 DEF Signalling

LEMMA PingTyped ==
    ASSUME Typed, NEW a \in Agents, NEW ps \in SUBSET Pairs(a), NEW use \in BOOLEAN
    PROVE  \A p \in ps :
             /\ Request(a, p, use) \in Messages
             /\ \A b \in Agents : Request(a, p, use).to \in Addrs[b]
                                  => Request(a, p, use).from \in Addrs[Peer(b)]
<1>1. \A p \in ps : p.local \in Addrs[a] /\ p.remote \in Addrs[Peer(a)]
  BY DEF Pairs
<1>2. gen[a] \in Nat \ {0} /\ remoteGen[a] \in Nat
  BY DEF Typed, TypeOK
<1>3. QED
  BY <1>1, <1>2, Ground DEF Request, Messages

LEMMA PacketsPinged ==
    ASSUME Typed, NEW a \in Agents, NEW ps \in SUBSET Pairs(a), NEW use \in BOOLEAN,
           Ping(a, ps, use)
    PROVE  \A m \in packets' : /\ m \in Messages
                               /\ \A b \in Agents : m.to \in Addrs[b] => m.from \in Addrs[Peer(b)]
<1>1. \A m \in packets' : m \in packets \/ \E p \in ps : m = Request(a, p, use)
  BY DEF Ping, Passing
<1>2. \A m \in packets : /\ m \in Messages
                         /\ \A b \in Agents : m.to \in Addrs[b] => m.from \in Addrs[Peer(b)]
  BY DEF Typed
<1>3. QED
  BY <1>1, <1>2, PingTyped

LEMMA ResponseTyped ==
    ASSUME Typed, NEW a \in Agents, NEW p \in Pairs(a), NEW m \in Messages
    PROVE  /\ Response(a, p, m) \in Messages
           /\ \A b \in Agents : Response(a, p, m).to \in Addrs[b]
                                => Response(a, p, m).from \in Addrs[Peer(b)]
<1>1. p.local \in Addrs[a] /\ p.remote \in Addrs[Peer(a)]
  BY DEF Pairs
<1>2. gen[a] \in Nat \ {0} /\ m.use \in BOOLEAN /\ m.fromGen \in Nat
  BY DEF Typed, TypeOK, Messages
<1>3. QED
  BY <1>1, <1>2, Ground DEF Response, Messages

LEMMA UpdateTyped ==
    ASSUME Typed, NEW a \in Agents, NEW s \in Reported, Update(a, s)
    PROVE  /\ locals' \in [Agents -> SUBSET AllAddrs]
           /\ remotes' \in [Agents -> SUBSET (Candidates("controlling") \cup Candidates("controlled"))]
           /\ state' = [state EXCEPT ![a] = s] /\ gathered' = gathered
           /\ \A b \in Agents : /\ locals'[b] \subseteq locals[b]
                                /\ remotes'[b] \subseteq remotes[b]
                                /\ locals'[b] # {} => remotes'[b] = remotes[b]
           /\ \A b \in Agents : locals'[b] = locals[b] \/ locals'[b] = {}
<1> USE Ground DEF Typed, TypeOK
<1>1. CASE s = "Failed" /\ state[a] # "Failed"
  BY <1>1 DEF Update
<1>2. CASE ~(s = "Failed" /\ state[a] # "Failed")
  BY <1>2 DEF Update
<1>3. QED
  BY <1>1, <1>2

LEMMA TypedRestart ==
    ASSUME Typed, NEW a \in Agents, Restart(a)
    PROVE  Typed'
<1> DEFINE list == [p \in Pairs(a) |-> Absent]
<1>1. list \in [Pairs(a) -> Entries]
  BY BoundsAssumption DEF Absent, Entries
<1>2. /\ gen' = [gen EXCEPT ![a] = @ + 1]
      /\ remoteGen' = [remoteGen EXCEPT ![a] = 0]
      /\ checklist' = [checklist EXCEPT ![a] = list]
      /\ selected' = [selected EXCEPT ![a] = NoPair]
      /\ gathered' = [gathered EXCEPT ![a] = {}]
      /\ locals' = [locals EXCEPT ![a] = {}] /\ remotes' = [remotes EXCEPT ![a] = {}]
      /\ nominated' = IF a = "controlling" THEN NoPair ELSE nominated
      /\ state' = [state EXCEPT ![a] = "Checking"]
      /\ packets' \subseteq packets /\ nominations' \subseteq nominations
      /\ UNCHANGED <<world, decided>>
  BY DEF Restart, RestartState
<1> HIDE DEF list
<1> USE Ground DEF Typed, TypeOK
<1>3. /\ gen' \in [Agents -> Nat] /\ \A b \in Agents : gen'[b] # 0 /\ gen[b] <= gen'[b]
  BY <1>2
<1>4. \A b \in Agents : remoteGen'[b] \in {0, gen'[b]}
  BY <1>2
<1>5. \A b \in Agents : checklist'[b] \in [Pairs(b) -> Entries]
  BY <1>1, <1>2
<1>6. \A n \in nominations' : n \in Nominations /\ n.gen <= gen'["controlling"]
  BY <1>2, <1>3 DEF Nominations
<1>7. QED
  BY <1>2, <1>3, <1>4, <1>5, <1>6 DEF Lists

LEMMA TypedClose ==
    ASSUME Typed, NEW a \in Agents, Close(a)
    PROVE  Typed'
  BY Ground DEF Typed, TypeOK, Close, credentialVars, choiceVars

LEMMA CheckedEntry ==
    ASSUME NEW e \in Entries
    PROVE  /\ Checked(e) \in Entries
           /\ Checked(e).state = "succeeded" <=> e.state = "succeeded"
           /\ Checked(e).nominate <=> e.nominate
<1>1. e.count \in 0 .. MaxBinding + 1 /\ MaxBinding \in Nat
  BY BoundsAssumption DEF Entries
<1>2. CASE e.state \notin {"waiting", "progress"}
  BY <1>2 DEF Checked
<1>3. CASE e.state \in {"waiting", "progress"} /\ GivenUp(e)
  BY <1>3 DEF Checked, Entries
<1>4. CASE e.state \in {"waiting", "progress"} /\ ~GivenUp(e)
  <2>1. e.count + 1 \in 0 .. MaxBinding + 1
    BY <1>1, <1>4 DEF GivenUp
  <2>2. Checked(e) = [e EXCEPT !.state = "progress", !.count = e.count + 1]
    BY <1>4 DEF Checked
  <2>3. QED
    BY <2>1, <2>2, <1>4 DEF Entries
<1>5. QED
  BY <1>2, <1>3, <1>4

LEMMA TypedCheckAll ==
    ASSUME Typed, NEW a \in Agents, CheckAll(a)
    PROVE  Typed'
<1> DEFINE list == [p \in Pairs(a) |-> Checked(checklist[a][p])]
<1>1. list \in [Pairs(a) -> Entries]
  BY CheckedEntry DEF Typed, TypeOK
<1>2. /\ checklist' = [checklist EXCEPT ![a] = list]
      /\ UNCHANGED <<contactUnchanged, state, locals, remotes, choiceVars, decided>>
  BY DEF CheckAll
<1>3. PICK ps \in SUBSET Pairs(a) : Ping(a, ps, FALSE)
  BY DEF CheckAll, In
<1>4. \A m \in packets' : m \in Messages /\ \A b \in Agents : m.to \in Addrs[b] => m.from \in Addrs[Peer(b)]
  BY <1>3, PacketsPinged
<1> HIDE DEF list
<1>5. QED
  BY <1>1, <1>2, <1>4, Ground DEF Lists, Typed, TypeOK, contactUnchanged, credentialVars, choiceVars

LEMMA TypedContact ==
    ASSUME Typed, NEW a \in Agents, Contact(a) \/ GiveUp(a)
    PROVE  Typed'
<1> USE Ground DEF Typed, TypeOK, credentialVars, choiceVars, contactUnchanged
<1>1. CASE GiveUp(a)
  <2>1. Update(a, "Failed") /\ UNCHANGED <<contactUnchanged, checklist, choiceVars, decided, packets>>
    BY <1>1 DEF GiveUp
  <2>2. QED
    BY <2>1, UpdateTyped DEF Reported
<1>2. CASE Validate(a)
  <2>1. PICK s \in Reported : Decide(a, {Decision("contact", s, selected[a])})
    BY <1>2 DEF Validate, Reported
  <2>2. Decision("contact", s, selected[a]) \in Decisions(a)
    BY <1>2 DEF Validate, Decision, Decisions
  <2>3. QED
    BY <1>2, <2>1, <2>2 DEF Validate, Decide
<1>3. CASE CheckAll(a)
  BY <1>3, TypedCheckAll
<1>4. CASE a = "controlling" /\ NominateBest
  <2>1. PICK p \in BestValid(a) : Decide(a, {Decision("contact", "nominate", p)})
    BY <1>4 DEF NominateBest
  <2>2. Decision("contact", "nominate", p) \in Decisions(a)
    BY DEF BestValid, Best, In, Decision, Decisions
  <2>3. QED
    BY <1>4, <2>1, <2>2 DEF NominateBest, Decide
<1>5. CASE a = "controlling" /\ Renominate
  <2>1. /\ nominated \in Pairs(a) /\ SendNomination(nominated)
        /\ UNCHANGED <<contactUnchanged, state, locals, remotes, checklist, selected, nominated, decided>>
    BY <1>5 DEF Renominate
  <2>2. \A m \in packets' : m \in Messages /\ \A b \in Agents : m.to \in Addrs[b] => m.from \in Addrs[Peer(b)]
    <3>1. Ping(a, {nominated}, TRUE) /\ {nominated} \in SUBSET Pairs(a)
      BY <2>1, <1>5 DEF SendNomination
    <3>2. QED
      BY <3>1, PacketsPinged
  <2>3. /\ nominations' = nominations \cup {[gen |-> gen["controlling"], pair |-> nominated]}
        /\ [gen |-> gen["controlling"], pair |-> nominated] \in Nominations
    BY <2>1, <1>5 DEF SendNomination, Nominations
  <2>4. QED
    BY <2>1, <2>2, <2>3
<1>6. QED
  BY <1>1, <1>2, <1>3, <1>4, <1>5 DEF Contact

LEMMA PacketsArrived ==
    ASSUME Typed, NEW a \in Agents, NEW m, NEW sent, Arrives(a, m, sent),
           \A s \in sent : /\ s \in Messages
                           /\ \A b \in Agents : s.to \in Addrs[b] => s.from \in Addrs[Peer(b)]
    PROVE  /\ m \in packets /\ m \in Messages
           /\ m.to \in Addrs[a] /\ m.from \in Addrs[Peer(a)]
           /\ \A s \in packets' : /\ s \in Messages
                                  /\ \A b \in Agents : s.to \in Addrs[b] => s.from \in Addrs[Peer(b)]
<1>1. m \in packets /\ m.to \in locals[a] /\ \A s \in packets' : s \in packets \/ s \in sent
  BY DEF Arrives, Passing
<1>2. /\ locals[a] \subseteq Addrs[a] /\ packets \subseteq Messages
      /\ \A s \in packets, b \in Agents : s.to \in Addrs[b] => s.from \in Addrs[Peer(b)]
  BY DEF Typed, TypeOK
<1>3. QED
  BY <1>1, <1>2

(* The source of a request becomes a remote candidate, with its pairs.     *)
LEMMA SourceTyped ==
    ASSUME Typed, NEW a \in Agents, NEW m, m.to \in Addrs[a], m.from \in Addrs[Peer(a)]
    PROVE  /\ Source(a, m) \in Candidates(a) /\ Pair(m.to, Source(a, m)) \in Pairs(a)
           /\ WithSource(a, m) \in [Pairs(a) -> Entries]
           /\ \A ps : Listed(WithSource(a, m), ps) \in [Pairs(a) -> Entries]
<1>1. Source(a, m) \in Candidates(a) /\ Pair(m.to, Source(a, m)) \in Pairs(a)
  BY FoundCandidate DEF Source
<1>2. checklist[a] \in [Pairs(a) -> Entries]
  BY DEF Typed, TypeOK
<1>3. WithSource(a, m) \in [Pairs(a) -> Entries]
  BY <1>2, ListedEntries DEF WithSource
<1>4. QED
  BY <1>1, <1>3, ListedEntries

(* What a received packet may change: the sources, the checklist, the      *)
(* decisions and the packets.                                              *)
LEMMA TypedAfterReceipt ==
    ASSUME Typed, NEW a \in Agents, UNCHANGED receiveUnchanged,
           NEW c \in SUBSET Candidates(a), remotes' = [remotes EXCEPT ![a] = @ \cup c],
           NEW list \in [Pairs(a) -> Entries], checklist' = [checklist EXCEPT ![a] = list],
           NEW ds \in SUBSET Decisions(a), Decide(a, ds),
           \A s \in packets' : /\ s \in Messages
                               /\ \A b \in Agents : s.to \in Addrs[b] => s.from \in Addrs[Peer(b)]
    PROVE  Typed'
  BY Ground DEF Typed, TypeOK, receiveUnchanged, credentialVars, choiceVars, Lists, Decide

LEMMA TypedReceive ==
    ASSUME Typed, NEW m \in packets,
           \/ \E a \in Agents : Discard(a, m) \/ ReceiveResponse(a, m)
           \/ ControllingRequest(m) \/ ControlledRequest(m)
    PROVE  Typed'
<1> USE Ground
<1>1. ASSUME NEW a \in Agents, Discard(a, m)
      PROVE  Typed'
  <2>1. Arrives(a, m, {}) /\ UNCHANGED <<receiveUnchanged, remotes, checklist, decided>>
    BY <1>1 DEF Discard
  <2>2. \A s \in packets' : /\ s \in Messages
                            /\ \A b \in Agents : s.to \in Addrs[b] => s.from \in Addrs[Peer(b)]
    BY <2>1, PacketsArrived
  <2>3. QED
    BY <2>1, <2>2 DEF Typed, TypeOK, receiveUnchanged, credentialVars, choiceVars
<1>2. ASSUME NEW a \in Agents, ReceiveResponse(a, m)
      PROVE  Typed'
  <2> DEFINE p == Pair(m.to, Found(a, m.from))
             e == checklist[a][p]
             f == IF e = Absent THEN e ELSE [e EXCEPT !.state = "succeeded"]
             list == [checklist[a] EXCEPT ![p] = f]
  <2>1. Arrives(a, m, {}) /\ UNCHANGED <<receiveUnchanged, remotes>>
    BY <1>2 DEF ReceiveResponse
  <2>2. /\ \A s \in packets' : /\ s \in Messages
                               /\ \A b \in Agents : s.to \in Addrs[b] => s.from \in Addrs[Peer(b)]
        /\ m \in Messages /\ m.to \in Addrs[a] /\ m.from \in Addrs[Peer(a)]
    BY <2>1, PacketsArrived
  <2>3. p \in Pairs(a) /\ checklist[a] \in [Pairs(a) -> Entries] /\ checklist \in [Agents -> Lists]
        /\ remotes \in [Agents -> SUBSET (Candidates("controlling") \cup Candidates("controlled"))]
    BY <2>2, FoundCandidate DEF Typed, TypeOK
  <2>4. e \in Entries /\ f \in Entries
    BY <2>3 DEF Entries
  <2>5. list \in [Pairs(a) -> Entries]
    BY <2>3, <2>4
  <2>6. checklist' = [checklist EXCEPT ![a] = list]
    BY <1>2, <2>3 DEF ReceiveResponse
  <2>7. PICK ds : Decide(a, ds) /\ ds \in {{}, {Decision(m.to, "select", p)}}
    BY <1>2 DEF ReceiveResponse
  <2>8. ds \in SUBSET Decisions(a)
    BY <2>2, <2>3, <2>7 DEF Decision, Decisions
  <2>9. remotes' = [remotes EXCEPT ![a] = @ \cup {}]
    BY <2>1, <2>3
  <2> HIDE DEF p, e, f, list
  <2>10. QED
    BY <2>1, <2>2, <2>5, <2>6, <2>7, <2>8, <2>9, TypedAfterReceipt
<1>3. CASE ControllingRequest(m)
  <2> DEFINE a == "controlling"
             p == Pair(m.to, Source(a, m))
  <2>1. /\ Arrives(a, m, {Response(a, p, m)}) /\ UNCHANGED receiveUnchanged
        /\ remotes' = [remotes EXCEPT ![a] = @ \cup {Source(a, m)}]
        /\ checklist' = [checklist EXCEPT ![a] = Listed(WithSource(a, m), {p})]
    BY <1>3 DEF ControllingRequest, NoteSource
  <2>2. m \in Messages /\ m.to \in Addrs[a] /\ m.from \in Addrs[Peer(a)]
    <3>1. m.to \in locals[a]
      BY <2>1 DEF Arrives
    <3>2. QED
      BY <3>1 DEF Typed, TypeOK
  <2>3. /\ p \in Pairs(a) /\ {Source(a, m)} \in SUBSET Candidates(a)
        /\ Listed(WithSource(a, m), {p}) \in [Pairs(a) -> Entries]
    BY <2>2, SourceTyped
  <2>4. \A s \in packets' : /\ s \in Messages
                            /\ \A b \in Agents : s.to \in Addrs[b] => s.from \in Addrs[Peer(b)]
    BY <2>1, <2>2, <2>3, ResponseTyped, PacketsArrived
  <2>5. PICK ds : Decide(a, ds) /\ ds \subseteq {Decision(m.to, "nominate", p)}
    BY <1>3 DEF ControllingRequest
  <2>6. ds \in SUBSET Decisions(a)
    BY <2>2, <2>3, <2>5 DEF Decision, Decisions
  <2> HIDE DEF p
  <2>7. QED
    BY <2>1, <2>3, <2>4, <2>5, <2>6, TypedAfterReceipt
<1>4. CASE ControlledRequest(m)
  <2> DEFINE a == "controlled"
             p == Pair(m.to, Source(a, m))
             list == Listed(WithSource(a, m), {p})
             noted == IF Remembers(m, list[p]) THEN [list EXCEPT ![p].nominate = TRUE] ELSE list
  <2>1. /\ Arrives(a, m, {Response(a, p, m), Request(a, p, FALSE)}) /\ UNCHANGED receiveUnchanged
        /\ remotes' = [remotes EXCEPT ![a] = @ \cup {Source(a, m)}]
        /\ checklist' = [checklist EXCEPT ![a] = noted]
    BY <1>4 DEF ControlledRequest, NoteSource, Reply
  <2>2. m \in Messages /\ m.to \in Addrs[a] /\ m.from \in Addrs[Peer(a)]
    <3>1. m.to \in locals[a]
      BY <2>1 DEF Arrives
    <3>2. QED
      BY <3>1 DEF Typed, TypeOK
  <2>3. p \in Pairs(a) /\ {Source(a, m)} \in SUBSET Candidates(a) /\ list \in [Pairs(a) -> Entries]
    BY <2>2, SourceTyped
  <2>4. noted \in [Pairs(a) -> Entries]
    <3>1. \A e \in Entries : [e EXCEPT !.nominate = TRUE] \in Entries
      BY DEF Entries
    <3> HIDE DEF list, p
    <3>2. list[p] \in Entries
      BY <2>3
    <3>3. QED
      BY <3>1, <3>2, <2>3
  <2>5. \A s \in packets' : /\ s \in Messages
                            /\ \A b \in Agents : s.to \in Addrs[b] => s.from \in Addrs[Peer(b)]
    <3>1. \A s \in {Response(a, p, m), Request(a, p, FALSE)} :
            /\ s \in Messages
            /\ \A b \in Agents : s.to \in Addrs[b] => s.from \in Addrs[Peer(b)]
      <4> HIDE DEF p
      <4>1. {p} \in SUBSET Pairs(a) /\ a \in Agents
        BY <2>3
      <4>2. /\ Request(a, p, FALSE) \in Messages
            /\ \A b \in Agents : Request(a, p, FALSE).to \in Addrs[b]
                                 => Request(a, p, FALSE).from \in Addrs[Peer(b)]
        BY <4>1, PingTyped
      <4>3. /\ Response(a, p, m) \in Messages
            /\ \A b \in Agents : Response(a, p, m).to \in Addrs[b]
                                 => Response(a, p, m).from \in Addrs[Peer(b)]
        BY <2>2, <2>3, ResponseTyped
      <4>4. QED
        BY <4>2, <4>3
    <3> DEFINE sent == {Response(a, p, m), Request(a, p, FALSE)}
    <3>2. Arrives(a, m, sent) /\ \A s \in sent : /\ s \in Messages
                                                 /\ \A b \in Agents : s.to \in Addrs[b] => s.from \in Addrs[Peer(b)]
      BY <2>1, <3>1
    <3> HIDE DEF sent
    <3>3. QED
      BY <3>2, PacketsArrived
  <2>6. PICK ds : Decide(a, ds) /\ ds \in {{}, {Decision(m.to, "select", p)}}
    BY <1>4 DEF ControlledRequest
  <2>7. ds \in SUBSET Decisions(a)
    BY <2>2, <2>3, <2>6 DEF Decision, Decisions
  <2> HIDE DEF p, list, noted
  <2>8. QED
    BY <2>1, <2>3, <2>4, <2>5, <2>6, <2>7, TypedAfterReceipt
<1>5. QED
  BY <1>1, <1>2, <1>3, <1>4

LEMMA TypedDo ==
    ASSUME Typed, NEW a \in Agents, Do(a)
    PROVE  Typed'
<1>1. ASSUME NEW d \in decided[a], Select(a, d)
      PROVE  Typed'
  <2>1. /\ decided' = [decided EXCEPT ![a] = @ \ {d}]
        /\ selected' = [selected EXCEPT ![a] = d.pair]
        /\ Update(a, "Connected")
        /\ UNCHANGED <<world, credentialVars, checklist, nominated, nominations, packets>>
    BY <1>1 DEF Select
  <2>2. d.pair \in Pairs(a)
    BY <1>1 DEF Typed, Decisions
  <2>3. /\ locals' \in [Agents -> SUBSET AllAddrs]
        /\ remotes' \in [Agents -> SUBSET (Candidates("controlling") \cup Candidates("controlled"))]
        /\ state' = [state EXCEPT ![a] = "Connected"] /\ gathered' = gathered
        /\ \A b \in Agents : locals'[b] \subseteq locals[b] /\ remotes'[b] \subseteq remotes[b]
    BY <2>1, UpdateTyped DEF Reported
  <2>4. QED
    BY <2>1, <2>2, <2>3, Ground DEF Typed, TypeOK, credentialVars
<1>2. ASSUME NEW d \in decided[a], Report(a, d)
      PROVE  Typed'
  <2>1. /\ decided' = [decided EXCEPT ![a] = @ \ {d}]
        /\ Update(a, d.do)
        /\ UNCHANGED <<world, credentialVars, checklist, choiceVars>>
    BY <1>2 DEF Report
  <2>2. d.do \in Reported
    BY <1>2 DEF Report, Typed, Decisions
  <2>3. /\ locals' \in [Agents -> SUBSET AllAddrs]
        /\ remotes' \in [Agents -> SUBSET (Candidates("controlling") \cup Candidates("controlled"))]
        /\ state' = [state EXCEPT ![a] = d.do] /\ gathered' = gathered
        /\ \A b \in Agents : locals'[b] \subseteq locals[b] /\ remotes'[b] \subseteq remotes[b]
    BY <2>1, <2>2, UpdateTyped
  <2>4. \A s \in packets' : /\ s \in Messages
                            /\ \A b \in Agents : s.to \in Addrs[b] => s.from \in Addrs[Peer(b)]
    <3>1. CASE selected[a] # NoPair /\ Ping(a, {selected[a]}, FALSE)
      <4>1. {selected[a]} \in SUBSET Pairs(a)
        BY <3>1 DEF Typed, TypeOK
      <4>2. QED
        BY <3>1, <4>1, PacketsPinged
    <3>2. CASE UNCHANGED packets
      BY <3>2 DEF Typed
    <3>3. QED
      BY <1>2, <3>1, <3>2 DEF Report
  <2>5. QED
    BY <2>1, <2>2, <2>3, <2>4, Ground DEF Typed, TypeOK, credentialVars, choiceVars, Reported
<1>3. ASSUME a = "controlling", NEW d \in decided[a], Nominate(d)
      PROVE  Typed'
  <2>1. /\ decided' = [decided EXCEPT ![a] = @ \ {d}]
        /\ nominated' = d.pair /\ Ping(a, {d.pair}, TRUE)
        /\ nominations' = nominations \cup {[gen |-> gen[a], pair |-> d.pair]}
        /\ UNCHANGED <<contactUnchanged, state, locals, remotes, checklist, selected>>
    BY <1>3 DEF Nominate, SendNomination
  <2>2. d.pair \in Pairs(a) /\ {d.pair} \in SUBSET Pairs(a)
    BY <1>3 DEF Typed, Decisions
  <2>3. \A s \in packets' : /\ s \in Messages
                            /\ \A b \in Agents : s.to \in Addrs[b] => s.from \in Addrs[Peer(b)]
    BY <2>1, <2>2, PacketsPinged
  <2>4. [gen |-> gen[a], pair |-> d.pair] \in Nominations /\ gen[a] \in Nat
    BY <1>3, <2>2 DEF Typed, TypeOK, Nominations
  <2>5. QED
    BY <1>3, <2>1, <2>2, <2>3, <2>4, Ground DEF Typed, TypeOK, contactUnchanged, credentialVars
<1>4. QED
  BY <1>1, <1>2, <1>3 DEF Do

LEMMA TypedStep == Typed /\ [Next]_vars => Typed'
<1> SUFFICES ASSUME Typed, [Next]_vars PROVE Typed'
  OBVIOUS
<1>1. ASSUME NEW a \in Agents, \/ Signalling(a) \/ Restart(a) \/ Close(a)
                               \/ Contact(a) \/ GiveUp(a) \/ Do(a)
      PROVE  Typed'
  BY <1>1, TypedSignalling, TypedRestart, TypedClose, TypedContact, TypedDo
<1>2. CASE Receive
  BY <1>2, TypedReceive DEF Receive
<1>3. CASE UNCHANGED vars
  BY <1>3 DEF Typed, TypeOK, vars, credentialVars, candidateVars, choiceVars
<1>4. QED
  BY <1>1, <1>2, <1>3 DEF Next

(* TypeOK holds always.                                                    *)
THEOREM TypeCorrect == Spec => []TypeOK
<1>1. Typed => TypeOK
  BY DEF Typed
<1>2. QED
  BY <1>1, TypedInit, TypedStep, PTL DEF Spec

LEMMA NominationWired ==
    ASSUME NEW p \in Pairs("controlling"), SendNomination(p)
    PROVE  /\ nominations \subseteq nominations'
           /\ [gen |-> gen["controlling"], pair |-> p] \in nominations'
           /\ \A m \in packets' : m \in packets \/ Wired(nominations', gen, m)
<1> DEFINE n == [gen |-> gen["controlling"], pair |-> p]
           m == Request("controlling", p, TRUE)
<1>1. n \in nominations' /\ nominations \subseteq nominations'
  BY DEF SendNomination
<1>2. \A s \in packets' : s \in packets \/ s = m
  BY DEF SendNomination, Ping, Passing
<1>3. /\ n.gen = gen["controlling"] /\ n.pair = p
      /\ m.kind = "request" /\ m.from = p.local /\ m.to = p.remote /\ m.fromGen = gen["controlling"]
  BY DEF Request
<1> HIDE DEF n, m
<1>4. Wired(nominations', gen, m)
  BY <1>1, <1>3 DEF Wired
<1>5. QED
  BY <1>1, <1>2, <1>4 DEF n

-----------------------------------------------------------------------------
(* What is chosen was nominated.                                           *)

LEMMA GroundedInit == Init => Grounded
  BY Ground DEF Init, Grounded, Absent, NoPair

(* Steps of a session: what was backed by a nomination stays so, and what  *)
(* is new must be.                                                         *)
LEMMA GroundedInSession ==
    ASSUME Typed, Grounded, gen' = gen, nominations \subseteq nominations',
           nominated' # NoPair =>
             nominated' = nominated \/ [gen |-> gen["controlling"], pair |-> nominated'] \in nominations',
           \A m \in packets' : m \in packets \/ Wired(nominations', gen, m),
           \A p \in Pairs("controlled") :
             checklist'["controlled"][p].nominate =>
               \/ checklist["controlled"][p].nominate
               \/ Backed(nominations', gen["controlled"], "controlled", p),
           \A a \in Agents : selected'[a] # NoPair =>
             selected'[a] = selected[a] \/ Backed(nominations', gen[a], a, selected'[a]),
           \A a \in Agents : \A d \in decided'[a] :
             d \in decided[a] \/ (d.do = "select" => Backed(nominations', gen[a], a, d.pair))
    PROVE  Grounded'
<1>1. \A g, a, p : Backed(nominations, g, a, p) => Backed(nominations', g, a, p)
  BY DEF Backed
<1>2. \A m : Wired(nominations, gen, m) => Wired(nominations', gen, m)
  BY DEF Wired
<1>3. nominated' # NoPair => [gen |-> gen'["controlling"], pair |-> nominated'] \in nominations'
  BY DEF Grounded
<1>4. \A m \in packets' : Wired(nominations', gen', m)
  BY <1>2 DEF Grounded
<1>5. \A p \in Pairs("controlled") : checklist'["controlled"][p].nominate
        => Backed(nominations', gen'["controlled"], "controlled", p)
  BY <1>1 DEF Grounded, Agreed
<1>6. \A a \in Agents : selected'[a] # NoPair => Backed(nominations', gen'[a], a, selected'[a])
  BY <1>1 DEF Grounded, Agreed
<1>7. \A a \in Agents : \A d \in decided'[a] : d.do = "select"
        => Backed(nominations', gen'[a], a, d.pair)
  BY <1>1 DEF Grounded, Agreed
<1>8. QED
  BY <1>3, <1>4, <1>5, <1>6, <1>7 DEF Grounded, Agreed

(* Checks without USE-CANDIDATE need no nomination.                        *)
LEMMA PlainPing ==
    ASSUME NEW a, NEW ps, Ping(a, ps, FALSE), NEW ns
    PROVE  \A m \in packets' : m \in packets \/ Wired(ns, gen, m)
<1>1. \A m \in packets' : m \in packets \/ ~m.use
  BY DEF Ping, Passing, Request
<1>2. QED
  BY <1>1 DEF Wired

LEMMA GroundedSignalling ==
    ASSUME Typed, Grounded, NEW a \in Agents, Signalling(a) \/ Close(a)
    PROVE  Grounded'
<1>1. /\ UNCHANGED <<gen, selected, nominated, nominations, decided, packets>>
      /\ \/ UNCHANGED checklist
         \/ \E ps : checklist' = [checklist EXCEPT ![a] = Listed(checklist[a], ps)]
  BY DEF Signalling, Close, Start, SetRemoteCredentials, AddCandidate, AddRemoteCandidate,
         candidateVars, credentialVars, choiceVars
<1>2. \A p \in Pairs("controlled") :
        checklist'["controlled"][p].nominate => checklist["controlled"][p].nominate
  <2>1. ASSUME NEW ps, checklist' = [checklist EXCEPT ![a] = Listed(checklist[a], ps)],
               NEW p \in Pairs("controlled"), checklist'["controlled"][p].nominate
        PROVE  checklist["controlled"][p].nominate
    <3>1. CASE a = "controlled"
      <4>1. checklist[a] \in [Pairs(a) -> Entries] /\ checklist'[a] = Listed(checklist[a], ps)
        BY <2>1 DEF Typed, TypeOK
      <4>2. QED
        BY <3>1, <2>1, <4>1, ListedEntries
    <3>2. CASE a # "controlled"
      BY <2>1, <3>2 DEF Typed
    <3>3. QED
      BY <3>1, <3>2
  <2>2. QED
    BY <1>1, <2>1
<1>3. QED
  BY <1>1, <1>2, GroundedInSession

LEMMA GroundedContact ==
    ASSUME Typed, Grounded, NEW a \in Agents, Contact(a) \/ GiveUp(a)
    PROVE  Grounded'
<1>1. CASE GiveUp(a)
  <2>1. UNCHANGED <<gen, checklist, selected, nominated, nominations, decided, packets>>
    BY <1>1 DEF GiveUp, contactUnchanged, credentialVars, choiceVars
  <2>2. QED
    BY <2>1, GroundedInSession
<1>2. CASE Validate(a)
  <2>1. /\ UNCHANGED <<gen, checklist, selected, nominated, nominations, packets>>
        /\ \E s \in Reported : decided' = [decided EXCEPT ![a] = @ \cup {Decision("contact", s, selected[a])}]
    BY <1>2 DEF Validate, Decide, Reported, contactUnchanged, credentialVars, choiceVars
  <2>2. \A b \in Agents : \A d \in decided'[b] : d \in decided[b] \/ d.do # "select"
    BY <2>1 DEF Typed, Decision, Reported
  <2>3. QED
    BY <2>1, <2>2, GroundedInSession
<1>3. CASE CheckAll(a)
  <2>1. /\ UNCHANGED <<gen, selected, nominated, nominations, decided>>
        /\ checklist' = [checklist EXCEPT ![a] = [p \in Pairs(a) |-> Checked(checklist[a][p])]]
    BY <1>3 DEF CheckAll, contactUnchanged, credentialVars, choiceVars
  <2>2. \A m \in packets' : m \in packets \/ Wired(nominations', gen, m)
    BY <1>3, PlainPing DEF CheckAll
  <2>3. \A p \in Pairs("controlled") :
          checklist'["controlled"][p].nominate => checklist["controlled"][p].nominate
    <3>1. \A b \in Agents : checklist[b] \in [Pairs(b) -> Entries]
      BY DEF Typed, TypeOK
    <3>2. CASE a = "controlled"
      BY <2>1, <3>1, <3>2, CheckedEntry DEF Typed
    <3>3. CASE a # "controlled"
      BY <2>1, <3>3 DEF Typed
    <3>4. QED
      BY <3>2, <3>3
  <2>4. QED
    BY <2>1, <2>2, <2>3, GroundedInSession
<1>4. CASE a = "controlling" /\ NominateBest
  <2>1. /\ UNCHANGED <<gen, checklist, selected, nominated, nominations, packets>>
        /\ \E p : decided' = [decided EXCEPT ![a] = @ \cup {Decision("contact", "nominate", p)}]
    BY <1>4 DEF NominateBest, Decide, contactUnchanged, credentialVars, choiceVars
  <2>2. \A b \in Agents : \A d \in decided'[b] : d \in decided[b] \/ d.do # "select"
    BY <2>1 DEF Typed, Decision
  <2>3. QED
    BY <2>1, <2>2, GroundedInSession
<1>5. CASE a = "controlling" /\ Renominate
  <2>1. /\ UNCHANGED <<gen, checklist, selected, nominated, decided>>
        /\ SendNomination(nominated) /\ nominated # NoPair
    BY <1>5 DEF Renominate, contactUnchanged, credentialVars, choiceVars
  <2>2. /\ nominations \subseteq nominations'
        /\ \A m \in packets' : m \in packets \/ Wired(nominations', gen, m)
    BY <2>1, NominationWired DEF Typed, TypeOK
  <2>3. QED
    BY <2>1, <2>2, GroundedInSession
<1>6. QED
  BY <1>1, <1>2, <1>3, <1>4, <1>5 DEF Contact

(* A response to the controlling agent that counts selects the very pair   *)
(* that was nominated: the candidate it comes from is still the one found. *)
LEMMA NominatedPairFound ==
    ASSUME Typed, AllSteady, NEW n \in nominations, n.gen = gen["controlling"],
           n.pair.local \in locals["controlling"]
    PROVE  n.pair = Pair(n.pair.local, Found("controlling", n.pair.remote))
<1>1. n.pair \in Pairs("controlling") /\ Steady(n.pair)
  BY DEF Typed, AllSteady, Nominations
<1>2. /\ Found("controlling", n.pair.remote).type = n.pair.type
      /\ Found("controlling", n.pair.remote).addr = n.pair.remote
  BY <1>1, FoundCandidate, Ground DEF Steady
<1>3. QED
  BY <1>1, <1>2 DEF Pair, Pairs

LEMMA GroundedResponse ==
    ASSUME Typed, Grounded, AllSteady, NEW m \in packets, NEW a \in Agents,
           ReceiveResponse(a, m)
    PROVE  Grounded'
<1> DEFINE p == Pair(m.to, Found(a, m.from))
           e == checklist[a][p]
<1>1. /\ m.kind = "response" /\ m.to \in locals[a] /\ Accepted(a, m)
      /\ packets' \subseteq packets
      /\ UNCHANGED <<gen, selected, nominated, nominations>>
      /\ checklist' = [checklist EXCEPT ![a][p] =
              IF @ = Absent THEN @ ELSE [@ EXCEPT !.state = "succeeded"]]
  BY DEF ReceiveResponse, Arrives, Passing, receiveUnchanged, credentialVars, choiceVars
<1>2. /\ m \in Messages /\ m.to \in Addrs[a] /\ m.from \in Addrs[Peer(a)]
      /\ checklist[a] \in [Pairs(a) -> Entries] /\ p \in Pairs(a)
  BY <1>1, FoundCandidate DEF Typed, TypeOK
<1>3. \A q \in Pairs("controlled") :
        checklist'["controlled"][q].nominate => checklist["controlled"][q].nominate
  <2>1. CASE a = "controlled"
    <3>1. checklist'[a] = [checklist[a] EXCEPT ![p] = IF e = Absent THEN e ELSE [e EXCEPT !.state = "succeeded"]]
      BY <1>1, <1>2 DEF Typed
    <3>2. e \in Entries
      BY <1>2
    <3>3. (IF e = Absent THEN e ELSE [e EXCEPT !.state = "succeeded"]).nominate => e.nominate
      BY <3>2 DEF Entries
    <3> HIDE DEF p
    <3>4. QED
      BY <2>1, <3>1, <3>3, <1>2
  <2>2. CASE a # "controlled"
    BY <1>1, <2>2 DEF Typed
  <2>3. QED
    BY <2>1, <2>2
<1>4. ASSUME e # Absent, IF a = "controlling" THEN m.use ELSE e.nominate
      PROVE  Backed(nominations, gen[a], a, p)
  <2>1. CASE a = "controlling"
    <3>1. Wired(nominations, gen, m) /\ m.use /\ m.toGen = gen[a]
      BY <1>1, <1>4, <2>1 DEF Grounded, Accepted
    <3>2. PICK n \in nominations : n.gen = gen[a] /\ n.pair.local = m.to /\ n.pair.remote = m.from
      BY <1>1, <1>2, <2>1, <3>1 DEF Wired
    <3>3. n.pair = p
      BY <1>1, <2>1, <3>2, NominatedPairFound
    <3>4. QED
      BY <2>1, <3>2, <3>3 DEF Backed
  <2>2. CASE a = "controlled"
    BY <1>2, <1>4, <2>2 DEF Grounded, Agreed
  <2>3. QED
    BY <2>1, <2>2, Ground
<1>5. \A b \in Agents : \A d \in decided'[b] :
        d \in decided[b] \/ (d.do = "select" => Backed(nominations, gen[b], b, d.pair))
  <2>1. \/ Decide(a, {})
        \/ /\ e # Absent /\ IF a = "controlling" THEN m.use ELSE e.nominate
           /\ Decide(a, {Decision(m.to, "select", p)})
    BY DEF ReceiveResponse
  <2>2. CASE Decide(a, {})
    BY <2>2 DEF Decide, Typed
  <2>3. CASE /\ e # Absent /\ IF a = "controlling" THEN m.use ELSE e.nominate
             /\ Decide(a, {Decision(m.to, "select", p)})
    <3>1. Backed(nominations, gen[a], a, p)
      BY <2>3, <1>4
    <3> HIDE DEF p
    <3>2. QED
      BY <2>3, <3>1 DEF Decide, Typed, Decision
  <2>4. QED
    BY <2>1, <2>2, <2>3
<1>6. QED
  BY <1>1, <1>3, <1>5, GroundedInSession

LEMMA GroundedControllingRequest ==
    ASSUME Typed, Grounded, NEW m \in packets, ControllingRequest(m)
    PROVE  Grounded'
<1> DEFINE a == "controlling"
           p == Pair(m.to, Source(a, m))
<1>1. /\ UNCHANGED <<gen, selected, nominated, nominations>>
      /\ checklist' = [checklist EXCEPT ![a] = Listed(WithSource(a, m), {p})]
      /\ Arrives(a, m, {Response(a, p, m)})
      /\ \E ds : Decide(a, ds) /\ ds \subseteq {Decision(m.to, "nominate", p)}
  BY DEF ControllingRequest, receiveUnchanged, credentialVars, choiceVars
<1>2. checklist'["controlled"] = checklist["controlled"]
  BY <1>1
<1>3. \A b \in Agents : \A d \in decided'[b] : d \in decided[b] \/ d.do # "select"
  BY <1>1 DEF Decide, Typed, Decision
<1>4. m.from \in Addrs["controlled"]
  BY <1>1, Ground DEF Arrives, Typed, TypeOK
<1>5. \A s \in packets' : s \in packets \/ s = Response(a, p, m)
  BY <1>1 DEF Arrives, Passing
<1>6. Wired(nominations', gen, Response(a, p, m))
  <2>1. Response(a, p, m).to = m.from /\ Response(a, p, m).kind = "response"
    BY FoundCandidate, Ground DEF Response, Pair, Source
  <2>2. QED
    BY <1>4, <2>1, Ground DEF Wired
<1>7. QED
  BY <1>1, <1>2, <1>3, <1>5, <1>6, GroundedInSession

LEMMA GroundedControlledRequest ==
    ASSUME Typed, Grounded, NEW m \in packets, ControlledRequest(m)
    PROVE  Grounded'
<1> DEFINE a == "controlled"
           p == Pair(m.to, Source(a, m))
           list == Listed(WithSource(a, m), {p})
<1>1. /\ UNCHANGED <<gen, selected, nominated, nominations>>
      /\ checklist' = [checklist EXCEPT ![a] =
              IF Remembers(m, list[p]) THEN [list EXCEPT ![p].nominate = TRUE] ELSE list]
      /\ Arrives(a, m, {Response(a, p, m), Request(a, p, FALSE)})
      /\ Decide(a, IF Selects(m, list[p]) /\ selected[a] = NoPair
                     THEN {Decision(m.to, "select", p)} ELSE {})
      /\ m.kind = "request" /\ Accepted(a, m)
  BY DEF ControlledRequest, Reply, receiveUnchanged, credentialVars, choiceVars
<1>2. /\ m \in Messages /\ m.to \in Addrs[a] /\ m.from \in Addrs["controlling"]
      /\ p.local = m.to /\ p.remote = m.from /\ p \in Pairs(a)
      /\ m.fromGen = gen[a] /\ gen[a] # 0
  <2>1. m \in Messages /\ m.to \in Addrs[a] /\ m.from \in Addrs["controlling"]
    BY <1>1, Ground DEF Arrives, Typed, TypeOK
  <2>2. p.local = m.to /\ p.remote = m.from /\ p \in Pairs(a)
    BY <2>1, FoundCandidate, Ground DEF Pair, Source
  <2>3. m.fromGen = gen[a] /\ gen[a] # 0
    BY <1>1, <2>1, Ground DEF Accepted, Typed, Messages
  <2>4. QED
    BY <2>1, <2>2, <2>3
<1>3. m.use => Backed(nominations, gen[a], a, p)
  <2>1. Wired(nominations, gen, m)
    BY DEF Grounded
  <2>2. ASSUME m.use PROVE \E n \in nominations : n.gen = gen[a] /\ n.pair.local = m.from /\ n.pair.remote = m.to
    BY <1>1, <1>2, <2>1, <2>2 DEF Wired
  <2>3. QED
    BY <1>2, <2>2 DEF Backed, Mirrored
<1>4. \A q \in Pairs(a) : checklist'[a][q].nominate =>
        checklist[a][q].nominate \/ Backed(nominations, gen[a], a, q)
  <2>1. /\ checklist[a] \in [Pairs(a) -> Entries] /\ list \in [Pairs(a) -> Entries]
        /\ \A q \in Pairs(a) : list[q].nominate <=> checklist[a][q].nominate
    <3>1. checklist[a] \in [Pairs(a) -> Entries]
      BY Ground DEF Typed, TypeOK
    <3>2. /\ WithSource(a, m) \in [Pairs(a) -> Entries]
          /\ \A q \in Pairs(a) : WithSource(a, m)[q].nominate <=> checklist[a][q].nominate
      BY <3>1, ListedEntries, Ground DEF WithSource
    <3>3. QED
      BY <3>1, <3>2, ListedEntries, Ground
  <2>2. checklist'[a] = IF Remembers(m, list[p]) THEN [list EXCEPT ![p].nominate = TRUE] ELSE list
    BY <1>1, Ground DEF Typed
  <2> HIDE DEF list, p
  <2>3. CASE Remembers(m, list[p])
    <3>1. m.use
      BY <2>3 DEF Remembers
    <3>2. \A q \in Pairs(a) : q # p => checklist'[a][q] = list[q]
      BY <2>1, <2>2, <2>3
    <3>3. QED
      BY <2>1, <3>1, <3>2, <1>3
  <2>4. CASE ~Remembers(m, list[p])
    BY <2>1, <2>2, <2>4
  <2>5. QED
    BY <2>3, <2>4
<1>5. \A b \in Agents : \A d \in decided'[b] :
        d \in decided[b] \/ (d.do = "select" => Backed(nominations, gen[b], b, d.pair))
  <2>1. Decide(a, {}) \/ (m.use /\ Decide(a, {Decision(m.to, "select", p)}))
    BY <1>1 DEF Selects
  <2> HIDE DEF p, list
  <2>2. QED
    BY <2>1, <1>3, Ground DEF Decide, Typed, Decision
<1>6. \A s \in packets' : s \in packets \/ Wired(nominations', gen, s)
  <2>1. \A s \in packets' : s \in packets \/ s = Response(a, p, m) \/ s = Request(a, p, FALSE)
    BY <1>1 DEF Arrives, Passing
  <2>2. Wired(nominations', gen, Request(a, p, FALSE))
    BY DEF Request, Wired
  <2>3. Wired(nominations', gen, Response(a, p, m))
    <3> DEFINE r == Response(a, p, m)
    <3>1. r.kind = "response" /\ r.use = m.use /\ r.toGen = gen[a] /\ r.from = m.to /\ r.to = m.from
      BY <1>2 DEF Response
    <3>2. m.use => \E n \in nominations : n.gen = gen[a] /\ n.pair.local = m.from /\ n.pair.remote = m.to
      BY <1>1, <1>2 DEF Grounded, Wired
    <3> HIDE DEF r
    <3>3. Wired(nominations', gen, r)
      BY <1>1, <3>1, <3>2 DEF Wired
    <3>4. QED
      BY <3>3 DEF r
  <2>4. QED
    BY <2>1, <2>2, <2>3
<1>7. QED
  BY <1>1, <1>4, <1>5, <1>6, GroundedInSession

LEMMA GroundedDo ==
    ASSUME Typed, Grounded, NEW a \in Agents, Do(a)
    PROVE  Grounded'
<1>1. ASSUME NEW d \in decided[a], Select(a, d)
      PROVE  Grounded'
  <2>1. /\ UNCHANGED <<gen, checklist, nominated, nominations, packets>>
        /\ selected' = [selected EXCEPT ![a] = d.pair]
        /\ decided' = [decided EXCEPT ![a] = @ \ {d}]
        /\ d.do = "select"
    BY <1>1 DEF Select, credentialVars
  <2>2. Backed(nominations, gen[a], a, d.pair)
    BY <2>1 DEF Grounded, Agreed
  <2>3. \A b \in Agents : selected'[b] # NoPair =>
          selected'[b] = selected[b] \/ Backed(nominations', gen[b], b, selected'[b])
    BY <2>1, <2>2 DEF Typed
  <2>4. \A b \in Agents : \A c \in decided'[b] : c \in decided[b]
    BY <2>1 DEF Typed
  <2>5. QED
    BY <2>1, <2>3, <2>4, GroundedInSession
<1>2. ASSUME NEW d \in decided[a], Report(a, d)
      PROVE  Grounded'
  <2>1. /\ UNCHANGED <<gen, checklist, selected, nominated, nominations>>
        /\ decided' = [decided EXCEPT ![a] = @ \ {d}]
        /\ Ping(a, {selected[a]}, FALSE) \/ UNCHANGED packets
    BY <1>2 DEF Report, credentialVars, choiceVars
  <2>2. \A m \in packets' : m \in packets \/ Wired(nominations', gen, m)
    BY <2>1, PlainPing
  <2>3. \A b \in Agents : \A c \in decided'[b] : c \in decided[b]
    BY <2>1 DEF Typed
  <2>4. QED
    BY <2>1, <2>2, <2>3, GroundedInSession
<1>3. ASSUME a = "controlling", NEW d \in decided[a], Nominate(d)
      PROVE  Grounded'
  <2>1. /\ UNCHANGED <<gen, checklist, selected>>
        /\ decided' = [decided EXCEPT !["controlling"] = @ \ {d}]
        /\ nominated' = d.pair /\ SendNomination(d.pair)
    BY <1>3 DEF Nominate, contactUnchanged, credentialVars
  <2>2. d.pair \in Pairs("controlling")
    BY <1>3 DEF Typed, Decisions
  <2>3. /\ nominations \subseteq nominations'
        /\ [gen |-> gen["controlling"], pair |-> nominated'] \in nominations'
        /\ \A m \in packets' : m \in packets \/ Wired(nominations', gen, m)
    BY <2>1, <2>2, NominationWired
  <2>4. \A b \in Agents : \A c \in decided'[b] : c \in decided[b]
    BY <2>1 DEF Typed
  <2>5. QED
    BY <2>1, <2>3, <2>4, GroundedInSession
<1>4. QED
  BY <1>1, <1>2, <1>3 DEF Do

(* Without restarts in a racing world, a restart finds no task in the      *)
(* middle of anything.                                                     *)
LEMMA RestartIdle ==
    ASSUME Tame, Typed, NEW a \in Agents, Restart(a)
    PROVE  decided[a] = {}
<1>1. world \in Worlds /\ gen[a] \in Nat \ {0} /\ gen[a] <= world.restarts /\ Free(a, "app")
  BY DEF Typed, TypeOK, Restart
<1>2. world.mode # "races"
  BY <1>1 DEF Tame
<1>3. QED
  BY <1>1, <1>2 DEF Free

LEMMA RestartEffect ==
    ASSUME Typed, NEW a \in Agents, Restart(a)
    PROVE  /\ world' = world /\ decided' = decided
           /\ gen'[a] = gen[a] + 1 /\ gen'[Peer(a)] = gen[Peer(a)]
           /\ selected'[a] = NoPair /\ selected'[Peer(a)] = selected[Peer(a)]
           /\ state'[a] = "Checking" /\ state'[Peer(a)] = state[Peer(a)]
           /\ checklist'[a] = [p \in Pairs(a) |-> Absent]
           /\ checklist'[Peer(a)] = checklist[Peer(a)]
           /\ gathered'[Peer(a)] = gathered[Peer(a)] /\ locals'[Peer(a)] = locals[Peer(a)]
           /\ remotes'[Peer(a)] = remotes[Peer(a)]
           /\ nominated' = (IF a = "controlling" THEN NoPair ELSE nominated)
           /\ packets' = {m \in packets : m.to \notin Addrs[a]}
           /\ nominations' = {n \in nominations : n.gen >= gen[Peer(a)]}
<1>1. /\ Peer(a) \in Agents /\ Peer(a) # a
      /\ a \in DOMAIN gen /\ Peer(a) \in DOMAIN gen /\ a \in DOMAIN selected /\ Peer(a) \in DOMAIN selected
      /\ a \in DOMAIN state /\ Peer(a) \in DOMAIN state /\ a \in DOMAIN checklist /\ Peer(a) \in DOMAIN checklist
      /\ Peer(a) \in DOMAIN gathered /\ Peer(a) \in DOMAIN locals /\ Peer(a) \in DOMAIN remotes
  BY Ground DEF Typed, TypeOK
<1>2. QED
  BY <1>1 DEF Restart, RestartState

LEMMA GroundedRestart ==
    ASSUME Tame, Typed, Grounded, NEW a \in Agents, Restart(a)
    PROVE  Grounded'
<1> DEFINE b == Peer(a)
<1>1. /\ b \in Agents /\ b # a /\ Agents = {a, b} /\ (a = "controlling" <=> b = "controlled")
      /\ gen[b] \in Nat /\ decided[a] = {}
  BY RestartIdle, Ground DEF Typed, TypeOK
<1>2. /\ decided' = decided /\ gen'[b] = gen[b]
      /\ selected'[a] = NoPair /\ selected'[b] = selected[b]
      /\ checklist'[a] = [p \in Pairs(a) |-> Absent] /\ checklist'[b] = checklist[b]
      /\ nominated' = (IF a = "controlling" THEN NoPair ELSE nominated)
      /\ packets' = {m \in packets : m.to \notin Addrs[a]}
      /\ nominations' = {n \in nominations : n.gen >= gen[b]}
  BY RestartEffect
<1> HIDE DEF b
<1>3. \A p : Backed(nominations, gen[b], b, p) => Backed(nominations', gen'[b], b, p)
  BY <1>1, <1>2 DEF Backed
<1>4. nominated' # NoPair => [gen |-> gen'["controlling"], pair |-> nominated'] \in nominations'
  BY <1>1, <1>2, Ground DEF Grounded
<1>5. \A m \in packets' : Wired(nominations', gen', m)
  <2> SUFFICES ASSUME NEW m \in packets, m.to \notin Addrs[a]
               PROVE  Wired(nominations', gen', m)
    BY <1>2
  <2>1. Wired(nominations, gen, m)
    BY DEF Grounded
  <2>2. CASE a = "controlling"
    BY <1>1, <1>2, <2>1, <2>2 DEF Wired
  <2>3. CASE a = "controlled"
    BY <1>1, <1>2, <2>1, <2>3, Ground DEF Wired
  <2>4. QED
    BY <2>2, <2>3, Ground
<1>6. \A p \in Pairs("controlled") : checklist'["controlled"][p].nominate
        => Backed(nominations', gen'["controlled"], "controlled", p)
  <2>1. CASE a = "controlling"
    BY <1>1, <1>2, <1>3, <2>1 DEF Grounded, Agreed
  <2>2. CASE a = "controlled"
    BY <1>2, <2>2 DEF Absent
  <2>3. QED
    BY <2>1, <2>2, Ground
<1>7. \A c \in Agents : selected'[c] # NoPair => Backed(nominations', gen'[c], c, selected'[c])
  BY <1>1, <1>2, <1>3 DEF Grounded, Agreed
<1>8. \A c \in Agents : \A d \in decided'[c] : d.do = "select"
        => Backed(nominations', gen'[c], c, d.pair)
  BY <1>1, <1>2, <1>3 DEF Grounded, Agreed
<1>9. QED
  BY <1>4, <1>5, <1>6, <1>7, <1>8 DEF Grounded, Agreed

-----------------------------------------------------------------------------
(* Pairs keep their candidates.                                            *)

LEMMA SteadyInit == Init => AllSteady
  BY Ground DEF Init, AllSteady, Absent

LEMMA CandidateStays ==
    ASSUME NEW r, Known("controlling", r) # {},
           \/ remotes'["controlling"] = remotes["controlling"]
           \/ \E c : /\ remotes'["controlling"] = remotes["controlling"] \cup {c}
                     /\ c.type = "told" \/ Known("controlling", c.addr) = {}
    PROVE  Known("controlling", r)' # {} /\ Found("controlling", r)' = Found("controlling", r)
<1> DEFINE f == [addr |-> r, type |-> "prflx"]
<1>1. f.addr = r /\ f.type = "prflx"
  OBVIOUS
<1> HIDE DEF f
<1>2. Known("controlling", r)' # {}
  BY DEF Known
<1>3. f \in remotes["controlling"]' <=> f \in remotes["controlling"]
  BY <1>1 DEF Known
<1>4. QED
  BY <1>2, <1>3 DEF Found, f

LEMMA SteadyInSession ==
    ASSUME Typed, AllSteady, UNCHANGED gen["controlling"],
           nominations' \subseteq Nominations,
           \A n \in nominations' :
             n \in nominations \/ (n.gen = gen["controlling"] => Steady(n.pair)),
           gathered["controlling"] \subseteq gathered'["controlling"],
           \A l \in locals'["controlling"] :
             l \in locals["controlling"] \/ l \notin gathered["controlling"],
           \/ locals'["controlling"] = {}
           \/ remotes'["controlling"] = remotes["controlling"]
           \/ \E c : /\ remotes'["controlling"] = remotes["controlling"] \cup {c}
                     /\ c.type = "told" \/ Known("controlling", c.addr) = {},
           \A p \in Pairs("controlling") : checklist'["controlling"][p].state = "succeeded"
             => checklist["controlling"][p].state = "succeeded" \/ Steady(p),
           \A d \in decided'["controlling"] :
             d \in decided["controlling"] \/ (d.do = "nominate" => Steady(d.pair))
    PROVE  AllSteady'
<1>1. ASSUME NEW p, Steady(p)
      PROVE  Steady(p)'
  <2>1. p.local \in gathered["controlling"]'
    BY <1>1 DEF Steady
  <2>2. ASSUME p.local \in locals["controlling"]'
        PROVE  /\ Known("controlling", p.remote)' # {}
               /\ Found("controlling", p.remote)'.type = p.type
    <3>1. p.local \in locals["controlling"] /\ Known("controlling", p.remote) # {}
          /\ Found("controlling", p.remote).type = p.type
      BY <1>1, <2>2 DEF Steady
    <3>2. QED
      BY <2>2, <3>1, CandidateStays
  <2>3. QED
    BY <2>1, <2>2 DEF Steady
<1>2. \A p \in Pairs("controlling") :
        (checklist["controlling"][p].state = "succeeded")' => Steady(p)'
  BY <1>1 DEF AllSteady
<1>3. \A n \in nominations' : n.gen = gen'["controlling"] => Steady(n.pair)'
  BY <1>1 DEF AllSteady
<1>4. \A d \in decided'["controlling"] : d.do = "nominate" => Steady(d.pair)'
  BY <1>1 DEF AllSteady
<1>5. QED
  BY <1>2, <1>3, <1>4 DEF AllSteady

(* The controlled agent's steps change nothing the controlling one has.    *)
LEMMA SteadyElsewhere ==
    ASSUME Typed, AllSteady,
           UNCHANGED <<gen["controlling"], gathered["controlling"], locals["controlling"],
                       remotes["controlling"], checklist["controlling"],
                       decided["controlling"]>>,
           nominations' \subseteq nominations
    PROVE  AllSteady'
<1>1. nominations' \subseteq Nominations
  BY DEF Typed
<1>2. QED
  BY <1>1, SteadyInSession

LEMMA SteadySignalling ==
    ASSUME Typed, AllSteady, NEW a \in Agents, Signalling(a) \/ Close(a)
    PROVE  AllSteady'
<1>1. /\ UNCHANGED <<gen, nominations, decided>>
      /\ nominations' \subseteq Nominations
      /\ \A b \in Agents : checklist[b] \in [Pairs(b) -> Entries]
      /\ "controlling" \in Agents
  BY Ground DEF Typed, TypeOK, Signalling, Close, Start, SetRemoteCredentials, AddCandidate,
         AddRemoteCandidate, candidateVars, credentialVars, choiceVars
<1>2. CASE a # "controlling"
  <2>1. UNCHANGED <<gathered["controlling"], locals["controlling"],
                    remotes["controlling"], checklist["controlling"]>>
    BY <1>2, <1>1 DEF Typed, Signalling, Close, Start, SetRemoteCredentials, AddCandidate,
         AddRemoteCandidate, candidateVars, credentialVars, choiceVars
  <2>2. QED
    BY <1>1, <2>1, SteadyElsewhere
<1>3. CASE a = "controlling" /\ (Start(a) \/ SetRemoteCredentials(a))
  <2>1. UNCHANGED <<gathered, locals, remotes, checklist>>
    BY <1>3 DEF Start, SetRemoteCredentials, candidateVars
  <2>2. QED
    BY <1>1, <2>1, SteadyElsewhere
<1>4. CASE a = "controlling" /\ Close(a)
  <2>1. UNCHANGED <<gathered, checklist>> /\ locals'["controlling"] = {}
    BY <1>4, <1>1 DEF Close, Typed
  <2>2. QED
    BY <1>1, <2>1, SteadyInSession
<1>5. ASSUME a = "controlling", NEW l \in Addrs[a], AddCandidate(a, l)
      PROVE  AllSteady'
  <2>1. /\ l \notin gathered[a] /\ UNCHANGED remotes
        /\ gathered'[a] = gathered[a] \cup {l} /\ locals'[a] = locals[a] \cup {l}
        /\ checklist'[a] = Listed(checklist[a], {Pair(l, c) : c \in remotes[a]})
    BY <1>5 DEF AddCandidate, Typed
  <2>2. \A p \in Pairs(a) : checklist'[a][p].state = "succeeded" => checklist[a][p].state = "succeeded"
    BY <1>1, <2>1, ListedEntries
  <2>3. QED
    BY <1>1, <1>5, <2>1, <2>2, SteadyInSession
<1>6. ASSUME a = "controlling", NEW r \in Addrs[Peer(a)], AddRemoteCandidate(a, r)
      PROVE  AllSteady'
  <2> DEFINE c == [addr |-> r, type |-> "told"]
  <2>1. /\ UNCHANGED <<gathered, locals>> /\ remotes'[a] = remotes[a] \cup {c}
        /\ checklist'[a] = Listed(checklist[a], {Pair(l, c) : l \in locals[a]})
    BY <1>6 DEF AddRemoteCandidate, Typed
  <2>2. \A p \in Pairs(a) : checklist'[a][p].state = "succeeded" => checklist[a][p].state = "succeeded"
    BY <1>1, <2>1, ListedEntries
  <2>3. c.type = "told"
    OBVIOUS
  <2> HIDE DEF c
  <2>4. QED
    BY <1>1, <1>6, <2>1, <2>2, <2>3, SteadyInSession
<1>7. QED
  BY <1>2, <1>3, <1>4, <1>5, <1>6 DEF Signalling

LEMMA SteadyContact ==
    ASSUME Typed, Grounded, AllSteady, NEW a \in Agents, Contact(a) \/ GiveUp(a)
    PROVE  AllSteady'
<1> USE Ground
<1>1. nominations \subseteq Nominations /\ \A b \in Agents : checklist[b] \in [Pairs(b) -> Entries]
  BY DEF Typed, TypeOK
<1>2. CASE GiveUp(a)
  <2>1. UNCHANGED <<gen, checklist, nominations, decided>> /\ Update(a, "Failed")
    BY <1>2 DEF GiveUp, contactUnchanged, credentialVars, choiceVars
  <2>2. QED
    BY <1>1, <2>1, UpdateTyped, SteadyInSession DEF Reported
<1>3. CASE Validate(a)
  <2>1. /\ UNCHANGED <<gen, gathered, locals, remotes, checklist, nominations>>
        /\ \E s \in Reported : decided' = [decided EXCEPT ![a] = @ \cup {Decision("contact", s, selected[a])}]
    BY <1>3 DEF Validate, Decide, Reported, contactUnchanged, credentialVars, choiceVars
  <2>2. \A d \in decided'["controlling"] : d \in decided["controlling"] \/ d.do # "nominate"
    BY <2>1 DEF Typed, Decision, Reported
  <2>3. QED
    BY <1>1, <2>1, <2>2, SteadyInSession
<1>4. CASE CheckAll(a)
  <2>1. /\ UNCHANGED <<gen, gathered, locals, remotes, nominations, decided>>
        /\ checklist' = [checklist EXCEPT ![a] = [p \in Pairs(a) |-> Checked(checklist[a][p])]]
    BY <1>4 DEF CheckAll, contactUnchanged, credentialVars, choiceVars
  <2>2. \A p \in Pairs("controlling") : checklist'["controlling"][p].state = "succeeded"
          => checklist["controlling"][p].state = "succeeded"
    <3>1. CASE a = "controlling"
      BY <1>1, <2>1, <3>1, CheckedEntry DEF Typed
    <3>2. CASE a # "controlling"
      BY <2>1, <3>2 DEF Typed
    <3>3. QED
      BY <3>1, <3>2
  <2>3. QED
    BY <1>1, <2>1, <2>2, SteadyInSession
<1>5. CASE a = "controlling" /\ NominateBest
  <2>1. PICK p \in BestValid(a) : Decide(a, {Decision("contact", "nominate", p)})
    BY <1>5 DEF NominateBest
  <2>2. Steady(p)
    BY <1>5 DEF AllSteady, BestValid, Best, In
  <2>3. /\ UNCHANGED <<gen, gathered, locals, remotes, checklist, nominations>>
        /\ \A d \in decided'["controlling"] : d \in decided["controlling"] \/ d.pair = p
    BY <1>5, <2>1 DEF Typed, NominateBest, Decide, Decision, contactUnchanged, credentialVars, choiceVars
  <2>4. QED
    BY <1>1, <2>2, <2>3, SteadyInSession
<1>6. CASE a = "controlling" /\ Renominate
  <2>1. /\ UNCHANGED <<gen, gathered, locals, remotes, checklist, decided>>
        /\ nominations' = nominations \cup {[gen |-> gen["controlling"], pair |-> nominated]}
        /\ nominated # NoPair
    BY <1>6 DEF Renominate, SendNomination, contactUnchanged, credentialVars, choiceVars
  <2>2. nominations' = nominations
    BY <2>1 DEF Grounded
  <2>3. QED
    BY <1>1, <2>1, <2>2, SteadyInSession
<1>7. QED
  BY <1>2, <1>3, <1>4, <1>5, <1>6 DEF Contact

LEMMA SteadyReceive ==
    ASSUME Typed, AllSteady, NEW m \in packets,
           \/ \E a \in Agents : Discard(a, m) \/ ReceiveResponse(a, m)
           \/ ControllingRequest(m) \/ ControlledRequest(m)
    PROVE  AllSteady'
<1> USE Ground
<1>1. nominations \subseteq Nominations /\ \A b \in Agents : checklist[b] \in [Pairs(b) -> Entries]
  BY DEF Typed, TypeOK
<1>2. ASSUME NEW a \in Agents, Discard(a, m)
      PROVE  AllSteady'
  <2>1. UNCHANGED <<gen, gathered, locals, remotes, checklist, nominations, decided>>
    BY <1>2 DEF Discard, receiveUnchanged, credentialVars, choiceVars
  <2>2. QED
    BY <2>1, SteadyElsewhere
<1>3. ASSUME NEW a \in Agents, ReceiveResponse(a, m)
      PROVE  AllSteady'
  <2> DEFINE p == Pair(m.to, Found(a, m.from))
             e == checklist[a][p]
             f == IF e = Absent THEN e ELSE [e EXCEPT !.state = "succeeded"]
  <2>1. /\ UNCHANGED <<gen, gathered, locals, remotes, nominations>>
        /\ m.to \in locals[a] /\ Known(a, m.from) # {}
        /\ Decide(a, {}) \/ Decide(a, {Decision(m.to, "select", p)})
    BY <1>3 DEF ReceiveResponse, Arrives, receiveUnchanged, credentialVars, choiceVars
  <2>2. \A d \in decided'["controlling"] : d \in decided["controlling"] \/ d.do # "nominate"
    BY <2>1 DEF Typed, Decide, Decision
  <2>3. m.to \in Addrs[a] /\ m.from \in Addrs[Peer(a)] /\ m.to \in gathered[a]
    BY <2>1 DEF Typed, TypeOK
  <2>4. CASE a = "controlling"
    <3>1. p \in Pairs(a) /\ p.local = m.to /\ p.remote = m.from /\ p.type = Found(a, m.from).type
      BY <2>3, FoundCandidate DEF Pair
    <3>2. Steady(p)
      BY <2>1, <2>3, <2>4, <3>1 DEF Steady
    <3>3. checklist'[a] = [checklist[a] EXCEPT ![p] = f]
      BY <1>1, <1>3, <3>1 DEF ReceiveResponse, Typed
    <3> HIDE DEF p, f
    <3>4. \A q \in Pairs(a) : q # p => checklist'[a][q] = checklist[a][q]
      BY <1>1, <3>3
    <3>5. QED
      BY <1>1, <2>1, <2>2, <2>4, <3>2, <3>4, SteadyInSession
  <2>5. CASE a = "controlled"
    <3>1. checklist'["controlling"] = checklist["controlling"]
      BY <1>3, <2>5 DEF ReceiveResponse, Typed
    <3>2. QED
      BY <1>1, <2>1, <2>2, <3>1, SteadyInSession
  <2>6. QED
    BY <2>4, <2>5
<1>4. CASE ControllingRequest(m)
  <2> DEFINE a == "controlling"
             p == Pair(m.to, Source(a, m))
             c == Source(a, m)
  <2>1. /\ UNCHANGED <<gen, gathered, locals, nominations>>
        /\ m.to \in locals[a]
        /\ remotes' = [remotes EXCEPT ![a] = @ \cup {c}]
        /\ checklist' = [checklist EXCEPT ![a] = Listed(WithSource(a, m), {p})]
    BY <1>4 DEF ControllingRequest, NoteSource, Arrives, receiveUnchanged, credentialVars, choiceVars
  <2>2. \/ Decide(a, {})
        \/ Decide(a, {Decision(m.to, "nominate", p)}) /\ checklist[a][p].state = "succeeded"
    BY <1>4 DEF ControllingRequest
  <2>3. m.to \in Addrs[a] /\ m.from \in Addrs[Peer(a)]
    BY <2>1 DEF Typed, TypeOK
  <2>4. p \in Pairs(a)
    BY <2>3, SourceTyped
  <2>5. \A q \in Pairs(a) : checklist'[a][q].state = "succeeded" => checklist[a][q].state = "succeeded"
    <3>1. /\ WithSource(a, m) \in [Pairs(a) -> Entries]
          /\ \A q \in Pairs(a) : WithSource(a, m)[q].state = "succeeded" => checklist[a][q].state = "succeeded"
      BY <1>1, ListedEntries DEF WithSource
    <3>2. checklist'[a] = Listed(WithSource(a, m), {p})
      BY <2>1 DEF Typed
    <3>3. QED
      BY <3>1, <3>2, ListedEntries
  <2>6. remotes'[a] = remotes[a] \/ (remotes'[a] = remotes[a] \cup {c} /\ Known(a, c.addr) = {})
    <3>1. remotes'[a] = remotes[a] \cup {c}
      BY <2>1 DEF Typed
    <3>2. c.addr = m.from
      BY FoundCandidate DEF Source
    <3>3. c \in remotes[a] \/ Known(a, m.from) = {}
      BY DEF Source, Found, Known, Typed, Candidates
    <3>4. QED
      BY <3>1, <3>2, <3>3
  <2>7. \A d \in decided'[a] : d \in decided[a] \/ Steady(d.pair)
    BY <2>2, <2>4 DEF Decide, Decision, AllSteady, Typed
  <2> HIDE DEF p, c
  <2>8. QED
    BY <1>1, <2>1, <2>5, <2>6, <2>7, SteadyInSession
<1>5. CASE ControlledRequest(m)
  <2>1. UNCHANGED <<gen, gathered, locals, nominations, remotes["controlling"],
                    checklist["controlling"], decided["controlling"]>>
    BY <1>5 DEF ControlledRequest, NoteSource, Decide, Typed, receiveUnchanged, credentialVars, choiceVars
  <2>2. QED
    BY <2>1, SteadyElsewhere
<1>6. QED
  BY <1>2, <1>3, <1>4, <1>5

LEMMA SteadyDo ==
    ASSUME Typed, AllSteady, NEW a \in Agents, Do(a)
    PROVE  AllSteady'
<1> USE Ground
<1>1. nominations \subseteq Nominations
  BY DEF Typed
<1>2. ASSUME NEW d \in decided[a], NEW s \in Reported, Update(a, s),
             UNCHANGED <<gen, checklist, nominations>>,
             decided' = [decided EXCEPT ![a] = @ \ {d}]
      PROVE  AllSteady'
  <2>1. \A c \in decided'["controlling"] : c \in decided["controlling"]
    BY <1>2 DEF Typed
  <2>2. /\ gathered' = gathered /\ locals'["controlling"] \subseteq locals["controlling"]
        /\ locals'["controlling"] = {} \/ remotes'["controlling"] = remotes["controlling"]
    BY <1>2, UpdateTyped
  <2>3. QED
    BY <1>1, <1>2, <2>1, <2>2, SteadyInSession
<1>3. ASSUME NEW d \in decided[a], Select(a, d) \/ Report(a, d)
      PROVE  AllSteady'
  <2>1. d.do \in {"nominate", "select"} \cup Reported
    BY <1>3 DEF Typed, Decisions
  <2>2. /\ \E s \in Reported : Update(a, s)
        /\ UNCHANGED <<gen, checklist, nominations>>
        /\ decided' = [decided EXCEPT ![a] = @ \ {d}]
    BY <1>3, <2>1 DEF Select, Report, Reported, credentialVars, choiceVars
  <2>3. QED
    BY <1>2, <2>2
<1>4. ASSUME a = "controlling", NEW d \in decided[a], Nominate(d)
      PROVE  AllSteady'
  <2> DEFINE n == [gen |-> gen["controlling"], pair |-> d.pair]
  <2>1. /\ UNCHANGED <<gen, gathered, locals, remotes, checklist>>
        /\ nominations' = nominations \cup {n}
        /\ decided' = [decided EXCEPT !["controlling"] = @ \ {d}] /\ d.do = "nominate"
    BY <1>4 DEF Nominate, SendNomination, contactUnchanged, credentialVars
  <2>2. Steady(d.pair)
    BY <1>4, <2>1 DEF AllSteady
  <2>3. n \in Nominations
    BY <1>4 DEF Typed, TypeOK, Decisions, Nominations
  <2>4. n.pair = d.pair
    OBVIOUS
  <2>5. \A c \in decided'["controlling"] : c \in decided["controlling"]
    BY <2>1 DEF Typed
  <2> HIDE DEF n
  <2>6. QED
    BY <1>1, <2>1, <2>2, <2>3, <2>4, <2>5, SteadyInSession
<1>5. QED
  BY <1>3, <1>4 DEF Do

LEMMA SteadyRestart ==
    ASSUME Tame, Typed, AllSteady, NEW a \in Agents, Restart(a)
    PROVE  AllSteady'
<1>1. CASE a = "controlled"
  <2>1. /\ UNCHANGED <<gen["controlling"], gathered["controlling"], locals["controlling"],
                       remotes["controlling"], checklist["controlling"], decided["controlling"]>>
        /\ nominations' \subseteq nominations
    BY <1>1, RestartEffect, Ground
  <2>2. QED
    BY <2>1, SteadyElsewhere
<1>2. CASE a = "controlling"
  <2>1. /\ decided'[a] = {} /\ gen'[a] = gen[a] + 1 /\ nominations' \subseteq nominations
        /\ checklist'[a] = [p \in Pairs(a) |-> Absent]
    BY RestartEffect, RestartIdle
  <2>2. \A n \in nominations' : n.gen # gen'[a]
    <3>1. \A n \in nominations : n.gen \in Nat /\ n.gen <= gen[a] /\ gen[a] \in Nat
      BY <1>2, Ground DEF Typed, TypeOK, Nominations
    <3>2. QED
      BY <2>1, <3>1
  <2>3. QED
    BY <1>2, <2>1, <2>2 DEF AllSteady, Absent
<1>3. QED
  BY <1>1, <1>2, Ground

-----------------------------------------------------------------------------
(* Calm agents.                                                            *)

LEMMA CalmInit == Init => CalmOrder
  BY Ground DEF Init, CalmOrder, OneNomination

(* A step of a calm agent: a new decision is the only one, and what is     *)
(* reported or nominated is still as it was when that was decided.         *)
LEMMA CalmInSession ==
    ASSUME Typed, CalmOrder, UNCHANGED <<world, gen, nominated, nominations>>,
           \A b \in Agents :
             \/ decided'[b] \subseteq decided[b]
             \/ /\ Calm => decided[b] = {}
                /\ \E d : /\ \A e \in decided'[b] : e \in decided[b] \/ e = d
                          /\ Calm /\ b = "controlling" /\ d.do = "nominate" => nominated = NoPair
                          /\ d.do \in Reported => selected[b] # NoPair,
           \A b \in Agents : selected[b] # NoPair => selected'[b] # NoPair,
           \A b \in Agents : state'[b] \in {"Connected", "Disconnected"} =>
             state'[b] = state[b] \/ selected'[b] # NoPair \/ ~Calm
    PROVE  CalmOrder'
<1>1. CASE ~Calm
  BY <1>1 DEF CalmOrder, Calm
<1>2. CASE Calm
  <2>1. /\ OneNomination /\ \A n \in nominations : n.gen = gen["controlling"] => n.pair = nominated
    BY <1>2 DEF CalmOrder
  <2>2. OneNomination'
    BY <2>1 DEF OneNomination
  <2>3. \A d \in decided'["controlling"] : d.do = "nominate" => nominated' = NoPair
    BY <1>2, Ground DEF CalmOrder
  <2>4. ASSUME NEW b \in Agents
        PROVE  /\ \A d, e \in decided'[b] : d = e
               /\ \A d \in decided'[b] : d.do \in Reported => selected'[b] # NoPair
               /\ state'[b] \in {"Connected", "Disconnected"} => selected'[b] # NoPair
    BY <1>2 DEF CalmOrder
  <2>5. QED
    BY <2>1, <2>2, <2>3, <2>4 DEF CalmOrder
<1>3. QED
  BY <1>1, <1>2

LEMMA CalmSignalling ==
    ASSUME Typed, CalmOrder, NEW a \in Agents, Signalling(a) \/ Close(a)
    PROVE  CalmOrder'
<1>1. /\ UNCHANGED <<world, gen, nominated, nominations, selected, decided>>
      /\ \A b \in Agents : state'[b] \in {"Connected", "Disconnected"} => state'[b] = state[b]
  BY DEF Typed, TypeOK, Signalling, Close, Start, SetRemoteCredentials, AddCandidate,
         AddRemoteCandidate, candidateVars, credentialVars, choiceVars
<1>2. QED
  BY <1>1, CalmInSession

LEMMA CalmContact ==
    ASSUME Typed, Grounded, CalmOrder, NEW a \in Agents, Contact(a) \/ GiveUp(a)
    PROVE  CalmOrder'
<1>1. (Contact(a) \/ GiveUp(a)) /\ Calm => decided[a] = {}
  BY Ground DEF Contact, GiveUp, Validate, CheckAll, NominateBest, Renominate, Contacting, Free, Calm
<1>2. CASE GiveUp(a)
  <2>1. UNCHANGED <<world, gen, nominated, nominations, selected, decided>> /\ Update(a, "Failed")
    BY <1>2 DEF GiveUp, contactUnchanged, credentialVars, choiceVars
  <2>2. \A b \in Agents : state'[b] \in {"Connected", "Disconnected"} => state'[b] = state[b]
    BY <2>1 DEF Update, Typed, TypeOK
  <2>3. QED
    BY <2>1, <2>2, CalmInSession
<1>3. CASE Validate(a)
  <2>1. PICK s \in Reported : Decide(a, {Decision("contact", s, selected[a])})
    BY <1>3 DEF Validate, Reported
  <2> DEFINE d == Decision("contact", s, selected[a])
  <2>2. d.do = s
    BY DEF Decision
  <2>3. /\ UNCHANGED <<world, gen, nominated, nominations, selected, state>>
        /\ selected[a] # NoPair
        /\ \A b \in Agents : \A e \in decided'[b] : e \in decided[b] \/ (b = a /\ e = d)
    BY <1>3, <2>1 DEF Validate, Decide, Typed, contactUnchanged, credentialVars, choiceVars
  <2> HIDE DEF d
  <2>4. QED
    BY <1>1, <1>3, <2>2, <2>3, CalmInSession DEF Contact, Reported
<1>4. CASE CheckAll(a)
  <2>1. UNCHANGED <<world, gen, nominated, nominations, selected, decided, state>>
    BY <1>4 DEF CheckAll, contactUnchanged, credentialVars, choiceVars
  <2>2. QED
    BY <2>1, CalmInSession
<1>5. CASE a = "controlling" /\ NominateBest
  <2>1. PICK p \in BestValid(a) : Decide(a, {Decision("contact", "nominate", p)})
    BY <1>5 DEF NominateBest
  <2> DEFINE d == Decision("contact", "nominate", p)
  <2>2. d.do = "nominate"
    BY DEF Decision
  <2>3. /\ UNCHANGED <<world, gen, nominated, nominations, selected, state>>
        /\ nominated = NoPair
        /\ \A b \in Agents : \A e \in decided'[b] : e \in decided[b] \/ (b = a /\ e = d)
    BY <1>5, <2>1 DEF NominateBest, Decide, Typed, contactUnchanged, credentialVars, choiceVars
  <2> HIDE DEF d
  <2>4. QED
    BY <1>1, <1>5, <2>2, <2>3, CalmInSession DEF Contact, Reported
<1>6. CASE a = "controlling" /\ Renominate
  <2>1. /\ UNCHANGED <<world, gen, nominated, selected, decided, state>>
        /\ nominations' = nominations \cup {[gen |-> gen["controlling"], pair |-> nominated]}
        /\ nominated # NoPair
    BY <1>6 DEF Renominate, SendNomination, contactUnchanged, credentialVars, choiceVars
  <2>2. nominations' = nominations
    BY <2>1 DEF Grounded
  <2>3. QED
    BY <2>1, <2>2, CalmInSession
<1>7. QED
  BY <1>2, <1>3, <1>4, <1>5, <1>6 DEF Contact

LEMMA CalmReceive ==
    ASSUME Typed, CalmOrder, NEW m \in packets,
           \/ \E a \in Agents : Discard(a, m) \/ ReceiveResponse(a, m)
           \/ ControllingRequest(m) \/ ControlledRequest(m)
    PROVE  CalmOrder'
<1>1. UNCHANGED <<world, gen, nominated, nominations, selected, state>>
  BY DEF Discard, ReceiveResponse, ControllingRequest, ControlledRequest,
         receiveUnchanged, credentialVars, choiceVars
<1>2. PICK a \in Agents :
        \/ decided' = decided
        \/ /\ Calm => decided[a] = {}
           /\ \E d : /\ Decide(a, {}) \/ Decide(a, {d})
                     /\ d.do = "select" \/ (d.do = "nominate" /\ nominated = NoPair)
  <2>1. ASSUME NEW a \in Agents, Discard(a, m)
        PROVE  decided' = decided
    BY <2>1 DEF Discard
  <2>2. ASSUME NEW a \in Agents, ReceiveResponse(a, m)
        PROVE  /\ Calm => decided[a] = {}
               /\ \E d : d.do = "select" /\ (Decide(a, {}) \/ Decide(a, {d}))
    <3> DEFINE d == Decision(m.to, "select", Pair(m.to, Found(a, m.from)))
    <3>1. (Calm => decided[a] = {}) /\ (Decide(a, {}) \/ Decide(a, {d}))
      BY <2>2 DEF ReceiveResponse, Free, Calm
    <3>2. d.do = "select"
      BY DEF Decision
    <3> HIDE DEF d
    <3>3. QED
      BY <3>1, <3>2
  <2>3. CASE ControllingRequest(m)
    <3> DEFINE a == "controlling"
               d == Decision(m.to, "nominate", Pair(m.to, Source(a, m)))
    <3>1. /\ Calm => decided[a] = {}
          /\ Decide(a, {}) \/ (Decide(a, {d}) /\ nominated = NoPair)
      BY <2>3 DEF ControllingRequest, Free, Calm
    <3>2. d.do = "nominate"
      BY DEF Decision
    <3>3. Decision(m.to, "select", NoPair).do = "select"
      BY DEF Decision
    <3> HIDE DEF d
    <3>4. QED
      BY <3>1, <3>2, <3>3, Ground
  <2>4. CASE ControlledRequest(m)
    <3> DEFINE a == "controlled"
               d == Decision(m.to, "select", Pair(m.to, Source(a, m)))
    <3>1. (Calm => decided[a] = {}) /\ (Decide(a, {}) \/ Decide(a, {d}))
      BY <2>4 DEF ControlledRequest, Free, Calm
    <3>2. d.do = "select"
      BY DEF Decision
    <3> HIDE DEF d
    <3>3. QED
      BY <3>1, <3>2, Ground
  <2>5. QED
    BY <2>1, <2>2, <2>3, <2>4
<1>3. CASE decided' = decided
  BY <1>1, <1>3, CalmInSession
<1>4. CASE decided' # decided
  <2>1. PICK d : /\ Decide(a, {}) \/ Decide(a, {d})
                 /\ d.do = "select" \/ (d.do = "nominate" /\ nominated = NoPair)
    BY <1>2, <1>4
  <2>2. \A b \in Agents : \A e \in decided'[b] : e \in decided[b] \/ (b = a /\ e = d)
    BY <2>1 DEF Decide, Typed
  <2>3. QED
    BY <1>1, <1>2, <1>4, <2>1, <2>2, CalmInSession DEF Reported
<1>5. QED
  BY <1>3, <1>4

LEMMA CalmDo ==
    ASSUME Typed, CalmOrder, NEW a \in Agents, Do(a)
    PROVE  CalmOrder'
<1>1. ASSUME NEW d \in decided[a], Select(a, d)
      PROVE  CalmOrder'
  <2>1. /\ UNCHANGED <<world, gen, nominated, nominations>>
        /\ decided' = [decided EXCEPT ![a] = @ \ {d}]
        /\ selected' = [selected EXCEPT ![a] = d.pair]
        /\ state' = [state EXCEPT ![a] = "Connected"]
    BY <1>1 DEF Select, credentialVars, Update
  <2>2. d.pair # NoPair
    BY <1>1, Ground DEF Typed, Decisions
  <2>3. \A b \in Agents : /\ decided'[b] \subseteq decided[b]
                          /\ selected[b] # NoPair => selected'[b] # NoPair
                          /\ state'[b] = state[b] \/ selected'[b] # NoPair
    BY <2>1, <2>2 DEF Typed, TypeOK
  <2>4. QED
    BY <2>1, <2>3, CalmInSession
<1>2. ASSUME NEW d \in decided[a], Report(a, d)
      PROVE  CalmOrder'
  <2>1. /\ UNCHANGED <<world, gen, nominated, nominations, selected>>
        /\ decided' = [decided EXCEPT ![a] = @ \ {d}]
        /\ state' = [state EXCEPT ![a] = d.do]
        /\ d.do \in Reported
    BY <1>2 DEF Report, credentialVars, choiceVars, Update, Typed, Decisions
  <2>2. Calm => selected[a] # NoPair
    BY <2>1 DEF CalmOrder
  <2>3. \A b \in Agents : /\ decided'[b] \subseteq decided[b]
                          /\ state'[b] = state[b] \/ b = a
    BY <2>1 DEF Typed, TypeOK
  <2>4. QED
    BY <2>1, <2>2, <2>3, CalmInSession
<1>3. ASSUME a = "controlling", NEW d \in decided[a], Nominate(d)
      PROVE  CalmOrder'
  <2> DEFINE n == [gen |-> gen["controlling"], pair |-> d.pair]
  <2>1. /\ UNCHANGED <<world, gen, selected, state>>
        /\ decided' = [decided EXCEPT !["controlling"] = @ \ {d}] /\ d.do = "nominate"
        /\ nominations' = nominations \cup {n} /\ nominated' = d.pair
    BY <1>3 DEF Nominate, SendNomination, contactUnchanged, credentialVars
  <2>2. n.gen = gen["controlling"] /\ n.pair = d.pair
    OBVIOUS
  <2> HIDE DEF n
  <2>3. CASE ~Calm
    BY <2>1, <2>3 DEF CalmOrder, Calm
  <2>4. CASE Calm
    <3>1. nominated = NoPair /\ decided'[a] = {} /\ \A e \in decided[a] : e = d
      BY <1>3, <2>1, <2>4 DEF CalmOrder, Typed
    <3>2. \A o \in nominations : o.gen # gen["controlling"]
      BY <2>4, <3>1, Ground DEF CalmOrder, Typed, Nominations
    <3>3. OneNomination'
      BY <2>1, <2>2, <2>4, <3>2 DEF CalmOrder, OneNomination
    <3>4. \A o \in nominations' : o.gen = gen'["controlling"] => o.pair = nominated'
      BY <2>1, <2>2, <3>2
    <3>5. \A b \in Agents : decided'[b] \subseteq decided[b]
      BY <2>1 DEF Typed
    <3>6. QED
      BY <1>3, <2>1, <2>4, <3>1, <3>3, <3>4, <3>5 DEF CalmOrder, Calm
  <2>5. QED
    BY <2>3, <2>4
<1>4. QED
  BY <1>1, <1>2, <1>3 DEF Do

LEMMA CalmRestart ==
    ASSUME Tame, Typed, CalmOrder, NEW a \in Agents, Restart(a)
    PROVE  CalmOrder'
<1> DEFINE b == Peer(a)
<1>1. b \in Agents /\ b # a /\ Agents = {a, b} /\ (a = "controlling" <=> b = "controlled") /\ decided[a] = {}
  BY RestartIdle, Ground
<1>2. /\ world' = world /\ decided' = decided /\ gen'[a] = gen[a] + 1 /\ gen'[b] = gen[b]
      /\ selected'[a] = NoPair /\ selected'[b] = selected[b]
      /\ state'[a] = "Checking" /\ state'[b] = state[b]
      /\ nominated' = (IF a = "controlling" THEN NoPair ELSE nominated)
      /\ nominations' \subseteq nominations
  BY RestartEffect
<1> HIDE DEF b
<1>3. CASE ~Calm
  BY <1>2, <1>3 DEF CalmOrder, Calm
<1>4. CASE Calm
  <2>1. OneNomination'
    BY <1>2, <1>4 DEF CalmOrder, OneNomination
  <2>2. \A n \in nominations' : n.gen = gen'["controlling"] => n.pair = nominated'
    <3>1. CASE a = "controlling"
      <4>1. \A n \in nominations : n.gen \in Nat /\ n.gen <= gen[a] /\ gen[a] \in Nat
        BY <3>1, Ground DEF Typed, TypeOK, Nominations
      <4>2. QED
        BY <1>2, <3>1, <4>1
    <3>2. CASE a = "controlled"
      BY <1>1, <1>2, <1>4, <3>2, Ground DEF CalmOrder
    <3>3. QED
      BY <3>1, <3>2, Ground
  <2>3. \A d \in decided'["controlling"] : d.do = "nominate" => nominated' = NoPair
    BY <1>1, <1>2, <1>4 DEF CalmOrder
  <2>4. \A c \in Agents :
           /\ \A d, e \in decided'[c] : d = e
           /\ \A d \in decided'[c] : d.do \in Reported => selected'[c] # NoPair
           /\ state'[c] \in {"Connected", "Disconnected"} => selected'[c] # NoPair
    BY <1>1, <1>2, <1>4 DEF CalmOrder
  <2>5. QED
    BY <2>1, <2>2, <2>3, <2>4 DEF CalmOrder
<1>5. QED
  BY <1>3, <1>4

-----------------------------------------------------------------------------
(* The invariant, and what follows from it.                                *)

LEMMA IceInit == Init => IceInv
  BY TypedInit, GroundedInit, SteadyInit, CalmInit DEF IceInv

LEMMA IceStep ==
    ASSUME Tame, IceInv, [Next]_vars
    PROVE  IceInv'
<1> SUFFICES Grounded' /\ AllSteady' /\ CalmOrder'
  BY TypedStep DEF IceInv
<1> USE DEF IceInv
<1>1. ASSUME NEW a \in Agents, Signalling(a) \/ Close(a)
      PROVE  Grounded' /\ AllSteady' /\ CalmOrder'
  BY <1>1, GroundedSignalling, SteadySignalling, CalmSignalling
<1>2. ASSUME NEW a \in Agents, Contact(a) \/ GiveUp(a)
      PROVE  Grounded' /\ AllSteady' /\ CalmOrder'
  BY <1>2, GroundedContact, SteadyContact, CalmContact
<1>3. ASSUME NEW a \in Agents, Restart(a)
      PROVE  Grounded' /\ AllSteady' /\ CalmOrder'
  BY <1>3, GroundedRestart, SteadyRestart, CalmRestart
<1>4. ASSUME NEW a \in Agents, Do(a)
      PROVE  Grounded' /\ AllSteady' /\ CalmOrder'
  BY <1>4, GroundedDo, SteadyDo, CalmDo
<1>5. CASE Receive
  <2>1. PICK m \in packets :
          \/ \E a \in Agents : Discard(a, m) \/ ReceiveResponse(a, m)
          \/ ControllingRequest(m) \/ ControlledRequest(m)
    BY <1>5 DEF Receive
  <2>2. AllSteady' /\ CalmOrder'
    BY <2>1, SteadyReceive, CalmReceive
  <2>3. Grounded'
    <3>1. ASSUME NEW a \in Agents, Discard(a, m)
          PROVE  Grounded'
      <4>1. /\ UNCHANGED <<gen, selected, nominated, nominations, checklist, decided>>
            /\ packets' \subseteq packets
        BY <3>1 DEF Discard, Arrives, Passing, receiveUnchanged, credentialVars, choiceVars
      <4>2. QED
        BY <4>1, GroundedInSession
    <3>2. QED
      BY <2>1, <3>1, GroundedResponse, GroundedControllingRequest, GroundedControlledRequest
  <2>4. QED
    BY <2>2, <2>3
<1>6. CASE UNCHANGED vars
  <2>1. UNCHANGED <<world, state, gen, gathered, locals, remotes, checklist, selected, nominated,
                    decided, packets, nominations>>
    BY <1>6 DEF vars, credentialVars, candidateVars, choiceVars
  <2>2. Grounded'
    BY <2>1, GroundedInSession
  <2>3. AllSteady' /\ CalmOrder'
    BY <2>1, SteadyElsewhere, CalmInSession
  <2>4. QED
    BY <2>2, <2>3
<1>7. QED
  BY <1>1, <1>2, <1>3, <1>4, <1>5, <1>6 DEF Next

(* The two agents agree: whatever is lost, doubled, delayed or reordered,  *)
(* and however restarts of the two sides cross, calm agents that are in    *)
(* the same session never use different pairs; and even where tasks race,  *)
(* what an agent uses has been nominated over the wire.                    *)
THEOREM AgentsAgree ==
    ASSUME Tame
    PROVE  Spec => []PairsAgree
<1>1. IceInv => SelectedNominated
  BY Ground DEF IceInv, Grounded, Agreed, Backed, SelectedNominated
<1>2. IceInv => Agreement
  <2> SUFFICES ASSUME IceInv, world.mode # "races", SameSession,
                      \A a \in Agents : selected[a] # NoPair
               PROVE  Mirrored(selected["controlling"], selected["controlled"])
    BY DEF Agreement
  <2>1. PICK n \in nominations : n.gen = gen["controlling"] /\ n.pair = selected["controlling"]
    BY Ground DEF IceInv, Grounded, Agreed, Backed
  <2>2. PICK o \in nominations : o.gen = gen["controlled"] /\ Mirrored(o.pair, selected["controlled"])
    BY Ground DEF IceInv, Grounded, Agreed, Backed
  <2>3. gen["controlling"] = gen["controlled"]
    BY Ground DEF SameSession
  <2>4. n.pair = o.pair
    BY <2>1, <2>2, <2>3 DEF IceInv, CalmOrder, Calm
  <2>5. QED
    BY <2>1, <2>2, <2>4
<1>3. IceInv => PairsAgree
  BY <1>1, <1>2 DEF PairsAgree
<1>4. IceInv /\ [Next]_vars => IceInv'
  BY IceStep
<1>5. QED
  BY <1>4, <1>3, IceInit, PTL DEF Spec

(* Calm agents nominate one pair in a session.                             *)
THEOREM NominatedOnce ==
    ASSUME Tame
    PROVE  Spec => [](Calm => OneNomination)
<1>1. IceInv => (Calm => OneNomination)
  BY DEF IceInv, CalmOrder
<1>2. IceInv /\ [Next]_vars => IceInv'
  BY IceStep
<1>3. QED
  BY <1>2, <1>1, IceInit, PTL DEF Spec

(* Calm agents report a connection only while a pair is selected.          *)
THEOREM ReportsTrue ==
    ASSUME Tame
    PROVE  Spec => []ConnectedHasPair
<1>1. IceInv => ConnectedHasPair
  BY DEF IceInv, CalmOrder, Calm, ConnectedHasPair
<1>2. IceInv /\ [Next]_vars => IceInv'
  BY IceStep
<1>3. QED
  BY <1>2, <1>1, IceInit, PTL DEF Spec

-----------------------------------------------------------------------------
(* What calm agents promise: IceAgreement.                                 *)

(* What a task decided to select is selected into nothing.                 *)
ChoosesOnce ==
    Calm => \A a \in Agents : \A d \in decided[a] : d.do = "select" => selected[a] = NoPair

LEMMA ChoosesInit == Init => ChoosesOnce
  BY DEF Init, ChoosesOnce

LEMMA ChoosesKept ==
    ASSUME ChoosesOnce, world' = world,
           \A b \in Agents :
             /\ \A d \in decided'[b] :
                   d \in decided[b] \/ (d.do = "select" => selected[b] = NoPair)
             /\ \/ selected'[b] = selected[b]
                \/ selected'[b] = NoPair
                \/ Calm => decided'[b] = {}
    PROVE  ChoosesOnce'
  BY DEF ChoosesOnce, Calm

LEMMA ChoosesContact ==
    ASSUME Typed, ChoosesOnce, NEW a \in Agents,
           Signalling(a) \/ Close(a) \/ Contact(a) \/ GiveUp(a)
    PROVE  ChoosesOnce'
<1>1. UNCHANGED <<world, selected>>
  BY DEF Signalling, Close, Contact, GiveUp, Start, SetRemoteCredentials, AddCandidate,
         AddRemoteCandidate, Validate, CheckAll, NominateBest, Renominate, contactUnchanged,
         candidateVars, credentialVars, choiceVars
<1>2. decided' = decided \/ \E d : Decide(a, {d}) /\ d.do # "select"
  <2>1. CASE Validate(a)
    <3>1. PICK s \in Reported : Decide(a, {Decision("contact", s, selected[a])})
      BY <2>1 DEF Validate, Reported
    <3> DEFINE d == Decision("contact", s, selected[a])
    <3>2. d.do # "select"
      BY DEF Decision, Reported
    <3> HIDE DEF d
    <3>3. QED
      BY <3>1, <3>2 DEF d
  <2>2. CASE a = "controlling" /\ NominateBest
    <3>1. PICK p : Decide(a, {Decision("contact", "nominate", p)})
      BY <2>2 DEF NominateBest
    <3>2. Decision("contact", "nominate", p).do # "select"
      BY DEF Decision
    <3>3. QED
      BY <3>1, <3>2
  <2>3. QED
    BY <2>1, <2>2 DEF Signalling, Close, Contact, GiveUp, Start, SetRemoteCredentials,
       AddCandidate, AddRemoteCandidate, CheckAll, Renominate
<1>3. \A b \in Agents : \A d \in decided'[b] : d \in decided[b] \/ d.do # "select"
  BY <1>2 DEF Decide, Typed
<1>4. QED
  BY <1>1, <1>3, ChoosesKept

LEMMA ChoosesReceive ==
    ASSUME Typed, ChoosesOnce, NEW m \in packets,
           \/ \E a \in Agents : Discard(a, m) \/ ReceiveResponse(a, m)
           \/ ControllingRequest(m) \/ ControlledRequest(m)
    PROVE  ChoosesOnce'
<1>1. UNCHANGED <<world, selected>>
  BY DEF Discard, ReceiveResponse, ControllingRequest, ControlledRequest,
         receiveUnchanged, credentialVars, choiceVars
<1>2. \E a \in Agents : \E d :
        /\ decided' = decided \/ Decide(a, {}) \/ Decide(a, {d})
        /\ d.do = "select" => decided' = decided \/ Decide(a, {}) \/ selected[a] = NoPair
  <2>1. ASSUME NEW a \in Agents, Discard(a, m)
        PROVE  decided' = decided
    BY <2>1 DEF Discard
  <2>2. ASSUME NEW a \in Agents, ReceiveResponse(a, m)
        PROVE  \E d : Decide(a, {}) \/ (Decide(a, {d}) /\ selected[a] = NoPair)
    BY <2>2 DEF ReceiveResponse
  <2>3. ASSUME ControllingRequest(m)
        PROVE  \E d : Decide("controlling", {}) \/ (Decide("controlling", {d}) /\ d.do # "select")
    <3> DEFINE d == Decision(m.to, "nominate", Pair(m.to, Source("controlling", m)))
    <3>1. Decide("controlling", {}) \/ Decide("controlling", {d})
      BY <2>3 DEF ControllingRequest
    <3>2. d.do # "select"
      BY DEF Decision
    <3> HIDE DEF d
    <3>3. QED
      BY <3>1, <3>2
  <2>4. ASSUME ControlledRequest(m)
        PROVE  \E d : Decide("controlled", {})
                      \/ (Decide("controlled", {d}) /\ selected["controlled"] = NoPair)
    BY <2>4 DEF ControlledRequest
  <2>5. QED
    BY <2>1, <2>2, <2>3, <2>4, Ground
<1>3. \A b \in Agents : \A d \in decided'[b] :
        d \in decided[b] \/ (d.do = "select" => selected[b] = NoPair)
  BY <1>2 DEF Decide, Typed
<1>4. QED
  BY <1>1, <1>3, ChoosesKept

LEMMA ChoosesDo ==
    ASSUME Typed, CalmOrder, ChoosesOnce, NEW a \in Agents, Do(a)
    PROVE  ChoosesOnce'
<1>1. PICK d \in decided[a] : Select(a, d) \/ Report(a, d) \/ (a = "controlling" /\ Nominate(d))
  BY DEF Do
<1>2. /\ world' = world /\ decided' = [decided EXCEPT ![a] = @ \ {d}]
      /\ selected' = selected \/ selected' = [selected EXCEPT ![a] = d.pair]
  BY <1>1 DEF Select, Report, Nominate, contactUnchanged, choiceVars
<1>3. \A b \in Agents : /\ decided'[b] \subseteq decided[b]
                        /\ b # a => selected'[b] = selected[b]
  BY <1>2 DEF Typed, TypeOK
<1>4. Calm => decided'[a] = {}
  BY <1>2 DEF CalmOrder, Typed
<1>5. QED
  BY <1>2, <1>3, <1>4, ChoosesKept

LEMMA ChoosesStep ==
    ASSUME Tame, IceInv, ChoosesOnce, [Next]_vars
    PROVE  ChoosesOnce'
<1> USE DEF IceInv
<1>1. ASSUME NEW a \in Agents, Restart(a)
      PROVE  ChoosesOnce'
  <2>1. /\ world' = world /\ decided' = decided
        /\ \A b \in Agents : selected'[b] \in {selected[b], NoPair}
    BY <1>1, RestartEffect, Ground
  <2>2. QED
    BY <2>1, ChoosesKept
<1>2. CASE UNCHANGED vars
  BY <1>2, ChoosesKept DEF vars, choiceVars
<1>3. CASE Receive
  BY <1>3, ChoosesReceive DEF Receive
<1>4. QED
  BY <1>1, <1>2, <1>3, ChoosesContact, ChoosesDo DEF Next

(* The links of IceAgreement.                                              *)
LEMMA LinkUsed ==
    ASSUME Typed, NEW a \in Agents
    PROVE  /\ UsedLinks[a] = (IF a = "controlling" THEN Link(selected[a]) ELSE Reversed(selected[a]))
           /\ selected[a] = NoPair => UsedLinks[a] = Promise!Nothing
  BY DEF UsedLinks, Link, Reversed, NoPair, Promise!Nothing

(* A pair that is nominated is the first of its session.                   *)
LEMMA PromiseNominate ==
    ASSUME IceInv, Calm, NEW d \in decided["controlling"], Nominate(d)
    PROVE  Promise!Next
<1> DEFINE l == Link(d.pair)
           m == [gen |-> gen["controlling"], link |-> l]
           n == [gen |-> gen["controlling"], pair |-> d.pair]
<1>1. /\ d.do = "nominate" /\ UNCHANGED <<gen, selected, state>>
      /\ nominations' = nominations \cup {n}
  BY DEF Nominate, SendNomination, contactUnchanged, credentialVars
<1>2. d.pair \in Pairs("controlling")
  BY Ground DEF IceInv, Typed, Decisions
<1>3. l \in Addrs["controlling"] \X Addrs["controlled"]
  BY <1>2, Ground DEF Pairs, Link
<1>4. \A o \in nominations : o.gen # gen["controlling"]
  <2>1. nominated = NoPair
    BY <1>1 DEF IceInv, CalmOrder
  <2>2. \A o \in nominations : o.pair # NoPair
    BY Ground DEF IceInv, Typed, Nominations
  <2>3. QED
    BY <2>1, <2>2 DEF IceInv, CalmOrder
<1>5. \A o \in NominatedLinks : o.gen # gen["controlling"]
  BY <1>4 DEF NominatedLinks
<1>6. NominatedLinks' = NominatedLinks \cup {m}
  <2> DEFINE Abstract(o) == [gen |-> o.gen, link |-> Link(o.pair)]
  <2>1. Abstract(n) = m
    OBVIOUS
  <2>2. /\ NominatedLinks = {Abstract(o) : o \in nominations}
        /\ NominatedLinks' = {Abstract(o) : o \in nominations'}
    BY DEF NominatedLinks
  <2> HIDE DEF Abstract, m, n
  <2>3. QED
    BY <1>1, <2>1, <2>2
<1>7. UsedLinks' = UsedLinks /\ ConnectedAgents' = ConnectedAgents
  BY <1>1 DEF UsedLinks, ConnectedAgents
<1> HIDE DEF l
<1>8. Promise!Nominate(l)
  BY <1>1, <1>5, <1>6, <1>7 DEF Promise!Nominate
<1>9. QED
  BY <1>3, <1>8 DEF Promise!Next

(* A pair that is selected is the one nominated in the agent's session.    *)
LEMMA PromiseUse ==
    ASSUME IceInv, ChoosesOnce, Calm, NEW a \in Agents, NEW d \in decided[a], Select(a, d)
    PROVE  Promise!Next
<1>1. /\ d.do = "select" /\ UNCHANGED <<gen, nominations>>
      /\ selected' = [selected EXCEPT ![a] = d.pair]
      /\ state' = [state EXCEPT ![a] = "Connected"]
  BY DEF Select, credentialVars, Update
<1>2. selected[a] = NoPair
  BY <1>1 DEF ChoosesOnce
<1>3. PICK n \in nominations : /\ n.gen = gen[a]
                               /\ IF a = "controlling" THEN n.pair = d.pair ELSE Mirrored(n.pair, d.pair)
  BY <1>1 DEF IceInv, Grounded, Agreed, Backed
<1> DEFINE m == [gen |-> n.gen, link |-> Link(n.pair)]
<1>4. m \in NominatedLinks /\ m.gen = gen[a]
  BY <1>3 DEF NominatedLinks
<1>5. m.link = IF a = "controlling" THEN Link(d.pair) ELSE Reversed(d.pair)
  BY <1>3 DEF Mirrored, Link, Reversed
<1>6. UsedLinks' = [UsedLinks EXCEPT ![a] = m.link]
  <2>1. selected'[a] = d.pair /\ \A b \in Agents : b # a => selected'[b] = selected[b]
    BY <1>1 DEF IceInv, Typed
  <2> HIDE DEF m
  <2>2. QED
    BY <1>5, <2>1 DEF UsedLinks
<1>7. UsedLinks[a] = Promise!Nothing
  BY <1>2, LinkUsed DEF IceInv
<1>8. NominatedLinks' = NominatedLinks /\ ConnectedAgents' = ConnectedAgents \cup {a}
  BY <1>1 DEF NominatedLinks, ConnectedAgents, IceInv, Typed, TypeOK
<1> HIDE DEF m
<1>9. Promise!Use(a)
  BY <1>1, <1>4, <1>6, <1>7, <1>8 DEF Promise!Use
<1>10. a \in Promise!Agents
  BY Ground DEF Promise!Agents
<1>11. QED
  BY <1>9, <1>10 DEF Promise!Next

LEMMA PromiseLeave ==
    ASSUME Typed, NEW a \in Agents, Restart(a)
    PROVE  Promise!Next
<1>1. /\ gen' = [gen EXCEPT ![a] = @ + 1] /\ state' = [state EXCEPT ![a] = "Checking"]
      /\ selected'[a] = NoPair /\ \A b \in Agents : b # a => selected'[b] = selected[b]
      /\ nominations' = {n \in nominations : n.gen >= gen[Peer(a)]}
  <2>1. /\ gen' = [gen EXCEPT ![a] = @ + 1] /\ selected' = [selected EXCEPT ![a] = NoPair]
        /\ state' = [state EXCEPT ![a] = "Checking"]
    BY DEF Restart, RestartState
  <2>2. QED
    BY <2>1, RestartEffect DEF Typed
<1>2. Link(NoPair) = Promise!Nothing /\ Reversed(NoPair) = Promise!Nothing
  BY DEF Link, Reversed, NoPair, Promise!Nothing
<1>3. UsedLinks' = [UsedLinks EXCEPT ![a] = Promise!Nothing]
  BY <1>1, <1>2 DEF UsedLinks
<1>4. NominatedLinks' = {n \in NominatedLinks : n.gen >= gen[Peer(a)]}
  BY <1>1 DEF NominatedLinks
<1>5. ConnectedAgents' = ConnectedAgents \ {a}
  BY <1>1 DEF ConnectedAgents, Typed, TypeOK
<1>6. Promise!Other(a) = Peer(a)
  BY DEF Promise!Other, Peer
<1>7. Promise!Leave(a)
  BY <1>1, <1>3, <1>4, <1>5, <1>6 DEF Promise!Leave
<1>8. a \in Promise!Agents
  BY Ground DEF Promise!Agents
<1>9. QED
  BY <1>7, <1>8 DEF Promise!Next

(* What calm agents report: a connection they have, or its end.            *)
LEMMA PromiseReport ==
    ASSUME IceInv, Calm, NEW a \in Agents, UNCHANGED <<gen, selected, nominations>>,
           NEW s \in Reported \cup {"Closed"}, state' = [state EXCEPT ![a] = s],
           s \in {"Connected", "Disconnected"} => selected[a] # NoPair
    PROVE  Promise!Next
<1>1. a \in Promise!Agents
  BY Ground DEF Promise!Agents
<1>2. NominatedLinks' = NominatedLinks /\ UsedLinks' = UsedLinks
  BY DEF NominatedLinks, UsedLinks
<1>3. CASE s \in {"Connected", "Disconnected"}
  <2>1. ConnectedAgents' = ConnectedAgents \cup {a}
    BY <1>3 DEF ConnectedAgents, IceInv, Typed, TypeOK
  <2>2. selected[a] \in Pairs(a)
    BY <1>3 DEF IceInv, Typed, TypeOK
  <2>3. "none" \notin Addrs[a]
    BY AddrsAssumption
  <2>4. UsedLinks[a] # Promise!Nothing
    <3>1. selected[a].local # "none"
      BY <2>2, <2>3 DEF Pairs
    <3>2. UsedLinks[a] = IF a = "controlling" THEN Link(selected[a]) ELSE Reversed(selected[a])
      BY LinkUsed DEF IceInv
    <3>3. QED
      BY <3>1, <3>2 DEF Link, Reversed, Promise!Nothing
  <2>5. Promise!Report(a)
    BY <1>2, <2>1, <2>4 DEF Promise!Report
  <2>6. QED
    BY <1>1, <2>5 DEF Promise!Next
<1>4. CASE s \notin {"Connected", "Disconnected"}
  <2>1. ConnectedAgents' = ConnectedAgents \ {a}
    BY <1>4 DEF ConnectedAgents, IceInv, Typed, TypeOK
  <2>2. Promise!GiveUp(a)
    BY <1>2, <2>1 DEF Promise!GiveUp
  <2>3. QED
    BY <1>1, <2>2 DEF Promise!Next
<1>5. QED
  BY <1>3, <1>4

LEMMA PromiseStutter ==
    ASSUME UNCHANGED <<gen, selected, nominations, ConnectedAgents>>
    PROVE  UNCHANGED Promise!vars
  BY DEF Promise!vars, UsedLinks, NominatedLinks

LEMMA PromiseStep ==
    ASSUME IceInv, ChoosesOnce, Calm, [Next]_vars
    PROVE  Promise!Next \/ UNCHANGED Promise!vars
<1>1. ASSUME NEW a \in Agents, Signalling(a)
      PROVE  UNCHANGED Promise!vars
  <2>1. UNCHANGED <<gen, selected, nominations>>
        /\ (state' = state \/ (state[a] = "New" /\ state' = [state EXCEPT ![a] = "Checking"]))
    BY <1>1 DEF Signalling, Start, SetRemoteCredentials, AddCandidate, AddRemoteCandidate,
       candidateVars, credentialVars, choiceVars
  <2>2. ConnectedAgents' = ConnectedAgents
    BY <2>1 DEF ConnectedAgents, IceInv, Typed, TypeOK
  <2>3. QED
    BY <2>1, <2>2, PromiseStutter
<1>2. ASSUME NEW a \in Agents, Contact(a)
      PROVE  UNCHANGED Promise!vars
  <2>1. CASE Validate(a) \/ CheckAll(a) \/ NominateBest
    BY <2>1, PromiseStutter DEF Validate, CheckAll, NominateBest, contactUnchanged,
       credentialVars, choiceVars, ConnectedAgents
  <2>2. CASE Renominate
    <3>1. /\ UNCHANGED <<gen, selected, state>> /\ nominated # NoPair
          /\ nominations' = nominations \cup {[gen |-> gen["controlling"], pair |-> nominated]}
      BY <2>2 DEF Renominate, SendNomination, contactUnchanged, credentialVars
    <3>2. nominations' = nominations
      BY <3>1 DEF IceInv, Grounded
    <3>3. QED
      BY <3>1, <3>2, PromiseStutter DEF ConnectedAgents
  <2>3. QED
    BY <1>2, <2>1, <2>2 DEF Contact
<1>3. ASSUME NEW a \in Agents, Restart(a)
      PROVE  Promise!Next
  BY <1>3, PromiseLeave DEF IceInv
<1>4. ASSUME NEW a \in Agents, Do(a)
      PROVE  Promise!Next
  <2>1. ASSUME NEW d \in decided[a], Report(a, d)
        PROVE  Promise!Next
    <3>1. /\ UNCHANGED <<gen, selected, nominations>>
          /\ state' = [state EXCEPT ![a] = d.do] /\ d.do \in Reported
      BY <2>1 DEF Report, Update, credentialVars, choiceVars, IceInv, Typed, Decisions
    <3>2. selected[a] # NoPair
      BY <3>1 DEF IceInv, CalmOrder
    <3>3. QED
      BY <3>1, <3>2, PromiseReport
  <2>2. QED
    BY <1>4, <2>1, PromiseUse, PromiseNominate DEF Do
<1>5. ASSUME NEW a \in Agents, Close(a) \/ GiveUp(a)
      PROVE  Promise!Next
  <2>1. /\ UNCHANGED <<gen, selected, nominations>>
        /\ \E s \in {"Closed", "Failed"} : state' = [state EXCEPT ![a] = s]
    BY <1>5 DEF Close, GiveUp, Update, contactUnchanged, credentialVars, choiceVars
  <2>2. QED
    BY <2>1, PromiseReport DEF Reported
<1>6. CASE Receive
  BY <1>6, PromiseStutter DEF Receive, Discard, ReceiveResponse, ControllingRequest,
     ControlledRequest, receiveUnchanged, credentialVars, choiceVars, ConnectedAgents
<1>7. CASE UNCHANGED vars
  BY <1>7, PromiseStutter DEF vars, credentialVars, choiceVars, ConnectedAgents
<1>8. QED
  BY <1>1, <1>2, <1>3, <1>4, <1>5, <1>6, <1>7 DEF Next

(* Calm agents do, step by step, what IceAgreement promises: they nominate *)
(* once in a session, select nothing but what has been nominated in it,    *)
(* keep to it until they are restarted, whatever becomes of packets, and   *)
(* report a connection only while they have one.                           *)
THEOREM ImplementsAgreement ==
    ASSUME Tame
    PROVE  Spec => KeepsPromise
<1>1. Init => Promise!Init
  BY DEF Init, Promise!Init, Promise!Agents, Promise!Nothing, Agents, UsedLinks, NominatedLinks,
         ConnectedAgents, Link, Reversed, NoPair
<1>2. Init => IceInv /\ ChoosesOnce
  BY IceInit, ChoosesInit
<1>3. IceInv /\ ChoosesOnce /\ [Next]_vars => IceInv' /\ ChoosesOnce'
  BY IceStep, ChoosesStep
<1>4. IceInv /\ ChoosesOnce /\ [Next]_vars
      => [world.mode # "races" => Promise!Next \/ UNCHANGED Promise!vars]_vars
  BY PromiseStep DEF Calm
<1>5. QED
  BY <1>1, <1>2, <1>3, <1>4, PTL DEF Spec, KeepsPromise
=============================================================================
