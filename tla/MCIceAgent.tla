----------------------------- MODULE MCIceAgent -----------------------------
(* Values for the constants of IceAgent.                                   *)
EXTENDS IceAgent

(* Two addresses against one: two pairs to agree on. The second one of the *)
(* controlling agent is not told, so it is met as a peer-reflexive one.    *)
TwoAddrs == [a \in Agents |-> IF a = "controlling" THEN {"c1", "c2"} ELSE {"s1"}]

Both(x, y) == {<<x, y>>, <<y, x>>}
Full == Both("c1", "s1") \cup Both("c2", "s1")
OneWay == Both("c1", "s1") \cup {<<"c2", "s1">>}

Surrounded(mode, paths, trickle, ends, restarts) ==
    [mode |-> mode, paths |-> paths, trickle |-> trickle, ends |-> ends,
     restarts |-> restarts]

AgreeWorlds ==
    {Surrounded("patient", paths, TRUE, FALSE, 0) : paths \in {Full, OneWay}}
    \cup {Surrounded("calm", Full, TRUE, FALSE, 0),
          Surrounded("calm", OneWay, FALSE, TRUE, 0),
          Surrounded("calm", OneWay, FALSE, FALSE, 1),
          Surrounded("races", Full, FALSE, FALSE, 0)}

(* Each of these has one to three million states.                          *)
RestartWorlds == {Surrounded("calm", Full, FALSE, FALSE, 1)}
RaceWorlds == {Surrounded("races", Full, FALSE, TRUE, 0)}
=============================================================================
