------------------------------ MODULE MCClients ------------------------------
(***************************************************************************)
(* What a client's requests meet, on small instances: the routing index,    *)
(* the callbacks of the proxy, the challenge, the domain-keyed state and    *)
(* the WAF.  The parts share no variable, so a behaviour is one of one part *)
(* while the others stay as they started.  The run checks safety only; the  *)
(* two hosts, journeys, visits and threads are interchangeable, and since   *)
(* one part moves at a time the same two model values stand for all of them. *)
(***************************************************************************)
EXTENDS HotReload, RequestPath, Challenge, ScopedStore, WafInspection, TLC

CONSTANTS c1, c2, s1, s2, d1, d2, i1, i2, x1, x2

VARIABLE part

Symmetric == Permutations({x1, x2}) \cup Permutations({i1, i2}) \cup Permutations({d1, d2})

\* two clients, each on a site of its own
MCSiteOf == c1 :> s1 @@ c2 :> s2

\* a second challenge is of the next level
MCLadder == <<1, 2>>

\* one profile detects what the body carries and masks leaks, one refuses it and
\* detects leaks, one has a rule off, challenges and refuses what is too large;
\* the body's units are rule 2's match and Bad, the answer's are leaks
MCScore == <<1, 2>>
MCProfiles ==
    {[gates |-> <<"Enforce", "Detect">>, response |-> "Enforce",
      over_cap |-> "InspectPrefix", on_exhausted |-> "Allow"],
     [gates |-> <<"Challenge", "Enforce">>, response |-> "Detect",
      over_cap |-> "InspectPrefix", on_exhausted |-> "Block"],
     [gates |-> <<"Skip", "Challenge">>, response |-> "Skip",
      over_cap |-> "Reject", on_exhausted |-> "Allow"]}

clientsVars == <<part, routeVars, pathVars, challengeVars, vars, wafVars>>

ClientsInit ==
    /\ part \in {"route", "path", "challenge", "store", "waf"}
    /\ RouteInit /\ PathInit /\ ChallengeInit /\ Init /\ WafInit
    /\ part # "route" => /\ given = [n \in Names |-> [hosts |-> {}, weight |-> 1, valid |-> TRUE]]
                        /\ stored = [n \in Names |-> Absent]
    /\ part # "path" => configs = <<[policy |-> None, bound |-> FALSE]>>
    /\ part # "waf" => profile = CHOOSE p \in Profiles : TRUE

InRoute(A) ==
    part = "route" /\ A /\ UNCHANGED <<part, pathVars, challengeVars, vars, wafVars>>
InPath(A) ==
    part = "path" /\ A /\ UNCHANGED <<part, routeVars, challengeVars, vars, wafVars>>
InChallenge(A) ==
    part = "challenge" /\ A /\ UNCHANGED <<part, routeVars, pathVars, vars, wafVars>>
InStore(A) ==
    part = "store" /\ A /\ UNCHANGED <<part, routeVars, pathVars, challengeVars, wafVars>>
InWaf(A) ==
    part = "waf" /\ A /\ UNCHANGED <<part, routeVars, pathVars, challengeVars, vars>>

ClientsNext ==
    \/ InRoute(RouteNext)
    \/ InPath(PathNext)
    \/ InChallenge(ChallengeNext)
    \/ InStore(Next)
    \/ InWaf(WafNext)

ClientsSpec == ClientsInit /\ [][ClientsNext]_clientsVars
=============================================================================
