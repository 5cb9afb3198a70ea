------------------------------ MODULE MCTraffic ------------------------------
(* The two traffic samplers, which share nothing: a behaviour is one of the *)
(* WAN's or one of the LAN's, and the other sampler was never started.      *)
EXTENDS WanStats, LanStats

VARIABLE sampler  \* the one that runs

trafficVars == <<sampler, vars, lanStatVars>>

MCFlows == {<<"h1", "h2">>}

TrafficInit ==
  \/ sampler = "wan" /\ Init /\ LanStatsIdle
  \/ sampler = "lan" /\ WanIdle /\ LanStatsInit

TrafficNext ==
  /\ UNCHANGED sampler
  /\ \/ sampler = "wan" /\ Next /\ UNCHANGED lanStatVars
     \/ sampler = "lan" /\ LanStatsNext /\ UNCHANGED vars

TrafficSpec == TrafficInit /\ [][TrafficNext]_trafficVars /\ Fairness /\ LanStatsFairness

\* Every call is answered, by the WAN's sampler and by the LAN's, be it running or
\* stopped, and though a fetch, a dial or a dump fails.
EveryCallAnswered == CallAnswered /\ LanCallAnswered

\* When the calls end the sampler stops for good, and the LAN's gives back its socket.
EverySamplerStops == ComesToStop /\ LanComesToStop
=============================================================================
