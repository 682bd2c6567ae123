------------------------------ MODULE MCFleet ------------------------------
(* Starts of the agents, for TLC.                                          *)
EXTENDS Fleet

\* deploy/Procfile, and a vehicle that has to charge first.
Charged == [soc |-> 85, reserve |-> 20, energy |-> 30, tried |-> 0]
Low     == [soc |-> 40, reserve |-> 20, energy |-> 30, tried |-> 0]

\* deploy/Procfile; a depot that lacks what one update of pv brings; one that
\* is asked for less than it grants, and cannot give that; one that is full.
Free     == [current |-> 30, budget |-> 100, pv |-> 0, requested |-> 50]
Tight    == [current |-> 55, budget |-> 100, pv |-> 0, requested |-> 50]
Mistaken == [current |-> 70, budget |-> 100, pv |-> 0, requested |-> 20]
Full     == [current |-> 90, budget |-> 100, pv |-> 0, requested |-> 50]

MCVehicleStarts == {Charged, Low}
MCDepotStarts == {Free, Tight, Mistaken, Full}
MCGatings == {{}, Depots, Depots \cup {"vehicle"}}

\* The fleet as deployed: every agent that has a spec runs with it.
Deployed == {Depots \cup {"vehicle"}}

\* For two findings: power for one session; agents as in the sample of
\* deploy/README.md:50-71, a vehicle that must charge and depots without power.
OnlyFree == {Free}
OnlyFull == {Full}
OnlyLow == {Low}
Ungated == {{}}
=============================================================================
