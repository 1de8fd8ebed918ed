------------------------------- MODULE MCMonit -------------------------------
(* Monit on small instances: the services are interchangeable.  A behaviour *)
(* has start requests and many events of the host, or reports and few.      *)
EXTENDS Monit, TLC

CONSTANT EventsWithReports

VARIABLE scene

ServiceSymmetry == Permutations(Services)

SceneInit == Init /\ scene \in {"starts", "reports"}

SceneNext ==
  /\ Next
  /\ UNCHANGED scene
  /\ scene = "starts" => UNCHANGED reader
  /\ scene = "reports" => /\ events' >= MaxEvents - EventsWithReports
                          /\ \A t \in Starters : thread'[t] = thread[t]
=============================================================================
