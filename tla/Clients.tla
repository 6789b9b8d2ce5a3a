------------------------------ MODULE Clients -------------------------------
(***************************************************************************)
(* The parts of the library that use a solution through its methods, on    *)
(* one object: Clarke and Wright, load, and the cumulative loads, one call *)
(* after the other, each on what the one before has left.                  *)
(***************************************************************************)
EXTENDS ClarkeAndWright, CumulativeLoads, SolutionFile

CONSTANT MaxCalls   \* bound on the calls

VARIABLE calls

clientVars == <<vars, localVars, cumulativeVars, fileVars, calls>>

ClientsInit == CWInit /\ CumulativeInit /\ FileInit /\ calls = 0

\* No call runs.
Returned == phase \in {"idle", "done"} /\ reading = "idle" /\ current = DummyRoute

Called ==
  /\ Returned
  /\ calls < MaxCalls
  /\ calls' = calls + 1

CallClarkeAndWright ==
  /\ Called
  /\ Call
  /\ EditAround
  /\ loaded' = "none"
  /\ UNCHANGED <<opened, reading, rest, words, route>>

CallLoad ==
  /\ Called
  /\ \E f \in SolutionFiles : LoadStart(f)
  /\ EditAround
  /\ phase' = "idle"
  /\ UNCHANGED <<customer, pending>>

CallUpdate ==
  /\ Called
  /\ \E r \in Routes : UpdateStart(r)
  /\ UNCHANGED <<localVars, fileVars>>

RunClarkeAndWright ==
  /\ Build \/ Finish \/ \E s \in Savings : Merge(s)
  /\ EditAround
  /\ UNCHANGED <<fileVars, calls>>

RunLoad == Read /\ EditAround /\ UNCHANGED <<localVars, calls>>

RunUpdate == Update /\ UNCHANGED <<localVars, fileVars, calls>>

ClientsNext ==
  \/ CallClarkeAndWright \/ CallLoad \/ CallUpdate
  \/ RunClarkeAndWright \/ RunLoad \/ RunUpdate

\* The thread that made a call executes it.
ClientsSpec ==
  /\ ClientsInit
  /\ [][ClientsNext]_clientVars
  /\ WF_clientVars(RunClarkeAndWright) /\ WF_clientVars(RunLoad) /\ WF_clientVars(RunUpdate)

-----------------------------------------------------------------------------

\* Every call returns: no loop follows links that do not lead back to the depot,
\* no saving comes back to the list, no assert stops a call half way
\* (Solution_initializer.cpp:56-79, Solution_parsers.cpp:27-70, Solution.cpp:515-523).
CallsReturn == ~Returned ~> Returned
=============================================================================
