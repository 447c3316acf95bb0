------------------------ MODULE MCAgentProvisioning ------------------------
(***************************************************************************)
(* Instances of AgentProvisioning for TLC.                                 *)
(***************************************************************************)
EXTENDS AgentProvisioning, TLC

CONSTANTS r1, r2, r3, p1, p2, a1, k1, k2

\* One project with an agent of its own; r3 comes from a container with a new
\* key, r2 was started by hand with --skip.
OneProject == r1 :> p1 @@ r2 :> p1 @@ r3 :> p1
OneAgent   == r1 :> a1 @@ r2 :> a1 @@ r3 :> a1
TwoKeys    == r1 :> k1 @@ r2 :> k1 @@ r3 :> k2
SecondSkips == {r2}

\* Two runs only, of one project or of two that share the agent.
NoneSkips       == {}
TwoRunsProjects == r1 :> p1 @@ r2 :> p2
TwoRunsProject  == r1 :> p1 @@ r2 :> p1
TwoRunsAgent    == r1 :> a1 @@ r2 :> a1
TwoRunsKeys     == r1 :> k1 @@ r2 :> k2
TwoRunsKey      == r1 :> k1 @@ r2 :> k1

=============================================================================
