-------------------------- MODULE MCAgentRequests --------------------------
(* Instances of what the requests of the director do to a host: to services *)
(* (as MCMonit), to jobs and packages, to disks, and to guests' accounts.   *)
(* The four share no state: a behaviour is one of one of them, and the      *)
(* others rest in one initial state.                                        *)
EXTENDS MCMonit, ApplyPlan, HostSetup, AgentSsh

(* What the director asks to apply: one job; a second job with a package of *)
(* a new version; nothing to configure; another deployment without a job.   *)

MCSpec(name, is, js, ps, props) ==
  [deployment |-> name, configured |-> is, jobs |-> js, packages |-> ps, properties |-> props]

MCSpecs ==
  {MCSpec("d", TRUE, <<<<"a", 1>>>>, <<<<"p", 1>>>>, "x1"),
   MCSpec("d", TRUE, <<<<"a", 1>>, <<"b", 1>>>>, <<<<"p", 2>>>>, "x2"),
   MCSpec("d", FALSE, <<>>, <<>>, "x3"),
   MCSpec("e", TRUE, <<>>, <<<<"p", 1>>>>, "x4")}

\* It depends on the package in its second version only.
MCCompiles == {[package |-> <<"q", 1>>, dependencies |-> <<<<"p", 2>>>>]}

(* Ssh: two setups and a cleanup of one user beside a cleanup of another. *)

MCUserOf == [r \in {"a1", "a2", "c1", "c2"} |-> IF r = "c2" THEN "u2" ELSE "u1"]

-----------------------------------------------------------------------------

VARIABLE part

monitVars == <<vars, scene>>
requestVars == <<part, monitVars, applyVars, setupVars, sshVars>>

RequestInit ==
  /\ part \in {"monit", "apply", "host", "ssh"}
  /\ SceneInit /\ ApplyInit /\ SetupInit /\ SshInit
  /\ part # "monit" => scene = "starts" /\ described = {} /\ real = [s \in Services |-> "absent"]
  /\ part # "host" => attached = {}
  /\ part # "ssh" => sshd = "stopped" /\ admins = {}

\* The director asks for no more than these requests of ssh.
SshRequestsOver == (\A r \in SshRequests : step[r] = "over") /\ UNCHANGED sshVars

OfMonit(A) == part = "monit" /\ A /\ UNCHANGED <<part, applyVars, setupVars, sshVars>>
OfApply(A) == part = "apply" /\ A /\ UNCHANGED <<part, monitVars, setupVars, sshVars>>
OfHost(A) == part = "host" /\ A /\ UNCHANGED <<part, monitVars, applyVars, sshVars>>
OfSsh(A) == part = "ssh" /\ A /\ UNCHANGED <<part, monitVars, applyVars, setupVars>>

RequestNext ==
  OfMonit(SceneNext) \/ OfApply(ApplyNext) \/ OfHost(SetupNext) \/ OfSsh(SshNext \/ SshRequestsOver)

RequestSpec == RequestInit /\ [][RequestNext]_requestVars
=============================================================================
