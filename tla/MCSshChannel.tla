---------------------------- MODULE MCSshChannel ----------------------------
(* An instance of SshChannel.  A behaviour has two forwarded channels, or   *)
(* one and requests, or one and EOFs.                                       *)
EXTENDS SshChannel

VARIABLE scene

SceneInit == Init /\ scene \in {"forwards", "requests", "eof"}

SceneNext ==
  /\ Next
  /\ UNCHANGED scene
  /\ scene # "forwards" => opens' <= 1
  /\ scene # "requests" => \A p \in Range(toServer') : p.type # "REQUEST"
  /\ scene # "eof" => \A no \in ChannelNos : ~peer'[no].sentEof

SceneSpec == SceneInit /\ [][SceneNext]_<<vars, scene>>
=============================================================================
