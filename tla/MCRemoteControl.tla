-------------------------- MODULE MCRemoteControl --------------------------
(* Instances of RemoteControl for TLC. *)
EXTENDS RemoteControl, TLC

CONSTANTS r1, r2, v1, x1, x2, f1, f2

(* The kinds that write the same things are explored together. *)
FourMixes == {{"start"}, {"change", "message"}, {"edit"},
              {"discover", "stop", "get", "reset", "unlock"}}
=============================================================================
