---------------------------- MODULE MCServiceCall ----------------------------
(* ServiceCall with the names of the services and small sets of stubs.      *)
EXTENDS ServiceCall

CONSTANTS c1, p1, p2, none

OneClient == {c1}
OnePid    == {p1}
TwoPids   == {p1, p2}

AllServices == {s.service : s \in AllStubs} \cup {"rui_service"}

(* Two services that share their codes.                                     *)
TwoServices == {"memory_manager", "process_service"}
TwoStubs    == {Malloc, Waitpid}
==============================================================================
