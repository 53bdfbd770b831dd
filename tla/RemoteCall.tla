----------------------------- MODULE RemoteCall ------------------------------
(***************************************************************************)
(* What a caller of ECLib may rely on when a function of the library is    *)
(* carried out by another process.  A call takes effect at most once.      *)
(* Success is reported after the effect; a refusal is final: there was no  *)
(* effect and there never will be one.  When the outcome is unknown the    *)
(* effect may have happened, may happen later, or not at all.  The promise *)
(* about success ends where a call goes astray: another process took it    *)
(* for something else, and it has no effect of its own then.               *)
(***************************************************************************)
CONSTANT Calls

VARIABLES
  outcome, \* what each call has told its caller so far
  effects, \* the calls that took effect
  astray   \* the calls a process they were not for has acted on

vars == <<outcome, effects, astray>>

Outcomes == {"pending", "success", "refused", "unknown"}

TypeOK ==
  /\ outcome \in [Calls -> Outcomes]
  /\ effects \subseteq Calls
  /\ astray \subseteq Calls

Init ==
  /\ outcome = [k \in Calls |-> "pending"]
  /\ effects = {}
  /\ astray = {}

Open(k) == outcome[k] \in {"pending", "unknown"} /\ k \notin effects \cup astray

TakeEffect(k) ==
  /\ Open(k)
  /\ effects' = effects \cup {k}
  /\ UNCHANGED <<outcome, astray>>

GoAstray(k) ==
  /\ Open(k)
  /\ astray' = astray \cup {k}
  /\ UNCHANGED <<outcome, effects>>

Report(k, result) ==
  /\ outcome[k] = "pending"
  /\ result = "success" => k \in effects \cup astray
  /\ result = "refused" => k \notin effects
  /\ outcome' = [outcome EXCEPT ![k] = result]
  /\ UNCHANGED <<effects, astray>>

Next ==
  \E k \in Calls :
    \/ TakeEffect(k)
    \/ GoAstray(k)
    \/ \E result \in Outcomes \ {"pending"} : Report(k, result)

Spec == Init /\ [][Next]_vars
==============================================================================
