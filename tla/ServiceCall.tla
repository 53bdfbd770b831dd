----------------------------- MODULE ServiceCall -----------------------------
(***************************************************************************)
(* Client processes calling the stubs of ECLib while services come and go. *)
(*                                                                         *)
(* A stub runs in three steps between which anything may happen: it asks   *)
(* PID 1 for the service's pid (eclib_service_lookup), sends the request   *)
(* to that pid, and waits for the answer or the timeout (ipc_call_sync).   *)
(* Stubs.tla says in what the stubs differ.                                *)
(*                                                                         *)
(* External, as src/ uses them: the kernel that carries requests to a pid  *)
(* and answers back to the call that waits for them, the services, and the *)
(* registry, whose listing goes stale when a service dies unannounced.     *)
(***************************************************************************)
EXTENDS Stubs, FiniteSets

CONSTANTS
  Clients,  \* the calling processes
  Services, \* the names of services there may be
  Pids,     \* process ids of services; the kernel gives them out again
  Used,     \* the stubs the clients call
  NoStub,   \* a client outside the library
  MaxCalls  \* bound: calls each client makes

NoPid == 0

ASSUME ServiceCallAssumption ==
  /\ NoPid \notin Pids
  /\ Used \subseteq AllStubs
  /\ NoStub \notin AllStubs
  /\ MaxCalls \in Nat

VARIABLES
  instance, \* the pid each service runs under
  listed,   \* the pid PID 1 gives for each service
  pc,       \* where each client is in a stub
  stub,     \* the stub it is in
  target,   \* the pid the lookup returned
  calls,    \* the number of stubs it has called
  lastErr,  \* what eclib_get_last_err would return to it
  answer,   \* the answer that waits for it
  inflight, \* requests no service has taken yet
  executed, \* requests some service has acted on
  done      \* what each finished call told its caller

system == <<instance, listed>>
vars == <<instance, listed, pc, stub, target, calls, lastErr, answer,
          inflight, executed, done>>

Steps    == {"idle", "lookup", "send", "wait"}
Statuses == {"ok", "error"}
Errors   == {"OK", "INVALID_PARAMETER", "CANNOT_FIND_MODULE", "TIMEOUT",
             "SERVICE_UNAVAIL", "SERVER"}
Numbers  == 1 .. MaxCalls

Request == [client : Clients, n : Numbers, pid : Pids, stub : Used]
Effect  == [client : Clients, n : Numbers, service : {s.service : s \in Used},
            as : Services, status : Statuses]
Result  == [client : Clients, n : Numbers, stub : Used, ok : BOOLEAN,
            err : Errors, fresh : BOOLEAN]

TypeOK ==
  /\ instance \in [Services -> Pids \cup {NoPid}]
  /\ listed \in [Services -> Pids \cup {NoPid}]
  /\ pc \in [Clients -> Steps]
  /\ stub \in [Clients -> Used \cup {NoStub}]
  /\ target \in [Clients -> Pids \cup {NoPid}]
  /\ calls \in [Clients -> 0 .. MaxCalls]
  /\ lastErr \in [Clients -> Errors]
  /\ answer \in [Clients -> Statuses \cup {"none"}]
  /\ inflight \subseteq Request
  /\ executed \subseteq Effect
  /\ done \subseteq Result
  /\ \A c \in Clients : pc[c] # "idle" => stub[c] \in Used /\ calls[c] \in Numbers
  /\ \A c \in Clients : pc[c] = "send" => target[c] \in Pids

Init ==
  /\ instance = [s \in Services |-> NoPid]
  /\ listed = [s \in Services |-> NoPid]
  /\ pc = [c \in Clients |-> "idle"]
  /\ stub = [c \in Clients |-> NoStub]
  /\ target = [c \in Clients |-> NoPid]
  /\ calls = [c \in Clients |-> 0]
  /\ lastErr = [c \in Clients |-> "OK"]
  /\ answer = [c \in Clients |-> "none"]
  /\ inflight = {}
  /\ executed = {}
  /\ done = {}

------------------------------------------------------------------------------
(* A stub returns.  A code of "kept" leaves the last error as it was.      *)
Return(c, s, n, ok, code) ==
  /\ pc' = [pc EXCEPT ![c] = "idle"]
  /\ stub' = [stub EXCEPT ![c] = NoStub]
  /\ target' = [target EXCEPT ![c] = NoPid]
  /\ answer' = [answer EXCEPT ![c] = "none"]
  /\ lastErr' = [lastErr EXCEPT ![c] = IF code = "kept" THEN @ ELSE code]
  /\ done' = done \cup {[client |-> c, n |-> n, stub |-> s, ok |-> ok,
                         err |-> IF code = "kept" THEN lastErr[c] ELSE code,
                         fresh |-> code # "kept"]}

(* Good arguments: the stub goes on to the lookup.                         *)
Enter(c, s) ==
  /\ pc[c] = "idle"
  /\ calls[c] < MaxCalls
  /\ calls' = [calls EXCEPT ![c] = @ + 1]
  /\ pc' = [pc EXCEPT ![c] = "lookup"]
  /\ stub' = [stub EXCEPT ![c] = s]
  /\ UNCHANGED <<system, target, lastErr, answer, inflight, executed, done>>

(* Bad arguments, in a stub that checks them: it returns at once.          *)
Reject(c, s) ==
  /\ pc[c] = "idle"
  /\ calls[c] < MaxCalls
  /\ s.checks
  /\ calls' = [calls EXCEPT ![c] = @ + 1]
  /\ Return(c, s, calls[c] + 1, FALSE, "INVALID_PARAMETER")
  /\ UNCHANGED <<system, inflight, executed>>

Usable_Any(pid) == TRUE

Usable(pid) == pid # NoPid

(* eclib_service_lookup returns a pid. *)
LookupFinds(c) ==
  /\ pc[c] = "lookup"
  /\ stub[c].service \in Services
  /\ Usable(listed[stub[c].service])
  /\ target' = [target EXCEPT ![c] = listed[stub[c].service]]
  /\ pc' = [pc EXCEPT ![c] = "send"]
  /\ UNCHANGED <<system, stub, calls, lastErr, answer, inflight, executed, done>>

NotListed(name) == name \in Services => listed[name] = NoPid

(* What eclib_service_lookup stores when it returns 0: the error of its    *)
(* own call to PID 1, the error PID 1 answered with, or, when PID 1        *)
(* answers "no error, pid 0" for a name it does not list, nothing.         *)
LookupError(c) ==
  {"TIMEOUT", "SERVICE_UNAVAIL", "SERVER"}
  \cup (IF NotListed(stub[c].service) THEN {"kept"} ELSE {})

LookupFails(c) ==
  /\ pc[c] = "lookup"
  /\ \E code \in LookupError(c) :
       Return(c, stub[c], calls[c], FALSE,
              IF stub[c].absent = "module" THEN "CANNOT_FIND_MODULE" ELSE code)
  /\ UNCHANGED <<system, calls, inflight, executed>>

Send(c) ==
  /\ pc[c] = "send"
  /\ \E s \in Services : instance[s] = target[c]
  /\ inflight' = inflight \cup {[client |-> c, n |-> calls[c], pid |-> target[c],
                                 stub |-> stub[c]]}
  /\ pc' = [pc EXCEPT ![c] = "wait"]
  /\ UNCHANGED <<system, stub, target, calls, lastErr, answer, executed, done>>

(* ipc_call_sync failed: what the stub stores. *)
CallError_Merged(c, err) == IF stub[c].stores THEN "SERVICE_UNAVAIL" ELSE "kept"

CallError(c, err) == IF stub[c].stores THEN err ELSE "kept"

SendFails(c) ==
  /\ pc[c] = "send"
  /\ \A s \in Services : instance[s] # target[c]
  /\ Return(c, stub[c], calls[c], FALSE, CallError(c, "SERVICE_UNAVAIL"))
  /\ UNCHANGED <<system, calls, inflight, executed>>

Timeout_WhileQueued(c) ==
  /\ pc[c] = "wait"
  /\ answer[c] = "none"
  /\ \E r \in inflight : r.client = c /\ r.n = calls[c]
  /\ Return(c, stub[c], calls[c], FALSE, CallError(c, "TIMEOUT"))
  /\ UNCHANGED <<system, calls, inflight, executed>>

Timeout(c) ==
  /\ pc[c] = "wait"
  /\ answer[c] = "none"
  /\ Return(c, stub[c], calls[c], FALSE, CallError(c, "TIMEOUT"))
  /\ UNCHANGED <<system, calls, inflight, executed>>

Verdicts_StatusUnread(s, status) == {TRUE}

(* The results a stub may report for an answer with that status.           *)
Verdicts(s, status) ==
  CASE s.reply = "none"    -> {TRUE}
    [] s.reply = "ignored" -> IF status = "ok" THEN {TRUE} ELSE BOOLEAN
    [] OTHER               -> {status = "ok"}

AnswerError_NotStored(s, status) == "kept"

AnswerError(s, status) ==
  IF s.reply = "checked" /\ status = "error" THEN "SERVER" ELSE "kept"

Receive(c) ==
  /\ pc[c] = "wait"
  /\ answer[c] # "none"
  /\ \E ok \in Verdicts(stub[c], answer[c]) :
       Return(c, stub[c], calls[c], ok, AnswerError(stub[c], answer[c]))
  /\ UNCHANGED <<system, calls, inflight, executed>>

------------------------------------------------------------------------------
(* External: services, the kernel and PID 1.                               *)

Awaited(r) == pc[r.client] = "wait" /\ calls[r.client] = r.n

(* The process that has the pid now takes a request.  It acts on any code  *)
(* it knows, whoever the request was meant for, and answers an error to    *)
(* the others.  If it is not the service the request was for, its answer   *)
(* is laid out for another stub, and the status the client reads there may *)
(* be anything.  The answer is lost if nobody waits for it any more, or if *)
(* the service dies before it sends it.                                    *)
Serve(r, s) ==
  /\ instance[s] = r.pid
  /\ inflight' = inflight \ {r}
  /\ \E status, seen \in Statuses, sent \in BOOLEAN :
       /\ IF r.stub.code \in CodesOf(s)
            THEN /\ executed' = executed \cup
                      {[client |-> r.client, n |-> r.n, service |-> r.stub.service,
                        as |-> s, status |-> status]}
                 /\ s = r.stub.service => seen = status
            ELSE seen = "error" /\ UNCHANGED executed
       /\ answer' = IF sent /\ Awaited(r)
                      THEN [answer EXCEPT ![r.client] = seen]
                      ELSE answer
  /\ UNCHANGED <<system, pc, stub, target, calls, lastErr, done>>

Start(s, p) ==
  /\ instance[s] = NoPid
  /\ \A t \in Services : instance[t] # p
  /\ instance' = [instance EXCEPT ![s] = p]
  /\ UNCHANGED <<listed, pc, stub, target, calls, lastErr, answer, inflight,
                 executed, done>>

Crash(s) ==
  /\ instance[s] # NoPid
  /\ instance' = [instance EXCEPT ![s] = NoPid]
  /\ inflight' = {r \in inflight : r.pid # instance[s]}
  /\ UNCHANGED <<listed, pc, stub, target, calls, lastErr, answer, executed, done>>

(* A service registers or unregisters with PID 1 under its own name.       *)
ChangeListing(s, pid) ==
  /\ instance[s] # NoPid
  /\ listed' = [listed EXCEPT ![s] = pid]
  /\ UNCHANGED <<instance, pc, stub, target, calls, lastErr, answer, inflight,
                 executed, done>>

ClientStep(c) ==
  \/ \E s \in Used : Enter(c, s)
  \/ \E s \in Used : Reject(c, s)
  \/ LookupFinds(c)
  \/ LookupFails(c)
  \/ Send(c)
  \/ SendFails(c)
  \/ Timeout(c)
  \/ Receive(c)

Environment ==
  \/ \E r \in inflight, s \in Services : Serve(r, s)
  \/ \E s \in Services, p \in Pids : Start(s, p)
  \/ \E s \in Services : Crash(s)
  \/ \E s \in Services : ChangeListing(s, instance[s])
  \/ \E s \in Services : ChangeListing(s, NoPid)

Next == (\E c \in Clients : ClientStep(c)) \/ Environment

Spec == Init /\ [][Next]_vars

(* A client inside a stub keeps running, and the kernel ends every wait at *)
(* its timeout; nothing is asked of services or of PID 1.                  *)
Fairness ==
  \A c \in Clients :
    WF_vars(LookupFinds(c) \/ LookupFails(c) \/ Send(c) \/ SendFails(c)
            \/ Timeout(c) \/ Receive(c))

FairSpec == Spec /\ Fairness

------------------------------------------------------------------------------
(* The stubs whose result is decided by the status in the answer. *)
Judges(s) == s.reply \in {"checked", "quiet", "verbatim"}

(* The service that the call was for carried it out. *)
Took(c, n) ==
  \E e \in executed :
    e.client = c /\ e.n = n /\ e.as = e.service /\ e.status = "ok"

(* Another service took the request for one of its own. *)
Astray(c, n) ==
  \E e \in executed : e.client = c /\ e.n = n /\ e.as # e.service

(* A failure that tells the caller that nothing happened: it stored an     *)
(* error, and not the one of an expired wait.                              *)
Final(d) == ~d.ok /\ d.fresh /\ d.err # "TIMEOUT"

(* What a stub tells its caller is true, whatever crashed, restarted or    *)
(* arrived late: after a success the service that was asked carried the    *)
(* request out, unless another service, under the pid that was looked up,  *)
(* took it for a request of its own; and after a failure with a code other *)
(* than a timeout the service that was asked has not carried it out and    *)
(* the request is not on its way to any service any more, so that the      *)
(* caller may try again.                                                   *)
ResultsAreTrue ==
  \A d \in done :
    /\ d.ok /\ Judges(d.stub) => Took(d.client, d.n) \/ Astray(d.client, d.n)
    /\ Final(d) =>
         /\ ~Took(d.client, d.n)
         /\ \A r \in inflight : ~(r.client = d.client /\ r.n = d.n)

(* A pid that was looked up may belong to another service when the request *)
(* gets there.  That service acts on it only if the two use the same       *)
(* command codes, as men.c:17 does with process.c:11, and filesystem.c:11  *)
(* with rui.h; no other pair of services can be confused.                  *)
ServedByItsOwn ==
  \A e \in executed :
    e.as # e.service =>
      {e.as, e.service} \in {{"memory_manager", "process_service"},
                             {"file_service", "rui_service"}}

(* A failing function of file.h or men.h leaves an error code of its own,  *)
(* never success and never the code of some earlier call (file.h:109).     *)
FailureHasCode ==
  \A d \in done :
    ~d.ok /\ d.stub.service \in {"file_control", "memory_manager"}
      => d.fresh /\ d.err # "OK"

(* Every call returns, whatever happens to the service and to PID 1.       *)
Returns == \A c \in Clients : pc[c] # "idle" ~> pc[c] = "idle"

(* What the caller of a finished call knows. *)
Knows(d) ==
  IF d.ok THEN IF Judges(d.stub) THEN "success" ELSE "unknown"
  ELSE IF Final(d) THEN "refused" ELSE "unknown"

OutcomeOf(k) ==
  IF \E d \in done : <<d.client, d.n>> = k
    THEN Knows(CHOOSE d \in done : <<d.client, d.n>> = k)
    ELSE "pending"

Remote == INSTANCE RemoteCall WITH
  Calls   <- Clients \X Numbers,
  outcome <- [k \in Clients \X Numbers |-> OutcomeOf(k)],
  effects <- {k \in Clients \X Numbers : Took(k[1], k[2])},
  astray  <- {k \in Clients \X Numbers : Astray(k[1], k[2])}

(* Step by step the library keeps the promise of RemoteCall, with services *)
(* that share their command codes and take over each other's pids.         *)
ImplementsRemoteCall == Remote!Spec
==============================================================================
