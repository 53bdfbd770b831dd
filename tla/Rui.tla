---------------------------------- MODULE Rui ----------------------------------
(***************************************************************************)
(* The RUI client, src/rui/rui.c.  It looks the service up once and keeps  *)
(* the pid in the static g_rui_pid, which the threads of the process share *)
(* without a lock; so every read or write of it is a step of its own.  The *)
(* service may crash and come back under another pid, and another process  *)
(* may get the old one.                                                    *)
(*                                                                         *)
(* A call of the service is one step here; what happens while it waits is  *)
(* the subject of ServiceCall.                                             *)
(***************************************************************************)
EXTENDS Integers

CONSTANTS
  Threads,
  Pids  \* process ids, given out again by the kernel

NoPid  == 0
NoCall == -1

ASSUME RuiAssumption == NoPid \notin Pids /\ NoCall \notin Pids

VARIABLES
  g_rui_pid,
  home,    \* who runs under each pid
  listed,  \* the pid PID 1 gives for "rui_service"
  pc, fn,  \* where each thread is, and in which function
  found,   \* what eclib_service_lookup returned to it
  last,    \* its last call: the pid it sent to, who was there, and the result
  failed,  \* whether a lookup has ever failed
  crashed  \* whether the service has ever crashed

outside == <<home, listed, crashed>>
vars == <<g_rui_pid, home, listed, pc, fn, found, last, failed, crashed>>

Functions == {"init", "create_window", "draw_text", "wait_event"}
Steps == {"idle", "check", "init", "lookup", "store", "recheck", "params", "send", "recv"}

Errors == {"OK", "TIMEOUT", "SERVICE_UNAVAIL", "CANNOT_FIND_MODULE",
           "INVALID_PARAMETER", "BUFFER_OVERFLOW"}

(* pid is NoCall where it sent nothing; err is the code it returned, or    *)
(* the one eclib_rui_create_window stored before it returned 0.            *)
Outcome == [pid : Pids \cup {NoPid, NoCall}, to : {"none", "rui", "other"},
            ok : BOOLEAN, err : Errors]

TypeOK ==
  /\ g_rui_pid \in Pids \cup {NoPid}
  /\ home \in [Pids -> {"none", "rui", "other"}]
  /\ listed \in Pids \cup {NoPid}
  /\ pc \in [Threads -> Steps]
  /\ fn \in [Threads -> Functions]
  /\ found \in [Threads -> Pids \cup {NoPid}]
  /\ last \in [Threads -> Outcome]
  /\ failed \in BOOLEAN
  /\ crashed \in BOOLEAN

Init ==
  /\ g_rui_pid = NoPid
  /\ home = [p \in Pids |-> "none"]
  /\ listed = NoPid
  /\ pc = [t \in Threads |-> "idle"]
  /\ fn = [t \in Threads |-> "init"]
  /\ found = [t \in Threads |-> NoPid]
  /\ last = [t \in Threads |-> [pid |-> NoCall, to |-> "none", ok |-> TRUE, err |-> "OK"]]
  /\ failed = FALSE
  /\ crashed = FALSE

------------------------------------------------------------------------------
At(t, step) == pc[t] = step
Goto(t, step) == pc' = [pc EXCEPT ![t] = step]

Return(t, pid, to, ok, err) ==
  /\ Goto(t, "idle")
  /\ last' = [last EXCEPT ![t] = [pid |-> pid, to |-> to, ok |-> ok, err |-> err]]

Call(t, f) ==
  /\ At(t, "idle")
  /\ fn' = [fn EXCEPT ![t] = f]
  /\ Goto(t, IF f = "init" THEN "init" ELSE "check")
  /\ UNCHANGED <<g_rui_pid, found, last, failed, outside>>

InitNeeded_Never == FALSE

(* g_rui_pid == 0 *)
InitNeeded == g_rui_pid = NoPid

(* The test in front of every function but eclib_rui_init. *)
Check(t) ==
  /\ At(t, "check")
  /\ Goto(t, IF InitNeeded THEN "init" ELSE "params")
  /\ UNCHANGED <<g_rui_pid, fn, found, last, failed, outside>>

(* eclib_rui_init succeeds. *)
InitOk(t) ==
  IF fn[t] = "init" THEN Return(t, NoCall, "none", TRUE, "OK")
  ELSE Goto(t, "params") /\ UNCHANGED last

AlreadyInitialised(t) ==
  /\ At(t, "init")
  /\ g_rui_pid # NoPid
  /\ InitOk(t)
  /\ UNCHANGED <<g_rui_pid, fn, found, failed, outside>>

StartLookup(t) ==
  /\ At(t, "init")
  /\ g_rui_pid = NoPid
  /\ Goto(t, "lookup")
  /\ UNCHANGED <<g_rui_pid, fn, found, last, failed, outside>>

NotFound_Code == NoCall

(* What eclib_service_lookup returns when it fails. *)
NotFound == NoPid

Lookup(t) ==
  /\ At(t, "lookup")
  /\ \/ listed # NoPid /\ found' = [found EXCEPT ![t] = listed] /\ UNCHANGED failed
     \/ found' = [found EXCEPT ![t] = NotFound] /\ failed' = TRUE
  /\ Goto(t, "store")
  /\ UNCHANGED <<g_rui_pid, fn, last, outside>>

Store(t) ==
  /\ At(t, "store")
  /\ g_rui_pid' = found[t]
  /\ Goto(t, "recheck")
  /\ UNCHANGED <<fn, found, last, failed, outside>>

(* The variable is read again, or the value just stored is used: a data    *)
(* race leaves the compiler both.                                          *)
Recheck(t) ==
  /\ At(t, "recheck")
  /\ \E seen \in {g_rui_pid, found[t]} :
       \/ seen # NoPid /\ InitOk(t)
       \/ seen = NoPid /\ Return(t, NoCall, "none", FALSE, "CANNOT_FIND_MODULE")
  /\ UNCHANGED <<g_rui_pid, fn, found, failed, outside>>

Params(t) ==
  /\ At(t, "params")
  /\ \/ Return(t, NoCall, "none", FALSE, "INVALID_PARAMETER")
     \/ Goto(t, IF fn[t] = "wait_event" THEN "recv" ELSE "send") /\ UNCHANGED last
  /\ UNCHANGED <<g_rui_pid, fn, found, failed, outside>>

Target == IF g_rui_pid = NoPid THEN "none" ELSE home[g_rui_pid]

(* External: what ipc_call_sync returns, and the status in the answer.     *)
(* "other" may answer anything: the file service knows the same commands.  *)
CallResults(to) ==
  IF to = "none" THEN {<<"SERVICE_UNAVAIL", "none">>}
  ELSE {<<"TIMEOUT", "none">>, <<"OK", "OK">>, <<"OK", "SERVER">>}

Send(t) ==
  /\ At(t, "send")
  /\ \E r \in CallResults(Target) :
       Return(t, g_rui_pid, Target,
              IF fn[t] = "create_window" THEN r = <<"OK", "OK">> ELSE r[1] = "OK",
              r[1])
  /\ UNCHANGED <<g_rui_pid, fn, found, failed, outside>>

(* eclib_rui_wait_event: an event, or one and the same code for no event   *)
(* in time, for no service, and for a message of another size.             *)
Receive(t) ==
  /\ At(t, "recv")
  /\ \/ Return(t, NoCall, "none", TRUE, "OK")
     \/ Return(t, NoCall, "none", FALSE, "BUFFER_OVERFLOW")
  /\ UNCHANGED <<g_rui_pid, fn, found, failed, outside>>

------------------------------------------------------------------------------
(* External: processes and PID 1. *)
inside == <<g_rui_pid, pc, fn, found, last, failed>>

Move(p, from, to) ==
  /\ home[p] = from
  /\ home' = [home EXCEPT ![p] = to]

RuiStarts(p) ==
  /\ \A q \in Pids : home[q] # "rui"
  /\ Move(p, "none", "rui")
  /\ UNCHANGED <<listed, crashed, inside>>

RuiCrashes(p) ==
  /\ Move(p, "rui", "none")
  /\ crashed' = TRUE
  /\ UNCHANGED <<listed, inside>>

OtherStarts(p) == Move(p, "none", "other") /\ UNCHANGED <<listed, crashed, inside>>
OtherEnds(p)   == Move(p, "other", "none") /\ UNCHANGED <<listed, crashed, inside>>

RuiRegisters(p) ==
  /\ home[p] = "rui"
  /\ listed' = p
  /\ UNCHANGED <<home, crashed, inside>>

Step(t) ==
  \/ \E f \in Functions : Call(t, f)
  \/ Check(t)
  \/ AlreadyInitialised(t)
  \/ StartLookup(t)
  \/ Lookup(t)
  \/ Store(t)
  \/ Recheck(t)
  \/ Params(t)
  \/ Send(t)
  \/ Receive(t)

Environment ==
  \E p \in Pids :
    RuiStarts(p) \/ RuiCrashes(p) \/ OtherStarts(p) \/ OtherEnds(p) \/ RuiRegisters(p)

Next == (\E t \in Threads : Step(t)) \/ Environment

Spec == Init /\ [][Next]_vars

------------------------------------------------------------------------------
(* However the threads initialise at the same time (rui.c:21-28 takes no   *)
(* lock), a request misses the service for two reasons only: the service   *)
(* has crashed, or a failed lookup has put 0 back into g_rui_pid.  That    *)
(* two threads look it up is harmless.                                     *)
Undisturbed ==
  \A t \in Threads :
    last[t].pid # NoCall /\ last[t].to # "rui"
      => crashed \/ (last[t].pid = NoPid /\ failed)

(* copilot-instructions.md:38, "Always return meaningful error codes for   *)
(* failure scenarios".                                                     *)
FailureHasCode == \A t \in Threads : ~last[t].ok => last[t].err # "OK"
==============================================================================
