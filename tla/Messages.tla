------------------------------- MODULE Messages -------------------------------
(***************************************************************************)
(* The threads of one process inside src/ipc.c (and its twin               *)
(* src/ipc/ipc_message.c, which differs in names only): payloads, and the  *)
(* do-not-kill flag, which the kernel keeps and PowerOffer is told about.  *)
(* Capability and Shutdown add their functions to the same threads.        *)
(*                                                                         *)
(* Every system call is a step, for other threads may run in between.      *)
(* External: the kernel, which may refuse a call or lose a broadcast and   *)
(* delivers the messages of a process in the order they were sent.         *)
(***************************************************************************)
EXTENDS Integers

CONSTANTS
  Threads,  \* of the process
  Programs  \* sets of functions: the threads use those of one of them

VARIABLES
  program,  \* the functions the threads use
  fn,       \* the function each thread is in
  pc,       \* the step of it that comes next
  alone,    \* no other thread was in a function of its family since it entered
  crashed,  \* a thread used an address where nothing is mapped
  mode,     \* what the kernel's do-not-kill flag says about the process
  believed, \* what the notices sent so far tell PowerOffer about it
  blurred   \* the last notice was lost, or two calls that send one overlapped

threads  == <<program, fn, pc, alone, crashed>>
protection == <<mode, believed, blurred>>

Flagging == {"ipc_do_not_kill_sub", "ipc_do_not_kill_sub_emergency_ok",
             "appendix_s_begin_save"}
Powering == {"shutdown_system", "reboot_system"}
Owning   == {"acquire_capability", "release_capability",
             "send_token_to_virtual_port"}
Functions == Flagging \cup Powering \cup Owning \cup {"register_shutdown_callback"}

SameFamily(f, g) ==
  f = g \/ \E family \in {Flagging, Powering, Owning} : {f, g} \subseteq family

Inside(t) == fn[t] # "none"

Modes == {"none", "keep", "emergency"}
Steps == {"idle", "flag", "notice", "wait", "announce", "decide", "scan",
          "store", "count", "acquire", "own", "release", "wipe", "send"}

MessagesTypeOK ==
  /\ program \in Programs
  /\ fn \in [Threads -> Functions \cup {"none"}]
  /\ pc \in [Threads -> Steps]
  /\ alone \in [Threads -> BOOLEAN]
  /\ crashed \in BOOLEAN
  /\ mode \in Modes
  /\ believed \in Modes
  /\ blurred \in BOOLEAN

MessagesInit ==
  /\ program \in Programs
  /\ fn = [t \in Threads |-> "none"]
  /\ pc = [t \in Threads |-> "idle"]
  /\ alone = [t \in Threads |-> TRUE]
  /\ crashed = FALSE
  /\ mode = "none"
  /\ believed = "none"
  /\ blurred = FALSE

------------------------------------------------------------------------------
(* Threads. *)

May(t, f) == ~crashed /\ ~Inside(t) /\ f \in program /\ f \in Functions

Enter(t, f, step) ==
  /\ May(t, f)
  /\ fn' = [fn EXCEPT ![t] = f]
  /\ pc' = [pc EXCEPT ![t] = step]
  /\ alone' = [u \in Threads |->
                 IF u = t THEN \A v \in Threads : ~SameFamily(fn[v], f)
                 ELSE alone[u] /\ ~SameFamily(fn[u], f)]
  /\ UNCHANGED <<program, crashed>>

(* A call that returns before it changes anything. *)
Reject(t, f) == May(t, f) /\ UNCHANGED threads

Goto(t, step) ==
  /\ ~crashed
  /\ pc' = [pc EXCEPT ![t] = step]
  /\ UNCHANGED <<program, fn, alone, crashed>>

Leave(t) ==
  /\ ~crashed
  /\ fn' = [fn EXCEPT ![t] = "none"]
  /\ pc' = [pc EXCEPT ![t] = "idle"]
  /\ alone' = [alone EXCEPT ![t] = TRUE]
  /\ UNCHANGED <<program, crashed>>

(* The end of the process: no thread takes another step. *)
Crash ==
  /\ ~crashed
  /\ crashed' = TRUE
  /\ UNCHANGED <<program, fn, pc, alone>>

------------------------------------------------------------------------------
(* How much of a payload ipc_send_msg and ipc_broadcast_msg send. *)
MaxPayload == 256

Sent_OneLess(len) == IF len > MaxPayload - 1 THEN MaxPayload - 1 ELSE len

Sent(len) == IF len > MaxPayload THEN MaxPayload ELSE len

(* What the receivers know after ipc_broadcast_msg, whose result all       *)
(* callers ignore.                                                         *)
AfterBroadcast(arrives, new, old) == IF arrives THEN new ELSE old

(* The flag the function sets, and tells PowerOffer of. *)
Wanted(f) == IF f = "ipc_do_not_kill_sub_emergency_ok" THEN "emergency" ELSE "keep"

(* ipc_do_not_kill_sub and its variant return, to the caller or to         *)
(* appendix_s_begin_save.                                                  *)
Flagged(t) == IF fn[t] = "appendix_s_begin_save" THEN Goto(t, "wait") ELSE Leave(t)

Protect(t) ==
  /\ \E f \in Flagging \ {"appendix_s_begin_save"} : Enter(t, f, "flag")
  /\ UNCHANGED protection

(* Only a call that set the flag tells PowerOffer. *)
TellsAfter_Always(set) == TRUE

TellsAfter(set) == set

SetFlag(t) ==
  /\ pc[t] = "flag"
  /\ \E set \in BOOLEAN :
       /\ mode' = IF set THEN Wanted(fn[t]) ELSE mode
       /\ blurred' = (blurred \/ (set /\ ~alone[t]))
       /\ IF TellsAfter(set) THEN Goto(t, "notice") ELSE Flagged(t)
  /\ UNCHANGED believed

Notify(t) ==
  /\ pc[t] = "notice"
  /\ \E arrives \in BOOLEAN :
       /\ believed' = AfterBroadcast(arrives, Wanted(fn[t]), believed)
       /\ blurred' = (~arrives \/ ~alone[t])
  /\ Flagged(t)
  /\ UNCHANGED mode

------------------------------------------------------------------------------
(* Between calls PowerOffer is right about the process: it protects what   *)
(* the kernel protects, and in the same mode.  The exceptions are those a  *)
(* caller cannot see, for both return 0: the last notice was lost, or two  *)
(* threads changed the flag at once and their notices came in the other    *)
(* order (src/src/ipc.c:66-91).                                            *)
PowerOfferAgrees ==
  (~blurred /\ \A t \in Threads : pc[t] # "notice") => believed = mode
==============================================================================
