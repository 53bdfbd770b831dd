------------------------------- MODULE Shutdown -------------------------------
(***************************************************************************)
(* src/shutdown.c: announcing and asking for a shutdown or a reboot, the   *)
(* table of shutdown callbacks, and the opening of Appendix S; together    *)
(* with the functions of Messages and Capability, in the same threads.     *)
(*                                                                         *)
(* g_callback_count is shared without a lock, so the compiler may read it  *)
(* again or use the value a thread has read before: each use of it may see *)
(* either.  What an access outside g_callbacks does depends on what the    *)
(* linker put there: nothing that matters here, g_callback_count changes,  *)
(* or the process ends.  Nothing in the repository calls the callbacks.    *)
(*                                                                         *)
(* External: check_capability, which has no body here, and the kernel's    *)
(* decision.                                                               *)
(***************************************************************************)
EXTENDS Capability, FiniteSets

CONSTANTS
  Callbacks,
  MaxCallbacks, \* 32 in the code
  Garbage,      \* what a store outside g_callbacks makes of the count
  Lengths       \* of the messages callers pass

NoCallback == "no callback"

ASSUME ShutdownAssumption ==
  /\ NoCallback \notin Callbacks
  /\ MaxCallbacks \in Nat \ {0}
  /\ Garbage \subseteq Int
  /\ Lengths \subseteq Nat

VARIABLES
  ask,     \* what each thread asks for: kind, length of the text, and whether its
           \* announcement is the last that got through, was overtaken, or did not
  heard,   \* the last announcement the other processes got
  machine, \* "up", or how the kernel was told to go down
  waited,  \* PowerOffer got a WAIT
  unsure,  \* a begin_save could not set the flag, or its notice was lost
  table, count, \* g_callbacks, g_callback_count
  want, seen, at, \* of a thread that registers: callback, count it read, loop index
  kept,    \* callbacks registered by calls that overlapped no other
  raced,   \* two registrations overlapped
  overrun  \* a callback was stored outside the table

power == <<ask, heard, machine>>
saving == <<waited, unsure>>
callbacks == <<table, count, want, seen, at, kept, raced, overrun>>
vars == <<threads, protection, tokens, power, saving, callbacks>>

Kinds  == {"shutdown", "reboot"}
Notice == [kind : Kinds, text : 0 .. 255]
Ask    == [kind : Kinds, text : 0 .. 255, announced : {"no", "last", "overtaken"}]
Up     == [kind |-> "up", text |-> 0]
Slots  == 0 .. MaxCallbacks - 1

TypeOK ==
  /\ MessagesTypeOK
  /\ CapabilityTypeOK
  /\ ask \in [Threads -> Ask]
  /\ heard \in Notice \cup {Up}
  /\ machine \in Notice \cup {Up}
  /\ waited \in BOOLEAN /\ unsure \in BOOLEAN
  /\ table \in [Slots -> Callbacks \cup {NoCallback}]
  /\ count \in Int
  /\ want \in [Threads -> Callbacks \cup {NoCallback}]
  /\ seen \in [Threads -> Int]
  /\ at \in [Threads -> Nat]
  /\ kept \subseteq Callbacks
  /\ raced \in BOOLEAN /\ overrun \in BOOLEAN

NoAsk == [kind |-> "shutdown", text |-> 0, announced |-> "no"]

Init ==
  /\ MessagesInit
  /\ CapabilityInit
  /\ ask = [t \in Threads |-> NoAsk]
  /\ heard = Up
  /\ machine = Up
  /\ waited = FALSE
  /\ unsure = FALSE
  /\ table = [i \in Slots |-> NoCallback]
  /\ count = 0
  /\ want = [t \in Threads |-> NoCallback]
  /\ seen = [t \in Threads |-> 0]
  /\ at = [t \in Threads |-> 0]
  /\ kept = {}
  /\ raced = FALSE
  /\ overrun = FALSE

------------------------------------------------------------------------------
(* shutdown_system, reboot_system. *)

KindOf(f) == IF f = "shutdown_system" THEN "shutdown" ELSE "reboot"

(* The text in msg_buf[256]: cut to 255 bytes, 18 when none was given.     *)
Text_NoRoom(n) == IF n = 0 THEN 18 ELSE IF n > 256 THEN 256 ELSE n

Text(n) == IF n = 0 THEN 18 ELSE IF n > 255 THEN 255 ELSE n

(* The bytes in front of it: "SHUTDOWN:reason=0:message=".                 *)
Prefix(kind) == IF kind = "shutdown" THEN 26 ELSE 24

FirstStep_Decide(nowait) == "decide"

FirstStep(nowait) == IF nowait THEN "decide" ELSE "announce"

(* What the call hands to ipc_broadcast_msg, and what that sends of it. *)
Payload(a) == Prefix(a.kind) + a.text

Announcement(a) ==
  [kind |-> a.kind, text |-> Sent(Payload(a)) - Prefix(a.kind)]

Overtaken(a) ==
  [a EXCEPT !.announced = IF @ = "last" THEN "overtaken" ELSE @]

(* check_capability says yes. *)
Power(t) ==
  /\ \E f \in Powering, nowait \in BOOLEAN, n \in Lengths :
       /\ Enter(t, f, FirstStep(nowait))
       /\ ask' = [ask EXCEPT ![t] = [kind |-> KindOf(f), text |-> Text(n),
                                     announced |-> "no"]]
  /\ UNCHANGED <<heard, machine, protection, tokens, saving, callbacks>>

(* It says no. *)
PowerDenied(t) ==
  /\ \E f \in Powering : Reject(t, f)
  /\ UNCHANGED <<protection, tokens, power, saving, callbacks>>

Announce(t) ==
  /\ pc[t] = "announce"
  /\ \E arrives \in BOOLEAN :
       /\ ask' = IF ~arrives THEN ask
                  ELSE [u \in Threads |-> IF u = t THEN [ask[t] EXCEPT !.announced = "last"]
                                         ELSE Overtaken(ask[u])]
       /\ heard' = AfterBroadcast(arrives, Announcement(ask[t]), heard)
  /\ Goto(t, "decide")
  /\ UNCHANGED <<machine, protection, tokens, saving, callbacks>>

(* SYS_SHUTDOWN or SYS_REBOOT; the kernel refuses, or starts to go down.   *)
Decide(t) ==
  /\ pc[t] = "decide"
  /\ machine' \in {machine} \cup
       (IF machine = Up THEN {[kind |-> ask[t].kind, text |-> ask[t].text]} ELSE {})
  /\ ask' = [ask EXCEPT ![t] = NoAsk]
  /\ Leave(t)
  /\ UNCHANGED <<heard, protection, tokens, saving, callbacks>>

------------------------------------------------------------------------------
(* appendix_s_begin_save: the flag, whatever comes of it, then WAIT to the *)
(* pid that PowerOffer is taken to have.                                   *)
BeginStep_Wait == "wait"

BeginStep == "flag"

BeginSave(t) ==
  /\ Enter(t, "appendix_s_begin_save", BeginStep)
  /\ UNCHANGED <<protection, tokens, power, saving, callbacks>>

SendWait(t) ==
  /\ pc[t] = "wait"
  /\ waited' \in {waited, TRUE}
  /\ Leave(t)
  /\ UNCHANGED <<unsure, protection, tokens, power, callbacks>>

(* The steps of Messages, and what a begin_save among them makes of it.    *)
FlagStep(t) ==
  /\ Protect(t) \/ SetFlag(t) \/ Notify(t)
  /\ unsure' = (unsure \/ (fn[t] = "appendix_s_begin_save"
                           /\ \/ pc[t] = "flag" /\ pc'[t] = "wait"
                              \/ pc[t] = "notice" /\ believed' = "none"))
  /\ UNCHANGED <<waited, tokens, power, callbacks>>

------------------------------------------------------------------------------
(* register_shutdown_callback. *)

Full_OneLate(n) == n > MaxCallbacks

Full(n) == n >= MaxCallbacks

Reads(t) == {seen[t], count}

(* The variables of a thread that returns are gone. *)
Return(t) ==
  /\ want' = [want EXCEPT ![t] = NoCallback]
  /\ seen' = [seen EXCEPT ![t] = 0]
  /\ at' = [at EXCEPT ![t] = 0]
  /\ Leave(t)

(* The static count, read for the first time. *)
Register(t, cb) ==
  /\ ~Full(count)
  /\ Enter(t, "register_shutdown_callback", "scan")
  /\ want' = [want EXCEPT ![t] = cb]
  /\ seen' = [seen EXCEPT ![t] = count]
  /\ at' = [at EXCEPT ![t] = 0]
  /\ raced' = (raced \/ ~alone'[t])
  /\ UNCHANGED <<table, count, kept, overrun, protection, tokens, power, saving>>

(* The table is full, or there is no callback. *)
RegisterRefused(t) ==
  /\ Reject(t, "register_shutdown_callback")
  /\ UNCHANGED <<protection, tokens, power, saving, callbacks>>

(* What the comparison of a slot with the callback may yield. *)
Compared(t) ==
  IF at[t] \in Slots THEN {table[at[t]] = want[t]} ELSE BOOLEAN

(* One round of the search for the callback. *)
Scan(t) ==
  /\ pc[t] = "scan"
  /\ \E n \in Reads(t) :
       \/ /\ at[t] < n
          /\ TRUE \in Compared(t)
          /\ Return(t)
       \/ /\ at[t] < n
          /\ FALSE \in Compared(t)
          /\ at' = [at EXCEPT ![t] = @ + 1]
          /\ seen' = [seen EXCEPT ![t] = n]
          /\ Goto(t, "scan")
          /\ UNCHANGED want
       \/ /\ at[t] >= n
          /\ seen' = [seen EXCEPT ![t] = n]
          /\ Goto(t, "store")
          /\ UNCHANGED <<want, at>>
  /\ UNCHANGED <<table, count, kept, raced, overrun, protection, tokens, power, saving>>

(* A store outside the table.  Only the first one changes the count here,  *)
(* which bounds it: CallbacksKept claims little from then on.              *)
CountAfterStray == {count} \cup (IF overrun THEN {} ELSE Garbage)

Store(t) ==
  /\ pc[t] = "store"
  /\ \E n \in Reads(t) :
       /\ seen' = [seen EXCEPT ![t] = n]
       /\ \/ /\ n \in Slots
             /\ table' = [table EXCEPT ![n] = want[t]]
             /\ UNCHANGED <<count, overrun>>
          \/ /\ n \notin Slots
             /\ count' \in CountAfterStray
             /\ overrun' = TRUE
             /\ UNCHANGED table
  /\ Goto(t, "count")
  /\ UNCHANGED <<want, at, kept, raced, protection, tokens, power, saving>>

(* Outside the table a read or a store may also end the process. *)
Stray(t) ==
  /\ \/ pc[t] = "scan" /\ at[t] \notin Slots /\ \E n \in Reads(t) : at[t] < n
     \/ pc[t] = "store" /\ \E n \in Reads(t) : n \notin Slots
  /\ Crash
  /\ UNCHANGED <<protection, tokens, power, saving, callbacks>>

Count(t) ==
  /\ pc[t] = "count"
  /\ \E n \in Reads(t) : count' = n + 1
  /\ kept' = IF alone[t] THEN kept \cup {want[t]} ELSE kept
  /\ Return(t)
  /\ UNCHANGED <<table, raced, overrun, protection, tokens, power, saving>>

------------------------------------------------------------------------------
TokenStep(t) == CapabilityStep(t) /\ UNCHANGED <<protection, power, saving, callbacks>>

Clock == Tick /\ UNCHANGED <<protection, power, saving, callbacks>>

Step(t) ==
  \/ FlagStep(t) \/ TokenStep(t)
  \/ Power(t) \/ PowerDenied(t) \/ Announce(t) \/ Decide(t)
  \/ BeginSave(t) \/ SendWait(t)
  \/ \E cb \in Callbacks : Register(t, cb)
  \/ RegisterRefused(t) \/ Scan(t) \/ Store(t) \/ Stray(t) \/ Count(t)

(* Nothing happens in a process that has ended. *)
Ended == crashed /\ UNCHANGED vars

Next == (\E t \in Threads : Step(t)) \/ Clock \/ Ended

Spec == Init /\ [][Next]_vars

------------------------------------------------------------------------------
(* PowerOffer has heard that the process must not be killed when it gets   *)
(* its WAIT; it may not have only if that begin_save, which ignores both   *)
(* results, could not set the flag or lost the notice                      *)
(* (src/src/shutdown.c:97-104).                                            *)
WaitAfterNotice == waited /\ ~unsure => believed # "none"

(* The machine goes down the way the processes heard it: when it goes down *)
(* on a call whose announcement got through and was not overtaken by       *)
(* another thread's, the last thing the others heard is what the kernel    *)
(* does, with the whole text it got, if that has at most 230 bytes (232    *)
(* for a reboot).  Nothing is said of a longer text, which is cut, nor of  *)
(* two threads whose announcements and system calls come in different      *)
(* orders (src/src/shutdown.c:31-47, 56-71, src/src/ipc.c:55).             *)
AsAnnounced ==
  \A t \in Threads :
    /\ pc[t] = "decide" /\ pc'[t] = "idle"
    /\ machine' # machine
    /\ ask[t].announced = "last"
    => /\ heard.kind = machine'.kind
       /\ LET whole == IF machine'.kind = "shutdown" THEN 230 ELSE 232
          IN  machine'.text <= whole => heard.text = machine'.text

AnnouncedIsDone == [][AsAnnounced]_vars

(* A payload longer than a message holds is refused, and no process hears  *)
(* any of it: "ECLIB_IPC_BUFFER_OVERFLOW: data_len exceeds max payload     *)
(* size" (src/include/eclib/ipc_message.h:80).  ipc_broadcast_msg cuts it  *)
(* instead (src/src/ipc.c:55).                                             *)
OversizeIsRefused ==
  [][\A t \in Threads :
       pc[t] = "announce" /\ pc'[t] = "decide" /\ Payload(ask[t]) > MaxPayload
       => heard' = heard]_vars

(* A callback whose registration overlapped no other stays in the table,   *)
(* in front of g_callback_count, whatever threads that race later          *)
(* overwrite, until one of them stores behind the table; only threads that *)
(* race can do that; and as long as no two registrations overlapped at     *)
(* all, no callback is in the table twice (src/src/shutdown.c:75-90).      *)
CallbacksKept ==
  /\ ~overrun => \A cb \in kept : \E i \in Slots : i < count /\ table[i] = cb
  /\ overrun => raced
  /\ ~raced => /\ count <= MaxCallbacks
               /\ \A i, j \in 0 .. count - 1 : table[i] = table[j] => i = j
==============================================================================
