---------------------------- MODULE ShutdownProofs ----------------------------
(***************************************************************************)
(* Proofs about Shutdown, for any threads, tokens, callbacks and sizes.    *)
(*                                                                         *)
(* Each family of functions has its own variables and its own invariant.   *)
(* What they share are the threads, and a step of one family moves no      *)
(* thread that is inside another (Move).                                   *)
(***************************************************************************)
EXTENDS Shutdown, TLAPS

FlagSteps  == {"flag", "notice", "wait"}
PowerSteps == {"announce", "decide"}
TableSteps == {"scan", "store", "count"}
TokenSteps == {"acquire", "own", "release", "wipe", "send"}

Place(f, step) ==
  \/ f = "none" /\ step = "idle"
  \/ f \in Flagging /\ step \in {"flag", "notice"}
  \/ f = "appendix_s_begin_save" /\ step = "wait"
  \/ f \in Powering /\ step \in PowerSteps
  \/ f = "register_shutdown_callback" /\ step \in TableSteps
  \/ f = "acquire_capability" /\ step \in {"acquire", "own"}
  \/ f = "release_capability" /\ step \in {"release", "wipe"}
  \/ f = "send_token_to_virtual_port" /\ step = "send"

ThreadTypes ==
  /\ fn \in [Threads -> Functions \cup {"none"}]
  /\ pc \in [Threads -> Steps]
  /\ alone \in [Threads -> BOOLEAN]

(* A thread that is alone shares its family with no other.                 *)
ThreadInv ==
  /\ ThreadTypes
  /\ \A t \in Threads : Place(fn[t], pc[t])
  /\ \A t, u \in Threads : t # u /\ alone[t] => ~SameFamily(fn[t], fn[u]) \/ fn[t] = "none"

(* A step of thread t in the family with the steps S. *)
Move(t, S) ==
  /\ pc[t] \in S \cup {"idle"}
  /\ pc'[t] \in S \cup {"idle"}
  /\ \A u \in Threads \ {t} :
       /\ pc'[u] = pc[u] /\ fn'[u] = fn[u]
       /\ pc[u] \notin S => alone'[u] = alone[u]
       /\ alone'[u] => alone[u]

Frame(S) ==
  \A u \in Threads :
    pc[u] \in S \/ pc'[u] \in S =>
      pc'[u] = pc[u] /\ fn'[u] = fn[u] /\ alone'[u] = alone[u]

LEMMA Moved ==
  ASSUME NEW t \in Threads, NEW S, NEW R, Move(t, S), S \cap R = {}, "idle" \notin R
  PROVE  Frame(R)
  BY DEF Move, Frame

StepsOf(f) ==
  IF f \in Flagging THEN FlagSteps ELSE IF f \in Powering THEN PowerSteps
  ELSE IF f \in Owning THEN TokenSteps ELSE TableSteps

LEMMA Entered ==
  ASSUME ThreadInv, NEW t \in Threads, NEW f \in Functions, NEW step \in Steps,
         Place(f, step), Enter(t, f, step)
  PROVE  ThreadInv' /\ Move(t, StepsOf(f)) /\ fn'[t] = f /\ pc'[t] = step
         /\ fn[t] = "none" /\ pc[t] = "idle"
         /\ (alone'[t] => \A u \in Threads \ {t} : ~SameFamily(f, fn[u]))
<1>1. /\ fn' = [fn EXCEPT ![t] = f] /\ pc' = [pc EXCEPT ![t] = step]
      /\ fn[t] = "none" /\ Place(fn[t], pc[t])
      /\ alone' = [u \in Threads |->
                     IF u = t THEN \A v \in Threads : ~SameFamily(fn[v], f)
                     ELSE alone[u] /\ ~SameFamily(fn[u], f)]
  BY DEF Enter, May, Inside, ThreadInv
<1>2. ThreadTypes'
  <2>1. alone' \in [Threads -> BOOLEAN]
    <3>1. \A u \in Threads : (IF u = t THEN \A v \in Threads : ~SameFamily(fn[v], f)
                     ELSE alone[u] /\ ~SameFamily(fn[u], f)) \in BOOLEAN
      BY DEF ThreadInv, ThreadTypes
    <3> QED BY <1>1, <3>1
  <2> QED BY <1>1, <2>1 DEF ThreadInv, ThreadTypes
<1>3. fn[t] = "none" /\ pc[t] = "idle" /\ f # "none"
  BY <1>1 DEF Place, Functions, Flagging, Powering, Owning, FlagSteps, PowerSteps, TableSteps
<1>4. \A u \in Threads : Place(fn'[u], pc'[u])
  BY <1>1 DEF ThreadInv, ThreadTypes
<1>5. \A u \in Threads \ {t} : fn'[u] = fn[u] /\ pc'[u] = pc[u]
  BY <1>1 DEF ThreadInv, ThreadTypes
<1>6. fn'[t] = f /\ pc'[t] = step
  BY <1>1 DEF ThreadInv, ThreadTypes
<1>7. \A u \in Threads \ {t} : alone'[u] <=> alone[u] /\ ~SameFamily(fn[u], f)
  BY <1>1 DEF ThreadInv, ThreadTypes
<1>8. \A u, v : SameFamily(u, v) <=> SameFamily(v, u)
  BY DEF SameFamily
<1>9. alone'[t] => \A u \in Threads \ {t} : ~SameFamily(f, fn[u])
  BY <1>1, <1>8
<1>10. \A u, v \in Threads : u # v /\ alone'[u] => ~SameFamily(fn'[u], fn'[v]) \/ fn'[u] = "none"
  <2> SUFFICES ASSUME NEW u \in Threads, NEW v \in Threads, u # v, alone'[u]
               PROVE  ~SameFamily(fn'[u], fn'[v]) \/ fn'[u] = "none"
    OBVIOUS
  <2>1. CASE u = t BY <2>1, <1>5, <1>6, <1>9
  <2>2. CASE v = t BY <2>2, <1>5, <1>6, <1>7
  <2>3. CASE u # t /\ v # t BY <2>3, <1>5, <1>7 DEF ThreadInv
  <2> QED BY <2>1, <2>2, <2>3
<1>11. \A u \in Threads : pc[u] \notin StepsOf(f) => ~SameFamily(fn[u], f)
  <2> SUFFICES ASSUME NEW u \in Threads, SameFamily(fn[u], f) PROVE pc[u] \in StepsOf(f)
    OBVIOUS
  <2>1. Place(fn[u], pc[u]) BY DEF ThreadInv
  <2>2. f \in Flagging \/ f \in Powering \/ f \in Owning \/ f = "register_shutdown_callback"
    BY DEF Functions
  <2>3. CASE f \in Flagging
    <3>1. fn[u] \in Flagging BY <2>3 DEF SameFamily, Flagging, Powering, Owning
    <3> QED BY <2>1, <2>3, <3>1 DEF Place, StepsOf, Flagging, Powering, FlagSteps, PowerSteps, TableSteps
  <2>4. CASE f \in Powering
    <3>1. fn[u] \in Powering BY <2>4 DEF SameFamily, Flagging, Powering, Owning
    <3> QED BY <2>1, <2>4, <3>1 DEF Place, StepsOf, Flagging, Powering, FlagSteps, PowerSteps, TableSteps
  <2>5. CASE f \in Owning
    <3>1. fn[u] \in Owning BY <2>5 DEF SameFamily, Flagging, Powering, Owning
    <3> QED BY <2>1, <2>5, <3>1 DEF Place, StepsOf, Owning, Flagging, Powering, FlagSteps, PowerSteps, TableSteps, TokenSteps
  <2>6. CASE f = "register_shutdown_callback"
    <3>1. fn[u] = f BY <2>6 DEF SameFamily, Flagging, Powering, Owning
    <3> QED BY <2>1, <2>6, <3>1 DEF Place, StepsOf, Owning, Flagging, Powering, FlagSteps, PowerSteps, TableSteps, TokenSteps
  <2> QED BY <2>2, <2>3, <2>4, <2>5, <2>6
<1>12. step \in StepsOf(f) \cup {"idle"}
  BY DEF Place, StepsOf, Functions, Owning, Flagging, Powering, FlagSteps, PowerSteps, TableSteps, TokenSteps
<1>13. Move(t, StepsOf(f))
  <2>1. \A u \in Threads \ {t} : pc[u] \notin StepsOf(f) => alone'[u] = alone[u]
    BY <1>1, <1>11 DEF ThreadInv, ThreadTypes
  <2> QED BY <1>3, <1>5, <1>6, <1>7, <1>12, <2>1 DEF Move
<1> QED BY <1>2, <1>3, <1>4, <1>6, <1>9, <1>10, <1>13 DEF ThreadInv

LEMMA Went ==
  ASSUME ThreadInv, NEW t \in Threads, NEW step \in Steps, NEW S, pc[t] \in S,
         step \in S, Place(fn[t], step), Goto(t, step)
  PROVE  ThreadInv' /\ Move(t, S) /\ pc'[t] = step /\ fn' = fn /\ alone' = alone
<1>1. pc' = [pc EXCEPT ![t] = step] /\ fn' = fn /\ alone' = alone
  BY DEF Goto
<1>2. pc'[t] = step /\ \A u \in Threads \ {t} : pc'[u] = pc[u]
  BY <1>1 DEF ThreadInv, ThreadTypes
<1>3. ThreadTypes' BY <1>1 DEF ThreadInv, ThreadTypes
<1>4. ThreadInv' BY <1>1, <1>2, <1>3 DEF ThreadInv
<1> QED BY <1>1, <1>2, <1>4 DEF Move

LEMMA Left ==
  ASSUME ThreadInv, NEW t \in Threads, NEW S, pc[t] \in S, Leave(t)
  PROVE  ThreadInv' /\ Move(t, S) /\ pc'[t] = "idle" /\ fn'[t] = "none"
<1>1. pc' = [pc EXCEPT ![t] = "idle"] /\ fn' = [fn EXCEPT ![t] = "none"]
      /\ alone' = [alone EXCEPT ![t] = TRUE]
  BY DEF Leave
<1>2. pc'[t] = "idle" /\ fn'[t] = "none"
  BY <1>1 DEF ThreadInv, ThreadTypes
<1>3. \A u \in Threads \ {t} : pc'[u] = pc[u] /\ fn'[u] = fn[u] /\ alone'[u] = alone[u]
  BY <1>1 DEF ThreadInv, ThreadTypes
<1>4. ThreadTypes' BY <1>1 DEF ThreadInv, ThreadTypes, Steps
<1>5. \A u \in Threads : Place(fn'[u], pc'[u])
  BY <1>2, <1>3 DEF ThreadInv, Place
<1>6. \A u : u # "none" => ~SameFamily(u, "none")
  BY DEF SameFamily, Flagging, Powering, Owning
<1>7. \A u, v \in Threads : u # v /\ alone'[u] => ~SameFamily(fn'[u], fn'[v]) \/ fn'[u] = "none"
  BY <1>2, <1>3, <1>6 DEF ThreadInv
<1> QED BY <1>2, <1>3, <1>4, <1>5, <1>7 DEF ThreadInv, Move

LEMMA Stayed ==
  ASSUME ThreadInv, UNCHANGED threads \/ Crash
  PROVE  ThreadInv' /\ (\A S : Frame(S))
<1>1. fn' = fn /\ pc' = pc /\ alone' = alone BY DEF threads, Crash
<1> QED BY <1>1 DEF ThreadInv, ThreadTypes, Frame

------------------------------------------------------------------------------
(* Messages and Appendix S. *)

FlagInv ==
  /\ mode \in Modes /\ believed \in Modes
  /\ blurred \in BOOLEAN /\ waited \in BOOLEAN /\ unsure \in BOOLEAN
  /\ \A t \in Threads : pc[t] = "notice" /\ alone[t] => mode = Wanted(fn[t])
  /\ \A t \in Threads : pc[t] = "wait" /\ ~unsure => believed # "none"
  /\ PowerOfferAgrees
  /\ WaitAfterNotice

LEMMA FlagFramed ==
  ASSUME FlagInv, Frame(FlagSteps), UNCHANGED <<protection, saving>>
  PROVE  FlagInv'
<1>1. UNCHANGED <<mode, believed, blurred, waited, unsure>>
  BY DEF protection, saving
<1>2. \A t \in Threads : pc'[t] \in FlagSteps \/ pc[t] \in FlagSteps =>
        pc'[t] = pc[t] /\ fn'[t] = fn[t] /\ alone'[t] = alone[t]
  BY DEF Frame
<1>3. \A t \in Threads : pc'[t] = "notice" <=> pc[t] = "notice"
  BY <1>2 DEF FlagSteps
<1> QED BY <1>1, <1>2, <1>3 DEF FlagInv, PowerOfferAgrees, WaitAfterNotice, FlagSteps, Wanted

(* The threads in the steps of one family share that family. *)
LEMMA TogetherNotAlone ==
  ASSUME ThreadInv, NEW t \in Threads, NEW u \in Threads, t # u,
         \/ pc[t] \in FlagSteps /\ pc[u] \in FlagSteps
         \/ pc[t] \in PowerSteps /\ pc[u] \in PowerSteps
         \/ pc[t] \in TableSteps /\ pc[u] \in TableSteps
  PROVE  ~alone[t] /\ ~alone[u]
<1>1. Place(fn[t], pc[t]) /\ Place(fn[u], pc[u])
  BY DEF ThreadInv
<1>2. SameFamily(fn[t], fn[u]) /\ SameFamily(fn[u], fn[t])
  BY <1>1 DEF Place, SameFamily, Flagging, Powering, FlagSteps, PowerSteps, TableSteps
<1>3. fn[t] # "none" /\ fn[u] # "none"
  BY <1>1 DEF Place, Flagging, Powering, FlagSteps, PowerSteps, TableSteps
<1> QED BY <1>2, <1>3 DEF ThreadInv

LEMMA FlaggedMoves ==
  ASSUME ThreadInv, NEW t \in Threads, pc[t] \in {"flag", "notice"}, Flagged(t)
  PROVE  /\ ThreadInv' /\ Move(t, FlagSteps)
         /\ pc'[t] = IF fn[t] = "appendix_s_begin_save" THEN "wait" ELSE "idle"
<1>1. pc[t] \in FlagSteps BY DEF FlagSteps
<1>2. CASE fn[t] = "appendix_s_begin_save"
  <2>1. Goto(t, "wait") BY <1>2 DEF Flagged
  <2>2. Place(fn[t], "wait") /\ "wait" \in Steps /\ "wait" \in FlagSteps
    BY <1>2 DEF Place, Steps, FlagSteps
  <2> QED BY <1>1, <1>2, <2>1, <2>2, Went
<1>3. CASE fn[t] # "appendix_s_begin_save"
  BY <1>1, <1>3, Left DEF Flagged
<1> QED BY <1>2, <1>3

LEMMA FlagMoves ==
  ASSUME ThreadInv, FlagInv, NEW t \in Threads,
         FlagStep(t) \/ BeginSave(t) \/ SendWait(t)
  PROVE  ThreadInv' /\ FlagInv' /\ Move(t, FlagSteps)
<1>1. CASE BeginSave(t)
  <2>1. Enter(t, "appendix_s_begin_save", "flag") /\ UNCHANGED <<protection, saving>>
    BY <1>1 DEF BeginSave, BeginStep
  <2>2. /\ "appendix_s_begin_save" \in Functions /\ "flag" \in Steps
        /\ Place("appendix_s_begin_save", "flag")
        /\ StepsOf("appendix_s_begin_save") = FlagSteps
    BY DEF Functions, Flagging, Steps, Place, StepsOf
  <2>3. ThreadInv' /\ Move(t, FlagSteps) /\ pc'[t] = "flag" /\ pc[t] = "idle"
    BY <2>1, <2>2, Entered
  <2>4. UNCHANGED <<mode, believed, blurred, waited, unsure>>
    BY <2>1 DEF protection, saving
  <2>5. FlagInv'
    BY <2>3, <2>4 DEF Move, FlagInv, PowerOfferAgrees, WaitAfterNotice, Wanted
  <2> QED BY <2>3, <2>5
<1>2. CASE SendWait(t)
  <2>1. ThreadInv' /\ Move(t, FlagSteps) /\ pc'[t] = "idle" /\ pc[t] = "wait"
    BY <1>2, Left DEF SendWait, FlagSteps
  <2>2. UNCHANGED <<mode, believed, blurred, unsure>> /\ waited' \in {waited, TRUE}
    BY <1>2 DEF SendWait, protection
  <2>3. FlagInv'
    BY <2>1, <2>2 DEF Move, FlagInv, PowerOfferAgrees, WaitAfterNotice, Wanted
  <2> QED BY <2>1, <2>3
<1>3. CASE FlagStep(t) /\ Protect(t)
  <2>1. PICK f \in Flagging : f # "appendix_s_begin_save" /\ Enter(t, f, "flag")
    BY <1>3 DEF Protect
  <2>2. /\ f \in Functions /\ "flag" \in Steps
        /\ Place(f, "flag") /\ StepsOf(f) = FlagSteps
    BY DEF Functions, Steps, Place, StepsOf
  <2>3. ThreadInv' /\ Move(t, FlagSteps) /\ pc'[t] = "flag" /\ pc[t] = "idle"
        /\ fn[t] = "none"
    BY <2>1, <2>2, Entered
  <2>4. UNCHANGED <<mode, believed, blurred, waited, unsure>>
    BY <1>3, <2>3 DEF FlagStep, Protect, protection, FlagInv
  <2>5. FlagInv'
    BY <2>3, <2>4 DEF Move, FlagInv, PowerOfferAgrees, WaitAfterNotice, Wanted
  <2> QED BY <2>3, <2>5
<1>4. CASE FlagStep(t) /\ SetFlag(t)
  <2>1. pc[t] = "flag" /\ pc[t] \in FlagSteps /\ UNCHANGED <<believed, waited>>
    BY <1>4 DEF FlagStep, SetFlag, FlagSteps
  <2>2. PICK set \in BOOLEAN :
          /\ mode' = IF set THEN Wanted(fn[t]) ELSE mode
          /\ blurred' = (blurred \/ (set /\ ~alone[t]))
          /\ IF set THEN Goto(t, "notice") ELSE Flagged(t)
    BY <1>4 DEF SetFlag, TellsAfter
  <2>3. Place(fn[t], pc[t]) BY DEF ThreadInv
  <2>4. Wanted(fn[t]) \in Modes \ {"none"} BY DEF Wanted, Modes
  <2>5. unsure' = (unsure \/ (fn[t] = "appendix_s_begin_save" /\ pc'[t] = "wait"))
    BY <1>4, <2>1 DEF FlagStep
  <2>6. CASE set
    <3>1. Place(fn[t], "notice") BY <2>1, <2>3 DEF Place, PowerSteps, TableSteps
    <3>2. ThreadInv' /\ Move(t, FlagSteps) /\ pc'[t] = "notice" /\ fn' = fn /\ alone' = alone
      BY <2>1, <2>2, <2>6, <3>1, Went DEF Steps, FlagSteps
    <3>3. mode' = Wanted(fn[t]) /\ unsure' = unsure BY <2>2, <2>5, <2>6, <3>2 DEF FlagInv
    <3>4. \A u \in Threads \ {t} : pc'[u] = pc[u] /\ (pc[u] = "notice" => ~alone[u])
      BY <2>1, <3>2, TogetherNotAlone DEF Move, FlagSteps
    <3>5. \A u \in Threads : pc'[u] = "notice" /\ alone'[u] => mode' = Wanted(fn'[u])
      BY <3>2, <3>3, <3>4
    <3>6. PowerOfferAgrees' BY <3>2 DEF PowerOfferAgrees
    <3>7. FlagInv'
      BY <2>1, <2>2, <2>4, <3>2, <3>3, <3>4, <3>5, <3>6 DEF FlagInv, WaitAfterNotice
    <3> QED BY <3>2, <3>7
  <2>7. CASE ~set
    <3>1. ThreadInv' /\ Move(t, FlagSteps)
          /\ pc'[t] = IF fn[t] = "appendix_s_begin_save" THEN "wait" ELSE "idle"
      BY <2>1, <2>2, <2>7, FlaggedMoves
    <3>2. mode' = mode /\ blurred' = blurred BY <2>2, <2>7 DEF FlagInv
    <3>3. \A u \in Threads : pc'[u] = "notice" <=> pc[u] = "notice"
      BY <2>1, <3>1 DEF Move
    <3>4. FlagInv'
      BY <2>1, <2>5, <3>1, <3>2, <3>3 DEF Move, FlagInv, PowerOfferAgrees, WaitAfterNotice, Wanted
    <3> QED BY <3>1, <3>4
  <2> QED BY <2>6, <2>7
<1>5. CASE FlagStep(t) /\ Notify(t)
  <2>1. pc[t] = "notice" /\ pc[t] \in FlagSteps /\ UNCHANGED <<mode, waited>> /\ Flagged(t)
    BY <1>5 DEF FlagStep, Notify, FlagSteps
  <2>2. PICK arrives \in BOOLEAN :
          /\ believed' = IF arrives THEN Wanted(fn[t]) ELSE believed
          /\ blurred' = (~arrives \/ ~alone[t])
    BY <1>5 DEF Notify, AfterBroadcast
  <2>3. ThreadInv' /\ Move(t, FlagSteps)
        /\ pc'[t] = IF fn[t] = "appendix_s_begin_save" THEN "wait" ELSE "idle"
    BY <2>1, FlaggedMoves
  <2>4. Wanted(fn[t]) \in Modes \ {"none"} BY DEF Wanted, Modes
  <2>5. unsure' = (unsure \/ (fn[t] = "appendix_s_begin_save" /\ believed' = "none"))
    BY <1>5, <2>1 DEF FlagStep
  <2>6. PowerOfferAgrees' BY <2>1, <2>2 DEF PowerOfferAgrees, FlagInv
  <2>7. believed' # "none" \/ believed' = believed BY <2>2, <2>4
  <2>8. alone[t] \in BOOLEAN /\ blurred' \in BOOLEAN BY <2>2 DEF ThreadInv, ThreadTypes
  <2>9. FlagInv'
    BY <2>1, <2>2, <2>3, <2>4, <2>5, <2>6, <2>7, <2>8 DEF Move, FlagInv, WaitAfterNotice, Wanted
  <2> QED BY <2>3, <2>9
<1> QED BY <1>1, <1>2, <1>3, <1>4, <1>5 DEF FlagStep

------------------------------------------------------------------------------
(* Shutdown and reboot. *)

PowerInv ==
  /\ ask \in [Threads -> Ask]
  /\ heard \in Notice \cup {Up}
  /\ machine \in Notice \cup {Up}
  /\ \A t \in Threads : pc[t] # "decide" => ask[t].announced = "no"
  /\ \A t \in Threads : ask[t].announced = "last" => heard = Announcement(ask[t])

LEMMA TextFits ==
  ASSUME NEW n \in Nat
  PROVE  Text(n) \in 0 .. 255
  BY DEF Text

LEMMA AnnouncementType ==
  ASSUME NEW a \in Ask
  PROVE  /\ Announcement(a) \in Notice
         /\ Announcement(a).kind = a.kind
         /\ Announcement(a).text =
              LET whole == IF a.kind = "shutdown" THEN 230 ELSE 232
              IN  IF a.text > whole THEN whole ELSE a.text
<1>1. a.kind \in Kinds /\ a.text \in 0 .. 255 BY DEF Ask
<1>2. CASE a.kind = "shutdown"
  BY <1>1, <1>2 DEF Announcement, Payload, Sent, MaxPayload, Prefix, Notice, Kinds
<1>3. CASE a.kind # "shutdown"
  BY <1>1, <1>3 DEF Announcement, Payload, Sent, MaxPayload, Prefix, Notice, Kinds
<1> QED BY <1>2, <1>3

LEMMA PowerFramed ==
  ASSUME PowerInv, Frame(PowerSteps), UNCHANGED power
  PROVE  PowerInv'
<1>1. UNCHANGED <<ask, heard, machine>> BY DEF power
<1>2. \A t \in Threads : pc'[t] = "decide" <=> pc[t] = "decide"
  BY DEF Frame, PowerSteps
<1> QED BY <1>1, <1>2 DEF PowerInv, Announcement

(* What an announcement that gets through does to the requests.            *)
LEMMA AskedAgain ==
  ASSUME NEW a \in Ask
  PROVE  /\ [a EXCEPT !.announced = "last"] \in Ask
         /\ [a EXCEPT !.announced = "last"].announced = "last"
         /\ Announcement([a EXCEPT !.announced = "last"]) = Announcement(a)
         /\ Overtaken(a) \in Ask
         /\ Overtaken(a).announced # "last"
         /\ a.announced = "no" => Overtaken(a).announced = "no"
  BY DEF Ask, Overtaken, Announcement, Payload

LEMMA PowerMoves ==
  ASSUME ShutdownAssumption, ThreadInv, PowerInv, NEW t \in Threads,
         Power(t) \/ Announce(t) \/ Decide(t)
  PROVE  ThreadInv' /\ PowerInv' /\ Move(t, PowerSteps)
<1>1. CASE Power(t)
  <2>1. PICK f \in Powering, nowait \in BOOLEAN, n \in Lengths :
          /\ Enter(t, f, FirstStep(nowait))
          /\ ask' = [ask EXCEPT ![t] = [kind |-> KindOf(f), text |-> Text(n),
                                        announced |-> "no"]]
    BY <1>1 DEF Power
  <2>2. /\ f \in Functions /\ FirstStep(nowait) \in Steps
        /\ Place(f, FirstStep(nowait)) /\ StepsOf(f) = PowerSteps
    BY DEF Functions, FirstStep, Steps, Place, StepsOf, PowerSteps, Flagging, Powering
  <2>3. ThreadInv' /\ Move(t, PowerSteps)
    BY <2>1, <2>2, Entered
  <2>4. [kind |-> KindOf(f), text |-> Text(n), announced |-> "no"] \in Ask
    BY TextFits DEF Ask, KindOf, Kinds, ShutdownAssumption
  <2>5. ask' \in [Threads -> Ask] /\ ask'[t].announced = "no"
        /\ \A u \in Threads \ {t} : ask'[u] = ask[u]
    BY <2>1, <2>4 DEF PowerInv
  <2>6. UNCHANGED <<heard, machine>> BY <1>1 DEF Power
  <2>7. \A u \in Threads \ {t} : pc'[u] = pc[u]
    BY <2>3 DEF Move
  <2>8. PowerInv'
    BY <2>5, <2>6, <2>7 DEF PowerInv, Announcement
  <2> QED BY <2>3, <2>8
<1>2. CASE Announce(t)
  <2>1. pc[t] = "announce" /\ Goto(t, "decide") /\ machine' = machine
    BY <1>2 DEF Announce
  <2>2. PICK arrives \in BOOLEAN :
          /\ ask' = IF ~arrives THEN ask
                    ELSE [u \in Threads |-> IF u = t THEN [ask[t] EXCEPT !.announced = "last"]
                                           ELSE Overtaken(ask[u])]
          /\ heard' = IF arrives THEN Announcement(ask[t]) ELSE heard
    BY <1>2 DEF Announce, AfterBroadcast
  <2>3. Place(fn[t], "decide") /\ "decide" \in Steps /\ {pc[t], "decide"} \subseteq PowerSteps
    <3>1. Place(fn[t], pc[t]) BY DEF ThreadInv
    <3> QED BY <2>1, <3>1 DEF Place, Steps, PowerSteps, TableSteps
  <2>4. ThreadInv' /\ Move(t, PowerSteps) /\ pc'[t] = "decide"
    BY <2>1, <2>3, Went
  <2>5. \A u \in Threads : ask[u] \in Ask BY DEF PowerInv
  <2>6. \A u \in Threads \ {t} : pc'[u] = pc[u] BY <2>4 DEF Move
  <2>7. CASE ~arrives
    <3>1. ask' = ask /\ heard' = heard BY <2>2, <2>7
    <3> QED BY <2>1, <2>4, <2>6, <3>1 DEF PowerInv, Announcement
  <2>8. CASE arrives
    <3>1. /\ ask' = [u \in Threads |-> IF u = t THEN [ask[t] EXCEPT !.announced = "last"]
                                      ELSE Overtaken(ask[u])]
          /\ heard' = Announcement(ask[t])
      BY <2>2, <2>8
    <3>2. ask' \in [Threads -> Ask]
      BY <2>5, <3>1, AskedAgain
    <3>3. /\ ask'[t] = [ask[t] EXCEPT !.announced = "last"]
          /\ \A u \in Threads \ {t} : ask'[u] = Overtaken(ask[u])
      BY <3>1
    <3>4. heard' \in Notice BY <2>5, <3>1, AnnouncementType
    <3>5. heard' = Announcement(ask'[t])
      BY <2>5, <3>1, <3>3, AskedAgain
    <3>6. \A u \in Threads \ {t} :
            /\ ask'[u].announced # "last"
            /\ ask[u].announced = "no" => ask'[u].announced = "no"
      <4> SUFFICES ASSUME NEW u \in Threads \ {t}
                   PROVE  /\ ask'[u].announced # "last"
                          /\ ask[u].announced = "no" => ask'[u].announced = "no"
        OBVIOUS
      <4>1. ask'[u] = Overtaken(ask[u]) /\ ask[u] \in Ask BY <2>5, <3>3
      <4> QED BY <4>1, AskedAgain
    <3>7. \A u \in Threads : pc'[u] # "decide" => ask'[u].announced = "no"
      BY <2>4, <2>6, <3>6 DEF PowerInv
    <3>8. \A u \in Threads : ask'[u].announced = "last" => heard' = Announcement(ask'[u])
      BY <3>5, <3>6
    <3> QED BY <2>1, <2>4, <3>2, <3>4, <3>7, <3>8 DEF PowerInv, Announcement
  <2> QED BY <2>4, <2>7, <2>8
<1>3. CASE Decide(t)
  <2>1. ThreadInv' /\ Move(t, PowerSteps) /\ pc'[t] = "idle"
    BY <1>3, Left DEF Decide, PowerSteps
  <2>2. ask' = [ask EXCEPT ![t] = NoAsk] /\ heard' = heard
    BY <1>3 DEF Decide
  <2>3. NoAsk \in Ask /\ NoAsk.announced = "no" BY DEF NoAsk, Ask, Kinds
  <2>4. machine' \in Notice \cup {Up}
    <3>1. ask[t] \in Ask BY DEF PowerInv
    <3> QED BY <1>3, <3>1 DEF Decide, PowerInv, Notice, Ask
  <2>5. \A u \in Threads \ {t} : pc'[u] = pc[u]
    BY <2>1 DEF Move
  <2>6. PowerInv'
    BY <2>1, <2>2, <2>3, <2>4, <2>5 DEF PowerInv, Announcement
  <2> QED BY <2>1, <2>6
<1> QED BY <1>1, <1>2, <1>3

(* The step that AnnouncedIsDone speaks of. *)
LEMMA DecidedAsAnnounced ==
  ASSUME ThreadInv, PowerInv, NEW t \in Threads, Decide(t)
  PROVE  AsAnnounced
<1>1. \A u \in Threads \ {t} : pc'[u] = pc[u]
  BY Left DEF Decide, PowerSteps, Move
<1> SUFFICES ASSUME machine' # machine, ask[t].announced = "last"
             PROVE  /\ heard.kind = machine'.kind
                    /\ LET whole == IF machine'.kind = "shutdown" THEN 230 ELSE 232
                       IN  machine'.text <= whole => heard.text = machine'.text
  BY <1>1 DEF AsAnnounced
<1>2. machine' = [kind |-> ask[t].kind, text |-> ask[t].text]
  BY DEF Decide
<1>3. heard = Announcement(ask[t]) /\ ask[t] \in Ask
  BY DEF PowerInv
<1>4. ask[t].text \in Nat BY <1>3 DEF Ask
<1> QED BY <1>2, <1>3, <1>4, AnnouncementType

------------------------------------------------------------------------------
(* The table of callbacks. *)

Registering(t) == pc[t] \in TableSteps

TableTypes ==
  /\ table \in [Slots -> Callbacks \cup {NoCallback}]
  /\ count \in Int
  /\ want \in [Threads -> Callbacks \cup {NoCallback}]
  /\ seen \in [Threads -> Int]
  /\ at \in [Threads -> Nat]
  /\ kept \subseteq Callbacks
  /\ raced \in BOOLEAN /\ overrun \in BOOLEAN
  /\ \A t \in Threads : Registering(t) => want[t] \in Callbacks

(* Until a store falls outside the table, a kept callback stands in front  *)
(* of every count a thread may still use, and a thread that is alone works *)
(* with the true count.                                                    *)
KeptInv ==
  ~overrun =>
    /\ count >= 0
    /\ \A t \in Threads : seen[t] >= 0
    /\ \A cb \in kept : \E i \in Slots :
         i < count /\ table[i] = cb /\ \A t \in Threads : Registering(t) => i < seen[t]
    /\ \A t \in Threads : Registering(t) /\ alone[t] => seen[t] = count /\ count < MaxCallbacks
    /\ \A t \in Threads : pc[t] = "count" /\ alone[t] => table[count] = want[t]

(* While no two registrations ever overlapped. *)
UnracedInv ==
  ~raced =>
    /\ ~overrun
    /\ \A t \in Threads : Registering(t) => alone[t]
    /\ count <= MaxCallbacks
    /\ \A i, j \in 0 .. count - 1 : table[i] = table[j] => i = j
    /\ \A t \in Threads : pc[t] = "scan" =>
         at[t] <= count /\ \A j \in 0 .. at[t] - 1 : table[j] # want[t]
    /\ \A t \in Threads : pc[t] \in {"store", "count"} =>
         \A j \in 0 .. count - 1 : table[j] # want[t]

TableInv == TableTypes /\ KeptInv /\ UnracedInv

LEMMA TableFramed ==
  ASSUME TableInv, Frame(TableSteps), UNCHANGED callbacks
  PROVE  TableInv'
<1>1. UNCHANGED <<table, count, want, seen, at, kept, raced, overrun>> BY DEF callbacks
<1>2. \A t \in Threads : pc'[t] \in TableSteps \/ pc[t] \in TableSteps =>
        pc'[t] = pc[t] /\ alone'[t] = alone[t]
  BY DEF Frame
<1>3. TableTypes' BY <1>1, <1>2 DEF TableInv, TableTypes, Registering
<1>4. KeptInv' BY <1>1, <1>2 DEF TableInv, KeptInv, Registering, TableSteps
<1>5. UnracedInv' BY <1>1, <1>2 DEF TableInv, UnracedInv, Registering, TableSteps
<1> QED BY <1>3, <1>4, <1>5 DEF TableInv

LEMMA CanReturn ==
  ASSUME ThreadInv, TableTypes, NEW t \in Threads, Registering(t), Return(t)
  PROVE  /\ ThreadInv' /\ Move(t, TableSteps) /\ pc'[t] = "idle"
         /\ want' \in [Threads -> Callbacks \cup {NoCallback}]
         /\ seen' \in [Threads -> Int] /\ at' \in [Threads -> Nat] /\ seen'[t] = 0
         /\ \A u \in Threads \ {t} :
              want'[u] = want[u] /\ seen'[u] = seen[u] /\ at'[u] = at[u]
<1>1. ThreadInv' /\ Move(t, TableSteps) /\ pc'[t] = "idle"
  BY Left DEF Return, Registering
<1> QED BY <1>1 DEF Return, TableTypes

LEMMA RegisterMoves ==
  ASSUME ShutdownAssumption, ThreadInv, TableInv, NEW t \in Threads,
         NEW cb \in Callbacks, Register(t, cb)
  PROVE  ThreadInv' /\ TableInv' /\ Move(t, TableSteps)
<1> DEFINE f == "register_shutdown_callback"
<1>1. f \in Functions /\ "scan" \in Steps /\ Place(f, "scan") /\ StepsOf(f) = TableSteps
  BY DEF Functions, Steps, Place, StepsOf, TableSteps, Flagging, Powering, Owning
<1>2. Enter(t, f, "scan") BY DEF Register
<1>3. /\ ThreadInv' /\ Move(t, TableSteps) /\ pc'[t] = "scan" /\ fn'[t] = f
      /\ pc[t] = "idle"
  BY <1>1, <1>2, Entered
<1>4. /\ UNCHANGED <<table, count, kept, overrun>> /\ raced' = (raced \/ ~alone'[t])
      /\ want'[t] = cb /\ seen'[t] = count /\ at'[t] = 0
      /\ \A u \in Threads \ {t} :
           want'[u] = want[u] /\ seen'[u] = seen[u] /\ at'[u] = at[u]
      /\ count \in Int /\ count < MaxCallbacks
  BY DEF Register, TableInv, TableTypes, Full, ShutdownAssumption
<1>5. \A u \in Threads \ {t} : pc'[u] = pc[u] /\ (alone'[u] => alone[u])
  BY <1>3 DEF Move
<1>6. alone'[t] => \A u \in Threads \ {t} : ~Registering(u)
  <2> SUFFICES ASSUME alone'[t], NEW u \in Threads \ {t}, Registering(u) PROVE FALSE
    OBVIOUS
  <2>1. pc'[t] \in TableSteps /\ pc'[u] \in TableSteps
    BY <1>3, <1>5 DEF TableSteps, Registering
  <2>2. Place(fn'[t], pc'[t]) /\ Place(fn'[u], pc'[u]) BY <1>3 DEF ThreadInv
  <2>3. fn'[t] = f /\ fn'[u] = f
    BY <1>3, <2>1, <2>2 DEF Place, TableSteps, PowerSteps
  <2>4. SameFamily(fn'[t], fn'[u]) /\ fn'[t] # "none" BY <2>3 DEF SameFamily
  <2> QED BY <1>3, <2>4 DEF ThreadInv
<1>7. TableTypes'
  BY <1>3, <1>4, <1>5 DEF Register, TableInv, TableTypes, Registering, ThreadInv, ThreadTypes
<1>8. KeptInv'
  <2> SUFFICES ASSUME ~overrun PROVE KeptInv'
    BY <1>4 DEF KeptInv
  <2>1. \A c \in kept : \E i \in Slots :
          i < count /\ table[i] = c /\ \A u \in Threads : Registering(u)' => i < seen'[u]
    BY <1>4, <1>5 DEF TableInv, KeptInv, Registering
  <2>2. \A u \in Threads : Registering(u)' /\ alone'[u] => seen'[u] = count /\ count < MaxCallbacks
    BY <1>4, <1>5 DEF TableInv, KeptInv, Registering
  <2>3. \A u \in Threads : pc'[u] = "count" /\ alone'[u] => table[count] = want'[u]
    BY <1>3, <1>4, <1>5 DEF TableInv, KeptInv
  <2>4. count >= 0 /\ \A u \in Threads : seen'[u] >= 0
    BY <1>4 DEF TableInv, KeptInv
  <2> QED BY <1>4, <2>1, <2>2, <2>3, <2>4 DEF KeptInv
<1>9. UnracedInv'
  <2> SUFFICES ASSUME ~raced'
               PROVE  UnracedInv'
    BY DEF UnracedInv
  <2>1. ~raced /\ alone'[t] BY <1>4
  <2>2. \A u \in Threads \ {t} : ~Registering(u) BY <1>6, <2>1
  <2>3. \A u \in Threads : Registering(u)' => u = t BY <1>5, <2>2 DEF Registering
  <2>4. 0 <= count /\ ~overrun BY <1>4, <2>1 DEF UnracedInv, KeptInv, TableInv
  <2> QED BY <1>3, <1>4, <2>1, <2>3, <2>4 DEF UnracedInv, TableInv, Registering, TableSteps
<1> QED BY <1>3, <1>7, <1>8, <1>9 DEF TableInv

LEMMA ScanMoves ==
  ASSUME ShutdownAssumption, ThreadInv, TableInv, NEW t \in Threads, Scan(t)
  PROVE  ThreadInv' /\ TableInv' /\ Move(t, TableSteps)
<1>1. /\ pc[t] = "scan" /\ Registering(t) /\ seen[t] \in Int /\ count \in Int /\ at[t] \in Nat
      /\ UNCHANGED <<table, count, kept, raced, overrun>>
      /\ ~overrun /\ alone[t] => seen[t] = count /\ count < MaxCallbacks
      /\ want[t] \in Callbacks
  BY DEF Scan, Registering, TableSteps, TableInv, TableTypes, KeptInv
<1>2. PICK n \in Reads(t) :
       \/ /\ at[t] < n
          /\ TRUE \in Compared(t)
          /\ Return(t)
       \/ /\ at[t] < n
          /\ FALSE \in Compared(t)
          /\ at' = [at EXCEPT ![t] = @ + 1]
          /\ seen' = [seen EXCEPT ![t] = n]
          /\ Goto(t, "scan")
          /\ UNCHANGED want
       \/ /\ at[t] >= n
          /\ seen' = [seen EXCEPT ![t] = n]
          /\ Goto(t, "store")
          /\ UNCHANGED <<want, at>>
  BY DEF Scan
<1>3. n \in Int /\ n \in {seen[t], count} /\ (~overrun /\ alone[t] => n = count)
  BY <1>1, <1>2 DEF Reads
<1>4. CASE Return(t)
  <2>1. /\ ThreadInv' /\ Move(t, TableSteps) /\ pc'[t] = "idle"
        /\ want' \in [Threads -> Callbacks \cup {NoCallback}]
        /\ seen' \in [Threads -> Int] /\ at' \in [Threads -> Nat] /\ seen'[t] = 0
        /\ \A u \in Threads \ {t} :
             want'[u] = want[u] /\ seen'[u] = seen[u] /\ at'[u] = at[u]
    BY <1>1, <1>4, CanReturn DEF TableInv
  <2>2. \A u \in Threads : pc'[u] \in TableSteps =>
          u # t /\ pc'[u] = pc[u] /\ (alone'[u] => alone[u])
    BY <2>1 DEF Move, TableSteps
  <2>3. TableTypes' BY <1>1, <2>1, <2>2 DEF TableInv, TableTypes, Registering
  <2>4. KeptInv' BY <1>1, <2>1, <2>2 DEF TableInv, KeptInv, Registering, TableSteps
  <2>5. UnracedInv'
    <3>1. CASE raced BY <1>1, <3>1 DEF UnracedInv
    <3>2. CASE ~raced
      <4>1. \A u \in Threads : ~Registering(u)'
        BY <1>1, <2>2, <3>2, TogetherNotAlone DEF TableInv, UnracedInv, Registering
      <4> QED BY <1>1, <3>2, <4>1 DEF TableInv, UnracedInv, Registering, TableSteps
    <3> QED BY <3>1, <3>2
  <2> QED BY <2>1, <2>3, <2>4, <2>5 DEF TableInv
<1>5. CASE /\ at[t] < n
           /\ FALSE \in Compared(t)
           /\ at' = [at EXCEPT ![t] = @ + 1]
           /\ seen' = [seen EXCEPT ![t] = n]
           /\ Goto(t, "scan")
           /\ UNCHANGED want
  <2>1. /\ ThreadInv' /\ Move(t, TableSteps)
        /\ UNCHANGED <<pc, fn, alone, want>>
    <3>1. Place(fn[t], "scan") /\ "scan" \in Steps /\ "scan" \in TableSteps
      BY <1>1 DEF ThreadInv, Steps, TableSteps
    <3>2. pc' = [pc EXCEPT ![t] = "scan"] BY <1>5 DEF Goto
    <3>3. pc' = pc BY <1>1, <3>2 DEF ThreadInv, ThreadTypes
    <3> QED BY <1>1, <1>5, <3>1, <3>3, Went DEF Registering
  <2>3. /\ seen' \in [Threads -> Int] /\ at' \in [Threads -> Nat]
        /\ seen'[t] = n /\ at'[t] = at[t] + 1
        /\ \A u \in Threads \ {t} : seen'[u] = seen[u] /\ at'[u] = at[u]
    BY <1>1, <1>3, <1>5 DEF TableInv, TableTypes
  <2>4. TableTypes' BY <1>1, <2>1, <2>3 DEF TableInv, TableTypes, Registering
  <2>5. KeptInv' BY <1>1, <1>3, <2>1, <2>3 DEF TableInv, KeptInv, Registering
  <2>6. UnracedInv'
    <3>1. CASE raced BY <1>1, <3>1 DEF UnracedInv
    <3>2. CASE ~raced
      <4>1. n = count /\ count < MaxCallbacks
        BY <1>1, <1>3, <3>2 DEF TableInv, UnracedInv
      <4>2. at[t] <= count /\ \A j \in 0 .. at[t] - 1 : table[j] # want[t]
        BY <1>1, <3>2 DEF TableInv, UnracedInv
      <4>3. at[t] \in Slots /\ table[at[t]] # want[t]
        <5>1. at[t] \in Slots BY <1>1, <1>5, <4>1 DEF Slots, ShutdownAssumption
        <5>2. FALSE \in {table[at[t]] = want[t]} BY <1>5, <5>1 DEF Compared
        <5> QED BY <5>1, <5>2, Zenon
      <4>4. at'[t] <= count /\ \A j \in 0 .. at'[t] - 1 : table[j] # want[t]
        BY <1>1, <1>5, <2>3, <4>1, <4>2, <4>3
      <4> QED BY <1>1, <2>1, <2>3, <3>2, <4>4 DEF TableInv, UnracedInv, Registering
    <3> QED BY <3>1, <3>2
  <2> QED BY <2>1, <2>4, <2>5, <2>6 DEF TableInv
<1>6. CASE /\ at[t] >= n
           /\ seen' = [seen EXCEPT ![t] = n]
           /\ Goto(t, "store")
           /\ UNCHANGED <<want, at>>
  <2>1. Place(fn[t], "store") /\ "store" \in Steps /\ "store" \in TableSteps
    <3>1. Place(fn[t], pc[t]) BY DEF ThreadInv
    <3> QED BY <1>1, <3>1 DEF Place, Steps, TableSteps, PowerSteps
  <2>2. ThreadInv' /\ Move(t, TableSteps) /\ pc'[t] = "store" /\ alone' = alone
    BY <1>1, <1>6, <2>1, Went DEF Registering
  <2>3. /\ seen' \in [Threads -> Int] /\ seen'[t] = n
        /\ \A u \in Threads \ {t} : seen'[u] = seen[u]
    BY <1>3, <1>6 DEF TableInv, TableTypes
  <2>4. \A u \in Threads : Registering(u)' <=> Registering(u)
    BY <1>1, <2>1, <2>2 DEF Move, Registering
  <2>5. \A u \in Threads \ {t} : pc'[u] = pc[u] BY <2>2 DEF Move
  <2>6. TableTypes' BY <1>1, <1>6, <2>3, <2>4 DEF TableInv, TableTypes
  <2>7. KeptInv' BY <1>1, <1>3, <1>6, <2>2, <2>3, <2>4, <2>5 DEF TableInv, KeptInv
  <2>8. UnracedInv'
    <3>1. CASE raced BY <1>1, <3>1 DEF UnracedInv
    <3>2. CASE ~raced
      <4>1. n = count BY <1>1, <1>3, <3>2 DEF TableInv, UnracedInv
      <4>2. \A j \in 0 .. count - 1 : table[j] # want[t]
        BY <1>1, <1>6, <3>2, <4>1 DEF TableInv, UnracedInv
      <4> QED BY <1>1, <1>6, <2>2, <2>4, <2>5, <3>2, <4>2 DEF TableInv, UnracedInv
    <3> QED BY <3>1, <3>2
  <2> QED BY <2>2, <2>6, <2>7, <2>8 DEF TableInv
<1> QED BY <1>2, <1>4, <1>5, <1>6

LEMMA StoreMoves ==
  ASSUME ShutdownAssumption, ThreadInv, TableInv, NEW t \in Threads, Store(t)
  PROVE  ThreadInv' /\ TableInv' /\ Move(t, TableSteps)
<1>1. /\ pc[t] = "store" /\ Registering(t) /\ seen[t] \in Int /\ count \in Int
      /\ UNCHANGED <<want, at, kept, raced>>
      /\ ~overrun /\ alone[t] => seen[t] = count /\ count \in Slots
      /\ want[t] \in Callbacks
  BY DEF Store, Registering, TableSteps, TableInv, TableTypes, KeptInv, Slots,
         ShutdownAssumption
<1>2. PICK n \in Reads(t) :
       /\ seen' = [seen EXCEPT ![t] = n]
       /\ \/ /\ n \in Slots
             /\ table' = [table EXCEPT ![n] = want[t]]
             /\ UNCHANGED <<count, overrun>>
          \/ /\ n \notin Slots
             /\ count' \in CountAfterStray
             /\ overrun' = TRUE
             /\ UNCHANGED table
  BY DEF Store
<1>3. n \in Int /\ n \in {seen[t], count} /\ (~overrun /\ alone[t] => n = count)
  BY <1>1, <1>2 DEF Reads
<1>4. Place(fn[t], "count") /\ "count" \in Steps /\ "count" \in TableSteps
  <2>1. Place(fn[t], pc[t]) BY DEF ThreadInv
  <2> QED BY <1>1, <2>1 DEF Place, Steps, TableSteps, PowerSteps
<1>5. ThreadInv' /\ Move(t, TableSteps) /\ pc'[t] = "count" /\ alone' = alone
  BY <1>1, <1>4, Went DEF Store, Registering
<1>6. /\ seen' \in [Threads -> Int] /\ seen'[t] = n
      /\ \A u \in Threads \ {t} : seen'[u] = seen[u]
  BY <1>2, <1>3 DEF TableInv, TableTypes
<1>7. \A u \in Threads : Registering(u)' <=> Registering(u)
  BY <1>1, <1>4, <1>5 DEF Move, Registering
<1>8. \A u \in Threads \ {t} : pc'[u] = pc[u] BY <1>5 DEF Move
<1>9. /\ TableTypes'
  <2>1. table' \in [Slots -> Callbacks \cup {NoCallback}]
    BY <1>1, <1>2 DEF TableInv, TableTypes
  <2>2. count' \in Int /\ overrun' \in BOOLEAN
    BY <1>2 DEF TableInv, TableTypes, CountAfterStray, ShutdownAssumption
  <2> QED BY <1>1, <1>6, <1>7, <2>1, <2>2 DEF TableInv, TableTypes
<1>10. CASE n \notin Slots
  <2>1. overrun' BY <1>2, <1>10
  <2>2. raced' BY <1>1, <1>3, <1>10 DEF TableInv, UnracedInv
  <2> QED BY <1>5, <1>9, <2>1, <2>2 DEF TableInv, KeptInv, UnracedInv
<1>11. CASE n \in Slots
  <2>1. /\ table' = [table EXCEPT ![n] = want[t]] /\ UNCHANGED <<count, overrun>>
        /\ \A i \in Slots : i # n => table'[i] = table[i]
    BY <1>2, <1>11 DEF TableInv, TableTypes
  <2>2. KeptInv'
    <3> SUFFICES ASSUME ~overrun PROVE KeptInv'
      BY <2>1 DEF KeptInv
    <3>1. \A cb \in kept : \E i \in Slots :
            i < count /\ table'[i] = cb /\ \A u \in Threads : Registering(u) => i < seen'[u]
      <4> SUFFICES ASSUME NEW cb \in kept
                   PROVE  \E i \in Slots :
            i < count /\ table'[i] = cb /\ \A u \in Threads : Registering(u) => i < seen'[u]
        OBVIOUS
      <4>1. PICK i \in Slots :
              i < count /\ table[i] = cb /\ \A u \in Threads : Registering(u) => i < seen[u]
        BY DEF TableInv, KeptInv
      <4>2. i < n /\ i # n BY <1>1, <1>3, <4>1 DEF Slots, ShutdownAssumption
      <4> QED BY <1>3, <1>6, <2>1, <4>1, <4>2
    <3>2. \A u \in Threads : Registering(u) /\ alone[u] => seen'[u] = count /\ count < MaxCallbacks
      BY <1>3, <1>6 DEF TableInv, KeptInv
    <3>3. alone[t] => table'[count] = want[t]
      BY <1>1, <1>3, <2>1 DEF TableInv, TableTypes
    <3>4. \A u \in Threads \ {t} : pc[u] = "count" => ~alone[u]
      BY <1>1, TogetherNotAlone DEF TableSteps
    <3>5. count >= 0 /\ \A u \in Threads : seen'[u] >= 0
      BY <1>3, <1>6 DEF TableInv, KeptInv
    <3> QED BY <1>1, <1>5, <1>7, <1>8, <2>1, <3>1, <3>2, <3>3, <3>4, <3>5 DEF KeptInv
  <2>3. UnracedInv'
    <3>1. CASE raced BY <1>1, <3>1 DEF UnracedInv
    <3>2. CASE ~raced
      <4>1. ~overrun /\ alone[t] /\ n = count
        BY <1>1, <1>3, <3>2 DEF TableInv, UnracedInv
      <4>2. count \in Slots BY <1>1, <4>1
      <4>3. \A i \in 0 .. count - 1 : i \in Slots /\ table'[i] = table[i]
        BY <1>1, <2>1, <4>1, <4>2 DEF Slots, ShutdownAssumption
      <4>4. \A u \in Threads \ {t} : ~Registering(u)
        BY <1>1, <4>1, TogetherNotAlone DEF Registering
      <4>5. \A j \in 0 .. count - 1 : table'[j] # want[t]
        BY <1>1, <3>2, <4>3 DEF TableInv, UnracedInv
      <4>6. \A i, j \in 0 .. count - 1 : table'[i] = table'[j] => i = j
        BY <3>2, <4>3 DEF TableInv, UnracedInv
      <4>7. \A u \in Threads : Registering(u)' => u = t
        BY <1>7, <4>4
      <4>8. count <= MaxCallbacks BY <4>2 DEF Slots, ShutdownAssumption
      <4> QED BY <1>1, <1>5, <2>1, <3>2, <4>1, <4>5, <4>6, <4>7, <4>8
              DEF UnracedInv, Registering, TableSteps
    <3> QED BY <3>1, <3>2
  <2> QED BY <1>5, <1>9, <2>2, <2>3 DEF TableInv
<1> QED BY <1>10, <1>11

LEMMA CountMoves ==
  ASSUME ShutdownAssumption, ThreadInv, TableInv, NEW t \in Threads, Count(t)
  PROVE  ThreadInv' /\ TableInv' /\ Move(t, TableSteps)
<1>1. /\ pc[t] = "count" /\ Registering(t) /\ seen[t] \in Int /\ count \in Int
      /\ UNCHANGED <<table, raced, overrun>>
      /\ ~overrun /\ alone[t] =>
           seen[t] = count /\ count \in Slots /\ table[count] = want[t]
      /\ ~overrun => count >= 0 /\ seen[t] >= 0
      /\ want[t] \in Callbacks
      /\ kept' = IF alone[t] THEN kept \cup {want[t]} ELSE kept
  BY DEF Count, Registering, TableSteps, TableInv, TableTypes, KeptInv, Slots,
         ShutdownAssumption
<1>2. PICK n \in Reads(t) : count' = n + 1
  BY DEF Count
<1>3. n \in Int /\ n \in {seen[t], count} /\ (~overrun /\ alone[t] => n = count)
  BY <1>1, <1>2 DEF Reads
<1>4. /\ ThreadInv' /\ Move(t, TableSteps) /\ pc'[t] = "idle"
      /\ want' \in [Threads -> Callbacks \cup {NoCallback}]
      /\ seen' \in [Threads -> Int] /\ at' \in [Threads -> Nat] /\ seen'[t] = 0
      /\ \A u \in Threads \ {t} :
           want'[u] = want[u] /\ seen'[u] = seen[u] /\ at'[u] = at[u]
  BY <1>1, CanReturn DEF Count, TableInv
<1>5. \A u \in Threads : Registering(u)' =>
        u # t /\ pc'[u] = pc[u] /\ Registering(u) /\ (alone'[u] => alone[u])
  BY <1>4 DEF Move, TableSteps, Registering
<1>6. \A u \in Threads \ {t} : Registering(u) => ~alone[u] /\ ~alone[t]
  BY <1>1, TogetherNotAlone DEF Registering
<1>7. TableTypes'
  BY <1>1, <1>2, <1>3, <1>4, <1>5 DEF TableInv, TableTypes
<1>8. KeptInv'
  <2> SUFFICES ASSUME ~overrun PROVE KeptInv'
    BY <1>1 DEF KeptInv
  <2>1. \A cb \in kept : \E i \in Slots :
          i < count' /\ table'[i] = cb /\ \A u \in Threads : Registering(u)' => i < seen'[u]
    <3> SUFFICES ASSUME NEW cb \in kept
                 PROVE  \E i \in Slots :
          i < count' /\ table'[i] = cb /\ \A u \in Threads : Registering(u)' => i < seen'[u]
      OBVIOUS
    <3>1. PICK i \in Slots :
            i < count /\ table[i] = cb /\ \A u \in Threads : Registering(u) => i < seen[u]
      BY DEF TableInv, KeptInv
    <3>2. i < n + 1 BY <1>1, <1>3, <3>1 DEF Slots, ShutdownAssumption
    <3> QED BY <1>1, <1>2, <1>4, <1>5, <3>1, <3>2
  <2>2. alone[t] => /\ count \in Slots /\ count < count'
                    /\ table'[count] = want[t]
                    /\ \A u \in Threads : ~Registering(u)'
    BY <1>1, <1>2, <1>3, <1>5, <1>6
  <2>3. \A cb \in kept' : \E i \in Slots :
          i < count' /\ table'[i] = cb /\ \A u \in Threads : Registering(u)' => i < seen'[u]
    BY <1>1, <2>1, <2>2
  <2>4. \A u \in Threads : Registering(u)' => ~alone'[u]
    BY <1>5, <1>6
  <2>5. count' >= 0 /\ \A u \in Threads : seen'[u] >= 0
    BY <1>1, <1>2, <1>3, <1>4 DEF TableInv, KeptInv
  <2> QED BY <2>3, <2>4, <2>5 DEF KeptInv, Registering, TableSteps
<1>9. UnracedInv'
  <2>1. CASE raced BY <1>1, <2>1 DEF UnracedInv
  <2>2. CASE ~raced
    <3>1. ~overrun /\ alone[t] /\ n = count BY <1>1, <1>3, <2>2 DEF TableInv, UnracedInv
    <3>2. \A u \in Threads : ~Registering(u)' BY <1>5, <1>6, <3>1
    <3>3. \A j \in 0 .. count - 1 : table[j] # want[t]
      BY <1>1, <2>2 DEF TableInv, UnracedInv
    <3>4. \A i, j \in 0 .. count - 1 : table[i] = table[j] => i = j
      BY <2>2 DEF TableInv, UnracedInv
    <3>5. \A i, j \in 0 .. count' - 1 : table'[i] = table'[j] => i = j
      <4>1. \A i \in 0 .. count' - 1 : i \in 0 .. count - 1 \/ i = count
        BY <1>1, <1>2, <3>1
      <4> QED BY <1>1, <3>1, <3>3, <3>4, <4>1
    <3>6. count' <= MaxCallbacks BY <1>1, <1>2, <3>1 DEF Slots, ShutdownAssumption
    <3> QED BY <1>1, <2>2, <3>1, <3>2, <3>5, <3>6 DEF UnracedInv, Registering, TableSteps
  <2> QED BY <2>1, <2>2
<1> QED BY <1>4, <1>7, <1>8, <1>9 DEF TableInv

------------------------------------------------------------------------------
(* Tokens. *)

Working == {"own", "release", "wipe"}

(* A token that was not granted while its address was in use belongs to    *)
(* one acquire_capability at first, and is out until it is wiped.          *)
TokenInv ==
  /\ CapabilityTypeOK
  /\ \A t \in Threads : pc[t] \in Working => token[t] \in Tokens
  /\ \A t \in Threads : pc[t] = "wipe" /\ token[t] \in granted => token[t] \in reused
  /\ \A t \in Threads : pc[t] = "own" /\ token[t] \notin reused =>
       /\ token[t] \in granted
       /\ ~rec[token[t]].owned /\ rec[token[t]].validUntil > 0
       /\ \A u \in Threads \ {t} : pc[u] \in Working => token[u] # token[t]
  /\ TokensUsable

LEMMA TokenFramed ==
  ASSUME TokenInv, Frame(TokenSteps), UNCHANGED tokens
  PROVE  TokenInv'
<1>1. UNCHANGED <<now, granted, rec, held, reused, token>> BY DEF tokens
<1>2. \A t \in Threads : \A step \in Working : pc'[t] = step <=> pc[t] = step
  BY DEF Frame, TokenSteps, Working
<1>3. \A t \in Threads : pc'[t] \in Working <=> pc[t] \in Working
  BY <1>2 DEF Working
<1>4. \A t \in Threads : /\ pc'[t] = "own" <=> pc[t] = "own"
                         /\ pc'[t] = "wipe" <=> pc[t] = "wipe"
  BY <1>2 DEF Working
<1> QED BY <1>1, <1>3, <1>4 DEF TokenInv, CapabilityTypeOK, TokensUsable

LEMMA RecordType ==
  ASSUME CapabilityAssumption, TokenInv
  PROVE  /\ Wiped \in Record
         /\ [owned |-> FALSE, validUntil |-> now + 1] \in Record
         /\ \A k \in Tokens :
              /\ rec[k] \in Record
              /\ [rec[k] EXCEPT !.owned = TRUE] \in Record
              /\ [rec[k] EXCEPT !.owned = TRUE].owned
              /\ [rec[k] EXCEPT !.owned = TRUE].validUntil = rec[k].validUntil
<1>1. MaxNow \in Nat /\ now \in 0 .. MaxNow /\ rec \in [Tokens -> Record]
  BY DEF CapabilityAssumption, TokenInv, CapabilityTypeOK
<1>2. 0 \in 0 .. MaxNow + 1 /\ now + 1 \in 0 .. MaxNow + 1
  BY <1>1
<1>3. \A r \in Record :
        /\ [r EXCEPT !.owned = TRUE] \in Record
        /\ [r EXCEPT !.owned = TRUE].owned
        /\ [r EXCEPT !.owned = TRUE].validUntil = r.validUntil
  BY DEF Record
<1> QED BY <1>1, <1>2, <1>3 DEF Record, Wiped

(* The steps that only take a thread in or out, or let a release fail.     *)
LEMMA TokenPlain ==
  ASSUME TokenInv, NEW t \in Threads, Move(t, TokenSteps),
         UNCHANGED <<now, granted, rec, held, reused>>,
         token' \in [Threads -> Tokens \cup {NoToken}],
         \A u \in Threads \ {t} : token'[u] = token[u],
         pc'[t] \notin Working, pc[t] \notin {"own", "wipe"}
  PROVE  TokenInv'
<1>1. \A u \in Threads \ {t} : pc'[u] = pc[u]
  BY DEF Move
<1>2. \A u \in Threads : pc'[u] \in Working => u # t
  OBVIOUS
<1>3. pc'[t] # "own" /\ pc'[t] # "wipe" BY DEF Working
<1>4. \A u \in Threads : pc[u] \in {"own", "wipe"} => u # t
  OBVIOUS
<1>5. TokensUsable'
  BY <1>1, <1>4 DEF TokenInv, TokensUsable
<1> QED BY <1>1, <1>2, <1>3, <1>5 DEF TokenInv, CapabilityTypeOK

LEMMA GrantMoves ==
  ASSUME CapabilityAssumption, ThreadInv, TokenInv, NEW t \in Threads, Grant(t)
  PROVE  ThreadInv' /\ TokenInv' /\ Move(t, TokenSteps)
<1>1. PICK k \in Tokens \ granted :
       /\ granted' = granted \cup {k}
       /\ rec' = [rec EXCEPT ![k] = [owned |-> FALSE, validUntil |-> now + 1]]
       /\ reused' = IF InUse(k) THEN reused \cup {k} ELSE reused \ {k}
       /\ token' = [token EXCEPT ![t] = k]
  BY DEF Grant
<1>2. pc[t] = "acquire" /\ pc[t] \in TokenSteps /\ UNCHANGED <<now, held>>
  BY DEF Grant, TokenSteps
<1>3. Place(fn[t], "own") /\ "own" \in Steps /\ "own" \in TokenSteps
  <2>1. Place(fn[t], pc[t]) BY DEF ThreadInv
  <2> QED BY <1>2, <2>1 DEF Place, Steps, TokenSteps, PowerSteps, TableSteps
<1>4. ThreadInv' /\ Move(t, TokenSteps) /\ pc'[t] = "own"
  BY <1>2, <1>3, Went DEF Grant
<1>5. \A u \in Threads \ {t} : pc'[u] = pc[u] /\ token'[u] = token[u]
  BY <1>1, <1>4 DEF Move, TokenInv, CapabilityTypeOK
<1>6. token'[t] = k /\ ~rec'[k].owned /\ rec'[k].validUntil > 0
      /\ \A j \in Tokens \ {k} : rec'[j] = rec[j]
  BY <1>1 DEF TokenInv, CapabilityTypeOK, CapabilityAssumption
<1>7. CapabilityTypeOK'
  BY <1>1, <1>2, RecordType DEF TokenInv, CapabilityTypeOK
<1>8. \A j : j # k => (j \in reused' <=> j \in reused)
  BY <1>1
<1>9. \A u \in Threads \ {t} : pc[u] \in Working /\ token[u] = k => k \in reused'
  BY <1>1 DEF InUse, Working
<1>10. \A u \in Threads \ {t} : pc[u] = "wipe" /\ token[u] # k /\ token[u] \in granted' => token[u] \in reused'
  BY <1>1, <1>8 DEF TokenInv
<1>11. \A u \in Threads : pc'[u] = "wipe" /\ token'[u] \in granted' => token'[u] \in reused'
  BY <1>4, <1>5, <1>9, <1>10 DEF Working
<1>12. \A u \in Threads : pc'[u] = "own" /\ token'[u] \notin reused' =>
         /\ token'[u] \in granted'
         /\ ~rec'[token'[u]].owned /\ rec'[token'[u]].validUntil > 0
         /\ \A v \in Threads \ {u} : pc'[v] \in Working => token'[v] # token'[u]
  <2> SUFFICES ASSUME NEW u \in Threads, pc'[u] = "own", token'[u] \notin reused'
               PROVE  /\ token'[u] \in granted'
                      /\ ~rec'[token'[u]].owned /\ rec'[token'[u]].validUntil > 0
                      /\ \A v \in Threads \ {u} : pc'[v] \in Working => token'[v] # token'[u]
    OBVIOUS
  <2>1. CASE u = t
    BY <1>1, <1>5, <1>6, <1>9, <2>1
  <2>2. CASE u # t
    <3>1. pc[u] = "own" /\ token'[u] = token[u] BY <1>5, <2>2
    <3>2. token[u] # k BY <1>9, <2>2, <3>1 DEF Working
    <3>3. /\ token[u] \in granted /\ token[u] \in Tokens
          /\ ~rec[token[u]].owned /\ rec[token[u]].validUntil > 0
          /\ \A v \in Threads \ {u} : pc[v] \in Working => token[v] # token[u]
      BY <1>8, <3>1, <3>2 DEF TokenInv, Working
    <3>4. \A v \in Threads \ {u} : pc'[v] \in Working => token'[v] # token'[u]
      BY <1>5, <1>6, <3>1, <3>2, <3>3
    <3> QED BY <1>1, <1>6, <3>1, <3>2, <3>3, <3>4
  <2> QED BY <2>1, <2>2
<1>13. TokensUsable'
  <2>1. \A j \in held' \ reused' :
          j \in granted' \/ \E u \in Threads : pc'[u] = "wipe" /\ token'[u] = j
    <3> SUFFICES ASSUME NEW j \in held \ reused', j # k
                 PROVE  j \in granted' \/ \E u \in Threads : pc'[u] = "wipe" /\ token'[u] = j
      BY <1>1, <1>2
    <3>1. j \in granted \/ \E u \in Threads : pc[u] = "wipe" /\ token[u] = j
      BY <1>8 DEF TokenInv, TokensUsable
    <3> QED BY <1>1, <1>2, <1>5, <3>1
  <2>2. \A j \in granted' \ reused' : j # k =>
          (rec'[j].owned /\ rec'[j].validUntil > 0) \/ \E u \in Threads : pc'[u] = "own" /\ token'[u] = j
    <3> SUFFICES ASSUME NEW j \in granted' \ reused', j # k
                 PROVE  (rec'[j].owned /\ rec'[j].validUntil > 0)
                          \/ \E u \in Threads : pc'[u] = "own" /\ token'[u] = j
      OBVIOUS
    <3>1. j \in granted \ reused /\ rec'[j] = rec[j]
      BY <1>1, <1>6, <1>8 DEF TokenInv, CapabilityTypeOK
    <3>2. (rec[j].owned /\ rec[j].validUntil > 0) \/ \E u \in Threads : pc[u] = "own" /\ token[u] = j
      BY <3>1 DEF TokenInv, TokensUsable
    <3> QED BY <1>2, <1>5, <3>1, <3>2
  <2> QED BY <1>4, <1>6, <2>1, <2>2 DEF TokensUsable
<1>14. \A u \in Threads : pc'[u] \in Working => token'[u] \in Tokens
  BY <1>5, <1>6 DEF TokenInv
<1> QED BY <1>4, <1>7, <1>11, <1>12, <1>13, <1>14 DEF TokenInv

LEMMA OwnMoves ==
  ASSUME CapabilityAssumption, ThreadInv, TokenInv, NEW t \in Threads, Own(t)
  PROVE  ThreadInv' /\ TokenInv' /\ Move(t, TokenSteps)
<1> DEFINE k == token[t]
<1>1. /\ pc[t] = "own" /\ pc[t] \in TokenSteps /\ UNCHANGED <<now, granted, reused>>
      /\ rec' = [rec EXCEPT ![k].owned = TRUE] /\ held' = held \cup {k}
      /\ token' = [token EXCEPT ![t] = NoToken]
      /\ k \in Tokens
      /\ k \notin reused =>
           /\ k \in granted /\ rec[k].validUntil > 0
           /\ \A u \in Threads \ {t} : pc[u] \in Working => token[u] # k
  BY DEF Own, Drop, TokenSteps, TokenInv, Working
<1>2. ThreadInv' /\ Move(t, TokenSteps) /\ pc'[t] = "idle"
  BY <1>1, Left DEF Own
<1>3. \A u \in Threads \ {t} : pc'[u] = pc[u] /\ token'[u] = token[u]
  BY <1>1, <1>2 DEF Move, TokenInv, CapabilityTypeOK
<1>4. /\ rec'[k].owned /\ rec'[k].validUntil = rec[k].validUntil
      /\ \A j \in Tokens \ {k} : rec'[j] = rec[j]
      /\ rec' \in [Tokens -> Record]
  BY <1>1, RecordType DEF TokenInv, CapabilityTypeOK
<1>5. CapabilityTypeOK'
  BY <1>1, <1>4 DEF TokenInv, CapabilityTypeOK
<1>6. \A u \in Threads : pc'[u] \in Working =>
        u # t /\ pc[u] = pc'[u] /\ token'[u] = token[u] /\ token[u] \in Tokens
  BY <1>2, <1>3 DEF TokenInv, Working
<1>7. TokensUsable'
  <2>1. \A j \in held' \ reused' :
          j \in granted' \/ \E u \in Threads : pc'[u] = "wipe" /\ token'[u] = j
    <3> SUFFICES ASSUME NEW j \in held \ reused
                 PROVE  j \in granted \/ \E u \in Threads : pc'[u] = "wipe" /\ token'[u] = j
      BY <1>1
    <3>1. j \in granted \/ \E u \in Threads : pc[u] = "wipe" /\ token[u] = j
      BY DEF TokenInv, TokensUsable
    <3> QED BY <1>1, <1>3, <3>1
  <2>2. ASSUME NEW j \in granted \ reused
        PROVE  \/ rec'[j].owned /\ rec'[j].validUntil > 0
               \/ \E u \in Threads : pc'[u] = "own" /\ token'[u] = j
    <3>1. CASE j = k BY <1>1, <1>4, <3>1
    <3>2. CASE j # k
      <4>1. j \in Tokens /\ rec'[j] = rec[j] BY <1>4, <3>2 DEF TokenInv, CapabilityTypeOK
      <4> QED BY <1>3, <3>2, <4>1 DEF TokenInv, TokensUsable
    <3> QED BY <3>1, <3>2
  <2> QED BY <1>1, <2>1, <2>2 DEF TokensUsable
<1>8. \A u \in Threads : pc'[u] = "own" /\ token'[u] \notin reused' =>
        /\ token'[u] \in granted'
        /\ ~rec'[token'[u]].owned /\ rec'[token'[u]].validUntil > 0
        /\ \A v \in Threads \ {u} : pc'[v] \in Working => token'[v] # token'[u]
  <2> SUFFICES ASSUME NEW u \in Threads, pc'[u] = "own", token'[u] \notin reused'
               PROVE  /\ token'[u] \in granted'
                      /\ ~rec'[token'[u]].owned /\ rec'[token'[u]].validUntil > 0
                      /\ \A v \in Threads \ {u} : pc'[v] \in Working => token'[v] # token'[u]
    OBVIOUS
  <2>1. u # t /\ pc[u] = "own" /\ token'[u] = token[u] /\ token[u] \in Tokens
    BY <1>6 DEF Working
  <2>2. /\ token[u] \in granted /\ ~rec[token[u]].owned /\ rec[token[u]].validUntil > 0
        /\ \A v \in Threads \ {u} : pc[v] \in Working => token[v] # token[u]
    BY <1>1, <2>1 DEF TokenInv
  <2>3. token[u] # k BY <1>1, <2>1, <2>2 DEF Working
  <2>4. rec'[token[u]] = rec[token[u]] BY <1>4, <2>1, <2>3
  <2>5. \A v \in Threads \ {u} : pc'[v] \in Working => token'[v] # token'[u]
    BY <1>6, <2>1, <2>2
  <2>6. token'[u] \in granted' BY <1>1, <2>1, <2>2
  <2>7. rec'[token'[u]] = rec[token[u]] BY <2>1, <2>4
  <2> QED BY <2>2, <2>5, <2>6, <2>7
<1>9. \A u \in Threads : pc'[u] = "wipe" /\ token'[u] \in granted' => token'[u] \in reused'
  BY <1>1, <1>6 DEF TokenInv, Working
<1> QED BY <1>2, <1>5, <1>6, <1>7, <1>8, <1>9 DEF TokenInv

LEMMA ReleaseMoves ==
  ASSUME ThreadInv, TokenInv, NEW t \in Threads, NEW k \in Tokens, Release(t, k)
  PROVE  ThreadInv' /\ TokenInv' /\ Move(t, TokenSteps)
<1> DEFINE f == "release_capability"
<1>1. /\ k \in held /\ rec[k].owned
      /\ Enter(t, f, "release") /\ token' = [token EXCEPT ![t] = k]
      /\ UNCHANGED <<now, granted, rec, held, reused>>
  BY DEF Release, Begin
<1>2. f \in Functions /\ "release" \in Steps /\ Place(f, "release") /\ StepsOf(f) = TokenSteps
  BY DEF Functions, Owning, Flagging, Powering, Steps, Place, StepsOf
<1>3. ThreadInv' /\ Move(t, TokenSteps) /\ pc'[t] = "release" /\ pc[t] = "idle"
  BY <1>1, <1>2, Entered
<1>4. token'[t] = k /\ \A u \in Threads \ {t} : pc'[u] = pc[u] /\ token'[u] = token[u]
  BY <1>1, <1>3 DEF Move, TokenInv, CapabilityTypeOK
<1>5. CapabilityTypeOK' BY <1>1 DEF TokenInv, CapabilityTypeOK
<1>6. TokensUsable'
  BY <1>1, <1>3, <1>4 DEF TokenInv, TokensUsable
<1>7. \A u \in Threads : pc'[u] = "own" /\ token'[u] \notin reused' =>
        /\ token'[u] \in granted'
        /\ ~rec'[token'[u]].owned /\ rec'[token'[u]].validUntil > 0
        /\ \A v \in Threads \ {u} : pc'[v] \in Working => token'[v] # token'[u]
  <2> SUFFICES ASSUME NEW u \in Threads, pc'[u] = "own", token'[u] \notin reused'
               PROVE  /\ token'[u] \in granted'
                      /\ ~rec'[token'[u]].owned /\ rec'[token'[u]].validUntil > 0
                      /\ \A v \in Threads \ {u} : pc'[v] \in Working => token'[v] # token'[u]
    OBVIOUS
  <2>1. u # t /\ pc[u] = "own" /\ token'[u] = token[u] BY <1>3, <1>4
  <2>2. /\ token[u] \in granted /\ ~rec[token[u]].owned /\ rec[token[u]].validUntil > 0
        /\ \A v \in Threads \ {u} : pc[v] \in Working => token[v] # token[u]
    BY <1>1, <2>1 DEF TokenInv
  <2>3. token[u] # k BY <1>1, <2>2
  <2> QED BY <1>1, <1>4, <2>1, <2>2, <2>3
<1>8. \A u \in Threads : pc'[u] = "wipe" /\ token'[u] \in granted' => token'[u] \in reused'
  BY <1>1, <1>3, <1>4 DEF TokenInv
<1>9. \A u \in Threads : pc'[u] \in Working => token'[u] \in Tokens
  BY <1>4 DEF TokenInv
<1> QED BY <1>3, <1>5, <1>6, <1>7, <1>8, <1>9 DEF TokenInv

LEMMA AskMoves ==
  ASSUME ThreadInv, TokenInv, NEW t \in Threads, AskKernel(t)
  PROVE  ThreadInv' /\ TokenInv' /\ Move(t, TokenSteps)
<1> DEFINE k == token[t]
<1>1. /\ pc[t] = "release" /\ pc[t] \in TokenSteps /\ UNCHANGED <<now, rec, held, reused>>
      /\ k \in Tokens
  BY DEF AskKernel, TokenSteps, TokenInv, Working
<1>2. PICK released \in BOOLEAN :
       /\ granted' = IF released THEN granted \ {k} ELSE granted
       /\ IF released THEN Goto(t, "wipe") /\ UNCHANGED token
          ELSE Leave(t) /\ token' = [token EXCEPT ![t] = NoToken]
  BY DEF AskKernel, Wipes, Drop
<1>3. CASE released
  <2>1. Place(fn[t], "wipe") /\ "wipe" \in Steps /\ "wipe" \in TokenSteps
    <3>1. Place(fn[t], pc[t]) BY DEF ThreadInv
    <3> QED BY <1>1, <3>1 DEF Place, Steps, TokenSteps, PowerSteps, TableSteps
  <2>2. ThreadInv' /\ Move(t, TokenSteps) /\ pc'[t] = "wipe"
    BY <1>1, <1>2, <1>3, <2>1, Went
  <2>3. \A u \in Threads \ {t} : pc'[u] = pc[u] BY <2>2 DEF Move
  <2>4. granted' = granted \ {k} /\ token' = token BY <1>2, <1>3
  <2>5. TokensUsable'
    BY <1>1, <2>2, <2>3, <2>4 DEF TokenInv, TokensUsable
  <2>6. \A u \in Threads : pc'[u] = "own" /\ token[u] \notin reused =>
          /\ token[u] \in granted'
          /\ ~rec[token[u]].owned /\ rec[token[u]].validUntil > 0
          /\ \A v \in Threads \ {u} : pc'[v] \in Working => token[v] # token[u]
    <3> SUFFICES ASSUME NEW u \in Threads, pc'[u] = "own", token[u] \notin reused
                 PROVE  /\ token[u] \in granted'
                        /\ ~rec[token[u]].owned /\ rec[token[u]].validUntil > 0
                        /\ \A v \in Threads \ {u} : pc'[v] \in Working => token[v] # token[u]
      OBVIOUS
    <3>1. u # t /\ pc[u] = "own" BY <2>2, <2>3
    <3>2. /\ token[u] \in granted /\ ~rec[token[u]].owned /\ rec[token[u]].validUntil > 0
          /\ \A v \in Threads \ {u} : pc[v] \in Working => token[v] # token[u]
      BY <3>1 DEF TokenInv
    <3>3. token[u] # k BY <1>1, <3>1, <3>2 DEF Working
    <3> QED BY <2>3, <2>4, <3>1, <3>2, <3>3
  <2>7. \A u \in Threads : pc'[u] = "wipe" /\ token[u] \in granted' => token[u] \in reused
    BY <2>3, <2>4 DEF TokenInv
  <2>8. \A u \in Threads : pc'[u] \in Working => token[u] \in Tokens
    BY <1>1, <2>3 DEF TokenInv
  <2>9. CapabilityTypeOK' BY <1>1, <2>4 DEF TokenInv, CapabilityTypeOK
  <2> QED BY <1>1, <2>2, <2>4, <2>5, <2>6, <2>7, <2>8, <2>9 DEF TokenInv
<1>4. CASE ~released
  <2>1. ThreadInv' /\ Move(t, TokenSteps) /\ pc'[t] = "idle"
    BY <1>1, <1>2, <1>4, Left
  <2>2. granted' = granted /\ token' = [token EXCEPT ![t] = NoToken]
    BY <1>2, <1>4
  <2> QED BY <1>1, <2>1, <2>2, TokenPlain DEF TokenInv, CapabilityTypeOK, Working
<1> QED BY <1>3, <1>4

LEMMA WipeMoves ==
  ASSUME CapabilityAssumption, ThreadInv, TokenInv, NEW t \in Threads, Wipe(t)
  PROVE  ThreadInv' /\ TokenInv' /\ Move(t, TokenSteps)
<1> DEFINE k == token[t]
<1>1. /\ pc[t] = "wipe" /\ pc[t] \in TokenSteps /\ UNCHANGED <<now, granted, reused>>
      /\ rec' = [rec EXCEPT ![k] = Wiped] /\ token' = [token EXCEPT ![t] = NoToken]
      /\ held' = IF k \in reused THEN held ELSE held \ {k}
      /\ k \in Tokens /\ (k \in granted => k \in reused)
  BY DEF Wipe, Drop, TokenSteps, TokenInv, Working
<1>2. ThreadInv' /\ Move(t, TokenSteps) /\ pc'[t] = "idle"
  BY <1>1, Left DEF Wipe
<1>3. \A u \in Threads \ {t} : pc'[u] = pc[u] /\ token'[u] = token[u]
  BY <1>1, <1>2 DEF Move, TokenInv, CapabilityTypeOK
<1>4. rec' \in [Tokens -> Record] /\ \A j \in Tokens \ {k} : rec'[j] = rec[j]
  BY <1>1, RecordType DEF TokenInv, CapabilityTypeOK
<1>5. CapabilityTypeOK' BY <1>1, <1>4 DEF TokenInv, CapabilityTypeOK
<1>6. \A j \in granted \ reused : j \in Tokens /\ rec'[j] = rec[j]
  BY <1>1, <1>4 DEF TokenInv, CapabilityTypeOK
<1>7. TokensUsable'
  <2>1. \A j \in held' \ reused' :
          j \in granted' \/ \E u \in Threads : pc'[u] = "wipe" /\ token'[u] = j
    <3> SUFFICES ASSUME NEW j \in held \ reused, j # k
                 PROVE  j \in granted \/ \E u \in Threads : pc'[u] = "wipe" /\ token'[u] = j
      BY <1>1
    <3>1. j \in granted \/ \E u \in Threads : pc[u] = "wipe" /\ token[u] = j
      BY DEF TokenInv, TokensUsable
    <3> QED BY <1>3, <3>1
  <2>2. \A j \in granted' \ reused' :
          \/ rec'[j].owned /\ rec'[j].validUntil > 0
          \/ \E u \in Threads : pc'[u] = "own" /\ token'[u] = j
    BY <1>1, <1>3, <1>6 DEF TokenInv, TokensUsable
  <2> QED BY <2>1, <2>2 DEF TokensUsable
<1>8. \A u \in Threads : pc'[u] \in Working =>
        u # t /\ pc[u] = pc'[u] /\ token'[u] = token[u] /\ token[u] \in Tokens
  BY <1>2, <1>3 DEF TokenInv, Working
<1>9. \A u \in Threads : pc'[u] = "own" /\ token'[u] \notin reused' =>
        /\ token'[u] \in granted'
        /\ ~rec'[token'[u]].owned /\ rec'[token'[u]].validUntil > 0
        /\ \A v \in Threads \ {u} : pc'[v] \in Working => token'[v] # token'[u]
  <2> SUFFICES ASSUME NEW u \in Threads, pc'[u] = "own", token'[u] \notin reused'
               PROVE  /\ token'[u] \in granted'
                      /\ ~rec'[token'[u]].owned /\ rec'[token'[u]].validUntil > 0
                      /\ \A v \in Threads \ {u} : pc'[v] \in Working => token'[v] # token'[u]
    OBVIOUS
  <2>1. u # t /\ pc[u] = "own" /\ token'[u] = token[u] BY <1>8 DEF Working
  <2>2. /\ token[u] \in granted /\ ~rec[token[u]].owned /\ rec[token[u]].validUntil > 0
        /\ \A v \in Threads \ {u} : pc[v] \in Working => token[v] # token[u]
    BY <1>1, <2>1 DEF TokenInv
  <2>3. rec'[token[u]] = rec[token[u]] BY <1>1, <1>6, <2>1, <2>2
  <2> QED BY <1>1, <1>8, <2>1, <2>2, <2>3
<1>10. \A u \in Threads : pc'[u] = "wipe" /\ token'[u] \in granted' => token'[u] \in reused'
  BY <1>1, <1>8 DEF TokenInv, Working
<1> QED BY <1>2, <1>5, <1>7, <1>8, <1>9, <1>10 DEF TokenInv

LEMMA TokenMoves ==
  ASSUME CapabilityAssumption, ThreadInv, TokenInv, NEW t \in Threads, CapabilityStep(t)
  PROVE  ThreadInv' /\ TokenInv' /\ (Move(t, TokenSteps) \/ UNCHANGED threads \/ Crash)
<1>1. CASE Acquire(t)
  <2> DEFINE f == "acquire_capability"
  <2>1. /\ Enter(t, f, "acquire") /\ token' = [token EXCEPT ![t] = NoToken]
        /\ UNCHANGED <<now, granted, rec, held, reused>>
    BY <1>1 DEF Acquire, Begin
  <2>2. f \in Functions /\ "acquire" \in Steps /\ Place(f, "acquire") /\ StepsOf(f) = TokenSteps
    BY DEF Functions, Owning, Flagging, Powering, Steps, Place, StepsOf
  <2>3. ThreadInv' /\ Move(t, TokenSteps) /\ pc'[t] = "acquire" /\ pc[t] = "idle"
    BY <2>1, <2>2, Entered
  <2> QED BY <2>1, <2>3, TokenPlain DEF TokenInv, CapabilityTypeOK, Working
<1>2. CASE \E k \in Tokens : Send(t, k)
  <2> DEFINE f == "send_token_to_virtual_port"
  <2>1. PICK k \in Tokens : Send(t, k) BY <1>2
  <2>2. /\ Enter(t, f, "send") /\ token' = [token EXCEPT ![t] = k]
        /\ UNCHANGED <<now, granted, rec, held, reused>>
    BY <2>1 DEF Send, Begin
  <2>3. f \in Functions /\ "send" \in Steps /\ Place(f, "send") /\ StepsOf(f) = TokenSteps
    BY DEF Functions, Owning, Flagging, Powering, Steps, Place, StepsOf
  <2>4. ThreadInv' /\ Move(t, TokenSteps) /\ pc'[t] = "send" /\ pc[t] = "idle"
    BY <2>2, <2>3, Entered
  <2> QED BY <2>2, <2>4, TokenPlain DEF TokenInv, CapabilityTypeOK, Working
<1>3. CASE GrantRefused(t)
  <2>1. ThreadInv' /\ Move(t, TokenSteps) /\ pc'[t] = "idle" /\ pc[t] = "acquire"
    BY <1>3, Left DEF GrantRefused, TokenSteps
  <2>2. UNCHANGED <<now, granted, rec, held, reused, token>>
    BY <1>3 DEF GrantRefused, tokens
  <2> QED BY <2>1, <2>2, TokenPlain DEF TokenInv, CapabilityTypeOK, Working
<1>4. CASE SendToPort(t)
  <2>1. ThreadInv' /\ Move(t, TokenSteps) /\ pc'[t] = "idle" /\ pc[t] = "send"
    BY <1>4, Left DEF SendToPort, TokenSteps
  <2>2. token' = [token EXCEPT ![t] = NoToken] /\ UNCHANGED <<now, granted, rec, held, reused>>
    BY <1>4 DEF SendToPort, Drop
  <2> QED BY <2>1, <2>2, TokenPlain DEF TokenInv, CapabilityTypeOK, Working
<1>5. CASE RejectNull(t) \/ \E k \in Tokens : NotOwner(t, k) \/ Expired(t, k)
  <2>1. UNCHANGED threads /\ UNCHANGED tokens
    BY <1>5 DEF RejectNull, NotOwner, Expired, Reject
  <2> QED BY <2>1, Stayed, TokenFramed
<1>11. CASE GrantFails(t)
  <2>1. Crash /\ UNCHANGED tokens BY <1>11 DEF GrantFails
  <2> QED BY <2>1, Stayed, TokenFramed
<1>6. CASE Grant(t) BY <1>6, GrantMoves
<1>7. CASE Own(t) BY <1>7, OwnMoves
<1>8. CASE \E k \in Tokens : Release(t, k) BY <1>8, ReleaseMoves
<1>9. CASE AskKernel(t) BY <1>9, AskMoves
<1>10. CASE Wipe(t) BY <1>10, WipeMoves
<1> QED BY <1>1, <1>2, <1>3, <1>4, <1>5, <1>6, <1>7, <1>8, <1>9, <1>10, <1>11 DEF CapabilityStep

------------------------------------------------------------------------------
(* All of it. *)

Inv ==
  /\ program \in Programs /\ crashed \in BOOLEAN
  /\ ThreadInv
  /\ FlagInv
  /\ PowerInv
  /\ TableInv
  /\ TokenInv

LEMMA InitInv == ASSUME ShutdownAssumption, CapabilityAssumption, Init PROVE Inv
<1> USE DEF Init, MessagesInit, CapabilityInit
<1>1. ThreadInv
  BY DEF ThreadInv, ThreadTypes, Place, Steps
<1>2. FlagInv
  BY DEF FlagInv, Modes, PowerOfferAgrees, WaitAfterNotice
<1>3. PowerInv
  BY DEF PowerInv, NoAsk, Ask, Kinds
<1>4. TableInv
  <2>1. \A t \in Threads : pc[t] = "idle" /\ ~Registering(t)
    BY DEF Registering, TableSteps
  <2>2. TableTypes
    <3>1. \A t \in Threads : seen[t] = 0 /\ at[t] = 0
      OBVIOUS
    <3>2. seen \in [Threads -> Int] /\ at \in [Threads -> Nat] /\ count \in Int
      OBVIOUS
    <3>3. /\ table \in [Slots -> Callbacks \cup {NoCallback}]
          /\ want \in [Threads -> Callbacks \cup {NoCallback}]
      OBVIOUS
    <3>4. kept \subseteq Callbacks /\ raced \in BOOLEAN /\ overrun \in BOOLEAN
      OBVIOUS
    <3> QED BY <2>1, <3>2, <3>3, <3>4 DEF TableTypes
  <2>3. KeptInv
    BY <2>1 DEF KeptInv
  <2>4. 0 <= MaxCallbacks /\ \A i \in 0 .. count - 1 : FALSE
    BY DEF ShutdownAssumption
  <2>5. UnracedInv
    BY <2>1, <2>4 DEF UnracedInv
  <2> QED BY <2>2, <2>3, <2>5 DEF TableInv
<1>5. Wiped \in Record
  <2>1. 0 \in 0 .. MaxNow + 1
    BY DEF CapabilityAssumption
  <2> QED BY <2>1 DEF Wiped, Record
<1>6. CapabilityTypeOK
  <2>1. 0 \in 0 .. MaxNow
    BY DEF CapabilityAssumption
  <2> QED BY <1>5, <2>1 DEF CapabilityTypeOK
<1>7. TokenInv
  <2>1. \A t \in Threads : pc[t] = "idle"
    OBVIOUS
  <2> QED BY <1>6, <2>1 DEF TokenInv, TokensUsable, Working
<1> QED BY <1>1, <1>2, <1>3, <1>4, <1>7 DEF Inv

LEMMA ProgramKept ==
  ASSUME NEW t \in Threads, Step(t) \/ Clock
  PROVE  program' = program /\ crashed' \in {crashed, TRUE}
  BY DEF Step, Clock, Tick, FlagStep, Protect, SetFlag, Notify, Flagged, TokenStep,
         CapabilityStep, Acquire, RejectNull, Grant, GrantRefused, Own, Release, NotOwner,
         Send, Expired, AskKernel, Wipe, SendToPort, GrantFails, Begin, Power, PowerDenied, Announce,
         Decide, BeginSave, SendWait, Register, RegisterRefused, Scan, Store, Count,
         Stray, Return, Crash, Enter, Leave, Goto, Reject, threads

LEMMA Disjoint ==
  /\ FlagSteps \cap PowerSteps = {} /\ FlagSteps \cap TableSteps = {}
  /\ FlagSteps \cap TokenSteps = {} /\ PowerSteps \cap TableSteps = {}
  /\ PowerSteps \cap TokenSteps = {} /\ TableSteps \cap TokenSteps = {}
  /\ "idle" \notin FlagSteps \cup PowerSteps \cup TableSteps \cup TokenSteps
  BY DEF FlagSteps, PowerSteps, TableSteps, TokenSteps

LEMMA StepInv ==
  ASSUME ShutdownAssumption, CapabilityAssumption, Inv, NEW t \in Threads, Step(t)
  PROVE  Inv'
<1>1. program' \in Programs /\ crashed' \in BOOLEAN BY ProgramKept DEF Inv
<1>2. CASE FlagStep(t) \/ BeginSave(t) \/ SendWait(t)
  <2>1. ThreadInv' /\ FlagInv' /\ Move(t, FlagSteps) BY <1>2, FlagMoves DEF Inv
  <2>2. Frame(PowerSteps) /\ Frame(TableSteps) /\ Frame(TokenSteps)
    BY <2>1, Moved, Disjoint
  <2>3. UNCHANGED <<tokens, power, callbacks>>
    BY <1>2 DEF FlagStep, BeginSave, SendWait
  <2> QED BY <1>1, <2>1, <2>2, <2>3, PowerFramed, TableFramed, TokenFramed DEF Inv
<1>3. CASE Power(t) \/ Announce(t) \/ Decide(t)
  <2>1. ThreadInv' /\ PowerInv' /\ Move(t, PowerSteps) BY <1>3, PowerMoves DEF Inv
  <2>2. Frame(FlagSteps) /\ Frame(TableSteps) /\ Frame(TokenSteps)
    BY <2>1, Moved, Disjoint
  <2>3. UNCHANGED <<protection, saving, tokens, callbacks>>
    BY <1>3 DEF Power, Announce, Decide
  <2> QED BY <1>1, <2>1, <2>2, <2>3, FlagFramed, TableFramed, TokenFramed DEF Inv
<1>4. CASE \/ \E cb \in Callbacks : Register(t, cb)
           \/ Scan(t) \/ Store(t) \/ Count(t)
  <2>1. ThreadInv' /\ TableInv' /\ Move(t, TableSteps)
    BY <1>4, RegisterMoves, ScanMoves, StoreMoves, CountMoves DEF Inv
  <2>2. Frame(FlagSteps) /\ Frame(PowerSteps) /\ Frame(TokenSteps)
    BY <2>1, Moved, Disjoint
  <2>3. UNCHANGED <<protection, saving, tokens, power>>
    BY <1>4 DEF Register, Scan, Store, Count
  <2> QED BY <1>1, <2>1, <2>2, <2>3, FlagFramed, PowerFramed, TokenFramed DEF Inv
<1>5. CASE TokenStep(t)
  <2>1. ThreadInv' /\ TokenInv' /\ (Move(t, TokenSteps) \/ UNCHANGED threads \/ Crash)
    BY <1>5, TokenMoves DEF Inv, TokenStep
  <2>2. Frame(FlagSteps) /\ Frame(PowerSteps) /\ Frame(TableSteps)
    BY <2>1, Moved, Stayed, Disjoint DEF Inv
  <2>3. UNCHANGED <<protection, saving, power, callbacks>>
    BY <1>5 DEF TokenStep
  <2> QED BY <1>1, <2>1, <2>2, <2>3, FlagFramed, PowerFramed, TableFramed DEF Inv
<1>6. CASE PowerDenied(t) \/ RegisterRefused(t) \/ Stray(t)
  <2>1. /\ UNCHANGED threads \/ Crash
        /\ UNCHANGED <<protection, saving, tokens, power, callbacks>>
    BY <1>6 DEF PowerDenied, RegisterRefused, Stray, Reject
  <2>2. ThreadInv' /\ (\A S : Frame(S)) BY <2>1, Stayed DEF Inv
  <2> QED BY <1>1, <2>1, <2>2, FlagFramed, PowerFramed, TableFramed, TokenFramed DEF Inv
<1> QED BY <1>2, <1>3, <1>4, <1>5, <1>6 DEF Step

LEMMA ClockInv ==
  ASSUME CapabilityAssumption, Inv, Clock
  PROVE  Inv'
<1>1. UNCHANGED <<threads, protection, power, saving, callbacks>>
      /\ UNCHANGED <<granted, rec, held, reused, token>> /\ now' = now + 1 /\ now < MaxNow
  BY DEF Clock, Tick
<1>2. ThreadInv' /\ (\A S : Frame(S)) BY <1>1, Stayed DEF Inv
<1>3. UNCHANGED <<program, crashed, pc>> BY <1>1 DEF threads
<1>4. TokenInv'
  BY <1>1, <1>3 DEF Inv, TokenInv, CapabilityTypeOK, TokensUsable, CapabilityAssumption
<1> QED BY <1>1, <1>2, <1>3, <1>4, FlagFramed, PowerFramed, TableFramed DEF Inv

LEMMA Stutter == ASSUME Inv, UNCHANGED vars PROVE Inv'
<1>1. UNCHANGED <<threads, protection, tokens, power, saving, callbacks>> BY DEF vars
<1>2. ThreadInv' /\ (\A S : Frame(S)) BY <1>1, Stayed DEF Inv
<1>3. UNCHANGED <<program, crashed>> BY <1>1 DEF threads
<1> QED BY <1>1, <1>2, <1>3, FlagFramed, PowerFramed, TableFramed, TokenFramed DEF Inv

(* The invariant of the whole, for any threads, tokens and sizes.          *)
LEMMA Invariance == Spec => []Inv
<1>1. Init => Inv BY ShutdownAssumption, CapabilityAssumption, InitInv
<1>2. Inv /\ [Next]_vars => Inv'
  BY ShutdownAssumption, CapabilityAssumption, StepInv, ClockInv, Stutter DEF Next, Ended
<1> QED BY <1>1, <1>2, PTL DEF Spec

(* The state keeps its types; with it, the text handed to the kernel fits  *)
(* msg_buf (src/src/shutdown.c:30).                                        *)
THEOREM TypesHold == Spec => []TypeOK
<1>1. Inv => TypeOK
  BY DEF Inv, TypeOK, MessagesTypeOK, ThreadInv, ThreadTypes, FlagInv, PowerInv, TableInv,
         TableTypes, TokenInv
<1> QED BY <1>1, Invariance, PTL

(* PowerOffer's knowledge of the do-not-kill flag is the kernel's, up to   *)
(* lost notices and overlapping calls (src/src/ipc.c:66-91).               *)
THEOREM PowerOfferAlwaysAgrees == Spec => []PowerOfferAgrees
<1>1. Inv => PowerOfferAgrees BY DEF Inv, FlagInv
<1> QED BY <1>1, Invariance, PTL

(* WAIT never reaches PowerOffer before the notice that it is about        *)
(* (src/src/shutdown.c:97-104).                                            *)
THEOREM WaitAlwaysAfterNotice == Spec => []WaitAfterNotice
<1>1. Inv => WaitAfterNotice BY DEF Inv, FlagInv
<1> QED BY <1>1, Invariance, PTL

(* No token that is out at the kernel becomes unusable, even when threads  *)
(* release it at once, except where an address is granted again while a    *)
(* thread is at work on the old token (src/src/capability.c:43-51).        *)
THEOREM TokensAlwaysUsable == Spec => []TokensUsable
<1>1. Inv => TokensUsable BY DEF Inv, TokenInv
<1> QED BY <1>1, Invariance, PTL

(* However many threads race in register_shutdown_callback, a registration *)
(* that overlapped no other is not lost before one of them stores behind   *)
(* the table, and only threads that race do that (src/src/shutdown.c:      *)
(* 75-90).                                                                 *)
THEOREM CallbacksAlwaysKept == Spec => []CallbacksKept
<1>1. Inv => CallbacksKept BY DEF Inv, TableInv, KeptInv, UnracedInv, CallbacksKept
<1> QED BY <1>1, Invariance, PTL

(* The machine goes down the way the last announcement that got through    *)
(* said, when it goes down on the call that made it (src/src/shutdown.c:   *)
(* 31-47).                                                                 *)
THEOREM AlwaysAnnouncedIsDone == Spec => AnnouncedIsDone
<1>1. Inv /\ [Next]_vars => [AsAnnounced]_vars
  <2> SUFFICES ASSUME Inv, Next PROVE AsAnnounced \/ UNCHANGED vars
    OBVIOUS
  <2>1. CASE \E t \in Threads : Decide(t)
    BY <2>1, DecidedAsAnnounced DEF Inv
  <2>2. CASE ~\E t \in Threads : Decide(t)
    <3>1. machine' = machine
      BY <2>2 DEF Next, Ended, vars, Step, Clock, FlagStep, TokenStep, Power, PowerDenied,
                  Announce, BeginSave, SendWait, Register, RegisterRefused, Scan, Store,
                  Stray, Count, power
    <3> QED BY <3>1 DEF AsAnnounced
  <2> QED BY <2>1, <2>2
<1> QED BY <1>1, Invariance, PTL DEF Spec, AnnouncedIsDone
==============================================================================
