------------------------------- MODULE RuiProofs -------------------------------
(***************************************************************************)
(* Undisturbed for any number of threads and pids: what is a property of   *)
(* the calls already made follows from where every copy of the pid points. *)
(***************************************************************************)
EXTENDS Rui, TLAPS

(* A pid the client has or PID 1 lists is the service's until it crashes. *)
Good(p) == p # NoPid /\ ~crashed => home[p] = "rui"

CopiesGood == Good(g_rui_pid) /\ Good(listed) /\ \A t \in Threads : Good(found[t])

(* Past the test of g_rui_pid it is 0 only because a lookup failed. *)
ZeroExplained ==
  \A t \in Threads :
    /\ At(t, "store") /\ found[t] = NoPid => failed
    /\ pc[t] \in {"recheck", "params", "send"} => g_rui_pid # NoPid \/ failed

(* The inductive invariant. *)
IInv == TypeOK /\ CopiesGood /\ ZeroExplained /\ Undisturbed

------------------------------------------------------------------------------
LEMMA InitInv == Init => IInv
<1> SUFFICES ASSUME Init  PROVE IInv
  OBVIOUS
<1>1. last \in [Threads -> Outcome]  BY DEF Init, Outcome, Errors
<1>2. TypeOK  BY <1>1 DEF Init, TypeOK, Functions, Steps
<1>3. CopiesGood /\ ZeroExplained
  BY DEF Init, CopiesGood, Good, ZeroExplained, At
<1>4. Undisturbed  BY DEF Init, Undisturbed
<1> QED  BY <1>2, <1>3, <1>4 DEF IInv

(* What a return records is an Outcome. *)
LEMMA ReturnType ==
  ASSUME TypeOK, NEW t \in Threads, NEW pid \in Pids \cup {NoPid, NoCall},
         NEW to \in {"none", "rui", "other"}, NEW ok \in BOOLEAN, NEW err \in Errors,
         Return(t, pid, to, ok, err)
  PROVE  last' \in [Threads -> Outcome] /\ pc' \in [Threads -> Steps]
<1>1. [pid |-> pid, to |-> to, ok |-> ok, err |-> err] \in Outcome  BY DEF Outcome
<1>2. last' \in [Threads -> Outcome]  BY <1>1 DEF Return, TypeOK
<1>3. pc' \in [Threads -> Steps]  BY DEF Return, Goto, TypeOK, Steps
<1> QED  BY <1>2, <1>3

(* eclib_rui_init returns ECLIB_OK: to the caller, or into the function.   *)
LEMMA InitOkType ==
  ASSUME TypeOK, NEW t \in Threads, InitOk(t)
  PROVE  last' \in [Threads -> Outcome] /\ pc' \in [Threads -> Steps]
<1>1. CASE fn[t] = "init"  BY <1>1, ReturnType DEF InitOk, Errors
<1>2. CASE fn[t] # "init"  BY <1>2 DEF InitOk, TypeOK, Goto, Steps
<1> QED  BY <1>1, <1>2

LEMMA TypeStep ==
  ASSUME TypeOK, NEW t \in Threads, Step(t)
  PROVE  TypeOK'
<1> USE DEF outside
<1>1. CASE \E f \in Functions : Call(t, f)
  BY <1>1 DEF Call, TypeOK, Goto, Functions, Steps
<1>2. CASE Check(t)  BY <1>2 DEF Check, TypeOK, Goto, Steps
<1>3. CASE AlreadyInitialised(t)
  BY <1>3, InitOkType DEF AlreadyInitialised, TypeOK
<1>4. CASE StartLookup(t)  BY <1>4 DEF StartLookup, TypeOK, Goto, Steps
<1>5. CASE Lookup(t)  BY <1>5 DEF Lookup, NotFound, TypeOK, Goto, Steps
<1>6. CASE Store(t)  BY <1>6 DEF Store, TypeOK, Goto, Steps
<1>7. CASE Recheck(t)
  <2>1. CASE InitOk(t)  BY <1>7, <2>1, InitOkType DEF Recheck, TypeOK
  <2>2. CASE Return(t, NoCall, "none", FALSE, "CANNOT_FIND_MODULE")
    BY <1>7, <2>2, ReturnType DEF Recheck, TypeOK, Errors
  <2> QED  BY <1>7, <2>1, <2>2 DEF Recheck
<1>8. CASE Params(t)
  <2>1. CASE Return(t, NoCall, "none", FALSE, "INVALID_PARAMETER")
    BY <1>8, <2>1, ReturnType DEF Params, TypeOK, Errors
  <2>2. CASE UNCHANGED last
    BY <1>8, <2>2 DEF Params, TypeOK, Return, Goto, Steps
  <2> QED  BY <1>8, <2>1, <2>2 DEF Params
<1>9. CASE Send(t)
  <2>1. PICK r \in CallResults(Target) :
          Return(t, g_rui_pid, Target,
                 IF fn[t] = "create_window" THEN r = <<"OK", "OK">> ELSE r[1] = "OK",
                 r[1])
    BY <1>9 DEF Send
  <2>2. r[1] \in Errors  BY DEF CallResults, Errors
  <2>3. Target \in {"none", "rui", "other"}  BY DEF Target, TypeOK
  <2>4. last' \in [Threads -> Outcome] /\ pc' \in [Threads -> Steps]
    BY <2>1, <2>2, <2>3, ReturnType DEF TypeOK
  <2> QED  BY <1>9, <2>4 DEF Send, TypeOK
<1>10. CASE Receive(t)
  BY <1>10, ReturnType DEF Receive, TypeOK, Errors
<1> QED  BY <1>1, <1>2, <1>3, <1>4, <1>5, <1>6, <1>7, <1>8, <1>9, <1>10 DEF Step

(* What a step of a thread does to the copies of the pid.                  *)
LEMMA CopiesStep ==
  ASSUME IInv, NEW t \in Threads, Step(t)
  PROVE  CopiesGood'
<1> USE DEF IInv, TypeOK, CopiesGood, Good, outside
<1>1. CASE \E f \in Functions : Call(t, f)  BY <1>1 DEF Call
<1>2. CASE Check(t)  BY <1>2 DEF Check
<1>3. CASE AlreadyInitialised(t)  BY <1>3 DEF AlreadyInitialised
<1>4. CASE StartLookup(t)  BY <1>4 DEF StartLookup
<1>5. CASE Lookup(t)  BY <1>5 DEF Lookup, NotFound
<1>6. CASE Store(t)  BY <1>6 DEF Store
<1>7. CASE Recheck(t)  BY <1>7 DEF Recheck
<1>8. CASE Params(t)  BY <1>8 DEF Params
<1>9. CASE Send(t)  BY <1>9 DEF Send
<1>10. CASE Receive(t)  BY <1>10 DEF Receive
<1> QED  BY <1>1, <1>2, <1>3, <1>4, <1>5, <1>6, <1>7, <1>8, <1>9, <1>10 DEF Step

(* A thread that stores 0 has had a failed lookup, so the others keep       *)
(* their reason when it takes the pid away from them.                      *)
LEMMA ZeroStep ==
  ASSUME IInv, NEW t \in Threads, Step(t)
  PROVE  ZeroExplained'
<1> USE DEF IInv, TypeOK, ZeroExplained, At, Goto, outside
<1>1. CASE \E f \in Functions : Call(t, f)  BY <1>1 DEF Call
<1>2. CASE Check(t)  BY <1>2 DEF Check, InitNeeded
<1>3. CASE AlreadyInitialised(t)  BY <1>3 DEF AlreadyInitialised, InitOk, Return
<1>4. CASE StartLookup(t)  BY <1>4 DEF StartLookup
<1>5. CASE Lookup(t)  BY <1>5, RuiAssumption DEF Lookup, NotFound
<1>6. CASE Store(t)  BY <1>6 DEF Store
<1>7. CASE Recheck(t)  BY <1>7 DEF Recheck, InitOk, Return
<1>8. CASE Params(t)  BY <1>8 DEF Params, Return
<1>9. CASE Send(t)  BY <1>9 DEF Send, Return
<1>10. CASE Receive(t)  BY <1>10 DEF Receive, Return
<1> QED  BY <1>1, <1>2, <1>3, <1>4, <1>5, <1>6, <1>7, <1>8, <1>9, <1>10 DEF Step

(* A call that sends nothing cannot break it; one that does finds the      *)
(* service, unless one of the two reasons holds.                           *)
LEMMA UndisturbedStep ==
  ASSUME IInv, NEW t \in Threads, Step(t)
  PROVE  Undisturbed'
<1> USE DEF IInv, TypeOK, Undisturbed, outside
<1>1. CASE \E f \in Functions : Call(t, f)  BY <1>1 DEF Call
<1>2. CASE Check(t)  BY <1>2 DEF Check
<1>3. CASE AlreadyInitialised(t)  BY <1>3 DEF AlreadyInitialised, InitOk, Return
<1>4. CASE StartLookup(t)  BY <1>4 DEF StartLookup
<1>5. CASE Lookup(t)  BY <1>5 DEF Lookup
<1>6. CASE Store(t)  BY <1>6 DEF Store
<1>7. CASE Recheck(t)  BY <1>7 DEF Recheck, InitOk, Return
<1>8. CASE Params(t)  BY <1>8 DEF Params, Return
<1>9. CASE Send(t)
  <2>1. g_rui_pid # NoPid \/ failed  BY <1>9 DEF Send, At, ZeroExplained
  <2>2. Target # "rui" => crashed \/ (g_rui_pid = NoPid /\ failed)
    BY <2>1 DEF Target, CopiesGood, Good
  <2>3. /\ last'[t].pid = g_rui_pid /\ last'[t].to = Target
        /\ \A u \in Threads \ {t} : last'[u] = last[u]
        /\ crashed' = crashed /\ failed' = failed
    BY <1>9 DEF Send, Return
  <2> QED  BY <2>2, <2>3
<1>10. CASE Receive(t)  BY <1>10 DEF Receive, Return
<1> QED  BY <1>1, <1>2, <1>3, <1>4, <1>5, <1>6, <1>7, <1>8, <1>9, <1>10 DEF Step

(* Processes come and go; a pid changes hands only after a crash.          *)
LEMMA EnvironmentKeeps ==
  ASSUME IInv, Environment
  PROVE  IInv'
<1> USE DEF IInv, TypeOK, CopiesGood, Good, ZeroExplained, Undisturbed, At, inside, Move
<1>1. PICK p \in Pids :
        RuiStarts(p) \/ RuiCrashes(p) \/ OtherStarts(p) \/ OtherEnds(p) \/ RuiRegisters(p)
  BY DEF Environment
<1>2. CASE RuiStarts(p)  BY <1>2 DEF RuiStarts
<1>3. CASE RuiCrashes(p)  BY <1>3 DEF RuiCrashes
<1>4. CASE OtherStarts(p)  BY <1>4 DEF OtherStarts
<1>5. CASE OtherEnds(p)  BY <1>5 DEF OtherEnds
<1>6. CASE RuiRegisters(p)  BY <1>6 DEF RuiRegisters
<1> QED  BY <1>1, <1>2, <1>3, <1>4, <1>5, <1>6

LEMMA NextInv == IInv /\ [Next]_vars => IInv'
<1> SUFFICES ASSUME IInv, [Next]_vars  PROVE IInv'
  OBVIOUS
<1>1. CASE UNCHANGED vars
  BY <1>1
  DEF vars, IInv, TypeOK, CopiesGood, Good, ZeroExplained, Undisturbed, At
<1>2. ASSUME NEW t \in Threads, Step(t)  PROVE IInv'
  <2>1. TypeOK'  BY <1>2, TypeStep DEF IInv
  <2> QED  BY <1>2, <2>1, CopiesStep, ZeroStep, UndisturbedStep DEF IInv
<1>3. CASE Environment  BY <1>3, EnvironmentKeeps
<1> QED  BY <1>1, <1>2, <1>3 DEF Next

LEMMA Inductive == Spec => []IInv
  BY InitInv, NextInv, PTL DEF Spec

------------------------------------------------------------------------------
(* Type correctness for any threads and pids.                              *)
THEOREM TypesHold == Spec => []TypeOK
<1>1. IInv => TypeOK  BY DEF IInv
<1> QED  BY <1>1, Inductive, PTL

(* Undisturbed for any threads and pids: whichever way the unlocked        *)
(* initialisations of rui.c:21-29 interleave, a request misses the service *)
(* only after a crash of it, or goes to pid 0 after a failed lookup.       *)
THEOREM AlwaysUndisturbed == Spec => []Undisturbed
<1>1. IInv => Undisturbed  BY DEF IInv
<1> QED  BY <1>1, Inductive, PTL
==============================================================================
