-------------------------- MODULE ServiceCallProofs --------------------------
(***************************************************************************)
(* What a stub tells its caller is true for any number of clients, calls,  *)
(* services and pids, and for any table of stubs that clients use.         *)
(*                                                                         *)
(* ResultsAreTrue is not inductive: a result stays true only because no    *)
(* request of a finished call can appear later, a call is carried out at   *)
(* most once, and an answer belongs to the call that waits for it.  Ledger *)
(* says so of the requests, the effects and the results.                   *)
(* Who may serve a call and that a failure has its code are inductive      *)
(* beside it: the one rests on the command codes of all the stubs, the     *)
(* other on every return of a stub that stores a code.                     *)
(***************************************************************************)
EXTENDS ServiceCall, TLAPS

Queued(c, n) == \E r \in inflight : r.client = c /\ r.n = n
Acted(c, n)  == \E e \in executed : e.client = c /\ e.n = n

(* No request, effect or result is ahead of its client. *)
Counted ==
  /\ \A r \in inflight : r.n <= calls[r.client]
  /\ \A e \in executed : e.n <= calls[e.client]
  /\ \A d \in done : d.n <= calls[d.client]

(* Nothing is on its way before the stub sends it. *)
NotYetSent ==
  \A c \in Clients :
    pc[c] \in {"lookup", "send"} => ~Queued(c, calls[c]) /\ ~Acted(c, calls[c])

(* A request is there once, and gone when it was acted on. *)
Once ==
  /\ \A r, q \in inflight : r.client = q.client /\ r.n = q.n => r = q
  /\ \A r \in inflight : ~Acted(r.client, r.n)

(* An answer tells what was done for the very call that waits for it. *)
Answered ==
  \A c \in Clients : answer[c] # "none" =>
    /\ pc[c] = "wait"
    /\ ~Queued(c, calls[c])
    /\ answer[c] = "ok" => Took(c, calls[c]) \/ Astray(c, calls[c])
    /\ answer[c] = "error" => ~Took(c, calls[c])

(* A call has a result once, when it is over. *)
Over ==
  /\ \A d \in done : d.n = calls[d.client] => pc[d.client] = "idle"
  /\ \A d, f \in done : d.client = f.client /\ d.n = f.n => d = f

Ledger == Counted /\ NotYetSent /\ Once /\ Answered /\ Over

Inv == TypeOK /\ Ledger /\ ResultsAreTrue

USE ServiceCallAssumption

LEMMA InitInv == Init => Inv
<1> SUFFICES ASSUME Init PROVE Inv
  OBVIOUS
<1>1. TypeOK
  BY DEF Init, TypeOK, Steps, Errors, Statuses
<1>2. Ledger
  BY DEF Init, Ledger, Counted, NotYetSent, Once, Answered, Over, Queued, Acted
<1>3. ResultsAreTrue
  BY DEF Init, ResultsAreTrue
<1> QED
  BY <1>1, <1>2, <1>3 DEF Inv

(* A return keeps the invariant if what it reports is true.  The call that  *)
(* returns is the current one, or one that is refused before it started.    *)
LEMMA ReturnInv ==
  ASSUME Inv,
         NEW c \in Clients, NEW s \in Used, NEW n \in Numbers,
         NEW ok \in BOOLEAN, NEW code \in Errors \cup {"kept"},
         Return(c, s, n, ok, code),
         calls' = [calls EXCEPT ![c] = n],
         UNCHANGED <<system, inflight, executed>>,
         \/ pc[c] # "idle" /\ n = calls[c]
         \/ pc[c] = "idle" /\ n = calls[c] + 1,
         ok /\ Judges(s) => Took(c, n) \/ Astray(c, n),
         ~ok /\ code \notin {"kept", "TIMEOUT"} => ~Took(c, n) /\ ~Queued(c, n)
  PROVE  Inv'
<1> DEFINE new == [client |-> c, n |-> n, stub |-> s, ok |-> ok,
                   err |-> IF code = "kept" THEN lastErr[c] ELSE code,
                   fresh |-> code # "kept"]
<1>1. new \in Result
  BY DEF Inv, TypeOK, Result, Errors
<1>2. done' = done \cup {new}
  BY DEF Return
<1>3. /\ pc' = [pc EXCEPT ![c] = "idle"]
      /\ answer' = [answer EXCEPT ![c] = "none"]
      /\ pc \in [Clients -> Steps] /\ answer \in [Clients -> Statuses \cup {"none"}]
      /\ calls \in [Clients -> 0 .. MaxCalls]
  BY DEF Return, Inv, TypeOK
<1>4. \A d \in done : d \in Result /\ d.n <= calls[d.client]
  BY DEF Inv, TypeOK, Ledger, Counted
<1>5. \A d \in done : ~(d.client = c /\ d.n = n)
  <2>1. CASE pc[c] # "idle" /\ n = calls[c]
    BY <2>1 DEF Inv, Ledger, Over
  <2>2. CASE n = calls[c] + 1
    BY <1>3, <1>4, <2>2 DEF Result, Numbers
  <2> QED
    BY <2>1, <2>2
<1>6. TypeOK'
  <2>1. done' \subseteq Result
    BY <1>1, <1>2 DEF Inv, TypeOK
  <2>2. lastErr' \in [Clients -> Errors]
    BY DEF Return, Inv, TypeOK
  <2>3. calls' \in [Clients -> 0 .. MaxCalls]
    BY <1>3 DEF Numbers
  <2> QED
    BY <2>1, <2>2, <2>3 DEF Return, Inv, TypeOK, system, Steps
<1>7. \A k \in Clients : calls'[k] = (IF k = c THEN n ELSE calls[k])
                         /\ calls[k] <= calls'[k] /\ calls[k] \in Nat
  BY <1>3 DEF Numbers
<1>8. Counted'
  <2>1. \A r \in inflight : r.client \in Clients /\ r.n \in Nat /\ r.n <= calls[r.client]
    BY DEF Inv, TypeOK, Request, Numbers, Ledger, Counted
  <2>2. \A e \in executed : e.client \in Clients /\ e.n \in Nat /\ e.n <= calls[e.client]
    BY DEF Inv, TypeOK, Effect, Numbers, Ledger, Counted
  <2>3. \A d \in done : d.client \in Clients /\ d.n \in Nat /\ d.n <= calls[d.client]
    BY <1>4 DEF Result, Numbers
  <2>4. new.client = c /\ new.n = n
    OBVIOUS
  <2>5. \A d \in done' : d.n <= calls'[d.client]
    BY <1>2, <1>7, <2>3, <2>4 DEF Numbers
  <2>6. \A r \in inflight' : r.n <= calls'[r.client]
    BY <1>7, <2>1
  <2>7. \A e \in executed' : e.n <= calls'[e.client]
    BY <1>7, <2>2
  <2> QED
    BY <2>5, <2>6, <2>7 DEF Counted
<1>9. NotYetSent'
  BY <1>3, <1>7 DEF Inv, Ledger, NotYetSent, Queued, Acted
<1>10. Once'
  BY DEF Inv, Ledger, Once, Acted
<1>11. Answered'
  BY <1>3, <1>7 DEF Inv, Ledger, Answered, Queued, Took, Astray
<1>12. Over'
  <2>1. \A d \in done : d.client # c => calls'[d.client] = calls[d.client]
                                        /\ pc'[d.client] = pc[d.client]
    BY <1>3, <1>4, <1>7 DEF Result
  <2>2. \A d \in done' : d.n = calls'[d.client] => pc'[d.client] = "idle"
    BY <1>2, <1>3, <2>1 DEF Inv, Ledger, Over
  <2>3. \A d, f \in done' : d.client = f.client /\ d.n = f.n => d = f
    BY <1>2, <1>5 DEF Inv, Ledger, Over
  <2> QED
    BY <2>2, <2>3 DEF Over
<1>13. ResultsAreTrue'
  <2>1. \A k \in Clients, m \in Numbers : /\ Took(k, m)' <=> Took(k, m)
                                          /\ Astray(k, m)' <=> Astray(k, m)
    BY DEF Took, Astray
  <2>2. new.ok /\ Judges(new.stub) => Took(c, n) \/ Astray(c, n)
    OBVIOUS
  <2>3. Final(new) => ~Took(c, n) /\ ~Queued(c, n)
    BY DEF Final
  <2>4. \A d \in done : d.client \in Clients /\ d.n \in Numbers
    BY <1>4 DEF Result
  <2>5. new.client = c /\ new.n = n
    OBVIOUS
  <2> HIDE DEF new
  <2> QED
    BY <1>2, <2>1, <2>2, <2>3, <2>4, <2>5
    DEF Inv, ResultsAreTrue, Queued, Final, Judges
<1> QED
  BY <1>6, <1>8, <1>9, <1>10, <1>11, <1>12, <1>13 DEF Inv, Ledger
(* The client inside a stub: its stub, its call and their types. *)
LEMMA InsideStub ==
  ASSUME Inv, NEW c \in Clients, pc[c] # "idle"
  PROVE  /\ stub[c] \in Used
         /\ calls[c] \in Numbers
         /\ calls = [calls EXCEPT ![c] = calls[c]]
  BY DEF Inv, TypeOK

LEMMA EnterInv ==
  ASSUME Inv, NEW c \in Clients, NEW s \in Used, Enter(c, s)
  PROVE  Inv'
<1>1. TypeOK'
  BY DEF Enter, Inv, TypeOK, Steps, Numbers, system
<1>2. /\ calls \in [Clients -> 0 .. MaxCalls]
      /\ calls' = [calls EXCEPT ![c] = @ + 1]
      /\ pc \in [Clients -> Steps]
      /\ pc' = [pc EXCEPT ![c] = "lookup"]
      /\ pc[c] = "idle"
  BY DEF Enter, Inv, TypeOK
<1>3. /\ \A r \in inflight : r.client \in Clients /\ r.n \in Nat /\ r.n <= calls[r.client]
      /\ \A e \in executed : e.client \in Clients /\ e.n \in Nat /\ e.n <= calls[e.client]
      /\ \A d \in done : d.client \in Clients /\ d.n \in Nat /\ d.n <= calls[d.client]
  BY DEF Inv, TypeOK, Request, Effect, Result, Numbers, Ledger, Counted
<1>4. UNCHANGED <<answer, inflight, executed, done>>
  BY DEF Enter
<1>5. Counted'
  BY <1>2, <1>3, <1>4 DEF Counted
<1>6. NotYetSent'
  <2>1. ~Queued(c, calls[c] + 1) /\ ~Acted(c, calls[c] + 1)
    BY <1>2, <1>3 DEF Queued, Acted
  <2> QED
    BY <1>2, <1>4, <2>1 DEF Inv, Ledger, NotYetSent, Queued, Acted
<1>7. Once'
  BY <1>4 DEF Inv, Ledger, Once, Acted
<1>8. Answered'
  BY <1>2, <1>4 DEF Inv, Ledger, Answered, Queued, Took, Astray
<1>9. Over'
  <2>1. \A d \in done : d.n = calls'[d.client] => pc'[d.client] = "idle"
    BY <1>2, <1>3 DEF Inv, Ledger, Over
  <2> QED
    BY <1>4, <2>1 DEF Inv, Ledger, Over
<1>10. ResultsAreTrue'
  BY <1>4 DEF Inv, ResultsAreTrue, Took, Astray
<1> QED
  BY <1>1, <1>5, <1>6, <1>7, <1>8, <1>9, <1>10 DEF Inv, Ledger

LEMMA RejectInv ==
  ASSUME Inv, NEW c \in Clients, NEW s \in Used, Reject(c, s)
  PROVE  Inv'
<1>1. calls[c] + 1 \in Numbers /\ calls' = [calls EXCEPT ![c] = calls[c] + 1]
  BY DEF Reject, Inv, TypeOK, Numbers
<1>2. ~Took(c, calls[c] + 1) /\ ~Queued(c, calls[c] + 1)
  <2>1. calls[c] \in Nat
    BY DEF Inv, TypeOK
  <2>2. /\ \A r \in inflight : r.n \in Nat /\ r.n <= calls[r.client]
        /\ \A e \in executed : e.n \in Nat /\ e.n <= calls[e.client]
    BY DEF Inv, TypeOK, Request, Effect, Numbers, Ledger, Counted
  <2> QED
    BY <2>1, <2>2 DEF Took, Queued
<1>3. Return(c, s, calls[c] + 1, FALSE, "INVALID_PARAMETER")
  BY DEF Reject
<1>4. pc[c] = "idle" /\ UNCHANGED <<system, inflight, executed>>
  BY DEF Reject
<1> QED
  BY <1>1, <1>2, <1>3, <1>4, ReturnInv DEF Errors

LEMMA LookupFindsInv ==
  ASSUME Inv, NEW c \in Clients, LookupFinds(c)
  PROVE  Inv'
<1>1. TypeOK'
  BY DEF LookupFinds, Usable, Inv, TypeOK, Steps, system
<1>2. /\ pc' = [pc EXCEPT ![c] = "send"] /\ pc \in [Clients -> Steps]
      /\ pc[c] = "lookup"
      /\ UNCHANGED <<calls, answer, inflight, executed, done>>
  BY DEF LookupFinds, Inv, TypeOK
<1>3. \A d \in done : d.client \in Clients
  BY DEF Inv, TypeOK, Result
<1>4. Ledger'
  BY <1>2, <1>3
  DEF Inv, Ledger, Counted, NotYetSent, Once, Answered, Over, Queued, Acted, Took, Astray
<1>5. ResultsAreTrue'
  BY <1>2 DEF Inv, ResultsAreTrue, Took, Astray
<1> QED
  BY <1>1, <1>4, <1>5 DEF Inv

LEMMA LookupFailsInv ==
  ASSUME Inv, NEW c \in Clients, LookupFails(c)
  PROVE  Inv'
<1>1. pc[c] = "lookup" /\ UNCHANGED <<system, calls, inflight, executed>>
  BY DEF LookupFails
<1>2. PICK code \in LookupError(c) :
        Return(c, stub[c], calls[c], FALSE,
               IF stub[c].absent = "module" THEN "CANNOT_FIND_MODULE" ELSE code)
  BY DEF LookupFails
<1>3. (IF stub[c].absent = "module" THEN "CANNOT_FIND_MODULE" ELSE code)
        \in Errors \cup {"kept"}
  BY DEF LookupError, Errors
<1>4. ~Took(c, calls[c]) /\ ~Queued(c, calls[c])
  BY <1>1 DEF Inv, Ledger, NotYetSent, Took, Acted
<1> QED
  BY <1>1, <1>2, <1>3, <1>4, InsideStub, ReturnInv

LEMMA SendInv ==
  ASSUME Inv, NEW c \in Clients, Send(c)
  PROVE  Inv'
<1> DEFINE r == [client |-> c, n |-> calls[c], pid |-> target[c], stub |-> stub[c]]
<1>1. /\ pc' = [pc EXCEPT ![c] = "wait"] /\ pc \in [Clients -> Steps]
      /\ pc[c] = "send"
      /\ inflight' = inflight \cup {r}
      /\ UNCHANGED <<calls, answer, executed, done>>
  BY DEF Send, Inv, TypeOK
<1>2. stub[c] \in Used /\ calls[c] \in Numbers /\ target[c] \in Pids
  BY <1>1, InsideStub DEF Inv, TypeOK
<1>3. r \in Request
  BY <1>2 DEF Request
<1>4. TypeOK'
  BY <1>1, <1>3 DEF Send, Inv, TypeOK, Steps, system
<1>5. ~Queued(c, calls[c]) /\ ~Acted(c, calls[c])
  BY <1>1 DEF Inv, Ledger, NotYetSent
<1>6. /\ \A d \in done : d.client \in Clients /\ ~(d.client = c /\ d.n = calls[c])
      /\ answer[c] = "none"
  BY <1>1 DEF Inv, TypeOK, Result, Ledger, Over, Answered
<1>7. r.client = c /\ r.n = calls[c]
  OBVIOUS
<1> HIDE DEF r
<1>8. Counted'
  BY <1>1, <1>2, <1>7 DEF Inv, Ledger, Counted, Numbers
<1>9. NotYetSent'
  BY <1>1, <1>7 DEF Inv, Ledger, NotYetSent, Queued, Acted
<1>10. Once'
  BY <1>1, <1>5, <1>7 DEF Inv, Ledger, Once, Queued, Acted
<1>11. Answered'
  BY <1>1, <1>6, <1>7 DEF Inv, Ledger, Answered, Queued, Took, Astray
<1>12. Over'
  BY <1>1, <1>6 DEF Inv, Ledger, Over
<1>13. ResultsAreTrue'
  BY <1>1, <1>6, <1>7 DEF Inv, ResultsAreTrue, Took, Astray
<1> QED
  BY <1>4, <1>8, <1>9, <1>10, <1>11, <1>12, <1>13 DEF Inv, Ledger

LEMMA SendFailsInv ==
  ASSUME Inv, NEW c \in Clients, SendFails(c)
  PROVE  Inv'
<1>1. pc[c] = "send" /\ UNCHANGED <<system, calls, inflight, executed>>
  BY DEF SendFails
<1>2. Return(c, stub[c], calls[c], FALSE, CallError(c, "SERVICE_UNAVAIL"))
  BY DEF SendFails
<1>3. CallError(c, "SERVICE_UNAVAIL") \in Errors \cup {"kept"}
  BY DEF CallError, Errors
<1>4. ~Took(c, calls[c]) /\ ~Queued(c, calls[c])
  BY <1>1 DEF Inv, Ledger, NotYetSent, Took, Acted
<1> QED
  BY <1>1, <1>2, <1>3, <1>4, InsideStub, ReturnInv

LEMMA TimeoutInv ==
  ASSUME Inv, NEW c \in Clients, Timeout(c)
  PROVE  Inv'
<1>1. pc[c] = "wait" /\ UNCHANGED <<system, calls, inflight, executed>>
  BY DEF Timeout
<1>2. Return(c, stub[c], calls[c], FALSE, CallError(c, "TIMEOUT"))
  BY DEF Timeout
<1>3. CallError(c, "TIMEOUT") \in {"kept", "TIMEOUT"}
  BY DEF CallError
<1> QED
  BY <1>1, <1>2, <1>3, InsideStub, ReturnInv DEF Errors

LEMMA ReceiveInv ==
  ASSUME Inv, NEW c \in Clients, Receive(c)
  PROVE  Inv'
<1>1. /\ pc[c] = "wait" /\ answer[c] # "none"
      /\ UNCHANGED <<system, calls, inflight, executed>>
  BY DEF Receive
<1>2. PICK ok \in Verdicts(stub[c], answer[c]) :
        Return(c, stub[c], calls[c], ok, AnswerError(stub[c], answer[c]))
  BY DEF Receive
<1>3. ok \in BOOLEAN
  BY <1>2 DEF Verdicts
<1>4. AnswerError(stub[c], answer[c]) \in Errors \cup {"kept"}
  BY DEF AnswerError, Errors
<1>5. ok /\ Judges(stub[c]) => Took(c, calls[c]) \/ Astray(c, calls[c])
  <2>1. Judges(stub[c]) => ok = (answer[c] = "ok")
    BY <1>2 DEF Judges, Verdicts
  <2> QED
    BY <1>1, <2>1 DEF Inv, Ledger, Answered
<1>6. ~ok /\ AnswerError(stub[c], answer[c]) \notin {"kept", "TIMEOUT"}
        => ~Took(c, calls[c]) /\ ~Queued(c, calls[c])
  BY <1>1 DEF AnswerError, Inv, Ledger, Answered
<1> QED
  BY <1>1, <1>2, <1>3, <1>4, <1>5, <1>6, InsideStub, ReturnInv

LEMMA ServeInv ==
  ASSUME Inv, NEW r \in inflight, NEW s \in Services, Serve(r, s)
  PROVE  Inv'
<1> DEFINE c == r.client
           m == r.n
<1>1. r \in Request /\ c \in Clients /\ m \in Numbers /\ r.stub \in Used
  BY DEF Inv, TypeOK, Request
<1>2. /\ inflight' = inflight \ {r}
      /\ UNCHANGED <<system, pc, stub, target, calls, lastErr, done>>
  BY DEF Serve
<1>3. ~Acted(c, m) /\ ~\E q \in inflight' : q.client = c /\ q.n = m
  BY <1>2 DEF Inv, Ledger, Once
<1>4. PICK status \in Statuses, seen \in Statuses, sent \in BOOLEAN :
        /\ IF r.stub.code \in CodesOf(s)
             THEN /\ executed' = executed \cup
                       {[client |-> r.client, n |-> r.n, service |-> r.stub.service,
                         as |-> s, status |-> status]}
                  /\ s = r.stub.service => seen = status
             ELSE seen = "error" /\ UNCHANGED executed
        /\ answer' = IF sent /\ Awaited(r)
                       THEN [answer EXCEPT ![r.client] = seen]
                       ELSE answer
  BY DEF Serve
<1> DEFINE e == [client |-> c, n |-> m, service |-> r.stub.service,
                 as |-> s, status |-> status]
<1>5. \/ executed' = executed \cup {e} /\ (e.as = e.service => seen = status)
      \/ seen = "error" /\ executed' = executed
  BY <1>4
<1>6. e.client = c /\ e.n = m /\ e.status = status
  OBVIOUS
<1>7. e \in Effect
  BY <1>1 DEF Effect
<1> HIDE DEF e
<1>8. TypeOK'
  <2>1. answer' \in [Clients -> Statuses \cup {"none"}]
    BY <1>1, <1>4 DEF Inv, TypeOK
  <2> QED
    BY <1>2, <1>5, <1>7, <2>1 DEF Inv, TypeOK, system
<1>9. m <= calls[c]
  BY DEF Inv, Ledger, Counted
<1>10. Counted'
  BY <1>2, <1>5, <1>6, <1>9 DEF Inv, Ledger, Counted
<1>11. NotYetSent'
  <2>1. ASSUME NEW k \in Clients, pc[k] \in {"lookup", "send"}
        PROVE  ~(k = c /\ calls[k] = m)
    BY <2>1 DEF Inv, Ledger, NotYetSent, Queued
  <2> QED
    BY <1>2, <1>5, <1>6, <2>1 DEF Inv, Ledger, NotYetSent, Queued, Acted
<1>12. Once'
  BY <1>2, <1>3, <1>5, <1>6 DEF Inv, Ledger, Once, Acted
<1>13. Answered'
  <2>1. /\ ~Took(c, m)
        /\ seen = "ok" => Took(c, m)' \/ Astray(c, m)'
        /\ seen = "error" => ~Took(c, m)'
    BY <1>3, <1>5, <1>6 DEF Took, Astray, Acted, Statuses
  <2>2. ASSUME NEW k \in Clients, answer'[k] # "none"
        PROVE  /\ pc'[k] = "wait"
               /\ ~Queued(k, calls[k])'
               /\ answer'[k] = "ok" => Took(k, calls[k])' \/ Astray(k, calls[k])'
               /\ answer'[k] = "error" => ~Took(k, calls[k])'
    <3>1. CASE k = c /\ calls[k] = m
      <4>1. answer[k] = "none"
        BY <3>1 DEF Inv, Ledger, Answered, Queued
      <4>2. Awaited(r) /\ answer'[k] = seen
        BY <1>1, <1>4, <2>2, <3>1, <4>1 DEF Inv, TypeOK
      <4>3. ~Queued(k, calls[k])'
        BY <1>2, <1>3, <3>1 DEF Queued
      <4>4. /\ seen = "ok" => Took(k, calls[k])' \/ Astray(k, calls[k])'
            /\ seen = "error" => ~Took(k, calls[k])'
        BY <1>2, <1>3, <1>5, <1>6, <3>1 DEF Took, Astray, Acted, Statuses
      <4> QED
        BY <1>2, <3>1, <4>2, <4>3, <4>4 DEF Awaited, Statuses
    <3>2. CASE ~(k = c /\ calls[k] = m)
      <4>1. answer'[k] = answer[k]
        BY <1>1, <1>4, <3>2 DEF Awaited, Inv, TypeOK
      <4>2. /\ Took(k, calls[k])' <=> Took(k, calls[k])
            /\ Astray(k, calls[k])' <=> Astray(k, calls[k])
        BY <1>2, <1>5, <1>6, <3>2 DEF Took, Astray
      <4> QED
        BY <1>2, <2>2, <4>1, <4>2 DEF Inv, Ledger, Answered, Queued
    <3> QED
      BY <3>1, <3>2
  <2> QED
    BY <1>2, <2>2 DEF Answered
<1>14. Over'
  BY <1>2 DEF Inv, Ledger, Over
<1>15. ResultsAreTrue'
  <2>1. \A d \in done : /\ Took(d.client, d.n) => Took(d.client, d.n)'
                        /\ Astray(d.client, d.n) => Astray(d.client, d.n)'
    BY <1>2, <1>5 DEF Took, Astray
  <2>2. \A d \in done : Final(d) => ~(d.client = c /\ d.n = m)
    BY DEF Inv, ResultsAreTrue
  <2>3. \A d \in done : Final(d) => ~Took(d.client, d.n)'
    BY <1>2, <1>5, <1>6, <2>2 DEF Took, Inv, ResultsAreTrue
  <2> QED
    BY <1>2, <2>1, <2>3 DEF Inv, ResultsAreTrue
<1> QED
  BY <1>8, <1>10, <1>11, <1>12, <1>13, <1>14, <1>15 DEF Inv, Ledger

(* Services that start, crash or change their listing, and idle steps. *)
LEMMA ElsewhereInv ==
  ASSUME Inv,
         \/ \E s \in Services, p \in Pids : Start(s, p)
         \/ \E s \in Services : Crash(s)
         \/ \E s \in Services : ChangeListing(s, instance[s])
         \/ \E s \in Services : ChangeListing(s, NoPid)
         \/ UNCHANGED vars
  PROVE  Inv'
<1>1. /\ inflight' \subseteq inflight
      /\ UNCHANGED <<pc, stub, target, calls, lastErr, answer, executed, done>>
  BY DEF Start, Crash, ChangeListing, vars
<1>2. /\ instance' \in [Services -> Pids \cup {NoPid}]
      /\ listed' \in [Services -> Pids \cup {NoPid}]
  BY DEF Start, Crash, ChangeListing, vars, Inv, TypeOK
<1>3. TypeOK'
  BY <1>1, <1>2 DEF Inv, TypeOK
<1>4. Ledger'
  BY <1>1 DEF Inv, Ledger, Counted, NotYetSent, Once, Answered, Over, Queued, Acted,
              Took, Astray
<1>5. ResultsAreTrue'
  BY <1>1 DEF Inv, ResultsAreTrue, Took, Astray
<1> QED
  BY <1>3, <1>4, <1>5 DEF Inv

LEMMA NextInv == Inv /\ [Next]_vars => Inv'
<1> SUFFICES ASSUME Inv, [Next]_vars PROVE Inv'
  OBVIOUS
<1>1. ASSUME NEW c \in Clients, ClientStep(c) PROVE Inv'
  BY <1>1, EnterInv, RejectInv, LookupFindsInv, LookupFailsInv, SendInv,
     SendFailsInv, TimeoutInv, ReceiveInv DEF ClientStep
<1>2. CASE Environment
  BY <1>2, ServeInv, ElsewhereInv DEF Environment
<1>3. CASE UNCHANGED vars
  BY <1>3, ElsewhereInv
<1> QED
  BY <1>1, <1>2, <1>3 DEF Next

LEMMA Invariance == Spec => []Inv
  BY InitInv, NextInv, PTL DEF Spec

(* The state of clients, services and requests always has its types; in     *)
(* particular no stub sends to pid 0, what the lookup returns on failure.   *)
THEOREM TypesHold == Spec => []TypeOK
<1>1. Inv => TypeOK
  BY DEF Inv
<1> QED
  BY <1>1, Invariance, PTL

(* For every mix of stubs, clients, crashes and restarts: a call reported as *)
(* a success was carried out by the service it was for, or a service that    *)
(* has taken over the pid took it for its own; a call that failed with any   *)
(* code but a timeout was not carried out by its service and will not be.    *)
THEOREM ResultsAlwaysTrue == Spec => []ResultsAreTrue
<1>1. Inv => ResultsAreTrue
  BY DEF Inv
<1> QED
  BY <1>1, Invariance, PTL

------------------------------------------------------------------------------
(* Whom a request can reach.  The codes of the services do not overlap, but *)
(* for two pairs, as the 22 records say.                                    *)

LEMMA CodeRanges ==
  ASSUME NEW x \in AllStubs
  PROVE  \/ x.service = "file_control"    /\ x.code \in \h1001 .. \h1005
         \/ x.service = "memory_manager"  /\ x.code \in \h2001 .. \h2005
         \/ x.service = "process_service" /\ x.code \in \h2001 .. \h2005
         \/ x.service = "file_service"    /\ x.code \in \h3001 .. \h3005
         \/ x.service = "time_service"    /\ x.code = \h4001
         \/ x.service = "signal_service"  /\ x.code \in \h5001 .. \h5002
         \/ x.service = "pipe_service"    /\ x.code \in \h6001 .. \h6002
  BY DEF AllStubs, Stub, FileStub, ProcessStub, FsStub, FileOpen, FileRead, FileWrite,
         FileClose, FileGetLength, Malloc, Free, Realloc, Fork, Execve, Waitpid, Getppid,
         Stat, Access, Unlink, Chdir, Getcwd, Time, Signal, Kill, Pipe, Dup2

LEMMA Confusable ==
  ASSUME NEW x \in AllStubs, NEW s, x.code \in CodesOf(s), s # x.service
  PROVE  {s, x.service} \in {{"memory_manager", "process_service"},
                             {"file_service", "rui_service"}}
<1>1. CASE s = "rui_service"
  <2>1. x.code \in \h3001 .. \h3005
    BY <1>1 DEF CodesOf, RuiCodes
  <2>2. x.service = "file_service"
    BY <2>1, CodeRanges
  <2> QED
    BY <1>1, <2>2
<1>2. CASE s # "rui_service"
  <2>1. PICK y \in AllStubs : y.service = s /\ y.code = x.code
    BY <1>2 DEF CodesOf
  <2>2. \/ x.service = "memory_manager" /\ y.service = "process_service"
        \/ y.service = "memory_manager" /\ x.service = "process_service"
        \/ x.service = y.service
    BY <2>1, CodeRanges
  <2> QED
    BY <2>1, <2>2
<1> QED
  BY <1>1, <1>2

(* A request that reaches a process under a reused pid is acted on by the   *)
(* wrong service only for the two pairs that share command codes            *)
(* (src/src/men/men.c:17, src/src/process/process.c:11;                     *)
(* src/src/filesystem/filesystem.c:11, src/include/eclib/rui.h:10), however *)
(* services crash, restart and swap pids.                                   *)
THEOREM AlwaysServedByItsOwn == Spec => []ServedByItsOwn
<1>1. Init => ServedByItsOwn
  BY DEF Init, ServedByItsOwn
<1>2. Inv /\ ServedByItsOwn /\ [Next]_vars => ServedByItsOwn'
  <2> SUFFICES ASSUME Inv, ServedByItsOwn, [Next]_vars PROVE ServedByItsOwn'
    OBVIOUS
  <2>1. CASE executed' = executed
    BY <2>1 DEF ServedByItsOwn
  <2>2. ASSUME NEW r \in inflight, NEW s \in Services, Serve(r, s), executed' # executed
        PROVE  ServedByItsOwn'
    <3>1. r.stub \in AllStubs
      BY DEF Inv, TypeOK, Request
    <3>2. PICK status \in Statuses :
            /\ r.stub.code \in CodesOf(s)
            /\ executed' = executed \cup
                 {[client |-> r.client, n |-> r.n, service |-> r.stub.service,
                   as |-> s, status |-> status]}
      BY <2>2 DEF Serve
    <3>3. s # r.stub.service =>
            {s, r.stub.service} \in {{"memory_manager", "process_service"},
                                     {"file_service", "rui_service"}}
      BY <3>1, <3>2, Confusable
    <3> QED
      BY <3>2, <3>3 DEF ServedByItsOwn
  <2>3. (\E r \in inflight, s \in Services : Serve(r, s)) \/ executed' = executed
    BY DEF Next, ClientStep, Environment, Enter, Reject, LookupFinds, LookupFails, Send,
           SendFails, Timeout, Receive, Start, Crash, ChangeListing, vars
  <2> QED
    BY <2>1, <2>2, <2>3
<1> QED
  BY <1>1, <1>2, Invariance, PTL DEF Spec

------------------------------------------------------------------------------
(* What a failure leaves behind. *)

WithCodes == {"file_control", "memory_manager"}

LEMMA StoresCodes ==
  ASSUME NEW x \in AllStubs, x.service \in WithCodes
  PROVE  x.absent = "module" /\ x.stores = TRUE /\ x.reply \in {"checked", "none"}
  BY DEF WithCodes, AllStubs, Stub, FileStub, ProcessStub, FsStub, FileOpen, FileRead,
         FileWrite, FileClose, FileGetLength, Malloc, Free, Realloc, Fork, Execve, Waitpid,
         Getppid, Stat, Access, Unlink, Chdir, Getcwd, Time, Signal, Kill, Pipe, Dup2

(* A return keeps the property if a failure comes with a code. *)
LEMMA ReturnHasCode ==
  ASSUME FailureHasCode, NEW c, NEW s, NEW n, NEW ok \in BOOLEAN, NEW code,
         Return(c, s, n, ok, code),
         ~ok /\ s.service \in WithCodes => code \notin {"kept", "OK"}
  PROVE  FailureHasCode'
<1> DEFINE new == [client |-> c, n |-> n, stub |-> s, ok |-> ok,
                   err |-> IF code = "kept" THEN lastErr[c] ELSE code,
                   fresh |-> code # "kept"]
<1>1. done' = done \cup {new}
  BY DEF Return
<1>2. new.ok = ok /\ new.stub = s
  OBVIOUS
<1>3. ~ok /\ s.service \in WithCodes => new.fresh /\ new.err # "OK"
  OBVIOUS
<1> HIDE DEF new
<1> QED
  BY <1>1, <1>2, <1>3 DEF FailureHasCode, WithCodes

(* Every failing function of file.h and men.h leaves a code that this call  *)
(* stored and that is not OK, wherever in the call it fails                 *)
(* (src/include/eclib/file.h:109).                                          *)
THEOREM FailureAlwaysHasCode == Spec => []FailureHasCode
<1>1. Init => FailureHasCode
  BY DEF Init, FailureHasCode
<1>2. Inv /\ FailureHasCode /\ [Next]_vars => FailureHasCode'
  <2> SUFFICES ASSUME Inv, FailureHasCode, [Next]_vars PROVE FailureHasCode'
    OBVIOUS
  <2>1. CASE done' = done
    BY <2>1 DEF FailureHasCode
  <2>2. ASSUME NEW c \in Clients, NEW s \in Used, Reject(c, s) PROVE FailureHasCode'
    BY <2>2, ReturnHasCode DEF Reject
  <2>3. ASSUME NEW c \in Clients, pc[c] # "idle", stub[c].service \in WithCodes
        PROVE  /\ stub[c].absent = "module" /\ stub[c].stores = TRUE
               /\ stub[c].reply \in {"checked", "none"}
    BY <2>3, InsideStub, StoresCodes
  <2>4. ASSUME NEW c \in Clients, LookupFails(c) PROVE FailureHasCode'
    <3>1. PICK code :
            Return(c, stub[c], calls[c], FALSE,
                   IF stub[c].absent = "module" THEN "CANNOT_FIND_MODULE" ELSE code)
      BY <2>4 DEF LookupFails
    <3>2. pc[c] # "idle"
      BY <2>4 DEF LookupFails
    <3> QED
      BY <2>3, <3>1, <3>2, ReturnHasCode
  <2>5. ASSUME NEW c \in Clients, SendFails(c) \/ Timeout(c) PROVE FailureHasCode'
    <3>1. PICK err \in {"SERVICE_UNAVAIL", "TIMEOUT"} :
            Return(c, stub[c], calls[c], FALSE, CallError(c, err))
      BY <2>5 DEF SendFails, Timeout
    <3>2. pc[c] # "idle"
      BY <2>5 DEF SendFails, Timeout
    <3>3. stub[c].service \in WithCodes => CallError(c, err) \notin {"kept", "OK"}
      BY <2>3, <3>2 DEF CallError
    <3> QED
      BY <3>1, <3>3, ReturnHasCode
  <2>6. ASSUME NEW c \in Clients, Receive(c) PROVE FailureHasCode'
    <3>1. PICK ok \in Verdicts(stub[c], answer[c]) :
            Return(c, stub[c], calls[c], ok, AnswerError(stub[c], answer[c]))
      BY <2>6 DEF Receive
    <3>2. pc[c] # "idle" /\ answer[c] \in Statuses
      BY <2>6 DEF Receive, Inv, TypeOK
    <3>3. ok \in BOOLEAN
      BY <3>1 DEF Verdicts
    <3>4. ASSUME ~ok, stub[c].service \in WithCodes
          PROVE  AnswerError(stub[c], answer[c]) = "SERVER"
      <4>1. stub[c].reply \in {"checked", "none"}
        BY <2>3, <3>2, <3>4
      <4>2. stub[c].reply = "checked"
        BY <3>4, <4>1 DEF Verdicts
      <4>3. answer[c] # "ok"
        BY <3>1, <3>4, <4>2 DEF Verdicts
      <4> QED
        BY <3>2, <4>2, <4>3 DEF AnswerError, Statuses
    <3> QED
      BY <3>1, <3>3, <3>4, ReturnHasCode
  <2>7. ASSUME NEW c \in Clients, ClientStep(c) PROVE FailureHasCode'
    <3>1. (\E s \in Used : Enter(c, s)) \/ LookupFinds(c) \/ Send(c) => done' = done
      BY DEF Enter, LookupFinds, Send
    <3> QED
      BY <2>1, <2>2, <2>4, <2>5, <2>6, <2>7, <3>1 DEF ClientStep
  <2>8. Environment \/ UNCHANGED vars => done' = done
    BY DEF Environment, Serve, Start, Crash, ChangeListing, vars
  <2> QED
    BY <2>1, <2>7, <2>8 DEF Next
<1> QED
  BY <1>1, <1>2, Invariance, PTL DEF Spec

------------------------------------------------------------------------------
(* The refinement.  A call has one result at most, so OutcomeOf reads it.   *)

LEMMA OutcomeKnown ==
  ASSUME Inv, NEW d \in done
  PROVE  OutcomeOf(<<d.client, d.n>>) = Knows(d)
<1> DEFINE k == <<d.client, d.n>>
           f == CHOOSE x \in done : <<x.client, x.n>> = k
<1>1. f \in done /\ <<f.client, f.n>> = k
  OBVIOUS
<1>2. f = d
  BY <1>1 DEF Inv, Ledger, Over
<1>3. OutcomeOf(k) = Knows(f)
  BY DEF OutcomeOf
<1> QED
  BY <1>2, <1>3

(* Steps that add neither a result nor an effect. *)
LEMMA SameOutcomes ==
  ASSUME UNCHANGED done,
         \A c \in Clients, n \in Numbers : /\ Took(c, n)' <=> Took(c, n)
                                           /\ Astray(c, n)' <=> Astray(c, n)
  PROVE  UNCHANGED Remote!vars
<1>1. \A k \in Clients \X Numbers : OutcomeOf(k)' = OutcomeOf(k)
  BY DEF OutcomeOf, Knows, Final, Judges
<1>2. [k \in Clients \X Numbers |-> OutcomeOf(k)]'
        = [k \in Clients \X Numbers |-> OutcomeOf(k)]
  BY <1>1
<1>3. {k \in Clients \X Numbers : Took(k[1], k[2])}'
        = {k \in Clients \X Numbers : Took(k[1], k[2])}
  <2>1. \A k \in Clients \X Numbers : Took(k[1], k[2])' <=> Took(k[1], k[2])
    OBVIOUS
  <2> QED
    BY <2>1
<1>4. {k \in Clients \X Numbers : Astray(k[1], k[2])}'
        = {k \in Clients \X Numbers : Astray(k[1], k[2])}
  <2>1. \A k \in Clients \X Numbers : Astray(k[1], k[2])' <=> Astray(k[1], k[2])
    OBVIOUS
  <2> QED
    BY <2>1
<1> QED
  BY <1>2, <1>3, <1>4 DEF Remote!vars

(* A return is a report, of a call that had reported nothing. *)
LEMMA ReturnRefines ==
  ASSUME Inv, Inv',
         NEW c \in Clients, NEW s \in Used, NEW n \in Numbers,
         NEW ok \in BOOLEAN, NEW code \in Errors \cup {"kept"},
         Return(c, s, n, ok, code),
         UNCHANGED executed,
         (pc[c] # "idle" /\ n = calls[c]) \/ n = calls[c] + 1
  PROVE  Remote!Next
<1> DEFINE K   == Clients \X Numbers
           k   == <<c, n>>
<1>1. PICK new : done' = done \cup {new} /\ new.client = c /\ new.n = n
  <2> DEFINE x == [client |-> c, n |-> n, stub |-> s, ok |-> ok,
                   err |-> IF code = "kept" THEN lastErr[c] ELSE code,
                   fresh |-> code # "kept"]
  <2>1. done' = done \cup {x} /\ x.client = c /\ x.n = n
    BY DEF Return
  <2> HIDE DEF x
  <2> QED
    BY <2>1
<1>2. \A d \in done : ~(d.client = c /\ d.n = n)
  <2>1. \A d \in done : d.n \in Nat /\ d.n <= calls[d.client]
    BY DEF Inv, TypeOK, Result, Numbers, Ledger, Counted
  <2>2. calls[c] \in Nat
    BY DEF Inv, TypeOK
  <2> QED
    BY <2>1, <2>2 DEF Inv, Ledger, Over
<1>3. OutcomeOf(k) = "pending"
  BY <1>2 DEF OutcomeOf
<1>4. OutcomeOf(k)' = Knows(new)
  <2>1. new \in done' /\ \A d \in done' : <<d.client, d.n>> = k => d = new
    BY <1>1, <1>2
  <2>2. (CHOOSE d \in done' : <<d.client, d.n>> = k) = new
    BY <1>1, <2>1
  <2> QED
    BY <1>1, <2>1, <2>2 DEF OutcomeOf, Knows, Final, Judges
<1>5. \A j \in K \ {k} : OutcomeOf(j)' = OutcomeOf(j)
  <2> SUFFICES ASSUME NEW j \in K \ {k} PROVE OutcomeOf(j)' = OutcomeOf(j)
    OBVIOUS
  <2>1. \A d : d \in done' /\ <<d.client, d.n>> = j
               <=> d \in done /\ <<d.client, d.n>> = j
    BY <1>1
  <2> QED
    BY <2>1 DEF OutcomeOf, Knows, Final, Judges
<1>6. \A d \in done' : /\ Knows(d) = "success" => \/ Took(d.client, d.n)'
                                                  \/ Astray(d.client, d.n)'
                       /\ Knows(d) = "refused" => ~Took(d.client, d.n)'
  BY DEF Inv, ResultsAreTrue, Knows
<1>7. /\ Took(c, n)' <=> Took(c, n)
      /\ Astray(c, n)' <=> Astray(c, n)
  BY DEF Took, Astray
<1>8. k \in K
  OBVIOUS
<1>9. Knows(new) \in Remote!Outcomes \ {"pending"}
  BY DEF Knows, Remote!Outcomes
<1>10. Remote!Report(k, Knows(new))
  <2>1. [j \in K |-> OutcomeOf(j)]'
          = [[j \in K |-> OutcomeOf(j)] EXCEPT ![k] = Knows(new)]
    BY <1>4, <1>5, <1>8
  <2>2. /\ {j \in K : Took(j[1], j[2])}' = {j \in K : Took(j[1], j[2])}
        /\ {j \in K : Astray(j[1], j[2])}' = {j \in K : Astray(j[1], j[2])}
    BY DEF Took, Astray
  <2>3. /\ Knows(new) = "success" => k \in {j \in K : Took(j[1], j[2])}
                                        \cup {j \in K : Astray(j[1], j[2])}
        /\ Knows(new) = "refused" => k \notin {j \in K : Took(j[1], j[2])}
    BY <1>1, <1>6, <1>7, <1>8
  <2> QED
    BY <1>3, <1>8, <2>1, <2>2, <2>3 DEF Remote!Report
<1> QED
  BY <1>8, <1>9, <1>10 DEF Remote!Next

(* A call that is acted on was not refused and did not succeed before: it   *)
(* takes effect, goes astray, or is answered with an error.                 *)
LEMMA ServeRefines ==
  ASSUME Inv, NEW r \in inflight, NEW s \in Services, Serve(r, s)
  PROVE  Remote!Next \/ UNCHANGED Remote!vars
<1> DEFINE K == Clients \X Numbers
           k == <<r.client, r.n>>
           effects == {j \in K : Took(j[1], j[2])}
           astray  == {j \in K : Astray(j[1], j[2])}
           new(status) == [client |-> r.client, n |-> r.n, service |-> r.stub.service,
                           as |-> s, status |-> status]
<1>1. k \in K /\ UNCHANGED done
  BY DEF Serve, Inv, TypeOK, Request
<1>2. PICK status \in Statuses :
        executed' = executed \cup {new(status)} \/ UNCHANGED executed
  BY DEF Serve
<1>3. CASE UNCHANGED executed
  BY <1>1, <1>3, SameOutcomes DEF Took, Astray
<1>4. CASE executed' = executed \cup {new(status)}
  <2>1. PICK e : /\ executed' = executed \cup {e} /\ e.client = r.client /\ e.n = r.n
                 /\ e.status = status
    <3> DEFINE x == new(status)
    <3>1. /\ executed' = executed \cup {x} /\ x.client = r.client /\ x.n = r.n
          /\ x.status = status
      BY <1>4
    <3> HIDE DEF x
    <3> QED
      BY <3>1
  <2>2. ~Took(r.client, r.n) /\ ~Astray(r.client, r.n)
    BY DEF Inv, Ledger, Once, Acted, Took, Astray
  <2>3. OutcomeOf(k) \in {"pending", "unknown"}
    <3>1. CASE \E d \in done : <<d.client, d.n>> = k
      <4>1. PICK d \in done : <<d.client, d.n>> = k
        BY <3>1
      <4>2. Knows(d) = "unknown"
        BY <2>2, <4>1 DEF Inv, ResultsAreTrue, Knows
      <4> QED
        BY <4>1, <4>2, OutcomeKnown
    <3>2. CASE ~\E d \in done : <<d.client, d.n>> = k
      BY <3>2 DEF OutcomeOf
    <3> QED
      BY <3>1, <3>2
  <2>4. [j \in K |-> OutcomeOf(j)]' = [j \in K |-> OutcomeOf(j)]
    <3>1. \A j \in K : OutcomeOf(j)' = OutcomeOf(j)
      BY <1>1 DEF OutcomeOf, Knows, Final, Judges
    <3> QED
      BY <3>1
  <2>5. \A j \in K : j = k <=> j[1] = r.client /\ j[2] = r.n
    OBVIOUS
  <2>6. k \notin effects /\ k \notin astray
    BY <2>2
  <2>7. CASE e.as = e.service /\ status = "ok"
    <3>1. \A c, n : /\ Took(c, n)' <=> Took(c, n) \/ (c = r.client /\ n = r.n)
                    /\ Astray(c, n)' <=> Astray(c, n)
      BY <2>1, <2>7 DEF Took, Astray
    <3>2. effects' = effects \cup {k} /\ astray' = astray
      BY <1>1, <2>5, <3>1
    <3>3. Remote!TakeEffect(k)
      BY <1>1, <2>3, <2>4, <2>6, <3>2 DEF Remote!TakeEffect, Remote!Open
    <3> QED
      BY <1>1, <3>3 DEF Remote!Next
  <2>8. CASE e.as # e.service
    <3>1. \A c, n : /\ Took(c, n)' <=> Took(c, n)
                    /\ Astray(c, n)' <=> Astray(c, n) \/ (c = r.client /\ n = r.n)
      BY <2>1, <2>8 DEF Took, Astray
    <3>2. astray' = astray \cup {k} /\ effects' = effects
      BY <1>1, <2>5, <3>1
    <3>3. Remote!GoAstray(k)
      BY <1>1, <2>3, <2>4, <2>6, <3>2 DEF Remote!GoAstray, Remote!Open
    <3> QED
      BY <1>1, <3>3 DEF Remote!Next
  <2>9. CASE e.as = e.service /\ status # "ok"
    <3>1. \A c \in Clients, n \in Numbers : /\ Took(c, n)' <=> Took(c, n)
                                            /\ Astray(c, n)' <=> Astray(c, n)
      BY <2>1, <2>9 DEF Took, Astray
    <3> QED
      BY <1>1, <3>1, SameOutcomes
  <2> QED
    BY <2>7, <2>8, <2>9
<1> QED
  BY <1>2, <1>3, <1>4

LEMMA ClientRefines ==
  ASSUME Inv, Inv', NEW c \in Clients, ClientStep(c)
  PROVE  Remote!Next \/ UNCHANGED Remote!vars
<1>1. CASE UNCHANGED <<done, executed>>
  BY <1>1, SameOutcomes DEF Took, Astray
<1>2. ASSUME NEW s \in Used, Reject(c, s)
      PROVE  Remote!Next
  <2>1. calls[c] + 1 \in Numbers
    BY <1>2 DEF Reject, Inv, TypeOK, Numbers
  <2> QED
    BY <1>2, <2>1, ReturnRefines DEF Reject, Errors
<1>3. ASSUME pc[c] # "idle", UNCHANGED executed,
             NEW ok \in BOOLEAN, NEW code \in Errors \cup {"kept"},
             Return(c, stub[c], calls[c], ok, code)
      PROVE  Remote!Next
  BY <1>3, InsideStub, ReturnRefines
<1>4. CASE LookupFails(c)
  BY <1>3, <1>4 DEF LookupFails, LookupError, Errors
<1>5. CASE SendFails(c)
  BY <1>3, <1>5 DEF SendFails, CallError, Errors
<1>6. CASE Timeout(c)
  BY <1>3, <1>6 DEF Timeout, CallError, Errors
<1>7. CASE Receive(c)
  <2>1. \A ok \in Verdicts(stub[c], answer[c]) : ok \in BOOLEAN
    BY DEF Verdicts
  <2>2. AnswerError(stub[c], answer[c]) \in Errors \cup {"kept"}
    BY DEF AnswerError, Errors
  <2> QED
    BY <1>3, <1>7, <2>1, <2>2 DEF Receive
<1> QED
  BY <1>1, <1>2, <1>4, <1>5, <1>6, <1>7
  DEF ClientStep, Enter, LookupFinds, Send

(* The library implements RemoteCall: whatever services do, each call takes *)
(* effect at the service it is for at most once, and does not if another    *)
(* service acted on it; it reports success only after one of the two, and a *)
(* refusal only when its service did not and never will carry it out.       *)
THEOREM Refinement == Spec => ImplementsRemoteCall
<1>1. Init => Remote!Init
  <2> SUFFICES ASSUME Init PROVE Remote!Init
    OBVIOUS
  <2>1. \A k \in Clients \X Numbers :
          OutcomeOf(k) = "pending" /\ ~Took(k[1], k[2]) /\ ~Astray(k[1], k[2])
    BY DEF Init, OutcomeOf, Took, Astray
  <2> QED
    BY <2>1 DEF Remote!Init
<1>2. Inv /\ Inv' /\ [Next]_vars => [Remote!Next]_(Remote!vars)
  <2> SUFFICES ASSUME Inv, Inv', [Next]_vars
               PROVE  Remote!Next \/ UNCHANGED Remote!vars
    OBVIOUS
  <2>1. CASE UNCHANGED <<done, executed>>
    BY <2>1, SameOutcomes DEF Took, Astray
  <2> QED
    BY <2>1, ClientRefines, ServeRefines
    DEF Next, Environment, Start, Crash, ChangeListing, vars
<1> QED
  BY <1>1, <1>2, Invariance, PTL DEF Spec, ImplementsRemoteCall, Remote!Spec

==============================================================================
