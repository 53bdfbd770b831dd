------------------------------ MODULE Capability ------------------------------
(***************************************************************************)
(* Capability tokens, src/capability.c.  The kernel grants a token by      *)
(* handing out the address of a record; the library writes the owner into  *)
(* it, and wipes the record when the token was released.                   *)
(*                                                                         *)
(* Callers pass tokens they hold; that is until a release_capability       *)
(* answers 0, so two threads may release one token at once.  External: the *)
(* kernel, which grants an address again after its release and releases    *)
(* what is out, and the clock.                                             *)
(***************************************************************************)
EXTENDS Messages

CONSTANTS
  Tokens, \* addresses of token records
  MaxNow  \* bound on the clock; a token is valid for one tick

NoToken == "no token"

ASSUME CapabilityAssumption == MaxNow \in Nat /\ NoToken \notin Tokens

VARIABLES
  now,
  granted, \* the tokens that are out, as the kernel counts
  rec,     \* the record at each address
  held,    \* the tokens the callers have
  reused,  \* those granted while a thread still worked on the address
  token    \* the token each thread is at work on

tokens == <<now, granted, rec, held, reused, token>>

Record == [owned : BOOLEAN, validUntil : 0 .. MaxNow + 1]
Wiped  == [owned |-> FALSE, validUntil |-> 0]

CapabilityTypeOK ==
  /\ now \in 0 .. MaxNow
  /\ granted \subseteq Tokens
  /\ rec \in [Tokens -> Record]
  /\ held \subseteq Tokens
  /\ reused \subseteq Tokens
  /\ token \in [Threads -> Tokens \cup {NoToken}]

CapabilityInit ==
  /\ now = 0
  /\ granted = {}
  /\ rec = [k \in Tokens |-> Wiped]
  /\ held = {}
  /\ reused = {}
  /\ token = [t \in Threads |-> NoToken]

Drop(t) == token' = [token EXCEPT ![t] = NoToken]

Begin(t, f, k, step) ==
  /\ Enter(t, f, step)
  /\ token' = [token EXCEPT ![t] = k]

Tick ==
  /\ ~crashed /\ now < MaxNow
  /\ now' = now + 1
  /\ UNCHANGED <<threads, granted, rec, held, reused, token>>

------------------------------------------------------------------------------
Acquire(t) ==
  /\ Begin(t, "acquire_capability", NoToken, "acquire")
  /\ UNCHANGED <<now, granted, rec, held, reused>>

(* A null description, or a null token. *)
RejectNull(t) ==
  /\ \E f \in Owning : Reject(t, f)
  /\ UNCHANGED tokens

(* A thread that writes to the record, or asks for its release. *)
InUse(k) == \E t \in Threads : pc[t] \in {"own", "release", "wipe"} /\ token[t] = k

Grant(t) ==
  /\ pc[t] = "acquire"
  /\ \E k \in Tokens \ granted :
       /\ granted' = granted \cup {k}
       /\ rec' = [rec EXCEPT ![k] = [owned |-> FALSE, validUntil |-> now + 1]]
       /\ reused' = IF InUse(k) THEN reused \cup {k} ELSE reused \ {k}
       /\ token' = [token EXCEPT ![t] = k]
  /\ Goto(t, "own")
  /\ UNCHANGED <<now, held>>

(* The kernel refuses with 0, which the caller gets as a null pointer. *)
GrantRefused(t) ==
  /\ pc[t] = "acquire"
  /\ Leave(t)
  /\ UNCHANGED tokens

(* It refuses with -1, which is not null: the owner is written to the      *)
(* fields behind that address.                                             *)
GrantFails(t) ==
  /\ pc[t] = "acquire"
  /\ Crash
  /\ UNCHANGED tokens

Own(t) ==
  /\ pc[t] = "own"
  /\ rec' = [rec EXCEPT ![token[t]].owned = TRUE]
  /\ held' = held \cup {token[t]}
  /\ Drop(t)
  /\ Leave(t)
  /\ UNCHANGED <<now, granted, reused>>

(* The owner is checked here, and not again. *)
Release(t, k) ==
  /\ k \in held /\ rec[k].owned
  /\ Begin(t, "release_capability", k, "release")
  /\ UNCHANGED <<now, granted, rec, held, reused>>

(* The record does not name this process: the token stays where it is.     *)
NotOwner(t, k) ==
  /\ k \in held /\ ~rec[k].owned
  /\ \E f \in {"release_capability", "send_token_to_virtual_port"} : Reject(t, f)
  /\ UNCHANGED tokens

Wipes_Always(released) == TRUE

Wipes(released) == released

AskKernel(t) ==
  /\ pc[t] = "release"
  /\ \E released \in BOOLEAN :
       /\ released => token[t] \in granted
       /\ granted' = IF released THEN granted \ {token[t]} ELSE granted
       /\ IF Wipes(released)
            THEN Goto(t, "wipe") /\ UNCHANGED token
            ELSE Leave(t) /\ Drop(t)
  /\ UNCHANGED <<now, rec, held, reused>>

(* The memset; release_capability answers 0.  A caller that got the        *)
(* address anew keeps it.                                                  *)
Wipe(t) ==
  /\ pc[t] = "wipe"
  /\ rec' = [rec EXCEPT ![token[t]] = Wiped]
  /\ held' = IF token[t] \in reused THEN held ELSE held \ {token[t]}
  /\ Drop(t)
  /\ Leave(t)
  /\ UNCHANGED <<now, granted, reused>>

Send(t, k) ==
  /\ k \in held /\ rec[k].owned /\ now <= rec[k].validUntil
  /\ Begin(t, "send_token_to_virtual_port", k, "send")
  /\ UNCHANGED <<now, granted, rec, held, reused>>

Expired(t, k) ==
  /\ k \in held /\ rec[k].owned /\ now > rec[k].validUntil
  /\ Reject(t, "send_token_to_virtual_port")
  /\ UNCHANGED tokens

(* The kernel takes the token for the port, or refuses. *)
SendToPort(t) ==
  /\ pc[t] = "send"
  /\ Drop(t)
  /\ Leave(t)
  /\ UNCHANGED <<now, granted, rec, held, reused>>

CapabilityStep(t) ==
  \/ Acquire(t) \/ RejectNull(t) \/ Grant(t) \/ GrantRefused(t) \/ GrantFails(t) \/ Own(t)
  \/ \E k \in Tokens : Release(t, k) \/ NotOwner(t, k) \/ Send(t, k) \/ Expired(t, k)
  \/ AskKernel(t) \/ Wipe(t) \/ SendToPort(t)

------------------------------------------------------------------------------
(* Every token that is out at the kernel can be used and, in the end,      *)
(* released: its record names this process and carries the time the kernel *)
(* gave it, or acquire_capability is about to write the owner; and callers *)
(* hold no token that is not out, but for one whose release is about to    *)
(* wipe it.  That two threads release the same token does no harm as such: *)
(* the kernel refuses the second.  The exception is an address the kernel  *)
(* granted again while a thread was still at work on the old token         *)
(* (src/src/capability.c:43-51): the second release then takes the new     *)
(* holder's token away, and the late memset wipes its record, so that      *)
(* release_capability answers -2 from then on.                             *)
TokensUsable ==
  /\ \A k \in held \ reused :
       k \in granted \/ \E t \in Threads : pc[t] = "wipe" /\ token[t] = k
  /\ \A k \in granted \ reused :
       \/ rec[k].owned /\ rec[k].validUntil > 0
       \/ \E t \in Threads : pc[t] = "own" /\ token[t] = k
==============================================================================
