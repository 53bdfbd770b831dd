-------------------------------- MODULE EnvMap --------------------------------
(***************************************************************************)
(* What the environment of src/env/env.c promises: a map from names to     *)
(* values.  A call changes one variable or none, and its result says       *)
(* which; when memory runs out nothing has changed.                        *)
(*                                                                         *)
(* A name with "=" in it stands for a name and the beginning of a value:   *)
(* setenv refuses it, unsetenv takes it at its word.                       *)
(***************************************************************************)
EXTENDS Integers

CONSTANTS
  Names,  \* names without "="
  Values,
  Parts,  \* what callers write after a "=" in a name
  NoPart, \* no "=" in the name
  Starts, \* <<part, value>>: the value continues the part with a "="
  Null

VARIABLES
  env, \* the value of each name, Null where it has none
  last \* the last call and its result

vars == <<env, last>>

Call(op, n, p, v, o, ret) ==
  [op |-> op, name |-> n, part |-> p, value |-> v, overwrite |-> o, ret |-> ret]

(* A setenv refused for its arguments, which are not told apart then.      *)
Refused == Call("setenv", Null, NoPart, Null, FALSE, -1)

Init ==
  /\ env = [n \in Names |-> Null]
  /\ last = Call("none", Null, NoPart, Null, FALSE, 0)

Keep == UNCHANGED env

Proper(n, p, v) == n # Null /\ p = NoPart /\ v # Null

(* Whether setenv is to write, given what the name has now. *)
Wanted(n, o) == o \/ env[n] = Null

Set(n, p, v, o) ==
  \E ret \in {0, -1} :
    /\ last' = IF Proper(n, p, v) THEN Call("setenv", n, p, v, o, ret) ELSE Refused
    /\ \/ ~Proper(n, p, v) /\ ret = -1 /\ Keep
       \/ Proper(n, p, v) /\ ~Wanted(n, o) /\ ret = 0 /\ Keep
       \/ Proper(n, p, v) /\ Wanted(n, o) /\ ret = 0 /\ env' = [env EXCEPT ![n] = v]
       \/ Proper(n, p, v) /\ Wanted(n, o) /\ ret = -1 /\ Keep

Meant(n, p) == n # Null /\ env[n] # Null /\ (p = NoPart \/ <<p, env[n]>> \in Starts)

Unset(n, p) ==
  \E ret \in {0, -1} :
    /\ last' = Call("unsetenv", n, p, Null, FALSE, ret)
    /\ \/ n = Null /\ ret = -1 /\ Keep
       \/ (\A m \in Names : env[m] = Null) /\ ret = -1 /\ Keep
       \/ n # Null /\ ~Meant(n, p) /\ ret = 0 /\ Keep
       \/ Meant(n, p) /\ ret = 0 /\ env' = [env EXCEPT ![n] = Null]

Next ==
  \E n \in Names \cup {Null}, p \in Parts \cup {NoPart} :
    \/ \E v \in Values \cup {Null}, o \in BOOLEAN : Set(n, p, v, o)
    \/ Unset(n, p)

Spec == Init /\ [][Next]_vars
==============================================================================
