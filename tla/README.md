# ECLib in TLA+

ECLib is the C library of E-comOS, a microkernel system: most of what a C
library does elsewhere (files, memory, processes, time, signals, windows) is
done here by *services*, processes that a program reaches by synchronous
messages. The library is therefore mostly a client of a distributed system, and
this project models it as one. Paths below are those of the repository, with its
root called `src/` (so `src/src/men/men.c` is the file `src/men/men.c`).

Run a model with `tlc -config <file>.cfg <module>` and a proof with
`tlapm <module>.tla`.

## 1. Inventory

| Component | Code | State it keeps | Operations | Modelled in |
|---|---|---|---|---|
| service table | `src/service.c` | `g_registry`: `services[256]`, `count`, `next_id` | `service_register`, `service_unregister`, `service_heartbeat` | `ServiceRegistry`, `RegistryThreads`, `Directory` |
| service lookup | `src/service/service.c` | none here; the listing is in PID 1 | `eclib_service_lookup`, `_register`, `_unregister`, `eclib_getpid` | `ServiceCall`: lookup whole, the others only by their effect on the listing |
| file client | `src/file_contorl/file.c` | none; handles are the service's | open, read, write, close, get_length | `Stubs`, `ServiceCall` |
| file system client | `src/filesystem/filesystem.c` | none | stat, access, unlink, chdir, getcwd | `Stubs`, `ServiceCall` |
| memory client | `src/men/men.c` | none; blocks are the service's | malloc, free, calloc, realloc | `Stubs`, `ServiceCall` (protocol), `Heap` (who owns which block, calloc's overflow) |
| process client | `src/process/process.c` | none | fork, execve, wait, waitpid, exit, getppid | `Stubs`, `ServiceCall` (protocol), `Packing` (arguments of execve); not exit |
| pipe, signal, time | `src/pipe`, `src/signal`, `src/time` | none | pipe, dup2, signal, kill, time | `Stubs`, `ServiceCall` |
| error codes | `include/eclib/error.h` | the last error | `eclib_set_last_err` (declared only) | `ServiceCall` |
| environment | `src/env/env.c` | `eclib_environ` | getenv, setenv, unsetenv | `Environment`, `EnvMap` |
| RUI client | `src/rui/rui.c` | `g_rui_pid` | init, create_window, draw_text, wait_event | `Rui` |
| IPC messages | `src/ipc.c`, `src/ipc/ipc_message.c` | none; the flag is the kernel's | send, receive, broadcast, do-not-kill | `Messages`; not receive |
| shutdown, Appendix S | `src/shutdown.c` | `g_callbacks[32]`, `g_callback_count` | shutdown, reboot, register callback, begin save | `Shutdown` |
| capability tokens | `src/capability.c` | the token | acquire, release, send | `Capability` |
| utilities | `src/utils/utils.c` | `eclib_strtok`'s position | strings, memory, conversions, `snprintf` | `Copying`, `Scanning`, `Printing`, `Utils`; not the four character tests |
| logging | `src/ebts/printkit.c` | level and two flags | printing | no: formatting and output |
| program start | `src/start/start.c` | none | `_start` | no: straight-line code around `main` |

How they interact. Every client asks `eclib_service_lookup` for the pid of its
service, which sends a synchronous call to PID 1; it then sends one
`ipc_call_sync` to that pid and waits. `env.c` calls `eclib_malloc` and
`eclib_free`, so each of its steps may fail with a service. `service.c` keeps a
second, in-process table and tells other processes of it by `ipc_broadcast_msg`.
`shutdown.c` uses the capability check, the broadcast and the messages, and
`ipc_do_not_kill_sub` both sets a flag in the kernel and tells PowerOffer of it.

What is hard about it:

* a service may die, restart and be given another pid, and its old pid may be
  given to another service, between the lookup and the request, and between the
  request and the answer;
* a call that timed out may still be carried out, also after the caller has
  tried again;
* an answer carries a status of its own, beside the result of `ipc_call_sync`,
  and the stubs treat the two differently from one another;
* `g_registry`, `g_rui_pid`, `eclib_environ`, `g_callbacks` and the position of
  `eclib_strtok` are static and shared by the threads of a process, without a lock;
* results of calls are ignored (broadcasts, `ipc_do_not_kill_sub`, `eclib_free`);
* loops over bytes have their limits in different places: overlapping areas,
  terminators, the last position of a search, the room left in a buffer.

What makes each part correct: the service table never has two services under an
id or a name, never reissues an id, and loses only what is unregistered; a stub
reports success only for what was done, a refusal only for what was not and will
not be, leaves a code when it fails, and returns; the environment is a map, and
its blocks are allocated exactly while something points to them; no two owners
have one block; PowerOffer believes what the kernel knows, and is told before it is
asked to wait; a token that is out can be given back; a registered callback stays
registered; the string functions write what they promise and not one byte more. The `hazards`
of `PROJECT.json` list, line by line, where this could fail.

## 2. Plan

Order, most important first. All of it is there except for what is said under
the last two points.

1. The in-process service table: `Directory` (abstract), `ServiceRegistry` (one
   action per call), `RegistryThreads` (one action per read or write).
2. The protocol every client follows: `RemoteCall` (abstract), `Stubs` (what
   each function decides), `ServiceCall` (clients, services, kernel, PID 1).
3. The environment under failing memory: `EnvMap` (abstract), `Environment`.
4. The RUI client: `Rui`, the cached `g_rui_pid` against restarts of the service
   and against threads that initialise at once.
5. Shutdown: `Messages`, `Capability` and `Shutdown`, three files used by the
   threads of one process, each module adding its functions to those of the one it extends.
6. `Heap`: who owns a block when malloc, realloc or free times out, and the
   overflow check of calloc for every width.
7. `Utils`, of `Copying`, `Scanning`, `Printing` and `Packing`: the algorithms of
   `utils.c`, and the packing of arguments that is built on them.
8. The theorems on all of these, a module of proofs for each.
9. Not there: children, statuses lost by a timed-out waitpid, and file handles
   across a restart. Both are the service's state, of which the
   repository has only the numbers that travel in requests; a model of them would
   be of a service nobody has written. `eclib_service_register` and
   `_unregister` as calls that time out would repeat `ServiceCall`.
10. Not there: variants of `RegistryThreads` and `Environment` with several threads and the lock the
    conventions ask for. There is no such lock in the code, so there is nothing to translate.

## 3. The modules

### The service table: `Directory`, `ServiceRegistry`, `RegistryThreads`

`Directory` is what a caller may rely on: a set of services and the set of ids
ever given out, with three steps: a service with a fresh id and a free name comes,
one leaves, one is stamped. That a step of the table is one of these does not say that it is the one that was
asked for; `DoesAsAsked` does: each call, by its arguments, is the step of `Directory` with that name or id.

`ServiceRegistry` keeps `services`, `count` and `next_id` as the code has them,
slots beyond `count` included, and has one action per exported function, every
early return a disjunct. The empty name is a name like any other to the code, and the one that
unwritten slots hold; so it is among `Names`. The fields `state`, `pid` and `start_time`, which the
code writes and never reads, are left out. Beside the table stands what another
process learns: `wire` holds the broadcasts on their way, `view` what the
listener has made of those it read. The result of `ipc_broadcast_msg` is ignored
by the code, so `Announce` may lose the message; `lost` remembers the ids
concerned. External: the clock (`Tick`; it is not set back) and the listener
(`Listen`; the kernel delivers one sender's broadcasts in order).

`RegistryThreads` is the same file once more, cut into the reads and writes of
`g_registry`, two for an increment, so that threads interleave inside the
functions: the slot of a new service is taken, `next_id` loaded, stored and written to the slot in four
steps. One step are a round of a loop, a struct assignment, and the fields of a new slot
behind its id, which nobody reads before `count` covers it. The array has room behind its end, so that a write there is a state
and not an error. `view` is here the announcements folded in the order sent. With
one thread it implements `Directory` too; with two it does not, as `registry_race` shows.

### The client stubs: `RemoteCall`, `Stubs`, `ServiceCall`

The 22 client functions are one program that differs in a few decisions;
`Stubs` has one record per function that says which: the service, the command
code, whether arguments are checked, what is stored when the service is not
found, whether a failing `ipc_call_sync` is stored, and what becomes of the
status in the answer (stored and reported, reported, returned as it is, never
read, or not there). Each record maps to the whole C function.

`ServiceCall` runs them. A client takes three steps: `Enter`/`Reject`,
`LookupFinds`/`LookupFails`, then `Send`/`SendFails`, and waits for `Receive` or
`Timeout`. Services start and crash under a pid, any pid, also one that another
service had; PID 1's listing changes only when a service registers or
unregisters, so it is stale after a crash; requests wait in `inflight` until the
process that has the pid takes them, acts on every code it knows, and
answers. `executed` and `done` are the record of what was done, by whom, and of what each
caller was told. A request is carried out (`Took`) only by the service it was for; one that another service
took for its own, under the pid that was looked up, went astray (`Astray`), and the status its client
reads then is anything, for the answer is laid out for another stub.

External, and taken from how `src/` uses it: `ipc_call_sync` has no body in the
repository. It pairs an answer with the call that waits for it and returns one
of the codes of its header (`OK`, `TIMEOUT`, `SERVICE_UNAVAIL`), with no effect
in the case of `SERVICE_UNAVAIL`. `eclib_set_last_err` stores its argument.
Where a status is ignored, the answer's other fields are whatever the service
wrote, so that such a stub may report either result (`Verdicts`).

`RemoteCall` is what a caller may rely on: at most one effect per call; success
after the effect, or after the request went astray; a refusal means no effect, ever; otherwise the caller does
not know. `OutcomeOf` maps a finished call to it: a success of a stub that reads
the status is a success, a failure that stored a code other than a timeout is a
refusal, everything else is unknown.

### The environment: `EnvMap`, `Environment`

`Environment` has the array of `eclib_environ` slot by slot, the block of the
array, the blocks the memory manager has given out, and those of them that were
lost because an `eclib_malloc` or `eclib_free` was not answered. `eclib_setenv` is
one action whose disjuncts are its paths: refused, already set, no memory for
the string, replaced, no memory for the array, extended. Strings are a name and a
value; since `getenv` and `unsetenv` do not refuse a name with a `=` in it, a name
may have a `part`, and `Starts` says which values begin with which part. `EnvMap`
is a map from names to values; the refinement mapping is what `eclib_getenv`
answers, so it is about what callers see and not about the array.

A late `eclib_free` that is carried out after its timeout is not a step of its
own: no pointer to the block is left by then (that is part of `Owned`), so
it disturbs nothing. Programs that write the exported `eclib_environ` themselves are
left out; nothing in the repository does.

### The RUI client: `Rui`

`rui.c` is the one client that keeps a pid. Every read or write of
`g_rui_pid` is a step of its own, so that threads interleave in `eclib_rui_init`;
its second read (line 25) may see the variable or the value just stored, for a data race leaves
the compiler both. The service and other processes start and end under the pids;
PID 1's listing changes only when the service registers. The steps of a lookup or a
request are `ServiceCall`'s subject and are one step here. `last` records
where a thread's last request went and what the function returned or stored, `failed` and `crashed` the two
things that can go wrong outside. `eclib_rui_close_window` and `_register_event` are declared in `rui.h` but
have no body.

### Shutdown: `Messages`, `Capability`, `Shutdown`

Three files used by the threads of one process. `Messages` has the threads (`fn`, `pc`: the
function a thread is in and its next step) and `src/ipc.c`: how much of a payload
is sent, the do-not-kill flag (`mode`, the kernel's) and what PowerOffer has
heard of it (`believed`). Every system call is a step. Callers ignore the result of
`ipc_broadcast_msg`, so a broadcast may arrive or be lost.

`Capability` adds the tokens: `granted` is what the kernel has given out, `rec`
the record at each address, which the kernel fills and the library completes and
wipes. Callers pass tokens they hold, and hold one until a `release_capability` of it answers 0, so that two
threads may release one token at once. A system call that refuses with 0 is a null pointer to the library; one that
refuses with -1 is not, and the owner is written through it (`GrantFails`, the end of the process). `Shutdown` adds the rest: `Power`,
`Announce`, `Decide` are `shutdown_system` and `reboot_system`; `BeginSave` enters
`appendix_s_begin_save`, which runs the steps of `ipc_do_not_kill_sub` and
then `SendWait`; `Register` to `Count` are the registration of a callback, one
step per round of its loop. `g_callback_count` is shared without a lock, so the compiler
may use a value it has read before or read again; every use takes one or the other
(`Reads`). `g_callbacks` ends after its last slot. What lies behind it is the linker's choice, so a comparison there may
yield either answer (`Compared`), and a store there may do nothing that matters here, change
`g_callback_count` to a value of `Garbage`, or end the process (`Store`, `Stray`). Only the first such store changes the
count (`CountAfterStray`), which bounds it.

Some variables only record what properties need: `alone` (no other thread was
in a function of the same family meanwhile), `blurred` and `unsure` (a notice
was lost, or two crossed), `announced` (a call's announcement is the last that got through, was overtaken, or did
not get through), `reused` (an address granted again while a thread was still at work on it), `kept`,
`raced` and `overrun` (registrations that overlapped none, or some, and a store behind the
table). They name the exceptions, which the code really has: two threads that set the
flag at once may leave PowerOffer with the older mode; of two threads that announce, one may be overtaken and
still be first at the kernel; the second release of a token may take it from a new
holder of the address, and its `memset` wipe the record; and racing registrations lose callbacks or write
behind the table. The properties say that nothing else does.

A text of up to 255 bytes fits `msg_buf`, but with the words in front of it not always the 256 bytes of a
message. `AnnouncedIsDone` promises the whole text only where it fits (230 bytes, 232 for a reboot); that a longer one is
refused, as `ipc_message.h` says, is what `oversize` refutes.

Nothing in the repository calls the registered callbacks or uses
`SYS_REGISTER_CALLBACK`, and nothing calls `ipc_receive_msg`. External:
`check_capability`, the kernel, the clock. `src/ipc/ipc_message.c` is a second copy of `src/ipc.c`
with other names of fields; `map` gives the lines of the first.

### Memory: `Heap`

`ServiceCall` shows that a call to the memory manager may be carried out after its caller has
given up. `Heap` asks what that does to blocks. `size` is the manager's view,
`believed` what each thread takes for its own, `inflight` the requests that wait, also
those nobody waits for any more. Lookup and request of a call are one step (`Begin`), its
answer or its timeout another, and the manager's work a third. `Total` and
`Overflows` are calloc's multiplication modulo `Word` and its test by division. What the caller of `calloc` counts on
is the product of the two numbers, and `TypeOK` says that it is within a `size_t`.

Callers do what C allows: they give up a pointer with `free` and, for the
time of the call, with `realloc`, and when `realloc` returned NULL they go on with the
old one. That is the one exception of `BlocksApart` (`unsure`): a realloc that
timed out returns NULL although the block may have moved. `lost` are blocks whose last
owner's call failed or timed out; `Accounted` says that nothing else leaks.
External: `memory_manager`, which never gives out what is not free and checks the
addresses it gets.

### Utilities: `Copying`, `Scanning`, `Printing`, `Packing`, `Utils`

`Copying` has the functions that write memory, one round of a loop a step, so that a
round reads what earlier rounds have written when areas overlap. `Scanning` has the functions that
read strings, each a call in one step, and `eclib_strtok` with its static
position (`save`): several callers split texts, `due` is what the one that
began last has still to get. Each comparison is its own loop (`StopsAt`, `Decisive`), and the two are checked
against a definition that is neither (`Parting`); the last place `strstr` looks at is a difference modulo
`Word`, the number of values of a `size_t`, behind the test for a longer substring (`TooLong`). `Printing` is `eclib_snprintf`: the loop over the format
(`Literal`, `Single`, `Several`), the inner loops (`Put`, `Cut`), each with its
own test for room; digits are those of C's `/` and `%`, which round towards
zero, and the negation of the least `int` is itself. `Packing` is how `eclib_execve` puts
arguments one behind the other into a field of 1024 bytes; how the service
finds them again is external: as there is no count, up to the first empty string. The environment
is packed by the same lines once more.

`Utils` puts the four side by side. They share nothing but memory, and a
program is of one of the four kinds, so that the state space is a sum and not a product.

What the properties except is what the code does: `NumbersReadBack` the least `int`, which comes out as characters below "0";
`ArgumentsArrive` empty arguments, which end the list for the reader; `CopiedWhole`
overlapping areas of functions other than `memmove`. Where one of the first bytes that differ is above
127 and the other is not, `eclib_strcmp` subtracts signed chars and orders two strings the other way
round than `eclib_strncmp`; `ComparisonsAgree` says that it does there and nowhere else.

## 4. The runs

| Run | Shows | Instance |
|---|---|---|
| `registry` | ids ascend and are never reissued, names are unique, the listener is wrong about no service whose announcements arrived, the table implements `Directory`, and each call does to it what it was asked | 3 slots, 4 names, one of them empty, and one unusable name, 4 ids, 2 clock values, 2 announcements in flight |
| `registry_one_thread` | the same code, read by read, still implements `Directory`, removes and stamps only what it was asked to, and the order "insert, announce" / "announce, remove" leaves the listener right | 1 thread, 3 slots, 4 names, one of them empty, 4 ids |
| `registry_race` | **violation**: two threads leave two services of one name | 2 threads, 2 slots, 2 names, one of them empty |
| `every_stub` | what a stub reports is true, but for a request another service took for its own; a request reaches a wrong service that acts on it only in the two pairs that share command codes; file and memory functions leave a code of their own | 1 client, each of the 22 stubs, all services and the RUI service, 1 pid that they take in turn |
| `retries` | `RemoteCall` is implemented, also by a second call while the first, timed out, may still be carried out; every call returns | 1 client, 2 calls, 2 services, 2 pids, with fairness |
| `environment` | the array ends inside its block, no name is there twice, no block leaks, dangles or is shared, and `getenv` answers like a map | 3 names, 2 values, 5 blocks |
| `rui` | initialising twice at once is harmless: a request misses the service only after a crash, or goes to pid 0 after a failed lookup | 2 threads, 2 pids |
| `rui_code` | **violation**: `create_window` fails and stores `ECLIB_OK` | 1 thread, 2 pids |
| `shutdown` | PowerOffer knows the mode and hears of it before WAIT, the machine does what was announced, tokens stay usable, callbacks stay registered, each but for the named races and losses | 2 threads, 3 callback slots, 3 values a store behind them may leave in the count, 4 callbacks, 2 tokens, 3 clock values, texts of 0, 230, 231 and 300 bytes |
| `oversize` | **violation**: an announcement of more than 256 bytes is cut and sent | as `shutdown` |
| `heap` | no size wraps, no block is another thread's or too small, and none leaks in silence, however late requests are carried out | 2 threads, 2 blocks, 3 requests at a time, `size_t` of 3 values |
| `utils` | the copying loops, `strtok`, searches, comparisons, `snprintf` and the packing of arguments do what their names promise | 5 bytes of memory, each 0, 1 or 200; 2 callers; all formats of up to 4 of 5 characters; up to 4 arguments in 8 bytes |

Bounds. `MaxServices` is 3 where the code has 256: three slots are the first size
at which a removal shifts more than one entry and leaves one in front; a fourth
name and id meet the full table and the reuse of a slot under a later id. `MaxId`
ends registrations and stands far below the width of `int`; its overflow is
a hazard that is listed and not covered. `MaxNow = 1` tells an old stamp from a new one.
`MaxWire = 2` together with immediate losses gives every pattern of delivered
and lost announcements, and a registration and a removal that wait together;
`ListenerConverges` reads the rest of the wire first, and is proved for any length of it. One pid in `every_stub` forces every service to inherit it from the
one before. No run has two clients:
what holds for any number of them is proved (section 6). `MaxCalls = 2` is what a retry needs. Five blocks let three strings,
the array and its successor exist at once; with two variables there is a block
to lose. Two pids of `Rui` let the service come back
under another one and another process take its old one; two threads are a race.
In `shutdown` the families of functions share no state and are explored one by one; three slots with
four callbacks reach the full table, and two threads the slot behind it; the count it then leaves is below the
table, inside it or behind it; a
third clock value lets a token expire; 230 and 231 bytes are the two sides of the cut at 256. In `heap`
two blocks let a realloc move, and three requests let a late free, a late
malloc and a call of the other thread wait at once; in a `size_t` of three
values 2 * 2 wraps to 1. In `utils` five bytes hold two strings, two
overlapping areas of three and a third token; 200 is a byte above 127, `Word = 8` lets the place `strstr` would look at wrap past memory, `MaxInt = 15` makes numbers
of two digits the longest, and room for 1, 2, 3 or 6 bytes cuts in every
place; eight bytes hold two arguments, or one and the beginning of a second. The safety results of these models hold beyond the bounds where section
6 has a theorem.

Symmetry: names in `registry`, `registry_one_thread`; blocks in `environment`; threads and pids in
`rui`; threads, callbacks and tokens in `shutdown`; threads, blocks and requests in `heap`. No run with a liveness property uses it.

Deadlock checking is on in every run: none of these programs may get stuck in a call.

## 5. Fairness

Only `retries` assumes fairness: weak fairness of each client's steps once it is inside a
stub. The code justifies it: a stub has no loop and waits only in `ipc_call_sync`, which
is always given a timeout (500 to 5000 ms), so that a wait ends with an answer or at
its timeout (`Timeout` stays enabled while there is none). Nothing is asked of
services or of PID 1, which may be silent forever, and no client has to make a call.

## 6. What is proved

All theorems hold for any values of the constants, under the assumptions named
in the modules (`RegistryAssumption`, `ThreadsAssumption`, `ServiceCallAssumption`,
`EnvironmentAssumption`, `RuiAssumption`, `CapabilityAssumption`, `ShutdownAssumption`,
`HeapAssumption`, `CopyingAssumption`, `ScanningAssumption`, `PrintingAssumption`, `PackingAssumption`),
which say only that sizes are natural numbers, that memory is smaller than a `size_t` counts, that the markers for "none" are
not data, that 0 is a byte and no delimiter, that bytes are below 256 and a field is not empty, and that clients call stubs of the table. TLC evaluates them in the runs.

`ServiceRegistryProofs`: `TypesHold`, `IdsAlwaysAscend`, `NamesAlwaysUnique`, `ListenerAlwaysConverges`,
`AlwaysDoesAsAsked`, and `Refinement`: `ServiceRegistry` implements `Directory`. The inductive invariant is
`TypeOK /\ IdsAscend /\ NamesUnique`. Ids must *ascend* and not only differ:
that the new id is fresh follows from all ids being below `next_id`, and the shift
of a removal keeps an order while "the first slot with this id" needs it. The
refinement needs uniqueness, for an abstract step moves exactly one element of a set.
`ListenerConverges` speaks of a listener that has read to the end of the wire: `Reading` says what
it knows after each announcement, and the lemmas say that an announcement put at the end is read last
(`ReadingAppended`) and that reading the first one now or with the rest is the same (`ReadingTail`). With
these it is inductive beside the others: an id that is registered is read as new because ids ascend.

`RegistryThreadsProofs`: `TypesHold`, `ListenerAlwaysAgrees`, `Refinement` and `AlwaysDoesAsAsked`, all
for one thread (`Threads = {t}`); with two, `registry_race` refutes the `Directory`. The inductive invariant
follows the thread through its call. Two ideas carry it: between `TakeId` and the
store of `count` one id is out that is in no row (`Taken`), and in a removal the
slot at the index of the shift is left over: the order of the ids, the
uniqueness of the names and the listener's view are about the other slots (`Stay`). A
shift maps each of them to a slot of before, in the same order. The entries of the
directory lose the service at the first shift, or at the store of `count` if it was the last; that it is the service whose id was passed
is what `Leaver` says of that slot, until the next one is copied over it.

`ServiceCallProofs`: `TypesHold` (with it: no stub sends to pid 0), `ResultsAlwaysTrue`,
`AlwaysServedByItsOwn`, `FailureAlwaysHasCode` and `Refinement`: the protocol implements `RemoteCall`. They hold for every selection of
stubs: the first and the last use of a stub's record only how it judges the status, and of
the stored codes only that a timeout is never stored as another code. `ResultsAreTrue` is not inductive; the
strengthening is a ledger of each call number: numbers are counted per client
(`Counted`), nothing is in flight or done under a number not yet used or sent
(`NotYetSent`), a request is in flight or executed but not both and executed
once (`Once`), a waiting answer is the status of what was executed by the service that was asked, or its request went
astray (`Answered`), and a call that is over
is not waited for (`Over`). `ServedByItsOwn` follows from the ranges of the command codes, of which only two
pairs of services meet (`Confusable`), and from where a request can come from; `FailureHasCode` from what
each record of a file or memory function stores on each way out (`StoresCodes`), and from the code of the
call being that of its own failing step, also when it passed through `eclib_service_lookup`.

`EnvironmentProofs`: `TypesHold`, `NamesAlwaysOnce`, `AlwaysTerminated`, `AlwaysOwned`
and `Refinement`: `Environment` implements `EnvMap`. The inductive invariant is the
conjunction of the four. Its first step, used everywhere, is that the slots in front of the first
NULL are `0 .. Count - 1`; the effect of each path on the array is reduced to its
effect on the set of name-value pairs, from which what `getenv` answers follows.

`RuiProofs`: `TypesHold` and `AlwaysUndisturbed`. `Undisturbed` speaks of calls already
made; inductive it is only together with `CopiesGood` (every copy of the pid, in `g_rui_pid`, in a thread, at PID 1,
is the service's until it crashes) and `ZeroExplained` (a thread past the test that
finds 0 owes it to a failed lookup, its own or another thread's).

`ShutdownProofs`: `TypesHold` and every property of the run. Each is inductive only with a
statement of who may be inside what: `alone` means that no other thread is in a
function of the family, which is kept by the entry of others clearing it. For the
flag, a thread that is alone between system call and notice has the kernel in the mode
it asked for (`FlagInv`); for tokens, one that is being acquired is out and in the hands of one thread only, and one about to be wiped is out
no more, unless its address was granted again meanwhile (`TokenInv`); for the announcements, the last one that got through is what
is heard (`PowerInv`); for callbacks, a thread that registers alone
finds `count` as it has read it, so that what it writes hides nothing kept (`KeptInv`, until a store falls behind
the table), and while no two ever overlapped, a callback that was searched for in vain is new and none is stored
behind the table (`UnracedInv`).

`HeapProofs`: `TypesHold`, `BlocksAlwaysApart`, `AlwaysAccounted`, and `CallocIsExact`: for
every `Word` the test by division passes exactly when the product did not wrap, on which `TypesHold` rests. The
invariant (`Ownership`) says that an address outside `unsure` has one claim at most, be it a
thread's, a call's, a request's or an answer's (`ClaimedOnce`), that what is claimed is allocated and large enough
(`Backed`), and what is allocated is claimed or lost (`Found`); `Linked` ties each call
to its own request or answer, so that a late answer is nobody's.

`UtilsProofs`: `AlwaysTyped` and every property of the run, for every memory, text, set of delimiters,
format, vector and width of `int`.

* `CopiedWhole` rests on one invariant per loop, which says what the cells in front of the index hold and
  that those the loop has still to read are as they were; for overlapping areas that is where the
  direction of `memmove` matters.
* `TokensInOrder`: what is due is the tokens of the text from `save` on (`TokensInv`).
* `SearchesAgree` and `ComparisonsAgree` hold in every memory: two strings are equal up to the place
  where `strcmp` stops (`StopsThere`), which is where the loop of `strncmp` stops too, if it gets there (`StopsWithin`),
  and where strings that differ part (`PartThere`); and what `strncmp` accepts at a place is what
  `strstr` looks for (`AcceptedIsHit`), so that their first and last places are the same.
* `PrintsBeginning` and `NumbersReadBack`: what was written and what is pending are together the
  text of the format so far, until the room runs out (`PrintInv`), and that text only grows (`TextGrows`).
  Digits are read back by induction on the number (`DigitsReadBack`).
* `ArgumentsArrive`: the field reads as the arguments that were kept, whole, and nothing is open behind
  them (`PackInv`); one argument more is one string more (`StringAdded`), and what was kept takes no
  more room than all of it (`KeptTakesLess`).

The reference definitions of the last two groups (`TextOf`, `Digits`, `Values`, `StringsIn`, `Totals`, `Kept`), and
`Reading` of the service table, are recursive functions. That such a function exists and what it yields is
proved by induction. The induction theorems of the library take an operator as parameter, which no backend can instantiate,
and so induction is stated for a set (`Induction`): a set of numbers that holds 0 and with each number
the next holds them all, because the others would have a least one (`Least`, from `WFMin`). `PrimitiveRecursion`
and `Along` follow from it once for all.

Only model-checked: the liveness property `Returns`; liveness under fairness is out of the prover's
reach, as is `ENABLED`. Every other property of a passing run is the statement of a theorem.

## 7. Where code and documents disagree

* `src/src/service.c:20`: no lock around `g_registry`, although
  `src/.github/copilot-instructions.md:42` says that mutexes are used for shared
  resources. `registry_race` ends with one name twice in the table: both threads passed the duplicate check, or both took the
  same slot, and the one nobody filled counts as a service with the empty name.
* `src/src/ipc.c:55` (and 21, for `ipc_send_msg`): a payload of more than 256 bytes is cut and sent, where
  `src/include/eclib/ipc_message.h:80` promises `ECLIB_IPC_BUFFER_OVERFLOW`. `oversize` shows it with the
  announcement of a shutdown whose text has more than 230 bytes (`src/src/shutdown.c:42`).
* `src/src/service/service.c:53`: `eclib_service_lookup` returns `resp.service_pid`
  unchecked; PID 1 answers 0 for a name it does not list
  (`src/include/eclib/service.h:33`), so the lookup returns 0 with no code stored,
  against `src/include/eclib/service.h:62`. The stubs of `file.h` and `men.h` then store a
  code of their own (`FailureHasCode`); the others return with that of an earlier call.
* `src/src/rui/rui.c:60`: where the service answers with an error,
  `eclib_rui_create_window` stores `err`, which is `ECLIB_OK`, instead of
  `resp.err`, against "Always return meaningful error codes for failure scenarios"
  (`src/.github/copilot-instructions.md:38`). `rui_code` shows it.

Read in the code while modelling it, without a run:

* `src/src/process/process.c:124`: `eclib_exit` passes the pid of the service as the message
  type and `PROCESS_CMD_EXIT` as the receiver of `ipc_send_msg`
  (`src/include/eclib/ipc_message.h:53`), and then waits in an endless loop for an end that
  was asked of nobody.
* `src/src/filesystem/filesystem.c:129`: `eclib_getcwd` never reads `resp.err`, and so reports success for an
  answer that carries an error. `access`, `unlink`, `chdir`, `fork` and `waitpid`
  do not read it either, and depend on what the service puts in the other fields. `ResultsAreTrue` excepts these stubs.
* `src/src/capability.c:30`: only a null pointer is taken for a refusal; a system call that fails with -1 makes
  the library write the owner through that address.
* `src/src/shutdown.c:100`: the pid of PowerOffer is taken to be 1000.
* `src/src/capability.c:69`: a token that is valid at the check may have expired when the
  kernel gets it.
* `src/src/rui/rui.c:106`: `eclib_rui_wait_event` makes a timeout, a service that is gone and a
  message of another size one and the same `ECLIB_IPC_BUFFER_OVERFLOW`.
* `src/src/service.c:33`: `next_id` is a signed `int` that only grows.
* `src/src/env/env.c:19`: `eclib_getenv` returns a pointer into a block that the next
  `eclib_setenv` of the name frees.

`Undisturbed` (`Rui`) names two exceptions, and both occur: `g_rui_pid`, "valid after
initialization" by its comment (`src/src/rui/rui.c:17`), is put back to 0 by a failing
`eclib_rui_init` of another thread (line 24), and after a restart of the service
it is never looked up again (line 22).

## 8. What is not modelled, and why

* `printkit.c`: formatting and output through external calls; `start.c`: straight-line code around
  `main`, without state; the build files.
* `eclib_exit`: its message goes to a process 0x2004, whatever the service is, and it does not return, so there is no behaviour to tell apart.
* `ipc_receive_msg`, which nothing calls, and `eclib_set_last_err`, which has no body.
* `eclib_isdigit`, `eclib_isalpha`, `eclib_tolower`, `eclib_toupper`: one comparison each.
* Functions that headers declare and no file defines (`eclib_rui_close_window`, `eclib_rui_register_event`).
* What services keep: file handles, children, working directories. Their code is not in the repository.
* Several threads in `env.c`, and in `eclib_strtok` within a call: the code has
  no lock, and every order of reads and writes can go wrong there.
* Within the modelled parts: the other bytes of
  requests and the cutting of long names and paths, that calloc clears the block, the three unread fields of a
  service entry, the wall clock set back, the kernel losing answers without a timeout,
  null arguments, strings without a terminator, and processes that write the library's exported variables.
