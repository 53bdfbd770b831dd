-------------------------------- MODULE Stubs --------------------------------
(***************************************************************************)
(* The client stubs of ECLib.  Almost every exported function is the same  *)
(* program: refuse bad arguments, look the service up by name, send it one *)
(* ipc_call_sync, turn the answer into a result.  The functions differ in  *)
(* a few decisions only, and a record per function says which:             *)
(*                                                                         *)
(*   service  the name given to eclib_service_lookup                       *)
(*   code     the command code of the request                              *)
(*   checks   it refuses bad arguments with ECLIB_ECLIB_INVALID_PARAMETER  *)
(*   absent   no such service: "module" stores CANNOT_FIND_MODULE as last  *)
(*            error, "lookup" leaves what eclib_service_lookup stored      *)
(*   stores   a failure of ipc_call_sync is stored as last error           *)
(*   reply    the status in the answer is                                  *)
(*              "checked"   stored as last error and reported as failure   *)
(*              "quiet"     reported as failure, not stored                *)
(*              "verbatim"  itself the return value                        *)
(*              "ignored"   present but never read                         *)
(*              "none"      not part of the answer                         *)
(***************************************************************************)
EXTENDS Naturals

Stub(service, code, checks, absent, stores, reply) ==
  [service |-> service, code |-> code, checks |-> checks, absent |-> absent,
   stores |-> stores, reply |-> reply]

(* file.c *)
FileStub(code) == Stub("file_control", code, TRUE, "module", TRUE, "checked")
FileOpen      == FileStub(\h1001)
FileRead      == FileStub(\h1002)
FileWrite     == FileStub(\h1003)
FileClose     == FileStub(\h1004)
FileGetLength == FileStub(\h1005)

(* men.c *)
Malloc  == Stub("memory_manager", \h2001, TRUE,  "module", TRUE, "checked")
Free    == Stub("memory_manager", \h2002, FALSE, "module", TRUE, "none")
Realloc == Stub("memory_manager", \h2003, FALSE, "module", TRUE, "checked")

(* process.c *)
ProcessStub(code, reply) == Stub("process_service", code, FALSE, "lookup", FALSE, reply)
Fork    == ProcessStub(\h2001, "ignored")
Execve  == ProcessStub(\h2002, "verbatim")
Waitpid == ProcessStub(\h2003, "ignored")
Getppid == ProcessStub(\h2005, "none")

(* filesystem.c *)
FsStub(code, reply) == Stub("file_service", code, FALSE, "lookup", FALSE, reply)
Stat   == FsStub(\h3001, "quiet")
Access == FsStub(\h3002, "ignored")
Unlink == FsStub(\h3003, "ignored")
Chdir  == FsStub(\h3004, "ignored")
Getcwd == FsStub(\h3005, "ignored")

(* time.c, signal.c, pipe.c *)
Time   == Stub("time_service",   \h4001, FALSE, "lookup", FALSE, "none")
Signal == Stub("signal_service", \h5001, FALSE, "lookup", FALSE, "none")
Kill   == Stub("signal_service", \h5002, FALSE, "lookup", FALSE, "verbatim")
Pipe_FileCode == Stub("pipe_service", \h1001, FALSE, "lookup", FALSE, "verbatim")
Pipe   == Stub("pipe_service",   \h6001, FALSE, "lookup", FALSE, "verbatim")
Dup2   == Stub("pipe_service",   \h6002, FALSE, "lookup", FALSE, "verbatim")

AllStubs ==
  {FileOpen, FileRead, FileWrite, FileClose, FileGetLength, Malloc, Free, Realloc,
   Fork, Execve, Waitpid, Getppid, Stat, Access, Unlink, Chdir, Getcwd,
   Time, Signal, Kill, Pipe, Dup2}

(* The command codes of the RUI service (rui.h), whose stubs keep the pid  *)
(* they looked up and are not modelled here.                               *)
RuiCodes == \h3001 .. \h3005

(* The codes a service acts on: those its stubs send. *)
CodesOf(service) ==
  IF service = "rui_service" THEN RuiCodes
  ELSE {s.code : s \in {x \in AllStubs : x.service = service}}
==============================================================================
