----------------------------- MODULE PosixCalls ------------------------------
(***************************************************************************)
(* The POSIX wrappers (posix/*.rs) as remote calls.  A wrapper checks its  *)
(* arguments, sends one request and maps the reply to a result.  A signal  *)
(* can break the call off twice: while the request waits to be received    *)
(* (TRONA_RESTART, the server never saw it) or while the reply is awaited  *)
(* (TRONA_INTERRUPTED, the server has it and will act on it, the reply is  *)
(* dropped).  What the wrapper then does is its retry discipline:          *)
(*   "once"        ipc_call_retry: resend on RESTART only                  *)
(*   "idempotent"  ipc_call_retry_idempotent: resend on both               *)
(*   "restart"     resend on INTERRUPTED only if __sig_last_restart        *)
(*   "kill"        INTERRUPTED counts as success                           *)
(* A request is abstracted to its effect on the object it names.           *)
(***************************************************************************)
EXTENDS Integers

CONSTANTS MaxInterrupts   \* bound: signals during the call

PosixCallsAssumption == MaxInterrupts \in Nat

VARIABLES call,        \* the wrapper called: its row of the table
          phase,       \* "start", "sending", "waiting", "done"
          object,      \* what the server holds: 0 absent or old, 1 present or new, ...
          first,       \* the object before the call
          late,        \* requests received whose caller no longer waits
          result,      \* "none", "ok", "error", "EINTR"
          interrupts

callVars == <<call, phase, object, first, late, result, interrupts>>

-----------------------------------------------------------------------------
(* The wrappers, by source file.  The effect of the request:               *)
(*   "query" none; "assign" stores a value; "create" a new descriptor,     *)
(*   mapping or connection; "make" a name that must not exist; "remove"    *)
(*   something that must exist; "advance" moves a cursor or a stream;      *)
(*   "reap" removes, but only if the reply is delivered.                   *)
Row(names, retry, effect) == [name : names, retry : {retry}, effect : {effect}]

OpenCall == Row({"open"}, "once", "create")

StatCalls ==
    Row({"stat", "lstat", "fstat"}, "idempotent", "query") \cup Row({"close"}, "once", "remove")

(* With SEEK_CUR lseek moves the cursor by its argument. *)
SeekCall == Row({"lseek"}, "idempotent", "advance")

NameCalls ==
    Row({"access"}, "idempotent", "query") \cup Row({"mkdir"}, "once", "make") \cup
    Row({"unlink", "rmdir", "rename"}, "once", "remove")

(* readdir moves the directory's cursor. *)
DirectoryCalls ==
    Row({"opendir"}, "once", "create") \cup Row({"closedir"}, "once", "remove") \cup
    Row({"readdir"}, "idempotent", "advance") \cup Row({"ftruncate"}, "once", "assign")

LinkCalls ==
    Row({"readlink"}, "idempotent", "query") \cup Row({"symlink", "link"}, "once", "make") \cup
    Row({"fsync"}, "once", "assign")

(* The first chunk of a read or a write. *)
StreamCalls == Row({"read", "write"}, "restart", "advance")

AtNameCalls ==
    Row({"fstatat"}, "idempotent", "query") \cup Row({"openat"}, "once", "create") \cup
    Row({"unlinkat", "renameat"}, "once", "remove")

AtModeCalls ==
    Row({"faccessat"}, "idempotent", "query") \cup Row({"mkdirat"}, "once", "make") \cup
    Row({"fchmodat", "fchownat", "utimensat"}, "once", "assign")

AtLinkCalls ==
    Row({"readlinkat"}, "idempotent", "query") \cup Row({"symlinkat", "linkat"}, "once", "make")

PipeCalls ==
    Row({"pipe", "pipe2", "dup"}, "once", "create") \cup
    Row({"dup2", "dup3"}, "once", "assign") \cup Row({"mkfifo"}, "once", "make")

PollCalls == Row({"poll", "select"}, "once", "query")

EpollCalls ==
    Row({"epoll_create"}, "once", "create") \cup Row({"epoll_ctl"}, "once", "make") \cup
    Row({"epoll_wait"}, "once", "advance")

ProcessCalls ==
    Row({"getpid", "getppid"}, "idempotent", "query") \cup Row({"waitpid3"}, "restart", "reap")

ExecCall == Row({"execve"}, "once", "assign")

KillCall == Row({"kill"}, "kill", "assign")

SessionCalls ==
    Row({"getpgid", "getsid"}, "idempotent", "query") \cup
    Row({"setpgid"}, "once", "assign") \cup Row({"setsid"}, "once", "make")

IdentityCalls ==
    Row({"getuid", "geteuid", "getgid", "getegid", "getgroups"}, "idempotent", "query")

CredentialCalls ==
    Row({"setuid", "setgid", "seteuid", "setegid", "setreuid", "setregid", "setgroups"}, "once", "assign") \cup
    Row({"getresuid", "getresgid"}, "idempotent", "query")

LimitCalls ==
    Row({"setresuid", "setresgid", "setrlimit", "setitimer"}, "once", "assign") \cup
    Row({"getrlimit", "getitimer"}, "idempotent", "query")

SocketCalls ==
    Row({"socket", "accept"}, "once", "create") \cup Row({"bind", "listen"}, "once", "make")

ConnectionCalls ==
    Row({"connect"}, "once", "make") \cup Row({"shutdown"}, "once", "assign") \cup
    Row({"getsockname", "getpeername"}, "idempotent", "query")

SocketOptionCalls ==
    Row({"getsockopt"}, "idempotent", "query") \cup Row({"setsockopt"}, "once", "assign") \cup
    Row({"socketpair"}, "once", "create")

MessageCalls == Row({"sendmsg", "recvmsg"}, "once", "advance")

DatagramCalls == Row({"sendto", "recvfrom"}, "once", "advance")

InetCalls == Row({"recv_inet", "recvmsg_inet"}, "once", "advance")

(* fcntl with F_DUPFD allocates a descriptor. *)
DescriptorCalls ==
    Row({"net_get_config", "isatty"}, "idempotent", "query") \cup Row({"fcntl"}, "idempotent", "create")

(* The requests that set something, and those that only ask, which may *)
(* also fail on the reply.                                             *)
IoctlCalls == Row({"ioctl"}, "once", "assign") \cup Row({"ioctl_get"}, "once", "query")

TerminalCalls ==
    Row({"getcwd", "tcgetattr"}, "idempotent", "query") \cup
    Row({"chdir", "tcsetattr"}, "once", "assign")

ShmCalls ==
    Row({"shm_open"}, "once", "create") \cup Row({"shm_unlink"}, "once", "remove") \cup
    Row({"fb_ioctl"}, "once", "query") \cup Row({"umask", "fchmod", "fchown"}, "once", "assign")

MemoryCalls ==
    Row({"brk"}, "once", "assign") \cup Row({"sbrk"}, "once", "advance") \cup Row({"mmap"}, "once", "create")

MappingCalls == Row({"prefault", "munmap", "mprotect"}, "once", "assign")

DnsCalls == Row({"dns_resolve"}, "idempotent", "query")

ReverseCall == Row({"dns_reverse_lookup"}, "idempotent", "query")

Table ==
    OpenCall \cup StatCalls \cup SeekCall \cup NameCalls \cup DirectoryCalls \cup LinkCalls \cup StreamCalls
    \cup AtNameCalls \cup AtModeCalls \cup AtLinkCalls \cup PipeCalls \cup PollCalls \cup EpollCalls
    \cup ProcessCalls \cup ExecCall \cup KillCall \cup SessionCalls \cup IdentityCalls \cup CredentialCalls
    \cup LimitCalls \cup SocketCalls \cup ConnectionCalls \cup SocketOptionCalls \cup MessageCalls
    \cup DatagramCalls \cup InetCalls \cup DescriptorCalls \cup IoctlCalls \cup TerminalCalls \cup ShmCalls
    \cup MemoryCalls \cup MappingCalls \cup DnsCalls \cup ReverseCall

(* Wrappers with an argument test of their own. *)
Checking == {"execve", "setgroups", "setitimer", "getitimer", "bind", "connect", "setsockopt", "getsockname",
             "getpeername", "getsockopt", "brk", "sbrk", "mmap", "prefault", "munmap", "mprotect",
             "dns_resolve", "dns_reverse_lookup", "net_get_config", "getcwd",
             "renameat", "symlinkat", "symlink", "linkat", "link"}

(* Wrappers of the memory server map every failure to -1 (or MAP_FAILED), *)
(* and posix_umask reports the mask it replaced in its cache.             *)
FlatError == {"brk", "sbrk", "mmap", "prefault", "munmap", "mprotect"}
Reported(label) ==
    IF call.name = "umask" THEN "ok" ELSE IF label = "EINTR" /\ call.name \in FlatError THEN "error" ELSE label

-----------------------------------------------------------------------------
(* What serving the request once may do: refuse it and change nothing, or *)
(* have its effect.                                                       *)
Outcomes(x) ==
    {[object |-> x, label |-> "error"]} \cup
    {[object |-> y, label |-> "ok"] : y \in
        {z \in 0 .. x + 1 : LET e == call.effect IN
            \/ e = "query" /\ z = x
            \/ e = "assign" /\ z = 1
            \/ e \in {"create", "advance"} /\ z = x + 1
            \/ e = "make" /\ x = 0 /\ z = 1
            \/ e \in {"remove", "reap"} /\ x = 1 /\ z = 0}}

Init ==
    /\ call \in Table
    /\ object \in {0, 1} /\ first = object
    /\ phase = "start" /\ late = 0 /\ result = "none" /\ interrupts = 0

Finish(label) == phase' = "done" /\ result' = Reported(label)

BadArgument ==
    /\ phase = "start" /\ call.name \in Checking
    /\ phase' = "done" /\ result' = "error"
    /\ UNCHANGED <<call, object, first, late, interrupts>>

Send ==
    /\ phase = "start"
    /\ phase' = "sending"
    /\ UNCHANGED <<call, object, first, late, result, interrupts>>

(* TRONA_RESTART: the signal came before the server received; every *)
(* wrapper sends again.                                             *)
SendInterrupted ==
    /\ phase = "sending" /\ interrupts < MaxInterrupts
    /\ interrupts' = interrupts + 1
    /\ UNCHANGED <<call, phase, object, first, late, result>>

Receive ==
    /\ phase = "sending"
    /\ phase' = "waiting"
    /\ UNCHANGED <<call, object, first, late, result, interrupts>>

(* Served and answered. *)
Answer ==
    /\ phase = "waiting"
    /\ \E o \in Outcomes(object) : object' = o.object /\ Finish(o.label)
    /\ UNCHANGED <<call, first, late, interrupts>>

(* The endpoint is gone or the capability invalid: nothing is sent. *)
SendFails ==
    /\ phase = "sending"
    /\ Finish("error")
    /\ UNCHANGED <<call, object, first, late, interrupts>>

(* The server serves a request nobody waits for; a child is left to be *)
(* reaped again when its status could not be delivered.                *)
ServeLate ==
    /\ late > 0 /\ late' = late - 1
    /\ \E o \in Outcomes(object) : object' = IF call.effect = "reap" THEN object ELSE o.object
    /\ UNCHANGED <<call, phase, first, result, interrupts>>

(* TRONA_INTERRUPTED: the signal came while the reply was awaited.  The *)
(* dispatcher leaves in __sig_last_restart whether all handlers asked   *)
(* for a restart.                                                       *)
GivesUp(sig_last_restart) ==
    LET retry == call.retry IN
    \/ retry = "once" /\ Finish("EINTR")
    \/ retry = "idempotent" /\ phase' = "sending" /\ UNCHANGED result
    \/ retry = "restart" /\ sig_last_restart /\ phase' = "sending" /\ UNCHANGED result
    \/ retry = "restart" /\ ~sig_last_restart /\ Finish("EINTR")
    \/ retry = "kill" /\ Finish("ok")

(* Mistaken form: any interrupted call is sent again. *)
ResendsAnything ==
    /\ phase = "waiting" /\ interrupts < MaxInterrupts
    /\ interrupts' = interrupts + 1 /\ late' = late + 1
    /\ phase' = "sending"
    /\ UNCHANGED <<call, object, first, result>>

Interrupted ==
    /\ phase = "waiting" /\ interrupts < MaxInterrupts
    /\ interrupts' = interrupts + 1 /\ late' = late + 1
    /\ \E restart \in BOOLEAN : GivesUp(restart)
    /\ UNCHANGED <<call, object, first>>

Next == BadArgument \/ Send \/ SendInterrupted \/ Receive \/ Answer \/ SendFails \/ ServeLate \/ Interrupted

Spec == Init /\ [][Next]_callVars

-----------------------------------------------------------------------------
TypeOK ==
    /\ call \in Table /\ phase \in {"start", "sending", "waiting", "done"}
    /\ object \in Nat /\ first \in {0, 1} /\ late \in 0 .. MaxInterrupts
    /\ result \in {"none", "ok", "error", "EINTR"} /\ interrupts \in 0 .. MaxInterrupts

Settled == phase = "done" /\ late = 0
AtMostOnce == object \in {o.object : o \in Outcomes(first)}

(* Wrappers that send a request again which the server may already have  *)
(* served, although serving it twice is not serving it once.             *)
Resending == {c \in Table : c.retry \in {"idempotent", "restart"} /\ c.effect \in {"create", "advance"}}

(* Wrappers whose result does not tell an interrupted call from a served *)
(* or a refused one.                                                     *)
Undistinguished == FlatError \cup {"umask", "kill"}

(* ipc_call_retry_idempotent is "safe only for idempotent read-only        *)
(* operations where re-sending has no side effects" (posix/lib.rs:143-148): *)
(* whatever the signals, a request sent through it has its effect at most   *)
(* once.                                                                    *)
ResendIsHarmless == Settled /\ call.retry = "idempotent" => AtMostOnce

(* Outside the wrappers that resend a cursor move or an allocation, a      *)
(* request is applied at most once, and the result tells what became of    *)
(* it: 0 or a value means applied exactly once, an error other than EINTR  *)
(* means nothing was changed.                                              *)
ResultTellsEffect ==
    Settled /\ call \notin Resending =>
        /\ AtMostOnce
        /\ call.name \notin Undistinguished =>
             /\ result = "ok" => [object |-> object, label |-> "ok"] \in Outcomes(first)
             /\ result = "error" => object = first
=============================================================================
