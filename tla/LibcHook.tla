------------------------------ MODULE LibcHook ------------------------------
(***************************************************************************)
(* The libc timing shim, src/libchook.h and src/libchook.c.  Every hook    *)
(* has the same body:                                                      *)
(*     start = ReadTime(); ret = <wrapped call>; end = ReadTime();         *)
(*     g_LibcTime += end - start; printf(...); return ret;                 *)
(* and a macro after the hook bodies redirects the call to the hook.  The  *)
(* hooks differ only in which call they wrap, and PKUFreadHook in the     *)
(* rewrite of a 0 result, so a hook is its name and one pair of actions    *)
(* serves them all: HookEnter (the first ReadTime, then the call           *)
(* starts) and HookExit (the call returns, the second ReadTime, the        *)
(* accounting and the return).  Time passes between them.  The printf is  *)
(* output only and is left out.                                            *)
(***************************************************************************)
EXTENDS Integers

CONSTANT MaxTime   \* bound on the monotonic clock

ASSUME MaxTime \in Nat

VARIABLES
  now,            \* CLOCK_MONOTONIC, in ticks since the program started
  g_LibcTime,     \* unsigned long long g_LibcTime (libchook.c)
  hook,           \* the hook in progress: its name and start, or Idle
  hookTime,       \* history: ticks of the clock that passed inside a hook
  lastRet         \* history: the last hook's wrapped result and return

vars == <<now, g_LibcTime, hook, hookTime, lastRet>>

Idle == [name |-> "none", start |-> 0, req |-> 0]

\* size * n of a PKUFread call; the other hooks' results are not told apart.
Requests == {1, 2}
ReqOf(h) == IF h = "PKUFread" THEN Requests ELSE {0}

\* PKUFreadHook: if(ret == 0) ret = size * n; every other hook returns ret.
HookResult(h, ret) == IF h.name = "PKUFread" /\ ret = 0 THEN h.req ELSE ret

\* The hooks, by the calls they wrap, and the macros that redirect them.
StreamHooks == {"fopen", "fdopen", "fmemopen", "fclose", "fflush"}
FormatHooks == {"vfprintf", "vprintf", "vsprintf", "vsnprintf", "vscanf",
                "vfscanf", "vsscanf"}
CharHooks   == {"fgetc", "_IO_getc", "getchar", "fputc", "_IO_putc",
                "putchar", "fgets", "fputs", "puts", "ungetc"}
StreamIOHooks == {"fread", "fwrite", "fseek", "ftell", "rewind", "fgetpos",
                  "feof", "ferror", "perror", "fileno"}
ProcessHooks == {"random", "srand", "posix_memalign", "atexit", "system"}
PathHooks   == {"utime", "stat", "lstat", "mkdir", "access", "open"}
FdHooks     == {"close", "read", "write", "lseek", "fsync", "fdatasync",
                "fstat", "pathconf", "isatty", "unlink", "rmdir", "truncate",
                "ftruncate"}
\* The hooks of the WebAssembly build (#ifdef _PKU_WASM).
PKUStreamHooks == {"PKUFclose", "PKUFflush", "PKUFgetc", "PKUUngetc",
                   "PKUFread", "PKUFwrite", "PKUFseek", "PKURewind",
                   "PKUFeof", "PKUFerror", "PKUFileno"}
PKUFdHooks  == {"PKUClose", "PKUFopen", "PKUFdopen", "PKUOpen", "PKURead",
                "PKUWrite", "PKUStat", "PKUUtime", "PKULseek", "PKUFsync",
                "PKUFdatasync", "PKUFstat"}

\* The calls the #define block redirects; the malloc, calloc, realloc,
\* free, fsync, PKUMalloc and PKUFsync macros are commented out.
HookedCalls ==
  (StreamHooks \cup FormatHooks \cup CharHooks \cup StreamIOHooks
   \cup ProcessHooks \cup PathHooks \cup FdHooks \cup PKUStreamHooks
   \cup PKUFdHooks) \ {"fsync", "PKUFsync"}

\* ReadTime(): clock_gettime(CLOCK_MONOTONIC) in nanoseconds.
ReadTime == now

\* GetLibcTime(): the time accumulated so far.
GetLibcTime == g_LibcTime

Init ==
  /\ now = 0
  /\ g_LibcTime = 0
  /\ hook = Idle
  /\ hookTime = 0
  /\ lastRet = [call |-> 0, ret |-> 0]

\* A hooked call: start = ReadTime(); the wrapped call starts.
HookEnter(h) ==
  /\ hook = Idle
  /\ \E q \in ReqOf(h) : hook' = [name |-> h, start |-> ReadTime, req |-> q]
  /\ UNCHANGED <<now, g_LibcTime, hookTime, lastRet>>

\* The hook accumulating start - end.
HookExitSwapped ==
  /\ hook # Idle
  /\ g_LibcTime' = g_LibcTime + (hook.start - ReadTime)
  /\ hook' = Idle
  /\ UNCHANGED <<now, hookTime, lastRet>>

\* The hook accumulating end instead of end - start.
HookExitNoStart ==
  /\ hook # Idle
  /\ g_LibcTime' = g_LibcTime + ReadTime
  /\ hook' = Idle
  /\ UNCHANGED <<now, hookTime, lastRet>>

\* The wrapped call returns ret (at most the items asked for); end =
\* ReadTime(); g_LibcTime += end - start; return the hook's result.
HookExit ==
  /\ hook # Idle
  /\ \E ret \in 0 .. hook.req :
       lastRet' = [call |-> ret, ret |-> HookResult(hook, ret)]
  /\ g_LibcTime' = g_LibcTime + (ReadTime - hook.start)
  /\ hook' = Idle
  /\ UNCHANGED <<now, hookTime>>

\* The clock advances, inside a call or between calls.
Tick ==
  /\ now < MaxTime
  /\ now' = now + 1
  /\ hookTime' = IF hook = Idle THEN hookTime ELSE hookTime + 1
  /\ UNCHANGED <<g_LibcTime, hook, lastRet>>

Next ==
  \/ \E h \in HookedCalls : HookEnter(h)
  \/ HookExit
  \/ Tick

Spec == Init /\ [][Next]_vars

-----------------------------------------------------------------------------
(* Properties.                                                             *)

TypeOK ==
  /\ now \in 0 .. MaxTime
  /\ g_LibcTime \in Nat /\ hookTime \in 0 .. MaxTime
  /\ hook \in {Idle} \cup [name : HookedCalls, start : 0 .. MaxTime, req : {0} \cup Requests]
  /\ lastRet \in [call : {0} \cup Requests, ret : {0} \cup Requests]

\* The accounting of the shim: GetLibcTime, plus the part of the call in
\* progress, is exactly the time the program has spent inside hooked
\* calls, whatever calls ran and however the clock moved during and between
\* them.  Hooks do not nest (the macros come after the hook bodies, so a
\* hook calls the real function), and each adds its own end - start.
LibcTimeIsHookTime ==
  GetLibcTime + (IF hook = Idle THEN 0 ELSE now - hook.start) = hookTime

\* Spec: the shim only accumulates elapsed time, so every hook returns what
\* the call it wraps returned.  PKUFreadHook reports size * n, a full read,
\* when PKUFread returns 0 at end of file or on an error.
HookReturnsCallResult == lastRet.ret = lastRet.call

=============================================================================
