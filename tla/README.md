# TLA+ models of PKUWA's protection-key layer

These modules model the memory-protection-key (MPK/PKU) layer of PKUWA. The
main target is the WebAssembly build, `src/pkuc/pku.c` and `src/pkuc/pku.h`.
That build keeps a domain/key registry, a call gate ("pkucalls") and a range
table, and drives the protection-key rights register (PKRU) through a single
host hook, `WASICALL` (`getentropy`). `src/pku.c` is the same design for the
native build.

## The system

| Part (spec) | Code | State |
|---|---|---|
| Domain & key registry | `PKUCreateDomain`, `PKUPkeyAlloc`, `PKUDomainAssignPkey`, `PKUInit`/`DoInit`, `PKUDomainFree`, `PKUPkeyFree` | `keys[NUM_DOMAINS]`, `g_initialized`, `g_data.initialized`, `g_data.domains[]` |
| Call gate | `RegisterPKUCall`, `PKU_CALL_REGISTER`, `GENPKU`, `PKUCALL`, `PKUSwitch`, `PKURestore` | `RegisteredPKUCalls[64]`, one static `pkucall_id_<f>` per entry point, the runtime's current did |
| Register codec | `SetPkey`, `PKUIsPkeyLoaded`, `ReadPKRU`, `WritePKRU` | PKRU: 2 bits per key, AD=1 and WD=2 at bit 2*key |
| Host-call backend | `WASICALL` with 12-byte big-endian buffers: `PKUCreateDomain`, `DomainProtect`, `PKUMmap`, `PKUMprotect`, `ReadPKRU`, `WritePKRU` | `MmapAddr`, `GS_MmapMemory` |
| Range tracker | `g_data.ranges[4096]` | read by the free path; no code in the repository fills it |
| Malloc/free hooks (`pkuc/pku.h`, `pkumalloc.h`) | `MallocHook`, `NaiveMmap`, `FreeHook`, `PKUMalloc`/`PKUFree`, `MemorySize`, `GetMemorySize` | `g_MallocNumber`, `g_FreeNumber`, `g_ExtraMemory` (never changed), `GS_MmapMemory` |
| Native build (`src/pku.c`, `src/pku.h`) | the same registry, gate and codec through `getentropy` | `keys[]`, `RegisteredPKUCalls[]` |
| libc timing shim (`src/libchook.*`) | about 80 `...Hook` wrappers and the `#define`s that redirect calls to them | `g_LibcTime` |

How the parts interact:
- A pkucall reads a slot of `RegisteredPKUCalls` and that slot's domain in `keys[]`.
- It writes PKRU through `SetPkey`. `SetPkey` calls `rdpkru` and `wrpkru`; these are `noinline` stubs that the runtime replaces.
- The free path reads and writes only `g_data`: the second domain table `g_data.domains` and `g_data.ranges`. No other operation reads `g_data.domains`.
- So the registry and the gate share exactly one table, `keys[]`, and nothing on the free path touches it.

## Modules

- **`PKUKeys`** holds the shared registry core.
  - Its state is `keys` (`keys[]`) and `hostKeys`, the set of keys the host's `pkey_alloc` has handed out.
  - Its operations are `PKUCreateDomain` and `PKUPkeyAlloc`.
  - `HostReplies` is the host's side of the `WASICALL`. It returns any key not yet handed out, or a byte of 16 or more once all keys are taken.
  - A failed host call is the disjunct that leaves `keys` unchanged.
- **`PKUDomains`** extends `PKUKeys` with initialization and the free path.
  - Its state is `g_initialized`, `initialized` and `domains`, plus the history variable `lastFreed`, the domain that the last call freed with result 0.
  - No code in the repository writes `g_data.ranges`, `g_data.domains[].used` or `g_data.UserHandler`. So `ranges` is a constant, the zero-initialised table. The handler sweep of `PKUDomainFree` and the range check of `PKUPkeyFree` are kept as the code has them, and they never find a used range. The call through the null `UserHandler` is therefore unreachable in this code.
- **`PKUGate`** extends `PKUKeys` with the call gate and PKRU.
  - Its state is `calls` (`RegisteredPKUCalls`), `callId` (the `pkucall_id_f` of each `GENPKU` stub), `pkru`, `currentDid` and `stack` (the `PKUCALL`s in progress).
  - `PKUCALL(f())` is two actions.
    - `PKUCALL_Enter` saves `GetCurrentDid()` and runs `PKUSwitch(pkucall_id_f)`.
    - `PKUCALL_Return` runs `PKURestore(saved)`.
    - The callee's body is whatever happens in between, including nested pkucalls up to `MaxDepth`.
  - `PKU_CALL_REGISTER` stores `RegisterPKUCall`'s return value, error codes included, in `callId`. That is exactly what the macro does.
  - `PKUSwitch` with an id outside the table is an out-of-bounds read. The model lets it return any domain id.
- **`PKUHost`** models the WASI host-call backend.
  - Its guest state is `MmapAddr`, `GS_MmapMemory` and the heap of `PKUMalloc`.
  - Its host state follows spec 4.2, because the host is not in the repository: `mapped` (pages the host has mapped, linear memory included), `pageKey` (the key of each page) and `hostPkru` (4 bytes).
  - Every request is the 12-byte buffer the code builds. `Encode32`, `DecodeBE` and `DecodeInt` are its loops.
  - The host either performs the request and writes the reply in the request's layout, refuses it (address 0, length 0 for mmap), or fails the transport. A failed transport leaves the buffer as it was.
  - The actions are `PKUMmap`, `DomainProtect`, `PKUMprotect` and `PKUPkeyMprotect` (one `Mprotect`, including the first-call mmap), `PKUMunmap` (a stub that returns 0), `ReadPKRU`, `GetMemorySize`, `MallocHook` and `FreeHook`.
  - The native build's `DomainProtect` and `ReadPkru` (`src/pku.c`) are `NativeDomainProtect` and `NativeReadPkru` over the same host. They differ from the WASI calls only in the opcode (0x01 0x49 and 0x0F 0xEE, a two-byte read opcode), and both read the register from `buf[3..6]`. The model assumes the host writes PKRU there for both builds; spec 4.2 does not fix the reply offset. `DomainProtect` of both builds is one `ProtectCall`, recorded under its own op name.
  - `MallocHook` keeps its `g_MallocNumber < 0` branch, which would call `NaiveMmap`; `g_MallocNumber` is a `size_t` that stays 0, so TLC never takes it. `PKUMalloc` hands out pages of linear memory only (`HAVE_MMAP 0`), and `MemorySize()` is the size of linear memory, which the model keeps fixed. The environment actions are the runtime's `SetCurrentDid` and its writes of the host PKRU.
  - `lastCall` is a history variable: the last call, its arguments, its result and its transport.
- **`PKUCodec`** is `SetPkey` over the full 32-bit `int` of the WASI build, for any of the 16 keys.
  - A value is kept as a TLC integer in [-2^31, 2^31).
  - `&`, `|` and `~` work on the sign and the low 31 bits. `Shl32` wraps bit 31 into the sign, which is what clang's `i32.shl` does with the undefined `3 << 30`.
  - **`PKUCodecAbs`** is spec 4.1: the register is 16 two-bit fields. `CodecRefinement` checks `PKUCodec` against it under the mapping "field k of the int".
- **`PKUNative`** extends `PKUGate` with the actions of the native build.
  - Its `PKUSwitch` writes the key but never the current did, and its `PKURestore` is empty.
  - Its `PKUDomainAssignPkey` has no current-domain check.
  - `RegisterPKUCall`, `PKUCreateDomain` and `SetPkey` are the same code as the WASI build, so they reuse that module's definitions.
  - `NativeEnter` also keeps the register at entry in the call's frame. This is a history value that nothing reads; `NativeRoundTrip` compares against it.
- **`LibcHook`** is the timing shim.
  - All hooks share one body, so a hook is the name of the call it wraps. The groups of names map to the hook functions that wrap them, and `HookedCalls` maps to the `#define` block.
  - `HookEnter` is `start = ReadTime()` and the start of the wrapped call. `HookExit` is the second `ReadTime` and `g_LibcTime += end - start`. `Tick` is the monotonic clock.
  - `HookExit` also picks the wrapped call's result and records it next to the hook's return value in the history variable `lastRet`. `HookResult` is `PKUFreadHook`'s `if(ret == 0) ret = size * n`, and `HookEnter` picks `size * n` for `PKUFread`.
  - `hookTime` is a history variable: the clock ticks that passed while a hook was in progress. `GetLibcTime` reads `g_LibcTime`.
- **`MC_PKUGate`** and **`MC_PKUNative`** declare the entry points `f1`, `f2` and the null entry as model values, with symmetry over the entry points. **`MC_PKUHost`** gives the host PKRU values as byte tuples.

Each module keeps the code's control flow: every guard, every early `return -1` or `-EINVAL`, and the order of the loops. Data is abstracted:
- entry-point pointers are model values;
- addresses and lengths are left out;
- PKRU keeps only the `NUM_DOMAINS` fields that exist.

Every mutant operator sits just before the definition it varies. The mutants are the `...Far`, `...Narrow`, `...InRange`, `...ByDid`, `...Last`, `...AnyId`, `...OffByOne`, `...LenField`, `...FromOpcode`, `...Uncounted`, `...Swapped` and `...NoStart` definitions.

## Runs

| Run | Checks | Result |
|---|---|---|
| `domains_free` (`MC_PKUDomains.cfg`) | `TypeOK` | pass, 176 states |
| `domains_freed_gone` | `FreedDomainsGone`: a freed domain no longer exists | violation |
| `gate` (`MC_PKUGate.cfg`) | `TypeOK`, `CallTargetsExist`, `SlotsArePrefix`, `RegisteredCallsPersist` (action), `EnabledKeysBelongToDomains` | pass, about 97k states, under 1 minute |
| `gate_unregistered_call` | `CalleeInRegisteredDomain`: a pkucall runs its callee in its registered domain | violation |
| `gate_restore_round_trip` | `CurrentDomainAccessible`: after a return the current domain's key is usable | violation |
| `host` (`MC_PKUHost.cfg`) | `TypeOK`; `ReadPKRUDecodes`: a successful `ReadPKRU` or native `ReadPkru` returns the host register; `MmapAddrMapped`: the cached `MmapAddr` is a host mapping; `MemoryAccounted`: `GetMemorySize` is never less than linear memory plus the host's mappings | pass, 31k states, about 35 s |
| `host_protect_failure` | `DomainProtectReportsFailure`: `DomainProtect` of either build returns 0 only when the range got the key | violation |
| `host_pkey_mprotect` | `PkeyMprotectApplied`: `PKUPkeyMprotect` returning 0 gave the range its `pkey` | violation |
| `codec` (`PKUCodec.cfg`) | `CodecRefinement`: `SetPkey` implements the abstract 16-field register | violation, after 32k states, about 2 minutes |
| `native` (`MC_PKUNative.cfg`) | `NativeRoundTrip` (action): when a pkucall returns, the register is what it was at entry | violation |
| `libc` (`LibcHook.cfg`) | `TypeOK`; `LibcTimeIsHookTime`: `GetLibcTime`, plus the call in progress, equals the time spent inside hooks | pass, 7.9k states |
| `libc_fread_result` | `HookReturnsCallResult`: a hook returns what the wrapped call returned | violation |

What the runs show:
- **`domains_free` passes.** It checks only the types of the free path's state. Nothing fills the range table, so there is no range property to check in this code.
- **`domains_freed_gone` fails.** The shortest trace is `PKUInit` followed by `PKUDomainFree(0)`, which frees root and returns 0 while `keys[0]` stays used. The free path clears `g_data.domains`, which nothing else reads.
- **`gate` passes all six properties.**
  - A registered slot always names an existing domain.
  - Slots fill from the front and are never overwritten, even when the table is full.
  - `SetPkey`, including its fallback for a zero read, never enables a key that no existing domain owns.
  - Enter/Return maintain the current domain exactly like the abstract gate.
- **`gate_unregistered_call` fails.** Calling `f` before it is registered switches with id 0 into the empty slot 0, so the callee runs in root.
- **`gate_restore_round_trip` fails.** The trace is a pkucall into root followed by its return. `PKURestore` disables key 0, so root loses access to its own memory. `main.c` reaches this state when `PKUCreateDomain` returns 0 because no key was granted. Nested calls into one domain reach it too.

- **`host` passes.**
  - The decode of `buf[3..6]` into an `int` is exact for every host PKRU tried, in both builds, including the high bytes that overflow the shift. In the native build that overflow is undefined behaviour in C; the model takes the wrap the compiler produces.
  - `PKUMprotect` only ever caches an address the host mapped. It passes a NULL hint, so a failed or refused mmap gives NULL.
  - `GetMemorySize` never under-reports. A refused mmap decodes length 0 and adds nothing. A failed transport echoes the requested length, so the count goes up with nothing mapped; that is an over-count only. `PKUMunmap` unmaps nothing and, consistently, takes nothing off.
- **`host_protect_failure` fails in one step.** A `DomainProtect` whose host call fails, or whose range the host rejects, still returns 0. `FreeHook` and `PKUMprotect` use it the same way.
- **`host_pkey_mprotect` fails in one step.**
  - `PKUPkeyMprotect` drops `pkey`.
  - `PKUMprotect` protects the cached `MmapAddr` with key 0 whatever `addr` it is given. It does nothing for a non-NULL `addr` before the first mapping.
- **`codec` fails after 15 steps.** Writing each of keys 1 to 15 with `prot` 0 enables every key, so `rdpkru` reads 0. The next `SetPkey` takes 0 for a failed read and starts from 0x55555554. That access-disables the other fifteen keys, where spec 4.1 and the code's own comment keep them. Up to that step every write, key 15's sign-bit field included, changes exactly its own field.
- **`native` fails in four steps.** The steps are: create domain 1, register `f1` to it, call `f1` (its key is enabled), return. The native `PKURestore` is empty, so the key stays enabled in the caller.
- **`libc` passes.** Hooks do not nest: the macros come after the hook bodies, so a hook calls the real function. Each hook therefore adds exactly its own interval, and `g_LibcTime` is exactly the time spent in hooks, whatever the clock does during and between calls.
- **`libc_fread_result` fails in two steps.** A `PKUFread` that returns 0 (end of file or an error) is reported by its hook as a full read of `size * n`.

Seen while modelling, without a run of their own:
- After a transport failure `PKUMmap` returns the hint address and adds the length to `GS_MmapMemory`.
- `ReadPKRU` returns -1 for a host PKRU of 0xFFFFFFFF, its failure value.
These are listed as hazards in `PROJECT.json`.

## Bounds

- **`MC_PKUGate`:** `NUM_DOMAINS = 3`, `NUM_REGISTERED_PKUCALLS = 2`, two entry points, `MaxDepth = 2`.
  - Three keys give root plus two domains, so a key can be enabled while a lower-numbered key's domain does not exist.
  - Two slots let the call table fill while both entry points register.
  - Depth 2 gives nested calls, including two calls into the same domain.
  - Arguments range over every valid did plus -1 and `NUM_DOMAINS`, and over `AccessRights` in {`PKEY_DISABLE_WRITE`, 4}, a valid flag and a stray bit.
- **`MC_PKUDomains`:** `NUM_DOMAINS = 6`, so that key allocation, the only growing state, reaches a hundred states. `NUM_MPROTECT_RANGES = 7`, one slot beyond what `PKUPkeyFree` checks. `PAGESIZE = 4096`; with any other value `DoInit` fails and the free path is never enabled.
- **`MC_PKUHost`:**
  - Pages 8192 and 12288, with 12288 as linear memory. Lengths are 4096 and 8192, so a protect can reach past a one-page mapping. Keys are 0 and 1, dids 0 and 1, and `GS_MmapMemory` is bounded by 8192.
  - The host PKRU is one of 0x55555554, 0xFFFFFFFF, 0 and 0xC000000C. The last has key 15's field in the sign bit.
- **`PKUCodec`:** all 16 keys with `prot` 0. That is the smallest instance in which `rdpkru` can read 0. It has 2^15 register values, and adding `prot` 1 takes the run past five minutes. So `prot` values with stray bits, and the setting of key 15's sign bit, are not in a run.
- **`LibcHook`:** the clock is bounded at 3 ticks. That is enough for a call spanning ticks, a call within one tick, and calls in sequence. A `PKUFread` asks for 1 or 2 units, and the wrapped call returns from 0 up to that.
- **Deadlock:** every run checks deadlock.

## Fairness

None. Every operation in the code is synchronous and bounded (spec section 5): table scans, one blocking host call, straight-line hooks. Nothing in the repository waits for another actor. Whether a pkucall or a wrapped libc call returns depends on the callee, and the repository does not contain the callee. So there is no liveness property the code could be held to, and the properties are all safety properties.

## Assumptions

- `rdpkru` and `wrpkru` are replaced by the runtime, so PKRU is a real per-thread register. The initial PKRU is the Linux default, 0x55555554.
- `GetCurrentDid` and `SetCurrentDid` are the runtime's per-thread current domain.
- There is one guest thread.
- The host (spec 4.2) validates its requests: it maps only free pages and sets keys only on mapped ranges. A transport failure leaves the buffer untouched.
- Shifts that overflow an `int` wrap, as clang's `i32.shl` and x86 `shl` do.

## Not modelled

- `WritePKRU`/`WritePkru`: static and never called.
- Native stubs that return 0 and change nothing: `PKUInit`, `PKUDomainFree`, `PKUPkeyAlloc`, `PKUPkeyFree` and `PKUPkeyMprotect`.
- In both builds: `PKUDeinit`, `PKUDomainAllowCaller` and `EnableSectionGuardPage`, which return 0 and change nothing.
- The return values of the libc hooks other than `PKUFreadHook`: each returns its wrapped call's value unchanged.
- An abstract gate to refine. A call/return refinement of `PKUGate` maps only the current did and the frame stack, which are the abstract frames by construction, so it says nothing beyond `SetCurrentDid(did)`. The round-trip law is checked on PKRU instead (`gate_restore_round_trip`, `native`).
- A key-assignment property: that `AccessRights` is committed. `PKUDomainAssignPkey` ignores its `pkey` and `AccessRights` arguments.
- `src/native.h`: the FFI type declarations and the `NATIVELIBRARYCALL` macro. The helpers the macro calls (`MakeArgs`, `SetArgValue`, `SetValue`, `ClearCallData`) exist only as commented-out code in `src/libchook.c`, so the macro has no definition to model against in this tree.
- `src/pkulibc.c`: pass-through wrappers with no state.
- `main.c`: its call sequence is one behaviour of `PKUGate`.
- Heap objects below page size: `PKUHost` hands out whole pages, so `FreeHook`'s `DomainProtect` of a non-page-aligned pointer is listed as a hazard, not checked.
- Concurrency: the tables have no lock (spec section 5), but nothing in the repository starts a second thread, so no interleaving of table updates can happen in this code.
