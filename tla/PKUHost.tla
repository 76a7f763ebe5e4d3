------------------------------ MODULE PKUHost ------------------------------
(***************************************************************************)
(* The host-call backend of the WASI build (src/pkuc/pku.c, pku.h): the    *)
(* operations that serialize a request into a 12-byte buffer, pass it to   *)
(* the one host hook WASICALL (getentropy), and decode the reply from the  *)
(* same buffer.                                                            *)
(*                                                                         *)
(* The host itself is not in the repository.  Following spec section 4.2  *)
(* it either fails the transport (the buffer comes back untouched), or     *)
(* performs the operation and writes its result in the request's layout.  *)
(* Its state is the set of pages it has mapped, the key of each page and   *)
(* its PKRU register.  Addresses and lengths are small page multiples.     *)
(***************************************************************************)
EXTENDS Integers, Sequences, FiniteSets

CONSTANTS
  Pages,          \* page addresses the host can map (page-aligned, > 0)
  Lengths,        \* lengths callers pass
  Pkeys,          \* protection keys callers pass
  PkruWords,      \* values of the host's PKRU, as 4 bytes, high byte first
  Dids,           \* domain ids the runtime's current domain can take
  HeapPages,      \* pages of linear memory that PKUMalloc hands out
  MaxMmapMemory   \* bound on GS_MmapMemory

ASSUME Pages \subseteq Nat \ {0} /\ Lengths \subseteq Nat \ {0}
ASSUME 0 \in Pkeys /\ 0 \in Dids /\ HeapPages \subseteq Pages

VARIABLES
  mapped,         \* host: the pages it has mapped for the guest
  pageKey,        \* host: pageKey[p], the protection key of page p
  hostPkru,       \* host: the PKRU register, 4 bytes
  MmapAddr,       \* static void* MmapAddr, the cached mapping of PKUMprotect
  GS_MmapMemory,  \* static size_t GS_MmapMemory
  heap,           \* objects PKUMalloc has handed out and not freed
  currentDid,     \* the runtime's current domain, as FreeHook reads it
  lastCall        \* history: the last call, its result and its transport

vars == <<mapped, pageKey, hostPkru, MmapAddr, GS_MmapMemory, heap,
          currentDid, lastCall>>

NULL == 0
PAGESIZEPKU == 4096
Transports == {"ok", "failed"}
NoCall == [op |-> "none", addr |-> NULL, len |-> 0, pkey |-> 0, ret |-> 0,
           transport |-> "ok"]

-----------------------------------------------------------------------------
(* The buffer codec.  Buffers are sequences indexed from 1: C's buf[i] is  *)
(* Buf[i + 1].                                                             *)

\* for(i = 3; i >= 0; --i) { buf[i+off] = temp & 0xff; temp >>= 8; }
Encode32(x) == [i \in 1 .. 4 |-> (x \div 256^(4 - i)) % 256]

\* The 12-byte request: opcode, two big-endian words, two bytes.
Request(op, a, b, c, d) == op \o Encode32(a) \o Encode32(b) \o <<c, d>>

\* for(i = from; i <= to; i++) { temp <<= 8; temp += buf[i]; } in a size_t.
RECURSIVE DecodeBE(_, _, _)
DecodeBE(buf, from, to) ==
  IF to < from THEN 0 ELSE DecodeBE(buf, from, to - 1) * 256 + buf[to]

\* pkru <<= 8; pkru += buf[i] in an int.  Shifting a high byte of 0x80 or
\* more past bit 31 is undefined in C; clang's WebAssembly build emits
\* i32.shl, which wraps, and that is the only outcome modelled.  Written to
\* stay inside 32-bit arithmetic.
ShlAdd8(acc, b) ==
  LET low == (acc % 2^23) * 256 + b
  IN  IF (acc \div 2^23) % 2 = 1 THEN low - 2^30 - 2^30 ELSE low

RECURSIVE DecodeInt(_, _, _)
DecodeInt(buf, from, to) ==
  IF to < from THEN 0 ELSE ShlAdd8(DecodeInt(buf, from, to - 1), buf[to])

\* Reference: the 32-bit two's-complement value of a big-endian word.
SignedWord(w) == (w[1] - 256 * (w[1] \div 128)) * 2^24
                   + w[2] * 2^16 + w[3] * 2^8 + w[4]

-----------------------------------------------------------------------------
(* The host (spec 4.2).  Linear memory, HeapPages, is always there; mmap   *)
(* places a new region in free pages, or fails with address 0, length 0;  *)
(* a transport failure returns the buffer untouched.                       *)

Region(addr, len) == {p \in Pages : addr <= p /\ p < addr + len}

HostPlacements(length) ==
  {p \in Pages : Region(p, length) \cap mapped = {}
                 /\ Cardinality(Region(p, length)) * PAGESIZEPKU = length}
  \cup {NULL}

\* The buffer after WASICALL of a request buf with opcode 0x01 0x2B.
MmapReply(buf, length, t, p) ==
  CASE t = "failed" -> buf
    [] p = NULL     -> Request(SubSeq(buf, 1, 2), 0, 0, buf[11], buf[12])
    [] OTHER        -> Request(SubSeq(buf, 1, 2), p, length, buf[11], buf[12])

\* DomainProtect's request, opcode 0x01 0x20: the host sets the key of a
\* mapped region and ignores anything else.
ProtectEffect(pk, inMem, addr, length, pkey, t) ==
  IF t = "ok" /\ Region(addr, length) # {} /\ Region(addr, length) \subseteq inMem
  THEN [p \in Pages |-> IF p \in Region(addr, length) THEN pkey ELSE pk[p]]
  ELSE pk

-----------------------------------------------------------------------------

Init ==
  /\ mapped = HeapPages
  /\ pageKey = [p \in Pages |-> 0]
  /\ hostPkru \in PkruWords
  /\ MmapAddr = NULL
  /\ GS_MmapMemory = 0
  /\ heap = {}
  /\ currentDid = 0
  /\ lastCall = NoCall

\* The last call: its name, arguments, result and transport outcome.
Call(op, addr, len, pkey, ret, t) ==
  [op |-> op, addr |-> addr, len |-> len, pkey |-> pkey, ret |-> ret, transport |-> t]

\* MmapStep decoding the address one byte early, from buf[1..4].
MmapStepOffByOne(addr, length, prot, flags, t, p) ==
  LET buf  == MmapReply(Request(<<1, 43>>, addr, length, prot, flags), length, t, p)
      temp == DecodeBE(buf, 2, 5)
      len  == DecodeBE(buf, 7, 10)
  IN  [ret |-> IF len # length THEN NULL ELSE temp,
       gs  |-> GS_MmapMemory + len,
       new |-> IF t = "ok" /\ p # NULL THEN Region(p, length) ELSE {}]

\* MmapStep decoding the address from the length field, buf[6..9].
MmapStepLenField(addr, length, prot, flags, t, p) ==
  LET buf  == MmapReply(Request(<<1, 43>>, addr, length, prot, flags), length, t, p)
      temp == DecodeBE(buf, 7, 10)
      len  == DecodeBE(buf, 7, 10)
  IN  [ret |-> IF len # length THEN NULL ELSE temp,
       gs  |-> GS_MmapMemory + len,
       new |-> IF t = "ok" /\ p # NULL THEN Region(p, length) ELSE {}]

\* PKUMmap(addr, length, prot, flags): encode, call, decode the address and
\* the length from the buffer whatever the call returned; a length other
\* than the one asked for makes the result NULL; GS_MmapMemory += len.
MmapStep(addr, length, prot, flags, t, p) ==
  LET buf  == MmapReply(Request(<<1, 43>>, addr, length, prot, flags), length, t, p)
      temp == DecodeBE(buf, 3, 6)
      len  == DecodeBE(buf, 7, 10)
  IN  [ret |-> IF len # length THEN NULL ELSE temp,
       gs  |-> GS_MmapMemory + len,
       new |-> IF t = "ok" /\ p # NULL THEN Region(p, length) ELSE {}]

PKUMmap(addr, length) ==
  /\ GS_MmapMemory + length <= MaxMmapMemory
  /\ \E t \in Transports, p \in HostPlacements(length) :
       LET s == MmapStep(addr, length, 3, 34, t, p)
       IN  /\ mapped' = mapped \cup s.new
           /\ GS_MmapMemory' = s.gs
           /\ lastCall' = Call("mmap", addr, length, 0, s.ret, t)
  /\ UNCHANGED <<pageKey, hostPkru, MmapAddr, heap, currentDid>>

\* DomainProtect(addr, length, pkey) of either build, recorded as op:
\* perror on a failed call, return 0.
ProtectCall(op, addr, length, pkey) ==
  /\ \E t \in Transports :
       /\ pageKey' = ProtectEffect(pageKey, mapped, addr, length, pkey, t)
       /\ lastCall' = Call(op, addr, length, pkey, 0, t)
  /\ UNCHANGED <<mapped, hostPkru, MmapAddr, GS_MmapMemory, heap, currentDid>>

\* The WASI build's DomainProtect.
DomainProtect(addr, length, pkey) == ProtectCall("protect", addr, length, pkey)

\* PKUMprotect(addr, len, prot), reached as itself or as
\* PKUPkeyMprotect(addr, len, prot, pkey), which drops pkey: the first call
\* with addr NULL maps len bytes into MmapAddr; every call then protects
\* MmapAddr, when set, for len bytes with key 0.  Returns 0.
Mprotect(op, addr, len, prot, pkey) ==
  /\ \/ addr = NULL /\ MmapAddr = NULL /\ GS_MmapMemory + len <= MaxMmapMemory
     \/ ~(addr = NULL /\ MmapAddr = NULL)
  /\ LET first == addr = NULL /\ MmapAddr = NULL IN
     \E t1 \in IF first THEN Transports ELSE {"ok"},
       p \in IF first THEN HostPlacements(len) ELSE {NULL}, t2 \in Transports :
       LET s     == MmapStep(NULL, len, prot, 34, t1, p)
           cache == IF first THEN s.ret ELSE MmapAddr
           inMem == IF first THEN mapped \cup s.new ELSE mapped
       IN  /\ mapped' = inMem
           /\ GS_MmapMemory' = IF first THEN s.gs ELSE GS_MmapMemory
           /\ MmapAddr' = cache
           /\ pageKey' = IF cache # NULL
                         THEN ProtectEffect(pageKey, inMem, cache, len, 0, t2)
                         ELSE pageKey
           /\ lastCall' = Call(op, addr, len, pkey, 0, t2)
  /\ UNCHANGED <<hostPkru, heap, currentDid>>

PKUMprotect(addr, len, prot) == Mprotect("mprotect", addr, len, prot, 0)

PKUPkeyMprotect(addr, len, prot, pkey) == Mprotect("pkey_mprotect", addr, len, prot, pkey)

\* ReadPKRU decoding buf[2..5], the last opcode byte and three bytes of
\* the register.
ReadPKRUFromOpcode ==
  /\ \E t \in Transports :
       LET buf == <<15, 1, 238>> \o hostPkru \o <<0, 0, 0, 0, 0>>
       IN  lastCall' = Call("rdpkru", NULL, 0, 0,
                            IF t = "failed" THEN -1 ELSE DecodeInt(buf, 3, 6), t)
  /\ UNCHANGED <<mapped, pageKey, hostPkru, MmapAddr, GS_MmapMemory, heap, currentDid>>

\* ReadPKRU, opcode 0x0F 0x01 0xEE: -1 on a failed call, else the int
\* decoded from buf[3..6], where the host writes its PKRU.
ReadPKRU ==
  /\ \E t \in Transports :
       LET buf == <<15, 1, 238>> \o hostPkru \o <<0, 0, 0, 0, 0>>
       IN  lastCall' = Call("rdpkru", NULL, 0, 0,
                            IF t = "failed" THEN -1 ELSE DecodeInt(buf, 4, 7), t)
  /\ UNCHANGED <<mapped, pageKey, hostPkru, MmapAddr, GS_MmapMemory, heap, currentDid>>

\* The native build's DomainProtect (pku.c), opcode 0x01 0x49 and prot byte
\* 3: the same request through getentropy, perror on failure, return 0.
NativeDomainProtect(addr, length, pkey) ==
  ProtectCall("protect_native", addr, length, pkey)

\* The native build's ReadPkru (pku.c), opcode 0x0F 0xEE: -1 on a failed
\* call, else buf[3..6] shifted into an int, as ReadPKRU does.  The shift
\* of a signed int past bit 31 is undefined in C; the build wraps, which
\* DecodeInt models.
NativeReadPkru ==
  /\ \E t \in Transports :
       LET buf == <<15, 238, 0>> \o hostPkru \o <<0, 0, 0, 0, 0>>
       IN  lastCall' = Call("rdpkru_native", NULL, 0, 0,
                            IF t = "failed" THEN -1 ELSE DecodeInt(buf, 4, 7), t)
  /\ UNCHANGED <<mapped, pageKey, hostPkru, MmapAddr, GS_MmapMemory, heap, currentDid>>

\* size_t g_MallocNumber, g_ExtraMemory: declared, initialised to 0 and
\* never written.
g_MallocNumber == 0
g_ExtraMemory == 0

\* PAGE_ALIGN(S): S rounded up to a whole page.
PAGE_ALIGN(S) == ((S + PAGESIZEPKU - 1) \div PAGESIZEPKU) * PAGESIZEPKU

\* What PKUMalloc can return: dlmalloc is built with HAVE_MMAP 0 and
\* MORECORE_CANNOT_TRIM, so objects come from linear memory, which never
\* shrinks; NULL when it has none left.
PKUMallocResults == (HeapPages \ heap) \cup {NULL}

\* MemorySize(): the size of linear memory.
MemorySize == Cardinality(HeapPages) * PAGESIZEPKU

\* NaiveMmap(bytes): GS_MmapMemory += PAGE_ALIGN(bytes), then PKUMalloc.
NaiveMmap(bytes) == GS_MmapMemory + PAGE_ALIGN(bytes)

\* MallocHook(bytes): g_MallocNumber is a size_t, never < 0, so the
\* NaiveMmap branch is dead and the hook is PKUMalloc(size).
MallocHook ==
  /\ \E p \in PKUMallocResults :
       /\ heap' = IF p = NULL THEN heap ELSE heap \cup {p}
       /\ lastCall' = Call("malloc", NULL, 0, 0, p, "ok")
  /\ GS_MmapMemory' = IF g_MallocNumber < 0 THEN NaiveMmap(8) ELSE GS_MmapMemory
  /\ UNCHANGED <<mapped, pageKey, hostPkru, MmapAddr, currentDid>>

\* FreeHook(ptr): outside the root domain, DomainProtect(ptr, PAGESIZEPKU, 0);
\* then PKUFree(ptr) (g_FreeNumber is never < 0 either).
FreeHook(ptr) ==
  /\ ptr \in heap
  /\ heap' = heap \ {ptr}
  /\ \E t \in Transports :
       /\ pageKey' = IF currentDid # 0
                     THEN ProtectEffect(pageKey, mapped, ptr, PAGESIZEPKU, 0, t)
                     ELSE pageKey
       /\ lastCall' = Call("free", ptr, 0, 0, 0, t)
  /\ UNCHANGED <<mapped, hostPkru, MmapAddr, GS_MmapMemory, currentDid>>

\* PKUMunmap(addr, len) with the mapping's bytes taken off GS_MmapMemory.
PKUMunmapUncounted(addr, len) ==
  /\ GS_MmapMemory' = IF GS_MmapMemory >= len THEN GS_MmapMemory - len ELSE 0
  /\ lastCall' = Call("munmap", addr, len, 0, 0, "ok")
  /\ UNCHANGED <<mapped, pageKey, hostPkru, MmapAddr, heap, currentDid>>

\* PKUMunmap(addr, len): a stub that returns 0; nothing is unmapped.
PKUMunmap(addr, len) ==
  /\ lastCall' = Call("munmap", addr, len, 0, 0, "ok")
  /\ UNCHANGED <<mapped, pageKey, hostPkru, MmapAddr, GS_MmapMemory, heap, currentDid>>

\* GetMemorySize(): MemorySize() + GS_MmapMemory + g_ExtraMemory.
GetMemorySize ==
  /\ lastCall' = Call("memsize", NULL, 0, 0,
                       MemorySize + GS_MmapMemory + g_ExtraMemory, "ok")
  /\ UNCHANGED <<mapped, pageKey, hostPkru, MmapAddr, GS_MmapMemory, heap, currentDid>>

\* The environment: the runtime's SetCurrentDid, and writes of the host's
\* PKRU by the runtime's wrpkru.
SetCurrentDid(d) ==
  /\ currentDid' = d
  /\ lastCall' = NoCall
  /\ UNCHANGED <<mapped, pageKey, hostPkru, MmapAddr, GS_MmapMemory, heap>>

HostWritesPkru(w) ==
  /\ hostPkru' = w
  /\ lastCall' = NoCall
  /\ UNCHANGED <<mapped, pageKey, MmapAddr, GS_MmapMemory, heap, currentDid>>

Addrs == {NULL} \cup Pages

Next ==
  \/ \E a \in Addrs, l \in Lengths : PKUMmap(a, l)
  \/ \E a \in Addrs, l \in Lengths, k \in Pkeys : DomainProtect(a, l, k)
  \/ \E a \in Addrs, l \in Lengths : PKUMprotect(a, l, 3)
  \/ \E a \in Addrs, l \in Lengths, k \in Pkeys : PKUPkeyMprotect(a, l, 3, k)
  \/ ReadPKRU
  \/ \E a \in Addrs, l \in Lengths, k \in Pkeys : NativeDomainProtect(a, l, k)
  \/ NativeReadPkru
  \/ MallocHook
  \/ \E a \in Addrs, l \in Lengths : PKUMunmap(a, l)
  \/ GetMemorySize
  \/ \E p \in heap : FreeHook(p)
  \/ \E d \in Dids : SetCurrentDid(d)
  \/ \E w \in PkruWords : HostWritesPkru(w)

Spec == Init /\ [][Next]_vars

-----------------------------------------------------------------------------
(* Properties.                                                             *)

TypeOK ==
  /\ mapped \subseteq Pages /\ HeapPages \subseteq mapped
  /\ pageKey \in [Pages -> Pkeys]
  /\ hostPkru \in PkruWords
  /\ MmapAddr \in Addrs
  /\ GS_MmapMemory \in 0 .. MaxMmapMemory
  /\ heap \subseteq HeapPages
  /\ currentDid \in Dids
  /\ lastCall.op \in {"none", "mmap", "protect", "mprotect", "pkey_mprotect",
                      "rdpkru", "protect_native", "rdpkru_native",
                      "malloc", "free", "munmap", "memsize"}
  /\ lastCall.transport \in Transports

\* A successful ReadPKRU, or the native ReadPkru, returns the host's
\* register as a 32-bit int: the four bytes at buf[3..6], high byte first.
ReadPKRUDecodes ==
  lastCall.op \in {"rdpkru", "rdpkru_native"} /\ lastCall.transport = "ok"
    => lastCall.ret = SignedWord(hostPkru)

\* The cached mapping of PKUMprotect is memory the host has mapped: a
\* failed or refused PKUMmap leaves MmapAddr NULL, so later calls never
\* protect an address the host did not hand out.
MmapAddrMapped == MmapAddr # NULL => MmapAddr \in mapped

\* GetMemorySize never reports less memory than the guest holds: linear
\* memory plus every region the host has mapped for PKUMmap, directly or as
\* PKUMprotect's lazy mapping.  A refused mapping decodes length 0 and adds
\* nothing; a failed transport adds the echoed length, an over-count only;
\* and PKUMunmap, which unmaps nothing, must not take bytes off the count.
MemoryAccounted ==
  lastCall.op = "memsize" => lastCall.ret >= Cardinality(mapped) * PAGESIZEPKU

\* Spec 4.2/section 7: ProtectRange reports TransportFailure and
\* OperationFailure to its caller.  DomainProtect returns 0 only when the
\* host has given the whole range the requested key.
DomainProtectReportsFailure ==
  lastCall.op \in {"protect", "protect_native"} /\ lastCall.ret = 0
    => /\ Region(lastCall.addr, lastCall.len) # {}
       /\ \A p \in Region(lastCall.addr, lastCall.len) : pageKey[p] = lastCall.pkey

\* pku.h: PKUPkeyMprotect protects [addr, addr+len) with pkey.  When it
\* returns 0 for a non-NULL addr, every page of the range has key pkey.
PkeyMprotectApplied ==
  lastCall.op = "pkey_mprotect" /\ lastCall.ret = 0 /\ lastCall.addr # NULL
    => \A p \in Region(lastCall.addr, lastCall.len) : pageKey[p] = lastCall.pkey

=============================================================================
