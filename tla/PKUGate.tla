------------------------------ MODULE PKUGate ------------------------------
(***************************************************************************)
(* The pkucall gate of the WASI build, src/pkuc/pku.c and the macros of    *)
(* src/pkuc/pku.h, as seen by one guest thread, over the domain table      *)
(* keys[] of PKUKeys.                                                      *)
(*                                                                         *)
(*  RegisteredPKUCalls[] the pkucall slots                                 *)
(*  pkucall_id_<name>    the static id each GENPKU stub switches with      *)
(*  PKRU                 the thread's protection-key rights register       *)
(*                                                                         *)
(* A PKUCALL(f()) is two steps: Enter (save GetCurrentDid, PKUSwitch) and  *)
(* Return (PKURestore).  Whatever the callee does runs between them, so   *)
(* every other operation, and nested PKUCALLs, may happen inside a call.  *)
(* The free path (PKUDomains) writes only g_data, which no operation here *)
(* reads, so it is checked on its own.                                    *)
(***************************************************************************)
EXTENDS PKUKeys, Sequences, FiniteSets

LOCAL INSTANCE SequencesExt

CONSTANTS
  NUM_REGISTERED_PKUCALLS,  \* entries of RegisteredPKUCalls[] (64 in pku.h)
  Entries,                  \* entry points made with GENPKU (model values)
  NoEntry,                  \* the null entry pointer of an empty slot
  MaxDepth                  \* bound on nested PKUCALLs in progress

ASSUME NUM_REGISTERED_PKUCALLS \in Nat \ {0}
ASSUME NoEntry \notin Entries
ASSUME MaxDepth \in Nat \ {0}

VARIABLES
  calls,          \* RegisteredPKUCalls[id] : [did, entry]
  callId,         \* callId[f] : the static pkucall_id_f of f's GENPKU stub
  pkru,           \* the thread's PKRU, 2 bits per key
  currentDid,     \* the runtime's current domain (GetCurrentDid/SetCurrentDid)
  stack           \* PKUCALLs in progress: [saved, fn] per call

gateVars == <<calls, callId, pkru, currentDid, stack>>
vars == <<keyVars, gateVars>>

CallIds == 0 .. NUM_REGISTERED_PKUCALLS - 1

-----------------------------------------------------------------------------
(* The PKRU codec (SetPkey).                                               *)

\* 0x55555554: every key but key 0 access-disabled.
DefaultPkru == LET F[k \in Dids] == IF k = 0 THEN 0 ELSE 4^k + F[k - 1]
               IN  F[NUM_DOMAINS - 1]

\* The access-disable bit of key k is clear in register value v.
AccessEnabled(v, k) == (v \div 4^k) % 2 = 0

\* SetPkey with the new bits shifted one key too far.
SetPkeyFar(old, pkey, prot) ==
  LET shift   == pkey * 2
      newBits == ((prot & PKEY_DISABLE_ACCESS) | (prot & PKEY_DISABLE_WRITE))
                   * 2^(shift + 2)
      base    == IF old = 0 THEN DefaultPkru ELSE old
  IN  (base & CNot((PKEY_DISABLE_ACCESS | PKEY_DISABLE_WRITE) * 2^shift))
        | newBits

\* SetPkey shifting by the key number instead of twice it.
SetPkeyNarrow(old, pkey, prot) ==
  LET shift   == pkey
      newBits == ((prot & PKEY_DISABLE_ACCESS) | (prot & PKEY_DISABLE_WRITE))
                   * 2^shift
      base    == IF old = 0 THEN DefaultPkru ELSE old
  IN  (base & CNot((PKEY_DISABLE_ACCESS | PKEY_DISABLE_WRITE) * 2^shift))
        | newBits

\* The value SetPkey(pkey, prot) writes when rdpkru() returned old.
SetPkey(old, pkey, prot) ==
  LET shift   == pkey * 2
      newBits == ((prot & PKEY_DISABLE_ACCESS) | (prot & PKEY_DISABLE_WRITE))
                   * 2^shift
      base    == IF old = 0 THEN DefaultPkru ELSE old
  IN  (base & CNot((PKEY_DISABLE_ACCESS | PKEY_DISABLE_WRITE) * 2^shift))
        | newBits

\* rdpkru, SetPkey, wrpkru: one write of the thread's PKRU.
WritePkey(pkey, prot) == pkru' = SetPkey(pkru, pkey, prot)

Init ==
  /\ KeysInit
  /\ calls = [i \in CallIds |-> [did |-> 0, entry |-> NoEntry]]
  /\ callId = [f \in Entries |-> 0]
  /\ pkru = DefaultPkru
  /\ currentDid = 0
  /\ stack = <<>>

\* Both checks pass: SetPkey(keys[did].pkey, keys[did].perm), returns 0.
\* The pkey and AccessRights arguments are not used.
AssignPkeyOk(did, rights) ==
  /\ DomainExists(currentDid) /\ DomainExists(did)
  /\ ValidRights(rights)
  /\ WritePkey(keys[did].pkey, keys[did].perm)

PKUDomainAssignPkey(did, rights) ==
  /\ \/ /\ ~DomainExists(currentDid) \/ ~DomainExists(did)
             \/ ~ValidRights(rights)                  \* returns -EINVAL
        /\ UNCHANGED pkru
     \/ AssignPkeyOk(did, rights)
  /\ UNCHANGED <<keyVars, calls, callId, currentDid, stack>>

-----------------------------------------------------------------------------
(* Call gate.                                                              *)

\* The scan keeps going past the first empty slot.
FirstFreeSlotLast ==
  LET free == {i \in CallIds : calls[i].entry = NoEntry}
  IN  IF free = {} THEN NUM_REGISTERED_PKUCALLS ELSE Max(free)

\* The first slot with a null entry, NUM_REGISTERED_PKUCALLS if none.
FirstFreeSlot ==
  LET free == {i \in CallIds : calls[i].entry = NoEntry}
  IN  IF free = {} THEN NUM_REGISTERED_PKUCALLS ELSE Min(free)

\* RegisterPKUCall checking only that did is in range.
RegisterPKUCallInRange(did, entry, r) ==
  \/ /\ did \notin Dids
     /\ r = -EINVAL
     /\ UNCHANGED calls
  \/ /\ did \in Dids
     /\ FirstFreeSlot >= NUM_REGISTERED_PKUCALLS
     /\ r = -EACCES
     /\ UNCHANGED calls
  \/ /\ did \in Dids
     /\ FirstFreeSlot < NUM_REGISTERED_PKUCALLS
     /\ calls' = [calls EXCEPT ![FirstFreeSlot] = [did |-> did, entry |-> entry]]
     /\ r = FirstFreeSlot

\* RegisterPKUCall whose scan tests the slot's did instead of its entry and
\* that drops the "already used" check.
RegisterPKUCallByDid(did, entry, r) ==
  LET free == {i \in CallIds : calls[i].did = 0}
      slot == IF free = {} THEN NUM_REGISTERED_PKUCALLS ELSE Min(free)
  IN  \/ /\ ~DomainExists(did)
         /\ r = -EINVAL
         /\ UNCHANGED calls
      \/ /\ DomainExists(did)
         /\ slot >= NUM_REGISTERED_PKUCALLS
         /\ r = -EACCES
         /\ UNCHANGED calls
      \/ /\ DomainExists(did)
         /\ slot < NUM_REGISTERED_PKUCALLS
         /\ calls' = [calls EXCEPT ![slot] = [did |-> did, entry |-> entry]]
         /\ r = slot

\* RegisterPKUCall(did, entry) returning r.
RegisterPKUCall(did, entry, r) ==
  \/ /\ ~DomainExists(did)
     /\ r = -EINVAL
     /\ UNCHANGED calls
  \/ /\ DomainExists(did)
     /\ IF FirstFreeSlot >= NUM_REGISTERED_PKUCALLS THEN TRUE
        ELSE calls[FirstFreeSlot].entry # NoEntry
     /\ r = -EACCES
     /\ UNCHANGED calls
  \/ /\ DomainExists(did)
     /\ FirstFreeSlot < NUM_REGISTERED_PKUCALLS
     /\ calls[FirstFreeSlot].entry = NoEntry
     /\ calls' = [calls EXCEPT ![FirstFreeSlot] = [did |-> did, entry |-> entry]]
     /\ r = FirstFreeSlot

\* PKU_CALL_REGISTER(did, f): the result, id or error, becomes pkucall_id_f.
PKU_CALL_REGISTER(did, f) ==
  /\ \E r \in CallIds \cup {-EINVAL, -EACCES} :
       /\ RegisterPKUCall(did, f, r)
       /\ callId' = [callId EXCEPT ![f] = r]
  /\ UNCHANGED <<keyVars, pkru, currentDid, stack>>

\* The domain PKUSwitch(id) reads: RegisteredPKUCalls[id].did.  An id
\* outside the table is an out-of-bounds read; any domain id may come back.
SwitchTarget(id) == IF id \in CallIds THEN {calls[id].did} ELSE Dids

PKUSwitch(id) ==
  \E did \in SwitchTarget(id) :
    /\ WritePkey(keys[did].pkey, keys[did].perm)
    /\ currentDid' = did

PKURestore(did) ==
  /\ WritePkey(keys[currentDid].pkey, PKEY_DISABLE_ACCESS | PKEY_DISABLE_WRITE)
  /\ currentDid' = did

\* PKUCALL(f()): did = GetCurrentDid(); pkucall_f() runs PKUSwitch(pkucall_id_f).
PKUCALL_Enter(f) ==
  /\ Len(stack) < MaxDepth
  /\ stack' = Append(stack, [saved |-> currentDid, fn |-> f])
  /\ PKUSwitch(callId[f])
  /\ UNCHANGED <<keyVars, calls, callId>>

\* f() has returned: PKURestore(did).
PKUCALL_Return ==
  /\ stack # <<>>
  /\ PKURestore(Last(stack).saved)
  /\ stack' = Front(stack)
  /\ UNCHANGED <<keyVars, calls, callId>>

-----------------------------------------------------------------------------

Next ==
  \/ PKUCreateDomain /\ UNCHANGED gateVars
  \/ \E r \in Rights : PKUPkeyAlloc(r) /\ UNCHANGED gateVars
  \/ \E d \in DidArgs, r \in Rights : PKUDomainAssignPkey(d, r)
  \/ \E d \in DidArgs, f \in Entries : PKU_CALL_REGISTER(d, f)
  \/ \E f \in Entries : PKUCALL_Enter(f)
  \/ PKUCALL_Return

Spec == Init /\ [][Next]_vars

-----------------------------------------------------------------------------
(* Properties.                                                             *)

Frame == [saved : Dids, fn : Entries]

TypeOK ==
  /\ keys \in [Dids -> PKUKey]
  /\ hostKeys \subseteq Dids
  /\ calls \in [CallIds -> [did : Dids, entry : Entries \cup {NoEntry}]]
  /\ callId \in [Entries -> CallIds \cup {-EINVAL, -EACCES}]
  /\ pkru \in 0 .. 2^RegWidth - 1
  /\ currentDid \in Dids
  /\ stack \in Seq(Frame) /\ Len(stack) <= MaxDepth

\* RegisterPKUCall's DomainExists check, together with keys[] never being
\* cleared, keeps every registered pkucall pointing at an existing domain,
\* whatever was created, freed or registered before.
CallTargetsExist ==
  \A i \in CallIds : calls[i].entry # NoEntry => DomainExists(calls[i].did)

\* RegisterPKUCall hands out the lowest empty slot, so the registered slots
\* are always a prefix of RegisteredPKUCalls, after any sequence of calls.
SlotsArePrefix ==
  \A i, j \in CallIds :
    i < j /\ calls[j].entry # NoEntry => calls[i].entry # NoEntry

\* RegisterPKUCall never overwrites a registered slot, also when the table
\* is full (spec section 8).
RegisteredCallsPersist ==
  [][\A i \in CallIds : calls[i].entry # NoEntry => calls'[i] = calls[i]]_calls

\* SetPkey changes only the field of the key it is given, and its fallback
\* for a zero read only disables, so after any sequence of PKUSwitch,
\* PKURestore and PKUDomainAssignPkey writes a non-root key is readable
\* only if it is the key of a domain that exists.
EnabledKeysBelongToDomains ==
  \A k \in Dids \ {0} :
    AccessEnabled(pkru, k) => \E d \in Dids : keys[d].used /\ keys[d].pkey = k

\* Spec 4.5: a pkucall runs its callee in the domain the callee was
\* registered with.  PKUSwitch takes pkucall_id_f without checking it: it
\* is 0 until PKU_CALL_REGISTER runs, and an error code after a failed
\* registration.
CalleeInRegisteredDomain ==
  stack # <<>> =>
    \E i \in CallIds : calls[i].entry = Last(stack).fn /\ calls[i].did = currentDid

\* Spec section 8: Restore undoes Switch, so after a pkucall returns the
\* caller's own key is usable again.  PKURestore disables the callee's key,
\* which is the caller's key when both run in the same domain.
CurrentDomainAccessible == AccessEnabled(pkru, keys[currentDid].pkey)

=============================================================================
