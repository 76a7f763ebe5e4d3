----------------------------- MODULE PKUNative -----------------------------
(***************************************************************************)
(* The native build, src/pku.c and src/pku.h: the same keys[] table,       *)
(* RegisteredPKUCalls[], RegisterPKUCall, SetPkey and PKUCALL/GENPKU       *)
(* macros as the WASI build (PKUGate), with a different gate:              *)
(*  - PKUSwitch writes the callee domain's key but not the current did;    *)
(*  - PKURestore does nothing;                                             *)
(*  - PKUDomainAssignPkey has no current-domain check.                     *)
(* PKUInit, PKUDomainFree, PKUPkeyAlloc, PKUPkeyFree, PKUPkeyMprotect,     *)
(* PKUDeinit, PKUDomainAllowCaller and EnableSectionGuardPage return 0 and *)
(* change nothing.                                                         *)
(***************************************************************************)
EXTENDS PKUGate

LOCAL INSTANCE SequencesExt

NativeInit == Init

\* PKUCreateDomain: opcode 0x01 0x4A through getentropy, the same decision
\* as the WASI build's.
NativeCreateDomain == PKUCreateDomain /\ UNCHANGED gateVars

\* RegisterPKUCall and PKU_CALL_REGISTER: the same code as the WASI build.
NativeRegister(did, f) == PKU_CALL_REGISTER(did, f)

\* rdpkru, SetPkey, wrpkru of src/pku.c: the same code as the WASI build's.
NativeSetPkey(pkey, prot) == WritePkey(pkey, prot)

\* PKUDomainAssignPkey: DomainExists(did) and the AccessRights check, then
\* SetPkey(keys[did].pkey, keys[did].perm).
NativeAssignPkey(did, rights) ==
  /\ \/ /\ ~DomainExists(did) \/ ~ValidRights(rights)    \* returns -EINVAL
        /\ UNCHANGED pkru
     \/ /\ DomainExists(did) /\ ValidRights(rights)
        /\ NativeSetPkey(keys[did].pkey, keys[did].perm)
  /\ UNCHANGED <<keyVars, calls, callId, currentDid, stack>>

\* PKUSwitch(id): SetPkey(keys[did].pkey, keys[did].perm) for the slot's
\* did; SetCurrentDid is commented out.
NativeSwitch(id) ==
  /\ \E did \in SwitchTarget(id) : NativeSetPkey(keys[did].pkey, keys[did].perm)
  /\ UNCHANGED currentDid

\* PKURestore(did): both statements are commented out.
NativeRestore(did) == UNCHANGED <<pkru, currentDid>>

\* PKUCALL(f()): did = GetCurrentDid(); pkucall_f() runs PKUSwitch.  The
\* frame also keeps the register at entry, a history value nothing reads.
NativeEnter(f) ==
  /\ Len(stack) < MaxDepth
  /\ stack' = Append(stack, [saved |-> currentDid, fn |-> f, pkru |-> pkru])
  /\ NativeSwitch(callId[f])
  /\ UNCHANGED <<keyVars, calls, callId>>

\* f() has returned: PKURestore(did).
NativeReturn ==
  /\ stack # <<>>
  /\ NativeRestore(Last(stack).saved)
  /\ stack' = Front(stack)
  /\ UNCHANGED <<keyVars, calls, callId>>

NativeNext ==
  \/ NativeCreateDomain
  \/ \E d \in DidArgs, r \in Rights : NativeAssignPkey(d, r)
  \/ \E d \in DidArgs, f \in Entries : NativeRegister(d, f)
  \/ \E f \in Entries : NativeEnter(f)
  \/ NativeReturn

NativeSpec == NativeInit /\ [][NativeNext]_vars

-----------------------------------------------------------------------------
(* Properties.                                                             *)

\* Spec section 8: Restore undoes Switch, so when a pkucall returns the
\* register is what it was when the call was entered.  The native
\* PKURestore is empty, so the key PKUSwitch enabled for the callee stays
\* enabled in the caller.
NativeRoundTrip ==
  [][NativeReturn => pkru' = Last(stack).pkru]_vars

=============================================================================
