----------------------------- MODULE PKUDomains -----------------------------
(***************************************************************************)
(* Initialization and the free path of the WASI build (src/pkuc/pku.c):    *)
(* PKUInit/DoInit, PKUDomainFree, PKUPkeyFree, over g_data (the second     *)
(* domain table g_data.domains and the range table g_data.ranges), next to *)
(* keys[] and PKUCreateDomain from PKUKeys.                                *)
(*                                                                         *)
(* No code of the repository sets g_data.ranges[].used or                 *)
(* g_data.domains[].used: the range table keeps its static zero           *)
(* initialisation, so the handler sweep of PKUDomainFree (which would     *)
(* call the never-assigned g_data.UserHandler) and the range checks of    *)
(* PKUPkeyFree are kept as the code has them and never find a used range. *)
(***************************************************************************)
EXTENDS PKUKeys, FiniteSets

LOCAL INSTANCE FiniteSetsExt

CONSTANTS
  NUM_MPROTECT_RANGES,  \* entries of g_data.ranges[] (4096 in pku.c)
  PAGESIZE              \* what sysconf(_SC_PAGESIZE) returns

\* PKUPkeyFree scans ranges[0 .. NUM_DOMAINS-1]; the table is at least that long.
ASSUME NUM_MPROTECT_RANGES \in Nat /\ NUM_MPROTECT_RANGES >= NUM_DOMAINS
ASSUME PAGESIZE \in Int

VARIABLES
  g_initialized,  \* g_initialized
  initialized,    \* g_data.initialized
  domains,        \* g_data.domains[did] : [pkey, perm, used]
  lastFreed       \* history: the domain the last call freed, NoDid if none

domVars == <<g_initialized, initialized, domains, lastFreed>>
vars == <<keyVars, domVars>>

RangeIds == 0 .. NUM_MPROTECT_RANGES - 1
PAGESIZEPKU == 4096
LazyFree == FALSE                   \* g_LazyFree, never set
NoDid == -1

\* g_data.ranges: static storage, zero-initialised and never written.
ranges == [r \in RangeIds |-> [used |-> FALSE]]

Init ==
  /\ KeysInit
  /\ g_initialized = FALSE
  /\ initialized = FALSE
  /\ domains = [d \in Dids |-> ZeroKey]
  /\ lastFreed = NoDid

\* DoInit: -1 when already initialized or when the page size is not 4096.
DoInit ==
  IF initialized \/ PAGESIZE = -1 \/ PAGESIZE # PAGESIZEPKU
  THEN UNCHANGED <<g_initialized, initialized>>
  ELSE initialized' = TRUE /\ g_initialized' = TRUE

PKUInit ==
  /\ \/ g_initialized /\ UNCHANGED <<g_initialized, initialized>>
     \/ ~g_initialized /\ DoInit
  /\ lastFreed' = NoDid
  /\ UNCHANGED <<keyVars, domains>>

UsedRanges == {r \in RangeIds : ranges[r].used}

\* FreeDomainOk without the DomainExists(domain) check.
FreeDomainOkAnyId(domain, dtab) ==
  /\ initialized /\ \A d \in Dids : ~dtab[d].used
  /\ UsedRanges = {}
  /\ domains' = [dtab EXCEPT ![domain] = ZeroKey]
  /\ lastFreed' = domain

\* PKUDomainFree(domain) with its checks passed against the domain table
\* dtab: UserHandler(addr) for every used range (there is none), then
\* clear g_data.domains[domain] and return 0.
FreeDomainOk(domain, dtab) ==
  /\ initialized /\ DomainExists(domain) /\ \A d \in Dids : ~dtab[d].used
  /\ UsedRanges = {}
  /\ domains' = [dtab EXCEPT ![domain] = ZeroKey]
  /\ lastFreed' = domain

\* PKUDomainFree run against the domain table dtab.
FreeDomain(domain, dtab) ==
  \/ /\ ~initialized \/ ~DomainExists(domain) \/ \E d \in Dids : dtab[d].used
     /\ domains' = dtab                                  \* returns -1
     /\ lastFreed' = NoDid
  \/ FreeDomainOk(domain, dtab)

PKUDomainFree(domain) ==
  /\ FreeDomain(domain, domains)
  /\ UNCHANGED <<keyVars, g_initialized, initialized>>

\* No range among the first NUM_DOMAINS is used: revoke every used entry of
\* g_data.domains, then, without lazy free, PKUDomainFree(pkey).
PkeyFreeOk(pkey) ==
  LET revoked == [d \in Dids |-> [domains[d] EXCEPT !.used = FALSE]]
  IN  IF LazyFree THEN domains' = revoked /\ lastFreed' = NoDid
                  ELSE FreeDomain(pkey, revoked)

PKUPkeyFree(pkey) ==
  /\ IF \E rid \in 0 .. NUM_DOMAINS - 1 : ranges[rid].used
     THEN lastFreed' = NoDid /\ UNCHANGED domains       \* returns -1
     ELSE PkeyFreeOk(pkey)
  /\ UNCHANGED <<keyVars, g_initialized, initialized>>

\* PKUCreateDomain and PKUPkeyAlloc leave g_data alone.
OtherCall ==
  /\ lastFreed' = NoDid
  /\ UNCHANGED <<g_initialized, initialized, domains>>

Next ==
  \/ PKUInit
  \/ PKUCreateDomain /\ OtherCall
  \/ \E r \in Rights : PKUPkeyAlloc(r) /\ OtherCall
  \/ \E d \in DidArgs : PKUDomainFree(d)
  \/ \E k \in DidArgs : PKUPkeyFree(k)

Spec == Init /\ [][Next]_vars

-----------------------------------------------------------------------------
(* Properties.                                                             *)

TypeOK ==
  /\ keys \in [Dids -> PKUKey]
  /\ hostKeys \subseteq Dids
  /\ g_initialized \in BOOLEAN /\ initialized \in BOOLEAN
  /\ domains \in [Dids -> PKUKey]
  /\ lastFreed \in Dids \cup {NoDid}

\* Spec 4.3: a freed domain's key and used flag are cleared, so it no longer
\* exists for PKUCreateDomain, RegisterPKUCall, PKUSwitch or
\* PKUDomainAssignPkey.  The free path clears g_data.domains, while those
\* operations read keys[].
FreedDomainsGone == lastFreed # NoDid => ~DomainExists(lastFreed)

=============================================================================
