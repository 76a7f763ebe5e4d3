------------------------------ MODULE PKUKeys ------------------------------
(***************************************************************************)
(* The domain table keys[] of the WASI build (src/pkuc/pku.c) and the      *)
(* operation that fills it, PKUCreateDomain, through which the host's      *)
(* pkey_alloc hands out protection keys.  PKUDomains and PKUGate both     *)
(* extend this module: keys[] is the only state they share.                *)
(***************************************************************************)
EXTENDS Integers, Bitwise

CONSTANTS
  NUM_DOMAINS     \* entries of keys[] and keys of the PKRU (16 in pku.h)

ASSUME NUM_DOMAINS \in Nat \ {0}

VARIABLES
  keys,           \* keys[did] : [pkey, perm, used]
  hostKeys        \* keys the host's pkey_alloc has handed out

keyVars == <<keys, hostKeys>>

Dids == 0 .. NUM_DOMAINS - 1

PKEY_DISABLE_ACCESS == 1
PKEY_DISABLE_WRITE  == 2
PK_NUM_KEYS == NUM_DOMAINS          \* the literal 16 of PKUCreateDomain
EINVAL == 22
EACCES == 13

ZeroKey == [pkey |-> 0, perm |-> 0, used |-> FALSE]
PKUKey  == [pkey : Dids, perm : 0 .. 3, used : BOOLEAN]

\* Arguments callers pass: every valid domain id and one invalid on each side.
DidArgs == -1 .. NUM_DOMAINS
\* AccessRights arguments: a valid flag and a stray bit.
Rights == {PKEY_DISABLE_WRITE, 4}

\* ~x of an unsigned int, taken over the 2 bits per key the model keeps.
RegWidth == 2 * NUM_DOMAINS
CNot(x) == 2^RegWidth - 1 - x

ValidRights(r) == (r & CNot(PKEY_DISABLE_ACCESS | PKEY_DISABLE_WRITE)) = 0

DomainExists(did) == did \in Dids /\ keys[did].used

\* PKUInitCtor: only the root domain exists.
KeysInit ==
  /\ keys = [d \in Dids |-> IF d = 0 THEN [pkey |-> 0, perm |-> 0, used |-> TRUE]
                                     ELSE ZeroKey]
  /\ hostKeys = {0}

\* What the host's pkey_alloc answers: a key it has not handed out, or,
\* with every key taken, a byte that is not a key index.
HostReplies == IF Dids \ hostKeys = {} THEN {PK_NUM_KEYS} ELSE Dids \ hostKeys

\* The WASICALL failing (returns -1), and a reply of 16 or more (returns 0,
\* the root's did), leave the table alone; otherwise the key the host
\* granted becomes the new domain's did.
PKUCreateDomain ==
  \/ UNCHANGED keyVars
  \/ \E k \in HostReplies :
       /\ k < PK_NUM_KEYS
       /\ hostKeys' = hostKeys \cup {k}
       /\ keys' = [keys EXCEPT ![k].pkey = k, ![k].used = TRUE]

\* Stray AccessRights bits: returns -1.  AccessRights is not stored.
PKUPkeyAlloc(rights) ==
  \/ ~ValidRights(rights) /\ UNCHANGED keyVars
  \/ ValidRights(rights) /\ PKUCreateDomain

=============================================================================
