---------------------------- MODULE PKUCodecAbs ----------------------------
(***************************************************************************)
(* Spec 4.1: the protection register is 16 two-bit fields.  Encoding a    *)
(* (key, access-disabled?, write-disabled?) triple replaces that key's     *)
(* field and keeps every other key's bits.                                 *)
(***************************************************************************)
EXTENDS Integers

CONSTANT Keys                 \* the keys that are written

VARIABLE fields               \* fields[k] = AD + 2 * WD of key k

AllKeys == 0 .. 15

\* The Linux default: key 0 enabled, every other key access-disabled.
Init == fields = [k \in AllKeys |-> IF k = 0 THEN 0 ELSE 1]

Encode(k, ad, wd) ==
  fields' = [fields EXCEPT ![k] = (IF ad THEN 1 ELSE 0) + (IF wd THEN 2 ELSE 0)]

Next == \E k \in Keys, ad, wd \in BOOLEAN : Encode(k, ad, wd)

Spec == Init /\ [][Next]_fields

=============================================================================
