---------------------------- MODULE MCSmbiosProc -----------------------------
(* Instances of the smbios module for TLC.                                    *)
EXTENDS SmbiosProc, TLC

S(type, subtype, size, text) == [type |-> type, subtype |-> subtype, size |-> size, text |-> text]
Machine(kind, table) == [kind |-> kind, table |-> table]

(* Types whose raw name or readable name begins like another, two of one      *)
(* type, and two that differ in the subtype.                                  *)
Prefixed == <<S(17, 0, 3, 3), S(1, 0, 2, 5)>>
Repeated == <<S(9, 0, 4, 2), S(9, 1, 1, 4)>>
Digits   == <<S(33, 0, 2, 3), S(64, 0, 1, 2)>>
Subtypes == <<S(208, 1, 1, 3), S(208, 12, 5, 2)>>

MCMachines == {Machine(k, <<S(0, 0, 2, 3)>>) : k \in Kinds}
              \union {Machine("smbios", t) : t \in {<<>>, Prefixed, Digits, Repeated, Subtypes}}

Sym == Permutations(Readers)
=============================================================================
