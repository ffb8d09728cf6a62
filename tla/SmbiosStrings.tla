---------------------------- MODULE SmbiosStrings ----------------------------
(***************************************************************************)
(* The texts of firmware_update/fujitsu/src/smbios/Sources/strgdef.h.      *)
(* Only their widths count: each record gives, for one structure type, the *)
(* longest text of each of its tables.                                     *)
(***************************************************************************)
EXTENDS Integers

LabelWidth == 35              (* every label is padded to it, and none is wider *)
NullWidth  == 6               (* "(null)", the kernel's text for a NULL string   *)
UnitWidth  == 6               (* a unit and the blank before it                  *)

Words0  == [characteristics |-> 39, ext1 |-> 14, ext2 |-> 43]
Words1  == [wakeuptype |-> 17]
Words3  == [lock |-> 22, type |-> 21, state |-> 15, security |-> 29]
Words4Family == 56
Words4  == [type |-> 17, voltage |-> 14, status |-> 35, socket |-> 18, upgrade |-> 21]
Words5  == [detection |-> 12, ecc |-> 27, interleave |-> 22, speeds |-> 7,
            types |-> 14, voltage |-> 4]
Words6  == [types |-> 14, size |-> 26, status |-> 55]
Words7  == [mode |-> 19, enabled |-> 20, location |-> 8, sram |-> 13, ecc |-> 21,
            type |-> 11, associativity |-> 22]
Words8Connector == 36
Words8Port == 30
Words9  == [type |-> 28, width |-> 7, usage |-> 9, length |-> 12, characteristics |-> 39]
Words10 == [status |-> 8, type |-> 15]
Words16 == [location |-> 27, use |-> 19, ecc |-> 14, capacity |-> 7, error |-> 45]
Words17 == [error |-> 45, unknown |-> 7, size |-> 26, form |-> 16, set |-> 17,
            type |-> 7, detail |-> 13]
Words20 == [position |-> 15, unknown |-> 7]
Words32 == 47
Words127 == 62
(* The longest of the names behind the number of a type.                      *)
NameWidth == 31
NotSupportedWidth == 39
=============================================================================
