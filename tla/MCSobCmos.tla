------------------------------ MODULE MCSobCmos ------------------------------
(* An instance of the CMOS driver for TLC: two registers, an offset at which  *)
(* the 8-bit index wraps, and transfers of up to three bytes.                 *)
EXTENDS SobCmos

SomeRequests ==
  {[op |-> "read", ofs |-> ofs, count |-> n, data |-> <<>>] : ofs \in {0, 3}, n \in {0, 2}}
  \union
  {[op |-> "write", ofs |-> 3, count |-> Len(d), data |-> d] : d \in {<<1>>, <<0, 1, 1>>}}
=============================================================================
