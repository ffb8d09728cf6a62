---------------------------- MODULE CmosRegisters ----------------------------
(***************************************************************************)
(* What the driver sobcmos promises: a transfer accesses its registers one *)
(* after the other, in order, each exactly once and each access atomic;    *)
(* it is over only when it has made all of them.  A transfer as a whole is *)
(* not atomic.                                                             *)
(***************************************************************************)
EXTENDS Integers, Sequences

CONSTANTS
  Threads,
  RegCount,           (* CMOS registers                                      *)
  Bytes,
  Requests,           (* transfers that callers may ask for                  *)
  NoRequest,
  Register(_, _)      (* the register of the n-th access at an offset        *)

VARIABLES
  nvram,              (* the registers                                       *)
  request,            (* each thread's transfer                              *)
  done,               (* how many accesses of it are made                    *)
  got                 (* the bytes read                                      *)

vars == <<nvram, request, done, got>>

Init ==
  /\ nvram \in [0..(RegCount - 1) -> Bytes]
  /\ request = [t \in Threads |-> NoRequest]
  /\ done = [t \in Threads |-> 0]
  /\ got = [t \in Threads |-> <<>>]

Begin(t) ==
  /\ request[t] = NoRequest
  /\ \E r \in Requests : request' = [request EXCEPT ![t] = r]
  /\ UNCHANGED <<nvram, done, got>>

(* The next access.                                                           *)
Access(t) ==
  LET r   == request[t]
      reg == Register(r.ofs, done[t])
  IN /\ r # NoRequest
     /\ done[t] < r.count
     /\ done' = [done EXCEPT ![t] = @ + 1]
     /\ \/ /\ r.op = "read"
           /\ got' = [got EXCEPT ![t] = Append(@, nvram[reg])]
           /\ UNCHANGED nvram
        \/ /\ r.op = "write"
           /\ nvram' = [nvram EXCEPT ![reg] = r.data[done[t] + 1]]
           /\ UNCHANGED got
     /\ UNCHANGED request

End(t) ==
  /\ request[t] # NoRequest
  /\ done[t] = request[t].count
  /\ request' = [request EXCEPT ![t] = NoRequest]
  /\ done' = [done EXCEPT ![t] = 0]
  /\ got' = [got EXCEPT ![t] = <<>>]
  /\ UNCHANGED nvram

Next == \E t \in Threads : Begin(t) \/ Access(t) \/ End(t)

Spec == Init /\ [][Next]_vars
=============================================================================
