------------------------------- MODULE SobCmos -------------------------------
(***************************************************************************)
(* The Fujitsu CMOS driver sobcmos (firmware_update/fujitsu/src/sobcmos):  *)
(* the read and write ioctls over the index and data ports of the CMOS     *)
(* memory, which all callers share under driver_lock.  A step is one port  *)
(* access or one lock operation.                                           *)
(*                                                                         *)
(* The memory behind the ports is external: a write to the index port      *)
(* selects a register, a later access to the data port reads or writes the *)
(* selected one.  The register number is the low bits of the index; the    *)
(* top bit (NMIOFF) only masks interrupts and is left out.                 *)
(***************************************************************************)
EXTENDS Integers, Sequences

CONSTANTS
  Threads,      (* tasks that use the device                                  *)
  RegCount,     (* registers behind the ports: 128                            *)
  Bytes,        (* values of a register                                       *)
  Requests,     (* transfers that callers ask for                             *)
  NoRequest,    (* no transfer                                                *)
  NoThread,     (* the lock is free                                           *)
  MaxData       (* MAX_READ_CMOS_DATA and MAX_WRITE_CMOS_DATA: 128            *)

ASSUME RegCountAssumption == RegCount \in Nat \ {0}
ASSUME NoneAssumption == NoRequest \notin Requests /\ NoThread \notin Threads

(* A caller names at most as many bytes as the driver's buffers hold.         *)
ASSUME RequestsAssumption ==
  /\ Requests \subseteq [op : {"read", "write"}, ofs : Nat, count : 0..MaxData,
                         data : Seq(Bytes)]
  /\ \A r \in Requests : r.op = "write" => Len(r.data) = r.count

VARIABLES
  nvram,        (* the registers                                              *)
  index,        (* the register the index port selects                        *)
  lock,         (* driver_lock: its holder                                    *)
  pc,           (* where each thread is                                       *)
  request,      (* the ioctl's argument                                       *)
  i,            (* how often the loop of SysCmosRead or SysCmosWrite was run  *)
  buffer        (* ucBuffer: the bytes read                                   *)

vars == <<nvram, index, lock, pc, request, i, buffer>>

Registers == 0..(RegCount - 1)

(* Mutant of Register: the index does not wrap.                               *)
StraightRegister(ofs, n) == ofs + n

(* ucIndex is an 8-bit counter that starts at the low byte of ulOffset.       *)
Register(ofs, n) == ((ofs + n) % (2 * RegCount)) % RegCount

Goto(t, label) == pc' = [pc EXCEPT ![t] = label]

(* DrvCmosRead or DrvCmosWrite once the request is read from user space, for  *)
(* a write with the data.  If it cannot be read, the call returns -EFAULT and *)
(* nothing has changed.                                                       *)
DrvDispatchIoctl(t) ==
  /\ pc[t] = "idle"
  /\ \E r \in Requests : request' = [request EXCEPT ![t] = r]
  /\ Goto(t, "loop")
  /\ UNCHANGED <<nvram, index, lock, i, buffer>>

(* Mutant of SpinLock: the lock is not waited for.                            *)
NoSpinLock(t) ==
  /\ pc[t] = "loop" /\ i[t] < request[t].count
  /\ lock' = t
  /\ Goto(t, "index")
  /\ UNCHANGED <<nvram, index, request, i, buffer>>

SpinLock(t) ==
  /\ pc[t] = "loop" /\ i[t] < request[t].count
  /\ lock = NoThread
  /\ lock' = t
  /\ Goto(t, "index")
  /\ UNCHANGED <<nvram, index, request, i, buffer>>

(* Mutant of OutIndex: the lock covers the index port only.                   *)
OutIndexUnlock(t) ==
  /\ pc[t] = "index"
  /\ index' = Register(request[t].ofs, i[t])
  /\ lock' = NoThread
  /\ Goto(t, "data")
  /\ UNCHANGED <<nvram, request, i, buffer>>

OutIndex(t) ==
  /\ pc[t] = "index"
  /\ index' = Register(request[t].ofs, i[t])
  /\ Goto(t, "data")
  /\ UNCHANGED <<nvram, lock, request, i, buffer>>

InData(t) ==
  /\ pc[t] = "data" /\ request[t].op = "read"
  /\ buffer' = [buffer EXCEPT ![t] = Append(@, nvram[index])]
  /\ Goto(t, "unlock")
  /\ UNCHANGED <<nvram, index, lock, request, i>>

OutData(t) ==
  /\ pc[t] = "data" /\ request[t].op = "write"
  /\ nvram' = [nvram EXCEPT ![index] = request[t].data[i[t] + 1]]
  /\ Goto(t, "unlock")
  /\ UNCHANGED <<index, lock, request, i, buffer>>

(* Mutant of SpinUnlock: the loop of SysCmosWrite does not count.             *)
SpinUnlockNoCount(t) ==
  /\ pc[t] = "unlock"
  /\ lock' = NoThread
  /\ i' = IF request[t].op = "write" THEN i ELSE [i EXCEPT ![t] = @ + 1]
  /\ Goto(t, "loop")
  /\ UNCHANGED <<nvram, index, request, buffer>>

SpinUnlock(t) ==
  /\ pc[t] = "unlock"
  /\ lock' = NoThread
  /\ i' = [i EXCEPT ![t] = @ + 1]
  /\ Goto(t, "loop")
  /\ UNCHANGED <<nvram, index, request, buffer>>

(* copy_to_user and put_user: 0, DRV_ERROR or -EFAULT to the caller.          *)
Return(t) ==
  /\ pc[t] = "loop" /\ i[t] = request[t].count
  /\ request' = [request EXCEPT ![t] = NoRequest]
  /\ i' = [i EXCEPT ![t] = 0]
  /\ buffer' = [buffer EXCEPT ![t] = <<>>]
  /\ Goto(t, "idle")
  /\ UNCHANGED <<nvram, index, lock>>

Init ==
  /\ nvram \in [Registers -> Bytes]
  /\ index \in Registers
  /\ lock = NoThread
  /\ pc = [t \in Threads |-> "idle"]
  /\ request = [t \in Threads |-> NoRequest]
  /\ i = [t \in Threads |-> 0]
  /\ buffer = [t \in Threads |-> <<>>]

(* What the kernel runs to the end of the system call.                        *)
Step(t) ==
  SpinLock(t) \/ OutIndex(t) \/ InData(t) \/ OutData(t) \/ SpinUnlock(t) \/ Return(t)

Next == \E t \in Threads : DrvDispatchIoctl(t) \/ Step(t)

Spec == Init /\ [][Next]_vars

(* The kernel's spin locks are granted in the order of the requests, so a     *)
(* thread that waits again and again while the lock is free gets it.          *)
FairSpec == Spec /\ \A t \in Threads : WF_vars(Step(t)) /\ SF_vars(SpinLock(t))

-----------------------------------------------------------------------------
TypeOK ==
  /\ nvram \in [Registers -> Bytes]
  /\ index \in Registers
  /\ lock \in Threads \union {NoThread}
  /\ pc \in [Threads -> {"idle", "loop", "index", "data", "unlock"}]
  /\ request \in [Threads -> Requests \union {NoRequest}]
  /\ i \in [Threads -> Nat]
  /\ buffer \in [Threads -> Seq(Bytes)]

(* Between the two port accesses of a thread nobody selects another register: *)
(* spin_lock_irq around outb and inb.                                         *)
IndexIsMine ==
  \A t \in Threads :
    /\ pc[t] \in {"index", "data", "unlock"} => lock = t
    /\ pc[t] = "data" => index = Register(request[t].ofs, i[t])

(* The transfers as their callers see them.                                   *)
Made(t) == IF pc[t] = "unlock" THEN i[t] + 1 ELSE i[t]

Transfers == INSTANCE CmosRegisters WITH
  done <- [t \in Threads |-> Made(t)],
  got  <- buffer

TransfersSpec == Transfers!Spec

(* Every transfer ends, however many other callers use the ports.             *)
TransferEnds == \A t \in Threads : pc[t] # "idle" ~> pc[t] = "idle"
=============================================================================
