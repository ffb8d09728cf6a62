--------------------------- MODULE SobCmos_proofs ---------------------------
(***************************************************************************)
(* Proofs about the CMOS driver, for any number of threads, registers and  *)
(* bytes: driver_lock keeps the two port accesses of a thread together,    *)
(* and so each transfer is a sequence of atomic register accesses.         *)
(***************************************************************************)
EXTENDS SobCmos, TLAPS

LEMMA RegisterType ==
  ASSUME NEW ofs \in Nat, NEW n \in Nat
  PROVE  Register(ofs, n) \in Registers
BY RegCountAssumption DEF Register, Registers

(* A thread in a transfer has a request, one in the loop's body an access     *)
(* left to make, and an idle thread nothing.                                  *)
LoopInv == \A t \in Threads :
  /\ pc[t] = "idle" => request[t] = NoRequest /\ i[t] = 0 /\ buffer[t] = <<>>
  /\ pc[t] # "idle" => request[t] \in Requests /\ i[t] <= request[t].count
  /\ pc[t] \in {"index", "data", "unlock"} => i[t] < request[t].count

IInv == TypeOK /\ LoopInv /\ IndexIsMine

LEMMA InitInv == Init => IInv
BY DEF Init, IInv, TypeOK, LoopInv, IndexIsMine

LEMMA RequestType ==
  ASSUME NEW r \in Requests
  PROVE  /\ r.op \in {"read", "write"} /\ r.ofs \in Nat /\ r.count \in Nat
         /\ r.op = "write" => \A n \in 1..r.count : r.data[n] \in Bytes
<1>1. /\ r.op \in {"read", "write"} /\ r.ofs \in Nat /\ r.count \in 0..MaxData
      /\ r.data \in Seq(Bytes)
  BY RequestsAssumption
<1>2. r.op = "write" => Len(r.data) = r.count
  BY RequestsAssumption
<1> QED
  BY <1>1, <1>2

LEMMA NextInv ==
  ASSUME IInv, NEW t \in Threads, DrvDispatchIoctl(t) \/ Step(t)
  PROVE  IInv'
<1> USE DEF IInv
<1>0. /\ pc[t] # "idle" =>
           /\ request[t] \in Requests /\ request[t].ofs \in Nat /\ request[t].count \in Nat
           /\ i[t] \in Nat
      /\ NoThread \notin Threads
  BY RequestType, NoneAssumption DEF TypeOK, LoopInv
<1>1. CASE DrvDispatchIoctl(t)
  <2>1. TypeOK'
    BY <1>1 DEF DrvDispatchIoctl, Goto, TypeOK
  <2>2. LoopInv'
    BY <1>1, RequestType DEF DrvDispatchIoctl, Goto, TypeOK, LoopInv
  <2>3. IndexIsMine'
    BY <1>1 DEF DrvDispatchIoctl, Goto, TypeOK, IndexIsMine
  <2> QED
    BY <2>1, <2>2, <2>3
<1>2. CASE SpinLock(t)
  <2>1. TypeOK'
    BY <1>2 DEF SpinLock, Goto, TypeOK
  <2>2. LoopInv'
    BY <1>2 DEF SpinLock, Goto, TypeOK, LoopInv
  <2>3. IndexIsMine'
    BY <1>0, <1>2 DEF SpinLock, Goto, TypeOK, IndexIsMine
  <2> QED
    BY <2>1, <2>2, <2>3
<1>3. CASE OutIndex(t)
  <2>1. TypeOK'
    BY <1>0, <1>3, RegisterType DEF OutIndex, Goto, TypeOK
  <2>2. LoopInv'
    BY <1>3 DEF OutIndex, Goto, TypeOK, LoopInv
  <2>3. IndexIsMine'
    BY <1>3 DEF OutIndex, Goto, TypeOK, IndexIsMine
  <2> QED
    BY <2>1, <2>2, <2>3
<1>4. CASE InData(t)
  <2>1. TypeOK'
    <3>1. nvram[index] \in Bytes /\ buffer[t] \in Seq(Bytes)
      BY DEF TypeOK
    <3>2. Append(buffer[t], nvram[index]) \in Seq(Bytes)
      BY <3>1
    <3> QED
      BY <1>4, <3>2 DEF InData, Goto, TypeOK
  <2>2. LoopInv'
    BY <1>4 DEF InData, Goto, TypeOK, LoopInv
  <2>3. IndexIsMine'
    BY <1>4 DEF InData, Goto, TypeOK, IndexIsMine
  <2> QED
    BY <2>1, <2>2, <2>3
<1>5. CASE OutData(t)
  <2>1. TypeOK'
    <3>1. i[t] + 1 \in 1..request[t].count
      BY <1>0, <1>5 DEF OutData, LoopInv
    <3>2. request[t].data[i[t] + 1] \in Bytes
      BY <1>0, <1>5, <3>1, RequestType DEF OutData
    <3> QED
      BY <1>5, <3>2 DEF OutData, Goto, TypeOK
  <2>2. LoopInv'
    BY <1>5 DEF OutData, Goto, TypeOK, LoopInv
  <2>3. IndexIsMine'
    BY <1>5 DEF OutData, Goto, TypeOK, IndexIsMine
  <2> QED
    BY <2>1, <2>2, <2>3
<1>6. CASE SpinUnlock(t)
  <2>1. TypeOK'
    BY <1>6 DEF SpinUnlock, Goto, TypeOK
  <2>2. LoopInv'
    BY <1>0, <1>6 DEF SpinUnlock, Goto, TypeOK, LoopInv
  <2>3. IndexIsMine'
    BY <1>0, <1>6 DEF SpinUnlock, Goto, TypeOK, IndexIsMine
  <2> QED
    BY <2>1, <2>2, <2>3
<1>7. CASE Return(t)
  <2>1. TypeOK'
    BY <1>7 DEF Return, Goto, TypeOK
  <2>2. LoopInv'
    BY <1>7 DEF Return, Goto, TypeOK, LoopInv
  <2>3. IndexIsMine'
    BY <1>7 DEF Return, Goto, TypeOK, IndexIsMine
  <2> QED
    BY <2>1, <2>2, <2>3
<1> QED
  BY <1>1, <1>2, <1>3, <1>4, <1>5, <1>6, <1>7 DEF Step

(* The inductive invariant.                                                   *)
THEOREM Invariance == Spec => []IInv
<1>1. IInv /\ UNCHANGED vars => IInv'
  BY DEF IInv, TypeOK, LoopInv, IndexIsMine, vars
<1>2. IInv /\ [Next]_vars => IInv'
  BY <1>1, NextInv DEF Next
<1> QED
  BY <1>2, InitInv, PTL DEF Spec

(* Type correctness: a transfer never selects a register beyond the memory,   *)
(* and its counter stays a number.                                            *)
THEOREM TypeCorrect == Spec => []TypeOK
BY Invariance, PTL DEF IInv

(* Between a thread's outb to the index port and its access to the data port  *)
(* no other thread selects a register, for any number of threads.             *)
THEOREM IndexCorrect == Spec => []IndexIsMine
BY Invariance, PTL DEF IInv

(* A step of a thread is an access, the begin or the end of a transfer, or    *)
(* invisible to callers.                                                      *)
Dones == [u \in Threads |-> Made(u)]

LEMMA DoneStep ==
  ASSUME NEW t \in Threads, \A u \in Threads \ {t} : pc'[u] = pc[u] /\ i'[u] = i[u]
  PROVE  /\ Dones' = [Dones EXCEPT ![t] = Made(t)']
         /\ Dones[t] = Made(t)
         /\ Made(t)' = Made(t) => Dones' = Dones
<1>1. \A u \in Threads \ {t} : Made(u)' = Made(u)
  BY DEF Made
<1> QED
  BY <1>1 DEF Dones

LEMMA RefineStep ==
  ASSUME IInv, NEW t \in Threads, DrvDispatchIoctl(t) \/ Step(t)
  PROVE  Transfers!Next \/ UNCHANGED Transfers!vars
<1> USE DEF IInv
<1>0. \A u \in Threads \ {t} : pc'[u] = pc[u] /\ i'[u] = i[u]
  BY DEF Step, DrvDispatchIoctl, SpinLock, OutIndex, InData, OutData, SpinUnlock, Return, Goto, TypeOK
<1>d. /\ Dones' = [Dones EXCEPT ![t] = Made(t)']
      /\ Dones[t] = Made(t)
      /\ Made(t)' = Made(t) => Dones' = Dones
  BY <1>0, DoneStep
<1>1. CASE DrvDispatchIoctl(t)
  <2>1. Made(t)' = Made(t)
    BY <1>1 DEF DrvDispatchIoctl, Goto, Made, TypeOK
  <2>2. Transfers!Begin(t)
    BY <1>1, <1>d, <2>1 DEF DrvDispatchIoctl, Transfers!Begin, LoopInv, Dones
  <2> QED
    BY <2>2 DEF Transfers!Next
<1>2. CASE SpinLock(t) \/ OutIndex(t) \/ SpinUnlock(t)
  <2>1. Made(t)' = Made(t)
    BY <1>2 DEF SpinLock, OutIndex, SpinUnlock, Goto, Made, TypeOK
  <2> QED
    BY <1>2, <1>d, <2>1 DEF SpinLock, OutIndex, SpinUnlock, Transfers!vars, Dones
<1>3. CASE InData(t) \/ OutData(t)
  <2>1. /\ Made(t) = i[t] /\ Made(t)' = Made(t) + 1
        /\ index = Register(request[t].ofs, i[t])
        /\ request[t] # NoRequest /\ i[t] < request[t].count
    BY <1>3, NoneAssumption DEF InData, OutData, Goto, Made, TypeOK, LoopInv, IndexIsMine
  <2>2. Transfers!Access(t)
    BY <1>3, <1>d, <2>1 DEF InData, OutData, Transfers!Access, Dones
  <2> QED
    BY <2>2 DEF Transfers!Next
<1>4. CASE Return(t)
  <2>1. Made(t) = request[t].count /\ Made(t)' = 0 /\ request[t] # NoRequest
    BY <1>4, NoneAssumption DEF Return, Goto, Made, TypeOK, LoopInv
  <2>2. Transfers!End(t)
    BY <1>4, <1>d, <2>1 DEF Return, Transfers!End, Dones
  <2> QED
    BY <2>2 DEF Transfers!Next
<1> QED
  BY <1>1, <1>2, <1>3, <1>4 DEF Step

(* The driver implements CmosRegisters: every transfer is a sequence of       *)
(* atomic accesses to its registers, in order and each made once.             *)
THEOREM TransfersCorrect == Spec => TransfersSpec
<1>1. Init => Transfers!Init
  BY DEF Init, Transfers!Init, Made, Registers
<1>2. IInv /\ [Next]_vars => [Transfers!Next]_(Transfers!vars)
  <2>1. UNCHANGED vars => UNCHANGED Transfers!vars
    BY DEF vars, Transfers!vars, Made
  <2> QED
    BY <2>1, RefineStep DEF Next
<1> QED
  BY <1>1, <1>2, Invariance, PTL DEF Spec, TransfersSpec, Transfers!Spec
=============================================================================
