--------------------------- MODULE SobBapi_proofs ---------------------------
(***************************************************************************)
(* Proofs about the BIOS-API driver, for any number of threads, files,     *)
(* blocks and CPUs and any sizes: the type invariant, and that the ioctl   *)
(* keeps the promise of BapiService to each caller although all of them    *)
(* share g_BApiInfo without a lock; and, for one thread and one CPU, that  *)
(* the task priority is restored.                                          *)
(***************************************************************************)
EXTENDS SobBapi, SequenceTheorems, TLAPS

-----------------------------------------------------------------------------
(* The parts of a call *)

OpenPcs  == {"open_map", "open_clear", "open_read", "open_test"}
AskedPcs == {"args", "again_map", "again_clear", "again_read", "sig", "block",
             "ctl", "ctl_get", "copy_ctl", "copy_in", "map", "map_init",
             "map_loop", "map_fail", "map_fill", "map_copy", "access"}
CallPcs  == {"bios_map", "tpr", "exec", "bios"}
CleanPcs == {"free_map", "free_buf", "null_buf"}

(* The invariant of the calls: which call a thread is in where, that only the *)
(* root group gets to the BIOS, and what stands behind DRV_READY.             *)

CallInv == \A t \in Threads :
  /\ pc[t] = "idle" => loc[t] = NoCall
  /\ pc[t] \in OpenPcs => loc[t].call = "open" /\ loc[t].file \in Files
  /\ pc[t] \in AskedPcs \union CallPcs \union {"copy_out", "put"} => loc[t].call = "ioctl"
  /\ pc[t] \in CleanPcs => loc[t].call \in {"ioctl", "release"}
  /\ loc[t].call # "ioctl" => loc[t].root = FALSE
  /\ pc[t] \in CallPcs \union {"copy_out"} => loc[t].root
  /\ pc[t] = "copy_out" => loc[t].ran
  /\ loc[t].st = "READY" =>
       loc[t].ran /\ loc[t].root /\ pc[t] \in CleanPcs \union {"put"}

-----------------------------------------------------------------------------
(* Lemmas about the thread operators *)

LEMMA EmptyLists == <<>> \in ItemList /\ <<>> \in FlashMap
BY DEF ItemList, FlashMap

(* The locals of a thread that is in no system call.                          *)
LEMMA NoCallType == NoCall \in Locals
BY DEF NoCall, Locals, Pointer, Status

LEMMA LocalsOf == ASSUME ThreadType, NEW t \in Threads PROVE loc[t] \in Locals
BY DEF ThreadType

(* A step that moves a thread to a label and gives it new locals.             *)
LEMMA MoveType ==
  ASSUME ThreadType, NEW t \in Threads, NEW label \in Pcs, NEW locals \in Locals,
         Goto(t, label), Set(t, locals),
         label \in MapPcs => locals.k \in {1, 2}
  PROVE  ThreadType'
BY DEF ThreadType, Goto, Set

(* A step that moves a thread to a label and keeps its locals.                *)
LEMMA JumpType ==
  ASSUME ThreadType, NEW t \in Threads, NEW label \in Pcs,
         Goto(t, label), UNCHANGED loc,
         label \in MapPcs => loc[t].k \in {1, 2}
  PROVE  ThreadType'
BY DEF ThreadType, Goto

(* A step that gives a thread new locals where it is.                         *)
LEMMA StayType ==
  ASSUME ThreadType, NEW t \in Threads, NEW locals \in Locals,
         UNCHANGED pc, Set(t, locals),
         pc[t] \in MapPcs => locals.k \in {1, 2}
  PROVE  ThreadType'
BY DEF ThreadType, Set

LEMMA ReturnType ==
  ASSUME ThreadType, NEW t \in Threads, Return(t)
  PROVE  ThreadType'
<1>1. "idle" \in Pcs /\ "idle" \notin MapPcs
  BY DEF Pcs, MapPcs
<1> QED
  BY <1>1, NoCallType, MoveType DEF Return

LEMMA OopsType ==
  ASSUME ThreadType, NEW t \in Threads, Oops(t)
  PROVE  ThreadType'
<1>1. "oops" \in Pcs /\ "oops" \notin MapPcs
  BY DEF Pcs, MapPcs
<1> QED
  BY <1>1, JumpType DEF Oops

LEMMA LeaveType ==
  ASSUME ThreadType, NEW t \in Threads, NEW status \in Status, Leave(t, status)
  PROVE  ThreadType'
<1>1. "free_map" \in Pcs
  BY DEF Pcs
<1>2. [loc[t] EXCEPT !.st = status, !.k = 1] \in Locals
  <2>1. loc[t] \in Locals
    BY LocalsOf
  <2> QED
    BY <2>1, Zenon DEF Locals
<1>3. [loc[t] EXCEPT !.st = status, !.k = 1].k = 1
  BY LocalsOf DEF Locals
<1> QED
  BY <1>1, <1>2, <1>3, MoveType DEF Leave

(* The outcome of BiosApiCtrlBufferAlloc on the thread.                       *)
LEMMA NextBufferType ==
  ASSUME ThreadType, NEW t \in Threads, NextBuffer(t)
  PROVE  ThreadType'
<1>1. {"ctl", "copy_ctl"} \subseteq Pcs /\ "ctl" \notin MapPcs /\ "copy_ctl" \notin MapPcs
  BY DEF Pcs, MapPcs
<1>2. CASE loc[t].k < 3
  <2>1. loc[t].k \in {1, 2}
    BY <1>2, LocalsOf DEF Locals
  <2>2. [loc[t] EXCEPT !.k = @ + 1] \in Locals
    <3>1. loc[t].k + 1 \in {1, 2, 3}
      BY <2>1
    <3> QED
      BY <3>1, LocalsOf DEF Locals
  <2>3. Goto(t, "ctl") /\ Set(t, [loc[t] EXCEPT !.k = @ + 1])
    BY <1>2 DEF NextBuffer
  <2> QED
    BY <1>1, <2>2, <2>3, MoveType
<1>3. CASE ~(loc[t].k < 3)
  BY <1>1, <1>3, JumpType DEF NextBuffer
<1> QED
  BY <1>2, <1>3

-----------------------------------------------------------------------------
(* Lemmas about memory *)

(* A step that leaves everything but the threads alone.                       *)
LEMMA InfoSame ==
  ASSUME InfoType, UNCHANGED <<bios, segBase, info, buf, map>>
  PROVE  InfoType'
BY DEF InfoType, info

LEMMA MemSame ==
  ASSUME MemType, UNCHANGED mem
  PROVE  MemType'
BY DEF MemType, mem

LEMMA FreeAllType ==
  ASSUME MemType, NEW blocks, FreeAll(blocks)
  PROVE  MemType'
<1>1. heap' \in [Blocks -> Nat]
  BY DEF MemType, FreeAll
<1>2. list' \in [Blocks -> FlashMap]
  BY EmptyLists DEF MemType, FreeAll
<1>3. fault' \in {"none", "overrun", "double_free", "wild_call"}
  BY DEF MemType, FreeAll, Blame
<1> QED
  BY <1>1, <1>2, <1>3 DEF MemType

LEMMA BlameType ==
  ASSUME MemType, NEW bad, NEW what \in {"overrun", "double_free", "wild_call"},
         Blame(bad, what), UNCHANGED <<heap, list>>
  PROVE  MemType'
BY DEF MemType, Blame

LEMMA TouchType ==
  ASSUME MemType, NEW p, NEW n, Touch(p, n), UNCHANGED <<heap, list>>
  PROVE  MemType'
BY DEF MemType, Touch, Blame

LEMMA AllocateType ==
  ASSUME MemType, NEW n \in Nat, NEW b \in Allocatable(n), Allocate(b, n), UNCHANGED fault
  PROVE  MemType' /\ b \in Blocks
BY EmptyLists DEF MemType, Allocate, Allocatable

LEMMA NoItemsType == NoItems \in PhysMapList
BY EmptyLists DEF NoItems, PhysMapList

LEMMA ReleaseType ==
  ASSUME InfoType, MemType, NEW m \in Maps, PhysBlkReleaseAllBlocks(m),
         UNCHANGED <<bios, segBase, info, buf>>
  PROVE  InfoType' /\ MemType'
<1>1. map' \in [Maps -> PhysMapList]
  BY NoItemsType DEF PhysBlkReleaseAllBlocks, InfoType
<1>2. InfoType'
  BY <1>1 DEF InfoType, info
<1>3. MemType'
  BY FreeAllType DEF PhysBlkReleaseAllBlocks
<1> QED
  BY <1>2, <1>3

LEMMA ClearedType == ASSUME NEW a \in AddressInfo PROVE Cleared(a) \in AddressInfo
BY DEF Cleared, AddressInfo, Pointer

LEMMA NoAddressType == NoAddress \in AddressInfo
BY DEF NoAddress, AddressInfo, Pointer

LEMMA BufOfType ==
  ASSUME ThreadType, NEW t \in Threads
  PROVE  BufOrder[loc[t].k] \in Bufs
<1>1. loc[t].k \in {1, 2, 3}
  BY LocalsOf DEF Locals
<1> QED
  BY <1>1 DEF BufOrder, Bufs

LEMMA MapOfType ==
  ASSUME ThreadType, NEW t \in Threads, pc[t] \in MapPcs
  PROVE  MapOf(t) \in Maps /\ loc[t].k \in {1, 2}
<1>1. loc[t].k \in {1, 2}
  BY DEF ThreadType
<1> QED
  BY <1>1 DEF MapOf, MapOrder, Maps

(* Byte counts of a caller's request.                                         *)
LEMMA NeedType ==
  ASSUME ThreadType, NEW t \in Threads, NEW b
  PROVE  Need(t, b) \in Nat
BY LocalsOf, SizesAssumption DEF Need, SizeOf, Locals

LEMMA DataSizeType ==
  ASSUME ThreadType, NEW t \in Threads
  PROVE  DataSize(t) \in Nat
BY LocalsOf DEF DataSize, SizeOf, Locals

(* The next block is no larger than what is left.                             *)
LEMMA BlockSizeType ==
  ASSUME NEW items, NEW left \in Nat, NEW std \in Nat
  PROVE  /\ BlockSize(items, left, std) \in Nat
         /\ BlockSize(items, left, std) <= left
BY SizesAssumption DEF BlockSize, Min2

LEMMA ClearInfoType ==
  ASSUME InfoType, ClearInfo, UNCHANGED <<bios, segBase>>
  PROVE  InfoType'
BY NoAddressType, NoItemsType DEF InfoType, ClearInfo, NoHeader

LEMMA ReadInfoType ==
  ASSUME InfoType, BiosApiReadInfo
  PROVE  hdr' \in [ofs : BOOLEAN, old : BOOLEAN]
<1>1. [ofs |-> bios.ofs, old |-> bios.old] \in [ofs : BOOLEAN, old : BOOLEAN]
  BY MachinesAssumption DEF InfoType
<1> QED
  BY <1>1 DEF InfoType, BiosApiReadInfo

-----------------------------------------------------------------------------
(* Every action keeps the types *)

LEMMA DrvOpenType ==
  ASSUME TypeOK, NEW t \in Threads, DrvOpen(t)
  PROVE  TypeOK'
<1> USE DEF TypeOK
<1>1. InfoType'
  BY InfoSame DEF DrvOpen
<1>2. MemType'
  BY MemSame DEF DrvOpen
<1>3. ThreadType'
  <2>1. {"open_test", "open_map"} \subseteq Pcs \ MapPcs
    BY DEF Pcs, MapPcs
  <2>2. PICK f \in Files : Set(t, [NoCall EXCEPT !.call = "open", !.file = f])
    BY DEF DrvOpen
  <2>3. [NoCall EXCEPT !.call = "open", !.file = f] \in Locals
    BY NoCallType DEF Locals
  <2> QED
    BY <2>1, <2>2, <2>3, MoveType DEF DrvOpen
<1>4. files' \subseteq Files /\ tpr' \in [CPUs -> BOOLEAN]
  BY DEF DrvOpen
<1> QED
  BY <1>1, <1>2, <1>3, <1>4

LEMMA OpenMapType ==
  ASSUME TypeOK, NEW t \in Threads, OpenMap(t)
  PROVE  TypeOK'
<1> USE DEF TypeOK
<1>1. InfoType'
  BY DEF InfoType, OpenMap, info
<1>2. MemType'
  BY MemSame DEF OpenMap
<1>3. ThreadType'
  <2>1. {"open_clear"} \subseteq Pcs \ MapPcs
    BY DEF Pcs, MapPcs
  <2> QED
    BY <2>1, JumpType DEF OpenMap
<1>4. files' \subseteq Files /\ tpr' \in [CPUs -> BOOLEAN]
  BY DEF OpenMap
<1> QED
  BY <1>1, <1>2, <1>3, <1>4

LEMMA OpenClearType ==
  ASSUME TypeOK, NEW t \in Threads, OpenClear(t)
  PROVE  TypeOK'
<1> USE DEF TypeOK
<1>1. InfoType'
  BY ClearInfoType DEF OpenClear
<1>2. MemType'
  BY MemSame DEF OpenClear
<1>3. ThreadType'
  <2>1. {"open_read"} \subseteq Pcs \ MapPcs
    BY DEF Pcs, MapPcs
  <2> QED
    BY <2>1, JumpType DEF OpenClear
<1>4. files' \subseteq Files /\ tpr' \in [CPUs -> BOOLEAN]
  BY DEF OpenClear
<1> QED
  BY <1>1, <1>2, <1>3, <1>4

LEMMA OpenReadType ==
  ASSUME TypeOK, NEW t \in Threads, OpenRead(t)
  PROVE  TypeOK'
<1> USE DEF TypeOK
<1>1. InfoType'
  BY ReadInfoType DEF OpenRead, InfoType
<1>2. MemType'
  BY MemSame DEF OpenRead
<1>3. ThreadType'
  <2>1. {"open_test"} \subseteq Pcs \ MapPcs
    BY DEF Pcs, MapPcs
  <2> QED
    BY <2>1, JumpType, OopsType DEF OpenRead
<1>4. files' \subseteq Files /\ tpr' \in [CPUs -> BOOLEAN]
  BY DEF OpenRead
<1> QED
  BY <1>1, <1>2, <1>3, <1>4

LEMMA OpenTestType ==
  ASSUME TypeOK, CallInv, NEW t \in Threads, OpenTest(t)
  PROVE  TypeOK'
<1> USE DEF TypeOK
<1>1. InfoType'
  BY InfoSame DEF OpenTest
<1>2. MemType'
  BY MemSame DEF OpenTest
<1>3. ThreadType'
  BY ReturnType DEF OpenTest
<1>4. files' \subseteq Files /\ tpr' \in [CPUs -> BOOLEAN]
  BY DEF OpenTest, CallInv, OpenPcs
<1> QED
  BY <1>1, <1>2, <1>3, <1>4

LEMMA DrvReleaseType ==
  ASSUME TypeOK, NEW t \in Threads, DrvRelease(t)
  PROVE  TypeOK'
<1> USE DEF TypeOK
<1>1. InfoType'
  BY InfoSame DEF DrvRelease
<1>2. MemType'
  BY MemSame DEF DrvRelease
<1>3. ThreadType'
  <2>1. "free_map" \in Pcs
    BY DEF Pcs
  <2>2. PICK f \in Files : Set(t, [NoCall EXCEPT !.call = "release", !.file = f])
    BY DEF DrvRelease
  <2>3. /\ [NoCall EXCEPT !.call = "release", !.file = f] \in Locals
        /\ [NoCall EXCEPT !.call = "release", !.file = f].k = 1
    BY NoCallType DEF Locals, NoCall
  <2> QED
    BY <2>1, <2>2, <2>3, MoveType DEF DrvRelease
<1>4. files' \subseteq Files /\ tpr' \in [CPUs -> BOOLEAN]
  BY DEF DrvRelease
<1> QED
  BY <1>1, <1>2, <1>3, <1>4

LEMMA DrvDispatchIoctlType ==
  ASSUME TypeOK, NEW t \in Threads, DrvDispatchIoctl(t)
  PROVE  TypeOK'
<1> USE DEF TypeOK
<1>1. InfoType'
  BY InfoSame DEF DrvDispatchIoctl
<1>2. MemType'
  BY MemSame DEF DrvDispatchIoctl
<1>3. ThreadType'
  <2>1. "args" \in Pcs \ MapPcs
    BY DEF Pcs, MapPcs
  <2>2. PICK f \in Files, in \in Nat, out \in Nat, useMap \in BOOLEAN, root \in BOOLEAN :
          Set(t, [NoCall EXCEPT !.call = "ioctl", !.file = f, !.in = in, !.out = out,
                                !.map = useMap, !.root = root])
    BY SizesAssumption DEF DrvDispatchIoctl
  <2>3. [NoCall EXCEPT !.call = "ioctl", !.file = f, !.in = in, !.out = out,
                       !.map = useMap, !.root = root] \in Locals
    BY NoCallType DEF Locals
  <2> QED
    BY <2>1, <2>2, <2>3, MoveType DEF DrvDispatchIoctl
<1>4. files' \subseteq Files /\ tpr' \in [CPUs -> BOOLEAN]
  BY DEF DrvDispatchIoctl
<1> QED
  BY <1>1, <1>2, <1>3, <1>4

LEMMA DrvBapiCallType ==
  ASSUME TypeOK, NEW t \in Threads, DrvBapiCall(t)
  PROVE  TypeOK'
<1> USE DEF TypeOK
<1>1. InfoType'
  BY InfoSame DEF DrvBapiCall
<1>2. MemType'
  BY MemSame DEF DrvBapiCall
<1>3. ThreadType'
  <2>1. {"sig", "again_map"} \subseteq Pcs \ MapPcs
    BY DEF Pcs, MapPcs
  <2>2. CASE Return(t)
    BY <2>2, ReturnType
  <2>3. ASSUME NEW ctlIn \in CtlSizes, NEW ctlOut \in CtlSizes,
               Set(t, [loc[t] EXCEPT !.ctl = Max2(ctlIn, ctlOut)]),
               Goto(t, IF segBase THEN "sig" ELSE "again_map")
        PROVE  ThreadType'
    <3>1. Max2(ctlIn, ctlOut) \in Nat
      BY SizesAssumption DEF Max2
    <3>2. [loc[t] EXCEPT !.ctl = Max2(ctlIn, ctlOut)] \in Locals
      BY <3>1, LocalsOf DEF Locals
    <3> QED
      BY <2>1, <2>3, <3>2, MoveType
  <2> QED
    BY <2>2, <2>3 DEF DrvBapiCall
<1>4. files' \subseteq Files /\ tpr' \in [CPUs -> BOOLEAN]
  BY DEF DrvBapiCall
<1> QED
  BY <1>1, <1>2, <1>3, <1>4

LEMMA AgainMapType ==
  ASSUME TypeOK, NEW t \in Threads, AgainMap(t)
  PROVE  TypeOK'
<1> USE DEF TypeOK
<1>1. InfoType'
  BY DEF InfoType, AgainMap, info
<1>2. MemType'
  BY MemSame DEF AgainMap
<1>3. ThreadType'
  <2>1. {"again_clear"} \subseteq Pcs \ MapPcs
    BY DEF Pcs, MapPcs
  <2> QED
    BY <2>1, JumpType, ReturnType DEF AgainMap
<1>4. files' \subseteq Files /\ tpr' \in [CPUs -> BOOLEAN]
  BY DEF AgainMap
<1> QED
  BY <1>1, <1>2, <1>3, <1>4

LEMMA AgainClearType ==
  ASSUME TypeOK, NEW t \in Threads, AgainClear(t)
  PROVE  TypeOK'
<1> USE DEF TypeOK
<1>1. InfoType'
  BY ClearInfoType DEF AgainClear
<1>2. MemType'
  BY MemSame DEF AgainClear
<1>3. ThreadType'
  <2>1. {"again_read"} \subseteq Pcs \ MapPcs
    BY DEF Pcs, MapPcs
  <2> QED
    BY <2>1, JumpType DEF AgainClear
<1>4. files' \subseteq Files /\ tpr' \in [CPUs -> BOOLEAN]
  BY DEF AgainClear
<1> QED
  BY <1>1, <1>2, <1>3, <1>4

LEMMA AgainReadType ==
  ASSUME TypeOK, NEW t \in Threads, AgainRead(t)
  PROVE  TypeOK'
<1> USE DEF TypeOK
<1>1. InfoType'
  BY ReadInfoType DEF AgainRead, InfoType
<1>2. MemType'
  BY MemSame DEF AgainRead
<1>3. ThreadType'
  <2>1. {"sig"} \subseteq Pcs \ MapPcs
    BY DEF Pcs, MapPcs
  <2> QED
    BY <2>1, JumpType, OopsType, ReturnType DEF AgainRead
<1>4. files' \subseteq Files /\ tpr' \in [CPUs -> BOOLEAN]
  BY DEF AgainRead
<1> QED
  BY <1>1, <1>2, <1>3, <1>4

LEMMA PutStatusType ==
  ASSUME TypeOK, NEW t \in Threads, PutStatus(t)
  PROVE  TypeOK'
<1> USE DEF TypeOK
<1>1. InfoType'
  BY InfoSame DEF PutStatus
<1>2. MemType'
  BY MemSame DEF PutStatus
<1>3. ThreadType'
  BY ReturnType DEF PutStatus
<1>4. files' \subseteq Files /\ tpr' \in [CPUs -> BOOLEAN]
  BY DEF PutStatus
<1> QED
  BY <1>1, <1>2, <1>3, <1>4

LEMMA ReadSignatureType ==
  ASSUME TypeOK, NEW t \in Threads, ReadSignature(t)
  PROVE  TypeOK'
<1> USE DEF TypeOK
<1>1. InfoType'
  <2>1. Max2(loc[t].in, loc[t].out) \in Nat
    BY LocalsOf DEF Locals, Max2
  <2> QED
    BY <2>1 DEF InfoType, ReadSignature
<1>2. MemType'
  BY MemSame DEF ReadSignature
<1>3. ThreadType'
  <2>1. {"block", "ctl"} \subseteq Pcs \ MapPcs
    BY DEF Pcs, MapPcs
  <2>2. "ERROR" \in Status
    BY DEF Status
  <2> QED
    BY <2>1, <2>2, JumpType, LeaveType DEF ReadSignature
<1>4. files' \subseteq Files /\ tpr' \in [CPUs -> BOOLEAN]
  BY DEF ReadSignature
<1> QED
  BY <1>1, <1>2, <1>3, <1>4

LEMMA SetMaxBlockSizeType ==
  ASSUME TypeOK, NEW t \in Threads, SetMaxBlockSize(t)
  PROVE  TypeOK'
<1> USE DEF TypeOK
<1>1. InfoType'
  <2>1. Min2(required, MaxBlock) \in Nat
    BY SizesAssumption DEF InfoType, Min2
  <2> QED
    BY <2>1 DEF InfoType, SetMaxBlockSize
<1>2. MemType'
  BY MemSame DEF SetMaxBlockSize
<1>3. ThreadType'
  <2>1. {"ctl"} \subseteq Pcs \ MapPcs
    BY DEF Pcs, MapPcs
  <2> QED
    BY <2>1, JumpType DEF SetMaxBlockSize
<1>4. files' \subseteq Files /\ tpr' \in [CPUs -> BOOLEAN]
  BY DEF SetMaxBlockSize
<1> QED
  BY <1>1, <1>2, <1>3, <1>4

LEMMA BiosApiCtrlBufferAllocType ==
  ASSUME TypeOK, NEW t \in Threads, BiosApiCtrlBufferAlloc(t)
  PROVE  TypeOK'
<1> USE DEF TypeOK
<1>1. InfoType'
  <2>1. BufOrder[loc[t].k] \in Bufs
    BY BufOfType
  <2>2. UNCHANGED buf \/ buf' = [buf EXCEPT ![BufOrder[loc[t].k]] = Cleared(@)]
    BY DEF BiosApiCtrlBufferAlloc
  <2>3. buf' \in [Bufs -> AddressInfo]
    BY <2>1, <2>2, ClearedType DEF InfoType
  <2> QED
    BY <2>3 DEF InfoType, BiosApiCtrlBufferAlloc, info
<1>2. MemType'
  BY MemSame, FreeAllType DEF BiosApiCtrlBufferAlloc
<1>3. ThreadType'
  <2>1. {"ctl_get"} \subseteq Pcs \ MapPcs
    BY DEF Pcs, MapPcs
  <2> QED
    BY <2>1, JumpType, NextBufferType DEF BiosApiCtrlBufferAlloc
<1>4. files' \subseteq Files /\ tpr' \in [CPUs -> BOOLEAN]
  BY DEF BiosApiCtrlBufferAlloc
<1> QED
  BY <1>1, <1>2, <1>3, <1>4

LEMMA CtrlBufferGetType ==
  ASSUME TypeOK, NEW t \in Threads, CtrlBufferGet(t)
  PROVE  TypeOK'
<1> USE DEF TypeOK
<1>1. InfoType'
  <2> DEFINE b == BufOrder[loc[t].k]
  <2>1. b \in Bufs /\ buf[b] \in AddressInfo
    BY BufOfType DEF InfoType
  <2>2. \A new \in Blocks :
          [virt |-> new, phys |-> new, span |-> Need(t, b)] \in AddressInfo
    BY NeedType DEF AddressInfo, Pointer
  <2>3. [buf[b] EXCEPT !.virt = NoBlock] \in AddressInfo
    BY <2>1 DEF AddressInfo, Pointer
  <2>4. \/ buf' = [buf EXCEPT ![b] = [buf[b] EXCEPT !.virt = NoBlock]]
        \/ \E new \in Blocks :
             buf' = [buf EXCEPT ![b] = [virt |-> new, phys |-> new, span |-> Need(t, b)]]
    BY DEF CtrlBufferGet, Allocatable
  <2>5. buf' \in [Bufs -> AddressInfo]
    BY <2>1, <2>2, <2>3, <2>4 DEF InfoType
  <2> QED
    BY <2>5 DEF InfoType, CtrlBufferGet, info
<1>2. MemType'
  <2>1. Need(t, BufOrder[loc[t].k]) \in Nat
    BY NeedType
  <2>2. \/ UNCHANGED mem
        \/ \E new \in Allocatable(Need(t, BufOrder[loc[t].k])) :
             Allocate(new, Need(t, BufOrder[loc[t].k])) /\ UNCHANGED fault
    BY DEF CtrlBufferGet, mem
  <2> QED
    BY <2>1, <2>2, MemSame, AllocateType
<1>3. ThreadType'
  <2>1. "INSUFFICIENT_RESOURCES" \in Status
    BY DEF Status
  <2> QED
    BY <2>1, NextBufferType, LeaveType DEF CtrlBufferGet
<1>4. files' \subseteq Files /\ tpr' \in [CPUs -> BOOLEAN]
  BY DEF CtrlBufferGet
<1> QED
  BY <1>1, <1>2, <1>3, <1>4

LEMMA CopyCtrlFromUserType ==
  ASSUME TypeOK, NEW t \in Threads, CopyCtrlFromUser(t)
  PROVE  TypeOK'
<1> USE DEF TypeOK
<1>1. InfoType'
  BY InfoSame DEF CopyCtrlFromUser
<1>2. MemType'
  BY TouchType DEF CopyCtrlFromUser
<1>3. ThreadType'
  <2>1. "copy_in" \in Pcs \ MapPcs /\ "map" \in Pcs /\ "ERROR" \in Status
    BY DEF Pcs, MapPcs, Status
  <2>2. [loc[t] EXCEPT !.k = 1] \in Locals /\ [loc[t] EXCEPT !.k = 1].k = 1
    BY LocalsOf DEF Locals
  <2> QED
    BY <2>1, <2>2, MoveType, JumpType, LeaveType DEF CopyCtrlFromUser
<1>4. files' \subseteq Files /\ tpr' \in [CPUs -> BOOLEAN]
  BY DEF CopyCtrlFromUser
<1> QED
  BY <1>1, <1>2, <1>3, <1>4

LEMMA CopyDataFromUserType ==
  ASSUME TypeOK, NEW t \in Threads, CopyDataFromUser(t)
  PROVE  TypeOK'
<1> USE DEF TypeOK
<1>1. InfoType'
  BY InfoSame DEF CopyDataFromUser
<1>2. MemType'
  BY TouchType DEF CopyDataFromUser
<1>3. ThreadType'
  <2>1. "access" \in Pcs \ MapPcs /\ "ERROR" \in Status
    BY DEF Pcs, MapPcs, Status
  <2>2. [loc[t] EXCEPT !.inOk = TRUE] \in Locals
    <3>1. loc[t] \in Locals
      BY LocalsOf
    <3> QED
      BY <3>1, Zenon DEF Locals
  <2> QED
    BY <2>1, <2>2, MoveType, LeaveType DEF CopyDataFromUser
<1>4. files' \subseteq Files /\ tpr' \in [CPUs -> BOOLEAN]
  BY DEF CopyDataFromUser
<1> QED
  BY <1>1, <1>2, <1>3, <1>4

LEMMA BiosApiAllocBlocksType ==
  ASSUME TypeOK, NEW t \in Threads, BiosApiAllocBlocks(t)
  PROVE  TypeOK'
<1> USE DEF TypeOK
<1>a. MapOf(t) \in Maps /\ loc[t].k \in {1, 2}
  BY MapOfType DEF BiosApiAllocBlocks, MapPcs
<1>1. InfoType' /\ MemType'
  <2>1. CASE PhysBlkReleaseAllBlocks(MapOf(t))
    BY <1>a, <2>1, ReleaseType DEF BiosApiAllocBlocks
  <2>2. CASE UNCHANGED <<map, mem>>
    BY <2>2, InfoSame, MemSame DEF BiosApiAllocBlocks
  <2>3. CASE UNCHANGED <<map, heap, list>> /\ Touch(buf[MapOf(t)].virt, ListSize)
    BY <2>3, InfoSame, TouchType DEF BiosApiAllocBlocks
  <2> QED
    BY <2>1, <2>2, <2>3 DEF BiosApiAllocBlocks
<1>3. ThreadType'
  <2> DEFINE p == buf[MapOf(t)].virt
  <2>1. {"map_init", "map_fill"} \subseteq Pcs
    BY DEF Pcs
  <2>2. p \in Pointer
    BY <1>a DEF InfoType, AddressInfo, Bufs, Maps
  <2>3. /\ [loc[t] EXCEPT !.ptr = p] \in Locals
        /\ [loc[t] EXCEPT !.ptr = p].k = loc[t].k
    BY <2>2, LocalsOf DEF Locals
  <2> QED
    BY <1>a, <2>1, <2>3, OopsType, MoveType DEF BiosApiAllocBlocks
<1>4. files' \subseteq Files /\ tpr' \in [CPUs -> BOOLEAN]
  BY DEF BiosApiAllocBlocks
<1> QED
  BY <1>1, <1>3, <1>4

LEMMA PhysBlkInitType ==
  ASSUME TypeOK, NEW t \in Threads, PhysBlkInit(t)
  PROVE  TypeOK'
<1> USE DEF TypeOK
<1>1. InfoType'
  BY NoItemsType DEF InfoType, PhysBlkInit, info
<1>2. MemType'
  BY MemSame DEF PhysBlkInit
<1>3. ThreadType'
  <2>1. "map_loop" \in Pcs /\ loc[t].k \in {1, 2}
    BY MapOfType DEF PhysBlkInit, Pcs, MapPcs
  <2>2. DataSize(t) \in Nat /\ maxBlock \in Nat
    BY DataSizeType DEF InfoType
  <2>3. /\ [loc[t] EXCEPT !.left = DataSize(t), !.std = maxBlock] \in Locals
        /\ [loc[t] EXCEPT !.left = DataSize(t), !.std = maxBlock].k = loc[t].k
    <3>1. loc[t] \in Locals
      BY LocalsOf
    <3> QED
      BY <2>2, <3>1, Zenon DEF Locals
  <2> QED
    BY <2>1, <2>3, MoveType DEF PhysBlkInit
<1>4. files' \subseteq Files /\ tpr' \in [CPUs -> BOOLEAN]
  BY DEF PhysBlkInit
<1> QED
  BY <1>1, <1>2, <1>3, <1>4

LEMMA PhysBlkAllocBlocksType ==
  ASSUME TypeOK, NEW t \in Threads, PhysBlkAllocBlocks(t)
  PROVE  TypeOK'
<1> USE DEF TypeOK
<1> DEFINE m == MapOf(t)
<1> DEFINE n == BlockSize(map[m].items, loc[t].left, loc[t].std)
<1>a. m \in Maps /\ loc[t].k \in {1, 2} /\ pc[t] \in MapPcs
  BY MapOfType DEF PhysBlkAllocBlocks, MapPcs
<1>b. loc[t].left \in Nat /\ loc[t].std \in Nat
  BY LocalsOf DEF Locals
<1>c. n \in Nat /\ n <= loc[t].left
  BY <1>b, BlockSizeType
<1>1. InfoType' /\ MemType'
  <2>1. CASE UNCHANGED <<map, mem>>
    BY <2>1, InfoSame, MemSame DEF PhysBlkAllocBlocks
  <2>2. CASE PhysBlkReleaseAllBlocks(m)
    BY <1>a, <2>2, ReleaseType DEF PhysBlkAllocBlocks
  <2>3. ASSUME NEW new \in Allocatable(n),
               Allocate(new, n), UNCHANGED fault,
               map' = [map EXCEPT ![m] =
                 [items |-> Append(@.items, [virt |-> new, phys |-> new, span |-> n]),
                  total |-> @.total + n]]
        PROVE  InfoType' /\ MemType'
    <3>1. MemType' /\ new \in Blocks
      BY <1>c, <2>3, AllocateType
    <3>2. [virt |-> new, phys |-> new, span |-> n] \in AddressInfo
      BY <1>c, <3>1 DEF AddressInfo, Pointer
    <3>3. map[m].items \in ItemList /\ map[m].total \in Nat
      BY <1>a DEF InfoType, PhysMapList
    <3>4. Append(map[m].items, [virt |-> new, phys |-> new, span |-> n]) \in ItemList
      BY <3>2, <3>3 DEF ItemList
    <3>5. map' \in [Maps -> PhysMapList]
      BY <1>a, <1>c, <2>3, <3>3, <3>4 DEF InfoType, PhysMapList
    <3> QED
      BY <3>1, <3>5 DEF InfoType, PhysBlkAllocBlocks, info
  <2> QED
    BY <2>1, <2>2, <2>3 DEF PhysBlkAllocBlocks
<1>3. ThreadType'
  <2>1. "map_fill" \in Pcs /\ "map_fail" \in Pcs
    BY DEF Pcs
  <2>2. /\ [loc[t] EXCEPT !.left = @ - n] \in Locals
        /\ [loc[t] EXCEPT !.left = @ - n].k = loc[t].k
    <3>1. loc[t].left - n \in Nat
      BY <1>b, <1>c
    <3> QED
      BY <3>1, LocalsOf DEF Locals
  <2>3. /\ [loc[t] EXCEPT !.std = Smaller(@)] \in Locals
        /\ [loc[t] EXCEPT !.std = Smaller(@)].k = loc[t].k
    <3>1. Smaller(loc[t].std) \in Nat
      BY <1>b DEF Smaller
    <3> QED
      BY <3>1, LocalsOf DEF Locals
  <2>4. CASE Goto(t, "map_fill") /\ UNCHANGED loc
    BY <1>a, <2>1, <2>4, JumpType
  <2>5. CASE Set(t, [loc[t] EXCEPT !.left = @ - n]) /\ UNCHANGED pc
    BY <1>a, <2>2, <2>5, StayType
  <2>6. CASE Set(t, [loc[t] EXCEPT !.std = Smaller(@)]) /\ UNCHANGED pc
    BY <1>a, <2>3, <2>6, StayType
  <2>7. CASE Goto(t, "map_fail") /\ UNCHANGED loc
    BY <1>a, <2>1, <2>7, JumpType
  <2> QED
    BY <2>4, <2>5, <2>6, <2>7 DEF PhysBlkAllocBlocks
<1>4. files' \subseteq Files /\ tpr' \in [CPUs -> BOOLEAN]
  BY DEF PhysBlkAllocBlocks
<1> QED
  BY <1>1, <1>3, <1>4

LEMMA AllocBlocksFailedType ==
  ASSUME TypeOK, NEW t \in Threads, AllocBlocksFailed(t)
  PROVE  TypeOK'
<1> USE DEF TypeOK
<1>1. InfoType'
  BY InfoSame DEF AllocBlocksFailed
<1>2. MemType'
  BY TouchType DEF AllocBlocksFailed
<1>3. ThreadType'
  <2>1. "INSUFFICIENT_RESOURCES" \in Status
    BY DEF Status
  <2> QED
    BY <2>1, LeaveType DEF AllocBlocksFailed
<1>4. files' \subseteq Files /\ tpr' \in [CPUs -> BOOLEAN]
  BY DEF AllocBlocksFailed
<1> QED
  BY <1>1, <1>2, <1>3, <1>4

LEMMA FillFlashMapType ==
  ASSUME TypeOK, NEW t \in Threads, FillFlashMap(t)
  PROVE  TypeOK'
<1> USE DEF TypeOK
<1>1. InfoType'
  BY InfoSame DEF FillFlashMap
<1>2. MemType'
  <2> DEFINE items == map[MapOf(t)].items
  <2> DEFINE clusters == [i \in DOMAIN items |-> Cluster(items[i])]
  <2>1. items \in ItemList
    BY MapOfType DEF FillFlashMap, MapPcs, InfoType, PhysMapList
  <2>2. clusters \in FlashMap
    <3> HIDE DEF items
    <3>1. items \in Seq(AddressInfo)
      BY <2>1 DEF ItemList
    <3>2. \A i \in 1..Len(items) : Cluster(items[i]) \in [addr : Pointer, len : Nat]
      <4>1. \A i \in 1..Len(items) : items[i] \in AddressInfo
        BY <3>1
      <4> QED
        BY <4>1 DEF Cluster, AddressInfo
    <3>3. Len(items) \in Nat /\ DOMAIN items = 1..Len(items)
      BY <3>1
    <3>4. clusters \in [1..Len(items) -> [addr : Pointer, len : Nat]]
      BY <3>2, <3>3
    <3> HIDE DEF clusters
    <3> QED
      BY <3>3, <3>4, SeqDef, ZenonT(30) DEF FlashMap
  <2>3. list' = [list EXCEPT ![loc[t].ptr] = clusters] /\ Touch(loc[t].ptr, ListSize) /\ UNCHANGED heap
    BY DEF FillFlashMap
  <2>4. list' \in [Blocks -> FlashMap]
    BY <2>2, <2>3 DEF MemType
  <2> QED
    BY <2>3, <2>4 DEF MemType, Touch, Blame
<1>3. ThreadType'
  <2>1. "map_copy" \in Pcs /\ "access" \in Pcs /\ loc[t].k \in {1, 2}
    BY MapOfType DEF FillFlashMap, Pcs, MapPcs
  <2> QED
    BY <2>1, JumpType DEF FillFlashMap
<1>4. files' \subseteq Files /\ tpr' \in [CPUs -> BOOLEAN]
  BY DEF FillFlashMap
<1> QED
  BY <1>1, <1>2, <1>3, <1>4

LEMMA BiosApiCopyDataToMapType ==
  ASSUME TypeOK, NEW t \in Threads, BiosApiCopyDataToMap(t)
  PROVE  TypeOK'
<1> USE DEF TypeOK
<1>1. InfoType'
  BY InfoSame DEF BiosApiCopyDataToMap
<1>2. MemType'
  BY BlameType DEF BiosApiCopyDataToMap
<1>3. ThreadType'
  <2>1. "map" \in Pcs
    BY DEF Pcs
  <2>2. PICK ok \in BOOLEAN : Set(t, [loc[t] EXCEPT !.inOk = ok, !.k = 2])
    BY DEF BiosApiCopyDataToMap
  <2>3. /\ [loc[t] EXCEPT !.inOk = ok, !.k = 2] \in Locals
        /\ [loc[t] EXCEPT !.inOk = ok, !.k = 2].k = 2
    <3>1. loc[t] \in Locals
      BY LocalsOf
    <3> QED
      BY <3>1, Zenon DEF Locals
  <2> QED
    BY <2>1, <2>2, <2>3, MoveType DEF BiosApiCopyDataToMap
<1>4. files' \subseteq Files /\ tpr' \in [CPUs -> BOOLEAN]
  BY DEF BiosApiCopyDataToMap
<1> QED
  BY <1>1, <1>2, <1>3, <1>4

LEMMA BiosApiCheckAccessType ==
  ASSUME TypeOK, NEW t \in Threads, BiosApiCheckAccess(t)
  PROVE  TypeOK'
<1> USE DEF TypeOK
<1>1. InfoType'
  BY InfoSame DEF BiosApiCheckAccess
<1>2. MemType'
  BY MemSame DEF BiosApiCheckAccess
<1>3. ThreadType'
  <2> DEFINE regs == [b \in Bufs |-> buf[b].phys]
  <2>1. "bios_map" \in Pcs \ MapPcs /\ "ACCESS_DENIED" \in Status
    BY DEF Pcs, MapPcs, Status
  <2>2. regs \in [Bufs -> Pointer]
    BY DEF InfoType, AddressInfo
  <2>3. [loc[t] EXCEPT !.reg = regs] \in Locals
    <3> HIDE DEF regs
    <3> QED
      BY <2>2, LocalsOf DEF Locals
  <2> QED
    BY <2>1, <2>3, MoveType, LeaveType DEF BiosApiCheckAccess
<1>4. files' \subseteq Files /\ tpr' \in [CPUs -> BOOLEAN]
  BY DEF BiosApiCheckAccess
<1> QED
  BY <1>1, <1>2, <1>3, <1>4

LEMMA BiosApiCallType ==
  ASSUME TypeOK, NEW t \in Threads, BiosApiCall(t)
  PROVE  TypeOK'
<1> USE DEF TypeOK
<1>1. InfoType'
  BY InfoSame DEF BiosApiCall
<1>2. MemType'
  BY MemSame DEF BiosApiCall
<1>3. ThreadType'
  <2>1. {"tpr", "exec"} \subseteq Pcs \ MapPcs /\ "ERROR" \in Status
    BY DEF Pcs, MapPcs, Status
  <2> QED
    BY <2>1, JumpType, LeaveType DEF BiosApiCall
<1>4. files' \subseteq Files /\ tpr' \in [CPUs -> BOOLEAN]
  BY DEF BiosApiCall
<1> QED
  BY <1>1, <1>2, <1>3, <1>4

LEMMA RaiseTaskPriorityType ==
  ASSUME TypeOK, NEW t \in Threads, RaiseTaskPriority(t)
  PROVE  TypeOK'
<1> USE DEF TypeOK
<1>1. InfoType'
  BY InfoSame DEF RaiseTaskPriority
<1>2. MemType'
  BY MemSame DEF RaiseTaskPriority
<1>3. ThreadType'
  <2>1. "exec" \in Pcs \ MapPcs /\ "ERROR" \in Status
    BY DEF Pcs, MapPcs, Status
  <2>2. ASSUME NEW c \in CPUs,
               Set(t, [loc[t] EXCEPT !.apic = TRUE, !.save = tpr[c]]), Goto(t, "exec")
        PROVE  ThreadType'
    <3>1. [loc[t] EXCEPT !.apic = TRUE, !.save = tpr[c]] \in Locals
      <4>1. loc[t] \in Locals /\ tpr[c] \in BOOLEAN
        BY LocalsOf
      <4> QED
        BY <4>1, Zenon DEF Locals
    <3> QED
      BY <2>1, <2>2, <3>1, MoveType
  <2> QED
    BY <2>1, <2>2, JumpType, LeaveType DEF RaiseTaskPriority
<1>4. files' \subseteq Files /\ tpr' \in [CPUs -> BOOLEAN]
  BY DEF RaiseTaskPriority
<1> QED
  BY <1>1, <1>2, <1>3, <1>4

LEMMA CallBiosType ==
  ASSUME TypeOK, NEW t \in Threads, CallBios(t)
  PROVE  TypeOK'
<1> USE DEF TypeOK
<1>1. InfoType'
  BY InfoSame DEF CallBios
<1>2. MemType'
  BY BlameType DEF CallBios
<1>3. ThreadType'
  <2>1. {"bios"} \subseteq Pcs \ MapPcs
    BY DEF Pcs, MapPcs
  <2> QED
    BY <2>1, JumpType DEF CallBios
<1>4. files' \subseteq Files /\ tpr' \in [CPUs -> BOOLEAN]
  BY DEF CallBios
<1> QED
  BY <1>1, <1>2, <1>3, <1>4

LEMMA BiosReturnsType ==
  ASSUME TypeOK, NEW t \in Threads, BiosReturns(t)
  PROVE  TypeOK'
<1> USE DEF TypeOK
<1>1. InfoType'
  BY InfoSame DEF BiosReturns
<1>2. MemType'
  BY MemSame DEF BiosReturns
<1>3. ThreadType'
  <2>1. "copy_out" \in Pcs \ MapPcs
    BY DEF Pcs, MapPcs
  <2>2. [loc[t] EXCEPT !.ran = TRUE] \in Locals
    <3>1. loc[t] \in Locals
      BY LocalsOf
    <3> QED
      BY <3>1, Zenon DEF Locals
  <2> QED
    BY <2>1, <2>2, MoveType DEF BiosReturns
<1>4. files' \subseteq Files /\ tpr' \in [CPUs -> BOOLEAN]
  <2>1. loc[t].save \in BOOLEAN
    BY LocalsOf DEF Locals
  <2> QED
    BY <2>1 DEF BiosReturns, RestorePriority
<1> QED
  BY <1>1, <1>2, <1>3, <1>4

LEMMA CopyToUserType ==
  ASSUME TypeOK, NEW t \in Threads, CopyToUser(t)
  PROVE  TypeOK'
<1> USE DEF TypeOK
<1>1. InfoType'
  BY InfoSame DEF CopyToUser
<1>2. MemType'
  BY BlameType, TouchType DEF CopyToUser
<1>3. ThreadType'
  <2>1. {"ERROR", "READY"} \subseteq Status
    BY DEF Status
  <2> QED
    BY <2>1, LeaveType DEF CopyToUser
<1>4. files' \subseteq Files /\ tpr' \in [CPUs -> BOOLEAN]
  BY DEF CopyToUser
<1> QED
  BY <1>1, <1>2, <1>3, <1>4

LEMMA FreeMapType ==
  ASSUME TypeOK, NEW t \in Threads, FreeMap(t)
  PROVE  TypeOK'
<1> USE DEF TypeOK
<1>a. MapOf(t) \in Maps /\ loc[t].k \in {1, 2} /\ pc[t] \in MapPcs
  BY MapOfType DEF FreeMap, MapPcs
<1>1. InfoType' /\ MemType'
  BY <1>a, ReleaseType DEF FreeMap
<1>3. ThreadType'
  <2>1. "free_buf" \in Pcs \ MapPcs
    BY DEF Pcs, MapPcs
  <2>2. \A k \in {1, 2} : /\ [loc[t] EXCEPT !.k = k] \in Locals
                          /\ [loc[t] EXCEPT !.k = k].k = k
    BY LocalsOf DEF Locals
  <2> QED
    BY <1>a, <2>1, <2>2, MoveType, StayType DEF FreeMap
<1>4. files' \subseteq Files /\ tpr' \in [CPUs -> BOOLEAN]
  BY DEF FreeMap
<1> QED
  BY <1>1, <1>3, <1>4

LEMMA FreeBufferType ==
  ASSUME TypeOK, NEW t \in Threads, FreeBuffer(t)
  PROVE  TypeOK'
<1> USE DEF TypeOK
<1>1. InfoType'
  BY InfoSame DEF FreeBuffer
<1>2. MemType'
  BY FreeAllType DEF FreeBuffer
<1>3. ThreadType'
  <2>1. {"null_buf"} \subseteq Pcs \ MapPcs
    BY DEF Pcs, MapPcs
  <2> QED
    BY <2>1, JumpType DEF FreeBuffer
<1>4. files' \subseteq Files /\ tpr' \in [CPUs -> BOOLEAN]
  BY DEF FreeBuffer
<1> QED
  BY <1>1, <1>2, <1>3, <1>4

LEMMA ClearBufferType ==
  ASSUME TypeOK, NEW t \in Threads, ClearBuffer(t)
  PROVE  TypeOK'
<1> USE DEF TypeOK
<1>1. InfoType'
  <2>1. BufOrder[loc[t].k] \in Bufs
    BY BufOfType
  <2>2. buf' \in [Bufs -> AddressInfo]
    BY <2>1, ClearedType DEF InfoType, ClearBuffer
  <2> QED
    BY <2>2 DEF InfoType, ClearBuffer, info
<1>2. MemType'
  BY MemSame DEF ClearBuffer
<1>3. ThreadType'
  <2>1. {"free_buf", "put"} \subseteq Pcs \ MapPcs
    BY DEF Pcs, MapPcs
  <2>2. CASE loc[t].k < 3 /\ Set(t, [loc[t] EXCEPT !.k = @ + 1]) /\ Goto(t, "free_buf")
    <3>1. loc[t].k + 1 \in {1, 2, 3}
      BY <2>2, LocalsOf DEF Locals
    <3>2. [loc[t] EXCEPT !.k = @ + 1] \in Locals
      BY <3>1, LocalsOf DEF Locals
    <3> QED
      BY <2>1, <2>2, <3>2, MoveType
  <2>3. CASE Goto(t, "put") /\ UNCHANGED loc
    BY <2>1, <2>3, JumpType
  <2>4. CASE Return(t)
    BY <2>4, ReturnType
  <2> QED
    BY <2>2, <2>3, <2>4 DEF ClearBuffer
<1>4. files' \subseteq Files /\ tpr' \in [CPUs -> BOOLEAN]
  BY DEF ClearBuffer
<1> QED
  BY <1>1, <1>2, <1>3, <1>4

-----------------------------------------------------------------------------
(* What a step does to the call its thread is in *)

(* The part of the locals that tells one call from another, and its answer.   *)
Identity(l) == [call |-> l.call, file |-> l.file, root |-> l.root, ran |-> l.ran]

(* The other threads stay where they are.                                     *)
Frame(t) == \A u \in Threads \ {t} : pc'[u] = pc[u] /\ loc'[u] = loc[u]

Begin(t) ==
  /\ pc[t] = "idle"
  /\ loc'[t].st = "ERROR" /\ ~loc'[t].ran
  /\ \/ pc'[t] \in OpenPcs /\ loc'[t].call = "open" /\ loc'[t].file \in Files /\ loc'[t].root = FALSE
     \/ pc'[t] = "free_map" /\ loc'[t].call = "release" /\ loc'[t].root = FALSE
     \/ pc'[t] = "args" /\ loc'[t].call = "ioctl" /\ loc'[t].root \in BOOLEAN

(* On to another place of the same part of the call, or to its next part.     *)
Advance(t) ==
  /\ Identity(loc'[t]) = Identity(loc[t])
  /\ loc'[t].st = loc[t].st
  /\ \/ \E part \in {OpenPcs, AskedPcs, CallPcs, CleanPcs} : pc[t] \in part /\ pc'[t] \in part
     \/ pc[t] \in AskedPcs /\ pc'[t] = "bios_map" /\ loc[t].root
     \/ pc[t] \in CleanPcs /\ pc'[t] = "put" /\ loc[t].call = "ioctl"
     \/ pc[t] \in AskedPcs \union OpenPcs /\ pc'[t] = "oops"

Run(t) ==
  /\ pc[t] = "bios" /\ pc'[t] = "copy_out"
  /\ loc'[t].call = loc[t].call /\ loc'[t].file = loc[t].file /\ loc'[t].root = loc[t].root
  /\ loc'[t].ran
  /\ loc'[t].st = loc[t].st

Reply(t) ==
  /\ pc'[t] = "free_map"
  /\ Identity(loc'[t]) = Identity(loc[t])
  /\ \/ /\ pc[t] \in AskedPcs \union CallPcs
        /\ loc'[t].st \in {"ERROR", "INSUFFICIENT_RESOURCES", "ACCESS_DENIED"}
     \/ pc[t] = "copy_out" /\ loc'[t].st \in {"READY", "ERROR"}

End(t) ==
  /\ pc'[t] = "idle" /\ loc'[t] = NoCall
  /\ \/ pc[t] \in OpenPcs \union AskedPcs \union {"put"}
     \/ pc[t] \in CleanPcs /\ loc[t].call = "release"

ThreadStep(t) == Frame(t) /\ (Begin(t) \/ Advance(t) \/ Run(t) \/ Reply(t) \/ End(t))

LEMMA GotoAt ==
  ASSUME TypeOK, NEW t \in Threads, NEW label, Goto(t, label)
  PROVE  pc'[t] = label /\ \A u \in Threads \ {t} : pc'[u] = pc[u]
BY DEF TypeOK, ThreadType, Goto

LEMMA SetAt ==
  ASSUME TypeOK, NEW t \in Threads, NEW locals, Set(t, locals)
  PROVE  loc'[t] = locals /\ \A u \in Threads \ {t} : loc'[u] = loc[u]
BY DEF TypeOK, ThreadType, Set

(* Updates that leave the identity of a call and its answer alone.            *)
LEMMA IdentityKept ==
  ASSUME NEW l \in Locals
  PROVE  /\ \A v : Identity([l EXCEPT !.k = v]) = Identity(l) /\ [l EXCEPT !.k = v].st = l.st
         /\ \A v : Identity([l EXCEPT !.ctl = v]) = Identity(l) /\ [l EXCEPT !.ctl = v].st = l.st
         /\ \A v : Identity([l EXCEPT !.ptr = v]) = Identity(l) /\ [l EXCEPT !.ptr = v].st = l.st
         /\ \A v : Identity([l EXCEPT !.left = v]) = Identity(l) /\ [l EXCEPT !.left = v].st = l.st
         /\ \A v : Identity([l EXCEPT !.std = v]) = Identity(l) /\ [l EXCEPT !.std = v].st = l.st
         /\ \A v : Identity([l EXCEPT !.inOk = v]) = Identity(l) /\ [l EXCEPT !.inOk = v].st = l.st
         /\ \A v : Identity([l EXCEPT !.reg = v]) = Identity(l) /\ [l EXCEPT !.reg = v].st = l.st
BY DEF Locals, Identity

LEMMA ReturnEnds ==
  ASSUME TypeOK, NEW t \in Threads, Return(t),
         \/ pc[t] \in OpenPcs \union AskedPcs \union {"put"}
         \/ pc[t] \in CleanPcs /\ loc[t].call = "release"
  PROVE  ThreadStep(t)
BY GotoAt, SetAt DEF Return, ThreadStep, Frame, End

LEMMA LeaveReplies ==
  ASSUME TypeOK, NEW t \in Threads, NEW status, Leave(t, status),
         \/ /\ pc[t] \in AskedPcs \union CallPcs
            /\ status \in {"ERROR", "INSUFFICIENT_RESOURCES", "ACCESS_DENIED"}
         \/ pc[t] = "copy_out" /\ status \in {"READY", "ERROR"}
  PROVE  ThreadStep(t)
<1>1. loc[t] \in Locals
  BY LocalsOf DEF TypeOK
<1>2. /\ Identity([loc[t] EXCEPT !.st = status, !.k = 1]) = Identity(loc[t])
      /\ [loc[t] EXCEPT !.st = status, !.k = 1].st = status
  BY <1>1 DEF Locals, Identity
<1>3. Goto(t, "free_map") /\ Set(t, [loc[t] EXCEPT !.st = status, !.k = 1])
  BY DEF Leave
<1>4. pc'[t] = "free_map" /\ loc'[t] = [loc[t] EXCEPT !.st = status, !.k = 1] /\ Frame(t)
  BY <1>3, GotoAt, SetAt DEF Frame
<1> QED
  BY <1>2, <1>4 DEF ThreadStep, Reply

LEMMA OopsAdvances ==
  ASSUME TypeOK, NEW t \in Threads, Oops(t), pc[t] \in AskedPcs \union OpenPcs
  PROVE  ThreadStep(t)
BY GotoAt DEF Oops, ThreadStep, Frame, Advance

(* A jump, with or without an update of the locals, within a part of the call *)
(* or to its next part.                                                       *)
LEMMA JumpAdvances ==
  ASSUME TypeOK, NEW t \in Threads, NEW label, NEW locals,
         Goto(t, label) \/ (UNCHANGED pc /\ label = pc[t]),
         Set(t, locals) \/ (UNCHANGED loc /\ locals = loc[t]),
         Identity(locals) = Identity(loc[t]), locals.st = loc[t].st,
         \/ \E part \in {OpenPcs, AskedPcs, CallPcs, CleanPcs} : pc[t] \in part /\ label \in part
         \/ pc[t] \in AskedPcs /\ label = "bios_map" /\ loc[t].root
         \/ pc[t] \in CleanPcs /\ label = "put" /\ loc[t].call = "ioctl"
  PROVE  ThreadStep(t)
<1>1. pc'[t] = label /\ loc'[t] = locals /\ Frame(t)
  BY GotoAt, SetAt DEF Frame
<1> QED
  BY <1>1 DEF ThreadStep, Advance

LEMMA OpenMapStep == ASSUME TypeOK, NEW t \in Threads, OpenMap(t) PROVE ThreadStep(t)
BY JumpAdvances DEF OpenMap, OpenPcs, AskedPcs, CallPcs, CleanPcs

LEMMA OpenClearStep == ASSUME TypeOK, NEW t \in Threads, OpenClear(t) PROVE ThreadStep(t)
BY JumpAdvances DEF OpenClear, OpenPcs, AskedPcs, CallPcs, CleanPcs

LEMMA AgainClearStep == ASSUME TypeOK, NEW t \in Threads, AgainClear(t) PROVE ThreadStep(t)
BY JumpAdvances DEF AgainClear, OpenPcs, AskedPcs, CallPcs, CleanPcs

LEMMA SetMaxBlockSizeStep == ASSUME TypeOK, NEW t \in Threads, SetMaxBlockSize(t) PROVE ThreadStep(t)
BY JumpAdvances DEF SetMaxBlockSize, OpenPcs, AskedPcs, CallPcs, CleanPcs

LEMMA FillFlashMapStep == ASSUME TypeOK, NEW t \in Threads, FillFlashMap(t) PROVE ThreadStep(t)
BY JumpAdvances DEF FillFlashMap, OpenPcs, AskedPcs, CallPcs, CleanPcs

LEMMA CallBiosStep == ASSUME TypeOK, NEW t \in Threads, CallBios(t) PROVE ThreadStep(t)
BY JumpAdvances DEF CallBios, OpenPcs, AskedPcs, CallPcs, CleanPcs

LEMMA FreeBufferStep == ASSUME TypeOK, NEW t \in Threads, FreeBuffer(t) PROVE ThreadStep(t)
BY JumpAdvances DEF FreeBuffer, OpenPcs, AskedPcs, CallPcs, CleanPcs

LEMMA OpenReadStep == ASSUME TypeOK, NEW t \in Threads, OpenRead(t) PROVE ThreadStep(t)
BY JumpAdvances, OopsAdvances DEF OpenRead, OpenPcs, AskedPcs, CallPcs, CleanPcs

LEMMA OpenTestStep == ASSUME TypeOK, NEW t \in Threads, OpenTest(t) PROVE ThreadStep(t)
BY ReturnEnds DEF OpenTest, OpenPcs, AskedPcs, CallPcs, CleanPcs

LEMMA PutStatusStep == ASSUME TypeOK, NEW t \in Threads, PutStatus(t) PROVE ThreadStep(t)
BY ReturnEnds DEF PutStatus, OpenPcs, AskedPcs, CallPcs, CleanPcs

LEMMA AgainMapStep == ASSUME TypeOK, NEW t \in Threads, AgainMap(t) PROVE ThreadStep(t)
BY JumpAdvances, ReturnEnds DEF AgainMap, OpenPcs, AskedPcs, CallPcs, CleanPcs

LEMMA AgainReadStep == ASSUME TypeOK, NEW t \in Threads, AgainRead(t) PROVE ThreadStep(t)
BY JumpAdvances, OopsAdvances, ReturnEnds DEF AgainRead, OpenPcs, AskedPcs, CallPcs, CleanPcs

LEMMA ReadSignatureStep == ASSUME TypeOK, NEW t \in Threads, ReadSignature(t) PROVE ThreadStep(t)
BY JumpAdvances, LeaveReplies DEF ReadSignature, OpenPcs, AskedPcs, CallPcs, CleanPcs

LEMMA BiosApiCallStep == ASSUME TypeOK, NEW t \in Threads, BiosApiCall(t) PROVE ThreadStep(t)
BY JumpAdvances, LeaveReplies DEF BiosApiCall, OpenPcs, AskedPcs, CallPcs, CleanPcs

LEMMA AllocBlocksFailedStep ==
  ASSUME TypeOK, NEW t \in Threads, AllocBlocksFailed(t) PROVE ThreadStep(t)
BY LeaveReplies DEF AllocBlocksFailed, OpenPcs, AskedPcs, CallPcs, CleanPcs

LEMMA CopyToUserStep == ASSUME TypeOK, NEW t \in Threads, CopyToUser(t) PROVE ThreadStep(t)
BY LeaveReplies DEF CopyToUser, OpenPcs, AskedPcs, CallPcs, CleanPcs

LEMMA DrvBapiCallStep == ASSUME TypeOK, NEW t \in Threads, DrvBapiCall(t) PROVE ThreadStep(t)
<1>1. loc[t] \in Locals
  BY LocalsOf DEF TypeOK
<1>2. ASSUME NEW ctlIn, NEW ctlOut,
             Set(t, [loc[t] EXCEPT !.ctl = Max2(ctlIn, ctlOut)]),
             Goto(t, IF segBase THEN "sig" ELSE "again_map")
      PROVE  ThreadStep(t)
  <2> DEFINE locals == [loc[t] EXCEPT !.ctl = Max2(ctlIn, ctlOut)]
  <2>1. Identity(locals) = Identity(loc[t]) /\ locals.st = loc[t].st
    BY <1>1, IdentityKept
  <2> HIDE DEF locals
  <2>2. Set(t, locals)
    BY <1>2 DEF locals
  <2> QED
    BY <1>2, <2>1, <2>2, JumpAdvances DEF DrvBapiCall, OpenPcs, AskedPcs, CallPcs, CleanPcs
<1> QED
  BY <1>2, ReturnEnds
  DEF DrvBapiCall, OpenPcs, AskedPcs, CallPcs, CleanPcs

LEMMA BiosApiCtrlBufferAllocStep == ASSUME TypeOK, NEW t \in Threads, BiosApiCtrlBufferAlloc(t) PROVE ThreadStep(t)
<1>1. loc[t] \in Locals
  BY LocalsOf DEF TypeOK
<1>2. ASSUME Set(t, [loc[t] EXCEPT !.k = @ + 1]),
             Goto(t, "ctl")
      PROVE  ThreadStep(t)
  <2> DEFINE locals == [loc[t] EXCEPT !.k = @ + 1]
  <2>1. Identity(locals) = Identity(loc[t]) /\ locals.st = loc[t].st
    BY <1>1, IdentityKept
  <2> HIDE DEF locals
  <2>2. Set(t, locals)
    BY <1>2 DEF locals
  <2> QED
    BY <1>2, <2>1, <2>2, JumpAdvances DEF BiosApiCtrlBufferAlloc, OpenPcs, AskedPcs, CallPcs, CleanPcs
<1> QED
  BY <1>2, JumpAdvances
  DEF BiosApiCtrlBufferAlloc, NextBuffer, OpenPcs, AskedPcs, CallPcs, CleanPcs

LEMMA CtrlBufferGetStep == ASSUME TypeOK, NEW t \in Threads, CtrlBufferGet(t) PROVE ThreadStep(t)
<1>1. loc[t] \in Locals
  BY LocalsOf DEF TypeOK
<1>2. ASSUME Set(t, [loc[t] EXCEPT !.k = @ + 1]),
             Goto(t, "ctl")
      PROVE  ThreadStep(t)
  <2> DEFINE locals == [loc[t] EXCEPT !.k = @ + 1]
  <2>1. Identity(locals) = Identity(loc[t]) /\ locals.st = loc[t].st
    BY <1>1, IdentityKept
  <2> HIDE DEF locals
  <2>2. Set(t, locals)
    BY <1>2 DEF locals
  <2> QED
    BY <1>2, <2>1, <2>2, JumpAdvances DEF CtrlBufferGet, OpenPcs, AskedPcs, CallPcs, CleanPcs
<1> QED
  BY <1>2, JumpAdvances, LeaveReplies
  DEF CtrlBufferGet, NextBuffer, OpenPcs, AskedPcs, CallPcs, CleanPcs

LEMMA CopyCtrlFromUserStep == ASSUME TypeOK, NEW t \in Threads, CopyCtrlFromUser(t) PROVE ThreadStep(t)
<1>1. loc[t] \in Locals
  BY LocalsOf DEF TypeOK
<1>2. ASSUME Set(t, [loc[t] EXCEPT !.k = 1]),
             Goto(t, "map")
      PROVE  ThreadStep(t)
  <2> DEFINE locals == [loc[t] EXCEPT !.k = 1]
  <2>1. Identity(locals) = Identity(loc[t]) /\ locals.st = loc[t].st
    BY <1>1, IdentityKept
  <2> HIDE DEF locals
  <2>2. Set(t, locals)
    BY <1>2 DEF locals
  <2> QED
    BY <1>2, <2>1, <2>2, JumpAdvances DEF CopyCtrlFromUser, OpenPcs, AskedPcs, CallPcs, CleanPcs
<1> QED
  BY <1>2, JumpAdvances, LeaveReplies
  DEF CopyCtrlFromUser, OpenPcs, AskedPcs, CallPcs, CleanPcs

LEMMA CopyDataFromUserStep == ASSUME TypeOK, NEW t \in Threads, CopyDataFromUser(t) PROVE ThreadStep(t)
<1>1. loc[t] \in Locals
  BY LocalsOf DEF TypeOK
<1>2. ASSUME Set(t, [loc[t] EXCEPT !.inOk = TRUE]),
             Goto(t, "access")
      PROVE  ThreadStep(t)
  <2> DEFINE locals == [loc[t] EXCEPT !.inOk = TRUE]
  <2>1. Identity(locals) = Identity(loc[t]) /\ locals.st = loc[t].st
    BY <1>1, IdentityKept
  <2> HIDE DEF locals
  <2>2. Set(t, locals)
    BY <1>2 DEF locals
  <2> QED
    BY <1>2, <2>1, <2>2, JumpAdvances DEF CopyDataFromUser, OpenPcs, AskedPcs, CallPcs, CleanPcs
<1> QED
  BY <1>2, LeaveReplies
  DEF CopyDataFromUser, OpenPcs, AskedPcs, CallPcs, CleanPcs

LEMMA BiosApiAllocBlocksStep == ASSUME TypeOK, NEW t \in Threads, BiosApiAllocBlocks(t) PROVE ThreadStep(t)
<1>1. loc[t] \in Locals
  BY LocalsOf DEF TypeOK
<1>2. ASSUME NEW p,
             Set(t, [loc[t] EXCEPT !.ptr = p]),
             Goto(t, "map_init") \/ Goto(t, "map_fill")
      PROVE  ThreadStep(t)
  <2> DEFINE locals == [loc[t] EXCEPT !.ptr = p]
  <2>1. Identity(locals) = Identity(loc[t]) /\ locals.st = loc[t].st
    BY <1>1, IdentityKept
  <2> HIDE DEF locals
  <2>2. Set(t, locals)
    BY <1>2 DEF locals
  <2> QED
    BY <1>2, <2>1, <2>2, JumpAdvances DEF BiosApiAllocBlocks, OpenPcs, AskedPcs, CallPcs, CleanPcs
<1> QED
  BY <1>2, OopsAdvances
  DEF BiosApiAllocBlocks, OpenPcs, AskedPcs, CallPcs, CleanPcs

LEMMA PhysBlkInitStep == ASSUME TypeOK, NEW t \in Threads, PhysBlkInit(t) PROVE ThreadStep(t)
<1>1. loc[t] \in Locals
  BY LocalsOf DEF TypeOK
<1>2. ASSUME Set(t, [loc[t] EXCEPT !.left = DataSize(t), !.std = maxBlock]),
             Goto(t, "map_loop")
      PROVE  ThreadStep(t)
  <2> DEFINE locals == [loc[t] EXCEPT !.left = DataSize(t), !.std = maxBlock]
  <2>1. Identity(locals) = Identity(loc[t]) /\ locals.st = loc[t].st
    BY <1>1 DEF Locals, Identity
  <2> HIDE DEF locals
  <2>2. Set(t, locals)
    BY <1>2 DEF locals
  <2> QED
    BY <1>2, <2>1, <2>2, JumpAdvances DEF PhysBlkInit, OpenPcs, AskedPcs, CallPcs, CleanPcs
<1> QED
  BY <1>2
  DEF PhysBlkInit, OpenPcs, AskedPcs, CallPcs, CleanPcs

LEMMA PhysBlkAllocBlocksStep == ASSUME TypeOK, NEW t \in Threads, PhysBlkAllocBlocks(t) PROVE ThreadStep(t)
<1>1. loc[t] \in Locals
  BY LocalsOf DEF TypeOK
<1>2. ASSUME NEW n,
             Set(t, [loc[t] EXCEPT !.left = @ - n]),
             UNCHANGED pc
      PROVE  ThreadStep(t)
  <2> DEFINE locals == [loc[t] EXCEPT !.left = @ - n]
  <2>1. Identity(locals) = Identity(loc[t]) /\ locals.st = loc[t].st
    BY <1>1, IdentityKept
  <2> HIDE DEF locals
  <2>2. Set(t, locals)
    BY <1>2 DEF locals
  <2> QED
    BY <1>2, <2>1, <2>2, JumpAdvances DEF PhysBlkAllocBlocks, OpenPcs, AskedPcs, CallPcs, CleanPcs
<1>3. ASSUME Set(t, [loc[t] EXCEPT !.std = Smaller(@)]),
             UNCHANGED pc
      PROVE  ThreadStep(t)
  <2> DEFINE locals == [loc[t] EXCEPT !.std = Smaller(@)]
  <2>1. Identity(locals) = Identity(loc[t]) /\ locals.st = loc[t].st
    BY <1>1, IdentityKept
  <2> HIDE DEF locals
  <2>2. Set(t, locals)
    BY <1>3 DEF locals
  <2> QED
    BY <1>3, <2>1, <2>2, JumpAdvances DEF PhysBlkAllocBlocks, OpenPcs, AskedPcs, CallPcs, CleanPcs
<1> QED
  BY <1>2, <1>3, JumpAdvances, LeaveReplies
  DEF PhysBlkAllocBlocks, OpenPcs, AskedPcs, CallPcs, CleanPcs

LEMMA BiosApiCopyDataToMapStep == ASSUME TypeOK, NEW t \in Threads, BiosApiCopyDataToMap(t) PROVE ThreadStep(t)
<1>1. loc[t] \in Locals
  BY LocalsOf DEF TypeOK
<1>2. ASSUME NEW ok,
             Set(t, [loc[t] EXCEPT !.inOk = ok, !.k = 2]),
             Goto(t, "map")
      PROVE  ThreadStep(t)
  <2> DEFINE locals == [loc[t] EXCEPT !.inOk = ok, !.k = 2]
  <2>1. Identity(locals) = Identity(loc[t]) /\ locals.st = loc[t].st
    BY <1>1 DEF Locals, Identity
  <2> HIDE DEF locals
  <2>2. Set(t, locals)
    BY <1>2 DEF locals
  <2> QED
    BY <1>2, <2>1, <2>2, JumpAdvances DEF BiosApiCopyDataToMap, OpenPcs, AskedPcs, CallPcs, CleanPcs
<1> QED
  BY <1>2
  DEF BiosApiCopyDataToMap, OpenPcs, AskedPcs, CallPcs, CleanPcs

LEMMA BiosApiCheckAccessStep == ASSUME TypeOK, NEW t \in Threads, BiosApiCheckAccess(t) PROVE ThreadStep(t)
<1>1. loc[t] \in Locals
  BY LocalsOf DEF TypeOK
<1>2. ASSUME Set(t, [loc[t] EXCEPT !.reg = [b \in Bufs |-> buf[b].phys]]),
             loc[t].root, Goto(t, "bios_map")
      PROVE  ThreadStep(t)
  <2> DEFINE locals == [loc[t] EXCEPT !.reg = [b \in Bufs |-> buf[b].phys]]
  <2>1. Identity(locals) = Identity(loc[t]) /\ locals.st = loc[t].st
    BY <1>1, IdentityKept
  <2> HIDE DEF locals
  <2>2. Set(t, locals)
    BY <1>2 DEF locals
  <2> QED
    BY <1>2, <2>1, <2>2, JumpAdvances DEF BiosApiCheckAccess, OpenPcs, AskedPcs, CallPcs, CleanPcs
<1> QED
  BY <1>2, LeaveReplies
  DEF BiosApiCheckAccess, OpenPcs, AskedPcs, CallPcs, CleanPcs

LEMMA RaiseTaskPriorityStep == ASSUME TypeOK, NEW t \in Threads, RaiseTaskPriority(t) PROVE ThreadStep(t)
<1>1. loc[t] \in Locals
  BY LocalsOf DEF TypeOK
<1>2. ASSUME NEW c,
             Set(t, [loc[t] EXCEPT !.apic = TRUE, !.save = tpr[c]]),
             Goto(t, "exec")
      PROVE  ThreadStep(t)
  <2> DEFINE locals == [loc[t] EXCEPT !.apic = TRUE, !.save = tpr[c]]
  <2>1. Identity(locals) = Identity(loc[t]) /\ locals.st = loc[t].st
    BY <1>1 DEF Locals, Identity
  <2> HIDE DEF locals
  <2>2. Set(t, locals)
    BY <1>2 DEF locals
  <2> QED
    BY <1>2, <2>1, <2>2, JumpAdvances DEF RaiseTaskPriority, OpenPcs, AskedPcs, CallPcs, CleanPcs
<1> QED
  BY <1>2, JumpAdvances, LeaveReplies
  DEF RaiseTaskPriority, OpenPcs, AskedPcs, CallPcs, CleanPcs

LEMMA FreeMapStep == ASSUME TypeOK, NEW t \in Threads, FreeMap(t) PROVE ThreadStep(t)
<1>1. loc[t] \in Locals
  BY LocalsOf DEF TypeOK
<1>2. ASSUME Set(t, [loc[t] EXCEPT !.k = 2]),
             UNCHANGED pc
      PROVE  ThreadStep(t)
  <2> DEFINE locals == [loc[t] EXCEPT !.k = 2]
  <2>1. Identity(locals) = Identity(loc[t]) /\ locals.st = loc[t].st
    BY <1>1, IdentityKept
  <2> HIDE DEF locals
  <2>2. Set(t, locals)
    BY <1>2 DEF locals
  <2> QED
    BY <1>2, <2>1, <2>2, JumpAdvances DEF FreeMap, OpenPcs, AskedPcs, CallPcs, CleanPcs
<1>3. ASSUME Set(t, [loc[t] EXCEPT !.k = 1]),
             Goto(t, "free_buf")
      PROVE  ThreadStep(t)
  <2> DEFINE locals == [loc[t] EXCEPT !.k = 1]
  <2>1. Identity(locals) = Identity(loc[t]) /\ locals.st = loc[t].st
    BY <1>1, IdentityKept
  <2> HIDE DEF locals
  <2>2. Set(t, locals)
    BY <1>3 DEF locals
  <2> QED
    BY <1>3, <2>1, <2>2, JumpAdvances DEF FreeMap, OpenPcs, AskedPcs, CallPcs, CleanPcs
<1> QED
  BY <1>2, <1>3
  DEF FreeMap, OpenPcs, AskedPcs, CallPcs, CleanPcs

LEMMA ClearBufferStep == ASSUME TypeOK, NEW t \in Threads, ClearBuffer(t) PROVE ThreadStep(t)
<1>1. loc[t] \in Locals
  BY LocalsOf DEF TypeOK
<1>2. ASSUME Set(t, [loc[t] EXCEPT !.k = @ + 1]),
             Goto(t, "free_buf")
      PROVE  ThreadStep(t)
  <2> DEFINE locals == [loc[t] EXCEPT !.k = @ + 1]
  <2>1. Identity(locals) = Identity(loc[t]) /\ locals.st = loc[t].st
    BY <1>1, IdentityKept
  <2> HIDE DEF locals
  <2>2. Set(t, locals)
    BY <1>2 DEF locals
  <2> QED
    BY <1>2, <2>1, <2>2, JumpAdvances DEF ClearBuffer, OpenPcs, AskedPcs, CallPcs, CleanPcs
<1> QED
  BY <1>2, JumpAdvances, ReturnEnds
  DEF ClearBuffer, OpenPcs, AskedPcs, CallPcs, CleanPcs

LEMMA BiosReturnsStep == ASSUME TypeOK, NEW t \in Threads, BiosReturns(t) PROVE ThreadStep(t)
<1>1. loc[t] \in Locals
  BY LocalsOf DEF TypeOK
<1> DEFINE locals == [loc[t] EXCEPT !.ran = TRUE]
<1>2. /\ locals.call = loc[t].call /\ locals.file = loc[t].file /\ locals.root = loc[t].root
      /\ locals.ran /\ locals.st = loc[t].st
  BY <1>1 DEF Locals
<1>3. Set(t, locals) /\ Goto(t, "copy_out") /\ pc[t] = "bios"
  BY DEF BiosReturns
<1> HIDE DEF locals
<1> QED
  BY <1>2, <1>3, GotoAt, SetAt DEF ThreadStep, Frame, Run

LEMMA StartStep == ASSUME TypeOK, NEW t \in Threads, Start(t) PROVE ThreadStep(t)
<1>1. CASE DrvOpen(t)
  <2>1. PICK f \in Files : Set(t, [NoCall EXCEPT !.call = "open", !.file = f])
    BY <1>1 DEF DrvOpen
  <2>2. loc'[t] = [NoCall EXCEPT !.call = "open", !.file = f] /\ pc'[t] \in OpenPcs /\ Frame(t)
    BY <1>1, <2>1, GotoAt, SetAt DEF DrvOpen, Frame, OpenPcs
  <2> QED
    BY <1>1, <2>2 DEF DrvOpen, ThreadStep, Begin, NoCall
<1>2. CASE DrvRelease(t)
  <2>1. PICK f : Set(t, [NoCall EXCEPT !.call = "release", !.file = f])
    BY <1>2 DEF DrvRelease
  <2>2. loc'[t] = [NoCall EXCEPT !.call = "release", !.file = f] /\ pc'[t] = "free_map" /\ Frame(t)
    BY <1>2, <2>1, GotoAt, SetAt DEF DrvRelease, Frame
  <2> QED
    BY <1>2, <2>2 DEF DrvRelease, ThreadStep, Begin, NoCall
<1>3. CASE DrvDispatchIoctl(t)
  <2>1. PICK f \in files, in \in DataSizes, out \in DataSizes, useMap \in UseMap,
            root \in BOOLEAN :
          Set(t, [NoCall EXCEPT !.call = "ioctl", !.file = f, !.in = in, !.out = out,
                                !.map = useMap, !.root = root])
    BY <1>3 DEF DrvDispatchIoctl
  <2>2. /\ loc'[t] = [NoCall EXCEPT !.call = "ioctl", !.file = f, !.in = in, !.out = out,
                                    !.map = useMap, !.root = root]
        /\ pc'[t] = "args" /\ Frame(t)
    BY <1>3, <2>1, GotoAt, SetAt DEF DrvDispatchIoctl, Frame
  <2>3. /\ loc'[t].st = "ERROR" /\ ~loc'[t].ran
        /\ loc'[t].call = "ioctl" /\ loc'[t].root = root
    BY <2>2 DEF NoCall
  <2> QED
    BY <1>3, <2>2, <2>3 DEF DrvDispatchIoctl, ThreadStep, Begin
<1> QED
  BY <1>1, <1>2, <1>3 DEF Start

LEMMA StepStep == ASSUME TypeOK, NEW t \in Threads, Step(t) PROVE ThreadStep(t)
<1>1. CASE OpenStep(t)
  BY <1>1, OpenMapStep, OpenClearStep, OpenReadStep, OpenTestStep DEF OpenStep
<1>2. CASE SetUpStep(t)
  BY <1>2, DrvBapiCallStep, AgainMapStep, AgainClearStep, AgainReadStep, ReadSignatureStep,
     SetMaxBlockSizeStep, BiosApiCtrlBufferAllocStep, CtrlBufferGetStep,
     CopyCtrlFromUserStep, CopyDataFromUserStep DEF SetUpStep
<1>3. CASE MapStep(t)
  BY <1>3, BiosApiAllocBlocksStep, PhysBlkInitStep, PhysBlkAllocBlocksStep,
     AllocBlocksFailedStep, FillFlashMapStep, BiosApiCopyDataToMapStep DEF MapStep
<1>4. CASE CallStep(t)
  BY <1>4, BiosApiCheckAccessStep, BiosApiCallStep, RaiseTaskPriorityStep, CallBiosStep,
     BiosReturnsStep, CopyToUserStep DEF CallStep
<1>5. CASE CleanUpStep(t)
  BY <1>5, FreeMapStep, FreeBufferStep, ClearBufferStep, PutStatusStep DEF CleanUpStep
<1> QED
  BY <1>1, <1>2, <1>3, <1>4, <1>5 DEF Step

-----------------------------------------------------------------------------
LEMMA CallInvStep ==
  ASSUME CallInv, NEW t \in Threads, ThreadStep(t)
  PROVE  CallInv'
<1> SUFFICES ASSUME NEW u \in Threads
             PROVE  /\ pc'[u] = "idle" => loc'[u] = NoCall
                    /\ pc'[u] \in OpenPcs => loc'[u].call = "open" /\ loc'[u].file \in Files
                    /\ pc'[u] \in AskedPcs \union CallPcs \union {"copy_out", "put"}
                         => loc'[u].call = "ioctl"
                    /\ pc'[u] \in CleanPcs => loc'[u].call \in {"ioctl", "release"}
                    /\ loc'[u].call # "ioctl" => loc'[u].root = FALSE
                    /\ pc'[u] \in CallPcs \union {"copy_out"} => loc'[u].root
                    /\ pc'[u] = "copy_out" => loc'[u].ran
                    /\ loc'[u].st = "READY" =>
                         /\ loc'[u].ran /\ loc'[u].root
                         /\ pc'[u] \in CleanPcs \union {"put"}
  BY DEF CallInv
<1> USE DEF CallInv, OpenPcs, AskedPcs, CallPcs, CleanPcs
<1>1. CASE u # t
  BY <1>1 DEF ThreadStep, Frame
<1>2. CASE u = t /\ Begin(t)
  BY <1>2 DEF Begin
<1>3. CASE u = t /\ Advance(t)
  <2>1. /\ loc'[t].call = loc[t].call /\ loc'[t].file = loc[t].file
        /\ loc'[t].root = loc[t].root /\ loc'[t].ran = loc[t].ran
        /\ loc'[t].st = loc[t].st
    BY <1>3 DEF Advance, Identity
  <2> QED
    BY <1>3, <2>1 DEF Advance
<1>4. CASE u = t /\ Run(t)
  BY <1>4 DEF Run
<1>5. CASE u = t /\ Reply(t)
  <2>1. /\ loc'[t].call = loc[t].call /\ loc'[t].file = loc[t].file
        /\ loc'[t].root = loc[t].root /\ loc'[t].ran = loc[t].ran
    BY <1>5 DEF Reply, Identity
  <2> QED
    BY <1>5, <2>1 DEF Reply
<1>6. CASE u = t /\ End(t)
  BY <1>6 DEF End, NoCall
<1> QED
  BY <1>1, <1>2, <1>3, <1>4, <1>5, <1>6 DEF ThreadStep

-----------------------------------------------------------------------------
(* Theorems *)

LEMMA TypeStep ==
  ASSUME TypeOK, CallInv, NEW t \in Threads, Start(t) \/ Step(t)
  PROVE  TypeOK'
<1>1. CASE Start(t)
  BY <1>1, DrvOpenType, DrvReleaseType, DrvDispatchIoctlType DEF Start
<1>2. CASE OpenStep(t)
  BY <1>2, OpenMapType, OpenClearType, OpenReadType, OpenTestType DEF OpenStep
<1>3. CASE SetUpStep(t)
  BY <1>3, DrvBapiCallType, AgainMapType, AgainClearType, AgainReadType, ReadSignatureType,
     SetMaxBlockSizeType, BiosApiCtrlBufferAllocType, CtrlBufferGetType,
     CopyCtrlFromUserType, CopyDataFromUserType DEF SetUpStep
<1>4. CASE MapStep(t)
  BY <1>4, BiosApiAllocBlocksType, PhysBlkInitType, PhysBlkAllocBlocksType,
     AllocBlocksFailedType, FillFlashMapType, BiosApiCopyDataToMapType DEF MapStep
<1>5. CASE CallStep(t)
  BY <1>5, BiosApiCheckAccessType, BiosApiCallType, RaiseTaskPriorityType, CallBiosType,
     BiosReturnsType, CopyToUserType DEF CallStep
<1>6. CASE CleanUpStep(t)
  BY <1>6, FreeMapType, FreeBufferType, ClearBufferType, PutStatusType DEF CleanUpStep
<1> QED
  BY <1>1, <1>2, <1>3, <1>4, <1>5, <1>6 DEF Step

LEMMA InitType == Init => TypeOK /\ CallInv
<1> SUFFICES ASSUME Init PROVE TypeOK /\ CallInv
  OBVIOUS
<1>1. InfoType
  BY NoAddressType, NoItemsType DEF Init, InfoType, NoHeader
<1>2. MemType
  BY EmptyLists DEF Init, MemType
<1>3. ThreadType
  BY NoCallType DEF Init, ThreadType, Pcs, MapPcs
<1>4. CallInv
  BY DEF Init, CallInv, NoCall, OpenPcs, AskedPcs, CallPcs, CleanPcs
<1> QED
  BY <1>1, <1>2, <1>3, <1>4 DEF Init, TypeOK

(* The inductive invariant of a call's control flow and of the types.         *)
THEOREM Invariance == Spec => [](TypeOK /\ CallInv)
<1>1. TypeOK /\ CallInv /\ [Next]_vars => TypeOK' /\ CallInv'
  <2> SUFFICES ASSUME TypeOK, CallInv, [Next]_vars PROVE TypeOK' /\ CallInv'
    OBVIOUS
  <2>1. CASE UNCHANGED vars
    BY <2>1 DEF vars, info, mem, TypeOK, InfoType, MemType, ThreadType, CallInv
  <2>2. CASE Next
    <3>1. PICK t \in Threads : Start(t) \/ Step(t)
      BY <2>2 DEF Next
    <3>2. TypeOK'
      BY <3>1, TypeStep
    <3>3. ThreadStep(t)
      BY <3>1, StartStep, StepStep
    <3> QED
      BY <3>2, <3>3, CallInvStep
  <2> QED
    BY <2>1, <2>2
<1> QED
  BY <1>1, InitType, PTL DEF Spec

(* Types, for every number of threads and blocks and all sizes; with them,    *)
(* that the index of the map loops always names one of the two maps.          *)
THEOREM TypeCorrect == Spec => []TypeOK
BY Invariance, PTL

(* What g_BApiInfo says of an entry point is true of the machine.             *)
ApiInv == (hdr.ofs => bios.ofs) /\ (files # {} => bios.ofs)

LEMMA ApiInvStep ==
  ASSUME ApiInv, NEW t \in Threads, Start(t) \/ Step(t)
  PROVE  ApiInv'
<1> USE DEF ApiInv
<1>1. CASE Start(t)
  BY <1>1 DEF Start, DrvOpen, DrvRelease, DrvDispatchIoctl, info
<1>2. CASE OpenStep(t)
  BY <1>2 DEF OpenStep, OpenMap, OpenClear, OpenRead, OpenTest, ClearInfo, NoHeader,
     BiosApiReadInfo, info
<1>3. CASE DrvBapiCall(t) \/ AgainMap(t) \/ AgainClear(t) \/ AgainRead(t)
  BY <1>3 DEF DrvBapiCall, AgainMap, AgainClear, AgainRead, ClearInfo, NoHeader,
     BiosApiReadInfo, info
<1>4. ASSUME UNCHANGED <<bios, hdr, files>> PROVE ApiInv'
  BY <1>4
<1>5. CASE ReadSignature(t) \/ SetMaxBlockSize(t)
  BY <1>4, <1>5 DEF ReadSignature, SetMaxBlockSize
<1>6. CASE BiosApiCtrlBufferAlloc(t) \/ CtrlBufferGet(t) \/ CopyCtrlFromUser(t) \/ CopyDataFromUser(t)
  BY <1>4, <1>6 DEF BiosApiCtrlBufferAlloc, CtrlBufferGet, CopyCtrlFromUser, CopyDataFromUser, info
<1>7. CASE MapStep(t)
  BY <1>4, <1>7 DEF MapStep, BiosApiAllocBlocks, PhysBlkInit, PhysBlkAllocBlocks,
     AllocBlocksFailed, FillFlashMap,
     BiosApiCopyDataToMap, info
<1>8. CASE CallStep(t)
  BY <1>4, <1>8 DEF CallStep, BiosApiCheckAccess, BiosApiCall, RaiseTaskPriority, CallBios,
     BiosReturns, CopyToUser, info
<1>9. CASE CleanUpStep(t)
  BY <1>4, <1>9 DEF CleanUpStep, FreeMap, FreeBuffer, ClearBuffer, PutStatus, info
<1> QED
  BY <1>1, <1>2, <1>3, <1>5, <1>6, <1>7, <1>8, <1>9 DEF Step, SetUpStep

(* DrvOpen lets nobody in on a machine whose BIOS has no API, although other  *)
(* openers clear and read g_BApiInfo at the same time.                        *)
THEOREM OpenCorrect == Spec => []OpenNeedsApi
<1>1. Init => ApiInv
  BY DEF Init, ApiInv, NoHeader
<1>2. ApiInv /\ [Next]_vars => ApiInv'
  <2>1. ApiInv /\ UNCHANGED vars => ApiInv'
    BY DEF ApiInv, vars, info
  <2>2. ApiInv /\ Next => ApiInv'
    BY ApiInvStep DEF Next
  <2> QED
    BY <2>1, <2>2
<1>3. ApiInv => OpenNeedsApi
  BY DEF ApiInv, OpenNeedsApi
<1> QED
  BY <1>1, <1>2, <1>3, PTL DEF Spec

-----------------------------------------------------------------------------
(* The ioctl implements BapiService *)

Phases  == [t \in Threads |-> PhaseOf(t)]
Roots   == [t \in Threads |-> loc[t].root]
Answers == [t \in Threads |-> AnswerOf(t)]

(* A step of one thread changes the view of no other caller.                  *)
LEMMA ViewStep ==
  ASSUME NEW t \in Threads, Frame(t)
  PROVE  /\ Phases' = [Phases EXCEPT ![t] = PhaseOf(t)']
         /\ Roots' = [Roots EXCEPT ![t] = loc'[t].root]
         /\ Answers' = [Answers EXCEPT ![t] = AnswerOf(t)']
         /\ Phases[t] = PhaseOf(t)
         /\ loc'[t].root = loc[t].root => Roots' = Roots
         /\ AnswerOf(t)' = AnswerOf(t) => Answers' = Answers
         /\ PhaseOf(t)' = PhaseOf(t) => Phases' = Phases
<1>1. \A u \in Threads \ {t} : PhaseOf(u)' = PhaseOf(u) /\ AnswerOf(u)' = AnswerOf(u)
  BY DEF Frame, PhaseOf, AnswerOf
<1>2. \A u \in Threads \ {t} : loc'[u].root = loc[u].root
  BY DEF Frame
<1> QED
  BY <1>1, <1>2 DEF Phases, Roots, Answers

(* Each kind of step is a step of the promised ioctl or invisible.            *)
LEMMA RefineStep ==
  ASSUME CallInv, NEW t \in Threads, ThreadStep(t)
  PROVE  Service!Next \/ UNCHANGED Service!vars
<1> DEFINE p == PhaseOf(t)
<1> DEFINE a == AnswerOf(t)
<1>v. /\ Phases' = [Phases EXCEPT ![t] = p']
      /\ Roots' = [Roots EXCEPT ![t] = loc'[t].root]
      /\ Answers' = [Answers EXCEPT ![t] = a']
      /\ Phases[t] = p /\ Roots[t] = loc[t].root
      /\ loc'[t].root = loc[t].root => Roots' = Roots
      /\ a' = a => Answers' = Answers
  BY ViewStep DEF ThreadStep, Roots
<1>s. ASSUME p' = p, loc'[t].root = loc[t].root, a' = a
      PROVE  UNCHANGED Service!vars
  BY <1>s, ViewStep DEF ThreadStep, Service!vars, Phases, Roots, Answers
<1>i. /\ pc[t] \in AskedPcs \union CallPcs =>
           p = "asked" /\ a = "ERROR" /\ loc[t].call = "ioctl"
      /\ pc[t] \in CallPcs => loc[t].root
      /\ pc[t] \in OpenPcs => p = "idle" /\ a = "ERROR" /\ loc[t].call = "open" /\ loc[t].root = FALSE
      /\ pc[t] = "copy_out" => p = "executed" /\ a = "ERROR" /\ loc[t].call = "ioctl"
      /\ pc[t] = "put" => p = "answered" /\ loc[t].call = "ioctl"
      /\ pc[t] \in CleanPcs => p = IF loc[t].call = "ioctl" THEN "answered" ELSE "idle"
      /\ loc[t].call # "ioctl" => a = "ERROR" /\ loc[t].root = FALSE
  BY DEF CallInv, PhaseOf, AnswerOf, OpenPcs, AskedPcs, CallPcs, CleanPcs
<1>1. CASE Begin(t)
  <2>1. p = "idle" /\ a = "ERROR" /\ a' = "ERROR" /\ loc[t].root = FALSE
    BY <1>1, <1>i DEF Begin, CallInv, PhaseOf, AnswerOf, NoCall
  <2>2. CASE loc'[t].call # "ioctl"
    BY <1>1, <1>s, <2>1, <2>2 DEF Begin, PhaseOf
  <2>3. CASE loc'[t].call = "ioctl"
    <3>1. p' = "asked" /\ loc'[t].root \in BOOLEAN
      BY <1>1, <2>3 DEF Begin, PhaseOf
    <3>2. Answers' = Answers
      BY <1>v, <2>1
    <3>3. Service!Ask(t)
      BY <1>v, <2>1, <3>1, <3>2 DEF Service!Ask, Service!Move, Phases, Roots, Answers
    <3> QED
      BY <3>3 DEF Service!Next
  <2> QED
    BY <2>2, <2>3
<1>2. CASE Advance(t)
  <2>1. /\ loc'[t].call = loc[t].call /\ loc'[t].root = loc[t].root /\ loc'[t].st = loc[t].st
    BY <1>2 DEF Advance, Identity
  <2>2. CASE pc'[t] # "oops" \/ loc[t].call # "ioctl"
    <3>1. p' = p /\ a' = a
      BY <1>2, <1>i, <2>1, <2>2
      DEF Advance, PhaseOf, AnswerOf, OpenPcs, AskedPcs, CallPcs, CleanPcs
    <3> QED
      BY <1>s, <2>1, <3>1
  <2>3. CASE pc'[t] = "oops" /\ loc[t].call = "ioctl"
    <3>1. p = "asked" /\ p' = "dead" /\ a' = a
      BY <1>2, <1>i, <2>1, <2>3
      DEF Advance, PhaseOf, AnswerOf, OpenPcs, AskedPcs, CallPcs, CleanPcs
    <3>2. Service!Die(t)
      BY <1>v, <2>1, <3>1 DEF Service!Die, Service!Move, Phases, Roots, Answers
    <3> QED
      BY <3>2 DEF Service!Next
  <2> QED
    BY <2>2, <2>3
<1>3. CASE Run(t)
  <2>1. /\ p = "asked" /\ p' = "executed" /\ a' = a
        /\ loc'[t].root = loc[t].root /\ loc[t].root
    BY <1>3, <1>i DEF Run, PhaseOf, AnswerOf, CallPcs
  <2>2. Service!Execute(t)
    BY <1>v, <2>1 DEF Service!Execute, Service!Move, Phases, Roots, Answers
  <2> QED
    BY <2>2 DEF Service!Next
<1>4. CASE Reply(t)
  <2>1. loc'[t].call = loc[t].call /\ loc'[t].root = loc[t].root
    BY <1>4 DEF Reply, Identity
  <2>2. p' = "answered" /\ a' = loc'[t].st
    BY <1>4, <1>i, <2>1 DEF Reply, PhaseOf, AnswerOf
  <2>3. CASE pc[t] = "copy_out"
    <3>1. Service!Answer(t)
      BY <1>4, <1>i, <1>v, <2>1, <2>2, <2>3
      DEF Reply, AskedPcs, CallPcs, Service!Answer, Service!Move, Phases, Roots, Answers
    <3> QED
      BY <3>1 DEF Service!Next
  <2>4. CASE pc[t] # "copy_out"
    <3>1. pc[t] \in AskedPcs \union CallPcs /\ loc'[t].st \in Service!Refusals
      BY <1>4, <2>4 DEF Reply, Service!Refusals
    <3>2. p = "asked" /\ Roots' = Roots
      BY <1>i, <1>v, <2>1, <3>1
    <3>3. Service!Refuse(t)
      BY <1>v, <2>2, <3>1, <3>2
      DEF Service!Refuse, Service!Move, Phases, Roots, Answers
    <3> QED
      BY <3>3 DEF Service!Next
  <2> QED
    BY <2>3, <2>4
<1>5. CASE End(t)
  <2>1. p' = "idle" /\ a' = "ERROR" /\ loc'[t].root = FALSE
    BY <1>5 DEF End, PhaseOf, AnswerOf, NoCall
  <2>2. CASE loc[t].call # "ioctl"
    BY <1>5, <1>i, <1>s, <2>1, <2>2 DEF End
  <2>3. CASE loc[t].call = "ioctl"
    <3>1. p \in {"asked", "answered"}
      BY <1>5, <1>i, <2>3 DEF End
    <3>2. Service!Finish(t)
      BY <1>v, <2>1, <3>1 DEF Service!Finish, Service!Move, Phases, Roots, Answers
    <3> QED
      BY <3>2 DEF Service!Next
  <2> QED
    BY <2>2, <2>3
<1> QED
  BY <1>1, <1>2, <1>3, <1>4, <1>5 DEF ThreadStep

(* The ioctl keeps the promise of BapiService to every caller: at most one    *)
(* BIOS call per request, for the root group only, and DRV_READY only after   *)
(* it, for any number of threads that share g_BApiInfo.                       *)
THEOREM ServiceCorrect == Spec => ServiceSpec
<1>1. Init => Service!Init
  BY DEF Init, Service!Init, NoCall, PhaseOf, AnswerOf
<1>2. TypeOK /\ CallInv /\ [Next]_vars => [Service!Next]_(Service!vars)
  <2> SUFFICES ASSUME TypeOK, CallInv, [Next]_vars
               PROVE  Service!Next \/ UNCHANGED Service!vars
    OBVIOUS
  <2>1. CASE UNCHANGED vars
    BY <2>1 DEF vars, Service!vars, PhaseOf, AnswerOf
  <2>2. CASE Next
    BY <2>2, StartStep, StepStep, RefineStep DEF Next
  <2> QED
    BY <2>1, <2>2
<1> QED
  BY <1>1, <1>2, Invariance, PTL DEF Spec, ServiceSpec, Service!Spec

-----------------------------------------------------------------------------
(* The task priority, with one thread and one processor *)

Raising == {"tpr", "exec", "bios"}

(* A raised priority belongs to the BIOS call of an old API in progress, and  *)
(* what is restored after it is a priority that was not raised.               *)
PriorityInv(t) ==
  /\ ~loc[t].save
  /\ pc[t] = "tpr" => hdr.old
  /\ \A c \in CPUs : tpr[c] => pc[t] \in {"exec", "bios"} /\ hdr.old /\ loc[t].apic

(* No update of the locals other than the one that raises the priority        *)
(* touches the saved one.                                                     *)
LEMMA SaveKept ==
  ASSUME NEW l \in Locals, ~l.save
  PROVE  /\ \A v : ~[l EXCEPT !.k = v].save
         /\ \A v : ~[l EXCEPT !.ctl = v].save
         /\ \A v : ~[l EXCEPT !.ptr = v].save
         /\ \A v : ~[l EXCEPT !.left = v].save
         /\ \A v : ~[l EXCEPT !.std = v].save
         /\ \A v : ~[l EXCEPT !.inOk = v].save
         /\ \A v : ~[l EXCEPT !.reg = v].save
         /\ \A v : ~[l EXCEPT !.ran = v].save
         /\ \A v, w : ~[l EXCEPT !.left = v, !.std = w].save
         /\ \A v, w : ~[l EXCEPT !.inOk = v, !.k = w].save
         /\ \A v, w : ~[l EXCEPT !.st = v, !.k = w].save
         /\ \A v, w : ~[l EXCEPT !.st = v, !.k = w].save
BY DEF Locals

(* A step away from the BIOS call.                                            *)
Calm(t) ==
  /\ tpr' = tpr
  /\ ~loc'[t].save
  /\ {pc[t], pc'[t]} \intersect Raising = {}

LEMMA CalmKeeps ==
  ASSUME NEW t, PriorityInv(t), Calm(t)
  PROVE  PriorityInv(t)'
BY DEF PriorityInv, Calm, Raising

LEMMA JumpCalm ==
  ASSUME NEW t \in Threads, TypeOK, PriorityInv(t), UNCHANGED tpr, pc[t] \notin Raising,
         NEW label \in Pcs \ Raising, Goto(t, label) \/ (UNCHANGED pc /\ label = pc[t]),
         NEW locals, Set(t, locals) \/ (UNCHANGED loc /\ locals = loc[t]), ~locals.save
  PROVE  Calm(t)
<1>1. pc'[t] = label /\ loc'[t] = locals
  BY GotoAt, SetAt
<1> QED
  BY <1>1 DEF Calm

LEMMA StayCalm ==
  ASSUME NEW t \in Threads, TypeOK, PriorityInv(t), UNCHANGED <<tpr, loc>>, pc[t] \notin Raising,
         NEW label \in Pcs \ Raising, Goto(t, label) \/ (UNCHANGED pc /\ label = pc[t])
  PROVE  Calm(t)
BY JumpCalm DEF PriorityInv

LEMMA ReturnCalm ==
  ASSUME NEW t \in Threads, TypeOK, UNCHANGED tpr, pc[t] \notin Raising, Return(t)
  PROVE  Calm(t)
BY GotoAt, SetAt DEF Return, NoCall, Calm, Raising

LEMMA OopsCalm ==
  ASSUME NEW t \in Threads, TypeOK, PriorityInv(t), UNCHANGED tpr, pc[t] \notin Raising, Oops(t)
  PROVE  Calm(t)
BY GotoAt DEF Oops, PriorityInv, Calm, Raising

LEMMA LeaveSaves ==
  ASSUME NEW t \in Threads, TypeOK, PriorityInv(t), NEW status, Leave(t, status)
  PROVE  pc'[t] = "free_map" /\ ~loc'[t].save
<1>1. loc[t] \in Locals /\ ~loc[t].save
  BY LocalsOf DEF TypeOK, PriorityInv
<1>2. pc'[t] = "free_map" /\ loc'[t] = [loc[t] EXCEPT !.st = status, !.k = 1]
  BY GotoAt, SetAt DEF Leave
<1>3. ~[loc[t] EXCEPT !.st = status, !.k = 1].save
  BY <1>1, SaveKept
<1> QED
  BY <1>2, <1>3

LEMMA LeaveCalm ==
  ASSUME NEW t \in Threads, TypeOK, PriorityInv(t), UNCHANGED tpr, pc[t] \notin Raising,
         NEW status, Leave(t, status)
  PROVE  Calm(t)
BY LeaveSaves DEF Calm, Raising

LEMMA NextBufferCalm ==
  ASSUME NEW t \in Threads, TypeOK, PriorityInv(t), UNCHANGED tpr, pc[t] \notin Raising,
         NextBuffer(t)
  PROVE  Calm(t)
<1>1. loc[t] \in Locals /\ ~loc[t].save
  BY LocalsOf DEF TypeOK, PriorityInv
<1>2. CASE loc[t].k < 3
  <2>1. Goto(t, "ctl") /\ Set(t, [loc[t] EXCEPT !.k = loc[t].k + 1])
    BY <1>2 DEF NextBuffer
  <2>2. "ctl" \in Pcs \ Raising
    BY DEF Pcs, Raising
  <2>3. ~[loc[t] EXCEPT !.k = loc[t].k + 1].save
    BY <1>1, SaveKept
  <2> QED
    BY <2>1, <2>2, <2>3, JumpCalm
<1>3. CASE ~(loc[t].k < 3)
  <2>1. "copy_ctl" \in Pcs \ Raising
    BY DEF Pcs, Raising
  <2> QED
    BY <1>3, <2>1, StayCalm DEF NextBuffer
<1> QED
  BY <1>2, <1>3

LEMMA StartCalm ==
  ASSUME NEW t \in Threads, TypeOK, PriorityInv(t), Start(t)
  PROVE  Calm(t)
<1>0. pc[t] = "idle" /\ pc[t] \notin Raising /\ UNCHANGED tpr
  BY DEF Start, DrvOpen, DrvRelease, DrvDispatchIoctl, Raising
<1>1. {"open_test", "open_map", "free_map", "args"} \subseteq Pcs \ Raising
  BY DEF Pcs, Raising
<1>2. CASE DrvOpen(t)
  <2>1. PICK f : Set(t, [NoCall EXCEPT !.call = "open", !.file = f])
    BY <1>2 DEF DrvOpen
  <2>2. ~[NoCall EXCEPT !.call = "open", !.file = f].save
    BY DEF NoCall
  <2> QED
    BY <1>0, <1>1, <1>2, <2>1, <2>2, JumpCalm DEF DrvOpen
<1>3. CASE DrvRelease(t)
  <2>1. PICK f : Set(t, [NoCall EXCEPT !.call = "release", !.file = f])
    BY <1>3 DEF DrvRelease
  <2>2. ~[NoCall EXCEPT !.call = "release", !.file = f].save
    BY DEF NoCall
  <2> QED
    BY <1>0, <1>1, <1>3, <2>1, <2>2, JumpCalm DEF DrvRelease
<1>4. CASE DrvDispatchIoctl(t)
  <2>1. PICK f, in, out, useMap, root :
          Set(t, [NoCall EXCEPT !.call = "ioctl", !.file = f, !.in = in, !.out = out,
                                !.map = useMap, !.root = root])
    BY <1>4 DEF DrvDispatchIoctl
  <2>2. ~[NoCall EXCEPT !.call = "ioctl", !.file = f, !.in = in, !.out = out,
                        !.map = useMap, !.root = root].save
    BY DEF NoCall
  <2> QED
    BY <1>0, <1>1, <1>4, <2>1, <2>2, JumpCalm DEF DrvDispatchIoctl
<1> QED
  BY <1>2, <1>3, <1>4 DEF Start

LEMMA OpenCalm ==
  ASSUME NEW t \in Threads, TypeOK, PriorityInv(t), OpenStep(t)
  PROVE  Calm(t)
<1>1. pc[t] \notin Raising /\ UNCHANGED tpr
  BY DEF OpenStep, OpenMap, OpenClear, OpenRead, OpenTest, Raising
<1>2. {"open_clear", "open_read", "open_test"} \subseteq Pcs \ Raising
  BY DEF Pcs, Raising
<1>3. CASE OpenTest(t)
  BY <1>1, <1>3, ReturnCalm DEF OpenTest
<1>4. CASE OpenMap(t) \/ OpenClear(t) \/ OpenRead(t)
  BY <1>1, <1>2, <1>4, StayCalm, OopsCalm DEF OpenMap, OpenClear, OpenRead
<1> QED
  BY <1>3, <1>4 DEF OpenStep

LEMMA SetUpCalm ==
  ASSUME NEW t \in Threads, TypeOK, PriorityInv(t), SetUpStep(t)
  PROVE  Calm(t)
<1>0. loc[t] \in Locals /\ ~loc[t].save
  BY LocalsOf DEF TypeOK, PriorityInv
<1>1. CASE DrvBapiCall(t)
  <2>1. pc[t] \notin Raising /\ UNCHANGED tpr
    BY <1>1 DEF DrvBapiCall, Raising
  <2>2. {"sig", "again_map"} \subseteq Pcs \ Raising
    BY DEF Pcs, Raising
  <2>3. CASE Return(t)
    BY <2>1, <2>3, ReturnCalm
  <2>4. CASE ~Return(t)
    <3>1. PICK n : Set(t, [loc[t] EXCEPT !.ctl = n]) /\ Goto(t, IF segBase THEN "sig" ELSE "again_map")
      BY <1>1, <2>4 DEF DrvBapiCall
    <3>2. ~[loc[t] EXCEPT !.ctl = n].save
      BY <1>0, SaveKept
    <3> QED
      BY <2>1, <2>2, <3>1, <3>2, JumpCalm
  <2> QED
    BY <2>3, <2>4
<1>2. CASE AgainMap(t) \/ AgainClear(t) \/ AgainRead(t)
  <2>1. pc[t] \notin Raising /\ UNCHANGED tpr
    BY <1>2 DEF AgainMap, AgainClear, AgainRead, Raising
  <2>2. {"again_clear", "again_read", "sig"} \subseteq Pcs \ Raising
    BY DEF Pcs, Raising
  <2> QED
    BY <1>2, <2>1, <2>2, StayCalm, ReturnCalm, OopsCalm DEF AgainMap, AgainClear, AgainRead
<1>3. CASE ReadSignature(t) \/ SetMaxBlockSize(t)
  <2>1. pc[t] \notin Raising /\ UNCHANGED tpr
    BY <1>3 DEF ReadSignature, SetMaxBlockSize, Raising
  <2>2. {"block", "ctl"} \subseteq Pcs \ Raising
    BY DEF Pcs, Raising
  <2> QED
    BY <1>3, <2>1, <2>2, StayCalm, LeaveCalm DEF ReadSignature, SetMaxBlockSize
<1>4. CASE BiosApiCtrlBufferAlloc(t) \/ CtrlBufferGet(t)
  <2>1. pc[t] \notin Raising /\ UNCHANGED tpr
    BY <1>4 DEF BiosApiCtrlBufferAlloc, CtrlBufferGet, Raising
  <2>2. "ctl_get" \in Pcs \ Raising
    BY DEF Pcs, Raising
  <2>3. \/ NextBuffer(t)
        \/ Goto(t, "ctl_get") /\ UNCHANGED loc
        \/ Leave(t, "INSUFFICIENT_RESOURCES")
    BY <1>4 DEF BiosApiCtrlBufferAlloc, CtrlBufferGet
  <2> QED
    BY <2>1, <2>2, <2>3, NextBufferCalm, StayCalm, LeaveCalm
<1>5. CASE CopyCtrlFromUser(t)
  <2>1. pc[t] \notin Raising /\ UNCHANGED tpr
    BY <1>5 DEF CopyCtrlFromUser, Raising
  <2>2. {"map", "copy_in"} \subseteq Pcs \ Raising
    BY DEF Pcs, Raising
  <2>3. ~[loc[t] EXCEPT !.k = 1].save
    BY <1>0, SaveKept
  <2> QED
    BY <1>5, <2>1, <2>2, <2>3, LeaveCalm, StayCalm, JumpCalm DEF CopyCtrlFromUser
<1>6. CASE CopyDataFromUser(t)
  <2>1. pc[t] \notin Raising /\ UNCHANGED tpr
    BY <1>6 DEF CopyDataFromUser, Raising
  <2>2. "access" \in Pcs \ Raising
    BY DEF Pcs, Raising
  <2>3. ~[loc[t] EXCEPT !.inOk = TRUE].save
    BY <1>0, SaveKept
  <2> QED
    BY <1>6, <2>1, <2>2, <2>3, LeaveCalm, JumpCalm DEF CopyDataFromUser
<1> QED
  BY <1>1, <1>2, <1>3, <1>4, <1>5, <1>6 DEF SetUpStep

LEMMA MapCalm ==
  ASSUME NEW t \in Threads, TypeOK, PriorityInv(t), MapStep(t)
  PROVE  Calm(t)
<1>0. loc[t] \in Locals /\ ~loc[t].save
  BY LocalsOf DEF TypeOK, PriorityInv
<1>1. {"map", "map_init", "map_loop", "map_fail", "map_fill", "map_copy", "access"}
        \subseteq Pcs \ Raising
  BY DEF Pcs, Raising
<1>2. CASE BiosApiAllocBlocks(t)
  <2>1. pc[t] \notin Raising /\ UNCHANGED tpr
    BY <1>2 DEF BiosApiAllocBlocks, Raising
  <2>2. CASE Oops(t)
    BY <2>1, <2>2, OopsCalm
  <2>3. CASE ~Oops(t)
    <3>1. /\ \E p : Set(t, [loc[t] EXCEPT !.ptr = p])
          /\ \E label \in {"map_init", "map_fill"} : Goto(t, label)
      BY <1>2, <2>3 DEF BiosApiAllocBlocks
    <3>2. \A p : ~[loc[t] EXCEPT !.ptr = p].save
      BY <1>0, SaveKept
    <3> QED
      BY <1>1, <2>1, <3>1, <3>2, JumpCalm
  <2> QED
    BY <2>2, <2>3
<1>3. CASE PhysBlkInit(t)
  <2>1. pc[t] \notin Raising /\ UNCHANGED tpr
    BY <1>3 DEF PhysBlkInit, Raising
  <2>2. PICK v, w : Set(t, [loc[t] EXCEPT !.left = v, !.std = w]) /\ Goto(t, "map_loop")
    BY <1>3 DEF PhysBlkInit
  <2>3. ~[loc[t] EXCEPT !.left = v, !.std = w].save
    BY <1>0, SaveKept
  <2> QED
    BY <1>1, <2>1, <2>2, <2>3, JumpCalm
<1>4. CASE PhysBlkAllocBlocks(t)
  <2>1. pc[t] = "map_loop" /\ pc[t] \notin Raising /\ UNCHANGED tpr
    BY <1>4 DEF PhysBlkAllocBlocks, Raising
  <2>2. \/ \E label \in {"map_fill", "map_fail"} : Goto(t, label) /\ UNCHANGED loc
        \/ \E v : Set(t, [loc[t] EXCEPT !.left = v]) /\ UNCHANGED pc
        \/ \E v : Set(t, [loc[t] EXCEPT !.std = v]) /\ UNCHANGED pc
    BY <1>4 DEF PhysBlkAllocBlocks
  <2>3. /\ \A v : ~[loc[t] EXCEPT !.left = v].save
        /\ \A v : ~[loc[t] EXCEPT !.std = v].save
    BY <1>0, SaveKept
  <2>4. ASSUME NEW l, ~l.save, Set(t, l), UNCHANGED pc PROVE Calm(t)
    BY <1>1, <2>1, <2>4, JumpCalm
  <2>5. ASSUME NEW label \in {"map_fill", "map_fail"}, Goto(t, label), UNCHANGED loc PROVE Calm(t)
    BY <1>1, <2>1, <2>5, StayCalm
  <2> QED
    BY <2>2, <2>3, <2>4, <2>5
<1>5. CASE AllocBlocksFailed(t)
  BY <1>5, LeaveCalm DEF AllocBlocksFailed, Raising
<1>6. CASE FillFlashMap(t)
  <2>1. pc[t] \notin Raising /\ UNCHANGED <<tpr, loc>>
    BY <1>6 DEF FillFlashMap, Raising
  <2>2. PICK label \in {"map_copy", "access"} : Goto(t, label)
    BY <1>6 DEF FillFlashMap
  <2> QED
    BY <1>1, <2>1, <2>2, StayCalm
<1>7. CASE BiosApiCopyDataToMap(t)
  <2>1. pc[t] \notin Raising /\ UNCHANGED tpr
    BY <1>7 DEF BiosApiCopyDataToMap, Raising
  <2>2. PICK ok : Set(t, [loc[t] EXCEPT !.inOk = ok, !.k = 2]) /\ Goto(t, "map")
    BY <1>7 DEF BiosApiCopyDataToMap
  <2>3. ~[loc[t] EXCEPT !.inOk = ok, !.k = 2].save
    BY <1>0, SaveKept
  <2> QED
    BY <1>1, <2>1, <2>2, <2>3, JumpCalm
<1> QED
  BY <1>2, <1>3, <1>4, <1>5, <1>6, <1>7 DEF MapStep

LEMMA CleanUpCalm ==
  ASSUME NEW t \in Threads, TypeOK, PriorityInv(t), CleanUpStep(t)
  PROVE  Calm(t)
<1>0. loc[t] \in Locals /\ ~loc[t].save /\ \A v : ~[loc[t] EXCEPT !.k = v].save
  BY LocalsOf, SaveKept DEF TypeOK, PriorityInv
<1>1. {"free_map", "free_buf", "null_buf", "put"} \subseteq Pcs \ Raising
  BY DEF Pcs, Raising
<1>2. CASE FreeMap(t)
  <2>1. pc[t] = "free_map" /\ pc[t] \notin Raising /\ UNCHANGED tpr
    BY <1>2 DEF FreeMap, Raising
  <2>2. PICK v : Set(t, [loc[t] EXCEPT !.k = v]) /\ (UNCHANGED pc \/ Goto(t, "free_buf"))
    BY <1>2 DEF FreeMap
  <2> QED
    BY <1>0, <1>1, <2>1, <2>2, JumpCalm
<1>3. CASE FreeBuffer(t)
  BY <1>1, <1>3, StayCalm DEF FreeBuffer, Raising
<1>4. CASE ClearBuffer(t)
  <2>1. pc[t] \notin Raising /\ UNCHANGED tpr
    BY <1>4 DEF ClearBuffer, Raising
  <2>2. \/ \E v : Set(t, [loc[t] EXCEPT !.k = v]) /\ Goto(t, "free_buf")
        \/ Goto(t, "put") /\ UNCHANGED loc
        \/ Return(t)
    BY <1>4 DEF ClearBuffer
  <2> QED
    BY <1>0, <1>1, <2>1, <2>2, JumpCalm, StayCalm, ReturnCalm
<1>5. CASE PutStatus(t)
  BY <1>5, ReturnCalm DEF PutStatus, Raising
<1> QED
  BY <1>2, <1>3, <1>4, <1>5 DEF CleanUpStep

(* The BIOS call, from the access check to the answer.                        *)
LEMMA CallPriority ==
  ASSUME NEW t \in Threads, NEW c, CPUs = {c}, TypeOK, PriorityInv(t), CallStep(t)
  PROVE  PriorityInv(t)'
<1>0. loc[t] \in Locals /\ ~loc[t].save /\ tpr \in [CPUs -> BOOLEAN]
  BY LocalsOf DEF TypeOK, PriorityInv
<1>1. CASE BiosApiCheckAccess(t)
  <2>1. pc[t] \notin Raising /\ UNCHANGED tpr
    BY <1>1 DEF BiosApiCheckAccess, Raising
  <2>2. CASE Leave(t, "ACCESS_DENIED")
    BY <2>1, <2>2, LeaveCalm, CalmKeeps
  <2>3. CASE ~Leave(t, "ACCESS_DENIED")
    <3>1. PICK v : Set(t, [loc[t] EXCEPT !.reg = v]) /\ Goto(t, "bios_map")
      BY <1>1, <2>3 DEF BiosApiCheckAccess
    <3>2. ~[loc[t] EXCEPT !.reg = v].save /\ "bios_map" \in Pcs \ Raising
      BY <1>0, SaveKept DEF Pcs, Raising
    <3> QED
      BY <2>1, <3>1, <3>2, JumpCalm, CalmKeeps
  <2> QED
    BY <2>2, <2>3
<1>2. CASE BiosApiCall(t)
  <2>1. pc[t] = "bios_map" /\ pc[t] \notin Raising /\ UNCHANGED <<tpr, hdr>>
    BY <1>2 DEF BiosApiCall, Raising, info
  <2>2. CASE Leave(t, "ERROR")
    BY <2>1, <2>2, LeaveCalm, CalmKeeps
  <2>3. CASE Goto(t, IF hdr.old THEN "tpr" ELSE "exec") /\ UNCHANGED loc
    <3>1. pc'[t] = IF hdr.old THEN "tpr" ELSE "exec"
      BY <2>3, GotoAt
    <3>2. \A d \in CPUs : ~tpr[d]
      BY <2>1 DEF PriorityInv
    <3> QED
      BY <1>0, <2>1, <2>3, <3>1, <3>2 DEF PriorityInv
  <2> QED
    BY <1>2, <2>2, <2>3 DEF BiosApiCall
<1>3. CASE RaiseTaskPriority(t)
  <2>1. pc[t] = "tpr" /\ UNCHANGED hdr /\ hdr.old /\ \A d \in CPUs : ~tpr[d]
    BY <1>3 DEF RaiseTaskPriority, PriorityInv, info
  <2>2. CASE Goto(t, "exec") /\ UNCHANGED <<tpr, loc>>
    BY <1>0, <2>1, <2>2, GotoAt DEF PriorityInv
  <2>3. CASE Leave(t, "ERROR") /\ UNCHANGED tpr
    BY <2>1, <2>3, LeaveSaves DEF PriorityInv
  <2>4. ASSUME NEW d \in CPUs, Set(t, [loc[t] EXCEPT !.apic = TRUE, !.save = tpr[d]]), Goto(t, "exec")
        PROVE  PriorityInv(t)'
    <3>1. loc'[t] = [loc[t] EXCEPT !.apic = TRUE, !.save = tpr[d]] /\ pc'[t] = "exec"
      BY <2>4, GotoAt, SetAt
    <3>2. loc'[t].apic = TRUE /\ loc'[t].save = tpr[d]
      BY <1>0, <3>1 DEF Locals
    <3> QED
      BY <2>1, <3>1, <3>2 DEF PriorityInv
  <2> QED
    BY <1>3, <2>2, <2>3, <2>4 DEF RaiseTaskPriority
<1>4. CASE CallBios(t)
  <2>1. pc[t] = "exec" /\ pc'[t] = "bios" /\ UNCHANGED <<tpr, loc, hdr>>
    BY <1>4, GotoAt DEF CallBios, info
  <2> QED
    BY <2>1 DEF PriorityInv
<1>5. CASE BiosReturns(t)
  <2>1. pc'[t] = "copy_out" /\ UNCHANGED hdr /\ loc'[t] = [loc[t] EXCEPT !.ran = TRUE]
    BY <1>5, GotoAt, SetAt DEF BiosReturns, info
  <2>2. ~loc'[t].save
    BY <1>0, <2>1, SaveKept
  <2>3. ~tpr'[c]
    <3>1. CASE hdr.old /\ loc[t].apic
      BY <1>0, <1>5, <3>1 DEF BiosReturns, RestorePriority
    <3>2. CASE ~(hdr.old /\ loc[t].apic)
      BY <1>5, <3>2 DEF BiosReturns, PriorityInv
    <3> QED
      BY <3>1, <3>2
  <2> QED
    BY <2>1, <2>2, <2>3 DEF PriorityInv
<1>6. CASE CopyToUser(t)
  <2>1. pc[t] \notin Raising /\ UNCHANGED tpr /\ \E status : Leave(t, status)
    BY <1>6 DEF CopyToUser, Raising
  <2> QED
    BY <2>1, LeaveCalm, CalmKeeps
<1> QED
  BY <1>1, <1>2, <1>3, <1>4, <1>5, <1>6 DEF CallStep

(* On a machine with one processor no call leaves the task priority raised;   *)
(* with more, a task that moves restores it on another one.                   *)
THEOREM PriorityCorrect ==
  ASSUME NEW t, Threads = {t}, NEW c, CPUs = {c}
  PROVE  Spec => []PriorityRestored
<1>1. Init => PriorityInv(t)
  BY DEF Init, PriorityInv, NoCall
<1>2. TypeOK /\ PriorityInv(t) /\ [Next]_vars => PriorityInv(t)'
  <2> SUFFICES ASSUME TypeOK, PriorityInv(t), [Next]_vars PROVE PriorityInv(t)'
    OBVIOUS
  <2>1. CASE UNCHANGED vars
    BY <2>1 DEF PriorityInv, vars, info
  <2>2. CASE CallStep(t)
    BY <2>2, CallPriority
  <2>3. CASE Start(t) \/ OpenStep(t) \/ SetUpStep(t) \/ MapStep(t) \/ CleanUpStep(t)
    BY <2>3, StartCalm, OpenCalm, SetUpCalm, MapCalm, CleanUpCalm, CalmKeeps
  <2> QED
    BY <2>1, <2>2, <2>3 DEF Next, Step
<1>3. PriorityInv(t) => PriorityRestored
  BY DEF PriorityInv, PriorityRestored
<1> QED
  BY <1>1, <1>2, <1>3, TypeCorrect, PTL DEF Spec
=============================================================================
