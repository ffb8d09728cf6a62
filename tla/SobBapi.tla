------------------------------- MODULE SobBapi -------------------------------
(***************************************************************************)
(* The Fujitsu BIOS-API driver sobbapi (firmware_update/fujitsu/src/       *)
(* sobbapi): open, release and the IOCTL_DRV_BAPI_CALL ioctl over the one  *)
(* g_BApiInfo that every opener shares without a lock.                     *)
(*                                                                         *)
(* A thread runs one system call at a time; a step is the code between two *)
(* places where the kernel may sleep or another CPU may come in (ioremap,  *)
(* an allocation, a copy to or from user space, the BIOS call), so two     *)
(* threads interleave at those places.  A block of memory is named by its  *)
(* identity: Virtual and Physical of a descriptor are two fields that hold *)
(* it, and v2m() is the step that sets the second from the first.          *)
(***************************************************************************)
EXTENDS Integers, Sequences, Sums

CONSTANTS
  Threads,      (* tasks that use the device                                  *)
  Files,        (* struct file slots                                          *)
  CPUs,         (* processors, each with its own task priority register       *)
  Blocks,       (* pieces of kernel memory my_kmalloc can hand out            *)
  NoBlock,      (* the NULL pointer, and the physical address 0               *)
  CtlSizes,     (* sizes of a caller's control buffers                        *)
  DataSizes,    (* sizes of a caller's data buffers                           *)
  UseMap,       (* which values of ulUseMap callers pass                      *)
  MinCtl,       (* MIN_CTL_BUF_LENGTH                                         *)
  ListSize,     (* ulMapSize: the size of a BIOS_API_FLASH_MAP                *)
  MaxSpan,      (* PAGE_SIZE << (MAX_ORDER - 1)                               *)
  MaxBlock,     (* KMALLOC_MAX_BLOCK_SIZE                                     *)
  SmallBlock,   (* 4096: block sizes above it are halved on failure           *)
  HeaderLen,    (* 0x70: the BUP header                                       *)
  MaxItems,     (* MAX_PHYS_MEM_MAP_ENTIES                                    *)
  Machines      (* the API headers the F-segment may hold                     *)

ASSUME NoBlockAssumption == NoBlock \notin Blocks
ASSUME SizesAssumption ==
  /\ CtlSizes \subseteq Nat
  /\ DataSizes \subseteq Nat
  /\ UseMap \subseteq BOOLEAN
  /\ {MinCtl, ListSize, MaxSpan, MaxBlock, SmallBlock, HeaderLen, MaxItems}
       \subseteq Nat \ {0}

(* header: there is one with a good checksum; ofs: it names an entry point;   *)
(* old: its version is 1.01 or older.                                         *)
ASSUME MachinesAssumption ==
  Machines \subseteq {m \in [header : BOOLEAN, ofs : BOOLEAN, old : BOOLEAN] :
                        ~m.header => ~m.ofs /\ ~m.old}

VARIABLES
  bios,         (* the machine: which API header its F-segment holds          *)
  segBase,      (* g_pucBiosSegBase is not NULL                               *)
  hdr,          (* usApi64Ofs # 0 and usVersion <= 0x0101 of g_BApiInfo       *)
  required,     (* g_BApiInfo.ulRequired                                      *)
  maxBlock,     (* g_BApiInfo.ulMaxBlockSize                                  *)
  buf,          (* ApiCtrl, ApiDataOut and ApiDataIn of g_BApiInfo            *)
  map,          (* MapIn and MapOut of g_BApiInfo                             *)
  heap,         (* size of each allocated block, 0 for a free one             *)
  list,         (* the flash map written into a block                         *)
  files,        (* open files                                                 *)
  tpr,          (* each CPU's task priority register: raised or not           *)
  fault,        (* the first misuse of memory, "none" while there is none     *)
  pc, loc       (* where each thread is, and its local variables              *)

info  == <<hdr, required, maxBlock>>
mem   == <<heap, list, fault>>
vars  == <<bios, segBase, info, buf, map, mem, files, tpr, pc, loc>>

-----------------------------------------------------------------------------
(* Data *)

Bufs == {"ctrl", "out", "in"}
Maps == {"in", "out"}

(* The order of BiosApiCtrlBuffersAlloc and of BiosApiCtrlBuffersFree.        *)
BufOrder == <<"ctrl", "out", "in">>
(* The order of BiosApiControl and of BiosApiCleanUp.                         *)
MapOrder == <<"in", "out">>

Pointer     == Blocks \union {NoBlock}
AddressInfo == [virt : Pointer, phys : Pointer, span : Nat]
ItemList    == Seq(AddressInfo)
PhysMapList == [items : ItemList, total : Nat]
FlashMap    == Seq([addr : Pointer, len : Nat])
NoAddress   == [virt |-> NoBlock, phys |-> NoBlock, span |-> 0]
NoItems     == [items |-> <<>>, total |-> 0]
NoHeader    == [ofs |-> FALSE, old |-> TRUE]

Status == {"READY", "ERROR", "INSUFFICIENT_RESOURCES", "ACCESS_DENIED"}

Pcs == {"idle", "oops",
        "open_map", "open_clear", "open_read", "open_test",
        "args", "again_map", "again_clear", "again_read", "sig", "block",
        "ctl", "ctl_get", "copy_ctl", "copy_in",
        "map", "map_init", "map_loop", "map_fail", "map_fill", "map_copy", "access",
        "bios_map", "tpr", "exec", "bios", "copy_out",
        "free_map", "free_buf", "null_buf", "put"}

(* Where k counts the two maps; elsewhere it counts the three buffers.        *)
MapPcs == {"map", "map_init", "map_loop", "map_fill", "map_copy", "free_map"}

Min2(a, b) == IF a < b THEN a ELSE b
Max2(a, b) == IF a < b THEN b ELSE a

Locals == [call : {"none", "open", "ioctl", "release"}, file : Files \union {NoBlock},
           ctl : Nat, in : Nat, out : Nat, map : BOOLEAN, root : BOOLEAN,
           k : {1, 2, 3}, ptr : Pointer, left : Nat, std : Nat,
           reg : [Bufs -> Pointer], save : BOOLEAN, apic : BOOLEAN,
           inOk : BOOLEAN, ran : BOOLEAN, st : Status]

NoCall == [call |-> "none", file |-> NoBlock, ctl |-> 0, in |-> 0, out |-> 0,
           map |-> FALSE, root |-> FALSE, k |-> 1, ptr |-> NoBlock, left |-> 0,
           std |-> 0, reg |-> [b \in Bufs |-> NoBlock], save |-> FALSE,
           apic |-> FALSE, inOk |-> FALSE, ran |-> FALSE, st |-> "ERROR"]

(* The caller's ulSzDataIn or ulSzDataOut.                                    *)
SizeOf(t, m) == IF m = "in" THEN loc[t].in ELSE loc[t].out

(* Bytes this call needs behind a descriptor of g_BApiInfo: with ulUseMap the *)
(* two data buffers hold flash maps.                                          *)
Need(t, b) == IF b = "ctrl" THEN loc[t].ctl
              ELSE IF loc[t].map THEN ListSize
              ELSE SizeOf(t, b)

-----------------------------------------------------------------------------
(* Steps of a thread *)

Goto(t, label) == pc' = [pc EXCEPT ![t] = label]
Set(t, locals) == loc' = [loc EXCEPT ![t] = locals]

Return(t) == Goto(t, "idle") /\ Set(t, NoCall)

(* Mutant of Leave: an early exit that skips the cleanup.                      *)
LeaveUnclean(t, status) ==
  /\ Goto(t, IF status = "READY" THEN "free_map" ELSE "put")
  /\ Set(t, [loc[t] EXCEPT !.st = status, !.k = 1])

(* Leave_SkipCall: every exit of BiosApiControl cleans up first.              *)
Leave(t, status) ==
  /\ Goto(t, "free_map")
  /\ Set(t, [loc[t] EXCEPT !.st = status, !.k = 1])

(* The kernel kills the task: a NULL pointer was written through.             *)
Oops(t) == Goto(t, "oops") /\ UNCHANGED loc

(* Blocks that my_kmalloc(n) can return.                                      *)
Allocatable(n) == IF n = 0 \/ n > MaxSpan THEN {} ELSE {b \in Blocks : heap[b] = 0}

Allocate(b, n) ==
  /\ heap' = [heap EXCEPT ![b] = n]
  /\ list' = [list EXCEPT ![b] = <<>>]

Blame(bad, what) == fault' = IF bad /\ fault = "none" THEN what ELSE fault

(* n bytes are written to or read from the block p.                           *)
Touch(p, n) == Blame(p # NoBlock /\ heap[p] < n, "overrun")

(* my_kfree of each of the blocks: no two descriptors of a list share one.    *)
FreeAll(blocks) ==
  /\ heap' = [b \in Blocks |-> IF b \in blocks THEN 0 ELSE heap[b]]
  /\ list' = [b \in Blocks |-> IF b \in blocks THEN <<>> ELSE list[b]]
  /\ Blame(\E b \in blocks : heap[b] = 0, "double_free")

(* The blocks PhysBlkFreeBlock hands to my_kfree, and what it leaves: the     *)
(* physical address stays.                                                    *)
Held(a)    == IF a.virt # NoBlock /\ a.span # 0 THEN {a.virt} ELSE {}

(* Mutant of Cleared: the descriptor is not reset.                            *)
NotCleared(a) == a

Cleared(a) == [a EXCEPT !.virt = NoBlock, !.span = 0]

HeldBy(m) == UNION {Held(map[m].items[i]) : i \in DOMAIN map[m].items}

(* Mutant of PhysBlkReleaseAllBlocks: the list is reset and its blocks stay.    *)
ForgetBlocks(m) == map' = [map EXCEPT ![m] = NoItems] /\ UNCHANGED mem

PhysBlkReleaseAllBlocks(m) ==
  /\ FreeAll(HeldBy(m))
  /\ map' = [map EXCEPT ![m] = NoItems]

-----------------------------------------------------------------------------
(* DrvOpen *)

Busy(f) == \E t \in Threads : loc[t].file = f

DrvOpen(t) ==
  /\ pc[t] = "idle"
  /\ \E f \in Files \ files :
       /\ ~Busy(f)
       /\ Set(t, [NoCall EXCEPT !.call = "open", !.file = f])
  /\ Goto(t, IF segBase THEN "open_test" ELSE "open_map")
  /\ UNCHANGED <<bios, segBase, info, buf, map, mem, files, tpr>>

(* ioremap; a failure is reported to the log only.                            *)
OpenMap(t) ==
  /\ pc[t] = "open_map"
  /\ segBase' \in BOOLEAN
  /\ Goto(t, "open_clear")
  /\ UNCHANGED <<bios, info, buf, map, mem, files, tpr, loc>>

ClearInfo ==
  /\ hdr' = NoHeader
  /\ required' = 0
  /\ maxBlock' = 0
  /\ buf' = [b \in Bufs |-> NoAddress]
  /\ map' = [m \in Maps |-> NoItems]

OpenClear(t) ==
  /\ pc[t] = "open_clear"
  /\ ClearInfo
  /\ Goto(t, "open_read")
  /\ UNCHANGED <<bios, segBase, mem, files, tpr, loc>>

(* BiosApiReadInfo: the scan of the segment finds a header with a good        *)
(* checksum or leaves the information as it was.                              *)
BiosApiReadInfo == hdr' = IF bios.header THEN [ofs |-> bios.ofs, old |-> bios.old] ELSE hdr

OpenRead(t) ==
  /\ pc[t] = "open_read"
  /\ \/ segBase /\ BiosApiReadInfo /\ Goto(t, "open_test") /\ UNCHANGED loc
     \/ ~segBase /\ Oops(t) /\ UNCHANGED hdr
  /\ UNCHANGED <<bios, segBase, required, maxBlock, buf, map, mem, files, tpr>>

(* Mutant of OpenTest: the entry point is not looked at.                      *)
OpenAnyway(t) ==
  /\ pc[t] = "open_test"
  /\ files' = files \union {loc[t].file}
  /\ Return(t)
  /\ UNCHANGED <<bios, segBase, info, buf, map, mem, tpr>>

(* -ENODEV without an entry point.                                            *)
OpenTest(t) ==
  /\ pc[t] = "open_test"
  /\ files' = IF hdr.ofs THEN files \union {loc[t].file} ELSE files
  /\ Return(t)
  /\ UNCHANGED <<bios, segBase, info, buf, map, mem, tpr>>

-----------------------------------------------------------------------------
(* DrvRelease: the kernel calls it for the last reference to a file, so no    *)
(* ioctl is in progress on that file.                                         *)

DrvRelease(t) ==
  /\ pc[t] = "idle"
  /\ \E f \in files :
       /\ ~Busy(f)
       /\ files' = files \ {f}
       /\ Set(t, [NoCall EXCEPT !.call = "release", !.file = f])
  /\ Goto(t, "free_map")
  /\ UNCHANGED <<bios, segBase, info, buf, map, mem, tpr>>

-----------------------------------------------------------------------------
(* DrvBapiCall *)

(* The caller's request.  Whether it is let in is decided by DrvBapiCall.     *)
DrvDispatchIoctl(t) ==
  /\ pc[t] = "idle"
  /\ \E f \in files, in, out \in DataSizes, useMap \in UseMap, root \in BOOLEAN :
       Set(t, [NoCall EXCEPT !.call = "ioctl", !.file = f, !.in = in, !.out = out,
                             !.map = useMap, !.root = root])
  /\ Goto(t, "args")
  /\ UNCHANGED <<bios, segBase, info, buf, map, mem, files, tpr>>

(* -EFAULT when the request cannot be read, -EINVAL for a short control       *)
(* buffer; the first caller to see no mapping tries again to set it up.       *)
DrvBapiCall(t) ==
  /\ pc[t] = "args"
  /\ \/ Return(t)
     \/ \E ctlIn, ctlOut \in CtlSizes :
          \/ (ctlIn < MinCtl \/ ctlOut < MinCtl) /\ Return(t)
          \/ /\ ctlIn >= MinCtl /\ ctlOut >= MinCtl
             /\ Set(t, [loc[t] EXCEPT !.ctl = Max2(ctlIn, ctlOut)])
             /\ Goto(t, IF segBase THEN "sig" ELSE "again_map")
  /\ UNCHANGED <<bios, segBase, info, buf, map, mem, files, tpr>>

AgainMap(t) ==
  /\ pc[t] = "again_map"
  /\ \/ segBase' = TRUE /\ Goto(t, "again_clear") /\ UNCHANGED loc
     \/ segBase' = FALSE /\ Return(t)
  /\ UNCHANGED <<bios, info, buf, map, mem, files, tpr>>

AgainClear(t) ==
  /\ pc[t] = "again_clear"
  /\ ClearInfo
  /\ Goto(t, "again_read")
  /\ UNCHANGED <<bios, segBase, mem, files, tpr, loc>>

AgainRead(t) ==
  /\ pc[t] = "again_read"
  /\ \/ ~segBase /\ Oops(t) /\ UNCHANGED <<segBase, hdr>>
     \/ /\ segBase
        /\ BiosApiReadInfo
        /\ \/ bios.header /\ Goto(t, "sig") /\ UNCHANGED <<segBase, loc>>
           \/ ~bios.header /\ segBase' = FALSE /\ Return(t)
  /\ UNCHANGED <<bios, required, maxBlock, buf, map, mem, files, tpr>>

(* put_user of the status: 0 or -EFAULT to the caller.                        *)
PutStatus(t) ==
  /\ pc[t] = "put"
  /\ Return(t)
  /\ UNCHANGED <<bios, segBase, info, buf, map, mem, files, tpr>>

-----------------------------------------------------------------------------
(* BiosApiControl: the sizes and the three descriptors *)

ReadSignature(t) ==
  /\ pc[t] = "sig"
  /\ required' = Max2(loc[t].in, loc[t].out)
  /\ \/ Leave(t, "ERROR")
     \/ Goto(t, IF loc[t].map THEN "block" ELSE "ctl") /\ UNCHANGED loc
  /\ UNCHANGED <<bios, segBase, hdr, maxBlock, buf, map, mem, files, tpr>>

SetMaxBlockSize(t) ==
  /\ pc[t] = "block"
  /\ maxBlock' = Min2(required, MaxBlock)
  /\ Goto(t, "ctl")
  /\ UNCHANGED <<bios, segBase, hdr, required, buf, map, mem, files, tpr, loc>>

(* Mutants of NextBuffer: one buffer too many, and the last two forgotten.    *)
NextBufferPastEnd(t) ==
  IF loc[t].k <= 3
  THEN Goto(t, "ctl") /\ Set(t, [loc[t] EXCEPT !.k = @ + 1])
  ELSE Goto(t, "copy_ctl") /\ UNCHANGED loc

CtrlBufferOnly(t) == Goto(t, "copy_ctl") /\ UNCHANGED loc

(* To the next of the three buffers.                                          *)
NextBuffer(t) ==
  IF loc[t].k < 3
  THEN Goto(t, "ctl") /\ Set(t, [loc[t] EXCEPT !.k = @ + 1])
  ELSE Goto(t, "copy_ctl") /\ UNCHANGED loc

(* A buffer of size 0 is freed, a large enough one is kept, another is freed  *)
(* before a new one is asked for.                                             *)
BiosApiCtrlBufferAlloc(t) ==
  LET b == BufOrder[loc[t].k]
      n == Need(t, b)
      Free == FreeAll(Held(buf[b])) /\ buf' = [buf EXCEPT ![b] = Cleared(@)]
  IN /\ pc[t] = "ctl"
     /\ \/ n = 0 /\ Free /\ NextBuffer(t)
        \/ /\ n > 0 /\ buf[b].virt # NoBlock /\ buf[b].span >= n
           /\ NextBuffer(t)
           /\ UNCHANGED <<buf, mem>>
        \/ /\ n > 0 /\ buf[b].virt # NoBlock /\ buf[b].span < n
           /\ Free
           /\ Goto(t, "ctl_get") /\ UNCHANGED loc
        \/ /\ n > 0 /\ buf[b].virt = NoBlock
           /\ Goto(t, "ctl_get")
           /\ UNCHANGED <<buf, mem, loc>>
     /\ UNCHANGED <<bios, segBase, info, map, files, tpr>>

CtrlBufferGet(t) ==
  LET b == BufOrder[loc[t].k]
      n == Need(t, b)
  IN /\ pc[t] = "ctl_get"
     /\ \/ \E new \in Allocatable(n) :
             /\ Allocate(new, n)
             /\ buf' = [buf EXCEPT ![b] = [virt |-> new, phys |-> new, span |-> n]]
             /\ NextBuffer(t)
        \/ /\ buf' = [buf EXCEPT ![b].virt = NoBlock]
           /\ Leave(t, "INSUFFICIENT_RESOURCES")
           /\ UNCHANGED <<heap, list>>
     /\ UNCHANGED <<bios, segBase, info, map, fault, files, tpr>>

CopyCtrlFromUser(t) ==
  /\ pc[t] = "copy_ctl"
  /\ Touch(buf["ctrl"].virt, loc[t].ctl)
  /\ \/ Leave(t, "ERROR")
     \/ /\ buf["ctrl"].virt # NoBlock
        /\ IF loc[t].map
           THEN Goto(t, "map") /\ Set(t, [loc[t] EXCEPT !.k = 1])
           ELSE Goto(t, "copy_in") /\ UNCHANGED loc
  /\ UNCHANGED <<bios, segBase, info, buf, map, heap, list, files, tpr>>

(* Without a map the data is one block; no data is a complete copy.           *)
CopyDataFromUser(t) ==
  /\ pc[t] = "copy_in"
  /\ \/ /\ loc[t].in > 0
        /\ Touch(buf["in"].virt, loc[t].in)
        /\ Leave(t, "ERROR")
     \/ /\ loc[t].in > 0 => buf["in"].virt # NoBlock
        /\ Touch(buf["in"].virt, loc[t].in)
        /\ Goto(t, "access")
        /\ Set(t, [loc[t] EXCEPT !.inOk = TRUE])
  /\ UNCHANGED <<bios, segBase, info, buf, map, heap, list, files, tpr>>

-----------------------------------------------------------------------------
(* BiosApiControl: the two memory maps (BiosApiAllocBlocks, PhysBlkAllocBlocks) *)

MapOf(t)    == MapOrder[loc[t].k]
DataSize(t) == SizeOf(t, MapOf(t))

(* The flash map's length is stored through the descriptor's pointer, which   *)
(* the call keeps.  Blocks of an earlier allocation are used again if they    *)
(* suffice.                                                                   *)
BiosApiAllocBlocks(t) ==
  LET p == buf[MapOf(t)].virt
  IN /\ pc[t] = "map"
     /\ \/ /\ p = NoBlock
           /\ Oops(t)
           /\ UNCHANGED <<map, mem>>
        \/ /\ p # NoBlock
           /\ Set(t, [loc[t] EXCEPT !.ptr = p])
           /\ \/ /\ DataSize(t) > map[MapOf(t)].total
                 /\ PhysBlkReleaseAllBlocks(MapOf(t))
                 /\ Goto(t, "map_init")
              \/ /\ DataSize(t) <= map[MapOf(t)].total
                 /\ Touch(p, ListSize)
                 /\ Goto(t, "map_fill")
                 /\ UNCHANGED <<map, heap, list>>
     /\ UNCHANGED <<bios, segBase, info, buf, files, tpr>>

PhysBlkInit(t) ==
  /\ pc[t] = "map_init"
  /\ map' = [map EXCEPT ![MapOf(t)] = NoItems]
  /\ Set(t, [loc[t] EXCEPT !.left = DataSize(t), !.std = maxBlock])
  /\ Goto(t, "map_loop")
  /\ UNCHANGED <<bios, segBase, info, buf, mem, files, tpr>>

(* Mutant of BlockSize: the header shares a block.                            *)
NoHeaderBlock(items, left, std) == Min2(std, left)

(* The size of the next block: the BUP header gets a block of its own when    *)
(* one block cannot hold everything.                                          *)
BlockSize(items, left, std) ==
  IF left > std /\ items = <<>> THEN Min2(HeaderLen, left) ELSE Min2(std, left)

(* Mutant of Smaller: the same size is tried again.                           *)
SameSize(std) == std

Smaller(std) == std \div 2

(* One turn of the loop.  A failed allocation halves the block size while it  *)
(* is above SmallBlock, and otherwise undoes all allocations.                 *)
PhysBlkAllocBlocks(t) ==
  LET m == MapOf(t)
      n == BlockSize(map[m].items, loc[t].left, loc[t].std)
  IN /\ pc[t] = "map_loop"
     /\ \/ /\ loc[t].left = 0 \/ Len(map[m].items) >= MaxItems
           /\ Goto(t, "map_fill")
           /\ UNCHANGED <<map, mem, loc>>
        \/ /\ loc[t].left > 0 /\ Len(map[m].items) < MaxItems
           /\ \/ \E new \in Allocatable(n) :
                   /\ Allocate(new, n)
                   /\ map' = [map EXCEPT ![m] =
                        [items |-> Append(@.items, [virt |-> new, phys |-> new, span |-> n]),
                         total |-> @.total + n]]
                   /\ Set(t, [loc[t] EXCEPT !.left = @ - n])
                   /\ UNCHANGED <<pc, fault>>
              \/ /\ loc[t].std > SmallBlock
                 /\ Set(t, [loc[t] EXCEPT !.std = Smaller(@)])
                 /\ UNCHANGED <<map, mem, pc>>
              \/ /\ loc[t].std <= SmallBlock
                 /\ PhysBlkReleaseAllBlocks(m)
                 /\ Goto(t, "map_fail") /\ UNCHANGED loc
     /\ UNCHANGED <<bios, segBase, info, buf, files, tpr>>

(* The flash map's length is stored after a failure, too.                     *)
AllocBlocksFailed(t) ==
  /\ pc[t] = "map_fail"
  /\ Touch(loc[t].ptr, ListSize)
  /\ Leave(t, "INSUFFICIENT_RESOURCES")
  /\ UNCHANGED <<bios, segBase, info, buf, map, heap, list, files, tpr>>

Cluster(item) == [addr |-> item.phys, len |-> item.span]

(* The list of the blocks goes into the flash map, with a terminator.         *)
FillFlashMap(t) ==
  LET items == map[MapOf(t)].items
  IN /\ pc[t] = "map_fill"
     /\ Touch(loc[t].ptr, ListSize)
     /\ list' = [list EXCEPT ![loc[t].ptr] =
                   [i \in DOMAIN items |-> Cluster(items[i])]]
     /\ Goto(t, IF MapOf(t) = "in" THEN "map_copy" ELSE "access")
     /\ UNCHANGED <<bios, segBase, info, buf, map, heap, files, tpr, loc>>

(* The outcome of the copy is not looked at: the status variable is           *)
(* overwritten by the allocation of the output map.  No input pointer counts  *)
(* as a failure here, and so does a map too small for the data.               *)
BiosApiCopyDataToMap(t) ==
  /\ pc[t] = "map_copy"
  /\ Blame(\E i \in DOMAIN map["in"].items :
             heap[map["in"].items[i].virt] < map["in"].items[i].span, "overrun")
  /\ \E ok \in BOOLEAN :
       /\ ok => map["in"].total >= loc[t].in
       /\ loc[t].in = 0 => ok
       /\ Set(t, [loc[t] EXCEPT !.inOk = ok, !.k = 2])
  /\ Goto(t, "map")
  /\ UNCHANGED <<bios, segBase, info, buf, map, heap, list, files, tpr>>

-----------------------------------------------------------------------------
(* BiosApiControl and BiosApiCall: the call into the BIOS *)

(* Mutant of BiosApiCheckAccess: every caller is let in.                      *)
NoAccessCheck(t) ==
  /\ pc[t] = "access"
  /\ Set(t, [loc[t] EXCEPT !.reg = [b \in Bufs |-> buf[b].phys]])
  /\ Goto(t, "bios_map")
  /\ UNCHANGED <<bios, segBase, info, buf, map, mem, files, tpr>>

(* The physical addresses are passed by value.                                *)
BiosApiCheckAccess(t) ==
  /\ pc[t] = "access"
  /\ \/ ~loc[t].root /\ Leave(t, "ACCESS_DENIED")
     \/ /\ loc[t].root
        /\ Set(t, [loc[t] EXCEPT !.reg = [b \in Bufs |-> buf[b].phys]])
        /\ Goto(t, "bios_map")
  /\ UNCHANGED <<bios, segBase, info, buf, map, mem, files, tpr>>

BiosApiCall(t) ==
  /\ pc[t] = "bios_map"
  /\ \/ Leave(t, "ERROR")
     \/ Goto(t, IF hdr.old THEN "tpr" ELSE "exec") /\ UNCHANGED loc
  /\ UNCHANGED <<bios, segBase, info, buf, map, mem, files, tpr>>

(* With an APIC, an old API is called with the task priority raised on the    *)
(* CPU the task runs on.                                                      *)
RaiseTaskPriority(t) ==
  /\ pc[t] = "tpr"
  /\ \/ Goto(t, "exec") /\ UNCHANGED <<tpr, loc>>
     \/ Leave(t, "ERROR") /\ UNCHANGED tpr
     \/ \E c \in CPUs :
          /\ Set(t, [loc[t] EXCEPT !.apic = TRUE, !.save = tpr[c]])
          /\ tpr' = [tpr EXCEPT ![c] = TRUE]
          /\ Goto(t, "exec")
  /\ UNCHANGED <<bios, segBase, info, buf, map, mem, files>>

(* The code is copied to executable memory, an allocation that may sleep,     *)
(* and called.                                                                *)
CallBios(t) ==
  /\ pc[t] = "exec"
  /\ Blame(~hdr.ofs, "wild_call")
  /\ Goto(t, "bios")
  /\ UNCHANGED <<bios, segBase, info, buf, map, heap, list, files, tpr, loc>>

(* Mutant of RestorePriority: only a raised priority is restored.             *)
RestoreRaised(t) == \E c \in CPUs : tpr' = [tpr EXCEPT ![c] = loc[t].save \/ @]

RestorePriority(t) == \E c \in CPUs : tpr' = [tpr EXCEPT ![c] = loc[t].save]

(* The BIOS returns, and the priority is restored on the CPU the task now     *)
(* runs on.                                                                   *)
BiosReturns(t) ==
  /\ pc[t] = "bios"
  /\ IF hdr.old /\ loc[t].apic THEN RestorePriority(t) ELSE UNCHANGED tpr
  /\ Set(t, [loc[t] EXCEPT !.ran = TRUE])
  /\ Goto(t, "copy_out")
  /\ UNCHANGED <<bios, segBase, info, buf, map, mem, files>>

CopyToUser(t) ==
  /\ pc[t] = "copy_out"
  /\ \/ /\ Touch(buf["ctrl"].virt, loc[t].ctl)
        /\ Leave(t, "ERROR")
     \/ /\ buf["ctrl"].virt # NoBlock
        /\ Blame(\/ heap[buf["ctrl"].virt] < loc[t].ctl
                 \/ /\ ~loc[t].map /\ buf["out"].virt # NoBlock
                    /\ heap[buf["out"].virt] < loc[t].out
                 \/ /\ loc[t].map
                    /\ \E i \in DOMAIN map["out"].items :
                         heap[map["out"].items[i].virt] < map["out"].items[i].span,
                 "overrun")
        /\ Leave(t, "READY")
  /\ UNCHANGED <<bios, segBase, info, buf, map, heap, list, files, tpr>>

-----------------------------------------------------------------------------
(* BiosApiCleanUp, at the end of an ioctl and in DrvRelease *)

FreeMap(t) ==
  /\ pc[t] = "free_map"
  /\ PhysBlkReleaseAllBlocks(MapOf(t))
  /\ IF loc[t].k = 1
     THEN Set(t, [loc[t] EXCEPT !.k = 2]) /\ UNCHANGED pc
     ELSE Set(t, [loc[t] EXCEPT !.k = 1]) /\ Goto(t, "free_buf")
  /\ UNCHANGED <<bios, segBase, info, buf, files, tpr>>

(* PhysBlkFreeBlock in two steps: another thread may come between.            *)
FreeBuffer(t) ==
  /\ pc[t] = "free_buf"
  /\ FreeAll(Held(buf[BufOrder[loc[t].k]]))
  /\ Goto(t, "null_buf")
  /\ UNCHANGED <<bios, segBase, info, buf, map, files, tpr, loc>>

ClearBuffer(t) ==
  /\ pc[t] = "null_buf"
  /\ buf' = [buf EXCEPT ![BufOrder[loc[t].k]] = Cleared(@)]
  /\ \/ /\ loc[t].k < 3
        /\ Set(t, [loc[t] EXCEPT !.k = @ + 1])
        /\ Goto(t, "free_buf")
     \/ /\ loc[t].k = 3 /\ loc[t].call = "ioctl"
        /\ Goto(t, "put")
        /\ UNCHANGED loc
     \/ /\ loc[t].k = 3 /\ loc[t].call = "release"
        /\ Return(t)
  /\ UNCHANGED <<bios, segBase, info, map, mem, files, tpr>>

-----------------------------------------------------------------------------
Init ==
  /\ bios \in Machines
  /\ segBase = FALSE
  /\ hdr = NoHeader
  /\ required = 0
  /\ maxBlock = 0
  /\ buf = [b \in Bufs |-> NoAddress]
  /\ map = [m \in Maps |-> NoItems]
  /\ heap = [b \in Blocks |-> 0]
  /\ list = [b \in Blocks |-> <<>>]
  /\ files = {}
  /\ tpr = [c \in CPUs |-> FALSE]
  /\ fault = "none"
  /\ pc = [t \in Threads |-> "idle"]
  /\ loc = [t \in Threads |-> NoCall]

(* What user space may start.                                                 *)
Start(t) == DrvOpen(t) \/ DrvRelease(t) \/ DrvDispatchIoctl(t)

OpenStep(t) == OpenMap(t) \/ OpenClear(t) \/ OpenRead(t) \/ OpenTest(t)

SetUpStep(t) ==
  \/ DrvBapiCall(t) \/ AgainMap(t) \/ AgainClear(t) \/ AgainRead(t)
  \/ ReadSignature(t) \/ SetMaxBlockSize(t)
  \/ BiosApiCtrlBufferAlloc(t) \/ CtrlBufferGet(t)
  \/ CopyCtrlFromUser(t) \/ CopyDataFromUser(t)

MapStep(t) ==
  \/ BiosApiAllocBlocks(t) \/ PhysBlkInit(t) \/ PhysBlkAllocBlocks(t)
  \/ AllocBlocksFailed(t) \/ FillFlashMap(t) \/ BiosApiCopyDataToMap(t)

CallStep(t) ==
  \/ BiosApiCheckAccess(t) \/ BiosApiCall(t) \/ RaiseTaskPriority(t)
  \/ CallBios(t) \/ BiosReturns(t) \/ CopyToUser(t)

CleanUpStep(t) == FreeMap(t) \/ FreeBuffer(t) \/ ClearBuffer(t) \/ PutStatus(t)

(* What the kernel runs to the end of the system call.                        *)
Step(t) ==
  OpenStep(t) \/ SetUpStep(t) \/ MapStep(t) \/ CallStep(t) \/ CleanUpStep(t)

Next == \E t \in Threads : Start(t) \/ Step(t)

Spec == Init /\ [][Next]_vars

(* A task in the kernel keeps running: nothing in the driver waits.           *)
FairSpec == Spec /\ \A t \in Threads : WF_vars(Step(t))

-----------------------------------------------------------------------------
InfoType ==
  /\ bios \in Machines
  /\ segBase \in BOOLEAN
  /\ hdr \in [ofs : BOOLEAN, old : BOOLEAN]
  /\ required \in Nat
  /\ maxBlock \in Nat
  /\ buf \in [Bufs -> AddressInfo]
  /\ map \in [Maps -> PhysMapList]

MemType ==
  /\ heap \in [Blocks -> Nat]
  /\ list \in [Blocks -> FlashMap]
  /\ fault \in {"none", "overrun", "double_free", "wild_call"}

ThreadType ==
  /\ pc \in [Threads -> Pcs]
  /\ loc \in [Threads -> Locals]
  /\ \A t \in Threads : pc[t] \in MapPcs => loc[t].k \in {1, 2}

(* The type invariant, with what keeps MapOf of a thread one of the two maps. *)
TypeOK ==
  /\ InfoType
  /\ MemType
  /\ ThreadType
  /\ files \subseteq Files
  /\ tpr \in [CPUs -> BOOLEAN]

-----------------------------------------------------------------------------
(* Properties of calls that follow one another (one thread).                  *)

(* Memory: no block is written or read beyond its size or after it was freed, *)
(* none is freed twice, and no code without an entry point is called.  This   *)
(* is about every copy of BiosApiControl and every my_kfree.                  *)
NoMisuse == fault = "none"

(* Whatever step of a call failed, BiosApiCleanUp has given back every block  *)
(* when the call is over.                                                     *)
NothingHeld == (\A t \in Threads : pc[t] = "idle") => \A b \in Blocks : heap[b] = 0

(* While the BIOS runs, every buffer the request asks for is allocated, is at *)
(* least as large as the request says, and is no other of its buffers.        *)
BuffersFit ==
  \A t \in Threads : pc[t] = "bios" =>
    \A b \in Bufs : Need(t, b) > 0 =>
      /\ loc[t].reg[b] # NoBlock
      /\ heap[loc[t].reg[b]] >= Need(t, b)
      /\ \A c \in Bufs \ {b} : Need(t, c) > 0 => loc[t].reg[c] # loc[t].reg[b]

Lengths(l) == Total([i \in DOMAIN l |-> l[i].len])

(* While the BIOS runs, each flash map lists allocated blocks, none twice,    *)
(* with their sizes, and they hold the data unless the list is full; with     *)
(* several blocks the first one is just the BUP header.                       *)
FlashMapTrue ==
  \A t \in Threads : pc[t] = "bios" /\ loc[t].map =>
    \A m \in Maps : LET l == list[loc[t].reg[m]] IN
      /\ \A i \in DOMAIN l : heap[l[i].addr] = l[i].len
      /\ \A i, j \in DOMAIN l : i # j => l[i].addr # l[j].addr
      /\ Lengths(l) = SizeOf(t, m) \/ Len(l) = MaxItems
      /\ Len(l) > 1 => l[1].len = HeaderLen

(* In the middle of a call, too, no block is lost: a descriptor or a map      *)
(* leads to each allocated one, and a map under construction holds just what  *)
(* has been taken off the bytes still to allocate.                            *)
BlocksAccounted ==
  /\ \A b \in Blocks : heap[b] > 0 =>
       b \in UNION ({Held(buf[c]) : c \in Bufs} \union {HeldBy(m) : m \in Maps})
  /\ \A t \in Threads :
       pc[t] = "map_loop" => loc[t].left + map[MapOf(t)].total = DataSize(t)

(* Outside the BIOS call no CPU keeps its task priority raised.               *)
PriorityRestored ==
  (\A t \in Threads : pc[t] \notin {"exec", "bios"}) => \A c \in CPUs : ~tpr[c]

(* A file is open only while the segment is mapped and an entry point known.  *)
OpenHasEntry == files # {} => segBase /\ hdr.ofs

-----------------------------------------------------------------------------
(* Properties of any number of threads.                                       *)

(* A file can be opened only on a machine whose BIOS has the API.             *)
OpenNeedsApi == files # {} => bios.ofs

(* Every system call returns, or the kernel kills the task: the halving of    *)
(* block sizes and the loops over shared lists end.                           *)
CallsReturn == \A t \in Threads : pc[t] # "idle" ~> pc[t] \in {"idle", "oops"}

(* The ioctl as its callers see it.                                           *)
PhaseOf(t) ==
  IF loc[t].call # "ioctl" THEN "idle"
  ELSE CASE pc[t] = "oops" -> "dead"
         [] pc[t] = "copy_out" -> "executed"
         [] pc[t] \in {"free_map", "free_buf", "null_buf", "put"} -> "answered"
         [] OTHER -> "asked"

AnswerOf(t) == IF PhaseOf(t) = "answered" THEN loc[t].st ELSE "ERROR"

Service == INSTANCE BapiService WITH
  phase  <- [t \in Threads |-> PhaseOf(t)],
  root   <- [t \in Threads |-> loc[t].root],
  answer <- [t \in Threads |-> AnswerOf(t)]

ServiceSpec == Service!Spec

-----------------------------------------------------------------------------
(* What comments in the code say and the code does not do.                    *)

(* "all sizes may be 0": a descriptor for which nothing is needed hands the   *)
(* BIOS no memory, or memory the driver holds.                                *)
NoStaleAddress ==
  \A t \in Threads : pc[t] = "bios" =>
    \A b \in Bufs : loc[t].reg[b] # NoBlock => heap[loc[t].reg[b]] > 0

(* The control buffer "may be randomly used by the BIOS services as a scratch *)
(* buffer": it is big enough for as long as the BIOS runs.                    *)
ScratchBigEnough ==
  \A t \in Threads : pc[t] = "bios" /\ loc[t].reg["ctrl"] # NoBlock =>
    heap[loc[t].reg["ctrl"]] >= MinCtl

(* DRV_READY: the input data the BIOS worked on is the caller's.  A failed    *)
(* copy to the map returns DRV_ERROR ("ERROR on copying data from user        *)
(* space").                                                                   *)
InputComplete ==
  \A t \in Threads : pc[t] = "put" /\ loc[t].st = "READY" => loc[t].inOk

=============================================================================
