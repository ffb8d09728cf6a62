------------------------------- MODULE SobGabi -------------------------------
(***************************************************************************)
(* The GABI driver sobgabi (firmware_update/fujitsu/src/sobgabi): module   *)
(* load, open, the ioctl IOCTL_DRV_GABI_CALL and unload.                   *)
(*                                                                         *)
(* A call owns its buffers and descriptor lists; calls share the entry     *)
(* point alone and never write it, so one call at a time stands for all.   *)
(* A step is the code between two places that can fail: an allocation, a   *)
(* copy from or to user space, the call into the BIOS.  Any of them may    *)
(* fail at any time.  What the code reads in user memory by itself, and    *)
(* not through copy_from_user, another thread of the caller may change or  *)
(* unmap between any two reads.  Sizes are in bytes; unsigned differences  *)
(* wrap at Modulus.                                                        *)
(***************************************************************************)
EXTENDS Sums

CONSTANTS
  InSizes,      (* values of InSize in DeviceIoctlParameter_T                 *)
  OutSizes,     (* values of OutSize                                          *)
  Counts,       (* values of a DataCount field                                *)
  UserChunks,   (* buffer descriptor lists of callers: sequences of sizes     *)
  HeaderSize,   (* sizeof(UEFI_GabiHeader_T)                                  *)
  IOSize,       (* sizeof(UEFI_GabiIO_T)                                      *)
  FieldSize,    (* 2: the field BufferSize the user does not pass             *)
  WriteOfs,     (* 0x14: the descriptors of a write request                   *)
  ReadOfs,      (* 0xc: the descriptors of a read response                    *)
  PageSize,     (* PAGE_SIZE: also the size of the In and Out buffers         *)
  MaxSpan,      (* PAGE_SIZE << (MAX_ORDER - 1)                               *)
  MaxSegs,      (* uMaxSegCount: places in a table of driver descriptors      *)
  Modulus       (* 2^32, the range of an unsigned                             *)

ASSUME SizesAssumption ==
  /\ InSizes \subseteq 0 .. Modulus - 1
  /\ OutSizes \subseteq 0 .. Modulus - 1
  /\ Counts \subseteq Nat
  /\ {HeaderSize, IOSize, FieldSize, WriteOfs, ReadOfs, PageSize, MaxSpan, MaxSegs, Modulus}
       \subseteq Nat \ {0}
  /\ FieldSize <= PageSize /\ PageSize <= MaxSpan
(* Even a full table of the largest pieces leaves an unsigned room for the    *)
(* headers: 255 pieces of 4 MB in the code.                                   *)
ASSUME TableAssumption ==
  (MaxSegs + 1) * MaxSpan + HeaderSize + IOSize + WriteOfs + ReadOfs < Modulus
ASSUME ChunksAssumption == \A c \in UserChunks : c \in Seq(Nat)

VARIABLES
  bios,         (* the BIOS has a valid GABI header                           *)
  loaded,       (* the module is in the kernel                                *)
  ep,           (* g_pEP is not NULL: the entry point, in a copy of the BIOS  *)
                (* code                                                       *)
  open,         (* the file: "closed", "open", or "stale": open in a driver   *)
                (* that has been unloaded                                     *)
  pc,           (* where the call stands                                      *)
  loc,          (* the locals of GabiExecute and of what it calls             *)
  heap,         (* the blocks the call has allocated                          *)
  fault         (* the first misuse of memory in this call                    *)

module == <<bios, loaded, ep, open>>
vars == <<module, pc, loc, heap, fault>>

Commands == {"FLASH_UPDATE", "FLASH_ARCHIVE", "READ_SYS_DATA", "WRITE_SYS_DATA",
             "OTHERS_UEFI", "UEFI_8205", "OTHERS"}
Buffers  == {"control", "in", "out"}
Sides    == {"in", "out"}

Min2(a, b) == IF a < b THEN a ELSE b
Minus(a, b) == (a - b) % Modulus

(* There: the pointer to the list is not NULL.  pieces: the driver            *)
(* descriptors in use.  ask: the bytes the list is for.                       *)
NoList == [there |-> FALSE, pieces |-> <<>>, ask |-> 0]

NoCall == [in |-> 0, out |-> 0, cmd |-> "OTHERS", answer |-> "OTHERS",
           desc |-> [b \in Buffers |-> "garbage"], list |-> [w \in Sides |-> NoList],
           side |-> "in", left |-> 0, seg |-> 0, again |-> FALSE, resp |-> 0,
           chunks |-> <<>>, moved |-> FALSE, u |-> 1, ou |-> 0, d |-> 1, od |-> 0,
           todo |-> 0, max |-> 0, wrote |-> 0, bytes |-> 0, rv |-> -1]

Set(label, locals) == pc' = label /\ loc' = locals
Fail == Set("cleanup", [loc EXCEPT !.rv = -1])
Goto(label) == pc' = label /\ UNCHANGED loc
Blame(bad, what) == fault' = IF bad /\ fault = "none" THEN what ELSE fault
Crash(what) == pc' = "crashed" /\ Blame(TRUE, what) /\ UNCHANGED <<loc, heap>>

-----------------------------------------------------------------------------
(* The module *)

(* locate_and_map_gabi: the scan, the mapping of the code and the memory for  *)
(* a copy of it, each of which can fail.                                      *)
LocateAndMap == \E map, mem \in BOOLEAN : ep' = (bios /\ map /\ mem)

(* A machine without GABI still gets its device; a failure to register        *)
(* leaves the copy behind, and the module out.                                *)
Load ==
  /\ ~loaded
  /\ \/ LocateAndMap /\ loaded' = TRUE
     \/ loaded' = FALSE /\ ep' = FALSE
  /\ UNCHANGED <<bios, open, pc, loc, heap, fault>>

(* The file operations name no owner, so nothing keeps the module in the      *)
(* kernel while a file is open.  A call that is running runs in freed memory, *)
(* an open file keeps pointing to it.                                         *)
Unload ==
  /\ loaded
  /\ loaded' = FALSE /\ ep' = FALSE
  /\ open' = IF open = "open" THEN "stale" ELSE open
  /\ \/ pc \in {"idle", "crashed"} /\ UNCHANGED <<pc, loc, heap, fault>>
     \/ pc \notin {"idle", "crashed"} /\ Crash("unloaded")
  /\ UNCHANGED bios

DrvOpen ==
  /\ loaded /\ open = "closed" /\ ep
  /\ open' = "open"
  /\ UNCHANGED <<bios, loaded, ep, pc, loc, heap, fault>>

DrvRelease ==
  /\ open = "open" /\ pc = "idle"
  /\ open' = "closed"
  /\ UNCHANGED <<bios, loaded, ep, pc, loc, heap, fault>>

(* Any system call for a stale file, the close at the exit of its process     *)
(* among them, goes through the operations of the module that is gone.        *)
UseStale ==
  /\ open = "stale" /\ pc = "idle"
  /\ Crash("unloaded")
  /\ UNCHANGED module

-----------------------------------------------------------------------------
(* The ioctl and the three buffers every call has *)

(* CheckRoot stands between the entry point and the call; a call that is too  *)
(* short for the headers returns at once.                                     *)
DrvGabiCall ==
  /\ open = "open" /\ pc = "idle" /\ ep
  /\ \E in \in InSizes, out \in OutSizes :
       /\ in >= HeaderSize /\ out >= HeaderSize
       /\ Set("control", [NoCall EXCEPT !.in = in, !.out = out])
  /\ fault' = "none"
  /\ UNCHANGED <<module, heap>>

AfterBuffer(b) == IF b = "control" THEN "in" ELSE IF b = "in" THEN "out" ELSE "header"

(* AllocateContiguousBuffer; the first failure ends the call.                 *)
AllocateContiguousBuffer(b) ==
  /\ pc = b
  /\ \/ /\ heap' = heap \union {<<b, 0>>}
        /\ Set(AfterBuffer(b), [loc EXCEPT !.desc[b] = "block"])
     \/ Set("cleanup", [loc EXCEPT !.desc[b] = "null"]) /\ UNCHANGED heap
  /\ UNCHANGED <<module, fault>>

(* The request header arrives; with it the command.                           *)
CopyHeader ==
  /\ pc = "header"
  /\ \/ \E c \in Commands : Set("setup", [loc EXCEPT !.cmd = c])
     \/ Fail
  /\ UNCHANGED <<module, heap, fault>>

-----------------------------------------------------------------------------
(* BuildDescriptorList and FreeBuffers *)

(* The table of list w is the block -1 of its side, piece k the block k.      *)
Blocks(w, n) == {<<w, k>> : k \in (1 .. n) \union {-1}}
Owned(w) == IF loc.list[w].there THEN Blocks(w, Len(loc.list[w].pieces)) ELSE {}

(* The table is full: behind its pieces there is no cleared place to end a    *)
(* loop over the list.                                                        *)
Unterminated(w) == Len(loc.list[w].pieces) >= MaxSegs

(* A loop that copies n bytes looks at a place before it looks at what is     *)
(* left, so it also looks behind the last piece it needs.                     *)
LooksBehind(w, n) == Unterminated(w) /\ n > SumTo(loc.list[w].pieces, MaxSegs - 1)

(* Begin a list of n bytes on side w.                                         *)
Build(w, n, locals) ==
  Set("table", [locals EXCEPT !.side = w, !.left = n, !.seg = n,
                              !.list[w] = [NoList EXCEPT !.ask = n]])

BuildTable ==
  /\ pc = "table"
  /\ \/ /\ heap' = heap \union {<<loc.side, -1>>}
        /\ Set("segment", [loc EXCEPT !.list[loc.side].there = TRUE])
     \/ Set("cleanup", [loc EXCEPT !.list[loc.side] = NoList]) /\ UNCHANGED heap
  /\ UNCHANGED <<module, fault>>

(* Mutant of Piece: the last piece is as large as the others.                 *)
WholePiece(seg, left) == seg
Piece(seg, left) == Min2(seg, left)

(* A piece is allocated and entered in the table; after the last one the list *)
(* is done.  The look at the number of pieces comes when the place is filled. *)
AllocateSegment ==
  /\ pc = "segment" /\ loc.left # 0
  /\ LET w == loc.side
         s == Piece(loc.seg, loc.left)
         n == Len(loc.list[w].pieces) + 1
     IN /\ s <= MaxSpan
        /\ heap' = heap \union {<<w, n>>}
        /\ loc' = [loc EXCEPT !.list[w].pieces = Append(@, s), !.left = @ - Min2(s, @)]
        /\ pc' = IF n > MaxSegs /\ s < loc.left THEN "unbuild" ELSE pc
        /\ Blame(n > MaxSegs, "past_table")
  /\ UNCHANGED module

PageAlign(n) == ((n + PageSize - 1) \div PageSize) * PageSize

(* Mutant of Half: there is no smallest size.                                 *)
AlwaysHalf(seg) == PageAlign(seg \div 2)

(* The next size to try; 0 when half of this one is less than a page.         *)
Half(seg) == IF seg \div 2 < PageSize THEN 0 ELSE PageAlign(seg \div 2)

(* my_kmalloc had no memory, or the span is too large for it.  The flip of    *)
(* again makes every attempt a step, also one at an unchanged size.           *)
HalveSegment ==
  /\ pc = "segment" /\ loc.left # 0
  /\ IF Half(loc.seg) = 0 THEN Goto("unbuild")
     ELSE loc' = [loc EXCEPT !.seg = Half(@), !.again = ~@] /\ UNCHANGED pc
  /\ UNCHANGED <<module, heap, fault>>

(* The blocks of the lists ws and others are freed; each list is followed to  *)
(* a place of size 0, which a full table does not have.                       *)
Release(blocks, ws) ==
  /\ heap' = heap \ blocks
  /\ Blame(~ blocks \subseteq heap \/ \E w \in ws : Unterminated(w),
           IF blocks \subseteq heap THEN "past_table" ELSE "double_free")

(* Mutant of FreeBuffers: the pieces are freed and the table is not.          *)
FreePieces(ws) == Release(UNION {Owned(w) \ {<<w, -1>>} : w \in ws}, ws)

FreeBuffers(ws) == Release(UNION {Owned(w) : w \in ws}, ws)

(* What lies behind a full table is taken for a piece unless its size is 0.   *)
RunPastTable(w) == Unterminated(w) /\ Crash("past_table") /\ UNCHANGED module

(* Mutant of ListFails: the list that was freed is returned.                  *)
FreedListReturned(w) == [loc EXCEPT !.rv = -1]

ListFails(w) == [loc EXCEPT !.rv = -1, !.list[w] = NoList]

Unbuild ==
  /\ pc = "unbuild"
  /\ \/ FreeBuffers({loc.side}) /\ Set("cleanup", ListFails(loc.side)) /\ UNCHANGED module
     \/ RunPastTable(loc.side)

Built ==
  /\ pc = "segment" /\ loc.left = 0
  /\ Goto(IF loc.side = "in" THEN "copy_in" ELSE "bios")
  /\ UNCHANGED <<module, heap, fault>>

-----------------------------------------------------------------------------
(* The set-up of a command *)

SetUp(cmds) == pc = "setup" /\ loc.cmd \in cmds

(* FLASH_UPDATE and FLASH_ARCHIVE are refused.                                *)
SetUpFlash ==
  /\ SetUp({"FLASH_UPDATE", "FLASH_ARCHIVE"})
  /\ Fail
  /\ UNCHANGED <<module, heap, fault>>

(* The fields up to DataCount are copied; the request list is built of the    *)
(* bytes behind them (OTHERS_UEFI) or of DataCount bytes (UEFI_8205).         *)
SetUpUefi ==
  /\ SetUp({"OTHERS_UEFI", "UEFI_8205"})
  /\ \/ Fail
     \/ /\ loc.in >= HeaderSize + IOSize /\ loc.out >= HeaderSize + IOSize
        /\ \E count \in Counts :
             LET n == IF loc.cmd = "UEFI_8205" THEN count % Modulus
                      ELSE loc.in - (HeaderSize + IOSize)
             IN IF count = 0 \/ (loc.cmd = "OTHERS_UEFI" /\ n = 0) THEN Goto("respond")
                ELSE Build("in", n, loc)
  /\ UNCHANGED <<module, heap, fault>>

(* The response list: the bytes behind the response, or those the caller's    *)
(* own DataCount asks for.                                                    *)
SetUpResponse ==
  /\ pc = "respond"
  /\ \/ loc.cmd = "UEFI_8205" /\ Fail
     \/ \E n \in IF loc.cmd = "UEFI_8205" THEN {c % Modulus : c \in Counts}
                 ELSE {loc.out - (HeaderSize + IOSize)} :
          LET locals == [loc EXCEPT !.resp = n]
          IN IF n = 0 THEN Set("bios", locals) ELSE Build("out", n, locals)
  /\ UNCHANGED <<module, heap, fault>>

(* Mutant of DataSize: the difference is signed.                              *)
SignedDataSize(size, ofs) == size - HeaderSize - ofs

DataSize(size, ofs) == Minus(size, HeaderSize + ofs)

(* READ_SYS_DATA, WRITE_SYS_DATA and OTHERS: the request is copied to the In  *)
(* buffer, less the field the user does not pass.  A request that ends inside *)
(* that field wraps the length, and the copy goes on to the end of what the   *)
(* user has mapped.                                                           *)
SetUpOther ==
  /\ SetUp({"READ_SYS_DATA", "WRITE_SYS_DATA", "OTHERS"})
  /\ LET n == Min2(loc.in - HeaderSize, PageSize)
     IN \/ Fail /\ UNCHANGED fault
        \/ n < FieldSize /\ Fail /\ Blame(TRUE, "overrun")
        \/ /\ n >= FieldSize
           /\ \/ loc.cmd = "WRITE_SYS_DATA" /\ Build("in", DataSize(loc.in, WriteOfs), loc)
              \/ loc.cmd = "READ_SYS_DATA" /\ Build("out", DataSize(loc.out, ReadOfs), loc)
              \/ loc.cmd = "OTHERS" /\ Goto("bios")
           /\ UNCHANGED fault
  /\ UNCHANGED <<module, heap>>

(* The data of the request go into the list.  The source WRITE_SYS_DATA names *)
(* is the kernel's In buffer, which copy_from_user refuses.                   *)
CopyFromUserToBuffers ==
  /\ pc = "copy_in" /\ loc.cmd # "UEFI_8205"
  /\ \/ Fail /\ UNCHANGED fault
     \/ /\ loc.cmd = "OTHERS_UEFI" /\ Goto("respond")
        /\ Blame(LooksBehind("in", loc.list["in"].ask), "past_table")
     \/ /\ loc.cmd = "WRITE_SYS_DATA" /\ loc.list["in"].ask = 0 /\ Goto("bios")
        /\ UNCHANGED fault
  /\ UNCHANGED <<module, heap>>

-----------------------------------------------------------------------------
(* The copies of UEFI_8205, between a list of user buffers and the list of    *)
(* the driver: CopyFromUserToBuffersEx and CopyFromBuffersToUserEx.  The      *)
(* user's list stays in user memory, and every turn reads it there.           *)

(* u, d: the buffers the copy has come to; ou, od: the bytes it has done of   *)
(* them; max: the bytes left of todo.                                         *)
Cursor(w, chunks, max, locals) ==
  Set("chunks", [locals EXCEPT !.side = w, !.chunks = chunks, !.moved = FALSE,
                               !.todo = max, !.max = max,
                               !.u = 1, !.ou = 0, !.d = 1, !.od = 0])

CopyInEx ==
  /\ pc = "copy_in" /\ loc.cmd = "UEFI_8205"
  /\ \E c \in UserChunks : Cursor("in", c, loc.list["in"].ask, loc)
  /\ UNCHANGED <<module, heap, fault>>

(* Another thread of the caller rewrites the list under the copy.  A turn     *)
(* that reads parts of two versions reads one the thread could have written.  *)
UserWrites ==
  /\ pc = "chunks"
  /\ \E c \in UserChunks \ {loc.chunks} : loc' = [loc EXCEPT !.chunks = c, !.moved = TRUE]
  /\ UNCHANGED <<module, pc, heap, fault>>

(* The list, or the DataCount of an answer, is read without copy_from_user    *)
(* and is not mapped.                                                         *)
UserFault ==
  /\ \/ pc = "chunks" /\ (loc.max # 0 \/ loc.side = "out")
     \/ pc = "answer" /\ loc.answer = "UEFI_8205"
  /\ Crash("user_memory")
  /\ UNCHANGED module

Pieces == loc.list[loc.side].pieces
AtEnd == loc.max = 0 \/ loc.u > Len(loc.chunks) \/ loc.d > Len(Pieces)

(* What is left of the two buffers.  A user buffer that has become smaller    *)
(* than what was done of it wraps, to more than any piece holds.              *)
Ru == IF loc.ou <= loc.chunks[loc.u] THEN loc.chunks[loc.u] - loc.ou ELSE Modulus
Rd == Pieces[loc.d] - loc.od

(* Mutant of NextUserBuffer: the offset is kept.                              *)
NextUserBufferKeepsOffset == loc' = [loc EXCEPT !.u = @ + 1]

NextUserBuffer   == loc' = [loc EXCEPT !.u = @ + 1, !.ou = 0]
NextDriverBuffer == loc' = [loc EXCEPT !.d = @ + 1, !.od = 0]

CopyChunk ==
  /\ pc = "chunks" /\ ~AtEnd
  /\ \/ Ru = 0 /\ NextUserBuffer /\ UNCHANGED pc
     \/ Ru # 0 /\ Rd = 0 /\ NextDriverBuffer /\ UNCHANGED pc
     \/ /\ Ru # 0 /\ Rd # 0
        /\ LET c == Min2(loc.max, Min2(Ru, Rd))
           IN loc' = [loc EXCEPT !.ou = @ + c, !.od = @ + c, !.max = @ - c]
        /\ UNCHANGED pc
     \/ Ru # 0 /\ Rd # 0 /\ Fail
  /\ UNCHANGED <<module, heap, fault>>

(* Something is left: the call fails.  The end of the driver's list is looked *)
(* for in its table also when that is full.                                   *)
BehindTable == loc.max # 0 /\ loc.u <= Len(loc.chunks) /\ Unterminated(loc.side)

(* BytesCount is DataCount, read from the user's response once more.          *)
Copied ==
  \/ loc.side = "in" /\ Goto("respond")
  \/ loc.side = "out" /\ \E c \in Counts :
       Set("cleanup", [loc EXCEPT !.rv = 0, !.bytes = c % Modulus])

ChunksDone ==
  /\ pc = "chunks" /\ AtEnd
  /\ \/ /\ \/ loc.max # 0 /\ Fail
           \/ (loc.max = 0 \/ BehindTable) /\ Copied
        /\ Blame(BehindTable, "past_table")
        /\ UNCHANGED <<module, heap>>
     \/ BehindTable /\ RunPastTable(loc.side)

-----------------------------------------------------------------------------
(* The BIOS and its answer *)

(* The BIOS runs on the control, In and Out buffers and may leave another     *)
(* command in the control buffer.  The answer begins with its header.         *)
CallBios ==
  /\ pc = "bios"
  /\ \/ \E c \in Commands :
          Set("answer", [loc EXCEPT !.answer = c, !.wrote = HeaderSize, !.bytes = HeaderSize])
     \/ Fail
  /\ UNCHANGED <<module, heap, fault>>

(* wrote: how far the user's response buffer has been written.                *)
Succeed(extent) ==
  Set("cleanup", [loc EXCEPT !.rv = 0, !.wrote = extent, !.bytes = extent % Modulus])

AnswerUefi ==
  /\ pc = "answer" /\ loc.answer = "OTHERS_UEFI"
  /\ \/ Fail /\ UNCHANGED fault
     \/ /\ Succeed(HeaderSize + IOSize + loc.resp)
        /\ Blame(LooksBehind("out", loc.resp), "past_table")
  /\ UNCHANGED <<module, heap>>

(* DataCount of the response is in user memory.  The macro _min reads it once *)
(* to compare and, when it is the smaller one, once more to use.              *)
Answer8205 ==
  /\ pc = "answer" /\ loc.answer = "UEFI_8205"
  /\ \/ Fail
     \/ /\ loc.list["out"].there
        /\ \E compared, used \in Counts, chunks \in UserChunks :
             Cursor("out", chunks,
                    IF loc.resp < compared THEN loc.resp ELSE used % Modulus,
                    [loc EXCEPT !.wrote = HeaderSize + IOSize])
     \/ /\ ~loc.list["out"].there
        /\ \E c \in Counts :
             Set("cleanup", [loc EXCEPT !.rv = 0, !.wrote = HeaderSize + IOSize, !.bytes = c % Modulus])
  /\ UNCHANGED <<module, heap, fault>>

(* The list is followed without a look whether it was built, or for as many   *)
(* bytes; behind a full table it may go on with whatever lies there.          *)
AnswerRead ==
  /\ pc = "answer" /\ loc.answer = "READ_SYS_DATA"
  /\ LET list == loc.list["out"]
         n == DataSize(loc.out, ReadOfs)
     IN \/ Fail /\ UNCHANGED <<module, heap, fault>>
        \/ /\ list.there
           /\ \/ Fail
              \/ (n <= list.ask \/ Unterminated("out")) /\ Succeed(HeaderSize + ReadOfs + n)
           /\ Blame(LooksBehind("out", n), "past_table")
           /\ UNCHANGED <<module, heap>>
        \/ list.there /\ n > list.ask /\ RunPastTable("out")
        \/ ~list.there /\ Crash("null_list") /\ UNCHANGED module

(* Mutant of AnswerSize: the whole Out buffer is returned.                    *)
WholeAnswer(out) == PageSize

AnswerSize(out) == Min2(out - HeaderSize, PageSize)

AnswerOther ==
  /\ pc = "answer" /\ loc.answer \notin {"OTHERS_UEFI", "UEFI_8205", "READ_SYS_DATA"}
  /\ Fail \/ Succeed(HeaderSize + AnswerSize(loc.out))
  /\ UNCHANGED <<module, heap, fault>>

-----------------------------------------------------------------------------
(* The end of a call *)

(* A descriptor that was never filled in holds what the stack held.           *)
CleanUp ==
  /\ pc = "cleanup"
  /\ \/ /\ Release(Owned("in") \union Owned("out")
                     \union {<<b, 0>> : b \in {b \in Buffers : loc.desc[b] = "block"}}, Sides)
        /\ pc' = "idle" /\ loc' = NoCall
        /\ UNCHANGED module
     \/ \E w \in Sides : RunPastTable(w)
     \/ (\E b \in Buffers : loc.desc[b] = "garbage") /\ Crash("wild_free") /\ UNCHANGED module

-----------------------------------------------------------------------------
Init ==
  /\ bios \in BOOLEAN
  /\ loaded = FALSE /\ ep = FALSE /\ open = "closed"
  /\ pc = "idle" /\ loc = NoCall /\ heap = {} /\ fault = "none"

CallStep ==
  \/ \E b \in Buffers : AllocateContiguousBuffer(b)
  \/ CopyHeader \/ BuildTable \/ AllocateSegment \/ HalveSegment \/ Unbuild \/ Built
  \/ SetUpFlash \/ SetUpUefi \/ SetUpResponse \/ SetUpOther
  \/ CopyFromUserToBuffers \/ CopyInEx \/ CopyChunk \/ ChunksDone \/ UserFault
  \/ CallBios \/ AnswerUefi \/ Answer8205 \/ AnswerRead \/ AnswerOther
  \/ CleanUp

Next ==
  \/ Load \/ Unload \/ DrvOpen \/ DrvRelease \/ UseStale
  \/ DrvGabiCall \/ CallStep \/ UserWrites

Spec == Init /\ [][Next]_vars

(* A call in progress goes on: nothing in it waits for another process.  The  *)
(* caller's other threads may write as often as they like.                    *)
FairSpec == Spec /\ WF_vars(CallStep)

-----------------------------------------------------------------------------
(* Properties *)

(* Every variable holds a value of its type: sizes are unsigned, a descriptor *)
(* is garbage, NULL or a block, the cursor of a copy stands in the driver's   *)
(* list or just behind, and the blocks are those a call can own.              *)
TypeOK ==
  /\ {bios, loaded, ep, loc.moved} \subseteq BOOLEAN /\ open \in {"closed", "open", "stale"}
  /\ pc \in {"idle", "control", "in", "out", "header", "setup", "table", "segment",
             "unbuild", "copy_in", "chunks", "respond", "bios", "answer", "cleanup", "crashed"}
  /\ {loc.in, loc.out, loc.left, loc.seg, loc.resp, loc.max, loc.bytes} \subseteq 0 .. Modulus - 1
  /\ {loc.cmd, loc.answer} \subseteq Commands
  /\ \A b \in Buffers : loc.desc[b] \in {"garbage", "null", "block"}
  /\ pc = "chunks" => loc.d \in 1 .. Len(Pieces) + 1 /\ loc.todo \in 0 .. Modulus - 1
  /\ heap \subseteq {<<b, k>> : b \in Buffers, k \in -1 .. MaxSegs + 1}
  /\ fault \in {"none", "overrun", "past_table", "double_free", "wild_free", "null_list",
                "user_memory", "unloaded"}

(* Who is to blame for a misuse of memory.  No fragmentation of the memory    *)
(* makes a list of at most MaxSegs - 1 pages run past its table (240-286);    *)
(* the garbage in a descriptor is freed only when a buffer could not be had   *)
(* (451-457, 687-689); a request too short for its first field, a BIOS that   *)
(* turns another command into READ_SYS_DATA (625), a caller of UEFI_8205 that *)
(* unmaps its memory (319-333, 649, 655) and an administrator who unloads the *)
(* driver under a file do the rest.  Nothing is ever freed twice.             *)
Explained ==
  /\ fault' = "past_table"  => \E w \in Sides : loc.list[w].ask > (MaxSegs - 1) * PageSize
  /\ fault' = "wild_free"   => \E b \in Buffers : loc.desc[b] = "null"
  /\ fault' = "overrun"     => loc.in < HeaderSize + FieldSize
  /\ fault' = "null_list"   => loc.cmd # "READ_SYS_DATA" /\ loc.answer = "READ_SYS_DATA"
  /\ fault' = "user_memory" => "UEFI_8205" \in {loc.cmd, loc.answer}
  /\ fault' = "unloaded"    => open # "closed"
  /\ fault' # "double_free"

FaultsExplained == [][fault' # fault => Explained]_vars

(* A call that has returned owns nothing, whatever failed in it; a call that  *)
(* is running has what its descriptors and lists say it has.                  *)
BlocksAccounted ==
  pc # "crashed" =>
    heap = Owned("in") \union Owned("out")
             \union {<<b, 0>> : b \in {b \in Buffers : loc.desc[b] = "block"}}

(* When the BIOS runs, each list holds exactly the bytes asked for, in pieces *)
(* my_kmalloc can return, none of them empty.                                 *)
ListsHoldTheData ==
  pc = "bios" =>
    \A w \in Sides : loc.list[w].there =>
      /\ Total(loc.list[w].pieces) = loc.list[w].ask
      /\ \A k \in DOMAIN loc.list[w].pieces : loc.list[w].pieces[k] \in 1 .. MaxSpan

(* Whatever the caller's other threads do to its list, the bytes done in the  *)
(* driver's pieces and the bytes left make up the bytes asked for, and the    *)
(* copy has not left the piece it stands in.  If they leave the list alone    *)
(* the caller's side stands at the same byte.                                 *)
CursorsAgree ==
  pc = "chunks" =>
    /\ SumTo(Pieces, loc.d - 1) + loc.od + loc.max = loc.todo
    /\ loc.d <= Len(Pieces) => loc.od <= Pieces[loc.d]
    /\ ~loc.moved =>
         /\ SumTo(loc.chunks, loc.u - 1) + loc.ou + loc.max = loc.todo
         /\ loc.u <= Len(loc.chunks) => loc.ou <= loc.chunks[loc.u]

(* As long as the BIOS keeps the command, a call that succeeds has not        *)
(* written behind the caller's OutSize bytes, and BytesCount of every command *)
(* but UEFI_8205 says how far it has written.                                 *)
AnswerFits ==
  pc = "cleanup" /\ loc.rv = 0 /\ loc.answer = loc.cmd =>
    /\ loc.wrote <= loc.out
    /\ loc.cmd # "UEFI_8205" => loc.bytes = loc.wrote

(* gabi.c:284 "pMyDescr was cleared so no need for terminating": behind the   *)
(* last piece of a finished list there is a cleared place of the table.       *)
ListTerminated ==
  pc = "bios" => \A w \in Sides : loc.list[w].there => Len(loc.list[w].pieces) < MaxSegs

(* Every call ends, or dies of one of the misuses above.                      *)
CallsReturn == pc # "idle" ~> pc \in {"idle", "crashed"}
=============================================================================
