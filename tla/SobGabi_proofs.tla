---------------------------- MODULE SobGabi_proofs ----------------------------
(***************************************************************************)
(* Proofs about the GABI driver, for any sizes and any lists of the caller:*)
(* what a call allocates it owns until it frees it, every misuse of memory *)
(* has one of the causes named, the lists hold the bytes that were asked   *)
(* for, and the answer fits the caller's buffer.                           *)
(***************************************************************************)
EXTENDS SobGabi, Sums_proofs

-----------------------------------------------------------------------------
(* The file *)

(* A call runs only as long as its file is open, if only in a driver that is  *)
(* gone.                                                                      *)
FileInv ==
  /\ {loaded, ep} \subseteq BOOLEAN
  /\ open \in {"closed", "open", "stale"}
  /\ pc \notin {"idle", "crashed"} => open # "closed"

(* A step of a call leaves the module alone and begins only in a call.        *)
LEMMA CallStepModule ==
  ASSUME CallStep
  PROVE  UNCHANGED module /\ pc \notin {"idle", "crashed"}
<1>1. CASE \E b \in Buffers : AllocateContiguousBuffer(b)
  BY <1>1 DEF AllocateContiguousBuffer, Buffers
<1>2. CASE CopyHeader \/ BuildTable \/ AllocateSegment \/ HalveSegment \/ Built
  BY <1>2 DEF CopyHeader, BuildTable, AllocateSegment, HalveSegment, Built
<1>3. CASE Unbuild
  BY <1>3 DEF Unbuild, RunPastTable
<1>4. CASE SetUpFlash \/ SetUpUefi \/ SetUpResponse \/ SetUpOther
  BY <1>4 DEF SetUpFlash, SetUpUefi, SetUpResponse, SetUpOther, SetUp
<1>5. CASE CopyFromUserToBuffers \/ CopyInEx \/ CopyChunk \/ ChunksDone
  BY <1>5 DEF CopyFromUserToBuffers, CopyInEx, CopyChunk, ChunksDone, RunPastTable
<1>6. CASE CallBios \/ AnswerUefi \/ Answer8205 \/ AnswerOther
  BY <1>6 DEF CallBios, AnswerUefi, Answer8205, AnswerOther
<1>7. CASE AnswerRead
  BY <1>7 DEF AnswerRead, RunPastTable
<1>8. CASE CleanUp
  BY <1>8 DEF CleanUp, RunPastTable
<1>9. CASE UserFault
  BY <1>9 DEF UserFault
<1> QED
  BY <1>1, <1>2, <1>3, <1>4, <1>5, <1>6, <1>7, <1>8, <1>9 DEF CallStep

LEMMA FileNext == ASSUME FileInv, [Next]_vars PROVE FileInv'
<1>1. CASE UNCHANGED vars
  BY <1>1 DEF FileInv, vars, module
<1>2. CASE Load
  <2>1. ep' \in BOOLEAN /\ loaded' \in BOOLEAN
    BY <1>2 DEF Load, LocateAndMap
  <2> QED
    BY <1>2, <2>1 DEF FileInv, Load
<1>3. CASE Unload
  BY <1>3 DEF FileInv, Unload, Crash
<1>4. CASE DrvOpen
  BY <1>4 DEF FileInv, DrvOpen
<1>5. CASE DrvRelease
  BY <1>5 DEF FileInv, DrvRelease
<1>6. CASE UseStale
  BY <1>6 DEF FileInv, UseStale, Crash, module
<1>7. CASE DrvGabiCall
  BY <1>7 DEF FileInv, DrvGabiCall, module
<1>8. CASE CallStep
  BY <1>8, CallStepModule DEF FileInv, module
<1>9. CASE UserWrites
  BY <1>9 DEF FileInv, UserWrites, module
<1> QED
  BY <1>1, <1>2, <1>3, <1>4, <1>5, <1>6, <1>7, <1>8, <1>9 DEF Next

-----------------------------------------------------------------------------
(* What a call owns *)

(* The locals are a record with these fields.                                 *)
Lists == [there : BOOLEAN, pieces : Seq(Int), ask : Int]
Locals(l) ==
  [in : Nat, out : Nat, cmd : Commands, answer : Commands,
   desc : [Buffers -> {"garbage", "null", "block"}], list : [Sides -> Lists],
   side : Sides, left : Int, seg : Int, again : {l.again}, resp : {l.resp},
   chunks : {l.chunks}, moved : BOOLEAN, u : {l.u}, ou : {l.ou}, d : {l.d}, od : {l.od},
   todo : {l.todo}, max : {l.max}, wrote : {l.wrote}, bytes : {l.bytes},
   rv : {l.rv}]

There(l, w) == l.list[w].there
OwnedIn(l, w) == IF There(l, w) THEN Blocks(w, Len(l.list[w].pieces)) ELSE {}
Held(l) == OwnedIn(l, "in") \union OwnedIn(l, "out")
             \union {<<b, 0>> : b \in {b \in Buffers : l.desc[b] = "block"}}

Early == {"idle", "control", "in", "out", "header", "setup"}
Late  == {"header", "setup", "table", "segment", "unbuild", "copy_in", "chunks", "respond",
          "bios", "answer"}

(* Which lists there are at each place of a call: one that is begun was not   *)
(* there, and when the BIOS is to read data there is a list for them.         *)
ListsAt(p, l) ==
  /\ p \in Early => ~There(l, "in") /\ ~There(l, "out")
  /\ p = "respond" => ~There(l, "out") /\ l.cmd \in {"OTHERS_UEFI", "UEFI_8205"}
  /\ p = "copy_in" => ~There(l, "out") /\ l.cmd # "READ_SYS_DATA"
  /\ p = "chunks" /\ l.side = "in" => ~There(l, "out") /\ l.cmd = "UEFI_8205"
  /\ p = "chunks" /\ l.side = "out" => l.answer = "UEFI_8205"
  /\ p = "table" => ~There(l, l.side) /\ l.list[l.side].pieces = <<>>
  /\ p \in {"segment", "unbuild"} => There(l, l.side)
  /\ p \in {"table", "segment", "unbuild"} /\ l.side = "in" =>
       ~There(l, "out") /\ l.cmd # "READ_SYS_DATA"
  /\ p \in {"bios", "answer"} /\ l.cmd = "READ_SYS_DATA" => There(l, "out")

(* The three buffers are allocated in order; a descriptor that was not filled *)
(* in comes after one that could not be.                                      *)
BuffersAt(p, l) ==
  /\ p = "idle" => \A b \in Buffers : l.desc[b] # "block"
  /\ p = "control" => \A b \in Buffers : l.desc[b] = "garbage"
  /\ p = "in" => l.desc["control"] = "block" /\ l.desc["in"] = "garbage"
                 /\ l.desc["out"] = "garbage"
  /\ p = "out" => l.desc["control"] = "block" /\ l.desc["in"] = "block"
                  /\ l.desc["out"] = "garbage"
  /\ p \in Late => \A b \in Buffers : l.desc[b] = "block"
  /\ p = "cleanup" /\ (\E b \in Buffers : l.desc[b] = "garbage") =>
       \E b \in Buffers : l.desc[b] = "null"

OwnInv ==
  /\ loc \in Locals(loc)
  /\ pc \in Early \union Late \union {"cleanup", "crashed"}
  /\ pc # "crashed" => heap = Held(loc)
  /\ ListsAt(pc, loc)
  /\ BuffersAt(pc, loc)

LEMMA NoCallOwns == NoCall \in Locals(NoCall) /\ Held(NoCall) = {} /\ ListsAt("idle", NoCall)
                    /\ BuffersAt("idle", NoCall)
<1>1. NoCall \in Locals(NoCall)
  BY DEF NoCall, Locals, NoList, Lists, Sides, Buffers, Commands
<1>2. /\ \A w \in Sides : ~There(NoCall, w)
      /\ \A b \in Buffers : NoCall.desc[b] = "garbage"
  BY DEF NoCall, NoList, There, Sides
<1>3. Held(NoCall) = {}
  BY <1>2 DEF Held, OwnedIn, Sides
<1> QED
  BY <1>1, <1>2, <1>3 DEF ListsAt, BuffersAt, Early, Late, Sides

LEMMA OwnInit == Init => OwnInv
BY NoCallOwns DEF Init, OwnInv, Early

(* What is held depends on the descriptors and the lists alone.               *)
LEMMA HeldSame ==
  ASSUME NEW l, NEW m, m.desc = l.desc, m.list = l.list
  PROVE  Held(m) = Held(l) /\ \A w \in Sides : There(m, w) = There(l, w)
BY DEF Held, OwnedIn, There

(* A step that allocates and frees nothing keeps the accounts.                *)
LEMMA KeepOwn ==
  ASSUME OwnInv, pc # "crashed", heap' = heap,
         loc'.desc = loc.desc, loc'.list = loc.list, loc' \in Locals(loc'),
         pc' \in Early \union Late \union {"cleanup"},
         ListsAt(pc', loc'), BuffersAt(pc', loc')
  PROVE  OwnInv'
BY HeldSame DEF OwnInv, ListsAt, BuffersAt, Locals, Held, OwnedIn, There

LEMMA FailOwn ==
  ASSUME OwnInv, pc \in Late, Fail, heap' = heap
  PROVE  OwnInv'
<1>1. pc' = "cleanup" /\ loc' = [loc EXCEPT !.rv = -1]
  BY DEF Fail, Set
<1>2. loc' \in Locals(loc') /\ loc'.desc = loc.desc /\ loc'.list = loc.list
  BY <1>1 DEF OwnInv, Locals
<1>3. ListsAt(pc', loc')
  BY <1>1 DEF ListsAt, Early
<1>4. BuffersAt(pc', loc')
  BY <1>1, <1>2 DEF OwnInv, BuffersAt, Late
<1> QED
  BY <1>1, <1>2, <1>3, <1>4, KeepOwn DEF Late

(* A list replaced by another one.                                            *)
WithList(l, w, new) == [l EXCEPT !.list = [l.list EXCEPT ![w] = new]]

LEMMA ListSet ==
  ASSUME NEW l, l \in Locals(l), NEW w \in Sides, NEW new \in Lists
  PROVE  LET m == WithList(l, w, new)
         IN /\ m \in Locals(m) /\ m.desc = l.desc /\ m.side = l.side /\ m.cmd = l.cmd
            /\ m.left = l.left
            /\ m.list[w] = new /\ \A v \in Sides \ {w} : m.list[v] = l.list[v]
<1> DEFINE m == WithList(l, w, new)
           lists == [l.list EXCEPT ![w] = new]
<1>1. lists \in [Sides -> Lists]
  BY DEF Locals
<1>2. lists[w] = new /\ \A v \in Sides \ {w} : lists[v] = l.list[v]
  BY DEF Locals
<1>3. m = [l EXCEPT !.list = lists]
  BY DEF WithList
<1> HIDE DEF lists, m
<1>4. m \in Locals(m) /\ m.desc = l.desc /\ m.side = l.side /\ m.cmd = l.cmd
      /\ m.left = l.left /\ m.list = lists
  BY <1>1, <1>3 DEF Locals
<1> QED
  BY <1>2, <1>4 DEF m

LEMMA SideSet ==
  ASSUME NEW l, l \in Locals(l), NEW w \in Sides
  PROVE  LET m == [l EXCEPT !.side = w]
         IN m \in Locals(m) /\ m.desc = l.desc /\ m.list = l.list /\ m.cmd = l.cmd /\ m.side = w
<1> DEFINE m == [l EXCEPT !.side = w]
<1>1. m = [l EXCEPT !.side = w]
  OBVIOUS
<1> HIDE DEF m
<1>2. m \in Locals(m)
  BY <1>1 DEF Locals
<1>3. m.side = w
  BY <1>1 DEF Locals
<1>4. m.desc = l.desc /\ m.list = l.list /\ m.cmd = l.cmd
  BY <1>1 DEF Locals
<1> QED
  BY <1>2, <1>3, <1>4 DEF m

LEMMA NoListOK == NoList \in Lists /\ ~NoList.there /\ NoList.pieces = <<>>
BY DEF NoList, Lists

(* The allocations *)

LEMMA BufferOwn ==
  ASSUME OwnInv, NEW b \in Buffers, AllocateContiguousBuffer(b)
  PROVE  OwnInv' /\ UNCHANGED fault
<1>0. pc = b /\ loc \in Locals(loc) /\ heap = Held(loc)
  BY DEF AllocateContiguousBuffer, OwnInv, Buffers
<1>1. CASE heap' = heap \union {<<b, 0>>} /\ Set(AfterBuffer(b), [loc EXCEPT !.desc[b] = "block"])
  <2>1. loc' \in Locals(loc') /\ loc'.list = loc.list
        /\ loc'.desc = [loc.desc EXCEPT ![b] = "block"]
    BY <1>0, <1>1 DEF Set, Locals
  <2>2. loc'.desc[b] = "block" /\ \A c \in Buffers \ {b} : loc'.desc[c] = loc.desc[c]
    BY <1>0, <2>1 DEF Locals
  <2>3. heap' = Held(loc')
    BY <1>0, <1>1, <2>1, <2>2 DEF Held, OwnedIn, There
  <2>4. ListsAt(pc', loc')
    BY <1>0, <1>1, <2>1 DEF OwnInv, ListsAt, There, Set, AfterBuffer, Buffers, Early
  <2>5. BuffersAt(pc', loc')
    BY <1>0, <1>1, <2>2 DEF OwnInv, BuffersAt, Set, AfterBuffer, Buffers, Late
  <2> QED
    BY <1>0, <1>1, <2>1, <2>3, <2>4, <2>5
       DEF OwnInv, AllocateContiguousBuffer, Set, AfterBuffer, Buffers, Early, Late
<1>2. CASE Set("cleanup", [loc EXCEPT !.desc[b] = "null"]) /\ UNCHANGED heap
  <2>1. loc' \in Locals(loc') /\ loc'.list = loc.list
        /\ loc'.desc = [loc.desc EXCEPT ![b] = "null"]
    BY <1>0, <1>2 DEF Set, Locals
  <2>2. loc'.desc[b] = "null" /\ \A c \in Buffers \ {b} : loc'.desc[c] = loc.desc[c]
    BY <1>0, <2>1 DEF Locals
  <2>3. loc.desc[b] # "block"
    BY <1>0 DEF OwnInv, BuffersAt, Buffers
  <2>4. heap' = Held(loc')
    BY <1>0, <1>2, <2>1, <2>2, <2>3 DEF Held, OwnedIn, There
  <2>5. ListsAt(pc', loc') /\ BuffersAt(pc', loc')
    BY <1>2, <2>2 DEF ListsAt, BuffersAt, Set, Early, Late
  <2> QED
    BY <1>2, <2>1, <2>4, <2>5 DEF OwnInv, AllocateContiguousBuffer, Set
<1> QED
  BY <1>1, <1>2 DEF AllocateContiguousBuffer

LEMMA TableOwn == ASSUME OwnInv, BuildTable PROVE OwnInv' /\ UNCHANGED fault
<1> DEFINE w == loc.side
<1>0. /\ pc = "table" /\ loc \in Locals(loc) /\ heap = Held(loc) /\ w \in Sides
      /\ ~There(loc, w) /\ loc.list[w].pieces = <<>>
  BY DEF BuildTable, OwnInv, ListsAt, Locals
<1>1. CASE /\ heap' = heap \union {<<w, -1>>}
           /\ Set("segment", [loc EXCEPT !.list[w].there = TRUE])
  <2> DEFINE new == [loc.list[w] EXCEPT !.there = TRUE]
  <2>0. new \in Lists /\ new.there = TRUE /\ new.pieces = <<>>
    <3>1. loc.list[w] \in Lists
      BY <1>0 DEF Locals
    <3> QED
      BY <1>0, <3>1 DEF Lists
  <2>1. loc' = WithList(loc, w, new) /\ pc' = "segment"
    BY <1>1 DEF Set, WithList
  <2> HIDE DEF new
  <2>2. /\ loc' \in Locals(loc') /\ loc'.desc = loc.desc /\ loc'.side = w /\ loc'.cmd = loc.cmd
        /\ loc'.list[w].there = TRUE /\ loc'.list[w].pieces = <<>>
        /\ \A v \in Sides \ {w} : loc'.list[v] = loc.list[v]
    BY <1>0, <2>0, <2>1, ListSet
  <2>3. OwnedIn(loc', w) = {<<w, -1>>} /\ OwnedIn(loc, w) = {}
        /\ \A v \in Sides \ {w} : OwnedIn(loc', v) = OwnedIn(loc, v)
    <3>1. Blocks(w, 0) = {<<w, -1>>} /\ Len(<<>>) = 0
      BY DEF Blocks
    <3> QED
      BY <1>0, <2>2, <3>1 DEF OwnedIn, There
  <2>4. heap' = Held(loc')
    BY <1>0, <1>1, <2>2, <2>3 DEF Held, Sides
  <2>5. ListsAt(pc', loc')
    BY <1>0, <2>1, <2>2 DEF OwnInv, ListsAt, There, Early, Sides
  <2>6. BuffersAt(pc', loc')
    BY <1>0, <2>1, <2>2 DEF OwnInv, BuffersAt, Late
  <2> QED
    BY <2>1, <2>2, <2>4, <2>5, <2>6 DEF OwnInv, BuildTable, Late
<1>2. CASE Set("cleanup", [loc EXCEPT !.list[w] = NoList]) /\ UNCHANGED heap
  <2>1. loc' = WithList(loc, w, NoList) /\ pc' = "cleanup"
    BY <1>2 DEF Set, WithList
  <2>2. /\ loc' \in Locals(loc') /\ loc'.desc = loc.desc /\ ~loc'.list[w].there
        /\ \A v \in Sides \ {w} : loc'.list[v] = loc.list[v]
    BY <1>0, <2>1, NoListOK, ListSet
  <2>3. \A v \in Sides : OwnedIn(loc', v) = OwnedIn(loc, v)
    BY <1>0, <2>2 DEF OwnedIn, There
  <2>4. heap' = Held(loc')
    BY <1>0, <1>2, <2>2, <2>3 DEF Held, Sides
  <2>5. ListsAt(pc', loc') /\ BuffersAt(pc', loc')
    BY <1>0, <2>1, <2>2 DEF OwnInv, ListsAt, BuffersAt, Early, Late
  <2> QED
    BY <2>1, <2>2, <2>4, <2>5 DEF OwnInv, BuildTable
<1> QED
  BY <1>1, <1>2 DEF BuildTable

(* The causes of a misuse of memory, as far as the accounts show them.        *)
Cause ==
  /\ fault' = "past_table"  => \E w \in Sides : Unterminated(w)
  /\ fault' = "wild_free"   => \E b \in Buffers : loc.desc[b] = "null"
  /\ fault' = "overrun"     => loc.in < HeaderSize + FieldSize
  /\ fault' = "null_list"   => loc.cmd # "READ_SYS_DATA" /\ loc.answer = "READ_SYS_DATA"
  /\ fault' = "user_memory" => "UEFI_8205" \in {loc.cmd, loc.answer}
  /\ fault' = "unloaded"    => open # "closed" \/ pc \notin {"idle", "crashed"}
  /\ fault' # "double_free"

LEMMA SegmentOwn ==
  ASSUME OwnInv, AllocateSegment
  PROVE  OwnInv' /\ (fault' # fault => Cause)
<1> DEFINE w == loc.side
           size == Piece(loc.seg, loc.left)
           n == Len(loc.list[w].pieces) + 1
<1>0. /\ pc = "segment" /\ loc \in Locals(loc) /\ heap = Held(loc) /\ w \in Sides
      /\ There(loc, w) /\ size \in Int /\ loc.left \in Int
      /\ loc.list[w] \in Lists
  BY DEF AllocateSegment, OwnInv, ListsAt, Locals, Piece, Min2
<1> DEFINE new == [loc.list[w] EXCEPT !.pieces = Append(@, size)]
           left == loc.left - Min2(size, loc.left)
<1>1. /\ new \in Lists /\ new.there = TRUE /\ n \in Nat \ {0} /\ Len(new.pieces) = n
  <2>1. loc.list[w].pieces \in Seq(Int) /\ size \in Int
    BY <1>0 DEF Lists
  <2>2. /\ Append(loc.list[w].pieces, size) \in Seq(Int)
        /\ Len(Append(loc.list[w].pieces, size)) = n /\ n \in Nat \ {0}
    BY <2>1
  <2> HIDE DEF size, n
  <2> QED
    BY <1>0, <2>2 DEF There, Lists
<1>2. left \in Int
  BY <1>0 DEF Min2
<1>3. /\ heap' = heap \union {<<w, n>>}
      /\ loc' = [WithList(loc, w, new) EXCEPT !.left = left]
      /\ pc' \in {"segment", "unbuild"}
  BY <1>0 DEF AllocateSegment, WithList
<1> HIDE DEF new, left, n, size
<1> DEFINE m == WithList(loc, w, new)
<1>4. /\ m \in Locals(m) /\ m.desc = loc.desc /\ m.side = w /\ m.cmd = loc.cmd
      /\ m.list[w] = new /\ \A v \in Sides \ {w} : m.list[v] = loc.list[v]
  BY <1>0, <1>1, ListSet
<1>5. loc' = [m EXCEPT !.left = left]
  BY <1>3
<1> HIDE DEF m
<1>6. /\ loc' \in Locals(loc') /\ loc'.desc = loc.desc /\ loc'.side = w /\ loc'.cmd = loc.cmd
      /\ loc'.list = m.list
  BY <1>2, <1>4, <1>5 DEF Locals
<1>7. OwnedIn(loc', w) = OwnedIn(loc, w) \union {<<w, n>>}
      /\ \A v \in Sides \ {w} : OwnedIn(loc', v) = OwnedIn(loc, v)
  <2>1. Len(loc.list[w].pieces) = n - 1
    BY <1>0 DEF n, Lists
  <2>2. Blocks(w, n) = Blocks(w, n - 1) \union {<<w, n>>}
    BY <1>1 DEF Blocks
  <2> QED
    BY <1>0, <1>1, <1>4, <1>6, <2>1, <2>2 DEF OwnedIn, There
<1>8. heap' = Held(loc')
  BY <1>0, <1>3, <1>6, <1>7 DEF Held, Sides
<1>9. ListsAt(pc', loc') /\ BuffersAt(pc', loc')
  BY <1>0, <1>1, <1>3, <1>4, <1>6 DEF OwnInv, ListsAt, BuffersAt, There, Early, Late, Sides
<1>10. fault' # fault => Cause
  <2>1. fault' # fault => fault' = "past_table" /\ n > MaxSegs
    BY DEF AllocateSegment, Blame, n
  <2>2. MaxSegs \in Nat /\ Len(loc.list[w].pieces) = n - 1
    BY <1>0, SizesAssumption DEF n, Lists
  <2>3. PICK v \in Sides : v = w
    BY <1>0
  <2>4. n > MaxSegs => Unterminated(v)
    BY <1>1, <2>2, <2>3 DEF Unterminated
  <2> QED
    BY <2>1, <2>4 DEF Cause
<1> QED
  BY <1>3, <1>6, <1>8, <1>9, <1>10 DEF OwnInv, Late

LEMMA HalveOwn == ASSUME OwnInv, HalveSegment PROVE OwnInv' /\ UNCHANGED fault
<1>0. pc = "segment" /\ loc \in Locals(loc) /\ heap' = heap
  BY DEF HalveSegment, OwnInv
<1>1. CASE Goto("unbuild")
  <2>1. ListsAt("unbuild", loc) /\ BuffersAt("unbuild", loc)
    BY <1>0 DEF OwnInv, ListsAt, BuffersAt, Early, Late
  <2> QED
    BY <1>0, <1>1, <2>1, KeepOwn DEF HalveSegment, Goto, Late
<1>2. CASE loc' = [loc EXCEPT !.seg = Half(@), !.again = ~@] /\ UNCHANGED pc
  <2>1. loc.seg \in Int
    BY <1>0 DEF Locals
  <2>2. Half(loc.seg) \in Int
    BY <2>1, SizesAssumption DEF Half, PageAlign
  <2>3. loc' \in Locals(loc') /\ loc'.desc = loc.desc /\ loc'.list = loc.list
        /\ loc'.side = loc.side /\ loc'.cmd = loc.cmd
    <3>1. loc' \in Locals(loc')
      <4> DEFINE m == [loc EXCEPT !.seg = Half(loc.seg)]
      <4>1. m \in Locals(m) /\ loc' = [m EXCEPT !.again = ~loc.again]
        BY <1>0, <1>2, <2>2 DEF Locals
      <4> HIDE DEF m
      <4> QED
        BY <4>1 DEF Locals
    <3>2. loc'.desc = loc.desc /\ loc'.list = loc.list
      BY <1>0, <1>2 DEF Locals
    <3>3. loc'.side = loc.side /\ loc'.cmd = loc.cmd
      BY <1>0, <1>2 DEF Locals
    <3> QED
      BY <3>1, <3>2, <3>3
  <2>4. ListsAt(pc', loc') /\ BuffersAt(pc', loc')
    BY <1>0, <1>2, <2>3 DEF OwnInv, ListsAt, BuffersAt, There, Early, Late
  <2> QED
    BY <1>0, <1>2, <2>3, <2>4, KeepOwn DEF HalveSegment, Late
<1> QED
  BY <1>1, <1>2 DEF HalveSegment

(* A crash blames what went wrong, and nothing changes any more.              *)
LEMMA CrashOwn ==
  ASSUME OwnInv, NEW what, Crash(what)
  PROVE  OwnInv' /\ (fault' # fault => fault' = what)
<1>1. pc' = "crashed" /\ loc' = loc /\ heap' = heap
  BY DEF Crash
<1>2. ListsAt("crashed", loc) /\ BuffersAt("crashed", loc)
  BY DEF ListsAt, BuffersAt, Early, Late
<1> QED
  BY <1>1, <1>2 DEF OwnInv, Crash, Blame

LEMMA RunOwn ==
  ASSUME OwnInv, NEW w \in Sides, RunPastTable(w)
  PROVE  OwnInv' /\ (fault' # fault => Cause)
BY CrashOwn DEF RunPastTable, Cause

(* A list that ends where it should is not followed behind its table.         *)
LEMMA BlameOwn ==
  ASSUME NEW bad, NEW w \in Sides, bad => Unterminated(w), Blame(bad, "past_table")
  PROVE  fault' # fault => Cause
BY DEF Blame, Cause

(* No block belongs to two lists, or to a list and a buffer.                  *)
LEMMA Apart ==
  ASSUME NEW l
  PROVE  /\ OwnedIn(l, "in") \intersect OwnedIn(l, "out") = {}
         /\ \A w \in Sides, b \in Buffers : <<b, 0>> \notin OwnedIn(l, w)
BY DEF OwnedIn, Blocks

LEMMA UnbuildOwn ==
  ASSUME OwnInv, Unbuild
  PROVE  OwnInv' /\ (fault' # fault => Cause)
<1> DEFINE w == loc.side
<1>0. pc = "unbuild" /\ loc \in Locals(loc) /\ heap = Held(loc) /\ w \in Sides /\ There(loc, w)
  BY DEF Unbuild, OwnInv, ListsAt, Locals
<1>1. CASE FreeBuffers({w}) /\ Set("cleanup", ListFails(w))
  <2>1. UNION {Owned(v) : v \in {w}} = OwnedIn(loc, w)
    BY DEF Owned, OwnedIn, There
  <2>2. heap' = heap \ OwnedIn(loc, w) /\ (fault' # fault => Cause)
    <3>1. OwnedIn(loc, w) \subseteq heap
      BY <1>0 DEF Held, Sides
    <3>2. heap' = heap \ OwnedIn(loc, w) /\ Blame(Unterminated(w), "past_table")
      BY <1>1, <2>1, <3>1 DEF FreeBuffers, Release, Blame
    <3> QED
      BY <1>0, <3>2, BlameOwn
  <2> DEFINE m == WithList(loc, w, NoList)
  <2>3. /\ m \in Locals(m) /\ m.desc = loc.desc /\ ~m.list[w].there
        /\ \A v \in Sides \ {w} : m.list[v] = loc.list[v]
    BY <1>0, NoListOK, ListSet
  <2>4. pc' = "cleanup" /\ loc'.desc = m.desc /\ loc'.list = m.list /\ loc' \in Locals(loc')
    <3>1. loc' = [[loc EXCEPT !.rv = -1] EXCEPT !.list = [loc.list EXCEPT ![w] = NoList]]
      BY <1>1 DEF Set, ListFails
    <3> DEFINE lists == [loc.list EXCEPT ![w] = NoList]
    <3>2. lists \in [Sides -> Lists]
      BY <1>0, NoListOK DEF Locals
    <3>3. m = [loc EXCEPT !.list = lists]
      BY DEF WithList
    <3>4. loc' = [[loc EXCEPT !.rv = -1] EXCEPT !.list = lists] /\ pc' = "cleanup"
      BY <1>1, <3>1 DEF Set
    <3> HIDE DEF lists
    <3>5. m.list = lists /\ loc'.list = lists
      BY <1>0, <3>3, <3>4 DEF Locals
    <3>6. loc' \in Locals(loc') /\ loc'.desc = loc.desc
      BY <1>0, <3>2, <3>4 DEF Locals
    <3> QED
      BY <2>3, <3>4, <3>5, <3>6
  <2> HIDE DEF m
  <2>5. OwnedIn(loc', w) = {} /\ \A v \in Sides \ {w} : OwnedIn(loc', v) = OwnedIn(loc, v)
    BY <1>0, <2>3, <2>4 DEF OwnedIn, There
  <2>6. heap' = Held(loc')
    <3>1. loc'.desc = loc.desc
      BY <2>3, <2>4
    <3>2. CASE w = "in"
      BY <1>0, <2>2, <2>5, <3>1, <3>2, Apart DEF Held, Sides
    <3>3. CASE w = "out"
      BY <1>0, <2>2, <2>5, <3>1, <3>3, Apart DEF Held, Sides
    <3> QED
      BY <1>0, <3>2, <3>3 DEF Sides
  <2>7. ListsAt("cleanup", loc') /\ BuffersAt("cleanup", loc')
    BY <1>0, <2>3, <2>4 DEF OwnInv, ListsAt, BuffersAt, Early, Late
  <2> QED
    BY <2>2, <2>4, <2>6, <2>7 DEF OwnInv
<1> QED
  BY <1>0, <1>1, RunOwn DEF Unbuild

(* The set-up of a command *)

LEMMA BuildOwn ==
  ASSUME OwnInv, pc \in Late, NEW w \in Sides, NEW n \in Int, NEW l, l \in Locals(l),
         l.desc = loc.desc, l.list = loc.list, l.cmd = loc.cmd, Build(w, n, l), heap' = heap,
         ~There(loc, w), w = "in" => ~There(loc, "out") /\ loc.cmd # "READ_SYS_DATA"
  PROVE  OwnInv'
<1> DEFINE new == [NoList EXCEPT !.ask = n]
           lists == [l.list EXCEPT ![w] = new]
           m == [[[l EXCEPT !.side = w] EXCEPT !.left = n] EXCEPT !.seg = n]
<1>1. new \in Lists /\ ~new.there /\ new.pieces = <<>>
  BY NoListOK DEF Lists
<1>2. pc' = "table" /\ loc' = [m EXCEPT !.list = lists]
  BY DEF Build, Set, Locals
<1> HIDE DEF new
<1>3. /\ lists \in [Sides -> Lists] /\ lists[w] = new
      /\ \A v \in Sides \ {w} : lists[v] = loc.list[v]
  BY <1>1 DEF Locals
<1> HIDE DEF lists
<1> DEFINE a == [l EXCEPT !.side = w]
<1>4. a \in Locals(a) /\ a.desc = loc.desc /\ a.cmd = loc.cmd /\ a.side = w
  BY SideSet
<1>5. m = [[a EXCEPT !.left = n] EXCEPT !.seg = n]
  OBVIOUS
<1> HIDE DEF m, a
<1>6. m \in Locals(m) /\ m.desc = loc.desc /\ m.cmd = loc.cmd /\ m.side = w
  <2>1. m \in Locals(m)
    <3> DEFINE b == [a EXCEPT !.left = n]
    <3>1. b \in Locals(b) /\ m = [b EXCEPT !.seg = n]
      BY <1>4, <1>5 DEF Locals
    <3> HIDE DEF b
    <3> QED
      BY <3>1 DEF Locals
  <2>2. m.desc = loc.desc /\ m.cmd = loc.cmd /\ m.side = w
    BY <1>4, <1>5 DEF Locals
  <2> QED
    BY <2>1, <2>2
<1>7. /\ loc' \in Locals(loc') /\ loc'.desc = loc.desc /\ loc'.list = lists /\ loc'.cmd = loc.cmd
      /\ loc'.side = w
  BY <1>2, <1>3, <1>6 DEF Locals
<1>8. heap' = Held(loc')
  <2>1. \A v \in Sides : OwnedIn(loc', v) = OwnedIn(loc, v)
    BY <1>1, <1>3, <1>7 DEF OwnedIn, There
  <2> QED
    BY <1>7, <2>1 DEF OwnInv, Held, Sides, Late
<1>9. ListsAt("table", loc') /\ BuffersAt("table", loc')
  BY <1>1, <1>3, <1>7 DEF OwnInv, ListsAt, BuffersAt, There, Early, Late, Sides
<1> QED
  BY <1>2, <1>7, <1>8, <1>9 DEF OwnInv, Late

LEMMA GotoOwn ==
  ASSUME OwnInv, pc \in Late, NEW label \in Late, Goto(label), heap' = heap, ListsAt(label, loc)
  PROVE  OwnInv'
<1>1. BuffersAt(label, loc)
  BY DEF OwnInv, BuffersAt, Late
<1> QED
  BY <1>1 DEF OwnInv, Goto, Late

LEMMA HeaderOwn == ASSUME OwnInv, CopyHeader PROVE OwnInv'
<1>0. pc = "header" /\ loc \in Locals(loc) /\ heap' = heap
  BY DEF CopyHeader, OwnInv
<1>1. ASSUME NEW c \in Commands, Set("setup", [loc EXCEPT !.cmd = c]) PROVE OwnInv'
  <2>1. pc' = "setup" /\ loc' = [loc EXCEPT !.cmd = c]
    BY <1>1 DEF Set
  <2>2. loc' \in Locals(loc') /\ loc'.desc = loc.desc /\ loc'.list = loc.list
    BY <1>0, <2>1 DEF Locals
  <2>3. ListsAt(pc', loc') /\ BuffersAt(pc', loc')
    BY <1>0, <2>1, <2>2 DEF OwnInv, ListsAt, BuffersAt, There, Early, Late
  <2> QED
    BY <1>0, <2>1, <2>2, <2>3, KeepOwn DEF Late
<1> QED
  BY <1>0, <1>1, FailOwn DEF CopyHeader, Late

LEMMA BuiltOwn == ASSUME OwnInv, Built PROVE OwnInv'
<1>1. pc = "segment" /\ loc.side \in Sides /\ heap' = heap
  BY DEF Built, OwnInv, Locals
<1>2. CASE loc.side = "in"
  BY <1>1, <1>2, GotoOwn DEF Built, OwnInv, ListsAt, Early, Late
<1>3. CASE loc.side = "out"
  BY <1>1, <1>3, GotoOwn DEF Built, OwnInv, ListsAt, Early, Late
<1> QED
  BY <1>1, <1>2, <1>3 DEF Sides

LEMMA UefiOwn == ASSUME OwnInv, SetUpUefi PROVE OwnInv'
<1>0. /\ pc = "setup" /\ loc \in Locals(loc) /\ heap' = heap
      /\ loc.cmd \in {"OTHERS_UEFI", "UEFI_8205"} /\ ~There(loc, "in") /\ ~There(loc, "out")
  BY DEF SetUpUefi, SetUp, OwnInv, ListsAt, Early
<1>1. CASE Goto("respond")
  BY <1>0, <1>1, GotoOwn DEF ListsAt, Early, Late
<1>2. ASSUME NEW n \in Int, Build("in", n, loc) PROVE OwnInv'
  BY <1>0, <1>2, BuildOwn DEF Sides, Late
<1>3. ASSUME NEW count \in Counts
      PROVE  count % Modulus \in Int /\ loc.in - (HeaderSize + IOSize) \in Int
  BY <1>0, SizesAssumption DEF Locals
<1> QED
  BY <1>0, <1>1, <1>2, <1>3, FailOwn DEF SetUpUefi, Late

LEMMA ResponseOwn == ASSUME OwnInv, SetUpResponse PROVE OwnInv'
<1>0. /\ pc = "respond" /\ loc \in Locals(loc) /\ heap' = heap
      /\ loc.cmd \in {"OTHERS_UEFI", "UEFI_8205"} /\ ~There(loc, "out")
  BY DEF SetUpResponse, OwnInv, ListsAt
<1>1. ASSUME NEW n \in Int,
             \/ Set("bios", [loc EXCEPT !.resp = n])
             \/ Build("out", n, [loc EXCEPT !.resp = n])
      PROVE  OwnInv'
  <2> DEFINE l == [loc EXCEPT !.resp = n]
  <2>1. l \in Locals(l) /\ l.desc = loc.desc /\ l.list = loc.list /\ l.cmd = loc.cmd
    BY <1>0 DEF Locals
  <2> HIDE DEF l
  <2>2. CASE Build("out", n, l)
    BY <1>0, <2>1, <2>2, BuildOwn DEF Sides, Late
  <2>3. CASE Set("bios", l)
    <3>1. ListsAt("bios", l) /\ BuffersAt("bios", l)
      BY <1>0, <2>1 DEF OwnInv, ListsAt, BuffersAt, There, Early, Late
    <3> QED
      BY <1>0, <2>1, <2>3, <3>1, KeepOwn DEF Set, Late
  <2> QED
    BY <1>1, <2>2, <2>3 DEF l
<1>2. ASSUME NEW c \in Counts PROVE c % Modulus \in Int
  BY SizesAssumption
<1>3. loc.out - (HeaderSize + IOSize) \in Int
  BY <1>0, SizesAssumption DEF Locals
<1> QED
  BY <1>0, <1>1, <1>2, <1>3, FailOwn DEF SetUpResponse, Late

LEMMA OtherOwn == ASSUME OwnInv, SetUpOther PROVE OwnInv' /\ (fault' # fault => Cause)
<1> DEFINE n == Min2(loc.in - HeaderSize, PageSize)
<1>0. /\ pc = "setup" /\ loc \in Locals(loc) /\ heap' = heap
      /\ ~There(loc, "in") /\ ~There(loc, "out")
  BY DEF SetUpOther, SetUp, OwnInv, ListsAt, Early
<1>1. DataSize(loc.in, WriteOfs) \in Int /\ DataSize(loc.out, ReadOfs) \in Int
  BY <1>0, SizesAssumption DEF DataSize, Minus, Locals
<1>2. CASE Fail
  <2>1. n < FieldSize => loc.in < HeaderSize + FieldSize
    BY <1>0, SizesAssumption DEF Min2, Locals
  <2>2. fault' # fault => fault' = "overrun" /\ n < FieldSize
    BY <1>0, <1>2 DEF SetUpOther, Blame
  <2> QED
    BY <1>0, <1>2, <2>1, <2>2, FailOwn DEF Cause, Late
<1>3. CASE /\ UNCHANGED fault
           /\ \/ loc.cmd = "WRITE_SYS_DATA" /\ Build("in", DataSize(loc.in, WriteOfs), loc)
              \/ loc.cmd = "READ_SYS_DATA" /\ Build("out", DataSize(loc.out, ReadOfs), loc)
              \/ loc.cmd = "OTHERS" /\ Goto("bios")
  <2>1. CASE loc.cmd = "WRITE_SYS_DATA" /\ Build("in", DataSize(loc.in, WriteOfs), loc)
    BY <1>0, <1>1, <1>3, <2>1, BuildOwn DEF Sides, Late
  <2>2. CASE loc.cmd = "READ_SYS_DATA" /\ Build("out", DataSize(loc.out, ReadOfs), loc)
    BY <1>0, <1>1, <1>3, <2>2, BuildOwn DEF Sides, Late
  <2>3. CASE loc.cmd = "OTHERS" /\ Goto("bios")
    BY <1>0, <1>3, <2>3, GotoOwn DEF ListsAt, Early, Late
  <2> QED
    BY <1>3, <2>1, <2>2, <2>3
<1> QED
  BY <1>2, <1>3 DEF SetUpOther

(* The copies between chunk lists *)

(* Locals that differ in what the accounts do not look at.                    *)
LEMMA MoveOwn ==
  ASSUME OwnInv, pc \in Late, heap' = heap, pc' \in Late \union {"cleanup"}, ListsAt(pc', loc'),
         loc' \in Locals(loc'), loc'.desc = loc.desc, loc'.list = loc.list
  PROVE  OwnInv'
<1>1. BuffersAt(pc', loc')
  BY DEF OwnInv, BuffersAt, Late
<1> QED
  BY <1>1, KeepOwn DEF Late

LEMMA CursorOwn ==
  ASSUME OwnInv, pc \in Late, heap' = heap, NEW w \in Sides, NEW chunks, NEW max, NEW l,
         l \in Locals(l), l.desc = loc.desc, l.list = loc.list, l.cmd = loc.cmd,
         Cursor(w, chunks, max, l),
         w = "in" => ~There(loc, "out") /\ loc.cmd = "UEFI_8205",
         w = "out" => l.answer = "UEFI_8205"
  PROVE  OwnInv'
<1> DEFINE m == [[[[[l EXCEPT !.side = w] EXCEPT !.chunks = chunks] EXCEPT !.moved = FALSE]
                     EXCEPT !.todo = max] EXCEPT !.max = max]
           k == [[[[m EXCEPT !.u = 1] EXCEPT !.ou = 0] EXCEPT !.d = 1] EXCEPT !.od = 0]
<1>1. pc' = "chunks" /\ loc' = k
  BY DEF Cursor, Set
<1> DEFINE a == [l EXCEPT !.side = w]
<1>2. a \in Locals(a) /\ a.desc = loc.desc /\ a.list = loc.list /\ a.cmd = loc.cmd /\ a.side = w
      /\ a.answer = l.answer
  BY SideSet
<1> DEFINE b == [[a EXCEPT !.chunks = chunks] EXCEPT !.moved = FALSE]
<1>3. m = [[b EXCEPT !.todo = max] EXCEPT !.max = max]
  OBVIOUS
<1>b. b = [[a EXCEPT !.chunks = chunks] EXCEPT !.moved = FALSE]
  OBVIOUS
<1> HIDE DEF m, a, b
<1>c. b \in Locals(b) /\ b.desc = loc.desc /\ b.list = loc.list /\ b.cmd = loc.cmd /\ b.side = w
      /\ b.answer = l.answer
  BY <1>2, <1>b DEF Locals
<1>4. m \in Locals(m) /\ m.desc = loc.desc /\ m.list = loc.list /\ m.cmd = loc.cmd /\ m.side = w
      /\ m.answer = l.answer
  BY <1>c, <1>3 DEF Locals
<1>5. k = [[[[m EXCEPT !.u = 1] EXCEPT !.ou = 0] EXCEPT !.d = 1] EXCEPT !.od = 0]
  OBVIOUS
<1> HIDE DEF k
<1>6. k \in Locals(k) /\ k.desc = loc.desc /\ k.list = loc.list /\ k.cmd = loc.cmd /\ k.side = w
      /\ k.answer = l.answer
  BY <1>4, <1>5 DEF Locals
<1>7. ListsAt("chunks", k)
  BY <1>6 DEF ListsAt, There, Early
<1> QED
  BY <1>1, <1>6, <1>7, MoveOwn DEF Late

LEMMA CopyInOwn ==
  ASSUME OwnInv, CopyFromUserToBuffers \/ CopyInEx
  PROVE  OwnInv' /\ (fault' # fault => Cause)
<1>0. /\ pc = "copy_in" /\ loc \in Locals(loc) /\ heap' = heap
      /\ ~There(loc, "out") /\ loc.cmd # "READ_SYS_DATA"
  BY DEF CopyFromUserToBuffers, CopyInEx, OwnInv, ListsAt
<1>1. ASSUME CopyInEx PROVE OwnInv'
  <2>1. PICK c \in UserChunks : Cursor("in", c, loc.list["in"].ask, loc)
    BY <1>1 DEF CopyInEx
  <2> QED
    BY <1>0, <1>1, <2>1, CursorOwn DEF CopyInEx, Sides, Late
<1>2. ASSUME Goto("respond"), loc.cmd = "OTHERS_UEFI" PROVE OwnInv'
  BY <1>0, <1>2, GotoOwn DEF ListsAt, Early, Late
<1>3. ASSUME Goto("bios") PROVE OwnInv'
  BY <1>0, <1>3, GotoOwn DEF ListsAt, Early, Late
<1>4. fault' # fault => Cause
  <2>1. CASE UNCHANGED fault
    BY <2>1
  <2>2. CASE Blame(LooksBehind("in", loc.list["in"].ask), "past_table")
    BY <2>2, BlameOwn DEF LooksBehind, Sides
  <2> QED
    BY <2>1, <2>2 DEF CopyFromUserToBuffers, CopyInEx
<1> QED
  BY <1>0, <1>1, <1>2, <1>3, <1>4, FailOwn DEF CopyFromUserToBuffers, Late

LEMMA ChunkOwn == ASSUME OwnInv, CopyChunk PROVE OwnInv'
<1>0. pc = "chunks" /\ loc \in Locals(loc) /\ heap' = heap /\ ListsAt("chunks", loc)
  BY DEF CopyChunk, OwnInv
<1>1. CASE NextUserBuffer /\ UNCHANGED pc
  <2>1. /\ loc' \in Locals(loc') /\ loc'.desc = loc.desc /\ loc'.list = loc.list
        /\ loc'.cmd = loc.cmd /\ loc'.side = loc.side /\ loc'.answer = loc.answer
    BY <1>0, <1>1 DEF NextUserBuffer, Locals
  <2> QED
    BY <1>0, <1>1, <2>1, MoveOwn DEF ListsAt, There, Early, Late
<1>2. CASE NextDriverBuffer /\ UNCHANGED pc
  <2>1. /\ loc' \in Locals(loc') /\ loc'.desc = loc.desc /\ loc'.list = loc.list
        /\ loc'.cmd = loc.cmd /\ loc'.side = loc.side /\ loc'.answer = loc.answer
    BY <1>0, <1>2 DEF NextDriverBuffer, Locals
  <2> QED
    BY <1>0, <1>2, <2>1, MoveOwn DEF ListsAt, There, Early, Late
<1>3. ASSUME NEW c, UNCHANGED pc,
             loc' = [loc EXCEPT !.ou = @ + c, !.od = @ + c, !.max = @ - c]
      PROVE  OwnInv'
  <2>1. /\ loc' \in Locals(loc') /\ loc'.desc = loc.desc /\ loc'.list = loc.list
        /\ loc'.cmd = loc.cmd /\ loc'.side = loc.side /\ loc'.answer = loc.answer
    BY <1>0, <1>3 DEF Locals
  <2> QED
    BY <1>0, <1>3, <2>1, MoveOwn DEF ListsAt, There, Early, Late
<1> QED
  BY <1>0, <1>1, <1>2, <1>3, FailOwn DEF CopyChunk, Late

LEMMA WritesOwn == ASSUME OwnInv, UserWrites PROVE OwnInv'
<1>0. pc = "chunks" /\ loc \in Locals(loc) /\ heap' = heap /\ ListsAt("chunks", loc)
  BY DEF UserWrites, OwnInv
<1>1. PICK c \in UserChunks : loc' = [loc EXCEPT !.chunks = c, !.moved = TRUE]
  BY DEF UserWrites
<1>2. /\ loc' \in Locals(loc') /\ loc'.desc = loc.desc /\ loc'.list = loc.list
      /\ loc'.cmd = loc.cmd /\ loc'.side = loc.side /\ loc'.answer = loc.answer
  BY <1>0, <1>1 DEF Locals
<1> QED
  BY <1>0, <1>2, MoveOwn DEF UserWrites, ListsAt, There, Early, Late

LEMMA UserFaultOwn ==
  ASSUME OwnInv, UserFault
  PROVE  OwnInv' /\ (fault' # fault => Cause)
<1>1. /\ OwnInv' /\ (fault' # fault => fault' = "user_memory")
  BY CrashOwn DEF UserFault
<1>2. "UEFI_8205" \in {loc.cmd, loc.answer}
  BY DEF UserFault, OwnInv, ListsAt, Locals, Sides
<1> QED
  BY <1>1, <1>2 DEF Cause

(* The call has succeeded.                                                    *)
LEMMA SuccessOwn ==
  ASSUME OwnInv, pc \in Late, heap' = heap, NEW wrote, NEW bytes,
         Set("cleanup", [loc EXCEPT !.rv = 0, !.wrote = wrote, !.bytes = bytes])
  PROVE  OwnInv'
<1>1. pc' = "cleanup" /\ loc' \in Locals(loc') /\ loc'.desc = loc.desc /\ loc'.list = loc.list
  BY DEF Set, OwnInv, Locals
<1> QED
  BY <1>1, MoveOwn DEF ListsAt, Early

LEMMA ChunksDoneOwn ==
  ASSUME OwnInv, ChunksDone
  PROVE  OwnInv' /\ (fault' # fault => Cause)
<1>0. pc = "chunks" /\ loc \in Locals(loc) /\ ListsAt("chunks", loc) /\ loc.side \in Sides
  BY DEF ChunksDone, OwnInv, Locals
<1>1. CASE RunPastTable(loc.side)
  BY <1>0, <1>1, RunOwn
<1>2. CASE /\ Fail \/ Copied
           /\ Blame(BehindTable, "past_table")
           /\ UNCHANGED heap
  <2>1. fault' # fault => Cause
    BY <1>0, <1>2, BlameOwn DEF BehindTable
  <2>2. ASSUME loc.side = "in", Goto("respond") PROVE OwnInv'
    BY <1>0, <1>2, <2>2, GotoOwn DEF ListsAt, Early, Late
  <2>3. ASSUME NEW c, Set("cleanup", [loc EXCEPT !.rv = 0, !.bytes = c]) PROVE OwnInv'
    <3>1. pc' = "cleanup" /\ loc' \in Locals(loc') /\ loc'.desc = loc.desc /\ loc'.list = loc.list
      BY <1>0, <2>3 DEF Set, Locals
    <3> QED
      BY <1>0, <1>2, <3>1, MoveOwn DEF ListsAt, Early, Late
  <2> QED
    BY <1>0, <1>2, <2>1, <2>2, <2>3, FailOwn DEF Copied, Late
<1> QED
  BY <1>1, <1>2 DEF ChunksDone

(* The BIOS, the answer and the end *)

LEMMA BiosOwn == ASSUME OwnInv, CallBios PROVE OwnInv'
<1>0. pc = "bios" /\ loc \in Locals(loc) /\ heap' = heap /\ ListsAt("bios", loc)
  BY DEF CallBios, OwnInv
<1>1. ASSUME NEW c \in Commands,
             Set("answer", [loc EXCEPT !.answer = c, !.wrote = HeaderSize, !.bytes = HeaderSize])
      PROVE  OwnInv'
  <2>1. pc' = "answer" /\ loc' \in Locals(loc') /\ loc'.desc = loc.desc /\ loc'.list = loc.list
        /\ loc'.cmd = loc.cmd
    BY <1>0, <1>1 DEF Set, Locals
  <2> QED
    BY <1>0, <2>1, MoveOwn DEF ListsAt, There, Early, Late
<1> QED
  BY <1>0, <1>1, FailOwn DEF CallBios, Late

LEMMA AnswerOwn ==
  ASSUME OwnInv, AnswerUefi \/ Answer8205 \/ AnswerRead \/ AnswerOther
  PROVE  OwnInv' /\ (fault' # fault => Cause)
<1>0. pc = "answer" /\ loc \in Locals(loc) /\ ListsAt("answer", loc)
  BY DEF AnswerUefi, Answer8205, AnswerRead, AnswerOther, OwnInv
<1>1. ASSUME NEW extent, UNCHANGED heap, Fail \/ Succeed(extent) PROVE OwnInv'
  BY <1>0, <1>1, FailOwn, SuccessOwn DEF Succeed, Late
<1>2. ASSUME NEW n, Blame(LooksBehind("out", n), "past_table") PROVE fault' # fault => Cause
  BY <1>2, BlameOwn DEF LooksBehind, Sides
<1>3. CASE AnswerUefi
  BY <1>1, <1>2, <1>3 DEF AnswerUefi
<1>4. CASE AnswerOther
  BY <1>1, <1>4 DEF AnswerOther
<1>5. CASE Answer8205
  <2>1. UNCHANGED <<heap, fault>> /\ loc.answer = "UEFI_8205"
    BY <1>5 DEF Answer8205
  <2>2. ASSUME NEW max, NEW chunks,
               Cursor("out", chunks, max, [loc EXCEPT !.wrote = HeaderSize + IOSize])
        PROVE  OwnInv'
    <3> DEFINE l == [loc EXCEPT !.wrote = HeaderSize + IOSize]
    <3>1. /\ l \in Locals(l) /\ l.desc = loc.desc /\ l.list = loc.list /\ l.cmd = loc.cmd
          /\ l.answer = loc.answer
      BY <1>0 DEF Locals
    <3> HIDE DEF l
    <3>2. Cursor("out", chunks, max, l)
      BY <2>2 DEF l
    <3> QED
      BY <1>0, <2>1, <3>1, <3>2, CursorOwn DEF Sides, Late
  <2>3. CASE \E compared, used \in Counts, chunks \in UserChunks :
               Cursor("out", chunks,
                      IF loc.resp < compared THEN loc.resp ELSE used % Modulus,
                      [loc EXCEPT !.wrote = HeaderSize + IOSize])
    BY <2>1, <2>2, <2>3
  <2> QED
    BY <1>0, <1>5, <2>1, <2>3, FailOwn, SuccessOwn DEF Answer8205, Late
<1>6. CASE AnswerRead
  <2> DEFINE n == DataSize(loc.out, ReadOfs)
             extent == HeaderSize + ReadOfs + n
  <2>1. CASE Fail /\ UNCHANGED <<heap, fault>>
    BY <1>1, <2>1
  <2>2. CASE /\ Fail \/ Succeed(extent)
             /\ Blame(LooksBehind("out", n), "past_table") /\ UNCHANGED heap
    <3> HIDE DEF n, extent
    <3> QED
      BY <1>1, <1>2, <2>2
  <2>3. CASE RunPastTable("out")
    BY <2>3, RunOwn DEF Sides
  <2>4. CASE ~loc.list["out"].there /\ Crash("null_list")
    BY <1>0, <1>6, <2>4, CrashOwn DEF AnswerRead, Cause, ListsAt, There
  <2> QED
    BY <1>6, <2>1, <2>2, <2>3, <2>4 DEF AnswerRead
<1> QED
  BY <1>3, <1>4, <1>5, <1>6

LEMMA CleanUpOwn ==
  ASSUME OwnInv, CleanUp
  PROVE  OwnInv' /\ (fault' # fault => Cause)
<1>0. pc = "cleanup" /\ heap = Held(loc) /\ BuffersAt("cleanup", loc)
  BY DEF CleanUp, OwnInv
<1>1. CASE /\ Release(Owned("in") \union Owned("out")
                       \union {<<b, 0>> : b \in {b \in Buffers : loc.desc[b] = "block"}}, Sides)
           /\ pc' = "idle" /\ loc' = NoCall
  <2>1. heap' = {}
    BY <1>0, <1>1 DEF Release, Held, Owned, OwnedIn, There
  <2>2. Blame(\E w \in Sides : Unterminated(w), "past_table")
    BY <1>0, <1>1 DEF Release, Blame, Held, Owned, OwnedIn, There
  <2>3. fault' # fault => Cause
    BY <2>2 DEF Blame, Cause
  <2> QED
    BY <1>1, <2>1, <2>3, NoCallOwns DEF OwnInv, Early
<1>2. CASE \E w \in Sides : RunPastTable(w)
  BY <1>2, RunOwn
<1>3. CASE (\E b \in Buffers : loc.desc[b] = "garbage") /\ Crash("wild_free")
  BY <1>0, <1>3, CrashOwn DEF Cause, BuffersAt
<1> QED
  BY <1>1, <1>2, <1>3 DEF CleanUp

LEMMA CallOwn ==
  ASSUME OwnInv, DrvGabiCall
  PROVE  OwnInv' /\ (fault' # fault => fault' = "none")
<1>0. pc = "idle" /\ heap = Held(loc) /\ heap' = heap /\ ListsAt("idle", loc)
  BY DEF DrvGabiCall, OwnInv
<1>1. PICK in \in InSizes, out \in OutSizes : Set("control", [NoCall EXCEPT !.in = in, !.out = out])
  BY DEF DrvGabiCall
<1>2. in \in Nat /\ out \in Nat
  BY SizesAssumption
<1>3. /\ pc' = "control" /\ loc' \in Locals(loc') /\ loc'.desc = NoCall.desc
      /\ loc'.list = NoCall.list
  <2> DEFINE m == [NoCall EXCEPT !.in = in]
  <2>1. m \in Locals(m) /\ m.desc = NoCall.desc /\ m.list = NoCall.list
    BY <1>2, NoCallOwns DEF Locals
  <2>2. pc' = "control" /\ loc' = [m EXCEPT !.out = out]
    BY <1>1 DEF Set
  <2> HIDE DEF m
  <2>3. loc' \in Locals(loc')
    BY <1>2, <2>1, <2>2 DEF Locals
  <2>4. loc'.desc = NoCall.desc /\ loc'.list = NoCall.list
    BY <2>1, <2>2 DEF Locals
  <2> QED
    BY <2>2, <2>3, <2>4
<1>4. Held(loc') = {} /\ ListsAt(pc', loc') /\ BuffersAt(pc', loc')
  <2>1. \A b \in Buffers : NoCall.desc[b] = "garbage"
    BY DEF NoCall
  <2> QED
    BY <1>3, <2>1, NoCallOwns, HeldSame DEF ListsAt, BuffersAt, There, Early, Late
<1>5. heap = {}
  BY <1>0 DEF OwnInv, ListsAt, BuffersAt, Early, Held, OwnedIn
<1> QED
  BY <1>0, <1>3, <1>4, <1>5 DEF OwnInv, DrvGabiCall, Early

OwnStep == OwnInv' /\ (fault' # fault => Cause)

LEMMA OwnNext == ASSUME OwnInv, [Next]_vars PROVE OwnStep
<1> USE DEF OwnStep
<1>1. CASE UNCHANGED vars
  BY <1>1 DEF OwnInv, vars
<1>2. CASE Load \/ DrvOpen \/ DrvRelease
  BY <1>2 DEF OwnInv, Load, DrvOpen, DrvRelease
<1>3. CASE DrvGabiCall
  BY <1>3, CallOwn DEF Cause
<1>4. CASE \E b \in Buffers : AllocateContiguousBuffer(b)
  BY <1>4, BufferOwn
<1>5. CASE BuildTable \/ AllocateSegment \/ HalveSegment \/ Unbuild
  BY <1>5, TableOwn, SegmentOwn, HalveOwn, UnbuildOwn
<1>6. CASE CopyHeader \/ Built
  BY <1>6, HeaderOwn, BuiltOwn DEF CopyHeader, Built
<1>7. CASE SetUpFlash
  BY <1>7, FailOwn DEF SetUpFlash, SetUp, Late
<1>8. CASE SetUpUefi \/ SetUpResponse \/ SetUpOther
  BY <1>8, UefiOwn, ResponseOwn, OtherOwn DEF SetUpUefi, SetUpResponse
<1>9. CASE CopyFromUserToBuffers \/ CopyInEx \/ CopyChunk \/ ChunksDone
  BY <1>9, CopyInOwn, ChunkOwn, ChunksDoneOwn DEF CopyChunk
<1>10. CASE CallBios
  BY <1>10, BiosOwn DEF CallBios
<1>11. CASE AnswerUefi \/ Answer8205 \/ AnswerRead \/ AnswerOther
  BY <1>11, AnswerOwn
<1>12. CASE CleanUp
  BY <1>12, CleanUpOwn
<1>13. CASE Unload
  <2>1. CASE UNCHANGED <<pc, loc, heap, fault>>
    BY <2>1 DEF OwnInv
  <2>2. CASE pc \notin {"idle", "crashed"} /\ Crash("unloaded")
    BY <2>2, CrashOwn DEF Cause
  <2> QED
    BY <1>13, <2>1, <2>2 DEF Unload
<1>14. CASE UseStale
  BY <1>14, CrashOwn DEF UseStale, Cause
<1>15. CASE UserFault
  BY <1>15, UserFaultOwn
<1>16. CASE UserWrites
  BY <1>16, WritesOwn DEF UserWrites
<1> QED
  BY <1>1, <1>2, <1>3, <1>4, <1>5, <1>6, <1>7, <1>8, <1>9, <1>10, <1>11, <1>12, <1>13, <1>14,
     <1>15, <1>16 DEF Next, CallStep

LEMMA OwnInvariance == Spec => [](OwnInv)
<1>1. OwnInv /\ [Next]_vars => OwnInv'
  BY OwnNext DEF OwnStep
<1> QED
  BY <1>1, OwnInit, PTL DEF Spec

(* Whatever fails in a call, it owns exactly the blocks it has allocated, and *)
(* a call that has returned owns none.                                        *)
THEOREM OwnershipCorrect == Spec => []BlocksAccounted
<1>1. OwnInv => BlocksAccounted
  BY DEF OwnInv, BlocksAccounted, Held, OwnedIn, Owned, There
<1> QED
  BY <1>1, OwnInvariance, PTL

-----------------------------------------------------------------------------
(* What a call holds and answers *)

Unsigned == 0 .. Modulus - 1
Building == {"table", "segment", "unbuild"}
Going    == Building \union {"copy_in", "chunks", "respond", "bios", "answer"}
Answering == {"bios", "answer"}

(* The sizes are unsigned; a call that goes on has room for the headers.      *)
SizesAt(p, l) ==
  /\ l.in \in Unsigned /\ l.out \in Unsigned /\ l.left \in Unsigned /\ l.seg \in Unsigned
  /\ l.resp \in Unsigned /\ l.max \in Unsigned /\ l.bytes \in Unsigned
  /\ p \notin {"idle", "crashed"} => l.in >= HeaderSize /\ l.out >= HeaderSize
  /\ p \in Going /\ l.cmd \in {"OTHERS_UEFI", "UEFI_8205"} => l.out >= HeaderSize + IOSize

(* A list that is done holds what was asked for, in pieces of a size that can *)
(* be allocated; there is room for at most one piece too many.                *)
PiecesOK(list) ==
  /\ list.ask \in Unsigned
  /\ Len(list.pieces) <= MaxSegs + 1
  /\ \A k \in 1 .. Len(list.pieces) : list.pieces[k] \in 1 .. MaxSpan

Partial(p, l, w) == p = "crashed" \/ (p \in {"segment", "unbuild"} /\ w = l.side)

ListAt(p, l) ==
  \A w \in Sides :
    /\ PiecesOK(l.list[w])
    /\ There(l, w) /\ ~Partial(p, l, w) => Total(l.list[w].pieces) = l.list[w].ask

(* A list under construction: what it holds and what is left make up what was *)
(* asked for, and a place is free as long as something is left.               *)
BuildAt(p, l) ==
  LET list == l.list[l.side] IN
  /\ p = "table" => l.left = list.ask /\ l.seg = l.left
  /\ p = "segment" =>
       /\ Total(list.pieces) + l.left = list.ask
       /\ l.left # 0 => Len(list.pieces) <= MaxSegs /\ l.seg # 0

(* The size of the response is known once its list is begun.                  *)
RespAt(p, l) ==
  LET begun == p \in Answering \/ (p \in Building /\ l.side = "out") IN
  /\ p \in Going \union Early => l.rv = -1
  /\ p \in Early \union {"respond", "copy_in"} => l.resp = 0
  /\ p \in Building \union {"chunks"} /\ l.side = "in" => l.resp = 0
  /\ begun =>
       /\ l.resp # 0 => l.resp = l.list["out"].ask /\ (p \in Answering => There(l, "out"))
       /\ l.cmd = "OTHERS_UEFI" => l.resp = l.out - (HeaderSize + IOSize)
       /\ l.cmd = "READ_SYS_DATA" => l.list["out"].ask = DataSize(l.out, ReadOfs)

(* The caller's side of a copy, as long as its list stays as it is.           *)
UserSide(l) ==
  /\ l.u <= Len(l.chunks) + 1
  /\ SumTo(l.chunks, l.u - 1) + l.ou + l.max = l.todo
  /\ l.u <= Len(l.chunks) => l.ou <= l.chunks[l.u]

CursorAt(p, l) ==
  LET pieces == l.list[l.side].pieces IN
  p = "chunks" =>
    /\ l.chunks \in Seq(Nat) /\ l.todo \in Unsigned
    /\ l.u \in Nat \ {0} /\ l.d \in 1 .. Len(pieces) + 1
    /\ l.ou \in Nat /\ l.od \in Nat
    /\ SumTo(pieces, l.d - 1) + l.od + l.max = l.todo
    /\ l.d <= Len(pieces) => l.od <= pieces[l.d]
    /\ ~l.moved => UserSide(l)

AnswerAt(p, l) ==
  /\ p = "chunks" /\ l.side = "out" => l.answer = "UEFI_8205" /\ l.wrote = HeaderSize + IOSize
  /\ p = "cleanup" /\ l.rv = 0 /\ l.answer = l.cmd =>
       /\ l.wrote <= l.out
       /\ l.cmd # "UEFI_8205" => l.bytes = l.wrote

DataAt(p, l) ==
  /\ SizesAt(p, l) /\ ListAt(p, l) /\ BuildAt(p, l)
  /\ RespAt(p, l) /\ CursorAt(p, l) /\ AnswerAt(p, l)

DataInv == DataAt(pc, loc)

LEMMA Constants ==
  /\ HeaderSize \in Nat \ {0} /\ IOSize \in Nat \ {0} /\ FieldSize \in Nat \ {0}
  /\ WriteOfs \in Nat \ {0} /\ ReadOfs \in Nat \ {0} /\ PageSize \in Nat \ {0}
  /\ MaxSpan \in Nat \ {0} /\ MaxSegs \in Nat \ {0} /\ Modulus \in Nat \ {0}
  /\ FieldSize <= PageSize /\ PageSize <= MaxSpan
BY SizesAssumption

LEMMA Wraps == ASSUME NEW n \in Int PROVE n % Modulus \in Unsigned
BY Constants DEF Unsigned

LEMMA HeadersFit ==
  /\ (MaxSegs + 1) * MaxSpan \in Nat
  /\ (MaxSegs + 1) * MaxSpan + HeaderSize + IOSize + WriteOfs + ReadOfs < Modulus
BY Constants, TableAssumption

LEMMA PiecesNat ==
  ASSUME NEW list \in Lists, PiecesOK(list)
  PROVE  /\ list.pieces \in Seq(Int) /\ Len(list.pieces) \in Nat
         /\ \A k \in 1 .. Len(list.pieces) : list.pieces[k] \in Nat
<1>1. list.pieces \in Seq(Int)
  BY DEF Lists
<1>2. Len(list.pieces) \in Nat
  BY <1>1
<1> QED
  BY <1>1, <1>2, Constants DEF PiecesOK

(* A list that is done is no longer than a full table of the largest pieces.  *)
LEMMA WholeFits ==
  ASSUME NEW list \in Lists, PiecesOK(list), Total(list.pieces) = list.ask
  PROVE  list.ask <= (MaxSegs + 1) * MaxSpan
<1> DEFINE s == list.pieces
           n == Len(s)
<1>1. n \in Nat /\ n <= MaxSegs + 1 /\ \A k \in 1 .. n : s[k] \in 0 .. MaxSpan
  BY Constants DEF PiecesOK, Lists
<1> HIDE DEF n
<1>2. SumTo(s, n) <= n * MaxSpan
  BY <1>1, SumBound, Constants
<1>3. n * MaxSpan <= (MaxSegs + 1) * MaxSpan
  <2>1. ASSUME NEW a \in Nat, NEW b \in Nat, a <= b, NEW c \in Nat PROVE a * c <= b * c
    BY <2>1
  <2> QED
    BY <1>1, <2>1, Constants
<1>4. list.ask = SumTo(s, n) /\ list.ask \in Int /\ n * MaxSpan \in Int
  BY <1>1, Constants DEF Total, n, Lists
<1> QED
  BY <1>2, <1>3, <1>4, HeadersFit

(* The lists stay as they are, and none of them becomes a list in progress or *)
(* stops being one.                                                           *)
LEMMA ListKept ==
  ASSUME NEW p, NEW l, ListAt(p, l), p \notin {"segment", "unbuild", "crashed"},
         NEW q, NEW m, m.list = l.list
  PROVE  ListAt(q, m)
BY DEF ListAt, Partial, There

LEMMA NoListData == PiecesOK(NoList) /\ NoList.ask = 0
BY Constants DEF PiecesOK, NoList, Unsigned

LEMMA NoCallData == DataAt("idle", NoCall)
<1>1. \A w \in Sides : NoCall.list[w] = NoList
  BY DEF NoCall
<1>2. ListAt("idle", NoCall)
  BY <1>1, NoListData, NoListOK DEF ListAt, There
<1>3. SizesAt("idle", NoCall)
  BY Constants DEF SizesAt, NoCall, Unsigned, Going, Building
<1>4. BuildAt("idle", NoCall) /\ CursorAt("idle", NoCall) /\ AnswerAt("idle", NoCall)
  BY DEF BuildAt, CursorAt, AnswerAt
<1>5. RespAt("idle", NoCall)
  BY DEF RespAt, NoCall, Going, Building, Answering, Early
<1> QED
  BY <1>2, <1>3, <1>4, <1>5 DEF DataAt

LEMMA FailData ==
  ASSUME OwnInv, DataInv, pc \in Late \ {"segment", "unbuild"}, Fail
  PROVE  DataInv'
<1>1. pc' = "cleanup" /\ loc' = [loc EXCEPT !.rv = -1] /\ loc \in Locals(loc)
  BY DEF Fail, Set, OwnInv
<1>2. /\ loc'.in = loc.in /\ loc'.out = loc.out /\ loc'.left = loc.left /\ loc'.seg = loc.seg
      /\ loc'.resp = loc.resp /\ loc'.max = loc.max /\ loc'.bytes = loc.bytes
      /\ loc'.list = loc.list /\ loc'.rv = -1
  BY <1>1 DEF Locals
<1>3. SizesAt(pc', loc')
  BY <1>1, <1>2 DEF DataInv, DataAt, SizesAt, Late, Going, Building
<1>4. ListAt(pc', loc')
  BY <1>2, ListKept DEF DataInv, DataAt, Late
<1>5. BuildAt(pc', loc') /\ CursorAt(pc', loc') /\ AnswerAt(pc', loc')
  BY <1>1, <1>2 DEF BuildAt, CursorAt, AnswerAt
<1>6. RespAt(pc', loc')
  BY <1>1 DEF RespAt, Going, Building, Answering, Early
<1> QED
  BY <1>3, <1>4, <1>5, <1>6 DEF DataInv, DataAt

(* The allocations *)

LEMMA BufferData ==
  ASSUME OwnInv, DataInv, NEW b \in Buffers, AllocateContiguousBuffer(b)
  PROVE  DataInv'
<1>1. ASSUME NEW label, NEW what,
             Set(label, [loc EXCEPT !.desc[b] = what]), label \in Early \union {"header", "cleanup"}
      PROVE  DataInv'
  <2>0. loc \in Locals(loc) /\ pc \in {"control", "in", "out"} /\ pc' = label
    BY <1>1 DEF OwnInv, AllocateContiguousBuffer, Buffers, Set
  <2>1. /\ loc'.in = loc.in /\ loc'.out = loc.out /\ loc'.left = loc.left
        /\ loc'.seg = loc.seg /\ loc'.resp = loc.resp /\ loc'.max = loc.max
    BY <1>1, <2>0 DEF Set, Locals
  <2>2. loc'.bytes = loc.bytes /\ loc'.list = loc.list /\ loc'.rv = loc.rv
    BY <1>1, <2>0 DEF Set, Locals
  <2>3. SizesAt(pc', loc')
    BY <1>1, <2>0, <2>1, <2>2 DEF DataInv, DataAt, SizesAt, Early, Going, Building
  <2>4. ListAt(pc', loc')
    BY <2>0, <2>2, ListKept DEF DataInv, DataAt
  <2>5. BuildAt(pc', loc') /\ CursorAt(pc', loc')
    BY <1>1, <2>0 DEF BuildAt, CursorAt, Early
  <2>6. RespAt(pc', loc') /\ loc.rv = -1
    BY <1>1, <2>0, <2>1, <2>2 DEF DataInv, DataAt, RespAt, Going, Building, Answering, Early
  <2>7. AnswerAt(pc', loc')
    BY <1>1, <2>0, <2>2, <2>6 DEF AnswerAt, Early
  <2> QED
    BY <2>3, <2>4, <2>5, <2>6, <2>7 DEF DataInv, DataAt
<1> QED
  BY <1>1 DEF AllocateContiguousBuffer, AfterBuffer, Buffers, Early

LEMMA TableData == ASSUME OwnInv, DataInv, BuildTable PROVE DataInv'
<1> DEFINE w == loc.side
<1>0. /\ pc = "table" /\ loc \in Locals(loc) /\ w \in Sides /\ loc.list[w] \in Lists
      /\ ~There(loc, w) /\ loc.list[w].pieces = <<>>
  BY DEF BuildTable, OwnInv, ListsAt, Locals
<1>d. /\ SizesAt("table", loc) /\ ListAt("table", loc) /\ BuildAt("table", loc)
      /\ RespAt("table", loc)
  BY <1>0 DEF DataInv, DataAt
<1>1. ASSUME NEW new \in Lists, NEW label \in {"segment", "cleanup"}, pc' = label,
             loc' = WithList(loc, w, new), new.pieces = <<>>, PiecesOK(new),
             label = "segment" => new.ask = loc.list[w].ask,
             label = "cleanup" => ~new.there
      PROVE  DataInv'
  <2>1. /\ loc'.side = w /\ loc'.cmd = loc.cmd /\ loc'.left = loc.left /\ loc'.list[w] = new
        /\ \A v \in Sides \ {w} : loc'.list[v] = loc.list[v]
    BY <1>0, <1>1, ListSet
  <2>2. /\ loc'.in = loc.in /\ loc'.out = loc.out /\ loc'.seg = loc.seg /\ loc'.resp = loc.resp
        /\ loc'.max = loc.max /\ loc'.bytes = loc.bytes /\ loc'.rv = loc.rv
    <3> DEFINE lists == [loc.list EXCEPT ![w] = new]
    <3>1. loc' = [loc EXCEPT !.list = lists]
      BY <1>1 DEF WithList
    <3> HIDE DEF lists
    <3> QED
      BY <1>0, <3>1 DEF Locals
  <2>3. SizesAt(pc', loc')
    BY <1>d, <1>1, <2>1, <2>2 DEF SizesAt, Going, Building
  <2>4. ListAt(pc', loc')
    <3>1. ASSUME NEW v \in Sides, v # w
          PROVE  /\ PiecesOK(loc'.list[v])
                 /\ There(loc', v) => Total(loc'.list[v].pieces) = loc'.list[v].ask
      BY <1>d, <2>1, <3>1 DEF ListAt, There, Partial
    <3>2. PiecesOK(loc'.list[w]) /\ (There(loc', w) => pc' = "segment")
      BY <1>1, <2>1 DEF There
    <3> QED
      BY <2>1, <3>1, <3>2 DEF ListAt, Partial
  <2>5. BuildAt(pc', loc')
    <3>1. CASE pc' = "segment"
      <4>1. loc.left = loc.list[w].ask /\ loc.seg = loc.left /\ loc.left \in Int
        BY <1>0, <1>d DEF BuildAt, Locals
      <4>2. Total(loc'.list[w].pieces) = 0 /\ Len(loc'.list[w].pieces) = 0
        BY <1>1, <2>1, TotalEmpty
      <4> QED
        BY <1>1, <2>1, <2>2, <3>1, <4>1, <4>2, Constants DEF BuildAt
    <3> QED
      BY <1>1, <3>1 DEF BuildAt
  <2>6. RespAt(pc', loc')
    <3>1. CASE pc' = "cleanup"
      BY <3>1 DEF RespAt, Going, Building, Answering, Early
    <3>2. CASE pc' = "segment"
      <4>1. w = "out" => loc'.list["out"].ask = loc.list["out"].ask
        BY <1>1, <2>1, <3>2
      <4> QED
        BY <1>0, <1>d, <2>1, <2>2, <3>2, <4>1 DEF RespAt, Going, Building, Answering, Early, Sides
    <3> QED
      BY <1>1, <3>1, <3>2
  <2>7. CursorAt(pc', loc') /\ loc.rv = -1
    BY <1>d, <1>1 DEF CursorAt, RespAt, Going, Building
  <2>8. AnswerAt(pc', loc')
    BY <1>1, <2>2, <2>7 DEF AnswerAt
  <2> QED
    BY <2>3, <2>4, <2>5, <2>6, <2>7, <2>8 DEF DataInv, DataAt
<1>2. CASE Set("segment", [loc EXCEPT !.list[w].there = TRUE])
  <2> DEFINE new == [loc.list[w] EXCEPT !.there = TRUE]
  <2>1. new \in Lists /\ new.pieces = <<>> /\ new.ask = loc.list[w].ask
    BY <1>0 DEF Lists
  <2>2. loc' = WithList(loc, w, new) /\ pc' = "segment"
    BY <1>2 DEF Set, WithList
  <2> HIDE DEF new
  <2>3. PiecesOK(new)
    BY <1>0, <1>d, <2>1 DEF ListAt, PiecesOK
  <2> QED
    BY <1>1, <2>1, <2>2, <2>3
<1>3. CASE Set("cleanup", [loc EXCEPT !.list[w] = NoList])
  <2>1. loc' = WithList(loc, w, NoList) /\ pc' = "cleanup"
    BY <1>3 DEF Set, WithList
  <2> QED
    BY <1>1, <2>1, NoListOK, NoListData
<1> QED
  BY <1>2, <1>3 DEF BuildTable

LEMMA SegmentData == ASSUME OwnInv, DataInv, AllocateSegment PROVE DataInv'
<1> DEFINE w == loc.side
           old == loc.list[w]
           size == Piece(loc.seg, loc.left)
           n == Len(old.pieces) + 1
<1>0. pc = "segment" /\ loc \in Locals(loc) /\ w \in Sides /\ old \in Lists /\ loc.left # 0
  BY DEF AllocateSegment, OwnInv, Locals
<1>d. /\ SizesAt("segment", loc) /\ ListAt("segment", loc) /\ BuildAt("segment", loc)
      /\ RespAt("segment", loc)
  BY <1>0 DEF DataInv, DataAt
<1>1. /\ loc.left \in 1 .. Modulus - 1 /\ loc.seg \in 1 .. Modulus - 1
      /\ size \in 1 .. MaxSpan /\ size <= loc.left /\ n <= MaxSegs + 1
      /\ Min2(size, loc.left) = size
  <2>1. loc.left \in 1 .. Modulus - 1 /\ loc.seg \in 1 .. Modulus - 1 /\ Len(old.pieces) <= MaxSegs
    BY <1>0, <1>d, Constants DEF SizesAt, BuildAt, Unsigned
  <2>2. size <= MaxSpan
    BY DEF AllocateSegment
  <2>3. size \in Nat /\ size >= 1 /\ size <= loc.left /\ Min2(size, loc.left) = size
    BY <2>1, Constants DEF Piece, Min2
  <2> QED
    BY <1>0, <2>1, <2>2, <2>3, Constants DEF Lists
<1> DEFINE new == [old EXCEPT !.pieces = Append(@, size)]
           left == loc.left - size
<1>2. /\ pc' = IF n > MaxSegs /\ size < loc.left THEN "unbuild" ELSE "segment"
      /\ loc' = [WithList(loc, w, new) EXCEPT !.left = left]
  BY <1>0, <1>1 DEF AllocateSegment, WithList
<1>3. /\ old.pieces \in Seq(Int) /\ old.ask \in Int /\ size \in Int
      /\ new \in Lists /\ new.ask = old.ask /\ new.pieces = Append(old.pieces, size)
  <2>1. old.pieces \in Seq(Int) /\ old.ask \in Int /\ size \in Int
    BY <1>0, <1>1 DEF Lists
  <2> HIDE DEF size, old
  <2>2. Append(old.pieces, size) \in Seq(Int)
    BY <2>1
  <2> QED
    BY <1>0, <2>1, <2>2 DEF Lists
<1>4. /\ Total(new.pieces) + left = old.ask /\ Len(new.pieces) = n
      /\ PiecesOK(new)
  <2>1. Total(new.pieces) = Total(old.pieces) + size
    BY <1>3, TotalAppend
  <2>2. Total(old.pieces) + loc.left = old.ask
    BY <1>d DEF BuildAt
  <2>3. Total(old.pieces) \in Int
    <3>1. Len(old.pieces) \in Nat /\ \A k \in 1 .. Len(old.pieces) : old.pieces[k] \in Nat
      <4>1. PiecesOK(old)
        BY <1>0, <1>d DEF ListAt
      <4> HIDE DEF old
      <4> QED
        BY <1>0, <4>1, PiecesNat
    <3> QED
      BY <3>1, SumNat DEF Total
  <2>4. /\ Len(new.pieces) = n
        /\ \A k \in 1 .. n : new.pieces[k] = IF k = n THEN size ELSE old.pieces[k]
    <3> HIDE DEF size, old, new
    <3> QED
      BY <1>3
  <2>5. PiecesOK(new)
    <3>1. \A k \in 1 .. n : k # n => old.pieces[k] \in 1 .. MaxSpan
      <4>1. PiecesOK(old)
        BY <1>0, <1>d DEF ListAt
      <4> HIDE DEF old
      <4>2. Len(old.pieces) \in Nat
        BY <1>0, <4>1, PiecesNat
      <4> QED
        BY <4>1, <4>2 DEF PiecesOK
    <3>2. new.ask \in Unsigned
      BY <1>0, <1>d, <1>3 DEF ListAt, PiecesOK
    <3> QED
      BY <1>1, <2>4, <3>1, <3>2 DEF PiecesOK
  <2>6. Total(new.pieces) + left = old.ask
    <3> DEFINE t == Total(old.pieces)
               all == Total(new.pieces)
    <3>1. t \in Int /\ t + loc.left = old.ask /\ all = t + size
      BY <2>1, <2>2, <2>3
    <3>2. size \in Int /\ loc.left \in Int
      BY <1>1
    <3> HIDE DEF t, all, size, old
    <3> QED
      BY <3>1, <3>2 DEF all
  <2> QED
    BY <2>4, <2>5, <2>6
<1>5. left \in 0 .. Modulus - 1 /\ (left # 0 /\ pc' = "segment" => n <= MaxSegs)
  <2>1. n \in Int
    <3>1. old.pieces \in Seq(Int)
      BY <1>0 DEF Lists
    <3> HIDE DEF old
    <3> QED
      BY <3>1
  <2>2. pc' = "segment" => ~(n > MaxSegs /\ size < loc.left)
    BY <1>2
  <2> HIDE DEF n, size
  <2> QED
    BY <1>1, <2>1, <2>2, Constants
<1> HIDE DEF new, left, size
<1> DEFINE m == WithList(loc, w, new)
<1>6. /\ m \in Locals(m) /\ m.side = w /\ m.cmd = loc.cmd
      /\ m.list[w] = new /\ \A v \in Sides \ {w} : m.list[v] = loc.list[v]
  BY <1>0, <1>3, ListSet
<1>7. /\ m.in = loc.in /\ m.out = loc.out /\ m.seg = loc.seg /\ m.resp = loc.resp
      /\ m.max = loc.max /\ m.bytes = loc.bytes /\ m.rv = loc.rv
  <2> DEFINE lists == [loc.list EXCEPT ![w] = new]
  <2>1. m = [loc EXCEPT !.list = lists]
    BY DEF WithList
  <2> HIDE DEF lists, m
  <2> QED
    BY <1>0, <2>1 DEF Locals
<1>8. loc' = [m EXCEPT !.left = left]
  BY <1>2
<1> HIDE DEF m
<1>9. /\ loc'.side = w /\ loc'.cmd = loc.cmd /\ loc'.list = m.list /\ loc'.left = left
      /\ loc'.in = loc.in /\ loc'.out = loc.out /\ loc'.seg = loc.seg /\ loc'.resp = loc.resp
      /\ loc'.max = loc.max /\ loc'.bytes = loc.bytes /\ loc'.rv = loc.rv
  BY <1>6, <1>7, <1>8 DEF Locals
<1>10. SizesAt(pc', loc')
  BY <1>d, <1>2, <1>5, <1>9 DEF SizesAt, Going, Building, Unsigned
<1>11. ListAt(pc', loc')
  <2>1. ASSUME NEW v \in Sides, v # w
        PROVE  /\ PiecesOK(loc'.list[v])
               /\ There(loc', v) => Total(loc'.list[v].pieces) = loc'.list[v].ask
    BY <1>d, <1>6, <1>9, <2>1 DEF ListAt, There, Partial
  <2> QED
    BY <1>2, <1>4, <1>6, <1>9, <2>1 DEF ListAt, Partial
<1>12. BuildAt(pc', loc')
  <2>1. loc'.list[w].ask = old.ask
    BY <1>3, <1>6, <1>9
  <2>2. loc.seg # 0
    BY <1>1
  <2> HIDE DEF old
  <2> QED
    BY <1>2, <1>4, <1>5, <1>6, <1>9, <2>1, <2>2 DEF BuildAt
<1>13. RespAt(pc', loc')
  <2>1. w = "out" => loc'.list["out"].ask = loc.list["out"].ask
    BY <1>3, <1>6, <1>9
  <2> QED
    BY <1>0, <1>d, <1>2, <1>9, <2>1 DEF RespAt, Going, Building, Answering, Early, Sides
<1>14. CursorAt(pc', loc') /\ AnswerAt(pc', loc')
  BY <1>2 DEF CursorAt, AnswerAt
<1> QED
  BY <1>10, <1>11, <1>12, <1>13, <1>14 DEF DataInv, DataAt

(* Rounding up to whole pages does not undo the halving: half is a page at    *)
(* least.                                                                     *)
LEMMA HalfSize ==
  ASSUME NEW s \in Unsigned, Half(s) # 0
  PROVE  Half(s) \in Unsigned
<1> DEFINE h == s \div 2
           q == (h + PageSize - 1) \div PageSize
<1>1. h \in Nat /\ h >= PageSize /\ 2 * h <= s /\ Half(s) = q * PageSize
  BY Constants DEF Half, PageAlign, Unsigned
<1> HIDE DEF h
<1>2. ASSUME NEW a \in Nat, NEW p \in Nat \ {0} PROVE (a \div p) * p \in Nat /\ (a \div p) * p <= a
  BY <1>2
<1>3. h + PageSize - 1 \in Nat
  BY <1>1, Constants
<1>4. q * PageSize \in Nat /\ q * PageSize <= h + PageSize - 1
  BY <1>2, <1>3, Constants
<1> HIDE DEF q
<1> QED
  BY <1>1, <1>4, Constants DEF Unsigned

LEMMA HalveData == ASSUME OwnInv, DataInv, HalveSegment PROVE DataInv'
<1>0. pc = "segment" /\ loc \in Locals(loc) /\ loc.left # 0
  BY DEF HalveSegment, OwnInv
<1>d. /\ SizesAt("segment", loc) /\ ListAt("segment", loc) /\ BuildAt("segment", loc)
      /\ RespAt("segment", loc)
  BY <1>0 DEF DataInv, DataAt
<1>1. CASE Goto("unbuild")
  <2>1. SizesAt("unbuild", loc) /\ ListAt("unbuild", loc) /\ RespAt("unbuild", loc)
    BY <1>d DEF SizesAt, ListAt, RespAt, Partial, Going, Building, Answering, Early
  <2>2. BuildAt("unbuild", loc) /\ CursorAt("unbuild", loc) /\ AnswerAt("unbuild", loc)
    BY DEF BuildAt, CursorAt, AnswerAt
  <2> QED
    BY <1>1, <2>1, <2>2 DEF Goto, DataInv, DataAt
<1>2. CASE /\ Half(loc.seg) # 0 /\ pc' = pc
           /\ loc' = [loc EXCEPT !.seg = Half(loc.seg), !.again = ~loc.again]
  <2>1. Half(loc.seg) \in Unsigned
    BY <1>d, <1>2, HalfSize DEF SizesAt
  <2>2. /\ loc'.seg = Half(loc.seg) /\ loc'.in = loc.in /\ loc'.out = loc.out
        /\ loc'.left = loc.left /\ loc'.resp = loc.resp /\ loc'.max = loc.max
    BY <1>0, <1>2 DEF Locals
  <2>3. /\ loc'.bytes = loc.bytes /\ loc'.list = loc.list /\ loc'.side = loc.side
        /\ loc'.cmd = loc.cmd /\ loc'.rv = loc.rv
    BY <1>0, <1>2 DEF Locals
  <2>4. SizesAt("segment", loc')
    BY <1>d, <2>1, <2>2, <2>3 DEF SizesAt
  <2>5. ListAt("segment", loc')
    BY <1>d, <2>3 DEF ListAt, There, Partial
  <2>6. BuildAt("segment", loc')
    BY <1>d, <1>2, <2>2, <2>3 DEF BuildAt
  <2>7. RespAt("segment", loc')
    BY <1>d, <2>2, <2>3 DEF RespAt, Answering
  <2>8. CursorAt("segment", loc') /\ AnswerAt("segment", loc')
    BY DEF CursorAt, AnswerAt
  <2> QED
    BY <1>0, <1>2, <2>4, <2>5, <2>6, <2>7, <2>8 DEF DataInv, DataAt
<1> QED
  BY <1>0, <1>1, <1>2 DEF HalveSegment

(* Nothing changes any more after a crash.                                    *)
LEMMA CrashData == ASSUME OwnInv, DataInv, NEW what, Crash(what) PROVE DataInv'
<1>1. pc' = "crashed" /\ loc' = loc
  BY DEF Crash
<1>2. SizesAt("crashed", loc) /\ ListAt("crashed", loc)
  BY DEF DataInv, DataAt, SizesAt, ListAt, Partial, Going, Building
<1>3. BuildAt("crashed", loc) /\ CursorAt("crashed", loc) /\ AnswerAt("crashed", loc)
  BY DEF BuildAt, CursorAt, AnswerAt
<1>4. RespAt("crashed", loc)
  BY DEF RespAt, Going, Building, Answering, Early
<1> QED
  BY <1>1, <1>2, <1>3, <1>4 DEF DataInv, DataAt

LEMMA UnbuildData == ASSUME OwnInv, DataInv, Unbuild PROVE DataInv'
<1> DEFINE w == loc.side
           lists == [loc.list EXCEPT ![w] = NoList]
<1>0. pc = "unbuild" /\ loc \in Locals(loc) /\ w \in Sides
  BY DEF Unbuild, OwnInv, Locals
<1>1. CASE Set("cleanup", ListFails(w))
  <2>1. pc' = "cleanup" /\ loc' = [[loc EXCEPT !.rv = -1] EXCEPT !.list = lists]
    BY <1>1 DEF Set, ListFails
  <2>2. /\ lists \in [Sides -> Lists] /\ lists[w] = NoList
        /\ \A v \in Sides \ {w} : lists[v] = loc.list[v]
    BY <1>0, NoListOK DEF Locals
  <2> HIDE DEF lists
  <2>3. /\ loc'.list = lists /\ loc'.in = loc.in /\ loc'.out = loc.out /\ loc'.left = loc.left
        /\ loc'.seg = loc.seg /\ loc'.resp = loc.resp
    BY <1>0, <2>1, <2>2 DEF Locals
  <2>4. loc'.max = loc.max /\ loc'.bytes = loc.bytes /\ loc'.rv = -1
    BY <1>0, <2>1, <2>2 DEF Locals
  <2>5. SizesAt("cleanup", loc')
    BY <1>0, <2>3, <2>4 DEF DataInv, DataAt, SizesAt, Going, Building
  <2>6. ListAt("cleanup", loc')
    <3>1. ASSUME NEW v \in Sides, v # w
          PROVE  /\ PiecesOK(loc'.list[v])
                 /\ There(loc', v) => Total(loc'.list[v].pieces) = loc'.list[v].ask
      BY <1>0, <2>2, <2>3, <3>1 DEF DataInv, DataAt, ListAt, There, Partial
    <3> QED
      BY <2>2, <2>3, <3>1, NoListOK, NoListData DEF ListAt, There
  <2>7. BuildAt("cleanup", loc') /\ CursorAt("cleanup", loc') /\ AnswerAt("cleanup", loc')
    BY <2>4 DEF BuildAt, CursorAt, AnswerAt
  <2>8. RespAt("cleanup", loc')
    BY DEF RespAt, Going, Building, Answering, Early
  <2> QED
    BY <2>1, <2>5, <2>6, <2>7, <2>8 DEF DataInv, DataAt
<1> QED
  BY <1>0, <1>1, CrashData DEF Unbuild, RunPastTable

(* The set-up of a command *)

LEMMA BuildData ==
  ASSUME OwnInv, DataInv, pc \in {"setup", "respond"},
         NEW w \in Sides, NEW n \in Unsigned, NEW l, l \in Locals(l), Build(w, n, l),
         l.in = loc.in, l.out = loc.out, l.cmd = loc.cmd, l.max = loc.max,
         l.bytes = loc.bytes, l.list = loc.list, l.rv = loc.rv, l.resp \in Unsigned,
         loc.cmd \in {"OTHERS_UEFI", "UEFI_8205"} => loc.out >= HeaderSize + IOSize,
         w = "in" => l.resp = 0,
         w = "out" =>
           /\ l.resp # 0 => l.resp = n
           /\ loc.cmd = "OTHERS_UEFI" => l.resp = loc.out - (HeaderSize + IOSize)
           /\ loc.cmd = "READ_SYS_DATA" => n = DataSize(loc.out, ReadOfs)
  PROVE  DataInv'
<1> DEFINE new == [NoList EXCEPT !.ask = n]
           lists == [l.list EXCEPT ![w] = new]
           a == [[[l EXCEPT !.side = w] EXCEPT !.left = n] EXCEPT !.seg = n]
<1>0. /\ SizesAt(pc, loc) /\ ListAt(pc, loc) /\ RespAt(pc, loc)
  BY DEF DataInv, DataAt
<1>1. new \in Lists /\ ~new.there /\ new.pieces = <<>> /\ new.ask = n
  <2>1. NoList \in Lists /\ ~NoList.there /\ NoList.pieces = <<>> /\ n \in Int
    BY NoListOK DEF Unsigned
  <2> QED
    BY <2>1 DEF Lists
<1>2. pc' = "table" /\ loc' = [a EXCEPT !.list = lists]
  BY DEF Build, Set, Locals
<1> HIDE DEF new
<1>3. /\ lists \in [Sides -> Lists] /\ lists[w] = new
      /\ \A v \in Sides \ {w} : lists[v] = loc.list[v]
  BY <1>1 DEF Locals
<1> HIDE DEF lists
<1>4. n \in Int
  BY DEF Unsigned
<1> DEFINE b == [l EXCEPT !.side = w]
<1>5. b \in Locals(b) /\ b.side = w
  BY SideSet
<1>6. /\ b.in = loc.in /\ b.out = loc.out /\ b.cmd = loc.cmd /\ b.max = loc.max
      /\ b.bytes = loc.bytes /\ b.rv = loc.rv /\ b.resp = l.resp
  BY DEF Locals
<1>7. a = [[b EXCEPT !.left = n] EXCEPT !.seg = n]
  OBVIOUS
<1> HIDE DEF a, b
<1>8. a \in Locals(a) /\ a.side = w /\ a.left = n /\ a.seg = n
  <2>1. a \in Locals(a)
    <3> DEFINE d == [b EXCEPT !.left = n]
    <3>1. d \in Locals(d) /\ a = [d EXCEPT !.seg = n]
      BY <1>4, <1>5, <1>7 DEF Locals
    <3> HIDE DEF d
    <3> QED
      BY <1>4, <3>1 DEF Locals
  <2>2. a.side = w /\ a.left = n /\ a.seg = n
    BY <1>4, <1>5, <1>7 DEF Locals
  <2> QED
    BY <2>1, <2>2
<1>9. /\ a.in = loc.in /\ a.out = loc.out /\ a.cmd = loc.cmd /\ a.max = loc.max
      /\ a.bytes = loc.bytes /\ a.rv = loc.rv /\ a.resp = l.resp
  BY <1>5, <1>6, <1>7 DEF Locals
<1>10. /\ loc'.side = w /\ loc'.left = n /\ loc'.seg = n /\ loc'.list = lists
  BY <1>2, <1>3, <1>8 DEF Locals
<1>11. /\ loc'.in = loc.in /\ loc'.out = loc.out /\ loc'.cmd = loc.cmd /\ loc'.max = loc.max
       /\ loc'.bytes = loc.bytes /\ loc'.rv = loc.rv /\ loc'.resp = l.resp
  BY <1>2, <1>8, <1>9 DEF Locals
<1>12. SizesAt("table", loc')
  BY <1>0, <1>10, <1>11 DEF SizesAt
<1>13. ListAt("table", loc')
  <2>1. PiecesOK(new)
    <3>1. Len(new.pieces) = 0
      BY <1>1
    <3> QED
      BY <1>1, <3>1, Constants DEF PiecesOK
  <2>2. ASSUME NEW v \in Sides, v # w
        PROVE  /\ PiecesOK(loc'.list[v])
               /\ There(loc', v) => Total(loc'.list[v].pieces) = loc'.list[v].ask
    BY <1>0, <1>3, <1>10, <2>2 DEF ListAt, There, Partial
  <2> QED
    BY <1>1, <1>3, <1>10, <2>1, <2>2 DEF ListAt, There
<1>14. BuildAt("table", loc')
  BY <1>1, <1>3, <1>10 DEF BuildAt
<1>15. RespAt("table", loc')
  <2>1. loc'.rv = -1
    BY <1>0, <1>11 DEF RespAt, Going, Early
  <2>2. w = "out" => loc'.list["out"].ask = n
    BY <1>1, <1>3, <1>10
  <2> QED
    BY <1>10, <1>11, <2>1, <2>2 DEF RespAt, Answering, Early, Sides
<1>16. CursorAt("table", loc') /\ AnswerAt("table", loc')
  BY DEF CursorAt, AnswerAt
<1> QED
  BY <1>2, <1>12, <1>13, <1>14, <1>15, <1>16 DEF DataInv, DataAt

(* To another place, with the same locals.                                    *)
LEMMA GotoData ==
  ASSUME OwnInv, DataInv, NEW label \in {"respond", "copy_in", "bios"}, Goto(label),
         pc \notin {"unbuild", "crashed", "idle"},
         pc = "segment" => ListAt(label, loc),
         loc.cmd \in {"OTHERS_UEFI", "UEFI_8205"} => loc.out >= HeaderSize + IOSize,
         loc.rv = -1, RespAt(label, loc)
  PROVE  DataInv'
<1>1. pc' = label /\ loc' = loc
  BY DEF Goto
<1>2. SizesAt(label, loc)
  BY DEF DataInv, DataAt, SizesAt
<1>3. ListAt(label, loc)
  BY ListKept DEF DataInv, DataAt
<1>4. BuildAt(label, loc) /\ CursorAt(label, loc) /\ AnswerAt(label, loc)
  BY DEF BuildAt, CursorAt, AnswerAt
<1> QED
  BY <1>1, <1>2, <1>3, <1>4 DEF DataInv, DataAt

LEMMA HeaderData == ASSUME OwnInv, DataInv, CopyHeader PROVE DataInv'
<1>0. pc = "header" /\ loc \in Locals(loc)
  BY DEF CopyHeader, OwnInv
<1>1. ASSUME NEW c \in Commands, Set("setup", [loc EXCEPT !.cmd = c]) PROVE DataInv'
  <2>1. /\ pc' = "setup" /\ loc'.in = loc.in /\ loc'.out = loc.out /\ loc'.left = loc.left
        /\ loc'.seg = loc.seg /\ loc'.resp = loc.resp /\ loc'.max = loc.max
    BY <1>0, <1>1 DEF Set, Locals
  <2>2. loc'.bytes = loc.bytes /\ loc'.list = loc.list /\ loc'.rv = loc.rv
    BY <1>0, <1>1 DEF Set, Locals
  <2>3. SizesAt("setup", loc')
    BY <1>0, <2>1, <2>2 DEF DataInv, DataAt, SizesAt, Going, Building
  <2>4. ListAt("setup", loc')
    BY <1>0, <2>2, ListKept DEF DataInv, DataAt
  <2>5. BuildAt("setup", loc') /\ CursorAt("setup", loc') /\ AnswerAt("setup", loc')
    BY DEF BuildAt, CursorAt, AnswerAt
  <2>6. RespAt("setup", loc')
    BY <1>0, <2>1, <2>2 DEF DataInv, DataAt, RespAt, Going, Building, Answering, Early
  <2> QED
    BY <2>1, <2>3, <2>4, <2>5, <2>6 DEF DataInv, DataAt
<1> QED
  BY <1>0, <1>1, FailData DEF CopyHeader, Late

LEMMA BuiltData == ASSUME OwnInv, DataInv, Built PROVE DataInv'
<1> DEFINE label == IF loc.side = "in" THEN "copy_in" ELSE "bios"
<1>0. /\ pc = "segment" /\ loc \in Locals(loc) /\ loc.side \in Sides /\ loc.left = 0
      /\ Goto(label) /\ There(loc, loc.side) /\ loc.list[loc.side] \in Lists
  BY DEF Built, OwnInv, Locals, ListsAt
<1>d. /\ SizesAt("segment", loc) /\ ListAt("segment", loc) /\ BuildAt("segment", loc)
      /\ RespAt("segment", loc)
  BY <1>0 DEF DataInv, DataAt
<1>1. Total(loc.list[loc.side].pieces) = loc.list[loc.side].ask
  <2>1. Total(loc.list[loc.side].pieces) \in Int
    <3> DEFINE s == loc.list[loc.side].pieces
    <3>1. Len(s) \in Nat /\ PiecesOK(loc.list[loc.side])
      BY <1>0, <1>d DEF ListAt, Lists
    <3>2. \A k \in 1 .. Len(s) : s[k] \in Nat
      BY <3>1, Constants DEF PiecesOK
    <3> QED
      BY <3>1, <3>2, SumNat DEF Total
  <2> QED
    BY <1>0, <1>d, <2>1 DEF BuildAt
<1>2. ListAt(label, loc)
  BY <1>d, <1>1 DEF ListAt, Partial
<1>3. RespAt(label, loc)
  <2>1. CASE loc.side = "in"
    BY <1>d, <2>1 DEF RespAt, Going, Building, Answering, Early
  <2>2. CASE loc.side = "out"
    BY <1>0, <1>d, <2>2 DEF RespAt, Going, Building, Answering, Early
  <2> QED
    BY <1>0, <2>1, <2>2 DEF Sides
<1>4. loc.rv = -1 /\ (loc.cmd \in {"OTHERS_UEFI", "UEFI_8205"} => loc.out >= HeaderSize + IOSize)
  BY <1>d DEF RespAt, SizesAt, Going, Building
<1> HIDE DEF label
<1>5. label \in {"respond", "copy_in", "bios"}
  BY DEF label
<1> QED
  BY <1>0, <1>2, <1>3, <1>4, <1>5, GotoData

LEMMA UefiData == ASSUME OwnInv, DataInv, SetUpUefi PROVE DataInv'
<1>0. /\ pc = "setup" /\ loc \in Locals(loc) /\ loc.cmd \in {"OTHERS_UEFI", "UEFI_8205"}
      /\ SizesAt("setup", loc) /\ RespAt("setup", loc)
  BY DEF SetUpUefi, SetUp, OwnInv, DataInv, DataAt
<1>1. ASSUME loc.in >= HeaderSize + IOSize, loc.out >= HeaderSize + IOSize,
             NEW count \in Counts, NEW n,
             n = IF loc.cmd = "UEFI_8205" THEN count % Modulus ELSE loc.in - (HeaderSize + IOSize),
             Goto("respond") \/ Build("in", n, loc)
      PROVE  DataInv'
  <2>1. loc.resp = 0 /\ loc.rv = -1
    BY <1>0 DEF RespAt, Early, Going
  <2>2. n \in Unsigned
    <3>1. count % Modulus \in Unsigned
      BY SizesAssumption, Wraps
    <3>2. loc.in - (HeaderSize + IOSize) \in Unsigned
      BY <1>0, <1>1, Constants DEF SizesAt, Unsigned
    <3> QED
      BY <1>1, <3>1, <3>2
  <2>3. CASE Goto("respond")
    <3>1. RespAt("respond", loc)
      BY <2>1 DEF RespAt, Answering, Building
    <3> QED
      BY <1>0, <1>1, <2>1, <2>3, <3>1, GotoData
  <2>4. CASE Build("in", n, loc)
    <3>1. loc.resp \in Unsigned
      BY <1>0 DEF SizesAt
    <3> QED
      BY <1>0, <1>1, <2>1, <2>2, <2>4, <3>1, BuildData DEF Sides
  <2> QED
    BY <1>1, <2>3, <2>4
<1> QED
  BY <1>0, <1>1, FailData DEF SetUpUefi, Late

LEMMA ResponseData == ASSUME OwnInv, DataInv, SetUpResponse PROVE DataInv'
<1>0. /\ pc = "respond" /\ loc \in Locals(loc) /\ loc.cmd \in {"OTHERS_UEFI", "UEFI_8205"}
      /\ SizesAt("respond", loc) /\ RespAt("respond", loc)
      /\ loc.out >= HeaderSize + IOSize
  BY DEF SetUpResponse, OwnInv, ListsAt, DataInv, DataAt, SizesAt, Going
<1>1. ASSUME NEW n \in Unsigned,
             loc.cmd = "OTHERS_UEFI" => n = loc.out - (HeaderSize + IOSize),
             \/ n = 0 /\ Set("bios", [loc EXCEPT !.resp = n])
             \/ Build("out", n, [loc EXCEPT !.resp = n])
      PROVE  DataInv'
  <2> DEFINE l == [loc EXCEPT !.resp = n]
  <2>1. /\ l \in Locals(l) /\ l.in = loc.in /\ l.out = loc.out /\ l.cmd = loc.cmd
        /\ l.max = loc.max /\ l.left = loc.left /\ l.seg = loc.seg
    BY <1>0 DEF Locals
  <2>2. l.bytes = loc.bytes /\ l.list = loc.list /\ l.rv = loc.rv /\ l.resp = n /\ l.rv = -1
    BY <1>0 DEF Locals, RespAt, Going
  <2> HIDE DEF l
  <2>3. CASE Build("out", n, l)
    BY <1>0, <1>1, <2>1, <2>2, <2>3, BuildData DEF Sides
  <2>4. CASE n = 0 /\ Set("bios", l)
    <3>1. pc' = "bios" /\ loc' = l
      BY <2>4 DEF Set
    <3>2. SizesAt("bios", l)
      BY <1>0, <1>1, <2>1, <2>2 DEF SizesAt
    <3>3. ListAt("bios", l)
      BY <1>0, <2>2, ListKept DEF DataInv, DataAt
    <3>4. BuildAt("bios", l) /\ CursorAt("bios", l) /\ AnswerAt("bios", l)
      BY DEF BuildAt, CursorAt, AnswerAt
    <3>5. RespAt("bios", l)
      BY <1>0, <1>1, <2>1, <2>2, <2>4 DEF RespAt, Building, Early
    <3> QED
      BY <3>1, <3>2, <3>3, <3>4, <3>5 DEF DataInv, DataAt
  <2> QED
    BY <1>1, <2>3, <2>4 DEF l
<1>2. ASSUME NEW c \in Counts PROVE c % Modulus \in Unsigned
  BY Wraps, SizesAssumption
<1>3. loc.out - (HeaderSize + IOSize) \in Unsigned
  BY <1>0, Constants DEF SizesAt, Unsigned
<1>4. CASE ~(loc.cmd = "UEFI_8205" /\ Fail)
  <2>1. PICK n \in IF loc.cmd = "UEFI_8205" THEN {c % Modulus : c \in Counts}
                   ELSE {loc.out - (HeaderSize + IOSize)} :
          IF n = 0 THEN Set("bios", [loc EXCEPT !.resp = n])
          ELSE Build("out", n, [loc EXCEPT !.resp = n])
    BY <1>4 DEF SetUpResponse
  <2>2. n \in Unsigned /\ (loc.cmd = "OTHERS_UEFI" => n = loc.out - (HeaderSize + IOSize))
    BY <1>0, <1>2, <1>3, <2>1
  <2> QED
    BY <1>1, <2>1, <2>2
<1> QED
  BY <1>0, <1>4, FailData DEF Late

LEMMA OtherData == ASSUME OwnInv, DataInv, SetUpOther PROVE DataInv'
<1>0. /\ pc = "setup" /\ loc \in Locals(loc)
      /\ loc.cmd \in {"READ_SYS_DATA", "WRITE_SYS_DATA", "OTHERS"}
      /\ loc.resp = 0 /\ loc.rv = -1 /\ loc.resp \in Unsigned
  BY Constants DEF SetUpOther, SetUp, OwnInv, DataInv, DataAt, RespAt, Early, Going, Unsigned
<1>1. DataSize(loc.in, WriteOfs) \in Unsigned /\ DataSize(loc.out, ReadOfs) \in Unsigned
  <2>1. loc.in \in Int /\ loc.out \in Int
    BY <1>0 DEF Locals
  <2>2. loc.in - (HeaderSize + WriteOfs) \in Int /\ loc.out - (HeaderSize + ReadOfs) \in Int
    BY <2>1, Constants
  <2> QED
    BY <2>2, Wraps DEF DataSize, Minus
<1>2. CASE loc.cmd = "WRITE_SYS_DATA" /\ Build("in", DataSize(loc.in, WriteOfs), loc)
  BY <1>0, <1>1, <1>2, BuildData DEF Sides
<1>3. CASE loc.cmd = "READ_SYS_DATA" /\ Build("out", DataSize(loc.out, ReadOfs), loc)
  BY <1>0, <1>1, <1>3, BuildData DEF Sides
<1>4. CASE loc.cmd = "OTHERS" /\ Goto("bios")
  <2>1. RespAt("bios", loc)
    BY <1>0, <1>4 DEF RespAt, Building, Early
  <2> QED
    BY <1>0, <1>4, <2>1, GotoData
<1> QED
  BY <1>0, <1>2, <1>3, <1>4, FailData DEF SetUpOther, Late

(* The copies between chunk lists *)

LEMMA CursorData ==
  ASSUME OwnInv, DataInv, pc \in {"copy_in", "answer"}, NEW w \in Sides,
         NEW chunks \in Seq(Nat), NEW max \in Unsigned, NEW l, l \in Locals(l),
         Cursor(w, chunks, max, l),
         l.in = loc.in, l.out = loc.out, l.left = loc.left, l.seg = loc.seg, l.cmd = loc.cmd,
         l.resp = loc.resp, l.bytes = loc.bytes, l.list = loc.list, l.rv = loc.rv,
         w = "in" => loc.resp = 0,
         w = "out" => l.answer = "UEFI_8205" /\ l.wrote = HeaderSize + IOSize
  PROVE  DataInv'
<1> DEFINE a == [l EXCEPT !.side = w]
           b == [[a EXCEPT !.chunks = chunks] EXCEPT !.moved = FALSE]
           m == [[b EXCEPT !.todo = max] EXCEPT !.max = max]
           k == [[[[m EXCEPT !.u = 1] EXCEPT !.ou = 0] EXCEPT !.d = 1] EXCEPT !.od = 0]
<1>0. SizesAt(pc, loc) /\ ListAt(pc, loc) /\ RespAt(pc, loc)
  BY DEF DataInv, DataAt
<1>1. pc' = "chunks" /\ loc' = k
  BY DEF Cursor, Set
<1>2. a \in Locals(a) /\ a.side = w /\ a.list = loc.list /\ a.cmd = loc.cmd
  BY SideSet
<1>3. /\ a.in = loc.in /\ a.out = loc.out /\ a.left = loc.left /\ a.seg = loc.seg
      /\ a.resp = loc.resp /\ a.bytes = loc.bytes /\ a.rv = loc.rv
  BY DEF Locals
<1>4. a.answer = l.answer /\ a.wrote = l.wrote
  BY DEF Locals
<1>5. m = [[b EXCEPT !.todo = max] EXCEPT !.max = max]
  OBVIOUS
<1>b. b = [[a EXCEPT !.chunks = chunks] EXCEPT !.moved = FALSE]
  OBVIOUS
<1> HIDE DEF a, b, m
<1>c. b \in Locals(b) /\ b.side = w /\ b.chunks = chunks /\ b.moved = FALSE
  BY <1>2, <1>b DEF Locals
<1>d. /\ b.in = loc.in /\ b.out = loc.out /\ b.left = loc.left /\ b.seg = loc.seg
      /\ b.resp = loc.resp /\ b.bytes = loc.bytes /\ b.rv = loc.rv
  BY <1>2, <1>3, <1>b DEF Locals
<1>e. b.list = loc.list /\ b.cmd = loc.cmd /\ b.answer = l.answer /\ b.wrote = l.wrote
  BY <1>2, <1>4, <1>b DEF Locals
<1>6. /\ m \in Locals(m) /\ m.side = w /\ m.chunks = chunks /\ m.max = max /\ m.todo = max
      /\ m.moved = FALSE
  BY <1>c, <1>5 DEF Locals
<1>7. /\ m.in = loc.in /\ m.out = loc.out /\ m.left = loc.left /\ m.seg = loc.seg
      /\ m.resp = loc.resp /\ m.bytes = loc.bytes /\ m.rv = loc.rv
  BY <1>c, <1>d, <1>5 DEF Locals
<1>8. m.list = loc.list /\ m.cmd = loc.cmd /\ m.answer = l.answer /\ m.wrote = l.wrote
  BY <1>c, <1>e, <1>5 DEF Locals
<1>9. k = [[[[m EXCEPT !.u = 1] EXCEPT !.ou = 0] EXCEPT !.d = 1] EXCEPT !.od = 0]
  OBVIOUS
<1> HIDE DEF k
<1>10. k.u = 1 /\ k.ou = 0 /\ k.d = 1 /\ k.od = 0
  BY <1>6, <1>9 DEF Locals
<1>11. k.side = w /\ k.chunks = chunks /\ k.max = max /\ k.todo = max /\ k.moved = FALSE
  BY <1>6, <1>9 DEF Locals
<1>12. /\ k.in = loc.in /\ k.out = loc.out /\ k.left = loc.left /\ k.seg = loc.seg
       /\ k.resp = loc.resp /\ k.bytes = loc.bytes /\ k.rv = loc.rv
  BY <1>6, <1>7, <1>9 DEF Locals
<1>13. k.list = loc.list /\ k.cmd = loc.cmd /\ k.answer = l.answer /\ k.wrote = l.wrote
  BY <1>6, <1>8, <1>9 DEF Locals
<1>14. SizesAt("chunks", k)
  BY <1>0, <1>11, <1>12, <1>13 DEF SizesAt, Going
<1>15. ListAt("chunks", k)
  BY <1>0, <1>13, ListKept
<1>16. RespAt("chunks", k)
  BY <1>0, <1>11, <1>12, <1>13 DEF RespAt, Going, Building, Answering, Early
<1>17. CursorAt("chunks", k)
  <2> DEFINE pieces == k.list[k.side].pieces
  <2>1. Len(pieces) \in Nat /\ \A i \in 1 .. Len(pieces) : pieces[i] \in Nat
    <3>1. k.list[w] \in Lists /\ PiecesOK(k.list[w])
      BY <1>13, <1>15 DEF ListAt, OwnInv, Locals
    <3> QED
      BY <1>11, <3>1, PiecesNat
  <2>2. Len(chunks) \in Nat /\ \A i \in 1 .. Len(chunks) : chunks[i] \in Nat
    OBVIOUS
  <2>5. SumTo(chunks, 0) = 0 /\ SumTo(pieces, 0) = 0
    BY SumZero
  <2> HIDE DEF pieces
  <2>6. (1 <= Len(chunks) => 0 <= chunks[1]) /\ (1 <= Len(pieces) => 0 <= pieces[1])
    BY <2>1, <2>2
  <2>7. max \in Int
    BY Constants DEF Unsigned
  <2>8. UserSide(k)
    BY <1>10, <1>11, <2>2, <2>5, <2>6, <2>7 DEF UserSide
  <2> QED
    BY <1>10, <1>11, <2>1, <2>5, <2>6, <2>7, <2>8 DEF CursorAt, pieces
<1>18. BuildAt("chunks", k) /\ AnswerAt("chunks", k)
  BY <1>11, <1>13 DEF BuildAt, AnswerAt
<1> QED
  BY <1>1, <1>14, <1>15, <1>16, <1>17, <1>18 DEF DataInv, DataAt

LEMMA CopyInData == ASSUME OwnInv, DataInv, CopyFromUserToBuffers \/ CopyInEx PROVE DataInv'
<1>0. /\ pc = "copy_in" /\ loc \in Locals(loc) /\ loc.resp = 0 /\ loc.rv = -1
      /\ SizesAt("copy_in", loc) /\ ListAt("copy_in", loc) /\ RespAt("copy_in", loc)
  BY DEF CopyFromUserToBuffers, CopyInEx, OwnInv, DataInv, DataAt, RespAt, Going
<1>1. loc.cmd \in {"OTHERS_UEFI", "UEFI_8205"} => loc.out >= HeaderSize + IOSize
  BY <1>0 DEF SizesAt, Going
<1>2. CASE CopyInEx
  <2>1. PICK c \in UserChunks : Cursor("in", c, loc.list["in"].ask, loc)
    BY <1>2 DEF CopyInEx
  <2>2. c \in Seq(Nat) /\ loc.list["in"].ask \in Unsigned
    BY <1>0, ChunksAssumption DEF ListAt, PiecesOK, Sides
  <2> QED
    BY <1>0, <2>1, <2>2, CursorData DEF Sides
<1>3. CASE Goto("respond")
  <2>1. RespAt("respond", loc)
    BY <1>0 DEF RespAt, Answering, Building
  <2> QED
    BY <1>0, <1>1, <1>3, <2>1, GotoData
<1>4. CASE loc.cmd = "WRITE_SYS_DATA" /\ Goto("bios")
  <2>1. RespAt("bios", loc)
    BY <1>0, <1>4 DEF RespAt, Building, Early
  <2> QED
    BY <1>0, <1>1, <1>4, <2>1, GotoData
<1> QED
  BY <1>0, <1>2, <1>3, <1>4, FailData DEF CopyFromUserToBuffers, Late

(* A move of the cursors.                                                     *)
LEMMA MoveData ==
  ASSUME OwnInv, DataInv, pc = "chunks", pc' = "chunks",
         loc'.in = loc.in, loc'.out = loc.out, loc'.left = loc.left, loc'.seg = loc.seg,
         loc'.resp = loc.resp, loc'.bytes = loc.bytes, loc'.list = loc.list, loc'.rv = loc.rv,
         loc'.cmd = loc.cmd, loc'.side = loc.side, loc'.answer = loc.answer,
         loc'.wrote = loc.wrote, loc'.max \in Unsigned, CursorAt("chunks", loc')
  PROVE  DataInv'
<1>0. SizesAt(pc, loc) /\ ListAt(pc, loc) /\ RespAt(pc, loc) /\ AnswerAt(pc, loc)
  BY DEF DataInv, DataAt
<1>1. SizesAt("chunks", loc')
  BY <1>0 DEF SizesAt
<1>2. ListAt("chunks", loc')
  BY <1>0, ListKept
<1>3. BuildAt("chunks", loc') /\ AnswerAt("chunks", loc')
  BY <1>0 DEF BuildAt, AnswerAt
<1>4. RespAt("chunks", loc')
  BY <1>0 DEF RespAt, Answering, Building
<1> QED
  BY <1>1, <1>2, <1>3, <1>4 DEF DataInv, DataAt

LEMMA ChunkData == ASSUME OwnInv, DataInv, CopyChunk PROVE DataInv'
<1> DEFINE pieces == loc.list[loc.side].pieces
           chunks == loc.chunks
<1>0. /\ pc = "chunks" /\ loc \in Locals(loc) /\ ~AtEnd /\ loc.side \in Sides
      /\ SizesAt("chunks", loc) /\ ListAt("chunks", loc) /\ CursorAt("chunks", loc)
  BY DEF CopyChunk, OwnInv, DataInv, DataAt, Locals
<1>1. /\ pieces \in Seq(Int) /\ Len(pieces) \in Nat /\ chunks \in Seq(Nat) /\ Len(chunks) \in Nat
      /\ loc.max \in Unsigned
  BY <1>0 DEF Locals, Lists, CursorAt, SizesAt
<1>2. \A i \in 1 .. Len(pieces) : pieces[i] \in Nat
  <2>1. loc.list[loc.side] \in Lists /\ PiecesOK(loc.list[loc.side])
    BY <1>0 DEF ListAt, Locals
  <2> QED
    BY <2>1, PiecesNat
<1>3. \A i \in 1 .. Len(chunks) : chunks[i] \in Nat
  BY <1>1
<1>4. /\ loc.u \in 1 .. Len(chunks) /\ loc.d \in 1 .. Len(pieces) /\ loc.ou \in Nat /\ loc.od \in Nat
      /\ loc.od <= pieces[loc.d] /\ SumTo(pieces, loc.d - 1) + loc.od + loc.max = loc.todo
      /\ loc.todo \in Unsigned /\ (~loc.moved => UserSide(loc))
      /\ loc.max # 0
  <2>1. loc.max # 0 /\ ~(loc.u > Len(chunks)) /\ ~(loc.d > Len(pieces))
    BY <1>0 DEF AtEnd, Pieces
  <2>2. loc.u \in Nat \ {0} /\ loc.d \in 1 .. Len(pieces) + 1
    BY <1>0 DEF CursorAt
  <2> HIDE DEF chunks, pieces
  <2>3. loc.u \in 1 .. Len(chunks) /\ loc.d \in 1 .. Len(pieces)
    BY <1>1, <2>1, <2>2
  <2> QED
    BY <1>0, <1>1, <2>1, <2>3 DEF CursorAt, chunks, pieces
<1>a. loc.u \in 1 .. Len(chunks) /\ loc.d \in 1 .. Len(pieces) /\ loc.ou \in Nat /\ loc.od \in Nat
  BY <1>4
<1> DEFINE nc == Len(chunks)
           np == Len(pieces)
<1> HIDE DEF chunks, pieces, nc, np
<1>b. nc \in Nat /\ np \in Nat /\ loc.u \in 1 .. nc /\ loc.d \in 1 .. np
  BY <1>1, <1>a DEF nc, np
<1>e. loc.ou \in Nat /\ loc.od \in Nat
  BY <1>a
<1>5. SumTo(chunks, loc.u - 1) \in Nat /\ SumTo(pieces, loc.d - 1) \in Nat
  <2>1. loc.u - 1 \in Nat /\ \A i \in 1 .. loc.u - 1 : i \in 1 .. nc
    BY <1>b
  <2>2. loc.d - 1 \in Nat /\ \A i \in 1 .. loc.d - 1 : i \in 1 .. np
    BY <1>b
  <2>3. (\A i \in 1 .. loc.u - 1 : chunks[i] \in Nat) /\ \A i \in 1 .. loc.d - 1 : pieces[i] \in Nat
    BY <1>2, <1>3, <2>1, <2>2 DEF nc, np
  <2> QED
    BY <2>1, <2>2, <2>3, SumNat
<1>6. chunks[loc.u] \in Nat /\ pieces[loc.d] \in Nat
  BY <1>2, <1>3, <1>4
<1>f. ASSUME NEW x \in Nat, NEW y \in Nat, y <= x PROVE x = y + (x - y) /\ x - y \in Nat
  BY <1>f
<1>c. pieces[loc.d] = loc.od + Rd /\ Ru \in Nat /\ Rd \in Nat
  <2>1. Rd = pieces[loc.d] - loc.od
    BY DEF Rd, Pieces, pieces
  <2>2. Ru = IF loc.ou <= chunks[loc.u] THEN chunks[loc.u] - loc.ou ELSE Modulus
    BY DEF Ru, chunks
  <2> QED
    BY <1>4, <1>6, <1>e, <1>f, <2>1, <2>2, Constants
<1>u. ASSUME ~loc.moved
      PROVE  /\ loc.ou <= chunks[loc.u] /\ chunks[loc.u] = loc.ou + Ru
             /\ SumTo(chunks, loc.u - 1) + loc.ou + loc.max = loc.todo
  <2>1. /\ loc.ou <= chunks[loc.u] /\ SumTo(chunks, loc.u - 1) + loc.ou + loc.max = loc.todo
    BY <1>4, <1>b, <1>u DEF UserSide, chunks, nc
  <2>2. Ru = chunks[loc.u] - loc.ou
    BY <2>1 DEF Ru, chunks
  <2> QED
    BY <1>6, <1>e, <1>f, <2>1, <2>2
<1>g. loc.max \in Int /\ loc.todo \in Int /\ loc.moved \in BOOLEAN
  BY <1>0, <1>1, <1>4, Constants DEF Unsigned, Locals
<1>7. CASE Ru = 0 /\ NextUserBuffer /\ UNCHANGED pc
  <2> DEFINE m == [loc EXCEPT !.u = loc.u + 1]
  <2>1. loc' = [m EXCEPT !.ou = 0]
    BY <1>7 DEF NextUserBuffer
  <2>2. m \in Locals(m) /\ m.u = loc.u + 1
    BY <1>0 DEF Locals
  <2>3. /\ m.in = loc.in /\ m.out = loc.out /\ m.left = loc.left /\ m.seg = loc.seg
        /\ m.resp = loc.resp /\ m.bytes = loc.bytes /\ m.list = loc.list
    BY <1>0 DEF Locals
  <2>4. /\ m.rv = loc.rv /\ m.cmd = loc.cmd /\ m.side = loc.side /\ m.answer = loc.answer
        /\ m.wrote = loc.wrote /\ m.max = loc.max
    BY <1>0 DEF Locals
  <2>5. /\ m.chunks = chunks /\ m.d = loc.d /\ m.od = loc.od /\ m.moved = loc.moved
        /\ m.todo = loc.todo
    BY <1>0 DEF Locals, chunks
  <2> HIDE DEF m
  <2>6. /\ loc'.in = loc.in /\ loc'.out = loc.out /\ loc'.left = loc.left /\ loc'.seg = loc.seg
        /\ loc'.resp = loc.resp /\ loc'.bytes = loc.bytes /\ loc'.list = loc.list
    BY <2>1, <2>2, <2>3 DEF Locals
  <2>7. /\ loc'.rv = loc.rv /\ loc'.cmd = loc.cmd /\ loc'.side = loc.side
        /\ loc'.answer = loc.answer /\ loc'.wrote = loc.wrote /\ loc'.max = loc.max
    BY <2>1, <2>2, <2>4 DEF Locals
  <2>8. /\ loc'.chunks = chunks /\ loc'.d = loc.d /\ loc'.od = loc.od /\ loc'.u = loc.u + 1
        /\ loc'.ou = 0 /\ loc'.moved = loc.moved /\ loc'.todo = loc.todo
    BY <2>1, <2>2, <2>5 DEF Locals
  <2>9. CursorAt("chunks", loc')
    <3>1. SumTo(chunks, loc.u) = SumTo(chunks, loc.u - 1) + chunks[loc.u]
      <4>1. loc.u - 1 \in Nat /\ (loc.u - 1) + 1 = loc.u
        BY <1>b
      <4> QED
        BY <4>1, SumNext
    <3>2. ~loc.moved => loc.ou = chunks[loc.u]
      BY <1>c, <1>e, <1>u, <1>7
    <3>3. /\ loc'.u - 1 = loc.u /\ loc'.u \in 1 .. nc + 1 /\ loc'.u \in Nat \ {0}
      BY <1>b, <2>8
    <3>4. loc'.u <= nc => 0 <= chunks[loc'.u]
      BY <1>b, <1>3, <3>3 DEF nc
    <3>5. ~loc.moved => SumTo(chunks, loc'.u - 1) + loc'.ou + loc'.max = loc'.todo
      BY <1>5, <1>6, <1>e, <1>g, <1>u, <2>7, <2>8, <3>1, <3>2, <3>3
    <3>6. loc'.list[loc'.side].pieces = pieces
      BY <2>6, <2>7 DEF pieces
    <3>7. loc'.d \in 1 .. np + 1
      BY <1>b, <2>8
    <3>8. SumTo(pieces, loc'.d - 1) + loc'.od + loc'.max = loc'.todo
      BY <1>4, <2>7, <2>8
    <3>9. ~loc'.moved => UserSide(loc')
      BY <1>b, <2>8, <3>3, <3>4, <3>5 DEF UserSide, nc
    <3> QED
      BY <1>1, <1>4, <2>8, <3>3, <3>6, <3>7, <3>8, <3>9 DEF CursorAt, nc, np
  <2> QED
    BY <1>0, <1>1, <1>7, <2>6, <2>7, <2>9, MoveData
<1>8. CASE Rd = 0 /\ NextDriverBuffer /\ UNCHANGED pc
  <2> DEFINE m == [loc EXCEPT !.d = loc.d + 1]
  <2>1. loc' = [m EXCEPT !.od = 0]
    BY <1>8 DEF NextDriverBuffer
  <2>2. m \in Locals(m) /\ m.d = loc.d + 1
    BY <1>0 DEF Locals
  <2>3. /\ m.in = loc.in /\ m.out = loc.out /\ m.left = loc.left /\ m.seg = loc.seg
        /\ m.resp = loc.resp /\ m.bytes = loc.bytes /\ m.list = loc.list
    BY <1>0 DEF Locals
  <2>4. /\ m.rv = loc.rv /\ m.cmd = loc.cmd /\ m.side = loc.side /\ m.answer = loc.answer
        /\ m.wrote = loc.wrote /\ m.max = loc.max
    BY <1>0 DEF Locals
  <2>5. /\ m.chunks = chunks /\ m.u = loc.u /\ m.ou = loc.ou /\ m.moved = loc.moved
        /\ m.todo = loc.todo
    BY <1>0 DEF Locals, chunks
  <2> HIDE DEF m
  <2>6. /\ loc'.in = loc.in /\ loc'.out = loc.out /\ loc'.left = loc.left /\ loc'.seg = loc.seg
        /\ loc'.resp = loc.resp /\ loc'.bytes = loc.bytes /\ loc'.list = loc.list
    BY <2>1, <2>2, <2>3 DEF Locals
  <2>7. /\ loc'.rv = loc.rv /\ loc'.cmd = loc.cmd /\ loc'.side = loc.side
        /\ loc'.answer = loc.answer /\ loc'.wrote = loc.wrote /\ loc'.max = loc.max
    BY <2>1, <2>2, <2>4 DEF Locals
  <2>8. /\ loc'.chunks = chunks /\ loc'.u = loc.u /\ loc'.ou = loc.ou /\ loc'.d = loc.d + 1
        /\ loc'.od = 0 /\ loc'.moved = loc.moved /\ loc'.todo = loc.todo
    BY <2>1, <2>2, <2>5 DEF Locals
  <2>9. CursorAt("chunks", loc')
    <3>1. SumTo(pieces, loc.d) = SumTo(pieces, loc.d - 1) + pieces[loc.d]
      <4>1. loc.d - 1 \in Nat /\ (loc.d - 1) + 1 = loc.d
        BY <1>b
      <4> QED
        BY <4>1, SumNext
    <3>2. loc.od = pieces[loc.d]
      BY <1>c, <1>e, <1>8
    <3>3. loc'.d - 1 = loc.d /\ loc'.d \in 1 .. np + 1 /\ loc'.d \in Int
      BY <1>b, <2>8
    <3>4. loc'.d <= np => 0 <= pieces[loc'.d]
      BY <1>b, <1>2, <3>3 DEF np
    <3>5. SumTo(pieces, loc'.d - 1) + loc'.od + loc'.max = loc'.todo
      BY <1>4, <1>5, <1>6, <1>g, <2>7, <2>8, <3>1, <3>2, <3>3
    <3>6. loc'.list[loc'.side].pieces = pieces
      BY <2>6, <2>7 DEF pieces
    <3>7. loc'.u \in Nat \ {0}
      BY <1>b, <2>8
    <3>8. ~loc'.moved => UserSide(loc')
      BY <1>4, <2>7, <2>8 DEF UserSide, chunks
    <3> QED
      BY <1>1, <1>4, <2>8, <3>3, <3>4, <3>5, <3>6, <3>7, <3>8 DEF CursorAt, nc, np
  <2> QED
    BY <1>0, <1>1, <1>8, <2>6, <2>7, <2>9, MoveData
<1>9. CASE /\ Ru # 0 /\ Rd # 0 /\ UNCHANGED pc
           /\ LET c == Min2(loc.max, Min2(Ru, Rd))
              IN loc' = [loc EXCEPT !.ou = @ + c, !.od = @ + c, !.max = @ - c]
  <2> DEFINE c == Min2(loc.max, Min2(Ru, Rd))
             m == [loc EXCEPT !.ou = loc.ou + c]
             k == [m EXCEPT !.od = loc.od + c]
  <2>0. /\ c \in Nat /\ c <= loc.max /\ loc.od + c <= pieces[loc.d]
        /\ ~loc.moved => loc.ou + c <= chunks[loc.u]
    <3>1. loc.max \in Nat
      BY <1>1, Constants DEF Unsigned
    <3>2. c \in Nat /\ c <= loc.max /\ c <= Ru /\ c <= Rd
      BY <1>c, <3>1 DEF Min2
    <3> HIDE DEF c
    <3>3. loc.od + c <= pieces[loc.d]
      BY <1>c, <1>e, <3>2
    <3>4. ~loc.moved => loc.ou + c <= chunks[loc.u]
      BY <1>c, <1>e, <1>u, <3>2
    <3> QED
      BY <3>2, <3>3, <3>4
  <2>1. loc' = [k EXCEPT !.max = loc.max - c]
    <3>1. loc' = [loc EXCEPT !.ou = loc.ou + c, !.od = loc.od + c, !.max = loc.max - c]
      BY <1>9
    <3> HIDE DEF c
    <3> QED
      BY <3>1
  <2>k. k = [m EXCEPT !.od = loc.od + c]
    OBVIOUS
  <2> HIDE DEF c, k
  <2>2. m \in Locals(m) /\ m.ou = loc.ou + c
    BY <1>0 DEF Locals
  <2>3. /\ m.in = loc.in /\ m.out = loc.out /\ m.left = loc.left /\ m.seg = loc.seg
        /\ m.resp = loc.resp /\ m.bytes = loc.bytes /\ m.list = loc.list
    BY <1>0 DEF Locals
  <2>4. /\ m.rv = loc.rv /\ m.cmd = loc.cmd /\ m.side = loc.side /\ m.answer = loc.answer
        /\ m.wrote = loc.wrote
    BY <1>0 DEF Locals
  <2>5. /\ m.chunks = chunks /\ m.u = loc.u /\ m.d = loc.d /\ m.moved = loc.moved
        /\ m.todo = loc.todo
    BY <1>0 DEF Locals, chunks
  <2> HIDE DEF m
  <2>6. k \in Locals(k) /\ k.ou = loc.ou + c /\ k.od = loc.od + c
    BY <2>2, <2>k DEF Locals
  <2>7. /\ k.in = loc.in /\ k.out = loc.out /\ k.left = loc.left /\ k.seg = loc.seg
        /\ k.resp = loc.resp /\ k.bytes = loc.bytes /\ k.list = loc.list
    BY <2>2, <2>3, <2>k DEF Locals
  <2>8. /\ k.rv = loc.rv /\ k.cmd = loc.cmd /\ k.side = loc.side /\ k.answer = loc.answer
        /\ k.wrote = loc.wrote
    BY <2>2, <2>4, <2>k DEF Locals
  <2>9. /\ k.chunks = chunks /\ k.u = loc.u /\ k.d = loc.d /\ k.moved = loc.moved
        /\ k.todo = loc.todo
    BY <2>2, <2>5, <2>k DEF Locals
  <2>10. loc'.ou = loc.ou + c /\ loc'.od = loc.od + c /\ loc'.max = loc.max - c
    BY <2>1, <2>6 DEF Locals
  <2>11. /\ loc'.in = loc.in /\ loc'.out = loc.out /\ loc'.left = loc.left /\ loc'.seg = loc.seg
         /\ loc'.resp = loc.resp /\ loc'.bytes = loc.bytes /\ loc'.list = loc.list
    BY <2>1, <2>6, <2>7 DEF Locals
  <2>12. /\ loc'.rv = loc.rv /\ loc'.cmd = loc.cmd /\ loc'.side = loc.side
         /\ loc'.answer = loc.answer /\ loc'.wrote = loc.wrote
    BY <2>1, <2>6, <2>8 DEF Locals
  <2>13. /\ loc'.chunks = chunks /\ loc'.u = loc.u /\ loc'.d = loc.d /\ loc'.moved = loc.moved
         /\ loc'.todo = loc.todo
    BY <2>1, <2>6, <2>9 DEF Locals
  <2>14. loc'.max \in Unsigned
    BY <1>1, <2>0, <2>10, Constants DEF Unsigned
  <2>15. CursorAt("chunks", loc')
    <3>0. ASSUME NEW sum \in Nat, NEW o \in Nat, sum + o + loc.max = loc.todo
          PROVE  sum + (o + c) + (loc.max - c) = loc.todo
      BY <1>g, <2>0, <3>0
    <3>1. SumTo(pieces, loc'.d - 1) + loc'.od + loc'.max = loc'.todo
      BY <1>4, <1>5, <1>e, <2>10, <2>13, <3>0
    <3>2. loc'.list[loc'.side].pieces = pieces
      BY <2>11, <2>12 DEF pieces
    <3>3. loc'.u \in Nat \ {0} /\ loc'.u <= nc + 1 /\ loc'.d \in 1 .. np + 1
      BY <1>b, <2>13
    <3>4. loc'.ou \in Nat /\ loc'.od \in Nat
      BY <1>e, <2>0, <2>10
    <3>5. loc'.od <= pieces[loc'.d]
      BY <2>0, <2>10, <2>13
    <3>6. ASSUME ~loc'.moved PROVE UserSide(loc')
      <4>1. SumTo(chunks, loc'.u - 1) + loc'.ou + loc'.max = loc'.todo
        BY <1>5, <1>e, <1>u, <2>10, <2>13, <3>0, <3>6
      <4>2. loc'.ou <= chunks[loc'.u]
        BY <2>0, <2>10, <2>13, <3>6
      <4> QED
        BY <2>13, <3>3, <4>1, <4>2 DEF UserSide, nc
    <3> QED
      BY <1>1, <1>4, <2>13, <3>1, <3>2, <3>3, <3>4, <3>5, <3>6 DEF CursorAt, np
  <2> QED
    BY <1>0, <1>9, <2>11, <2>12, <2>14, <2>15, MoveData
<1> QED
  BY <1>0, <1>7, <1>8, <1>9, FailData DEF CopyChunk, Late

(* Another list of the caller: what is known of its own side is lost.         *)
LEMMA WritesData == ASSUME OwnInv, DataInv, UserWrites PROVE DataInv'
<1>0. pc = "chunks" /\ pc' = pc /\ loc \in Locals(loc) /\ CursorAt("chunks", loc)
      /\ loc.max \in Unsigned
  BY DEF UserWrites, OwnInv, DataInv, DataAt, SizesAt
<1>1. PICK c \in UserChunks : loc' = [loc EXCEPT !.chunks = c, !.moved = TRUE]
  BY DEF UserWrites
<1>2. /\ loc'.in = loc.in /\ loc'.out = loc.out /\ loc'.left = loc.left /\ loc'.seg = loc.seg
      /\ loc'.resp = loc.resp /\ loc'.bytes = loc.bytes /\ loc'.list = loc.list
  BY <1>0, <1>1 DEF Locals
<1>3. /\ loc'.rv = loc.rv /\ loc'.cmd = loc.cmd /\ loc'.side = loc.side
      /\ loc'.answer = loc.answer /\ loc'.wrote = loc.wrote /\ loc'.max = loc.max
  BY <1>0, <1>1 DEF Locals
<1>4. /\ loc'.chunks = c /\ loc'.moved = TRUE /\ loc'.todo = loc.todo /\ loc'.u = loc.u
      /\ loc'.ou = loc.ou /\ loc'.d = loc.d /\ loc'.od = loc.od
  BY <1>0, <1>1 DEF Locals
<1>5. CursorAt("chunks", loc')
  BY <1>0, <1>2, <1>3, <1>4, ChunksAssumption DEF CursorAt
<1> QED
  BY <1>0, <1>2, <1>3, <1>5, MoveData

(* A call that has succeeded.                                                 *)
LEMMA EndData ==
  ASSUME OwnInv, DataInv, pc \in {"chunks", "answer"}, pc' = "cleanup",
         loc'.in = loc.in, loc'.out = loc.out, loc'.left = loc.left, loc'.seg = loc.seg,
         loc'.resp = loc.resp, loc'.max = loc.max, loc'.list = loc.list,
         loc'.bytes \in Unsigned,
         loc'.answer = loc'.cmd =>
           loc'.wrote <= loc.out /\ (loc'.cmd # "UEFI_8205" => loc'.bytes = loc'.wrote)
  PROVE  DataInv'
<1>1. SizesAt("cleanup", loc')
  BY DEF DataInv, DataAt, SizesAt, Going, Building
<1>2. ListAt("cleanup", loc')
  BY ListKept DEF DataInv, DataAt
<1>3. BuildAt("cleanup", loc') /\ CursorAt("cleanup", loc') /\ AnswerAt("cleanup", loc')
  BY DEF BuildAt, CursorAt, AnswerAt
<1>4. RespAt("cleanup", loc')
  BY DEF RespAt, Going, Building, Answering, Early
<1> QED
  BY <1>1, <1>2, <1>3, <1>4 DEF DataInv, DataAt

LEMMA ChunksDoneData == ASSUME OwnInv, DataInv, ChunksDone PROVE DataInv'
<1>0. /\ pc = "chunks" /\ loc \in Locals(loc) /\ loc.rv = -1
      /\ SizesAt("chunks", loc) /\ RespAt("chunks", loc) /\ AnswerAt("chunks", loc)
  BY DEF ChunksDone, OwnInv, DataInv, DataAt, RespAt, Going
<1>1. loc.cmd \in {"OTHERS_UEFI", "UEFI_8205"} => loc.out >= HeaderSize + IOSize
  BY <1>0 DEF SizesAt, Going
<1>2. CASE loc.side = "in" /\ Goto("respond")
  <2>1. RespAt("respond", loc)
    BY <1>0, <1>2 DEF RespAt, Answering, Building
  <2> QED
    BY <1>0, <1>1, <1>2, <2>1, GotoData
<1>3. ASSUME loc.side = "out", NEW c \in Counts,
             Set("cleanup", [loc EXCEPT !.rv = 0, !.bytes = c % Modulus])
      PROVE  DataInv'
  <2>1. c % Modulus \in Unsigned
    BY Wraps, SizesAssumption
  <2>2. /\ pc' = "cleanup" /\ loc'.in = loc.in /\ loc'.out = loc.out /\ loc'.left = loc.left
        /\ loc'.seg = loc.seg /\ loc'.resp = loc.resp /\ loc'.max = loc.max
    BY <1>0, <1>3 DEF Set, Locals
  <2>3. /\ loc'.list = loc.list /\ loc'.bytes = c % Modulus /\ loc'.cmd = loc.cmd
        /\ loc'.answer = loc.answer /\ loc'.wrote = loc.wrote
    BY <1>0, <1>3 DEF Set, Locals
  <2>4. loc.answer = "UEFI_8205" /\ loc.wrote = HeaderSize + IOSize
    BY <1>0, <1>3 DEF AnswerAt
  <2> QED
    BY <1>0, <1>1, <2>1, <2>2, <2>3, <2>4, EndData
<1>4. CASE RunPastTable(loc.side)
  BY <1>4, CrashData DEF RunPastTable
<1> QED
  BY <1>0, <1>2, <1>3, <1>4, FailData DEF ChunksDone, Copied, Late

(* The BIOS, the answer and the end *)

LEMMA BiosData == ASSUME OwnInv, DataInv, CallBios PROVE DataInv'
<1>0. /\ pc = "bios" /\ loc \in Locals(loc)
      /\ SizesAt("bios", loc) /\ ListAt("bios", loc) /\ RespAt("bios", loc)
  BY DEF CallBios, OwnInv, DataInv, DataAt
<1>1. ASSUME NEW c \in Commands,
             Set("answer", [loc EXCEPT !.answer = c, !.wrote = HeaderSize, !.bytes = HeaderSize])
      PROVE  DataInv'
  <2>1. /\ pc' = "answer" /\ loc'.in = loc.in /\ loc'.out = loc.out /\ loc'.left = loc.left
        /\ loc'.seg = loc.seg /\ loc'.resp = loc.resp /\ loc'.max = loc.max
    BY <1>0, <1>1 DEF Set, Locals
  <2>2. loc'.list = loc.list /\ loc'.bytes = HeaderSize /\ loc'.cmd = loc.cmd /\ loc'.rv = loc.rv
    BY <1>0, <1>1 DEF Set, Locals
  <2>3. HeaderSize \in Unsigned
    BY Constants, HeadersFit DEF Unsigned
  <2>4. SizesAt("answer", loc')
    BY <1>0, <2>1, <2>2, <2>3 DEF SizesAt, Going
  <2>5. ListAt("answer", loc')
    BY <1>0, <2>2, ListKept
  <2>6. BuildAt("answer", loc') /\ CursorAt("answer", loc') /\ AnswerAt("answer", loc')
    BY DEF BuildAt, CursorAt, AnswerAt
  <2>7. RespAt("answer", loc')
    BY <1>0, <2>1, <2>2 DEF RespAt, Going, Building, Answering, Early, There
  <2> QED
    BY <2>1, <2>4, <2>5, <2>6, <2>7 DEF DataInv, DataAt
<1> QED
  BY <1>0, <1>1, FailData DEF CallBios, Late

LEMMA SucceedData ==
  ASSUME OwnInv, DataInv, pc = "answer", NEW extent \in Nat, Succeed(extent),
         loc.answer = loc.cmd => extent <= loc.out
  PROVE  DataInv'
<1>0. loc \in Locals(loc) /\ loc.out \in Unsigned
  BY DEF OwnInv, DataInv, DataAt, SizesAt
<1>1. /\ pc' = "cleanup" /\ loc'.in = loc.in /\ loc'.out = loc.out /\ loc'.left = loc.left
      /\ loc'.seg = loc.seg /\ loc'.resp = loc.resp /\ loc'.max = loc.max
  BY <1>0 DEF Succeed, Set, Locals
<1>2. /\ loc'.list = loc.list /\ loc'.bytes = extent % Modulus /\ loc'.cmd = loc.cmd
      /\ loc'.answer = loc.answer /\ loc'.wrote = extent
  BY <1>0 DEF Succeed, Set, Locals
<1>3. extent % Modulus \in Unsigned
  BY Wraps
<1>4. extent <= loc.out => extent % Modulus = extent
  BY <1>0, Constants DEF Unsigned
<1> QED
  BY <1>1, <1>2, <1>3, <1>4, EndData

LEMMA AnswerUefiData == ASSUME OwnInv, DataInv, AnswerUefi PROVE DataInv'
<1>0. /\ pc = "answer" /\ loc \in Locals(loc) /\ loc.answer = "OTHERS_UEFI"
      /\ SizesAt("answer", loc) /\ RespAt("answer", loc)
  BY DEF AnswerUefi, OwnInv, DataInv, DataAt
<1>1. CASE Succeed(HeaderSize + IOSize + loc.resp)
  <2>2. HeaderSize + IOSize + loc.resp \in Nat
    BY <1>0, Constants DEF SizesAt, Unsigned
  <2>3. loc.cmd = "OTHERS_UEFI" => HeaderSize + IOSize + loc.resp <= loc.out
    <3>1. loc.cmd = "OTHERS_UEFI" => loc.resp = loc.out - (HeaderSize + IOSize)
      BY <1>0 DEF RespAt, Answering
    <3>2. loc.out \in Int
      BY <1>0, Constants DEF SizesAt, Unsigned
    <3> QED
      BY <3>1, <3>2, Constants
  <2> QED
    BY <1>0, <1>1, <2>2, <2>3, SucceedData
<1> QED
  BY <1>0, <1>1, FailData DEF AnswerUefi, Late

LEMMA Answer8205Data == ASSUME OwnInv, DataInv, Answer8205 PROVE DataInv'
<1>0. /\ pc = "answer" /\ loc \in Locals(loc) /\ loc.answer = "UEFI_8205"
      /\ SizesAt("answer", loc)
  BY DEF Answer8205, OwnInv, DataInv, DataAt
<1>1. ASSUME NEW compared \in Counts, NEW used \in Counts, NEW chunks \in UserChunks,
             Cursor("out", chunks, IF loc.resp < compared THEN loc.resp ELSE used % Modulus,
                    [loc EXCEPT !.wrote = HeaderSize + IOSize])
      PROVE  DataInv'
  <2> DEFINE max == IF loc.resp < compared THEN loc.resp ELSE used % Modulus
  <2> DEFINE l == [loc EXCEPT !.wrote = HeaderSize + IOSize]
  <2>1. /\ l \in Locals(l) /\ l.in = loc.in /\ l.out = loc.out /\ l.left = loc.left
        /\ l.seg = loc.seg /\ l.cmd = loc.cmd /\ l.resp = loc.resp
    BY <1>0 DEF Locals
  <2>2. /\ l.bytes = loc.bytes /\ l.list = loc.list /\ l.rv = loc.rv
        /\ l.answer = loc.answer /\ l.wrote = HeaderSize + IOSize
    BY <1>0 DEF Locals
  <2> HIDE DEF l
  <2>3. max \in Unsigned
    <3>1. loc.resp \in Unsigned /\ used % Modulus \in Unsigned
      BY <1>0, Wraps, SizesAssumption DEF SizesAt
    <3> QED
      BY <3>1
  <2>4. chunks \in Seq(Nat)
    BY ChunksAssumption
  <2>5. Cursor("out", chunks, max, l)
    BY <1>1 DEF l
  <2> HIDE DEF max
  <2> QED
    BY <1>0, <2>1, <2>2, <2>3, <2>4, <2>5, CursorData DEF Sides
<1>2. ASSUME NEW c \in Counts,
             Set("cleanup", [loc EXCEPT !.rv = 0, !.wrote = HeaderSize + IOSize,
                                        !.bytes = c % Modulus])
      PROVE  DataInv'
  <2>1. c % Modulus \in Unsigned
    BY Wraps, SizesAssumption
  <2>2. /\ pc' = "cleanup" /\ loc'.in = loc.in /\ loc'.out = loc.out /\ loc'.left = loc.left
        /\ loc'.seg = loc.seg /\ loc'.resp = loc.resp /\ loc'.max = loc.max
    BY <1>0, <1>2 DEF Set, Locals
  <2>3. /\ loc'.list = loc.list /\ loc'.bytes = c % Modulus /\ loc'.cmd = loc.cmd
        /\ loc'.answer = loc.answer /\ loc'.wrote = HeaderSize + IOSize
    BY <1>0, <1>2 DEF Set, Locals
  <2>4. loc.cmd = "UEFI_8205" => loc.out >= HeaderSize + IOSize
    BY <1>0 DEF SizesAt, Going
  <2>5. loc.out \in Int
    BY <1>0, Constants DEF SizesAt, Unsigned
  <2>6. loc'.answer = loc'.cmd =>
          loc'.wrote <= loc.out /\ (loc'.cmd # "UEFI_8205" => loc'.bytes = loc'.wrote)
    BY <1>0, <2>3, <2>4, <2>5, Constants
  <2> QED
    BY <1>0, <2>1, <2>2, <2>3, <2>6, EndData
<1> QED
  BY <1>0, <1>1, <1>2, FailData DEF Answer8205, Late

(* The remainder of a difference that is small or negative.                   *)
LEMMA WrapIs ==
  ASSUME NEW x \in Int, -Modulus <= x, x < Modulus
  PROVE  x % Modulus = IF x >= 0 THEN x ELSE x + Modulus
<1>1. CASE x >= 0
  BY <1>1, Constants
<1>2. CASE x < 0
  BY <1>2, Constants
<1> QED
  BY <1>1, <1>2

(* What a response is said to hold behind its header is wrapped only when it  *)
(* is more than a list can hold.                                              *)
LEMMA ReadFits ==
  ASSUME NEW out \in Unsigned, DataSize(out, ReadOfs) <= (MaxSegs + 1) * MaxSpan
  PROVE  /\ HeaderSize + ReadOfs + DataSize(out, ReadOfs) \in Unsigned
         /\ HeaderSize + ReadOfs + DataSize(out, ReadOfs) <= out
<1> DEFINE whole == (MaxSegs + 1) * MaxSpan
           x == out - (HeaderSize + ReadOfs)
           n == DataSize(out, ReadOfs)
<1>1. whole \in Nat /\ whole + HeaderSize + IOSize + WriteOfs + ReadOfs < Modulus /\ n <= whole
  BY HeadersFit
<1>2. n = x % Modulus
  BY DEF DataSize, Minus
<1> HIDE DEF whole, n
<1>3. x \in Int /\ -Modulus <= x /\ x < Modulus /\ out \in Nat
  BY <1>1, Constants DEF Unsigned
<1>4. n = IF x >= 0 THEN x ELSE x + Modulus
  BY <1>2, <1>3, WrapIs
<1>5. x >= 0
  <2>1. CASE x < 0
    <3>1. n = out - (HeaderSize + ReadOfs) + Modulus
      BY <1>3, <1>4, <2>1
    <3> QED
      BY <1>1, <1>3, <3>1, Constants
  <2> QED
    BY <1>3, <2>1
<1>6. HeaderSize + ReadOfs + n = out
  BY <1>3, <1>4, <1>5, Constants
<1> QED
  BY <1>3, <1>6 DEF n

(* A list that is read is the one that was built when the BIOS kept the       *)
(* command.                                                                   *)
LEMMA AnswerReadData == ASSUME OwnInv, DataInv, AnswerRead PROVE DataInv'
<1> DEFINE list == loc.list["out"]
           n == DataSize(loc.out, ReadOfs)
<1>0. /\ pc = "answer" /\ loc \in Locals(loc) /\ SizesAt("answer", loc) /\ ListAt("answer", loc)
      /\ RespAt("answer", loc) /\ loc.answer = "READ_SYS_DATA"
  BY DEF AnswerRead, OwnInv, DataInv, DataAt
<1>1. CASE list.there /\ Succeed(HeaderSize + ReadOfs + n)
  <2>1. list \in Lists /\ PiecesOK(list) /\ Total(list.pieces) = list.ask
    BY <1>0, <1>1 DEF ListAt, Partial, Sides, Locals, There
  <2>2. loc.out \in Unsigned /\ n \in Unsigned
    <3>1. loc.out \in Unsigned
      BY <1>0 DEF SizesAt
    <3>2. loc.out - (HeaderSize + ReadOfs) \in Int
      BY <3>1, Constants DEF Unsigned
    <3> QED
      BY <3>1, <3>2, Wraps DEF DataSize, Minus
  <2>k. loc.cmd = "READ_SYS_DATA" => list.ask = n
    BY <1>0 DEF RespAt, Answering
  <2> HIDE DEF list, n
  <2>3. loc.cmd = "READ_SYS_DATA" => n <= (MaxSegs + 1) * MaxSpan
    BY <2>1, <2>k, WholeFits
  <2>4. loc.cmd = "READ_SYS_DATA" => HeaderSize + ReadOfs + n <= loc.out
    BY <2>2, <2>3, ReadFits DEF n
  <2>5. HeaderSize + ReadOfs + n \in Nat
    BY <2>2, Constants DEF Unsigned
  <2> QED
    BY <1>0, <1>1, <2>4, <2>5, SucceedData DEF n
<1>2. ASSUME NEW what, Crash(what) PROVE DataInv'
  BY <1>0, <1>2, CrashData
<1> QED
  BY <1>0, <1>1, <1>2, FailData DEF AnswerRead, RunPastTable, Late

LEMMA AnswerOtherData == ASSUME OwnInv, DataInv, AnswerOther PROVE DataInv'
<1>0. pc = "answer" /\ loc \in Locals(loc) /\ SizesAt("answer", loc)
  BY DEF AnswerOther, OwnInv, DataInv, DataAt
<1>1. CASE Succeed(HeaderSize + AnswerSize(loc.out))
  <2>1. loc.out \in Unsigned /\ loc.out >= HeaderSize
    BY <1>0 DEF SizesAt
  <2>2. HeaderSize + AnswerSize(loc.out) \in Nat /\ HeaderSize + AnswerSize(loc.out) <= loc.out
    BY <2>1, Constants DEF AnswerSize, Min2, Unsigned
  <2> QED
    BY <1>0, <1>1, <2>2, SucceedData
<1> QED
  BY <1>0, <1>1, FailData DEF AnswerOther, Late

LEMMA CleanUpData == ASSUME OwnInv, DataInv, CleanUp PROVE DataInv'
<1>0. pc = "cleanup"
  BY DEF CleanUp
<1>1. CASE pc' = "idle" /\ loc' = NoCall
  BY <1>1, NoCallData DEF DataInv
<1>2. ASSUME NEW what, Crash(what) PROVE DataInv'
  BY <1>0, <1>2, CrashData
<1> QED
  BY <1>1, <1>2 DEF CleanUp, RunPastTable

LEMMA CallData == ASSUME OwnInv, DrvGabiCall PROVE DataInv'
<1>1. PICK in \in InSizes, out \in OutSizes :
        in >= HeaderSize /\ out >= HeaderSize /\ Set("control", [NoCall EXCEPT !.in = in, !.out = out])
  BY DEF DrvGabiCall
<1>2. in \in Unsigned /\ out \in Unsigned
  BY SizesAssumption DEF Unsigned
<1>3. /\ pc' = "control" /\ loc'.in = in /\ loc'.out = out /\ loc'.left = 0 /\ loc'.seg = 0
      /\ loc'.resp = 0 /\ loc'.max = 0 /\ loc'.bytes = 0 /\ loc'.rv = -1
      /\ loc'.list = NoCall.list
  BY <1>1 DEF Set, NoCall
<1>4. ListAt("control", loc')
  <2>1. \A w \in Sides : loc'.list[w] = NoList
    BY <1>3 DEF NoCall
  <2> QED
    BY <2>1, NoListData, NoListOK DEF ListAt, There
<1>5. SizesAt("control", loc')
  <2>1. 0 \in Unsigned
    BY Constants DEF Unsigned
  <2> QED
    BY <1>1, <1>2, <1>3, <2>1 DEF SizesAt, Going, Building
<1>6. BuildAt("control", loc') /\ CursorAt("control", loc') /\ AnswerAt("control", loc')
  BY DEF BuildAt, CursorAt, AnswerAt
<1>7. RespAt("control", loc')
  BY <1>3 DEF RespAt, Going, Building, Answering, Early
<1> QED
  BY <1>3, <1>4, <1>5, <1>6, <1>7 DEF DataInv, DataAt

LEMMA DataNext == ASSUME OwnInv, DataInv, [Next]_vars PROVE DataInv'
<1>1. CASE UNCHANGED vars
  BY <1>1 DEF DataInv, vars
<1>2. CASE Load \/ DrvOpen \/ DrvRelease
  BY <1>2 DEF DataInv, Load, DrvOpen, DrvRelease
<1>3. CASE DrvGabiCall
  BY <1>3, CallData
<1>4. CASE \E b \in Buffers : AllocateContiguousBuffer(b)
  BY <1>4, BufferData
<1>5. CASE BuildTable \/ AllocateSegment \/ HalveSegment \/ Unbuild \/ Built
  BY <1>5, TableData, SegmentData, HalveData, UnbuildData, BuiltData
<1>6. CASE CopyHeader
  BY <1>6, HeaderData
<1>7. CASE SetUpFlash
  BY <1>7, FailData DEF SetUpFlash, SetUp, Late
<1>8. CASE SetUpUefi \/ SetUpResponse \/ SetUpOther
  BY <1>8, UefiData, ResponseData, OtherData
<1>9. CASE CopyFromUserToBuffers \/ CopyInEx \/ CopyChunk \/ ChunksDone
  BY <1>9, CopyInData, ChunkData, ChunksDoneData
<1>10. CASE CallBios
  BY <1>10, BiosData
<1>11. CASE AnswerUefi \/ Answer8205 \/ AnswerRead \/ AnswerOther
  BY <1>11, AnswerUefiData, Answer8205Data, AnswerReadData, AnswerOtherData
<1>12. CASE CleanUp
  BY <1>12, CleanUpData
<1>13. CASE Unload \/ UseStale \/ UserFault
  BY <1>13, CrashData DEF Unload, UseStale, UserFault, DataInv
<1>14. CASE UserWrites
  BY <1>14, WritesData
<1> QED
  BY <1>1, <1>2, <1>3, <1>4, <1>5, <1>6, <1>7, <1>8, <1>9, <1>10, <1>11, <1>12, <1>13, <1>14
     DEF Next, CallStep

LEMMA DataInvariance == Spec => [](OwnInv /\ DataInv)
<1>1. Init => DataInv
  BY NoCallData DEF Init, DataInv
<1>2. OwnInv /\ DataInv /\ [Next]_vars => DataInv'
  BY DataNext
<1> QED
  BY <1>1, <1>2, OwnInvariance, PTL DEF Spec

-----------------------------------------------------------------------------
(* How small the pieces get *)

Pages(n) == n * PageSize

(* Every piece but the last of a list is a page at least, and while a list is *)
(* built the next piece is a page or all that is left.                        *)
PagesAt(p, l) ==
  /\ \A w \in Sides : Len(l.list[w].pieces) > 0 =>
                        l.list[w].ask > Pages(Len(l.list[w].pieces) - 1)
  /\ p = "segment" /\ l.left # 0 =>
       /\ Total(l.list[l.side].pieces) >= Pages(Len(l.list[l.side].pieces))
       /\ l.seg >= PageSize \/ l.seg >= l.left

PagesInv == PagesAt(pc, loc)

LEMMA PagesFacts ==
  /\ Pages(0) = 0
  /\ \A n \in Nat : Pages(n) \in Nat /\ Pages(n + 1) = Pages(n) + PageSize
  /\ \A m, n \in Nat : m <= n => Pages(m) <= Pages(n)
<1>1. PageSize \in Nat
  BY Constants
<1>2. ASSUME NEW n \in Nat PROVE Pages(n) \in Nat /\ Pages(n + 1) = Pages(n) + PageSize
  BY <1>1 DEF Pages
<1>3. ASSUME NEW m \in Nat, NEW n \in Nat, m <= n PROVE Pages(m) <= Pages(n)
  BY <1>1, <1>3 DEF Pages
<1> QED
  BY <1>1, <1>2, <1>3 DEF Pages

LEMMA PagesKept ==
  ASSUME PagesInv, loc'.list = loc.list, pc' # "segment"
  PROVE  PagesInv'
BY DEF PagesInv, PagesAt

(* A list that is begun again, or given up, is empty.                         *)
LEMMA EmptyPages ==
  ASSUME PagesInv, loc \in Locals(loc), NEW w \in Sides, NEW new, new.pieces = <<>>,
         loc'.list = [loc.list EXCEPT ![w] = new],
         pc' = "segment" => /\ loc'.side = w
                            /\ loc'.seg >= loc'.left
  PROVE  PagesInv'
<1>1. /\ loc'.list[w] = new /\ \A v \in Sides \ {w} : loc'.list[v] = loc.list[v]
  BY DEF Locals
<1>2. Len(new.pieces) = 0 /\ Total(new.pieces) = 0
  BY TotalEmpty
<1>3. ASSUME NEW v \in Sides, Len(loc'.list[v].pieces) > 0
      PROVE  loc'.list[v].ask > Pages(Len(loc'.list[v].pieces) - 1)
  <2>1. v # w
    BY <1>1, <1>2, <1>3
  <2> QED
    BY <1>1, <1>3, <2>1 DEF PagesInv, PagesAt
<1>4. Total(new.pieces) >= Pages(Len(new.pieces))
  <2>1. Pages(0) = 0
    BY PagesFacts
  <2> QED
    BY <1>2, <2>1
<1> QED
  BY <1>1, <1>3, <1>4 DEF PagesInv, PagesAt

LEMMA BuildPages ==
  ASSUME PagesInv, NEW w \in Sides, NEW n \in Int, NEW l, l \in Locals(l),
         loc \in Locals(loc), l.list = loc.list, Build(w, n, l)
  PROVE  PagesInv'
<1> DEFINE new == [NoList EXCEPT !.ask = n]
           lists == [l.list EXCEPT ![w] = new]
           a == [l EXCEPT !.side = w]
           b == [a EXCEPT !.left = n]
           m == [b EXCEPT !.seg = n]
<1>1. new.pieces = <<>>
  BY DEF NoList
<1>2. pc' = "table" /\ loc' = [m EXCEPT !.list = lists]
  BY DEF Build, Set, Locals
<1>3. a \in Locals(a)
  BY SideSet
<1> HIDE DEF new, a
<1>4. b \in Locals(b)
  BY <1>3 DEF Locals
<1> HIDE DEF b
<1>5. m \in Locals(m)
  BY <1>4 DEF Locals
<1> HIDE DEF m
<1>6. loc'.list = [loc.list EXCEPT ![w] = new]
  BY <1>2, <1>5 DEF Locals
<1> QED
  BY <1>1, <1>2, <1>6, EmptyPages

LEMMA TablePages == ASSUME OwnInv, DataInv, PagesInv, BuildTable PROVE PagesInv'
<1> DEFINE w == loc.side
<1>0. /\ pc = "table" /\ loc \in Locals(loc) /\ w \in Sides /\ loc.list[w].pieces = <<>>
      /\ loc.list[w] \in Lists /\ loc.seg = loc.left /\ loc.left \in Int
  BY DEF BuildTable, OwnInv, ListsAt, Locals, DataInv, DataAt, BuildAt
<1>1. ASSUME NEW new, new.pieces = <<>>, NEW label, pc' = label, loc' = WithList(loc, w, new)
      PROVE  PagesInv'
  <2> DEFINE lists == [loc.list EXCEPT ![w] = new]
  <2>1. loc' = [loc EXCEPT !.list = lists]
    BY <1>1 DEF WithList
  <2> HIDE DEF lists
  <2>2. loc'.list = lists /\ loc'.side = w /\ loc'.seg = loc.seg /\ loc'.left = loc.left
    BY <1>0, <2>1 DEF Locals
  <2> QED
    BY <1>0, <1>1, <2>2, EmptyPages DEF lists
<1>2. CASE Set("segment", [loc EXCEPT !.list[w].there = TRUE])
  <2> DEFINE new == [loc.list[w] EXCEPT !.there = TRUE]
  <2>1. new.pieces = <<>>
    BY <1>0 DEF Lists
  <2>2. loc' = WithList(loc, w, new) /\ pc' = "segment"
    BY <1>2 DEF Set, WithList
  <2> HIDE DEF new
  <2> QED
    BY <1>1, <2>1, <2>2
<1>3. CASE Set("cleanup", [loc EXCEPT !.list[w] = NoList])
  <2>1. loc' = WithList(loc, w, NoList) /\ pc' = "cleanup"
    BY <1>3 DEF Set, WithList
  <2> QED
    BY <1>1, <2>1, NoListOK
<1> QED
  BY <1>2, <1>3 DEF BuildTable

LEMMA SegmentPages == ASSUME OwnInv, DataInv, DataInv', PagesInv, AllocateSegment PROVE PagesInv'
<1> DEFINE w == loc.side
           old == loc.list[w]
           size == Piece(loc.seg, loc.left)
           done == Len(old.pieces)
           new == [old EXCEPT !.pieces = Append(@, size)]
           left == loc.left - Min2(size, loc.left)
           lists == [loc.list EXCEPT ![w] = new]
<1>0. /\ pc = "segment" /\ loc \in Locals(loc) /\ w \in Sides /\ old \in Lists /\ loc.left # 0
      /\ loc' = [[loc EXCEPT !.list = lists] EXCEPT !.left = left]
      /\ pc' \in {"segment", "unbuild"}
  BY DEF AllocateSegment, OwnInv, Locals
<1>1. /\ loc.left \in Nat /\ loc.seg \in Nat /\ old.ask \in Int
      /\ Total(old.pieces) + loc.left = old.ask
  BY <1>0, Constants DEF DataInv, DataAt, SizesAt, BuildAt, Lists, Unsigned
<1>2. /\ Total(old.pieces) >= Pages(done) /\ (loc.seg >= PageSize \/ loc.seg >= loc.left)
      /\ \A v \in Sides : Len(loc.list[v].pieces) > 0 =>
                            loc.list[v].ask > Pages(Len(loc.list[v].pieces) - 1)
  BY <1>0 DEF PagesInv, PagesAt
<1>3. size = Min2(loc.seg, loc.left) /\ size \in Nat
  BY <1>1 DEF Piece, Min2
<1>4. old.pieces \in Seq(Int) /\ done \in Nat
  BY <1>0 DEF Lists
<1>5. new.ask = old.ask /\ new.pieces = Append(old.pieces, size)
  BY <1>0 DEF Lists
<1>6. Len(new.pieces) = done + 1
  <2> HIDE DEF size, old, new
  <2> QED
    BY <1>3, <1>4, <1>5
<1> HIDE DEF new
<1>7. lists[w] = new /\ \A v \in Sides \ {w} : lists[v] = loc.list[v]
  BY <1>0 DEF Locals
<1> HIDE DEF lists, left
<1>8. loc'.list = lists /\ loc'.left = left /\ loc'.seg = loc.seg /\ loc'.side = w
  BY <1>0 DEF Locals
<1>9. Total(old.pieces) \in Int
  <2>1. PiecesOK(old)
    BY <1>0 DEF DataInv, DataAt, ListAt
  <2> HIDE DEF old
  <2> QED
    BY <1>0, <2>1, PiecesNat, SumNat DEF Total
<1>10. old.ask > Pages(done)
  <2>1. Pages(done) \in Nat
    BY <1>4, PagesFacts
  <2> HIDE DEF old, done
  <2> QED
    BY <1>0, <1>1, <1>2, <1>9, <2>1
<1>11. ASSUME pc' = "segment", left # 0
       PROVE  Total(new.pieces) >= Pages(done + 1) /\ (loc.seg >= PageSize \/ loc.seg >= left)
  <2>1. left = loc.left - size /\ size = loc.seg /\ loc.seg >= PageSize
    BY <1>1, <1>2, <1>3, <1>11, Constants DEF Min2, left
  <2>2. Total(new.pieces) + left = old.ask
    BY <1>5, <1>7, <1>8, <1>11 DEF DataInv, DataAt, BuildAt
  <2>3. Pages(done + 1) = Pages(done) + PageSize /\ Pages(done) \in Nat
    BY <1>4, PagesFacts
  <2>4. Total(new.pieces) \in Int
    <3>1. new \in Lists /\ PiecesOK(new)
      <4>1. new = loc'.list[w]
        BY <1>7, <1>8
      <4>2. PiecesOK(loc'.list[w])
        BY <1>0, <1>11 DEF DataInv, DataAt, ListAt
      <4>3. new \in Lists
        <5>1. Append(old.pieces, size) \in Seq(Int)
          <6> HIDE DEF old, size
          <6> QED
            BY <1>3, <1>4
        <5> QED
          BY <1>0, <5>1 DEF new, Lists
      <4> QED
        BY <4>1, <4>2, <4>3
    <3> QED
      BY <3>1, PiecesNat, SumNat DEF Total
  <2> HIDE DEF old, size, done
  <2> QED
    BY <1>1, <1>2, <1>9, <2>1, <2>2, <2>3, <2>4, Constants
<1>12. ASSUME NEW v \in Sides, Len(loc'.list[v].pieces) > 0
       PROVE  loc'.list[v].ask > Pages(Len(loc'.list[v].pieces) - 1)
  <2>1. CASE v = w
    <3>1. loc'.list[v] = new /\ (done + 1) - 1 = done
      BY <1>4, <1>7, <1>8, <2>1
    <3> QED
      BY <1>5, <1>6, <1>10, <3>1
  <2>2. CASE v # w
    BY <1>2, <1>7, <1>8, <1>12, <2>2
  <2> QED
    BY <2>1, <2>2
<1> HIDE DEF old, done, size
<1> QED
  BY <1>6, <1>7, <1>8, <1>11, <1>12 DEF PagesInv, PagesAt

LEMMA HalvePages == ASSUME OwnInv, DataInv, PagesInv, HalveSegment PROVE PagesInv'
<1>0. pc = "segment" /\ loc \in Locals(loc) /\ loc.left # 0 /\ loc.seg \in Unsigned
  BY DEF HalveSegment, OwnInv, DataInv, DataAt, SizesAt
<1>1. CASE Goto("unbuild")
  BY <1>1, PagesKept DEF Goto
<1>2. CASE /\ Half(loc.seg) # 0 /\ pc' = pc
           /\ loc' = [loc EXCEPT !.seg = Half(loc.seg), !.again = ~loc.again]
  <2>1. Half(loc.seg) >= PageSize
    <3> DEFINE h == loc.seg \div 2
               q == (h + PageSize - 1) \div PageSize
    <3>1. h \in Nat /\ h >= PageSize /\ Half(loc.seg) = q * PageSize
      BY <1>0, <1>2, Constants DEF Half, PageAlign, Unsigned
    <3> HIDE DEF h
    <3>2. ASSUME NEW a \in Nat, NEW s \in Nat \ {0} PROVE (a \div s) * s \in Nat /\ (a \div s) * s + s > a
      BY <3>2
    <3>3. h + PageSize - 1 \in Nat
      BY <3>1, Constants
    <3>4. q * PageSize \in Nat /\ q * PageSize + PageSize > h + PageSize - 1
      BY <3>2, <3>3, Constants
    <3> HIDE DEF q
    <3> QED
      BY <3>1, <3>4, Constants
  <2>2. loc'.seg = Half(loc.seg) /\ loc'.left = loc.left
    BY <1>0, <1>2 DEF Locals
  <2>3. loc'.list = loc.list /\ loc'.side = loc.side
    BY <1>0, <1>2 DEF Locals
  <2> QED
    BY <1>0, <1>2, <2>1, <2>2, <2>3 DEF PagesInv, PagesAt
<1> QED
  BY <1>0, <1>1, <1>2 DEF HalveSegment

(* The set-up of a command begins a list or leaves the lists alone.           *)
LEMMA SetUpPages ==
  ASSUME OwnInv, PagesInv, SetUpUefi \/ SetUpResponse \/ SetUpOther
  PROVE  PagesInv'
<1>0. loc \in Locals(loc)
  BY DEF OwnInv
<1>1. ASSUME NEW w \in Sides, NEW n \in Int, Build(w, n, loc) PROVE PagesInv'
  BY <1>0, <1>1, BuildPages
<1>2. CASE Fail
  <2>1. pc' = "cleanup" /\ loc'.list = loc.list
    BY <1>0, <1>2 DEF Fail, Set, Locals
  <2> QED
    BY <2>1, PagesKept
<1>3. ASSUME NEW label, label # "segment", Goto(label) PROVE PagesInv'
  BY <1>3, PagesKept DEF Goto
<1>4. /\ \A c \in Counts : c % Modulus \in Int
      /\ loc.in - (HeaderSize + IOSize) \in Int /\ loc.out - (HeaderSize + IOSize) \in Int
      /\ DataSize(loc.in, WriteOfs) \in Int /\ DataSize(loc.out, ReadOfs) \in Int
  BY <1>0, SizesAssumption DEF DataSize, Minus, Locals
<1>5. CASE SetUpUefi
  BY <1>1, <1>2, <1>3, <1>4, <1>5 DEF SetUpUefi, Sides
<1>6. CASE SetUpOther
  BY <1>1, <1>2, <1>3, <1>4, <1>6 DEF SetUpOther, Sides
<1>7. CASE SetUpResponse
  <2>1. ASSUME NEW n \in Int,
               \/ Set("bios", [loc EXCEPT !.resp = n])
               \/ Build("out", n, [loc EXCEPT !.resp = n])
        PROVE  PagesInv'
    <3> DEFINE l == [loc EXCEPT !.resp = n]
    <3>1. l \in Locals(l) /\ l.list = loc.list
      BY <1>0 DEF Locals
    <3> HIDE DEF l
    <3>2. CASE Set("bios", l)
      BY <3>1, <3>2, PagesKept DEF Set
    <3>3. CASE Build("out", n, l)
      BY <1>0, <3>1, <3>3, BuildPages DEF Sides
    <3> QED
      BY <2>1, <3>2, <3>3 DEF l
  <2> QED
    BY <1>2, <1>4, <1>7, <2>1 DEF SetUpResponse
<1> QED
  BY <1>5, <1>6, <1>7

(* The copies and the answer leave the lists alone.                           *)
LEMMA CopyPages ==
  ASSUME OwnInv, PagesInv,
         \/ CopyFromUserToBuffers \/ CopyInEx \/ CopyChunk \/ ChunksDone \/ UserWrites
         \/ CallBios \/ AnswerUefi \/ Answer8205 \/ AnswerRead \/ AnswerOther
  PROVE  PagesInv'
<1>0. loc \in Locals(loc)
  BY DEF OwnInv
<1>1. ASSUME Fail PROVE PagesInv'
  <2>1. pc' = "cleanup" /\ loc'.list = loc.list
    BY <1>0, <1>1 DEF Fail, Set, Locals
  <2> QED
    BY <2>1, PagesKept
<1>2. ASSUME NEW label, label # "segment", Goto(label) PROVE PagesInv'
  BY <1>2, PagesKept DEF Goto
<1>3. ASSUME NEW what, Crash(what) PROVE PagesInv'
  BY <1>3, PagesKept DEF Crash
<1>4. ASSUME NEW w, NEW chunks, NEW max, NEW l, l \in Locals(l), l.list = loc.list,
             Cursor(w, chunks, max, l)
      PROVE  PagesInv'
  <2> DEFINE a == [[[l EXCEPT !.side = w] EXCEPT !.chunks = chunks] EXCEPT !.moved = FALSE]
             b == [[a EXCEPT !.todo = max] EXCEPT !.max = max]
             k == [[[[b EXCEPT !.u = 1] EXCEPT !.ou = 0] EXCEPT !.d = 1] EXCEPT !.od = 0]
  <2>1. pc' = "chunks" /\ loc' = k
    BY <1>4 DEF Cursor, Set
  <2>2. a.list = loc.list
    BY <1>4 DEF Locals
  <2> HIDE DEF a
  <2>3. b.list = loc.list
    BY <2>2
  <2> HIDE DEF b
  <2>4. k.list = loc.list
    BY <2>3
  <2> HIDE DEF k
  <2> QED
    BY <2>1, <2>4, PagesKept
<1>5. ASSUME NEW e, Set("cleanup", [loc EXCEPT !.rv = 0, !.bytes = e]) PROVE PagesInv'
  <2>1. pc' = "cleanup" /\ loc'.list = loc.list
    BY <1>0, <1>5 DEF Set, Locals
  <2> QED
    BY <2>1, PagesKept
<1>6. ASSUME NEW e, NEW f, Set("cleanup", [loc EXCEPT !.rv = 0, !.wrote = e, !.bytes = f])
      PROVE  PagesInv'
  <2>1. pc' = "cleanup" /\ loc'.list = loc.list
    BY <1>0, <1>6 DEF Set, Locals
  <2> QED
    BY <2>1, PagesKept
<1>7. CASE CopyFromUserToBuffers \/ CopyInEx
  BY <1>0, <1>1, <1>2, <1>4, <1>7 DEF CopyFromUserToBuffers, CopyInEx
<1>8. CASE CopyChunk
  <2>1. ASSUME NextUserBuffer \/ NextDriverBuffer, pc' = pc PROVE PagesInv'
    <3>1. NextUserBuffer => loc'.list = loc.list
      BY <1>0 DEF NextUserBuffer, Locals
    <3>2. NextDriverBuffer => loc'.list = loc.list
      BY <1>0 DEF NextDriverBuffer, Locals
    <3> QED
      BY <1>8, <2>1, <3>1, <3>2, PagesKept DEF CopyChunk
  <2>2. ASSUME NEW c, loc' = [loc EXCEPT !.ou = @ + c, !.od = @ + c, !.max = @ - c], pc' = pc
        PROVE  PagesInv'
    <3>1. loc'.list = loc.list
      BY <1>0, <2>2 DEF Locals
    <3> QED
      BY <1>8, <2>2, <3>1, PagesKept DEF CopyChunk
  <2> QED
    BY <1>1, <1>8, <2>1, <2>2 DEF CopyChunk
<1>9. CASE ChunksDone
  BY <1>1, <1>2, <1>3, <1>5, <1>9 DEF ChunksDone, Copied, RunPastTable
<1>10. CASE UserWrites
  <2>1. loc'.list = loc.list /\ pc' = "chunks"
    BY <1>0, <1>10 DEF UserWrites, Locals
  <2> QED
    BY <2>1, PagesKept
<1>11. CASE CallBios
  <2>1. ASSUME NEW c, Set("answer", [loc EXCEPT !.answer = c, !.wrote = HeaderSize, !.bytes = HeaderSize])
        PROVE  PagesInv'
    <3>1. pc' = "answer" /\ loc'.list = loc.list
      BY <1>0, <2>1 DEF Set, Locals
    <3> QED
      BY <3>1, PagesKept
  <2> QED
    BY <1>1, <1>11, <2>1 DEF CallBios
<1>12. CASE AnswerUefi \/ AnswerOther
  BY <1>1, <1>6, <1>12 DEF AnswerUefi, AnswerOther, Succeed
<1>13. CASE AnswerRead
  BY <1>1, <1>3, <1>6, <1>13 DEF AnswerRead, Succeed, RunPastTable
<1>14. CASE Answer8205
  <2>1. ASSUME NEW chunks, NEW max,
               Cursor("out", chunks, max, [loc EXCEPT !.wrote = HeaderSize + IOSize])
        PROVE  PagesInv'
    <3> DEFINE l == [loc EXCEPT !.wrote = HeaderSize + IOSize]
    <3>1. l \in Locals(l) /\ l.list = loc.list
      BY <1>0 DEF Locals
    <3> HIDE DEF l
    <3>2. Cursor("out", chunks, max, l)
      BY <2>1 DEF l
    <3> QED
      BY <1>4, <3>1, <3>2
  <2>2. CASE \E compared, used \in Counts, chunks \in UserChunks :
               Cursor("out", chunks,
                      IF loc.resp < compared THEN loc.resp ELSE used % Modulus,
                      [loc EXCEPT !.wrote = HeaderSize + IOSize])
    BY <2>1, <2>2
  <2> QED
    BY <1>1, <1>6, <1>14, <2>2 DEF Answer8205
<1> QED
  BY <1>7, <1>8, <1>9, <1>10, <1>11, <1>12, <1>13, <1>14

LEMMA PagesNext ==
  ASSUME OwnInv, DataInv, DataInv', PagesInv, [Next]_vars
  PROVE  PagesInv'
<1>0. loc \in Locals(loc)
  BY DEF OwnInv
<1>1. CASE UNCHANGED vars
  BY <1>1 DEF PagesInv, vars
<1>2. CASE Load \/ DrvOpen \/ DrvRelease
  BY <1>2 DEF PagesInv, Load, DrvOpen, DrvRelease
<1>3. CASE Unload \/ UseStale \/ UserFault
  <2>1. ASSUME NEW what, Crash(what) PROVE PagesInv'
    BY <2>1, PagesKept DEF Crash
  <2> QED
    BY <1>3, <2>1 DEF Unload, UseStale, UserFault, PagesInv
<1>4. ASSUME pc' # "segment", loc'.list = NoCall.list PROVE PagesInv'
  <2>1. \A w \in Sides : Len(loc'.list[w].pieces) = 0
    BY <1>4 DEF NoCall, NoList
  <2> QED
    BY <1>4, <2>1 DEF PagesInv, PagesAt
<1>5. CASE DrvGabiCall
  <2>1. PICK in \in InSizes, out \in OutSizes : Set("control", [NoCall EXCEPT !.in = in, !.out = out])
    BY <1>5 DEF DrvGabiCall
  <2>2. loc'.list = NoCall.list /\ pc' = "control"
    BY <2>1 DEF Set, NoCall
  <2> QED
    BY <1>4, <2>2
<1>6. CASE \E b \in Buffers : AllocateContiguousBuffer(b)
  <2>1. PICK b \in Buffers : AllocateContiguousBuffer(b)
    BY <1>6
  <2>2. ASSUME NEW label, label # "segment", NEW what, Set(label, [loc EXCEPT !.desc[b] = what])
        PROVE  PagesInv'
    <3>1. pc' = label /\ loc'.list = loc.list
      BY <1>0, <2>2 DEF Set, Locals
    <3> QED
      BY <2>2, <3>1, PagesKept
  <2> QED
    BY <2>1, <2>2 DEF AllocateContiguousBuffer, AfterBuffer
<1>7. CASE BuildTable \/ AllocateSegment \/ HalveSegment
  BY <1>7, TablePages, SegmentPages, HalvePages
<1>8. CASE Unbuild
  <2>1. CASE Set("cleanup", ListFails(loc.side))
    <3> DEFINE lists == [loc.list EXCEPT ![loc.side] = NoList]
    <3>1. pc' = "cleanup" /\ loc' = [[loc EXCEPT !.rv = -1] EXCEPT !.list = lists]
      BY <2>1 DEF Set, ListFails
    <3> HIDE DEF lists
    <3>2. loc'.list = lists /\ loc.side \in Sides
      BY <1>0, <3>1 DEF Locals
    <3> QED
      BY <1>0, <3>1, <3>2, NoListOK, EmptyPages DEF lists
  <2>2. CASE RunPastTable(loc.side)
    BY <2>2, PagesKept DEF RunPastTable, Crash
  <2> QED
    BY <1>8, <2>1, <2>2 DEF Unbuild
<1>9. CASE Built
  BY <1>9, PagesKept DEF Built, Goto
<1>10. CASE CopyHeader \/ SetUpFlash
  <2>1. CASE Fail
    <3>1. pc' = "cleanup" /\ loc'.list = loc.list
      BY <1>0, <2>1 DEF Fail, Set, Locals
    <3> QED
      BY <3>1, PagesKept
  <2>2. ASSUME NEW c, Set("setup", [loc EXCEPT !.cmd = c]) PROVE PagesInv'
    <3>1. pc' = "setup" /\ loc'.list = loc.list
      BY <1>0, <2>2 DEF Set, Locals
    <3> QED
      BY <3>1, PagesKept
  <2> QED
    BY <1>10, <2>1, <2>2 DEF CopyHeader, SetUpFlash
<1>11. CASE SetUpUefi \/ SetUpResponse \/ SetUpOther
  BY <1>11, SetUpPages
<1>12. CASE \/ CopyFromUserToBuffers \/ CopyInEx \/ CopyChunk \/ ChunksDone \/ UserWrites
            \/ CallBios \/ AnswerUefi \/ Answer8205 \/ AnswerRead \/ AnswerOther
  BY <1>12, CopyPages
<1>13. CASE CleanUp
  <2>1. CASE pc' = "idle" /\ loc' = NoCall
    BY <1>4, <2>1
  <2>2. ASSUME NEW what, Crash(what) PROVE PagesInv'
    BY <2>2, PagesKept DEF Crash
  <2> QED
    BY <1>13, <2>1, <2>2 DEF CleanUp, RunPastTable
<1> QED
  BY <1>1, <1>2, <1>3, <1>5, <1>6, <1>7, <1>8, <1>9, <1>10, <1>11, <1>12, <1>13
     DEF Next, CallStep

(* A full table was asked for more than all its places but one of one page.   *)
LEMMA FullTable ==
  ASSUME OwnInv, PagesInv, DataInv, NEW w \in Sides, Unterminated(w)
  PROVE  loc.list[w].ask > (MaxSegs - 1) * PageSize
<1> DEFINE n == Len(loc.list[w].pieces)
<1>1. n \in Nat /\ n >= MaxSegs /\ loc.list[w].ask \in Int
  BY Constants DEF OwnInv, Locals, Lists, Unterminated
<1>2. loc.list[w].ask > Pages(n - 1)
  BY <1>1, Constants DEF PagesInv, PagesAt
<1> HIDE DEF n
<1>3. MaxSegs - 1 \in Nat /\ n - 1 \in Nat /\ MaxSegs - 1 <= n - 1
  BY <1>1, Constants
<1>4. Pages(MaxSegs - 1) <= Pages(n - 1) /\ Pages(MaxSegs - 1) \in Nat /\ Pages(n - 1) \in Nat
  BY <1>3, PagesFacts
<1>5. loc.list[w].ask > Pages(MaxSegs - 1)
  BY <1>1, <1>2, <1>4
<1> QED
  BY <1>5 DEF Pages

(* Every misuse of memory has one of the causes named: however small the      *)
(* pieces, a list of at most MaxSegs - 1 pages stays in its table, and        *)
(* nothing is freed twice.                                                    *)
THEOREM FaultsCorrect == Spec => FaultsExplained
<1>1. Init => FileInv /\ PagesInv
  <2>1. Init => FileInv
    BY DEF Init, FileInv
  <2>2. \A w \in Sides : Len(NoCall.list[w].pieces) = 0
    BY DEF NoCall, NoList
  <2>3. Init => PagesInv
    BY <2>2 DEF Init, PagesInv, PagesAt
  <2> QED
    BY <2>1, <2>3
<1>2. FileInv /\ [Next]_vars => FileInv'
  BY FileNext
<1>3. OwnInv /\ DataInv /\ DataInv' /\ PagesInv /\ [Next]_vars => PagesInv'
  BY PagesNext
<1>4. FileInv /\ OwnInv /\ DataInv /\ PagesInv /\ [Next]_vars => [fault' # fault => Explained]_vars
  <2>1. SUFFICES ASSUME FileInv, OwnInv, DataInv, PagesInv, [Next]_vars, fault' # fault
                 PROVE  Explained
    OBVIOUS
  <2>2. Cause
    BY <2>1, OwnNext DEF OwnStep
  <2>3. ASSUME NEW w \in Sides, Unterminated(w) PROVE loc.list[w].ask > (MaxSegs - 1) * PageSize
    BY <2>1, <2>3, FullTable
  <2>4. pc \notin {"idle", "crashed"} => open # "closed"
    BY <2>1 DEF FileInv
  <2> QED
    BY <2>2, <2>3, <2>4 DEF Cause, Explained
<1> QED
  BY <1>1, <1>2, <1>3, <1>4, DataInvariance, PTL DEF Spec, FaultsExplained

-----------------------------------------------------------------------------
(* The theorems about the data *)

(* What memory can look like: the blocks a call can own, and the faults.      *)
CallBlocks == {<<b, k>> : b \in Buffers, k \in -1 .. MaxSegs + 1}
Faults == {"none", "overrun", "past_table", "double_free", "wild_free", "null_list",
           "user_memory", "unloaded"}
MemoryInv == heap \subseteq CallBlocks /\ fault \in Faults /\ bios \in BOOLEAN

LEMMA HeldTyped ==
  ASSUME NEW l, l \in Locals(l), \A w \in Sides : PiecesOK(l.list[w])
  PROVE  Held(l) \subseteq CallBlocks
<1>1. ASSUME NEW w \in Sides PROVE OwnedIn(l, w) \subseteq CallBlocks
  <2> DEFINE n == Len(l.list[w].pieces)
  <2>1. n \in Nat /\ n <= MaxSegs + 1
    BY DEF Locals, Lists, PiecesOK
  <2> HIDE DEF n
  <2>2. ASSUME NEW k \in (1 .. n) \union {-1} PROVE k \in -1 .. MaxSegs + 1
    BY <2>1, <2>2, Constants
  <2>3. w \in Buffers
    BY DEF Sides, Buffers
  <2> QED
    BY <2>2, <2>3 DEF OwnedIn, Blocks, n, CallBlocks
<1>2. 0 \in -1 .. MaxSegs + 1
  BY Constants
<1> QED
  BY <1>1, <1>2 DEF Held, Sides, CallBlocks

(* A step into a crash leaves the blocks as they are.                         *)
LEMMA CrashKeeps ==
  ASSUME OwnInv, [Next]_vars, pc' = "crashed"
  PROVE  heap' = heap
<1>1. CASE UNCHANGED vars
  BY <1>1 DEF vars
<1>2. CASE Load \/ Unload \/ DrvOpen \/ DrvRelease \/ DrvGabiCall \/ UseStale
  BY <1>2 DEF Load, Unload, DrvOpen, DrvRelease, DrvGabiCall, UseStale, Crash
<1>3. CASE \E b \in Buffers : AllocateContiguousBuffer(b)
  BY <1>3 DEF AllocateContiguousBuffer, AfterBuffer, Set
<1>4. CASE BuildTable \/ AllocateSegment \/ HalveSegment \/ Built
  BY <1>4 DEF BuildTable, AllocateSegment, HalveSegment, Built, Set, Goto
<1>5. CASE Unbuild
  BY <1>5 DEF Unbuild, RunPastTable, Crash, Set
<1>6. CASE CopyHeader \/ SetUpFlash \/ SetUpUefi \/ SetUpResponse \/ SetUpOther
  BY <1>6 DEF CopyHeader, SetUpFlash, SetUpUefi, SetUpResponse, SetUpOther
<1>7. CASE CopyFromUserToBuffers \/ CopyInEx \/ CopyChunk \/ ChunksDone
  BY <1>7 DEF CopyFromUserToBuffers, CopyInEx, CopyChunk, ChunksDone, RunPastTable, Crash
<1>8. CASE CallBios \/ AnswerUefi \/ Answer8205 \/ AnswerOther
  BY <1>8 DEF CallBios, AnswerUefi, Answer8205, AnswerOther
<1>9. CASE AnswerRead
  BY <1>9 DEF AnswerRead, RunPastTable, Crash
<1>10. CASE CleanUp
  BY <1>10 DEF CleanUp, RunPastTable, Crash
<1>11. CASE UserFault \/ UserWrites
  BY <1>11 DEF UserFault, UserWrites, Crash
<1> QED
  BY <1>1, <1>2, <1>3, <1>4, <1>5, <1>6, <1>7, <1>8, <1>9, <1>10, <1>11 DEF Next, CallStep

LEMMA FaultTyped ==
  ASSUME fault \in Faults, [Next]_vars
  PROVE  fault' \in Faults
<1>1. CASE UNCHANGED vars
  BY <1>1 DEF vars
<1>2. CASE Load \/ Unload \/ DrvOpen \/ DrvRelease \/ DrvGabiCall \/ UseStale
  BY <1>2 DEF Load, Unload, DrvOpen, DrvRelease, DrvGabiCall, UseStale, Crash, Blame, Faults
<1>3. CASE \E b \in Buffers : AllocateContiguousBuffer(b)
  BY <1>3 DEF AllocateContiguousBuffer
<1>4. CASE BuildTable \/ AllocateSegment \/ HalveSegment \/ Built
  BY <1>4 DEF BuildTable, AllocateSegment, HalveSegment, Built, Blame, Faults
<1>5. CASE Unbuild
  BY <1>5 DEF Unbuild, FreeBuffers, Release, RunPastTable, Crash, Blame, Faults
<1>6. CASE CopyHeader \/ SetUpFlash \/ SetUpUefi \/ SetUpResponse
  BY <1>6 DEF CopyHeader, SetUpFlash, SetUpUefi, SetUpResponse
<1>7. CASE SetUpOther
  BY <1>7 DEF SetUpOther, Blame, Faults
<1>8. CASE CopyFromUserToBuffers \/ CopyInEx \/ CopyChunk \/ ChunksDone
  BY <1>8 DEF CopyFromUserToBuffers, CopyInEx, CopyChunk, ChunksDone, RunPastTable, Crash,
              Blame, Faults
<1>9. CASE CallBios \/ AnswerUefi \/ Answer8205 \/ AnswerOther
  BY <1>9 DEF CallBios, AnswerUefi, Answer8205, AnswerOther, Blame, Faults
<1>10. CASE AnswerRead
  BY <1>10 DEF AnswerRead, RunPastTable, Crash, Blame, Faults
<1>11. CASE CleanUp
  BY <1>11 DEF CleanUp, Release, RunPastTable, Crash, Blame, Faults
<1>12. CASE UserFault \/ UserWrites
  BY <1>12 DEF UserFault, UserWrites, Crash, Blame, Faults
<1> QED
  BY <1>1, <1>2, <1>3, <1>4, <1>5, <1>6, <1>7, <1>8, <1>9, <1>10, <1>11, <1>12 DEF Next, CallStep

LEMMA MemoryNext ==
  ASSUME OwnInv, OwnInv', DataInv', MemoryInv, [Next]_vars
  PROVE  MemoryInv'
<1>1. fault' \in Faults
  BY FaultTyped DEF MemoryInv
<1>2. bios' = bios
  <2>1. CASE UNCHANGED vars
    BY <2>1 DEF vars, module
  <2>2. CASE Load \/ Unload \/ DrvOpen \/ DrvRelease \/ DrvGabiCall \/ UseStale \/ UserWrites
    BY <2>2 DEF Load, Unload, DrvOpen, DrvRelease, DrvGabiCall, UseStale, UserWrites, module
  <2>3. CASE CallStep
    BY <2>3, CallStepModule DEF module
  <2> QED
    BY <2>1, <2>2, <2>3 DEF Next
<1>3. heap' \subseteq CallBlocks
  <2>1. CASE pc' = "crashed"
    BY <2>1, CrashKeeps DEF MemoryInv
  <2>2. CASE pc' # "crashed"
    <3>1. heap' = Held(loc') /\ loc' \in Locals(loc')
      BY <2>2 DEF OwnInv
    <3>2. \A w \in Sides : PiecesOK(loc'.list[w])
      BY DEF DataInv, DataAt, ListAt
    <3> QED
      BY <3>1, <3>2, HeldTyped
  <2> QED
    BY <2>1, <2>2
<1> QED
  BY <1>1, <1>2, <1>3 DEF MemoryInv

LEMMA TypeFollows ==
  ASSUME FileInv, OwnInv, DataInv, MemoryInv
  PROVE  TypeOK
<1>1. {bios, loaded, ep, loc.moved} \subseteq BOOLEAN /\ open \in {"closed", "open", "stale"}
  BY DEF FileInv, MemoryInv, OwnInv, Locals
<1>2. pc \in {"idle", "control", "in", "out", "header", "setup", "table", "segment",
              "unbuild", "copy_in", "chunks", "respond", "bios", "answer", "cleanup", "crashed"}
  BY DEF OwnInv, Early, Late
<1>3. {loc.in, loc.out, loc.left, loc.seg, loc.resp, loc.max, loc.bytes} \subseteq 0 .. Modulus - 1
  BY DEF DataInv, DataAt, SizesAt, Unsigned
<1>4. {loc.cmd, loc.answer} \subseteq Commands
  BY DEF OwnInv, Locals
<1>5. \A b \in Buffers : loc.desc[b] \in {"garbage", "null", "block"}
  BY DEF OwnInv, Locals
<1>6. pc = "chunks" => loc.d \in 1 .. Len(Pieces) + 1 /\ loc.todo \in 0 .. Modulus - 1
  BY DEF DataInv, DataAt, CursorAt, Pieces, Unsigned
<1>7. /\ heap \subseteq {<<b, k>> : b \in Buffers, k \in -1 .. MaxSegs + 1}
      /\ fault \in {"none", "overrun", "past_table", "double_free", "wild_free", "null_list",
                     "user_memory", "unloaded"}
  BY DEF MemoryInv, CallBlocks, Faults
<1> QED
  BY <1>1, <1>2, <1>3, <1>4, <1>5, <1>6, <1>7 DEF TypeOK

(* Every variable keeps to its type, for any sizes and lists of the caller:   *)
(* no size leaves the unsigned numbers and no cursor leaves its list.         *)
THEOREM TypeCorrect == Spec => []TypeOK
<1>1. Init => FileInv /\ MemoryInv
  <2>1. Init => FileInv
    BY DEF Init, FileInv
  <2>2. Init => MemoryInv
    BY DEF Init, MemoryInv, Faults
  <2> QED
    BY <2>1, <2>2
<1>2. FileInv /\ [Next]_vars => FileInv'
  BY FileNext
<1>3. OwnInv /\ OwnInv' /\ DataInv' /\ MemoryInv /\ [Next]_vars => MemoryInv'
  BY MemoryNext
<1>4. FileInv /\ OwnInv /\ DataInv /\ MemoryInv => TypeOK
  BY TypeFollows
<1> QED
  BY <1>1, <1>2, <1>3, <1>4, DataInvariance, PTL DEF Spec

(* However small the pieces that could be allocated, the lists the BIOS is    *)
(* given hold exactly the bytes that were asked for.                          *)
THEOREM ListsCorrect == Spec => []ListsHoldTheData
<1>1. ASSUME OwnInv, DataInv PROVE ListsHoldTheData
  <2>1. SUFFICES ASSUME pc = "bios", NEW w \in Sides, There(loc, w)
                 PROVE  /\ Total(loc.list[w].pieces) = loc.list[w].ask
                        /\ \A k \in DOMAIN loc.list[w].pieces :
                             loc.list[w].pieces[k] \in 1 .. MaxSpan
    BY DEF ListsHoldTheData, There
  <2>2. PiecesOK(loc.list[w]) /\ Total(loc.list[w].pieces) = loc.list[w].ask
    <3>1. ListAt(pc, loc) /\ ~Partial(pc, loc, w)
      BY <1>1, <2>1 DEF DataInv, DataAt, Partial
    <3> QED
      BY <2>1, <3>1 DEF ListAt
  <2>3. DOMAIN loc.list[w].pieces = 1 .. Len(loc.list[w].pieces)
    BY <1>1 DEF OwnInv, Locals, Lists
  <2> QED
    BY <2>2, <2>3 DEF PiecesOK
<1> QED
  BY <1>1, DataInvariance, PTL

(* Whatever the caller's other threads write into its list while it is        *)
(* followed, the copy accounts for every byte of the driver's pieces; on a    *)
(* list left alone both sides stand at the same byte.                         *)
THEOREM CursorsCorrect == Spec => []CursorsAgree
<1>1. OwnInv /\ DataInv => CursorsAgree
  BY DEF DataInv, DataAt, CursorAt, UserSide, CursorsAgree, Pieces
<1> QED
  BY <1>1, DataInvariance, PTL

(* No successful call writes behind the caller's buffer as long as the BIOS   *)
(* keeps the command, also where the length of the answer is an unsigned      *)
(* difference that has wrapped.                                               *)
THEOREM AnswerCorrect == Spec => []AnswerFits
<1>1. DataInv => AnswerFits
  BY DEF DataInv, DataAt, AnswerAt, AnswerFits
<1> QED
  BY <1>1, DataInvariance, PTL
=============================================================================
