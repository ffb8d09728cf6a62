------------------------- MODULE SobBapiMemory_proofs -------------------------
(***************************************************************************)
(* Proofs about the memory of the BIOS-API driver and about the flash maps *)
(* that it hands to the BIOS, for any number of blocks and any sizes, when *)
(* one thread t makes all the calls.  With more they do not hold:          *)
(* g_BApiInfo has no lock.                                                 *)
(***************************************************************************)
EXTENDS SobBapi_proofs, Sums_proofs

-----------------------------------------------------------------------------
(* The invariant *)

OpenMapPcs == {"open_map", "open_clear", "open_read"}
AgainPcs   == {"again_map", "again_clear", "again_read"}
Quiet      == {"idle", "oops", "open_test", "args", "sig", "block", "put"} \union OpenMapPcs
Stored     == {"map_init", "map_loop", "map_fail", "map_fill"}
Mapping    == {"map", "map_copy"} \union Stored
InBios     == {"bios_map", "tpr", "exec", "bios"}
Ready      == {"copy_ctl", "copy_in", "access", "copy_out"} \union Mapping \union InBios

NoMaps  == \A m \in Maps : map[m].items = <<>>
Nothing == NoMaps /\ \A c \in Bufs : buf[c].virt = NoBlock

(* Each block belongs to one descriptor or one entry of a list, which knows   *)
(* its size; only the buffers in the set stale name blocks already freed.     *)
Buffers(stale) ==
  \A c \in Bufs : buf[c].virt # NoBlock =>
    IF c \in stale THEN heap[buf[c].virt] = 0
    ELSE buf[c].span > 0 /\ heap[buf[c].virt] = buf[c].span

Entries ==
  \A m \in Maps : \A i \in DOMAIN map[m].items :
    LET a == map[m].items[i]
    IN a.virt \in Blocks /\ a.span > 0 /\ heap[a.virt] = a.span

Apart ==
  /\ \A c, d \in Bufs : c # d /\ buf[c].virt # NoBlock => buf[c].virt # buf[d].virt
  /\ \A c \in Bufs, m \in Maps : \A i \in DOMAIN map[m].items : buf[c].virt # map[m].items[i].virt
  /\ \A m, n \in Maps : \A i \in DOMAIN map[m].items, j \in DOMAIN map[n].items :
       map[m].items[i].virt = map[n].items[j].virt => m = n /\ i = j

Reached ==
  \A b \in Blocks : heap[b] > 0 =>
    \/ \E c \in Bufs : buf[c].virt = b
    \/ \E m \in Maps : \E i \in DOMAIN map[m].items : map[m].items[i].virt = b

Owned(stale) == Buffers(stale) /\ Entries /\ Apart /\ Reached

(* While its descriptor is reset a buffer is already freed.                   *)
Accounted(t) == IF pc[t] = "null_buf" THEN Owned({BufOrder[loc[t].k]}) ELSE Owned({})

(* A descriptor has what the request needs of it.                             *)
Fit(t, c) ==
  Need(t, c) > 0 =>
    buf[c].virt # NoBlock /\ buf[c].phys = buf[c].virt /\ buf[c].span >= Need(t, c)

PlaceInv(t) ==
  /\ pc[t] \in Quiet => Nothing
  /\ pc[t] \in {"args", "sig", "block"} => loc[t].k = 1
  /\ pc[t] \in {"ctl", "ctl_get"} =>
       NoMaps /\ \A j \in 1 .. 3 : IF j < loc[t].k THEN Fit(t, BufOrder[j])
                                   ELSE buf[BufOrder[j]].virt = NoBlock
  /\ pc[t] \in Ready => \A c \in Bufs : Fit(t, c)
  /\ pc[t] \in Mapping => loc[t].map /\ loc[t].k \in {1, 2}
  /\ pc[t] \in Stored => loc[t].ptr = buf[MapOf(t)].virt
  /\ pc[t] = "map_init" => map[MapOf(t)].items = <<>>
  /\ pc[t] = "map_loop" => loc[t].left + map[MapOf(t)].total = DataSize(t)
  /\ pc[t] = "copy_in" => ~loc[t].map
  /\ pc[t] \in InBios => loc[t].reg = [c \in Bufs |-> buf[c].phys]
  /\ pc[t] = "free_map" /\ loc[t].k = 2 => map["in"].items = <<>>
  /\ pc[t] \in {"free_buf", "null_buf"} =>
       NoMaps /\ \A j \in 1 .. 3 : j < loc[t].k => buf[BufOrder[j]].virt = NoBlock

(* The segment stays mapped and its entry point known while a file is open,   *)
(* so an ioctl never sets them up again.                                      *)
EntryInv(t) ==
  /\ files # {} => segBase /\ hdr.ofs
  /\ pc[t] \in OpenMapPcs => files = {}
  /\ pc[t] = "open_test" => segBase
  /\ pc[t] \in {"args", "sig", "block", "ctl", "ctl_get"} \union Ready => files # {}
  /\ pc[t] \notin AgainPcs

MemInv(t) == Accounted(t) /\ PlaceInv(t) /\ EntryInv(t) /\ fault = "none"

-----------------------------------------------------------------------------
(* The steps that change memory *)

(* What all of them keep of the descriptors.                                  *)
LEMMA OwnedSame ==
  ASSUME NEW S, Owned(S), heap' = heap,
         \A c \in Bufs : buf'[c].virt = buf[c].virt /\ buf'[c].span = buf[c].span,
         \A m \in Maps : map'[m].items = map[m].items
  PROVE  Owned(S)'
<1>1. Buffers(S)' /\ Entries'
  BY DEF Owned, Buffers, Entries
<1>2. Apart'
  BY DEF Owned, Apart
<1>3. Reached'
  BY DEF Owned, Reached
<1> QED
  BY <1>1, <1>2, <1>3 DEF Owned

(* A block is allocated for a descriptor that has none.                       *)
LEMMA GiveBuffer ==
  ASSUME TypeOK, Owned({}), NEW b \in Bufs, buf[b].virt = NoBlock,
         NEW n \in Nat, NEW new \in Allocatable(n), Allocate(new, n),
         buf' = [buf EXCEPT ![b] = [virt |-> new, phys |-> new, span |-> n]],
         UNCHANGED map
  PROVE  Owned({})'
<1>1. new \in Blocks /\ heap[new] = 0 /\ n > 0 /\ new # NoBlock
  BY NoBlockAssumption DEF Allocatable
<1>2. heap'[new] = n /\ \A x \in Blocks \ {new} : heap'[x] = heap[x]
  BY <1>1 DEF Allocate, TypeOK, MemType
<1>3. /\ buf'[b].virt = new /\ buf'[b].span = n
      /\ \A c \in Bufs \ {b} : buf'[c] = buf[c]
  BY DEF TypeOK, InfoType
<1>4. \A c \in Bufs : buf[c].virt \in Blocks \union {NoBlock} /\ buf[c].virt # new
  BY <1>1 DEF TypeOK, InfoType, AddressInfo, Pointer, Owned, Buffers
<1>5. \A m \in Maps : \A i \in DOMAIN map[m].items :
        map[m].items[i].virt \in Blocks /\ map[m].items[i].virt # new
  BY <1>1 DEF Owned, Entries
<1>6. Buffers({})'
  BY <1>2, <1>3, <1>4, <1>1 DEF Owned, Buffers
<1>7. Entries'
  BY <1>2, <1>5 DEF Owned, Entries
<1>8. Apart'
  BY <1>1, <1>3, <1>4, <1>5 DEF Owned, Apart
<1>9. Reached'
  <2> SUFFICES ASSUME NEW x \in Blocks, heap'[x] > 0, x # new,
                      ~\E c \in Bufs : buf'[c].virt = x
               PROVE  \E m \in Maps : \E i \in DOMAIN map'[m].items : map'[m].items[i].virt = x
    BY <1>3 DEF Reached
  <2>1. heap[x] > 0 /\ ~\E c \in Bufs : buf[c].virt = x
    BY <1>1, <1>2, <1>3, NoBlockAssumption
  <2> QED
    BY <2>1 DEF Owned, Reached
<1> QED
  BY <1>6, <1>7, <1>8, <1>9 DEF Owned

(* A block is allocated for a list.                                           *)
LEMMA GiveEntry ==
  ASSUME TypeOK, Owned({}), NEW m \in Maps, NEW n \in Nat,
         NEW new \in Allocatable(n), Allocate(new, n),
         map' = [map EXCEPT ![m] =
                   [items |-> Append(@.items, [virt |-> new, phys |-> new, span |-> n]),
                    total |-> @.total + n]],
         UNCHANGED buf
  PROVE  Owned({})'
<1> DEFINE old == map[m].items
           a == [virt |-> new, phys |-> new, span |-> n]
           longer == Append(old, a)
<1>1. new \in Blocks /\ heap[new] = 0 /\ n > 0 /\ new # NoBlock
  BY NoBlockAssumption DEF Allocatable
<1>2. heap'[new] = n /\ \A x \in Blocks \ {new} : heap'[x] = heap[x]
  BY <1>1 DEF Allocate, TypeOK, MemType
<1>3. old \in Seq(AddressInfo)
  BY DEF TypeOK, InfoType, PhysMapList, ItemList
<1>4. map'[m].items = longer /\ \A k \in Maps \ {m} : map'[k] = map[k]
  BY DEF TypeOK, InfoType
<1>5. a \in AddressInfo /\ a.virt = new /\ a.span = n
  BY <1>1 DEF AddressInfo, Pointer
<1> HIDE DEF a, old
<1>6. /\ DOMAIN longer = DOMAIN old \union {Len(old) + 1}
      /\ Len(old) + 1 \notin DOMAIN old
      /\ longer[Len(old) + 1] = a
      /\ \A i \in DOMAIN old : longer[i] = old[i]
  BY <1>3, <1>5
<1>7. \A c \in Bufs : buf[c].virt \in Blocks \union {NoBlock} /\ buf[c].virt # new
  BY <1>1 DEF TypeOK, InfoType, AddressInfo, Pointer, Owned, Buffers
<1>8. \A k \in Maps : \A i \in DOMAIN map[k].items :
        map[k].items[i].virt \in Blocks /\ map[k].items[i].virt # new
  BY <1>1 DEF Owned, Entries
<1> DEFINE last == Len(old) + 1
<1> HIDE DEF longer, last
<1>9. \A k \in Maps : \A i : i \in DOMAIN map'[k].items =>
        \/ k = m /\ i = last /\ map'[k].items[i] = a
        \/ i \in DOMAIN map[k].items /\ map'[k].items[i] = map[k].items[i]
  BY <1>4, <1>6 DEF old, last
<1>10. \A k \in Maps : \A i : i \in DOMAIN map[k].items =>
         i \in DOMAIN map'[k].items /\ map'[k].items[i] = map[k].items[i]
  BY <1>4, <1>6 DEF old
<1>11. last \in DOMAIN map'[m].items /\ map'[m].items[last] = a
  BY <1>4, <1>6 DEF last
<1>12. Buffers({})'
  BY <1>1, <1>2, <1>7 DEF Owned, Buffers
<1>13. Entries'
  BY <1>1, <1>2, <1>5, <1>8, <1>9 DEF Owned, Entries
<1>14. Apart'
  <2>1. \A c \in Bufs, k \in Maps : \A i \in DOMAIN map'[k].items : buf[c].virt # map'[k].items[i].virt
    BY <1>5, <1>7, <1>9 DEF Owned, Apart
  <2>2. ASSUME NEW k \in Maps, NEW l \in Maps, NEW i \in DOMAIN map'[k].items,
               NEW j \in DOMAIN map'[l].items,
               map'[k].items[i].virt = map'[l].items[j].virt
        PROVE  k = l /\ i = j
    BY <2>2, <1>5, <1>8, <1>9 DEF Owned, Apart
  <2>3. \A c, d \in Bufs : c # d /\ buf[c].virt # NoBlock => buf[c].virt # buf[d].virt
    BY DEF Owned, Apart
  <2> QED
    BY <2>1, <2>2, <2>3 DEF Apart
<1>15. Reached'
  <2> SUFFICES ASSUME NEW x \in Blocks, heap'[x] > 0, ~\E c \in Bufs : buf[c].virt = x
               PROVE  \E k \in Maps : \E i \in DOMAIN map'[k].items : map'[k].items[i].virt = x
    BY DEF Reached
  <2>1. CASE x = new
    BY <2>1, <1>5, <1>11
  <2>2. CASE x # new
    <3>1. PICK k \in Maps : \E i \in DOMAIN map[k].items : map[k].items[i].virt = x
      BY <2>2, <1>2 DEF Owned, Reached
    <3> QED
      BY <3>1, <1>10
  <2> QED
    BY <2>1, <2>2
<1> QED
  BY <1>12, <1>13, <1>14, <1>15 DEF Owned

(* PhysBlkReleaseAllBlocks frees the blocks of one list, none of them twice.  *)
LEMMA TakeEntries ==
  ASSUME TypeOK, Owned({}), NEW m \in Maps, fault = "none", PhysBlkReleaseAllBlocks(m),
         UNCHANGED buf
  PROVE  Owned({})' /\ fault' = "none" /\ map'[m] = NoItems
         /\ \A k \in Maps \ {m} : map'[k] = map[k]
<1>1. map'[m] = NoItems /\ \A k \in Maps \ {m} : map'[k] = map[k]
  BY DEF PhysBlkReleaseAllBlocks, TypeOK, InfoType
<1>2. \A x : x \in HeldBy(m) <=> \E i \in DOMAIN map[m].items : map[m].items[i].virt = x
  <2>1. \A i \in DOMAIN map[m].items : Held(map[m].items[i]) = {map[m].items[i].virt}
    BY NoBlockAssumption DEF Owned, Entries, Held
  <2> QED
    BY <2>1 DEF HeldBy
<1>3. \A x \in Blocks : heap'[x] = IF x \in HeldBy(m) THEN 0 ELSE heap[x]
  BY DEF PhysBlkReleaseAllBlocks, FreeAll
<1>4. \A x \in HeldBy(m) : heap[x] # 0
  BY <1>2 DEF Owned, Entries
<1>5. fault' = "none"
  BY <1>4 DEF PhysBlkReleaseAllBlocks, FreeAll, Blame
<1>6. \A c \in Bufs : buf[c].virt \notin HeldBy(m)
  BY <1>2 DEF Owned, Apart
<1>7. \A k \in Maps \ {m} : \A i \in DOMAIN map[k].items : map[k].items[i].virt \notin HeldBy(m)
  BY <1>2 DEF Owned, Apart
<1>8. DOMAIN map'[m].items = {}
  BY <1>1 DEF NoItems
<1>9. Buffers({})'
  BY <1>3, <1>6 DEF Owned, Buffers, TypeOK, InfoType, AddressInfo, Pointer
<1>10. Entries'
  BY <1>1, <1>3, <1>7, <1>8 DEF Owned, Entries
<1>11. Apart'
  BY <1>1, <1>8 DEF Owned, Apart
<1>12. Reached'
  <2> SUFFICES ASSUME NEW x \in Blocks, heap'[x] > 0, ~\E c \in Bufs : buf[c].virt = x
               PROVE  \E k \in Maps : \E i \in DOMAIN map'[k].items : map'[k].items[i].virt = x
    BY DEF Reached
  <2>1. heap[x] > 0 /\ x \notin HeldBy(m)
    BY <1>3
  <2> QED
    BY <1>1, <1>2, <2>1 DEF Owned, Reached
<1> QED
  BY <1>1, <1>5, <1>9, <1>10, <1>11, <1>12 DEF Owned

(* A buffer is freed; its descriptor is reset in the next step.               *)
LEMMA FreeOwned ==
  ASSUME TypeOK, Owned({}), NEW b \in Bufs, fault = "none", FreeAll(Held(buf[b])),
         UNCHANGED <<buf, map>>
  PROVE  Owned({b})' /\ fault' = "none"
<1>1. buf[b].virt \in Blocks \union {NoBlock}
  BY DEF TypeOK, InfoType, AddressInfo, Pointer
<1>2. Held(buf[b]) = IF buf[b].virt = NoBlock THEN {} ELSE {buf[b].virt}
  BY DEF Owned, Buffers, Held
<1>3. \A x \in Blocks : heap'[x] = IF x = buf[b].virt THEN 0 ELSE heap[x]
  BY <1>2, NoBlockAssumption DEF FreeAll
<1>4. fault' = "none"
  BY <1>2 DEF FreeAll, Blame, Owned, Buffers
<1>5. \A c \in Bufs : buf[c].virt \in Blocks \union {NoBlock}
  BY DEF TypeOK, InfoType, AddressInfo, Pointer
<1>6. Buffers({b})'
  BY <1>3, <1>5 DEF Owned, Buffers, Apart
<1>7. Entries'
  BY <1>3 DEF Owned, Entries, Apart
<1>8. Apart'
  BY DEF Owned, Apart
<1>9. Reached'
  BY <1>3 DEF Owned, Reached
<1> QED
  BY <1>4, <1>6, <1>7, <1>8, <1>9 DEF Owned

LEMMA ForgetFreed ==
  ASSUME TypeOK, NEW b \in Bufs, Owned({b}), buf' = [buf EXCEPT ![b] = Cleared(@)],
         UNCHANGED <<map, heap>>
  PROVE  Owned({})' /\ buf'[b].virt = NoBlock /\ \A c \in Bufs \ {b} : buf'[c] = buf[c]
<1>1. /\ buf'[b].virt = NoBlock /\ \A c \in Bufs \ {b} : buf'[c] = buf[c]
  BY DEF TypeOK, InfoType, AddressInfo, Cleared
<1>2. Buffers({})'
  BY <1>1 DEF Owned, Buffers
<1>3. Entries'
  BY DEF Owned, Entries
<1>4. Apart'
  BY <1>1, NoBlockAssumption DEF Owned, Apart, Entries
<1>5. Reached'
  <2> SUFFICES ASSUME NEW x \in Blocks, heap[x] > 0,
                      ~\E m \in Maps : \E i \in DOMAIN map[m].items : map[m].items[i].virt = x
               PROVE  \E c \in Bufs : buf'[c].virt = x
    BY DEF Reached
  <2>1. PICK c \in Bufs : buf[c].virt = x
    BY DEF Owned, Reached
  <2>2. c # b
    BY <2>1, NoBlockAssumption DEF Owned, Buffers
  <2> QED
    BY <1>1, <2>1, <2>2
<1> QED
  BY <1>1, <1>2, <1>3, <1>4, <1>5 DEF Owned

-----------------------------------------------------------------------------
(* The steps of a call *)

(* What a request asks for.                                                   *)
Request(l) == <<l.ctl, l.in, l.out, l.map>>

LEMMA FitSame ==
  ASSUME NEW t, NEW c, Fit(t, c), Request(loc'[t]) = Request(loc[t]), UNCHANGED buf
  PROVE  Fit(t, c)'
BY DEF Fit, Need, SizeOf, Request

(* Locals that change leave the request alone, and the others as they are.    *)
LEMMA RequestKept ==
  ASSUME NEW l \in Locals
  PROVE  /\ \A v : LET m == [l EXCEPT !.k = v]
                 IN m.k = v /\ Request(m) = Request(l) /\ m.ptr = l.ptr /\ m.left = l.left
         /\ \A s : LET m == [l EXCEPT !.st = s, !.k = 1]
                 IN m.k = 1 /\ Request(m) = Request(l)
BY DEF Locals, Request

(* A step that leaves the memory alone.                                       *)
LEMMA Untouched ==
  ASSUME NEW t, Accounted(t), fault = "none", pc[t] # "null_buf", pc'[t] # "null_buf",
         UNCHANGED <<buf, map, heap, fault>>
  PROVE  Accounted(t)' /\ fault' = "none"
BY OwnedSame DEF Accounted

LEMMA NothingOwned ==
  ASSUME Owned({}), Nothing, Nothing', heap' = heap
  PROVE  Owned({})'
<1>1. \A m \in Maps : DOMAIN map[m].items = {} /\ DOMAIN map'[m].items = {}
  BY DEF Nothing, NoMaps
<1>2. Reached'
  BY <1>1, NoBlockAssumption DEF Owned, Reached, Nothing
<1> QED
  BY <1>1, <1>2 DEF Owned, Buffers, Entries, Apart, Nothing

LEMMA ClearMem ==
  ASSUME NEW t, Accounted(t), fault = "none", Nothing, ClearInfo, UNCHANGED mem,
         pc[t] # "null_buf", pc'[t] # "null_buf"
  PROVE  Accounted(t)' /\ fault' = "none" /\ Nothing'
<1>1. Nothing'
  BY DEF ClearInfo, Nothing, NoMaps, NoAddress, NoItems
<1> QED
  BY <1>1, NothingOwned DEF Accounted, mem

LEMMA OpenMem ==
  ASSUME NEW t, Threads = {t}, TypeOK, MemInv(t), DrvOpen(t) \/ OpenStep(t)
  PROVE  MemInv(t)'
<1>1. CASE DrvOpen(t)
  <2>1. pc[t] = "idle" /\ pc'[t] = (IF segBase THEN "open_test" ELSE "open_map")
        /\ UNCHANGED <<buf, map, heap, fault, files, segBase, hdr>>
    BY <1>1, GotoAt DEF DrvOpen, mem, info
  <2>2. Nothing' /\ Accounted(t)' /\ fault' = "none"
    BY <2>1, Untouched DEF MemInv, PlaceInv, Quiet, Nothing, NoMaps
  <2>3. PlaceInv(t)'
    BY <2>1, <2>2 DEF PlaceInv, Ready, Mapping, Stored, InBios
  <2>4. EntryInv(t)'
    BY <2>1 DEF MemInv, EntryInv, OpenMapPcs, AgainPcs, Ready, Mapping, Stored, InBios
  <2> QED
    BY <2>2, <2>3, <2>4 DEF MemInv
<1>2. CASE OpenMap(t)
  <2>1. pc[t] = "open_map" /\ pc'[t] = "open_clear"
        /\ UNCHANGED <<buf, map, heap, fault, files, hdr>>
    BY <1>2, GotoAt DEF OpenMap, mem, info
  <2>2. Nothing' /\ Accounted(t)' /\ fault' = "none"
    BY <2>1, Untouched DEF MemInv, PlaceInv, Quiet, OpenMapPcs, Nothing, NoMaps
  <2>3. PlaceInv(t)'
    BY <2>1, <2>2 DEF PlaceInv, Ready, Mapping, Stored, InBios
  <2>4. EntryInv(t)'
    BY <2>1 DEF MemInv, EntryInv, OpenMapPcs, AgainPcs, Ready, Mapping, Stored, InBios
  <2> QED
    BY <2>2, <2>3, <2>4 DEF MemInv
<1>3. CASE OpenClear(t)
  <2>1. pc[t] = "open_clear" /\ pc'[t] = "open_read" /\ UNCHANGED <<mem, files>> /\ ClearInfo
    BY <1>3, GotoAt DEF OpenClear
  <2>2. Nothing' /\ Accounted(t)' /\ fault' = "none"
    BY <2>1, ClearMem DEF MemInv, PlaceInv, Quiet, OpenMapPcs
  <2>3. PlaceInv(t)'
    BY <2>1, <2>2 DEF PlaceInv, Ready, Mapping, Stored, InBios
  <2>4. EntryInv(t)'
    BY <2>1 DEF MemInv, EntryInv, OpenMapPcs, AgainPcs, Ready, Mapping, Stored, InBios
  <2> QED
    BY <2>2, <2>3, <2>4 DEF MemInv
<1>4. CASE OpenRead(t)
  <2>1. pc[t] = "open_read" /\ pc'[t] = (IF segBase THEN "open_test" ELSE "oops")
        /\ UNCHANGED <<buf, map, heap, fault, files, segBase>>
    BY <1>4, GotoAt DEF OpenRead, Oops, mem, info
  <2>2. Nothing' /\ Accounted(t)' /\ fault' = "none"
    BY <2>1, Untouched DEF MemInv, PlaceInv, Quiet, OpenMapPcs, Nothing, NoMaps
  <2>3. PlaceInv(t)'
    BY <2>1, <2>2 DEF PlaceInv, Ready, Mapping, Stored, InBios
  <2>4. EntryInv(t)'
    BY <2>1 DEF MemInv, EntryInv, OpenMapPcs, AgainPcs, Ready, Mapping, Stored, InBios
  <2> QED
    BY <2>2, <2>3, <2>4 DEF MemInv
<1>5. CASE OpenTest(t)
  <2>1. pc[t] = "open_test" /\ pc'[t] = "idle"
        /\ UNCHANGED <<buf, map, heap, fault, segBase, hdr>>
        /\ files' = IF hdr.ofs THEN files \union {loc[t].file} ELSE files
    BY <1>5, GotoAt DEF OpenTest, Return, mem, info
  <2>2. Nothing' /\ Accounted(t)' /\ fault' = "none"
    BY <2>1, Untouched DEF MemInv, PlaceInv, Quiet, Nothing, NoMaps
  <2>3. PlaceInv(t)'
    BY <2>1, <2>2 DEF PlaceInv, Ready, Mapping, Stored, InBios
  <2>4. EntryInv(t)'
    BY <2>1 DEF MemInv, EntryInv, OpenMapPcs, AgainPcs, Ready, Mapping, Stored, InBios
  <2> QED
    BY <2>2, <2>3, <2>4 DEF MemInv
<1> QED
  BY <1>1, <1>2, <1>3, <1>4, <1>5 DEF OpenStep

(* Requests, and what comes before the memory is asked for.                   *)
LEMMA AskMem ==
  ASSUME NEW t, Threads = {t}, TypeOK, MemInv(t),
         \/ DrvDispatchIoctl(t) \/ DrvBapiCall(t) \/ AgainMap(t) \/ AgainClear(t)
         \/ AgainRead(t) \/ PutStatus(t)
  PROVE  MemInv(t)'
<1>1. CASE DrvDispatchIoctl(t)
  <2>1. pc[t] = "idle" /\ pc'[t] = "args" /\ files # {}
        /\ UNCHANGED <<buf, map, heap, fault, files, segBase, hdr>>
    BY <1>1, GotoAt DEF DrvDispatchIoctl, mem, info
  <2>2. loc'[t].k = 1
    <3>1. PICK f, in, out, useMap, root :
            Set(t, [NoCall EXCEPT !.call = "ioctl", !.file = f, !.in = in, !.out = out,
                                  !.map = useMap, !.root = root])
      BY <1>1 DEF DrvDispatchIoctl
    <3>2. loc'[t] = [NoCall EXCEPT !.call = "ioctl", !.file = f, !.in = in, !.out = out,
                                   !.map = useMap, !.root = root]
      BY <3>1, SetAt
    <3> QED
      BY <3>2 DEF NoCall
  <2>3. Nothing' /\ Accounted(t)' /\ fault' = "none"
    BY <2>1, Untouched DEF MemInv, PlaceInv, Quiet, Nothing, NoMaps
  <2>4. PlaceInv(t)'
    BY <2>1, <2>2, <2>3 DEF PlaceInv, Ready, Mapping, Stored, InBios
  <2>5. EntryInv(t)'
    BY <2>1 DEF MemInv, EntryInv, OpenMapPcs, AgainPcs, Ready, Mapping, Stored, InBios
  <2> QED
    BY <2>3, <2>4, <2>5 DEF MemInv
<1>2. CASE DrvBapiCall(t)
  <2>1. pc[t] = "args" /\ files # {} /\ segBase /\ loc[t].k = 1 /\ Nothing
    BY <1>2 DEF DrvBapiCall, MemInv, EntryInv, PlaceInv, Quiet
  <2>2. pc'[t] \in {"idle", "sig"} /\ UNCHANGED <<buf, map, heap, fault, files, segBase, hdr>>
    BY <1>2, <2>1, GotoAt DEF DrvBapiCall, Return, mem, info
  <2>3. pc'[t] = "sig" => loc'[t].k = 1
    <3> SUFFICES ASSUME pc'[t] = "sig" PROVE loc'[t].k = 1
      OBVIOUS
    <3>0. ~Return(t)
      BY GotoAt DEF Return
    <3>1. PICK n : Set(t, [loc[t] EXCEPT !.ctl = n])
      BY <1>2, <3>0 DEF DrvBapiCall
    <3>2. loc'[t] = [loc[t] EXCEPT !.ctl = n]
      BY <3>1, SetAt
    <3> QED
      BY <2>1, <3>2, LocalsOf DEF Locals, TypeOK
  <2>4. Nothing' /\ Accounted(t)' /\ fault' = "none"
    BY <2>1, <2>2, Untouched DEF MemInv, Nothing, NoMaps
  <2>5. PlaceInv(t)'
    BY <2>2, <2>3, <2>4 DEF PlaceInv, Ready, Mapping, Stored, InBios
  <2>6. EntryInv(t)'
    BY <2>1, <2>2 DEF MemInv, EntryInv, OpenMapPcs, AgainPcs, Ready, Mapping, Stored, InBios
  <2> QED
    BY <2>4, <2>5, <2>6 DEF MemInv
<1>3. CASE AgainMap(t) \/ AgainClear(t) \/ AgainRead(t)
  BY <1>3 DEF AgainMap, AgainClear, AgainRead, MemInv, EntryInv, AgainPcs
<1>4. CASE PutStatus(t)
  <2>1. pc[t] = "put" /\ pc'[t] = "idle" /\ UNCHANGED <<buf, map, heap, fault, files, segBase, hdr>>
    BY <1>4, GotoAt DEF PutStatus, Return, mem, info
  <2>2. Nothing' /\ Accounted(t)' /\ fault' = "none"
    BY <2>1, Untouched DEF MemInv, PlaceInv, Quiet, Nothing, NoMaps
  <2>3. PlaceInv(t)'
    BY <2>1, <2>2 DEF PlaceInv, Ready, Mapping, Stored, InBios
  <2>4. EntryInv(t)'
    BY <2>1 DEF MemInv, EntryInv, OpenMapPcs, AgainPcs, Ready, Mapping, Stored, InBios
  <2> QED
    BY <2>2, <2>3, <2>4 DEF MemInv
<1> QED
  BY <1>1, <1>2, <1>3, <1>4

(* The way to the clean-up, which expects nothing.                            *)
LEMMA LeaveMem ==
  ASSUME NEW t, Threads = {t}, TypeOK, MemInv(t), NEW status, Leave(t, status),
         Owned({})', fault' = "none", UNCHANGED <<files, segBase, hdr>>
  PROVE  MemInv(t)'
<1>1. pc'[t] = "free_map" /\ loc'[t] = [loc[t] EXCEPT !.st = status, !.k = 1]
  BY GotoAt, SetAt DEF Leave
<1>2. loc'[t].k = 1
  BY <1>1, LocalsOf DEF TypeOK, Locals
<1>3. Accounted(t)'
  BY <1>1 DEF Accounted
<1>4. PlaceInv(t)'
  BY <1>1, <1>2 DEF PlaceInv, Quiet, OpenMapPcs, Ready, Mapping, Stored, InBios
<1>5. EntryInv(t)'
  BY <1>1 DEF MemInv, EntryInv, OpenMapPcs, AgainPcs, Ready, Mapping, Stored, InBios
<1> QED
  BY <1>3, <1>4, <1>5 DEF MemInv

LEMMA SignatureMem ==
  ASSUME NEW t, Threads = {t}, TypeOK, MemInv(t), ReadSignature(t) \/ SetMaxBlockSize(t)
  PROVE  MemInv(t)'
<1>0. /\ pc[t] \in {"sig", "block"} /\ Owned({}) /\ fault = "none" /\ Nothing
      /\ loc[t].k = 1 /\ files # {}
      /\ UNCHANGED <<buf, map, heap, fault, files, segBase, hdr>>
  BY DEF ReadSignature, SetMaxBlockSize, MemInv, PlaceInv, EntryInv, Accounted, Quiet, mem, info
<1>1. CASE pc'[t] \in {"block", "ctl"} /\ UNCHANGED loc
  <2>1. Nothing' /\ Accounted(t)' /\ fault' = "none"
    BY <1>0, <1>1, Untouched DEF MemInv, Nothing, NoMaps
  <2>2. PlaceInv(t)'
    <3>1. \A j \in 1 .. 3 : ~(j < loc'[t].k) /\ buf'[BufOrder[j]].virt = NoBlock
      BY <1>0, <1>1 DEF Nothing, BufOrder, Bufs
    <3> QED
      BY <1>0, <1>1, <2>1, <3>1
         DEF PlaceInv, Nothing, Quiet, OpenMapPcs, Ready, Mapping, Stored, InBios
  <2>3. EntryInv(t)'
    BY <1>0, <1>1 DEF MemInv, EntryInv, OpenMapPcs, AgainPcs, Ready, Mapping, Stored, InBios
  <2> QED
    BY <2>1, <2>2, <2>3 DEF MemInv
<1>2. CASE Leave(t, "ERROR")
  <2>1. Owned({})'
    BY <1>0, OwnedSame
  <2> QED
    BY <1>0, <1>2, <2>1, LeaveMem
<1> QED
  BY <1>1, <1>2, GotoAt DEF ReadSignature, SetMaxBlockSize

-----------------------------------------------------------------------------
(* The three buffers *)

LEMMA Orders ==
  /\ \A c \in Bufs : \E j \in 1 .. 3 : BufOrder[j] = c
  /\ \A i, j \in 1 .. 3 : BufOrder[i] = BufOrder[j] => i = j
  /\ \A j \in 1 .. 3 : BufOrder[j] \in Bufs
BY DEF BufOrder, Bufs

(* The step to the next buffer: this one is as the request asks for.          *)
LEMMA NextMem ==
  ASSUME NEW t, Threads = {t}, TypeOK, MemInv(t), pc[t] \in {"ctl", "ctl_get"}, NextBuffer(t),
         Owned({})', fault' = "none", UNCHANGED <<map, files, segBase, hdr>>,
         NEW b, b = BufOrder[loc[t].k],
         \A c \in Bufs \ {b} : buf'[c] = buf[c],
         Need(t, b) > 0 =>
           buf'[b].virt # NoBlock /\ buf'[b].phys = buf'[b].virt /\ buf'[b].span >= Need(t, b)
  PROVE  MemInv(t)'
<1> DEFINE k == loc[t].k
<1>0. /\ k \in 1 .. 3 /\ files # {} /\ NoMaps
      /\ \A j \in 1 .. 3 : IF j < k THEN Fit(t, BufOrder[j]) ELSE buf[BufOrder[j]].virt = NoBlock
      /\ loc[t] \in Locals
  BY LocalsOf DEF MemInv, PlaceInv, EntryInv, TypeOK, Locals
<1>1. NoMaps'
  BY <1>0 DEF NoMaps
<1>2. /\ Request(loc'[t]) = Request(loc[t])
      /\ IF k < 3 THEN pc'[t] = "ctl" /\ loc'[t].k = k + 1 ELSE pc'[t] = "copy_ctl"
  <2>1. CASE k < 3
    <3>1. pc'[t] = "ctl" /\ loc'[t] = [loc[t] EXCEPT !.k = k + 1]
      BY <2>1, GotoAt, SetAt DEF NextBuffer
    <3>2. loc'[t].k = k + 1 /\ Request(loc'[t]) = Request(loc[t])
      <4>1. ASSUME NEW l \in Locals, NEW v
            PROVE  [l EXCEPT !.k = v].k = v /\ Request([l EXCEPT !.k = v]) = Request(l)
        BY RequestKept
      <4> QED
        BY <1>0, <3>1, <4>1
    <3> QED
      BY <2>1, <3>1, <3>2
  <2>2. CASE ~(k < 3)
    BY <2>2, GotoAt DEF NextBuffer
  <2> QED
    BY <2>1, <2>2
<1>3. \A c : Need(t, c)' = Need(t, c)
  BY <1>2 DEF Need, SizeOf, Request
<1>4. Fit(t, b)'
  BY <1>3 DEF Fit
<1>5. \A j \in 1 .. 3 : j # k => BufOrder[j] \in Bufs \ {b}
  BY <1>0, Orders
<1>6. \A j \in 1 .. 3 : j < k + 1 => Fit(t, BufOrder[j])'
  <2> SUFFICES ASSUME NEW j \in 1 .. 3, j < k + 1 PROVE Fit(t, BufOrder[j])'
    OBVIOUS
  <2>1. CASE j = k
    BY <1>4, <2>1
  <2>2. CASE j # k
    <3>1. Fit(t, BufOrder[j]) /\ buf'[BufOrder[j]] = buf[BufOrder[j]]
      BY <1>0, <1>5, <2>2
    <3> QED
      BY <1>3, <3>1 DEF Fit
  <2> QED
    BY <2>1, <2>2
<1>7. \A j \in 1 .. 3 : ~(j < k + 1) => buf'[BufOrder[j]].virt = NoBlock
  BY <1>0, <1>5
<1>8. PlaceInv(t)'
  <2>1. CASE k < 3
    <3>1. pc'[t] = "ctl" /\ loc'[t].k = k + 1
      BY <1>2, <2>1
    <3> HIDE DEF k
    <3> QED
      BY <1>1, <1>6, <1>7, <3>1 DEF PlaceInv, Quiet, OpenMapPcs, Ready, Mapping, Stored, InBios
  <2>2. CASE ~(k < 3)
    <3>1. \A c \in Bufs : Fit(t, c)'
      <4> SUFFICES ASSUME NEW c \in Bufs PROVE Fit(t, c)'
        OBVIOUS
      <4>1. PICK j \in 1 .. 3 : BufOrder[j] = c
        BY Orders
      <4>2. j < k + 1
        BY <1>0, <2>2
      <4> QED
        BY <1>6, <4>1, <4>2
    <3>2. pc'[t] = "copy_ctl"
      BY <1>2, <2>2
    <3> QED
      BY <3>1, <3>2 DEF PlaceInv, Quiet, OpenMapPcs, Ready, Mapping, Stored, InBios
  <2> QED
    BY <2>1, <2>2
<1>9. EntryInv(t)' /\ Accounted(t)'
  BY <1>0, <1>2 DEF MemInv, EntryInv, OpenMapPcs, AgainPcs, Ready, Mapping, Stored, InBios, Accounted
<1> QED
  BY <1>8, <1>9 DEF MemInv

LEMMA BufferMem ==
  ASSUME NEW t, Threads = {t}, TypeOK, MemInv(t), BiosApiCtrlBufferAlloc(t)
  PROVE  MemInv(t)'
<1> DEFINE k == loc[t].k
           b == BufOrder[k]
           n == Need(t, b)
<1>0. /\ pc[t] = "ctl" /\ k \in 1 .. 3 /\ b \in Bufs /\ buf[b].virt = NoBlock
      /\ Owned({}) /\ fault = "none" /\ n \in Nat
      /\ UNCHANGED <<map, files, segBase, hdr>>
  <2>1. pc[t] = "ctl" /\ UNCHANGED <<map, files, segBase, hdr>>
    BY DEF BiosApiCtrlBufferAlloc, info
  <2>2. k \in 1 .. 3
    BY LocalsOf DEF TypeOK, Locals
  <2>3. b \in Bufs
    BY <2>2, Orders
  <2>4. Owned({}) /\ fault = "none"
    BY <2>1 DEF MemInv, Accounted
  <2>5. ~(k < k) /\ (IF k < k THEN Fit(t, b) ELSE buf[b].virt = NoBlock)
    BY <2>1, <2>2 DEF MemInv, PlaceInv
  <2>6. n \in Nat
    BY NeedType DEF TypeOK
  <2> QED
    BY <2>1, <2>2, <2>3, <2>4, <2>5, <2>6
<1>1. CASE n = 0 /\ FreeAll(Held(buf[b])) /\ buf' = [buf EXCEPT ![b] = Cleared(@)] /\ NextBuffer(t)
  <2>1. heap' = heap /\ fault' = "none"
    BY <1>0, <1>1 DEF Held, FreeAll, Blame, TypeOK, MemType
  <2>2. buf'[b].virt = NoBlock /\ \A c \in Bufs \ {b} : buf'[c] = buf[c]
    BY <1>0, <1>1 DEF TypeOK, InfoType, AddressInfo, Cleared
  <2>3. Owned({})'
    <3>1. Buffers({})' /\ Entries'
      BY <1>0, <2>1, <2>2 DEF Owned, Buffers, Entries
    <3>2. Apart'
      BY <1>0, <2>2, NoBlockAssumption DEF Owned, Apart, Entries
    <3>3. Reached'
      BY <1>0, <2>1, <2>2, NoBlockAssumption DEF Owned, Reached
    <3> QED
      BY <3>1, <3>2, <3>3 DEF Owned
  <2>4. b = BufOrder[loc[t].k] /\ ~(Need(t, b) > 0)
    BY <1>1
  <2>5. pc[t] = "ctl" /\ NextBuffer(t) /\ UNCHANGED <<map, files, segBase, hdr>>
    BY <1>0, <1>1
  <2> HIDE DEF b, k, n
  <2> QED
    BY <2>1, <2>2, <2>3, <2>4, <2>5, NextMem
<1>2. CASE Goto(t, "ctl_get") /\ UNCHANGED <<buf, mem, loc>>
  <2>1. pc'[t] = "ctl_get" /\ UNCHANGED <<buf, map, heap, fault, loc>>
    BY <1>0, <1>2, GotoAt DEF mem
  <2>2. Accounted(t)' /\ fault' = "none"
    BY <1>0, <2>1, Untouched DEF MemInv
  <2>3. PlaceInv(t)'
    <3>1. \A c : Fit(t, c)' <=> Fit(t, c)
      BY <2>1 DEF Fit, Need, SizeOf
    <3> QED
      BY <1>0, <2>1, <3>1 DEF MemInv, PlaceInv, NoMaps, Quiet, OpenMapPcs, Ready, Mapping, Stored, InBios
  <2>4. EntryInv(t)'
    BY <1>0, <2>1 DEF MemInv, EntryInv, OpenMapPcs, AgainPcs, Ready, Mapping, Stored, InBios
  <2> QED
    BY <2>2, <2>3, <2>4 DEF MemInv
<1> QED
  BY <1>0, <1>1, <1>2 DEF BiosApiCtrlBufferAlloc

LEMMA GetMem ==
  ASSUME NEW t, Threads = {t}, TypeOK, MemInv(t), CtrlBufferGet(t)
  PROVE  MemInv(t)'
<1> DEFINE k == loc[t].k
           b == BufOrder[k]
           n == Need(t, b)
<1>0. /\ pc[t] = "ctl_get" /\ k \in 1 .. 3 /\ b \in Bufs /\ buf[b].virt = NoBlock
      /\ Owned({}) /\ fault = "none" /\ n \in Nat
      /\ UNCHANGED <<map, files, segBase, hdr, fault>>
  <2>1. pc[t] = "ctl_get" /\ UNCHANGED <<map, files, segBase, hdr, fault>>
    BY DEF CtrlBufferGet, info
  <2>2. k \in 1 .. 3
    BY LocalsOf DEF TypeOK, Locals
  <2>3. b \in Bufs
    BY <2>2, Orders
  <2>4. Owned({}) /\ fault = "none"
    BY <2>1 DEF MemInv, Accounted
  <2>5. ~(k < k) /\ (IF k < k THEN Fit(t, b) ELSE buf[b].virt = NoBlock)
    BY <2>1, <2>2 DEF MemInv, PlaceInv
  <2>6. n \in Nat
    BY NeedType DEF TypeOK
  <2> QED
    BY <2>1, <2>2, <2>3, <2>4, <2>5, <2>6
<1>1. ASSUME NEW new \in Allocatable(n), Allocate(new, n), NextBuffer(t),
             buf' = [buf EXCEPT ![b] = [virt |-> new, phys |-> new, span |-> n]]
      PROVE  MemInv(t)'
  <2>1. Owned({})'
    BY <1>0, <1>1, GiveBuffer
  <2>2. /\ buf'[b] = [virt |-> new, phys |-> new, span |-> n]
        /\ \A c \in Bufs \ {b} : buf'[c] = buf[c]
    BY <1>0, <1>1 DEF TypeOK, InfoType
  <2>3. new # NoBlock
    BY NoBlockAssumption DEF Allocatable
  <2>4. buf'[b].virt # NoBlock /\ buf'[b].phys = buf'[b].virt /\ buf'[b].span >= Need(t, b)
    BY <1>0, <2>2, <2>3
  <2> QED
    BY <1>0, <1>1, <2>1, <2>2, <2>4, NextMem
<1>2. CASE /\ buf' = [buf EXCEPT ![b].virt = NoBlock]
           /\ Leave(t, "INSUFFICIENT_RESOURCES") /\ UNCHANGED <<heap, list>>
  <2>1. \A c \in Bufs : buf'[c].virt = buf[c].virt /\ buf'[c].span = buf[c].span
    BY <1>0, <1>2 DEF TypeOK, InfoType, AddressInfo
  <2>2. Owned({})'
    BY <1>0, <1>2, <2>1, OwnedSame
  <2> QED
    BY <1>0, <1>2, <2>2, LeaveMem
<1> QED
  BY <1>1, <1>2 DEF CtrlBufferGet

-----------------------------------------------------------------------------
(* From the buffers to the BIOS *)

(* No more is copied to or from a buffer than the request asks for.           *)
LEMMA TouchFits ==
  ASSUME NEW t, Threads = {t}, TypeOK, Owned({}), fault = "none", NEW c \in Bufs, Fit(t, c),
         NEW n \in Nat, n <= Need(t, c), Touch(buf[c].virt, n)
  PROVE  fault' = "none"
<1>1. buf[c].virt # NoBlock => heap[buf[c].virt] = buf[c].span /\ buf[c].span \in Nat
  BY DEF Owned, Buffers, TypeOK, InfoType, AddressInfo
<1>2. Need(t, c) \in Nat
  BY NeedType DEF TypeOK
<1>3. buf[c].virt # NoBlock => ~(heap[buf[c].virt] < n)
  BY <1>1, <1>2 DEF Fit
<1> QED
  BY <1>3 DEF Touch, Blame

(* A step between two places where all buffers are there.                     *)
LEMMA ReadyMem ==
  ASSUME NEW t, Threads = {t}, TypeOK, MemInv(t), pc[t] \in Ready, pc'[t] \in Ready,
         Request(loc'[t]) = Request(loc[t]), Owned({})', fault' = "none",
         UNCHANGED <<buf, files, segBase, hdr>>,
         pc'[t] \in Mapping => loc'[t].map /\ loc'[t].k \in {1, 2},
         pc'[t] \in Stored => loc'[t].ptr = buf[MapOf(t)'].virt,
         pc'[t] = "map_init" => map'[MapOf(t)'].items = <<>>,
         pc'[t] = "map_loop" => loc'[t].left + map'[MapOf(t)'].total = DataSize(t)',
         pc'[t] = "copy_in" => ~loc'[t].map,
         pc'[t] \in InBios => loc'[t].reg = [c \in Bufs |-> buf[c].phys]
  PROVE  MemInv(t)'
<1>1. \A c \in Bufs : Fit(t, c)'
  BY FitSame DEF MemInv, PlaceInv
<1>2. pc'[t] \notin Quiet \union {"ctl", "ctl_get", "free_map", "free_buf", "null_buf"}
      /\ pc'[t] \notin AgainPcs
  BY DEF Quiet, OpenMapPcs, Ready, Mapping, Stored, InBios, AgainPcs
<1>3. PlaceInv(t)'
  BY <1>1, <1>2 DEF PlaceInv, Quiet
<1>4. EntryInv(t)'
  BY <1>2 DEF MemInv, EntryInv, Quiet
<1>5. Accounted(t)'
  BY <1>2 DEF Accounted
<1> QED
  BY <1>3, <1>4, <1>5 DEF MemInv

LEMMA CopyCtrlMem ==
  ASSUME NEW t, Threads = {t}, TypeOK, MemInv(t), CopyCtrlFromUser(t)
  PROVE  MemInv(t)'
<1>0. /\ pc[t] = "copy_ctl" /\ Owned({}) /\ fault = "none" /\ Fit(t, "ctrl")
      /\ loc[t] \in Locals /\ UNCHANGED <<buf, map, heap, files, segBase, hdr>>
  BY LocalsOf DEF CopyCtrlFromUser, MemInv, PlaceInv, Accounted, Ready, Bufs, TypeOK, info
<1>1. Owned({})'
  BY <1>0, OwnedSame
<1>2. fault' = "none"
  <2>1. "ctrl" \in Bufs /\ loc[t].ctl \in Nat /\ loc[t].ctl <= Need(t, "ctrl")
    BY <1>0 DEF Bufs, Need, Locals
  <2> QED
    BY <1>0, <2>1, TouchFits DEF CopyCtrlFromUser
<1>3. CASE Leave(t, "ERROR")
  BY <1>0, <1>1, <1>2, <1>3, LeaveMem
<1>4. CASE loc[t].map /\ Goto(t, "map") /\ Set(t, [loc[t] EXCEPT !.k = 1])
  <2>1. pc'[t] = "map" /\ loc'[t] = [loc[t] EXCEPT !.k = 1]
    BY <1>4, GotoAt, SetAt
  <2>2. loc'[t].k = 1 /\ Request(loc'[t]) = Request(loc[t])
    BY <1>0, <2>1 DEF Locals, Request
  <2>3. loc'[t].map
    BY <1>4, <2>2 DEF Request
  <2>4. pc[t] \in Ready /\ pc'[t] \in Ready /\ pc'[t] \notin Stored \union InBios
    BY <1>0, <2>1 DEF Ready, Mapping, Stored, InBios
  <2> QED
    BY <1>0, <1>1, <1>2, <2>1, <2>2, <2>3, <2>4, ReadyMem
<1>5. CASE ~loc[t].map /\ Goto(t, "copy_in") /\ UNCHANGED loc
  <2>1. pc'[t] = "copy_in"
    BY <1>5, GotoAt
  <2>2. pc[t] \in Ready /\ pc'[t] \in Ready /\ pc'[t] \notin Mapping \union Stored \union InBios
    BY <1>0, <2>1 DEF Ready, Mapping, Stored, InBios
  <2> QED
    BY <1>0, <1>1, <1>2, <1>5, <2>1, <2>2, ReadyMem
<1> QED
  BY <1>3, <1>4, <1>5 DEF CopyCtrlFromUser

LEMMA CopyDataMem ==
  ASSUME NEW t, Threads = {t}, TypeOK, MemInv(t), CopyDataFromUser(t)
  PROVE  MemInv(t)'
<1>0. /\ pc[t] = "copy_in" /\ Owned({}) /\ fault = "none" /\ Fit(t, "in") /\ ~loc[t].map
      /\ loc[t] \in Locals /\ UNCHANGED <<buf, map, heap, files, segBase, hdr>>
  BY LocalsOf DEF CopyDataFromUser, MemInv, PlaceInv, Accounted, Ready, Bufs, TypeOK, info
<1>1. Owned({})'
  BY <1>0, OwnedSame
<1>2. fault' = "none"
  <2>1. "in" \in Bufs /\ loc[t].in \in Nat /\ loc[t].in <= Need(t, "in")
    BY <1>0 DEF Bufs, Need, SizeOf, Locals
  <2> QED
    BY <1>0, <2>1, TouchFits DEF CopyDataFromUser
<1>3. CASE Leave(t, "ERROR")
  BY <1>0, <1>1, <1>2, <1>3, LeaveMem
<1>4. CASE Goto(t, "access") /\ Set(t, [loc[t] EXCEPT !.inOk = TRUE])
  <2>1. pc'[t] = "access" /\ loc'[t] = [loc[t] EXCEPT !.inOk = TRUE]
    BY <1>4, GotoAt, SetAt
  <2>2. Request(loc'[t]) = Request(loc[t])
    BY <1>0, <2>1 DEF Locals, Request
  <2>3. pc[t] \in Ready /\ pc'[t] \in Ready /\ pc'[t] \notin Mapping \union Stored \union InBios
    BY <1>0, <2>1 DEF Ready, Mapping, Stored, InBios
  <2> QED
    BY <1>0, <1>1, <1>2, <2>1, <2>2, <2>3, ReadyMem
<1> QED
  BY <1>3, <1>4 DEF CopyDataFromUser

(* From the access check to the answer *)

LEMMA AccessMem ==
  ASSUME NEW t, Threads = {t}, TypeOK, MemInv(t), BiosApiCheckAccess(t)
  PROVE  MemInv(t)'
<1>0. /\ pc[t] = "access" /\ Owned({}) /\ fault = "none"
      /\ loc[t] \in Locals /\ UNCHANGED <<buf, map, heap, fault, files, segBase, hdr>>
  BY LocalsOf DEF BiosApiCheckAccess, MemInv, Accounted, TypeOK, info, mem
<1>1. Owned({})'
  BY <1>0, OwnedSame
<1>2. CASE Leave(t, "ACCESS_DENIED")
  BY <1>0, <1>1, <1>2, LeaveMem
<1>3. CASE Goto(t, "bios_map") /\ Set(t, [loc[t] EXCEPT !.reg = [b \in Bufs |-> buf[b].phys]])
  <2> DEFINE regs == [c \in Bufs |-> buf[c].phys]
  <2>1. pc'[t] = "bios_map" /\ loc'[t] = [loc[t] EXCEPT !.reg = regs]
    BY <1>3, GotoAt, SetAt
  <2> HIDE DEF regs
  <2>2. loc'[t].reg = regs /\ Request(loc'[t]) = Request(loc[t])
    BY <1>0, <2>1 DEF Locals, Request
  <2>3. pc[t] \in Ready /\ pc'[t] \in Ready /\ pc'[t] \notin Mapping \union Stored
    BY <1>0, <2>1 DEF Ready, Mapping, Stored, InBios
  <2> QED
    BY <1>0, <1>1, <2>1, <2>2, <2>3, ReadyMem DEF regs
<1> QED
  BY <1>2, <1>3 DEF BiosApiCheckAccess

LEMMA CallMem ==
  ASSUME NEW t, Threads = {t}, TypeOK, MemInv(t),
         BiosApiCall(t) \/ RaiseTaskPriority(t) \/ CallBios(t) \/ BiosReturns(t)
  PROVE  MemInv(t)'
<1>0. /\ pc[t] \in InBios /\ Owned({}) /\ fault = "none" /\ hdr.ofs
      /\ loc[t] \in Locals /\ loc[t].reg = [c \in Bufs |-> buf[c].phys]
      /\ UNCHANGED <<buf, map, heap, files, segBase, hdr>>
  BY LocalsOf DEF BiosApiCall, RaiseTaskPriority, CallBios, BiosReturns, MemInv, PlaceInv,
                  EntryInv, Accounted, Ready, InBios, TypeOK, info, mem
<1>1. Owned({})' /\ pc[t] \in Ready
  BY <1>0, OwnedSame DEF Ready
<1>2. fault' = "none"
  BY <1>0 DEF BiosApiCall, RaiseTaskPriority, CallBios, BiosReturns, Blame, mem
<1>3. CASE Leave(t, "ERROR")
  BY <1>0, <1>1, <1>2, <1>3, LeaveMem
<1>4. ASSUME NEW label \in InBios \union {"copy_out"}, Goto(t, label), NEW l, loc'[t] = l,
             Request(l) = Request(loc[t]), label \in InBios => l.reg = loc[t].reg
      PROVE  MemInv(t)'
  <2>1. pc'[t] = label /\ label \in Ready /\ label \notin Mapping \union Stored
        /\ label # "copy_in" /\ label # "map_init" /\ label # "map_loop"
    BY <1>4, GotoAt DEF Ready, Mapping, Stored, InBios
  <2> QED
    BY <1>0, <1>1, <1>2, <1>4, <2>1, ReadyMem
<1>5. CASE BiosApiCall(t) /\ ~Leave(t, "ERROR")
  <2>1. loc' = loc /\ \E label \in {"tpr", "exec"} : Goto(t, label)
    BY <1>5 DEF BiosApiCall
  <2> QED
    BY <1>4, <2>1 DEF InBios
<1>6. CASE RaiseTaskPriority(t) /\ ~Leave(t, "ERROR")
  <2>1. CASE loc' = loc /\ Goto(t, "exec")
    BY <1>4, <2>1 DEF InBios
  <2>2. ASSUME NEW c \in CPUs, Set(t, [loc[t] EXCEPT !.apic = TRUE, !.save = tpr[c]]), Goto(t, "exec")
        PROVE  MemInv(t)'
    <3>1. loc'[t] = [loc[t] EXCEPT !.apic = TRUE, !.save = tpr[c]]
      BY <2>2, SetAt
    <3>2. Request(loc'[t]) = Request(loc[t]) /\ loc'[t].reg = loc[t].reg
      BY <1>0, <3>1 DEF Locals, Request
    <3> QED
      BY <1>4, <2>2, <3>2 DEF InBios
  <2> QED
    BY <1>6, <2>1, <2>2 DEF RaiseTaskPriority
<1>7. CASE CallBios(t)
  BY <1>4, <1>7 DEF CallBios, InBios
<1>8. CASE BiosReturns(t)
  <2>1. loc'[t] = [loc[t] EXCEPT !.ran = TRUE] /\ Goto(t, "copy_out")
    BY <1>8, SetAt DEF BiosReturns
  <2>2. Request(loc'[t]) = Request(loc[t])
    BY <1>0, <2>1 DEF Locals, Request
  <2> QED
    BY <1>4, <2>1, <2>2 DEF InBios
<1> QED
  BY <1>3, <1>5, <1>6, <1>7, <1>8

LEMMA CopyOutMem ==
  ASSUME NEW t, Threads = {t}, TypeOK, MemInv(t), CopyToUser(t)
  PROVE  MemInv(t)'
<1>0. /\ pc[t] = "copy_out" /\ Owned({}) /\ fault = "none" /\ \A c \in Bufs : Fit(t, c)
      /\ loc[t] \in Locals /\ UNCHANGED <<buf, map, heap, files, segBase, hdr>>
      /\ {"ctrl", "out"} \subseteq Bufs /\ "out" \in Maps
  BY LocalsOf DEF CopyToUser, MemInv, PlaceInv, Accounted, Ready, Bufs, Maps, TypeOK, info
<1>1. Owned({})'
  BY <1>0, OwnedSame
<1>2. \A c \in Bufs : buf[c].virt # NoBlock => heap[buf[c].virt] = buf[c].span /\ buf[c].span \in Nat
  BY <1>0 DEF Owned, Buffers, TypeOK, InfoType, AddressInfo
<1>3. Need(t, "ctrl") = loc[t].ctl /\ (~loc[t].map => Need(t, "out") = loc[t].out)
      /\ loc[t].ctl \in Nat /\ loc[t].out \in Nat
  BY <1>0 DEF Need, SizeOf, Locals
<1>4. /\ buf["ctrl"].virt # NoBlock => ~(heap[buf["ctrl"].virt] < loc[t].ctl)
      /\ ~loc[t].map /\ buf["out"].virt # NoBlock => ~(heap[buf["out"].virt] < loc[t].out)
  BY <1>0, <1>2, <1>3 DEF Fit
<1>5. \A i \in DOMAIN map["out"].items :
        ~(heap[map["out"].items[i].virt] < map["out"].items[i].span)
  <2> SUFFICES ASSUME NEW i \in DOMAIN map["out"].items
               PROVE  ~(heap[map["out"].items[i].virt] < map["out"].items[i].span)
    OBVIOUS
  <2>1. map["out"].items[i].virt \in Blocks
        /\ heap[map["out"].items[i].virt] = map["out"].items[i].span
    BY <1>0 DEF Owned, Entries
  <2>2. heap[map["out"].items[i].virt] \in Nat
    BY <2>1 DEF TypeOK, MemType
  <2> QED
    BY <2>1, <2>2
<1>6. fault' = "none" /\ \E status : Leave(t, status)
  BY <1>0, <1>4, <1>5 DEF CopyToUser, Touch, Blame
<1> QED
  BY <1>0, <1>1, <1>6, LeaveMem

-----------------------------------------------------------------------------
(* The two lists *)

(* What is known where a list is built, and that its length can be stored     *)
(* through the descriptor's pointer.                                          *)
LEMMA MappingAt ==
  ASSUME NEW t, Threads = {t}, TypeOK, MemInv(t), pc[t] \in Mapping
  PROVE  /\ Owned({}) /\ fault = "none" /\ pc[t] \in Ready
         /\ loc[t] \in Locals /\ loc[t].map /\ loc[t].k \in {1, 2}
         /\ MapOf(t) \in Maps /\ MapOf(t) \in Bufs
         /\ buf[MapOf(t)].virt # NoBlock
         /\ (Touch(buf[MapOf(t)].virt, ListSize) => fault' = "none")
<1>1. /\ Owned({}) /\ fault = "none" /\ pc[t] \in Ready /\ loc[t] \in Locals
      /\ loc[t].map /\ loc[t].k \in {1, 2}
  BY LocalsOf DEF MemInv, PlaceInv, Accounted, Ready, Mapping, Stored, TypeOK
<1>2. MapOf(t) \in Maps /\ MapOf(t) \in Bufs /\ MapOf(t) # "ctrl"
  BY <1>1 DEF MapOf, MapOrder, Maps, Bufs
<1>3. Need(t, MapOf(t)) = ListSize /\ ListSize \in Nat \ {0} /\ Fit(t, MapOf(t))
  BY <1>1, <1>2, SizesAssumption DEF Need, MemInv, PlaceInv
<1>4. Touch(buf[MapOf(t)].virt, ListSize) => fault' = "none"
  BY <1>1, <1>2, <1>3, TouchFits
<1> QED
  BY <1>1, <1>2, <1>3, <1>4 DEF Fit

LEMMA AllocBlocksMem ==
  ASSUME NEW t, Threads = {t}, TypeOK, MemInv(t), BiosApiAllocBlocks(t)
  PROVE  MemInv(t)'
<1> DEFINE m == MapOf(t)
           p == buf[m].virt
<1>0. pc[t] = "map" /\ UNCHANGED <<buf, files, segBase, hdr>> /\ pc[t] \in Mapping
  BY DEF BiosApiAllocBlocks, info, Mapping
<1>1. /\ Owned({}) /\ fault = "none" /\ pc[t] \in Ready /\ loc[t] \in Locals
      /\ loc[t].map /\ loc[t].k \in {1, 2} /\ m \in Maps /\ p # NoBlock
      /\ (Touch(p, ListSize) => fault' = "none")
  BY <1>0, MappingAt
<1>2. loc'[t] = [loc[t] EXCEPT !.ptr = p]
  BY <1>0, <1>1, SetAt DEF BiosApiAllocBlocks
<1>3. Request(loc'[t]) = Request(loc[t]) /\ loc'[t].k = loc[t].k /\ loc'[t].ptr = p
  <2>1. loc[t] \in Locals
    BY <1>1
  <2>2. loc'[t] = [loc[t] EXCEPT !.ptr = p]
    BY <1>2
  <2> QED
    BY <2>1, <2>2 DEF Locals, Request
<1>4. MapOf(t)' = m /\ loc'[t].map
  BY <1>1, <1>3 DEF MapOf, Request
<1>5. CASE PhysBlkReleaseAllBlocks(m) /\ Goto(t, "map_init")
  <2>1. Owned({})' /\ fault' = "none" /\ map'[m] = NoItems
    BY <1>0, <1>1, <1>5, TakeEntries
  <2>2. map'[m].items = <<>>
    BY <2>1 DEF NoItems
  <2>3. pc'[t] = "map_init" /\ pc'[t] \in Ready /\ pc'[t] \notin InBios
    BY <1>5, GotoAt DEF Ready, Mapping, Stored, InBios
  <2> QED
    BY <1>0, <1>1, <1>3, <1>4, <2>1, <2>2, <2>3, ReadyMem
<1>6. CASE Touch(p, ListSize) /\ Goto(t, "map_fill") /\ UNCHANGED <<map, heap, list>>
  <2>1. Owned({})' /\ fault' = "none"
    BY <1>0, <1>1, <1>6, OwnedSame
  <2>2. pc'[t] = "map_fill" /\ pc'[t] \in Ready /\ pc'[t] \notin InBios
    BY <1>6, GotoAt DEF Ready, Mapping, Stored, InBios
  <2> QED
    BY <1>0, <1>1, <1>3, <1>4, <2>1, <2>2, ReadyMem
<1> QED
  BY <1>1, <1>5, <1>6 DEF BiosApiAllocBlocks

LEMMA BlkInitMem ==
  ASSUME NEW t, Threads = {t}, TypeOK, MemInv(t), PhysBlkInit(t)
  PROVE  MemInv(t)'
<1> DEFINE m == MapOf(t)
           n == DataSize(t)
<1>0. /\ pc[t] = "map_init" /\ UNCHANGED <<buf, heap, fault, files, segBase, hdr>>
      /\ pc[t] \in Mapping /\ pc[t] \in Stored
  BY DEF PhysBlkInit, info, mem, Mapping, Stored
<1>1. /\ Owned({}) /\ fault = "none" /\ pc[t] \in Ready /\ loc[t] \in Locals
      /\ loc[t].map /\ loc[t].k \in {1, 2} /\ m \in Maps
  BY <1>0, MappingAt
<1>2. map[m].items = <<>> /\ loc[t].ptr = buf[m].virt
  BY <1>0 DEF MemInv, PlaceInv
<1>3. map' = [map EXCEPT ![m] = NoItems] /\ Goto(t, "map_loop")
      /\ loc'[t] = [loc[t] EXCEPT !.left = n, !.std = maxBlock]
  BY SetAt DEF PhysBlkInit
<1>4. n \in Nat
  BY DataSizeType DEF TypeOK
<1> HIDE DEF n
<1>5. /\ Request(loc'[t]) = Request(loc[t]) /\ loc'[t].k = loc[t].k
      /\ loc'[t].ptr = loc[t].ptr /\ loc'[t].left = n
  <2>1. loc[t] \in Locals
    BY <1>1
  <2>2. loc'[t] = [loc[t] EXCEPT !.left = n, !.std = maxBlock]
    BY <1>3
  <2> QED
    BY <2>1, <2>2 DEF Locals, Request
<1>6. MapOf(t)' = m /\ loc'[t].map /\ DataSize(t)' = n
  BY <1>1, <1>5 DEF MapOf, DataSize, SizeOf, Request, n
<1>7. map'[m] = NoItems /\ \A k \in Maps \ {m} : map'[k] = map[k]
  BY <1>1, <1>3 DEF TypeOK, InfoType
<1>8. \A k \in Maps : map'[k].items = map[k].items
  BY <1>2, <1>7 DEF NoItems
<1>9. Owned({})'
  BY <1>0, <1>1, <1>8, OwnedSame
<1>10. pc'[t] = "map_loop" /\ pc'[t] \in Ready /\ pc'[t] \notin InBios
  BY <1>3, GotoAt DEF Ready, Mapping, Stored, InBios
<1>11. loc'[t].left + map'[MapOf(t)'].total = DataSize(t)'
  BY <1>4, <1>5, <1>6, <1>7 DEF NoItems
<1> QED
  BY <1>0, <1>1, <1>2, <1>5, <1>6, <1>9, <1>10, <1>11, ReadyMem

LEMMA BlkLoopMem ==
  ASSUME NEW t, Threads = {t}, TypeOK, MemInv(t), PhysBlkAllocBlocks(t)
  PROVE  MemInv(t)'
<1> DEFINE m == MapOf(t)
           n == BlockSize(map[m].items, loc[t].left, loc[t].std)
<1>0. /\ pc[t] = "map_loop" /\ UNCHANGED <<buf, files, segBase, hdr>>
      /\ pc[t] \in Mapping /\ pc[t] \in Stored
  BY DEF PhysBlkAllocBlocks, info, Mapping, Stored
<1>1. /\ Owned({}) /\ fault = "none" /\ pc[t] \in Ready /\ loc[t] \in Locals
      /\ loc[t].map /\ loc[t].k \in {1, 2} /\ m \in Maps
  BY <1>0, MappingAt
<1>2. loc[t].ptr = buf[m].virt /\ loc[t].left + map[m].total = DataSize(t)
  BY <1>0 DEF MemInv, PlaceInv
<1>3. loc[t].left \in Nat /\ loc[t].std \in Nat /\ n \in Nat /\ n <= loc[t].left
      /\ map[m].total \in Nat
  <2>1. loc[t].left \in Nat /\ loc[t].std \in Nat
    BY <1>1 DEF Locals
  <2> QED
    BY <1>1, <2>1, BlockSizeType DEF TypeOK, InfoType, PhysMapList
<1> HIDE DEF n
<1>4. ASSUME UNCHANGED <<map, mem>>, NEW label \in {"map_loop", "map_fill"}, pc'[t] = label,
             Request(loc'[t]) = Request(loc[t]), loc'[t].k = loc[t].k, loc'[t].ptr = loc[t].ptr,
             loc'[t].left = loc[t].left
      PROVE  MemInv(t)'
  <2>1. Owned({})' /\ fault' = "none"
    BY <1>0, <1>1, <1>4, OwnedSame DEF mem
  <2>2. MapOf(t)' = m /\ loc'[t].map /\ DataSize(t)' = DataSize(t)
    BY <1>1, <1>4 DEF MapOf, DataSize, SizeOf, Request
  <2>3. label \in Ready /\ label \notin InBios /\ label # "copy_in" /\ label # "map_init"
    BY DEF Ready, Mapping, Stored, InBios
  <2> QED
    BY <1>0, <1>1, <1>2, <1>4, <2>1, <2>2, <2>3, ReadyMem
<1>5. CASE Goto(t, "map_fill") /\ UNCHANGED <<map, mem, loc>>
  BY <1>4, <1>5, GotoAt
<1>6. ASSUME NEW new \in Allocatable(n), Allocate(new, n), UNCHANGED <<pc, fault>>,
             map' = [map EXCEPT ![m] =
                       [items |-> Append(@.items, [virt |-> new, phys |-> new, span |-> n]),
                        total |-> @.total + n]],
             Set(t, [loc[t] EXCEPT !.left = @ - n])
      PROVE  MemInv(t)'
  <2>1. Owned({})' /\ fault' = "none"
    BY <1>0, <1>1, <1>3, <1>6, GiveEntry
  <2>2. map'[m].total = map[m].total + n
    BY <1>1, <1>6 DEF TypeOK, InfoType
  <2>3. loc'[t] = [loc[t] EXCEPT !.left = loc[t].left - n]
    BY <1>6, SetAt
  <2>4. /\ Request(loc'[t]) = Request(loc[t]) /\ loc'[t].k = loc[t].k
        /\ loc'[t].ptr = loc[t].ptr /\ loc'[t].left = loc[t].left - n
    <3>1. loc[t] \in Locals
      BY <1>1
    <3>2. loc'[t] = [loc[t] EXCEPT !.left = loc[t].left - n]
      BY <2>3
    <3> QED
      BY <3>1, <3>2 DEF Locals, Request
  <2>5. MapOf(t)' = m /\ loc'[t].map /\ DataSize(t)' = DataSize(t)
    BY <1>1, <2>4 DEF MapOf, DataSize, SizeOf, Request
  <2>6. pc'[t] = "map_loop" /\ pc'[t] \in Ready /\ pc'[t] \notin InBios
    BY <1>0, <1>6 DEF Ready, Mapping, Stored, InBios
  <2>7. loc'[t].left + map'[MapOf(t)'].total = DataSize(t)'
    BY <1>2, <1>3, <2>2, <2>4, <2>5
  <2> QED
    BY <1>0, <1>1, <1>2, <2>1, <2>4, <2>5, <2>6, <2>7, ReadyMem
<1>7. CASE Set(t, [loc[t] EXCEPT !.std = Smaller(@)]) /\ UNCHANGED <<map, mem, pc>>
  <2>1. loc'[t] = [loc[t] EXCEPT !.std = Smaller(loc[t].std)]
    BY <1>7, SetAt
  <2>2. /\ Request(loc'[t]) = Request(loc[t]) /\ loc'[t].k = loc[t].k
        /\ loc'[t].ptr = loc[t].ptr /\ loc'[t].left = loc[t].left
    <3>1. loc[t] \in Locals
      BY <1>1
    <3>2. loc'[t] = [loc[t] EXCEPT !.std = Smaller(loc[t].std)]
      BY <2>1
    <3> QED
      BY <3>1, <3>2 DEF Locals, Request
  <2> QED
    BY <1>0, <1>4, <1>7, <2>2
<1>8. CASE PhysBlkReleaseAllBlocks(m) /\ Goto(t, "map_fail") /\ UNCHANGED loc
  <2>1. Owned({})' /\ fault' = "none"
    BY <1>0, <1>1, <1>8, TakeEntries
  <2>2. pc'[t] = "map_fail" /\ pc'[t] \in Ready /\ pc'[t] \notin InBios
    BY <1>8, GotoAt DEF Ready, Mapping, Stored, InBios
  <2>3. MapOf(t)' = m
    BY <1>8 DEF MapOf
  <2> QED
    BY <1>0, <1>1, <1>2, <1>8, <2>1, <2>2, <2>3, ReadyMem
<1> QED
  BY <1>5, <1>6, <1>7, <1>8 DEF PhysBlkAllocBlocks, n

LEMMA FillMem ==
  ASSUME NEW t, Threads = {t}, TypeOK, MemInv(t), AllocBlocksFailed(t) \/ FillFlashMap(t)
  PROVE  MemInv(t)'
<1>0. /\ pc[t] \in {"map_fail", "map_fill"} /\ UNCHANGED <<buf, map, heap, files, segBase, hdr>>
      /\ pc[t] \in Mapping /\ pc[t] \in Stored /\ Touch(loc[t].ptr, ListSize)
  BY DEF AllocBlocksFailed, FillFlashMap, info, Mapping, Stored
<1>1. loc[t].ptr = buf[MapOf(t)].virt
  BY <1>0 DEF MemInv, PlaceInv
<1>2. /\ Owned({}) /\ fault' = "none" /\ pc[t] \in Ready
      /\ loc[t].map /\ loc[t].k \in {1, 2}
  BY <1>0, <1>1, MappingAt
<1>3. Owned({})'
  BY <1>0, <1>2, OwnedSame
<1>4. CASE AllocBlocksFailed(t)
  BY <1>0, <1>2, <1>3, <1>4, LeaveMem DEF AllocBlocksFailed
<1>5. CASE FillFlashMap(t)
  <2>1. pc'[t] \in {"map_copy", "access"} /\ loc' = loc
    BY <1>5, GotoAt DEF FillFlashMap
  <2>2. pc'[t] \in Ready /\ pc'[t] \notin InBios \union Stored
    BY <2>1 DEF Ready, Mapping, Stored, InBios
  <2> QED
    BY <1>0, <1>2, <1>3, <2>1, <2>2, ReadyMem
<1> QED
  BY <1>4, <1>5

LEMMA CopyMapMem ==
  ASSUME NEW t, Threads = {t}, TypeOK, MemInv(t), BiosApiCopyDataToMap(t)
  PROVE  MemInv(t)'
<1>0. /\ pc[t] = "map_copy" /\ UNCHANGED <<buf, map, heap, files, segBase, hdr>>
      /\ pc[t] \in Mapping
  BY DEF BiosApiCopyDataToMap, info, Mapping
<1>1. Owned({}) /\ fault = "none" /\ pc[t] \in Ready /\ loc[t] \in Locals /\ loc[t].map
  BY <1>0, MappingAt
<1>2. \A i \in DOMAIN map["in"].items :
        ~(heap[map["in"].items[i].virt] < map["in"].items[i].span)
  <2> SUFFICES ASSUME NEW i \in DOMAIN map["in"].items
               PROVE  ~(heap[map["in"].items[i].virt] < map["in"].items[i].span)
    OBVIOUS
  <2>1. map["in"].items[i].virt \in Blocks
        /\ heap[map["in"].items[i].virt] = map["in"].items[i].span
    BY <1>1 DEF Owned, Entries, Maps
  <2>2. heap[map["in"].items[i].virt] \in Nat
    BY <2>1 DEF TypeOK, MemType
  <2> QED
    BY <2>1, <2>2
<1>3. fault' = "none" /\ Owned({})'
  BY <1>0, <1>1, <1>2, OwnedSame DEF BiosApiCopyDataToMap, Blame
<1>4. PICK ok \in BOOLEAN : Set(t, [loc[t] EXCEPT !.inOk = ok, !.k = 2])
  BY DEF BiosApiCopyDataToMap
<1>5. loc'[t] = [loc[t] EXCEPT !.inOk = ok, !.k = 2]
  BY <1>4, SetAt
<1>6. Request(loc'[t]) = Request(loc[t]) /\ loc'[t].k = 2
  <2>1. loc[t] \in Locals
    BY <1>1
  <2>2. loc'[t] = [loc[t] EXCEPT !.inOk = ok, !.k = 2]
    BY <1>5
  <2> QED
    BY <2>1, <2>2 DEF Locals, Request
<1>7. loc'[t].map
  BY <1>1, <1>6 DEF Request
<1>8. pc'[t] = "map" /\ pc'[t] \in Ready /\ pc'[t] \notin InBios \union Stored
  BY GotoAt DEF BiosApiCopyDataToMap, Ready, Mapping, Stored, InBios
<1> QED
  BY <1>0, <1>1, <1>3, <1>6, <1>7, <1>8, ReadyMem

-----------------------------------------------------------------------------
(* The clean-up *)

(* A release begins with the clean-up; the lists go before the buffers.       *)
LEMMA ReleaseMem ==
  ASSUME NEW t, Threads = {t}, TypeOK, MemInv(t), DrvRelease(t)
  PROVE  MemInv(t)'
<1>1. /\ pc[t] = "idle" /\ pc'[t] = "free_map" /\ UNCHANGED <<buf, map, heap, fault, segBase, hdr>>
      /\ files' \subseteq files
  BY GotoAt DEF DrvRelease, mem, info
<1>2. loc'[t].k = 1
  <2>1. PICK f : Set(t, [NoCall EXCEPT !.call = "release", !.file = f])
    BY DEF DrvRelease
  <2>2. loc'[t] = [NoCall EXCEPT !.call = "release", !.file = f]
    BY <2>1, SetAt
  <2> QED
    BY <2>2 DEF NoCall
<1>3. Accounted(t)' /\ fault' = "none"
  BY <1>1, Untouched DEF MemInv
<1>4. PlaceInv(t)'
  BY <1>1, <1>2 DEF PlaceInv, Quiet, OpenMapPcs, Ready, Mapping, Stored, InBios
<1>5. EntryInv(t)'
  BY <1>1 DEF MemInv, EntryInv, OpenMapPcs, AgainPcs, Ready, Mapping, Stored, InBios
<1> QED
  BY <1>3, <1>4, <1>5 DEF MemInv

LEMMA FreeMapMem ==
  ASSUME NEW t, Threads = {t}, TypeOK, MemInv(t), FreeMap(t)
  PROVE  MemInv(t)'
<1> DEFINE m == MapOf(t)
<1>0. /\ pc[t] = "free_map" /\ UNCHANGED <<buf, files, segBase, hdr>>
      /\ Owned({}) /\ fault = "none" /\ loc[t] \in Locals /\ loc[t].k \in {1, 2} /\ m \in Maps
  BY LocalsOf, MapOfType DEF FreeMap, MemInv, Accounted, TypeOK, info, MapPcs
<1>1. Owned({})' /\ fault' = "none" /\ map'[m] = NoItems /\ \A k \in Maps \ {m} : map'[k] = map[k]
  BY <1>0, TakeEntries DEF FreeMap
<1>2. CASE loc[t].k = 1
  <2>1. pc'[t] = "free_map" /\ loc'[t].k = 2
    BY <1>0, <1>2, SetAt DEF FreeMap, Locals
  <2>2. map'["in"].items = <<>>
    BY <1>1, <1>2 DEF MapOf, MapOrder, NoItems
  <2>3. PlaceInv(t)'
    BY <2>1, <2>2 DEF PlaceInv, Quiet, OpenMapPcs, Ready, Mapping, Stored, InBios
  <2>4. EntryInv(t)' /\ Accounted(t)'
    BY <1>0, <1>1, <2>1
       DEF MemInv, EntryInv, OpenMapPcs, AgainPcs, Ready, Mapping, Stored, InBios, Accounted
  <2> QED
    BY <1>1, <2>3, <2>4 DEF MemInv
<1>3. CASE loc[t].k = 2
  <2>1. pc'[t] = "free_buf" /\ loc'[t].k = 1
    BY <1>0, <1>3, GotoAt, SetAt DEF FreeMap, Locals
  <2>2. m = "out" /\ map["in"].items = <<>>
    BY <1>0, <1>3 DEF MapOf, MapOrder, MemInv, PlaceInv
  <2>3. NoMaps'
    BY <1>1, <2>2 DEF NoMaps, NoItems, Maps
  <2>4. PlaceInv(t)'
    BY <2>1, <2>3 DEF PlaceInv, Quiet, OpenMapPcs, Ready, Mapping, Stored, InBios
  <2>5. EntryInv(t)' /\ Accounted(t)'
    BY <1>0, <1>1, <2>1
       DEF MemInv, EntryInv, OpenMapPcs, AgainPcs, Ready, Mapping, Stored, InBios, Accounted
  <2> QED
    BY <1>1, <2>4, <2>5 DEF MemInv
<1> QED
  BY <1>0, <1>2, <1>3

LEMMA FreeBufferMem ==
  ASSUME NEW t, Threads = {t}, TypeOK, MemInv(t), FreeBuffer(t)
  PROVE  MemInv(t)'
<1> DEFINE b == BufOrder[loc[t].k]
<1>0. /\ pc[t] = "free_buf" /\ pc'[t] = "null_buf" /\ UNCHANGED <<buf, map, loc, files, segBase, hdr>>
      /\ Owned({}) /\ fault = "none" /\ b \in Bufs /\ FreeAll(Held(buf[b]))
  BY BufOfType, GotoAt DEF FreeBuffer, MemInv, Accounted, TypeOK, info
<1>1. Owned({b})' /\ fault' = "none"
  BY <1>0, FreeOwned
<1>2. Accounted(t)'
  BY <1>0, <1>1 DEF Accounted
<1>3. PlaceInv(t)'
  BY <1>0 DEF MemInv, PlaceInv, NoMaps, Quiet, OpenMapPcs, Ready, Mapping, Stored, InBios
<1>4. EntryInv(t)'
  BY <1>0 DEF MemInv, EntryInv, OpenMapPcs, AgainPcs, Ready, Mapping, Stored, InBios
<1> QED
  BY <1>1, <1>2, <1>3, <1>4 DEF MemInv

LEMMA ClearBufferMem ==
  ASSUME NEW t, Threads = {t}, TypeOK, MemInv(t), ClearBuffer(t)
  PROVE  MemInv(t)'
<1> DEFINE k == loc[t].k
           b == BufOrder[k]
<1>0. /\ pc[t] = "null_buf" /\ UNCHANGED <<map, heap, fault, files, segBase, hdr>>
      /\ Owned({b}) /\ fault = "none" /\ b \in Bufs /\ buf' = [buf EXCEPT ![b] = Cleared(@)]
      /\ NoMaps /\ \A j \in 1 .. 3 : j < k => buf[BufOrder[j]].virt = NoBlock
      /\ loc[t] \in Locals /\ k \in 1 .. 3
  BY BufOfType, LocalsOf DEF ClearBuffer, MemInv, PlaceInv, Accounted, TypeOK, info, mem, Locals
<1>1. Owned({})' /\ buf'[b].virt = NoBlock /\ \A c \in Bufs \ {b} : buf'[c] = buf[c]
  BY <1>0, ForgetFreed
<1>2. NoMaps' /\ \A j \in 1 .. 3 : j < k + 1 => buf'[BufOrder[j]].virt = NoBlock
  <2>1. ASSUME NEW j \in 1 .. 3, j < k + 1 PROVE buf'[BufOrder[j]].virt = NoBlock
    <3>1. CASE j = k
      BY <1>1, <3>1
    <3>2. CASE j # k
      BY <1>0, <1>1, <2>1, <3>2, Orders
    <3> QED
      BY <3>1, <3>2
  <2> QED
    BY <1>0, <2>1 DEF NoMaps
<1>3. CASE k < 3 /\ Set(t, [loc[t] EXCEPT !.k = @ + 1]) /\ Goto(t, "free_buf")
  <2>1. pc'[t] = "free_buf" /\ loc'[t] = [loc[t] EXCEPT !.k = k + 1]
    BY <1>3, GotoAt, SetAt
  <2>2. loc'[t].k = k + 1
    BY <1>0, <2>1 DEF Locals
  <2> HIDE DEF k
  <2>3. PlaceInv(t)'
    BY <1>2, <2>1, <2>2 DEF PlaceInv, Quiet, OpenMapPcs, Ready, Mapping, Stored, InBios
  <2>4. EntryInv(t)' /\ Accounted(t)'
    BY <1>0, <1>1, <2>1
       DEF MemInv, EntryInv, OpenMapPcs, AgainPcs, Ready, Mapping, Stored, InBios, Accounted
  <2> QED
    BY <1>0, <2>3, <2>4 DEF MemInv
<1>4. CASE k = 3 /\ \E label \in {"put", "idle"} : Goto(t, label)
  <2>1. pc'[t] \in {"put", "idle"}
    BY <1>4, GotoAt
  <2>2. Nothing'
    <3>1. \A c \in Bufs : buf'[c].virt = NoBlock
      BY <1>2, <1>4, Orders
    <3> QED
      BY <1>2, <3>1 DEF Nothing
  <2>3. PlaceInv(t)'
    BY <2>1, <2>2 DEF PlaceInv, Ready, Mapping, Stored, InBios
  <2>4. EntryInv(t)' /\ Accounted(t)'
    BY <1>0, <1>1, <2>1
       DEF MemInv, EntryInv, OpenMapPcs, AgainPcs, Ready, Mapping, Stored, InBios, Accounted
  <2> QED
    BY <1>0, <2>3, <2>4 DEF MemInv
<1> QED
  BY <1>3, <1>4 DEF ClearBuffer, Return

-----------------------------------------------------------------------------
(* Theorems *)

LEMMA StepMem ==
  ASSUME NEW t, Threads = {t}, TypeOK, MemInv(t), [Next]_vars
  PROVE  MemInv(t)'
<1>1. CASE UNCHANGED vars
  <2>1. UNCHANGED <<buf, map, heap, fault, files, segBase, hdr, pc, loc, maxBlock>>
    BY <1>1 DEF vars, info, mem
  <2>2. Accounted(t)'
    BY <2>1 DEF MemInv, Accounted, Owned, Buffers, Entries, Apart, Reached
  <2>3. PlaceInv(t)'
    BY <2>1 DEF MemInv, PlaceInv, NoMaps, Nothing, Fit, Need, SizeOf, MapOf, DataSize
  <2>4. EntryInv(t)'
    BY <2>1 DEF MemInv, EntryInv
  <2> QED
    BY <2>1, <2>2, <2>3, <2>4 DEF MemInv
<1>2. CASE Start(t)
  BY <1>2, OpenMem, ReleaseMem, AskMem DEF Start
<1>3. CASE OpenStep(t)
  BY <1>3, OpenMem
<1>4. CASE SetUpStep(t)
  BY <1>4, AskMem, SignatureMem, BufferMem, GetMem, CopyCtrlMem, CopyDataMem DEF SetUpStep
<1>5. CASE MapStep(t)
  BY <1>5, AllocBlocksMem, BlkInitMem, BlkLoopMem, FillMem, CopyMapMem DEF MapStep
<1>6. CASE CallStep(t)
  BY <1>6, AccessMem, CallMem, CopyOutMem DEF CallStep
<1>7. CASE CleanUpStep(t)
  BY <1>7, FreeMapMem, FreeBufferMem, ClearBufferMem, AskMem DEF CleanUpStep
<1> QED
  BY <1>1, <1>2, <1>3, <1>4, <1>5, <1>6, <1>7 DEF Next, Step

LEMMA InitMem == ASSUME NEW t, Threads = {t}, Init PROVE MemInv(t)
<1>1. Nothing
  BY DEF Init, Nothing, NoMaps, NoAddress, NoItems
<1>2. \A m \in Maps : DOMAIN map[m].items = {}
  BY <1>1 DEF Nothing, NoMaps
<1>3. Owned({})
  BY <1>1, <1>2 DEF Init, Owned, Buffers, Entries, Apart, Reached, Nothing
<1> QED
  BY <1>1, <1>3
     DEF Init, MemInv, Accounted, PlaceInv, EntryInv, OpenMapPcs, AgainPcs, Ready, Mapping, Stored, InBios

(* The inductive invariant of the memory, with the types.                     *)
THEOREM MemInvariance == ASSUME NEW t, Threads = {t} PROVE Spec => [](TypeOK /\ MemInv(t))
<1>1. Init => MemInv(t)
  BY InitMem
<1>2. TypeOK /\ MemInv(t) /\ [Next]_vars => MemInv(t)'
  BY StepMem
<1> QED
  BY <1>1, <1>2, TypeCorrect, PTL DEF Spec

(* No block is written past its end or after it was freed, none is freed      *)
(* twice, and no BIOS code is called without an entry point.                  *)
THEOREM MisuseCorrect == ASSUME NEW t, Threads = {t} PROVE Spec => []NoMisuse
<1>1. MemInv(t) => NoMisuse
  BY DEF MemInv, NoMisuse
<1> QED
  BY <1>1, MemInvariance, PTL

(* A call that is over has given back every block, whatever step failed.      *)
THEOREM CleanUpCorrect == ASSUME NEW t, Threads = {t} PROVE Spec => []NothingHeld
<1>1. TypeOK /\ MemInv(t) => NothingHeld
  <2> SUFFICES ASSUME TypeOK, MemInv(t), pc[t] = "idle", NEW b \in Blocks PROVE heap[b] = 0
    BY DEF NothingHeld
  <2>1. Nothing /\ Reached
    BY DEF MemInv, PlaceInv, Quiet, Accounted, Owned
  <2>2. \A m \in Maps : DOMAIN map[m].items = {}
    BY <2>1 DEF Nothing, NoMaps
  <2>3. ~(heap[b] > 0)
    BY <2>1, <2>2, NoBlockAssumption DEF Nothing, Reached
  <2> QED
    BY <2>3 DEF TypeOK, MemType
<1> QED
  BY <1>1, MemInvariance, PTL

(* In the middle of a call, too, a descriptor or a list leads to every block, *)
(* and a list being built holds what is no longer to be allocated.            *)
THEOREM AccountsCorrect == ASSUME NEW t, Threads = {t} PROVE Spec => []BlocksAccounted
<1>1. TypeOK /\ MemInv(t) => BlocksAccounted
  <2> SUFFICES ASSUME TypeOK, MemInv(t) PROVE BlocksAccounted
    OBVIOUS
  <2>1. ASSUME NEW b \in Blocks, heap[b] > 0
        PROVE  b \in UNION ({Held(buf[c]) : c \in Bufs} \union {HeldBy(m) : m \in Maps})
    <3>1. PICK S : Owned(S)
      BY DEF MemInv, Accounted
    <3>2. b # NoBlock /\ heap[b] # 0
      BY <2>1, NoBlockAssumption DEF TypeOK, MemType
    <3>3. ASSUME NEW c \in Bufs, buf[c].virt = b PROVE b \in Held(buf[c])
      BY <3>1, <3>2, <3>3 DEF Owned, Buffers, Held, TypeOK, InfoType, AddressInfo
    <3>4. ASSUME NEW m \in Maps, NEW i \in DOMAIN map[m].items, map[m].items[i].virt = b
          PROVE  b \in HeldBy(m)
      <4>1. b \in Held(map[m].items[i])
        BY <3>1, <3>2, <3>4 DEF Owned, Entries, Held
      <4> QED
        BY <4>1 DEF HeldBy
    <3>5. \/ \E c \in Bufs : buf[c].virt = b
          \/ \E m \in Maps : \E i \in DOMAIN map[m].items : map[m].items[i].virt = b
      BY <2>1, <3>1 DEF Owned, Reached
    <3> QED
      BY <3>3, <3>4, <3>5
  <2> QED
    BY <2>1 DEF BlocksAccounted, MemInv, PlaceInv
<1> QED
  BY <1>1, MemInvariance, PTL

(* While the BIOS runs, each buffer the request asks for is allocated, large  *)
(* enough and no other of its buffers.                                        *)
THEOREM BuffersCorrect == ASSUME NEW t, Threads = {t} PROVE Spec => []BuffersFit
<1>1. TypeOK /\ MemInv(t) => BuffersFit
  <2> SUFFICES ASSUME TypeOK, MemInv(t), pc[t] = "bios", NEW b \in Bufs, Need(t, b) > 0
               PROVE  /\ loc[t].reg[b] # NoBlock
                      /\ heap[loc[t].reg[b]] >= Need(t, b)
                      /\ \A c \in Bufs \ {b} : Need(t, c) > 0 => loc[t].reg[c] # loc[t].reg[b]
    BY DEF BuffersFit
  <2>1. Owned({}) /\ (\A c \in Bufs : Fit(t, c)) /\ \A c \in Bufs : loc[t].reg[c] = buf[c].phys
    BY DEF MemInv, PlaceInv, Accounted, Ready, InBios
  <2>2. \A c \in Bufs : Need(t, c) > 0 =>
          /\ loc[t].reg[c] = buf[c].virt /\ buf[c].virt # NoBlock
          /\ heap[buf[c].virt] = buf[c].span /\ buf[c].span >= Need(t, c)
    BY <2>1 DEF Fit, Owned, Buffers
  <2> QED
    BY <2>1, <2>2 DEF Owned, Apart
<1> QED
  BY <1>1, MemInvariance, PTL

(* A file is open only while the segment is mapped and its entry point known. *)
THEOREM OpenHasEntryCorrect == ASSUME NEW t, Threads = {t} PROVE Spec => []OpenHasEntry
<1>1. MemInv(t) => OpenHasEntry
  BY DEF MemInv, EntryInv, OpenHasEntry
<1> QED
  BY <1>1, MemInvariance, PTL

-----------------------------------------------------------------------------
(* The flash maps *)

Spans(l) == Total([i \in DOMAIN l |-> l[i].span])

(* What is true of a list of blocks at any time.                              *)
Shape(m) ==
  LET l == map[m].items
  IN /\ \A i \in DOMAIN l : l[i].phys = l[i].virt
     /\ map[m].total = Spans(l)
     /\ Len(l) <= MaxItems
     /\ Len(l) > 1 => l[1].span = HeaderLen

Shapes == \A m \in Maps : Shape(m)

Enough(t, m) == map[m].total = SizeOf(t, m) \/ Len(map[m].items) = MaxItems

(* The list is complete, and the flash map in the buffer names its blocks.    *)
Listed(t, m) ==
  /\ list[buf[m].virt] = [i \in DOMAIN map[m].items |-> Cluster(map[m].items[i])]
  /\ Enough(t, m)

(* The input map is built first and kept while the output map is built; both  *)
(* lists are empty when a call begins, so neither is one of an earlier call.  *)
FlashAt(t) ==
  /\ pc[t] = "copy_ctl" => NoMaps
  /\ pc[t] \in Mapping /\ loc[t].k = 1 => map["out"].items = <<>>
  /\ pc[t] \in Mapping /\ loc[t].k = 2 => Listed(t, "in")
  /\ pc[t] = "map" => map[MapOf(t)].items = <<>>
  /\ pc[t] = "map_loop" /\ map[MapOf(t)].items # <<>> /\ loc[t].left > 0 =>
       map[MapOf(t)].items[1].span = HeaderLen
  /\ pc[t] = "map_fill" => Enough(t, MapOf(t))
  /\ pc[t] = "map_copy" => loc[t].k = 1 /\ Listed(t, "in")
  /\ pc[t] \in {"access"} \union InBios /\ loc[t].map => \A m \in Maps : Listed(t, m)

FlashInv(t) == Shapes /\ FlashAt(t)

LEMMA SpansEmpty == Spans(<<>>) = 0
<1>1. Len([i \in DOMAIN <<>> |-> <<>>[i].span]) = 0
  OBVIOUS
<1> QED
  BY <1>1, SumZero DEF Spans, Total

LEMMA SpansAppend ==
  ASSUME NEW l \in Seq(AddressInfo), NEW a \in AddressInfo
  PROVE  Spans(Append(l, a)) = Spans(l) + a.span
<1> DEFINE s == [i \in DOMAIN l |-> l[i].span]
<1>1. s \in Seq(Nat) /\ a.span \in Nat
  <2>1. Len(l) \in Nat /\ DOMAIN l = 1 .. Len(l) /\ \A i \in 1 .. Len(l) : l[i] \in AddressInfo
    OBVIOUS
  <2>2. s \in [1 .. Len(l) -> Nat]
    BY <2>1 DEF AddressInfo
  <2> HIDE DEF s
  <2>3. s \in Seq(Nat)
    BY <2>1, <2>2
  <2> QED
    BY <2>3 DEF AddressInfo
<1>2. [i \in DOMAIN Append(l, a) |-> Append(l, a)[i].span] = Append(s, a.span)
  OBVIOUS
<1>3. Total(Append(s, a.span)) = Total(s) + a.span
  <2> HIDE DEF s
  <2> QED
    BY <1>1, TotalAppend
<1> QED
  BY <1>2, <1>3 DEF Spans

(* A list that is reset, or left alone, keeps its shape.                      *)
LEMMA ShapesKept ==
  ASSUME Shapes, \A m \in Maps : map'[m] = map[m] \/ map'[m] = NoItems
  PROVE  Shapes'
<1> SUFFICES ASSUME NEW m \in Maps PROVE Shape(m)'
  BY DEF Shapes
<1>1. CASE map'[m] = map[m]
  BY <1>1 DEF Shapes, Shape
<1>2. CASE map'[m] = NoItems
  <2>1. map'[m].items = <<>> /\ map'[m].total = 0
    BY <1>2 DEF NoItems
  <2>2. MaxItems \in Nat /\ Len(<<>>) = 0 /\ DOMAIN <<>> = {}
    BY SizesAssumption
  <2> QED
    BY <2>1, <2>2, SpansEmpty DEF Shape
<1> QED
  BY <1>1, <1>2

LEMMA ReleaseResets ==
  ASSUME TypeOK, NEW m \in Maps, PhysBlkReleaseAllBlocks(m)
  PROVE  map'[m] = NoItems /\ \A k \in Maps \ {m} : map'[k] = map[k]
BY DEF PhysBlkReleaseAllBlocks, TypeOK, InfoType

LEMMA EnoughSame ==
  ASSUME NEW t, NEW m, Enough(t, m), map'[m] = map[m], Request(loc'[t]) = Request(loc[t])
  PROVE  Enough(t, m)'
BY DEF Enough, SizeOf, Request

LEMMA ListedSame ==
  ASSUME NEW t, NEW m, Listed(t, m), map'[m] = map[m], buf' = buf,
         list'[buf[m].virt] = list[buf[m].virt], Request(loc'[t]) = Request(loc[t])
  PROVE  Listed(t, m)'
BY EnoughSame DEF Listed

(* Where nothing is known of the lists.                                       *)
Elsewhere == Pcs \ ({"copy_ctl", "access"} \union Mapping \union InBios)

LEMMA ElsewhereFlash ==
  ASSUME NEW t, FlashInv(t), pc'[t] \in Elsewhere,
         \A m \in Maps : map'[m] = map[m] \/ map'[m] = NoItems
  PROVE  FlashInv(t)'
<1>1. FlashAt(t)'
  BY DEF FlashAt, Elsewhere, Mapping, Stored
<1> QED
  BY <1>1, ShapesKept DEF FlashInv

LEMMA LeaveFlash ==
  ASSUME NEW t \in Threads, TypeOK, FlashInv(t), NEW status, Leave(t, status),
         \A m \in Maps : map'[m] = map[m] \/ map'[m] = NoItems
  PROVE  FlashInv(t)'
<1>1. pc'[t] = "free_map" /\ pc'[t] \in Elsewhere
  BY GotoAt DEF Leave, Elsewhere, Pcs, Mapping, Stored, InBios
<1> QED
  BY <1>1, ElsewhereFlash

LEMMA OutsideFlash ==
  ASSUME NEW t \in Threads, TypeOK, FlashInv(t),
         \/ Start(t) \/ OpenStep(t) \/ CleanUpStep(t)
         \/ DrvBapiCall(t) \/ AgainMap(t) \/ AgainClear(t) \/ AgainRead(t)
         \/ ReadSignature(t) \/ SetMaxBlockSize(t)
  PROVE  FlashInv(t)'
<1>1. \A m \in Maps : map'[m] = map[m] \/ map'[m] = NoItems
  <2>1. CASE UNCHANGED map
    BY <2>1
  <2>2. CASE ClearInfo
    BY <2>2 DEF ClearInfo
  <2>3. CASE FreeMap(t)
    <3>1. MapOf(t) \in Maps
      BY <2>3, MapOfType DEF FreeMap, TypeOK, MapPcs
    <3> QED
      BY <2>3, <3>1, ReleaseResets DEF FreeMap
  <2> QED
    BY <2>1, <2>2, <2>3
       DEF Start, OpenStep, CleanUpStep, DrvOpen, DrvRelease, DrvDispatchIoctl, OpenMap, OpenClear,
           OpenRead, OpenTest, FreeBuffer, ClearBuffer, PutStatus, DrvBapiCall, AgainMap,
           AgainClear, AgainRead, ReadSignature, SetMaxBlockSize
<1>2. {"idle", "oops", "open_map", "open_clear", "open_read", "open_test", "args", "again_map",
       "again_clear", "again_read", "sig", "block", "ctl", "free_map", "free_buf", "null_buf",
       "put"} \subseteq Elsewhere
  BY DEF Elsewhere, Pcs, Mapping, Stored, InBios
<1>3. pc'[t] \in Elsewhere
  <2>1. CASE Start(t)
    BY <1>2, <2>1, GotoAt DEF Start, DrvOpen, DrvRelease, DrvDispatchIoctl
  <2>2. CASE OpenStep(t)
    BY <1>2, <2>2, GotoAt DEF OpenStep, OpenMap, OpenClear, OpenRead, OpenTest, Return, Oops
  <2>3. CASE CleanUpStep(t)
    BY <1>2, <2>3, GotoAt DEF CleanUpStep, FreeMap, FreeBuffer, ClearBuffer, PutStatus, Return
  <2>4. CASE DrvBapiCall(t) \/ AgainMap(t) \/ AgainClear(t) \/ AgainRead(t)
    BY <1>2, <2>4, GotoAt DEF DrvBapiCall, AgainMap, AgainClear, AgainRead, Return, Oops
  <2>5. CASE ReadSignature(t) \/ SetMaxBlockSize(t)
    BY <1>2, <2>5, GotoAt DEF ReadSignature, SetMaxBlockSize, Leave
  <2> QED
    BY <2>1, <2>2, <2>3, <2>4, <2>5
<1> QED
  BY <1>1, <1>3, ElsewhereFlash

(* The buffers: the lists are still empty.                                    *)
LEMMA BuffersFlash ==
  ASSUME NEW t, Threads = {t}, TypeOK, MemInv(t), FlashInv(t),
         BiosApiCtrlBufferAlloc(t) \/ CtrlBufferGet(t)
  PROVE  FlashInv(t)'
<1>1. pc[t] \in {"ctl", "ctl_get"} /\ UNCHANGED map
  BY DEF BiosApiCtrlBufferAlloc, CtrlBufferGet
<1>2. NoMaps'
  BY <1>1 DEF MemInv, PlaceInv, NoMaps
<1>3. pc'[t] \in {"ctl", "ctl_get", "copy_ctl", "free_map"}
  BY GotoAt DEF BiosApiCtrlBufferAlloc, CtrlBufferGet, NextBuffer, Leave
<1>4. CASE pc'[t] = "copy_ctl"
  <2>1. FlashAt(t)'
    BY <1>2, <1>4 DEF FlashAt, Mapping, Stored, InBios
  <2> QED
    BY <1>1, <2>1, ShapesKept DEF FlashInv
<1>5. CASE pc'[t] # "copy_ctl"
  <2>1. pc'[t] \in Elsewhere
    BY <1>3, <1>5 DEF Elsewhere, Pcs, Mapping, Stored, InBios
  <2> QED
    BY <1>1, <2>1, ElsewhereFlash
<1> QED
  BY <1>4, <1>5

LEMMA CopyFlash ==
  ASSUME NEW t, Threads = {t}, TypeOK, MemInv(t), FlashInv(t),
         CopyCtrlFromUser(t) \/ CopyDataFromUser(t)
  PROVE  FlashInv(t)'
<1>0. UNCHANGED map /\ loc[t] \in Locals /\ Shapes'
  BY LocalsOf, ShapesKept DEF CopyCtrlFromUser, CopyDataFromUser, FlashInv, TypeOK
<1>1. CASE Leave(t, "ERROR")
  BY <1>0, <1>1, LeaveFlash
<1>2. CASE CopyCtrlFromUser(t) /\ loc[t].map /\ Goto(t, "map") /\ Set(t, [loc[t] EXCEPT !.k = 1])
  <2>1. pc'[t] = "map" /\ loc'[t] = [loc[t] EXCEPT !.k = 1]
    BY <1>2, GotoAt, SetAt
  <2>2. loc'[t].k = 1
    BY <1>0, <2>1 DEF Locals
  <2>3. map'["in"].items = <<>> /\ map'["out"].items = <<>>
    BY <1>0, <1>2 DEF CopyCtrlFromUser, FlashInv, FlashAt, NoMaps, Maps
  <2>4. MapOf(t)' = "in"
    BY <2>2 DEF MapOf, MapOrder
  <2>5. FlashAt(t)'
    BY <2>1, <2>2, <2>3, <2>4 DEF FlashAt, Mapping, Stored, InBios
  <2> QED
    BY <1>0, <2>5 DEF FlashInv
<1>3. CASE Goto(t, "copy_in")
  <2>1. pc'[t] \in Elsewhere
    BY <1>3, GotoAt DEF Elsewhere, Pcs, Mapping, Stored, InBios
  <2> QED
    BY <1>0, <2>1, ElsewhereFlash
<1>4. CASE CopyDataFromUser(t) /\ Goto(t, "access") /\ Set(t, [loc[t] EXCEPT !.inOk = TRUE])
  <2>1. pc'[t] = "access" /\ loc'[t] = [loc[t] EXCEPT !.inOk = TRUE] /\ ~loc[t].map
    BY <1>4, GotoAt, SetAt DEF CopyDataFromUser, MemInv, PlaceInv
  <2>2. ~loc'[t].map
    BY <1>0, <2>1 DEF Locals
  <2>3. FlashAt(t)'
    BY <2>1, <2>2 DEF FlashAt, Mapping, Stored
  <2> QED
    BY <1>0, <2>3 DEF FlashInv
<1> QED
  BY <1>1, <1>2, <1>3, <1>4 DEF CopyCtrlFromUser, CopyDataFromUser

(* Where the flash maps go: into two buffers.                                 *)
LEMMA MapBuffers ==
  ASSUME NEW t, Threads = {t}, TypeOK, MemInv(t), pc[t] \in Ready, loc[t].map
  PROVE  /\ \A m \in Maps : /\ m \in Bufs /\ buf[m].virt \in Blocks
                            /\ buf[m].phys = buf[m].virt /\ heap[buf[m].virt] > 0
         /\ buf["in"].virt # buf["out"].virt
<1>1. Owned({})
  BY DEF MemInv, Accounted, Ready, Mapping, Stored, InBios
<1>2. ASSUME NEW m \in Maps
      PROVE  m \in Bufs /\ buf[m].virt # NoBlock /\ buf[m].phys = buf[m].virt
  <2>1. m \in Bufs /\ m # "ctrl" /\ Fit(t, m)
    BY DEF Maps, Bufs, MemInv, PlaceInv
  <2>2. Need(t, m) > 0
    BY <2>1, SizesAssumption DEF Need
  <2> QED
    BY <2>1, <2>2 DEF Fit
<1>3. ASSUME NEW m \in Maps
      PROVE  buf[m].virt \in Blocks /\ heap[buf[m].virt] > 0
  BY <1>1, <1>2 DEF Owned, Buffers, TypeOK, InfoType, AddressInfo, Pointer
<1>4. buf["in"].virt # buf["out"].virt
  BY <1>1, <1>2 DEF Owned, Apart, Maps, Bufs
<1> QED
  BY <1>2, <1>3, <1>4

(* What each step of the building of one map keeps of the other.              *)
LEMMA BuildFlash ==
  ASSUME NEW t, FlashInv(t), pc[t] \in Mapping, pc'[t] \in Stored,
         Request(loc'[t]) = Request(loc[t]), loc'[t].k = loc[t].k, buf' = buf, Shapes',
         loc[t].k = 1 => map'["out"] = map["out"],
         loc[t].k = 2 => map'["in"] = map["in"] /\ list'[buf["in"].virt] = list[buf["in"].virt],
         pc'[t] = "map_loop" /\ map'[MapOf(t)'].items # <<>> /\ loc'[t].left > 0 =>
           map'[MapOf(t)'].items[1].span = HeaderLen,
         pc'[t] = "map_fill" => Enough(t, MapOf(t))'
  PROVE  FlashInv(t)'
<1>1. pc'[t] \in Mapping /\ pc'[t] \notin InBios /\ pc'[t] \notin {"copy_ctl", "map", "map_copy", "access"}
  BY DEF Mapping, Stored, InBios
<1>2. loc'[t].k = 1 => map'["out"].items = <<>>
  BY DEF FlashInv, FlashAt
<1>3. loc'[t].k = 2 => Listed(t, "in")'
  BY ListedSame DEF FlashInv, FlashAt
<1>4. FlashAt(t)'
  BY <1>1, <1>2, <1>3 DEF FlashAt
<1> QED
  BY <1>4 DEF FlashInv

LEMMA MapIs ==
  ASSUME NEW t, loc[t].k \in {1, 2}
  PROVE  /\ loc[t].k = 1 => MapOf(t) = "in"
         /\ loc[t].k = 2 => MapOf(t) = "out"
BY DEF MapOf, MapOrder

LEMMA AllocBlocksFlash ==
  ASSUME NEW t, Threads = {t}, TypeOK, MemInv(t), FlashInv(t), BiosApiAllocBlocks(t)
  PROVE  FlashInv(t)'
<1> DEFINE m == MapOf(t)
           p == buf[m].virt
<1>0. pc[t] = "map" /\ buf' = buf /\ pc[t] \in Mapping
  BY DEF BiosApiAllocBlocks, Mapping
<1>1. /\ Owned({}) /\ pc[t] \in Ready /\ loc[t] \in Locals /\ loc[t].map /\ loc[t].k \in {1, 2}
      /\ m \in Maps /\ p # NoBlock
  BY <1>0, MappingAt
<1>2. loc'[t] = [loc[t] EXCEPT !.ptr = p]
  BY <1>0, <1>1, SetAt DEF BiosApiAllocBlocks
<1>3. Request(loc'[t]) = Request(loc[t]) /\ loc'[t].k = loc[t].k
  <2>1. loc[t] \in Locals
    BY <1>1
  <2>2. loc'[t] = [loc[t] EXCEPT !.ptr = p]
    BY <1>2
  <2> QED
    BY <2>1, <2>2 DEF Locals, Request
<1>4. MapOf(t)' = m
  BY <1>3 DEF MapOf
<1>5. map[m].items = <<>> /\ map[m].total = 0
  BY <1>0, <1>1, SpansEmpty DEF FlashInv, FlashAt, Shapes, Shape
<1>6. CASE PhysBlkReleaseAllBlocks(m) /\ Goto(t, "map_init")
  <2>1. pc'[t] = "map_init" /\ pc'[t] \in Stored
    BY <1>6, GotoAt DEF Stored
  <2>2. map'[m] = NoItems /\ \A k \in Maps \ {m} : map'[k] = map[k]
    BY <1>1, <1>6, ReleaseResets
  <2>3. Shapes'
    BY <2>2, ShapesKept DEF FlashInv
  <2>4. \A b \in Blocks : list'[b] = list[b]
    BY <1>5, <1>6 DEF PhysBlkReleaseAllBlocks, FreeAll, HeldBy
  <2>5. /\ loc[t].k = 1 => map'["out"] = map["out"]
        /\ loc[t].k = 2 => map'["in"] = map["in"]
    BY <2>2, MapIs DEF Maps
  <2>6. list'[buf["in"].virt] = list[buf["in"].virt]
    BY <1>1, <2>4, MapBuffers DEF Maps
  <2> QED
    BY <1>0, <1>3, <2>1, <2>3, <2>5, <2>6, BuildFlash
<1>7. CASE DataSize(t) <= map[m].total /\ Goto(t, "map_fill") /\ UNCHANGED <<map, heap, list>>
  <2>1. pc'[t] = "map_fill" /\ pc'[t] \in Stored
    BY <1>7, GotoAt DEF Stored
  <2>2. Enough(t, m)
    BY <1>5, <1>7, DataSizeType DEF Enough, DataSize, TypeOK
  <2>3. Enough(t, MapOf(t))'
    BY <1>3, <1>4, <1>7, <2>2 DEF Enough, SizeOf, Request
  <2>4. Shapes'
    BY <1>7, ShapesKept DEF FlashInv
  <2> QED
    BY <1>0, <1>3, <1>4, <1>7, <2>1, <2>3, <2>4, BuildFlash
<1> QED
  BY <1>1, <1>6, <1>7 DEF BiosApiAllocBlocks

LEMMA BlkInitFlash ==
  ASSUME NEW t, Threads = {t}, TypeOK, MemInv(t), FlashInv(t), PhysBlkInit(t)
  PROVE  FlashInv(t)'
<1> DEFINE m == MapOf(t)
           n == DataSize(t)
<1>0. /\ pc[t] = "map_init" /\ UNCHANGED <<buf, list>> /\ pc[t] \in Mapping
      /\ map' = [map EXCEPT ![m] = NoItems] /\ Goto(t, "map_loop")
  BY DEF PhysBlkInit, mem, Mapping, Stored
<1>1. loc[t] \in Locals /\ loc[t].k \in {1, 2} /\ m \in Maps
  BY <1>0, MappingAt
<1>2. loc'[t] = [loc[t] EXCEPT !.left = n, !.std = maxBlock]
  BY SetAt DEF PhysBlkInit
<1> HIDE DEF n
<1>3. Request(loc'[t]) = Request(loc[t]) /\ loc'[t].k = loc[t].k
  <2>1. loc[t] \in Locals
    BY <1>1
  <2>2. loc'[t] = [loc[t] EXCEPT !.left = n, !.std = maxBlock]
    BY <1>2
  <2> QED
    BY <2>1, <2>2 DEF Locals, Request
<1>4. MapOf(t)' = m
  BY <1>3 DEF MapOf
<1>5. map'[m] = NoItems /\ \A k \in Maps \ {m} : map'[k] = map[k]
  BY <1>0, <1>1 DEF TypeOK, InfoType
<1>6. Shapes'
  BY <1>5, ShapesKept DEF FlashInv
<1>7. /\ loc[t].k = 1 => map'["out"] = map["out"]
      /\ loc[t].k = 2 => map'["in"] = map["in"]
  BY <1>5, MapIs DEF Maps
<1>8. pc'[t] = "map_loop" /\ pc'[t] \in Stored /\ map'[m].items = <<>>
  BY <1>0, <1>5, GotoAt DEF Stored, NoItems
<1> QED
  BY <1>0, <1>3, <1>4, <1>6, <1>7, <1>8, BuildFlash

(* A new block gets its place in a list that may go on only behind a block    *)
(* for the header.                                                            *)
LEMMA HeaderFirst ==
  ASSUME NEW left \in Nat, NEW std \in Nat, left > 0, BlockSize(<<>>, left, std) < left
  PROVE  BlockSize(<<>>, left, std) = HeaderLen
BY SizesAssumption DEF BlockSize, Min2

LEMMA GrowFlash ==
  ASSUME NEW t, Threads = {t}, TypeOK, MemInv(t), FlashInv(t), pc[t] = "map_loop",
         NEW m, m = MapOf(t), loc[t].left > 0, Len(map[m].items) < MaxItems,
         NEW n, n = BlockSize(map[m].items, loc[t].left, loc[t].std),
         NEW new \in Allocatable(n), Allocate(new, n), UNCHANGED <<pc, buf>>,
         map' = [map EXCEPT ![m] =
                   [items |-> Append(@.items, [virt |-> new, phys |-> new, span |-> n]),
                    total |-> @.total + n]],
         Set(t, [loc[t] EXCEPT !.left = @ - n])
  PROVE  FlashInv(t)'
<1> DEFINE old == map[m].items
           a == [virt |-> new, phys |-> new, span |-> n]
<1>1. /\ pc[t] \in Mapping /\ pc[t] \in Stored /\ pc[t] \in Ready
      /\ loc[t] \in Locals /\ loc[t].map /\ loc[t].k \in {1, 2} /\ m \in Maps
  <2>1. pc[t] \in Mapping /\ pc[t] \in Stored
    BY DEF Mapping, Stored
  <2> QED
    BY <2>1, MappingAt
<1>2. loc[t].left \in Nat /\ loc[t].std \in Nat /\ n \in Nat /\ n <= loc[t].left
  <2>1. loc[t].left \in Nat /\ loc[t].std \in Nat
    BY <1>1 DEF Locals
  <2> QED
    BY <2>1, BlockSizeType
<1>3. new \in Blocks /\ heap[new] = 0
  BY DEF Allocatable
<1>4. old \in Seq(AddressInfo) /\ Len(old) \in Nat
  BY <1>1 DEF TypeOK, InfoType, PhysMapList, ItemList
<1>5. a \in AddressInfo /\ a.phys = a.virt /\ a.span = n
  BY <1>2, <1>3 DEF AddressInfo, Pointer
<1>6. /\ map'[m].items = Append(old, a) /\ map'[m].total = map[m].total + n
      /\ \A k \in Maps \ {m} : map'[k] = map[k]
  BY <1>1 DEF TypeOK, InfoType
<1>7. /\ Request(loc'[t]) = Request(loc[t]) /\ loc'[t].k = loc[t].k
      /\ loc'[t].left = loc[t].left - n
  <2>1. loc[t] \in Locals
    BY <1>1
  <2>2. loc'[t] = [loc[t] EXCEPT !.left = loc[t].left - n]
    BY SetAt
  <2> QED
    BY <2>1, <2>2 DEF Locals, Request
<1>8. MapOf(t)' = m
  BY <1>7 DEF MapOf
<1>9. old = <<>> \/ old[1].span = HeaderLen
  BY <1>1 DEF FlashInv, FlashAt
<1> HIDE DEF a
<1>10. /\ Len(Append(old, a)) = Len(old) + 1
       /\ old # <<>> => Len(old) > 0 /\ Append(old, a)[1] = old[1]
       /\ old = <<>> => Append(old, a)[1] = a
       /\ DOMAIN Append(old, a) = DOMAIN old \union {Len(old) + 1}
       /\ Append(old, a)[Len(old) + 1] = a
       /\ \A i \in DOMAIN old : Append(old, a)[i] = old[i]
  BY <1>4, <1>5
<1>11. Shape(m)'
  <2>1. Shape(m)
    BY <1>1 DEF FlashInv, Shapes
  <2>2. \A i \in DOMAIN map'[m].items : map'[m].items[i].phys = map'[m].items[i].virt
    BY <1>5, <1>6, <1>10, <2>1 DEF Shape
  <2>3. map'[m].total = Spans(map'[m].items)
    BY <1>4, <1>5, <1>6, <2>1, SpansAppend DEF Shape
  <2>4. Len(map'[m].items) <= MaxItems
    <3> DEFINE len == Len(old)
    <3>1. len \in Nat /\ len < MaxItems /\ MaxItems \in Nat
      BY <1>4, SizesAssumption
    <3>2. Len(map'[m].items) = len + 1
      BY <1>6, <1>10
    <3> HIDE DEF len
    <3> QED
      BY <3>1, <3>2
  <2>5. Len(map'[m].items) > 1 => map'[m].items[1].span = HeaderLen
    <3> SUFFICES ASSUME Len(map'[m].items) > 1 PROVE map'[m].items[1].span = HeaderLen
      OBVIOUS
    <3>1. old # <<>>
      BY <1>6, <1>10
    <3> QED
      BY <1>6, <1>9, <1>10, <3>1
  <2> QED
    BY <2>2, <2>3, <2>4, <2>5 DEF Shape
<1>12. Shapes'
  <2> SUFFICES ASSUME NEW k \in Maps \ {m} PROVE Shape(k)'
    BY <1>11 DEF Shapes
  <2> QED
    BY <1>6 DEF FlashInv, Shapes, Shape
<1>13. /\ loc[t].k = 1 => map'["out"] = map["out"]
       /\ loc[t].k = 2 => map'["in"] = map["in"]
  BY <1>6, MapIs DEF Maps
<1>14. list'[buf["in"].virt] = list[buf["in"].virt]
  <2>1. buf["in"].virt \in Blocks /\ buf["in"].virt # new
    BY <1>1, <1>3, MapBuffers DEF Maps
  <2> QED
    BY <2>1 DEF Allocate, TypeOK, MemType
<1>15. loc'[t].left > 0 => map'[m].items[1].span = HeaderLen
  <2> SUFFICES ASSUME loc'[t].left > 0 PROVE Append(old, a)[1].span = HeaderLen
    BY <1>6
  <2>1. CASE old # <<>>
    BY <1>9, <1>10, <2>1
  <2>2. CASE old = <<>>
    <3>1. n < loc[t].left
      BY <1>2, <1>7
    <3>2. n = HeaderLen
      BY <1>2, <2>2, <3>1, HeaderFirst
    <3> QED
      BY <1>5, <1>10, <2>2, <3>2
  <2> QED
    BY <2>1, <2>2
<1>16. pc'[t] = "map_loop" /\ pc'[t] \in Stored
  BY <1>1
<1> QED
  BY <1>1, <1>7, <1>8, <1>12, <1>13, <1>14, <1>15, <1>16, BuildFlash

LEMMA BlkLoopFlash ==
  ASSUME NEW t, Threads = {t}, TypeOK, MemInv(t), FlashInv(t), PhysBlkAllocBlocks(t)
  PROVE  FlashInv(t)'
<1> DEFINE m == MapOf(t)
           n == BlockSize(map[m].items, loc[t].left, loc[t].std)
<1>0. pc[t] = "map_loop" /\ buf' = buf /\ pc[t] \in Mapping /\ pc[t] \in Stored
  BY DEF PhysBlkAllocBlocks, Mapping, Stored
<1>1. loc[t] \in Locals /\ loc[t].k \in {1, 2} /\ m \in Maps
  BY <1>0, MappingAt
<1>2. CASE /\ loc[t].left = 0 \/ Len(map[m].items) >= MaxItems
           /\ Goto(t, "map_fill")
           /\ UNCHANGED <<map, mem, loc>>
  <2>1. pc'[t] = "map_fill" /\ pc'[t] \in Stored
    BY <1>2, GotoAt DEF Stored
  <2>2. Enough(t, m)
    <3>1. CASE loc[t].left = 0
      <4>1. map[m].total \in Nat /\ loc[t].left + map[m].total = DataSize(t)
        BY <1>0, <1>1 DEF MemInv, PlaceInv, TypeOK, InfoType, PhysMapList
      <4> QED
        BY <3>1, <4>1 DEF Enough, DataSize
    <3>2. CASE Len(map[m].items) >= MaxItems
      <4> DEFINE len == Len(map[m].items)
      <4>1. len \in Nat /\ len <= MaxItems /\ len >= MaxItems /\ MaxItems \in Nat
        BY <1>1, <3>2, SizesAssumption DEF FlashInv, Shapes, Shape, TypeOK, InfoType, PhysMapList, ItemList
      <4> HIDE DEF len
      <4>2. len = MaxItems
        BY <4>1
      <4> QED
        BY <4>2 DEF Enough, len
    <3> QED
      BY <1>2, <3>1, <3>2
  <2>3. Enough(t, MapOf(t))'
    BY <1>2, <2>2 DEF Enough, SizeOf, MapOf
  <2>4. Shapes'
    BY <1>2, ShapesKept DEF FlashInv
  <2> QED
    BY <1>0, <1>2, <2>1, <2>3, <2>4, BuildFlash DEF mem
<1>3. ASSUME loc[t].left > 0, Len(map[m].items) < MaxItems,
             NEW new \in Allocatable(n), Allocate(new, n), UNCHANGED <<pc, fault>>,
             map' = [map EXCEPT ![m] =
                       [items |-> Append(@.items, [virt |-> new, phys |-> new, span |-> n]),
                        total |-> @.total + n]],
             Set(t, [loc[t] EXCEPT !.left = @ - n])
      PROVE  FlashInv(t)'
  BY <1>0, <1>3, GrowFlash
<1>4. CASE Set(t, [loc[t] EXCEPT !.std = Smaller(@)]) /\ UNCHANGED <<map, mem, pc>>
  <2>1. loc'[t] = [loc[t] EXCEPT !.std = Smaller(loc[t].std)]
    BY <1>4, SetAt
  <2>2. /\ Request(loc'[t]) = Request(loc[t]) /\ loc'[t].k = loc[t].k
        /\ loc'[t].left = loc[t].left
    <3>1. loc[t] \in Locals
      BY <1>1
    <3>2. loc'[t] = [loc[t] EXCEPT !.std = Smaller(loc[t].std)]
      BY <2>1
    <3> QED
      BY <3>1, <3>2 DEF Locals, Request
  <2>3. MapOf(t)' = m
    BY <2>2 DEF MapOf
  <2>4. map[m].items # <<>> /\ loc[t].left > 0 => map[m].items[1].span = HeaderLen
    BY <1>0 DEF FlashInv, FlashAt
  <2>5. Shapes'
    BY <1>4, ShapesKept DEF FlashInv
  <2>6. pc'[t] = "map_loop" /\ pc'[t] \in Stored /\ map' = map /\ list' = list
    BY <1>0, <1>4 DEF mem
  <2> QED
    BY <1>0, <2>2, <2>3, <2>4, <2>5, <2>6, BuildFlash
<1>5. CASE PhysBlkReleaseAllBlocks(m) /\ Goto(t, "map_fail") /\ UNCHANGED loc
  <2>1. pc'[t] = "map_fail"
    BY <1>5, GotoAt
  <2>2. map'[m] = NoItems /\ \A k \in Maps \ {m} : map'[k] = map[k]
    BY <1>1, <1>5, ReleaseResets
  <2>3. Shapes'
    BY <2>2, ShapesKept DEF FlashInv
  <2>4. list'[buf["in"].virt] = list[buf["in"].virt]
    <3>1. loc[t].map /\ pc[t] \in Ready /\ Owned({})
      BY <1>0, MappingAt
    <3>2. "in" \in Bufs /\ buf["in"].virt \in Blocks
      BY <3>1, MapBuffers DEF Maps
    <3>3. \A i \in DOMAIN map[m].items : map[m].items[i].virt # buf["in"].virt
      BY <1>1, <3>1, <3>2 DEF Owned, Apart
    <3>4. buf["in"].virt \notin HeldBy(m)
      BY <3>3 DEF HeldBy, Held
    <3> QED
      BY <1>5, <3>2, <3>4 DEF PhysBlkReleaseAllBlocks, FreeAll
  <2>5. /\ loc[t].k = 1 => map'["out"] = map["out"]
        /\ loc[t].k = 2 => map'["in"] = map["in"]
    BY <2>2, MapIs DEF Maps
  <2>6. pc'[t] \in Stored
    BY <2>1 DEF Stored
  <2> QED
    BY <1>0, <1>5, <2>1, <2>3, <2>4, <2>5, <2>6, BuildFlash
<1> QED
  BY <1>2, <1>3, <1>4, <1>5 DEF PhysBlkAllocBlocks

(* The list of the blocks becomes the flash map, in a buffer of its own.      *)
LEMMA FillFlash ==
  ASSUME NEW t, Threads = {t}, TypeOK, MemInv(t), FlashInv(t), FillFlashMap(t)
  PROVE  FlashInv(t)'
<1>0. /\ pc[t] = "map_fill" /\ UNCHANGED <<buf, map, loc>> /\ pc[t] \in Mapping /\ pc[t] \in Stored
  BY DEF FillFlashMap, Mapping, Stored
<1>1. pc[t] \in Ready /\ loc[t].map /\ loc[t].k \in {1, 2} /\ MapOf(t) \in Maps
  BY <1>0, MappingAt
<1> PICK m \in Maps : m = MapOf(t)
  BY <1>1
<1>2. loc[t].ptr = buf[m].virt
  BY <1>0 DEF MemInv, PlaceInv
<1>3. /\ buf[m].virt \in Blocks /\ buf["in"].virt # buf["out"].virt
      /\ buf["in"].virt \in Blocks /\ buf["out"].virt \in Blocks
  BY <1>1, MapBuffers DEF Maps
<1>4. /\ list'[buf[m].virt] = [i \in DOMAIN map[m].items |-> Cluster(map[m].items[i])]
      /\ \A b \in Blocks \ {buf[m].virt} : list'[b] = list[b]
  BY <1>2, <1>3 DEF FillFlashMap, TypeOK, MemType
<1>5. Enough(t, m)
  BY <1>0 DEF FlashInv, FlashAt
<1>6. Listed(t, m)'
  BY <1>0, <1>4, <1>5, EnoughSame DEF Listed
<1>7. Shapes'
  BY <1>0, ShapesKept DEF FlashInv
<1>8. CASE loc[t].k = 1
  <2>1. m = "in" /\ pc'[t] = "map_copy"
    BY <1>8, GotoAt, MapIs DEF FillFlashMap
  <2>2. map'["out"].items = <<>>
    BY <1>0, <1>8 DEF FlashInv, FlashAt
  <2>3. FlashAt(t)'
    BY <1>0, <1>6, <1>8, <2>1, <2>2 DEF FlashAt, Stored, InBios
  <2> QED
    BY <1>7, <2>3 DEF FlashInv
<1>9. CASE loc[t].k = 2
  <2>1. m = "out" /\ pc'[t] = "access"
    BY <1>9, GotoAt, MapIs DEF FillFlashMap
  <2>2. Listed(t, "in")
    BY <1>0, <1>9 DEF FlashInv, FlashAt
  <2>3. Listed(t, "in")'
    BY <1>0, <1>3, <1>4, <2>1, <2>2, ListedSame
  <2>4. \A k \in Maps : Listed(t, k)'
    BY <1>6, <2>1, <2>3 DEF Maps
  <2>5. FlashAt(t)'
    BY <2>1, <2>4 DEF FlashAt, Mapping, Stored, InBios
  <2> QED
    BY <1>7, <2>5 DEF FlashInv
<1> QED
  BY <1>1, <1>8, <1>9

LEMMA CopyMapFlash ==
  ASSUME NEW t, Threads = {t}, TypeOK, MemInv(t), FlashInv(t), BiosApiCopyDataToMap(t)
  PROVE  FlashInv(t)'
<1>0. /\ pc[t] = "map_copy" /\ UNCHANGED <<buf, map, list>> /\ pc[t] \in Mapping /\ pc'[t] = "map"
  BY GotoAt DEF BiosApiCopyDataToMap, Mapping
<1>1. loc[t] \in Locals
  BY <1>0, MappingAt
<1>2. PICK ok \in BOOLEAN : Set(t, [loc[t] EXCEPT !.inOk = ok, !.k = 2])
  BY DEF BiosApiCopyDataToMap
<1>3. loc'[t] = [loc[t] EXCEPT !.inOk = ok, !.k = 2]
  BY <1>2, SetAt
<1>4. Request(loc'[t]) = Request(loc[t]) /\ loc'[t].k = 2
  BY <1>1, <1>3 DEF Locals, Request
<1>5. Listed(t, "in") /\ map["out"].items = <<>>
  BY <1>0 DEF FlashInv, FlashAt
<1>6. Listed(t, "in")'
  BY <1>0, <1>4, <1>5, ListedSame
<1>7. map'[MapOf(t)'].items = <<>>
  BY <1>0, <1>4, <1>5 DEF MapOf, MapOrder
<1>8. FlashAt(t)'
  BY <1>0, <1>4, <1>6, <1>7 DEF FlashAt, Stored, InBios
<1>9. Shapes'
  BY <1>0, ShapesKept DEF FlashInv
<1> QED
  BY <1>8, <1>9 DEF FlashInv

LEMMA MapFlash ==
  ASSUME NEW t, Threads = {t}, TypeOK, MemInv(t), FlashInv(t), MapStep(t)
  PROVE  FlashInv(t)'
<1>1. CASE AllocBlocksFailed(t)
  BY <1>1, LeaveFlash DEF AllocBlocksFailed
<1> QED
  BY <1>1, AllocBlocksFlash, BlkInitFlash, BlkLoopFlash, FillFlash, CopyMapFlash DEF MapStep

(* From the access check to the BIOS nothing of the maps changes.             *)
LEMMA CallFlash ==
  ASSUME NEW t, Threads = {t}, TypeOK, MemInv(t), FlashInv(t), CallStep(t)
  PROVE  FlashInv(t)'
<1>0. UNCHANGED <<buf, map, list>> /\ loc[t] \in Locals
  BY LocalsOf
     DEF CallStep, BiosApiCheckAccess, BiosApiCall, RaiseTaskPriority, CallBios, BiosReturns,
         CopyToUser, TypeOK, mem
<1>1. Shapes'
  BY <1>0, ShapesKept DEF FlashInv
<1>2. ASSUME NEW status, Leave(t, status) PROVE FlashInv(t)'
  BY <1>0, <1>2, LeaveFlash
<1>3. ASSUME pc[t] \in {"access"} \union InBios, pc'[t] \in InBios,
             Request(loc'[t]) = Request(loc[t])
      PROVE  FlashInv(t)'
  <2>1. loc'[t].map = loc[t].map
    BY <1>3 DEF Request
  <2>2. loc[t].map => \A m \in Maps : Listed(t, m)
    BY <1>3 DEF FlashInv, FlashAt
  <2>3. loc[t].map => \A m \in Maps : Listed(t, m)'
    BY <1>0, <1>3, <2>2, ListedSame
  <2>4. FlashAt(t)'
    BY <1>3, <2>1, <2>3 DEF FlashAt, Mapping, Stored, InBios
  <2> QED
    BY <1>1, <2>4 DEF FlashInv
<1>4. CASE BiosApiCheckAccess(t) /\ ~Leave(t, "ACCESS_DENIED")
  <2> DEFINE regs == [c \in Bufs |-> buf[c].phys]
  <2>1. pc[t] = "access" /\ pc'[t] = "bios_map" /\ loc'[t] = [loc[t] EXCEPT !.reg = regs]
    BY <1>4, GotoAt, SetAt DEF BiosApiCheckAccess
  <2> HIDE DEF regs
  <2>2. Request(loc'[t]) = Request(loc[t])
    BY <1>0, <2>1 DEF Locals, Request
  <2> QED
    BY <1>3, <2>1, <2>2 DEF InBios
<1>5. CASE BiosApiCall(t) /\ ~Leave(t, "ERROR")
  <2>1. pc[t] = "bios_map" /\ pc'[t] \in {"tpr", "exec"} /\ loc' = loc
    BY <1>5, GotoAt DEF BiosApiCall
  <2> QED
    BY <1>3, <2>1 DEF InBios
<1>6. CASE RaiseTaskPriority(t) /\ ~Leave(t, "ERROR")
  <2>1. pc[t] = "tpr" /\ pc'[t] = "exec"
    BY <1>6, GotoAt DEF RaiseTaskPriority
  <2>2. Request(loc'[t]) = Request(loc[t])
    <3>1. CASE loc' = loc
      BY <3>1
    <3>2. ASSUME NEW c, Set(t, [loc[t] EXCEPT !.apic = TRUE, !.save = tpr[c]])
          PROVE  Request(loc'[t]) = Request(loc[t])
      <4>1. loc'[t] = [loc[t] EXCEPT !.apic = TRUE, !.save = tpr[c]]
        BY <3>2, SetAt
      <4> QED
        BY <1>0, <4>1 DEF Locals, Request
    <3> QED
      BY <1>6, <3>1, <3>2 DEF RaiseTaskPriority
  <2> QED
    BY <1>3, <2>1, <2>2 DEF InBios
<1>7. CASE CallBios(t)
  <2>1. pc[t] = "exec" /\ pc'[t] = "bios" /\ loc' = loc
    BY <1>7, GotoAt DEF CallBios
  <2> QED
    BY <1>3, <2>1 DEF InBios
<1>8. CASE BiosReturns(t)
  <2>1. pc'[t] \in Elsewhere
    BY <1>8, GotoAt DEF BiosReturns, Elsewhere, Pcs, Mapping, Stored, InBios
  <2> QED
    BY <1>0, <2>1, ElsewhereFlash
<1>9. CASE CopyToUser(t)
  BY <1>2, <1>9 DEF CopyToUser
<1> QED
  BY <1>2, <1>4, <1>5, <1>6, <1>7, <1>8, <1>9 DEF CallStep

(* While the BIOS runs, each flash map names the blocks of its list with      *)
(* their sizes, none twice, the header's first; and they hold the data unless *)
(* the list is full.                                                          *)
THEOREM FlashMapsCorrect == ASSUME NEW t, Threads = {t} PROVE Spec => []FlashMapTrue
<1>1. Init => FlashInv(t)
  <2> SUFFICES ASSUME Init PROVE FlashInv(t)
    OBVIOUS
  <2>1. \A m \in Maps : map[m] = NoItems
    BY DEF Init
  <2>2. Shapes
    <3> SUFFICES ASSUME NEW m \in Maps PROVE Shape(m)
      BY DEF Shapes
    <3>1. map[m].items = <<>> /\ map[m].total = 0
      BY <2>1 DEF NoItems
    <3>2. MaxItems \in Nat /\ Len(<<>>) = 0 /\ DOMAIN <<>> = {}
      BY SizesAssumption
    <3> QED
      BY <3>1, <3>2, SpansEmpty DEF Shape
  <2>3. FlashAt(t)
    BY DEF Init, FlashAt, Mapping, Stored, InBios
  <2> QED
    BY <2>2, <2>3 DEF FlashInv
<1>2. TypeOK /\ MemInv(t) /\ FlashInv(t) /\ [Next]_vars => FlashInv(t)'
  <2> SUFFICES ASSUME TypeOK, MemInv(t), FlashInv(t), [Next]_vars PROVE FlashInv(t)'
    OBVIOUS
  <2>1. CASE UNCHANGED vars
    <3>1. UNCHANGED <<buf, map, list, pc, loc>>
      BY <2>1 DEF vars, mem
    <3>2. Shapes'
      BY <3>1, ShapesKept DEF FlashInv
    <3>3. FlashAt(t)'
      BY <3>1 DEF FlashInv, FlashAt, NoMaps, Listed, Enough, SizeOf, MapOf
    <3> QED
      BY <3>2, <3>3 DEF FlashInv
  <2>2. CASE Start(t) \/ Step(t)
    BY <2>2, OutsideFlash, BuffersFlash, CopyFlash, MapFlash, CallFlash DEF Step, SetUpStep
  <2> QED
    BY <2>1, <2>2 DEF Next
<1>3. TypeOK /\ MemInv(t) /\ FlashInv(t) => FlashMapTrue
  <2> DEFINE l(u, m) == list[loc[u].reg[m]]
             Names(u, m) ==
               /\ \A i \in DOMAIN l(u, m) : heap[l(u, m)[i].addr] = l(u, m)[i].len
               /\ \A i, j \in DOMAIN l(u, m) : i # j => l(u, m)[i].addr # l(u, m)[j].addr
               /\ Lengths(l(u, m)) = SizeOf(u, m) \/ Len(l(u, m)) = MaxItems
               /\ Len(l(u, m)) > 1 => l(u, m)[1].len = HeaderLen
  <2>0. FlashMapTrue <=> \A u \in Threads : pc[u] = "bios" /\ loc[u].map => \A m \in Maps : Names(u, m)
    BY DEF FlashMapTrue
  <2> SUFFICES ASSUME TypeOK, MemInv(t), FlashInv(t), pc[t] = "bios", loc[t].map, NEW m \in Maps
               PROVE  Names(t, m)
    <3> HIDE DEF Names
    <3> QED
      BY <2>0
  <2> HIDE DEF Names
  <2> DEFINE items == map[m].items
             lst == l(t, m)
  <2>1. pc[t] \in Ready /\ pc[t] \in InBios /\ Owned({})
    BY DEF Ready, InBios, MemInv, Accounted
  <2>2. loc[t].reg[m] = buf[m].virt
    BY <2>1, MapBuffers DEF MemInv, PlaceInv
  <2>3. Listed(t, m) /\ Shape(m)
    BY <2>1 DEF FlashInv, FlashAt, Shapes
  <2>4. lst = [i \in DOMAIN items |-> Cluster(items[i])]
    BY <2>2, <2>3 DEF Listed
  <2>5. /\ DOMAIN lst = DOMAIN items
        /\ \A i \in DOMAIN lst : lst[i].addr = items[i].virt /\ lst[i].len = items[i].span
    BY <2>3, <2>4 DEF Cluster, Shape
  <2>6. items \in Seq(AddressInfo)
    BY DEF TypeOK, InfoType, PhysMapList, ItemList
  <2>7. Len(lst) = Len(items)
    BY <2>4, <2>6
  <2>8. \A i \in DOMAIN items : heap[items[i].virt] = items[i].span
    BY <2>1 DEF Owned, Entries
  <2>9. \A i, j \in DOMAIN items : i # j => items[i].virt # items[j].virt
    BY <2>1 DEF Owned, Apart
  <2>10. Lengths(lst) = map[m].total
    <3>1. [i \in DOMAIN lst |-> lst[i].len] = [i \in DOMAIN items |-> items[i].span]
      BY <2>5
    <3> QED
      BY <2>3, <3>1 DEF Lengths, Shape, Spans
  <2>11. Len(items) > 1 => 1 \in DOMAIN items /\ items[1].span = HeaderLen
    BY <2>3, <2>6 DEF Shape
  <2> HIDE DEF items, lst
  <2>12. \A i \in DOMAIN lst : heap[lst[i].addr] = lst[i].len
    BY <2>5, <2>8
  <2>13. \A i, j \in DOMAIN lst : i # j => lst[i].addr # lst[j].addr
    BY <2>5, <2>9
  <2>14. Lengths(lst) = SizeOf(t, m) \/ Len(lst) = MaxItems
    BY <2>3, <2>7, <2>10 DEF Listed, Enough, items
  <2>15. Len(lst) > 1 => lst[1].len = HeaderLen
    BY <2>5, <2>7, <2>11
  <2> QED
    BY <2>12, <2>13, <2>14, <2>15 DEF lst, Names
<1> QED
  BY <1>1, <1>2, <1>3, MemInvariance, PTL DEF Spec
=============================================================================
