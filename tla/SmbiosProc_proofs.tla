-------------------------- MODULE SmbiosProc_proofs --------------------------
(***************************************************************************)
(* Proofs about the smbios module, for any firmware, any number of readers *)
(* and any sizes: load and unload leave nothing behind, no read runs on an *)
(* unmapped table, and a reader is led through its whole file.             *)
(***************************************************************************)
EXTENDS SmbiosProc, FiniteSetTheorems, TLAPS

Bare  == {"out", "segment", "find", "entry", "check", "table", "mkdir_smbios", "unmap"}
Full  == {"files", "in", "remove_cooked", "remove_raw", "remove_smbios"}
Mapped == Full \union {"mkdir_smbios", "mkdir_raw", "mkdir_cooked", "version"}

ShapeInv ==
  /\ bios \in Machines
  /\ next \in (Nat \ {0}) \X (1 .. 3)
  /\ cache = [d \in Dirs |-> cache[d]]
  /\ reader = [r \in Readers |-> reader[r]]
  /\ dirs \subseteq Dirs /\ listed \subseteq Dirs
  /\ held \subseteq {"segment", "entry", "table"}
  /\ pc \in Bare \union Mapped
  /\ lost \in 0 .. MaxLost
  /\ \A f \in files : f.dir \in Dirs /\ f.of \in 0 .. Len(bios.table)

(* What there is at each place of load and unload.                            *)
TreeInv ==
  /\ pc = "out" => held = {}
  /\ pc \in Mapped => "table" \in held
  /\ pc \notin Full => files = {} /\ listed = {} /\ \A d \in Dirs : cache[d] = {}
  /\ \A d \in Dirs : cache[d] # {} => d \in listed
  /\ pc \in Bare => dirs = {}
  /\ pc = "mkdir_raw" => dirs \subseteq {"smbios"}
  /\ pc = "mkdir_cooked" => dirs \subseteq {"smbios", "raw"}
  /\ pc \in {"remove_raw", "remove_smbios"} => "cooked" \notin listed
  /\ pc = "remove_smbios" => "raw" \notin listed

(* A read in progress keeps its file in the tree.                             *)
ReadInv == \A r \in Readers : reader[r].st = "reading" => reader[r].file \in files

IInv == ShapeInv /\ TreeInv /\ ReadInv

(* A reader's file is one of the table; it was given, or missed, what lies    *)
(* before its offset, and that is the whole file once it was told the end.    *)
Records(file) ==
  [st : {"closed", "open", "reading", "done"}, file : {file}, off : Nat, given : Nat,
   missed : Nat, count : Nat, text : BOOLEAN]

ReaderOK(s) ==
  /\ s \in Records(s.file)
  /\ s.file.of \in 0 .. Len(bios.table)
  /\ s.given + s.missed = s.off
  /\ s.st # "closed" => s.off <= FileLength(s.file)
  /\ s.st = "reading" => s.count > 0
  /\ s.st = "done" /\ (Cooked(s.file) => s.text) => s.off = FileLength(s.file)

RecInv == \A r \in Readers : ReaderOK(reader[r])

LEMMA LengthNat ==
  ASSUME bios \in Machines, NEW f, f.of \in 0 .. Len(bios.table)
  PROVE  FileLength(f) \in Nat
<1>1. bios.table \in Seq(Structures)
  BY MachinesAssumption
<1>2. f.of # 0 => bios.table[f.of] \in Structures
  BY <1>1
<1>3. f.of # 0 => bios.table[f.of].text \in Nat /\ bios.table[f.of].size \in Nat
  BY <1>2 DEF Structures
<1>4. VersionSize \in Nat
  BY BoundsAssumption
<1> QED
  BY <1>3, <1>4 DEF FileLength, VersionLength

LEMMA GivenRange ==
  ASSUME NEW count \in Nat \ {0}, NEW off \in Nat, NEW length \in Nat, off < length
  PROVE  Given(count, off, length) \in 1 .. length - off
<1>1. BlockSize \in Nat /\ BlockSize >= 1
  BY BoundsAssumption
<1>2. length - off \in Nat /\ length - off >= 1
  OBVIOUS
<1>3. Min2(count, length - off) \in 1 .. length - off
  BY <1>2 DEF Min2
<1> QED
  BY <1>1, <1>2, <1>3 DEF Given, Min2

LEMMA ClosedOK == ASSUME bios.table \in Seq(Structures) PROVE ReaderOK(Closed)
<1>1. Closed \in Records(NoFile) /\ Closed.file = NoFile
  BY DEF Closed, Records
<1>2. Closed.st = "closed" /\ Closed.given = 0 /\ Closed.missed = 0 /\ Closed.off = 0
  BY DEF Closed
<1>3. NoFile.of = 0
  BY DEF NoFile, File
<1> QED
  BY <1>1, <1>2, <1>3 DEF ReaderOK

LEMMA InitInv == Init => IInv
BY BoundsAssumption DEF Init, IInv, ShapeInv, TreeInv, ReadInv, Bare, Mapped, Full, Dirs, Closed, NoFile, File

(* A failure at a label takes down what the steps before it have made.        *)
LEMMA FailInv ==
  ASSUME IInv, NEW label \in {"out", "raw", "cooked", "version"}, FailAt(label),
         pc \notin Full \union {"out", "unmap"},
         dirs \subseteq Ladder(label),
         UNCHANGED <<bios, store, making, reading>>
  PROVE  IInv'
<1>1. ShapeInv'
  BY DEF IInv, ShapeInv, FailAt, store, making, reading, Bare, Mapped, Full
<1>2. TreeInv'
  BY DEF IInv, ShapeInv, TreeInv, FailAt, store, making, reading, Bare, Mapped, Full
<1>3. ReadInv'
  BY DEF IInv, ReadInv, FailAt, reading
<1> QED
  BY <1>1, <1>2, <1>3 DEF IInv

LEMMA LoadInv == ASSUME IInv, Load PROVE IInv'
<1> USE DEF IInv
<1>1. CASE InitModule
  BY <1>1, BoundsAssumption DEF InitModule, NoChange, ShapeInv, TreeInv, ReadInv, store, reading, Bare, Mapped, Full
<1>2. CASE MapSegment
  <2>1. CASE FailAt("out")
    BY <1>2, <2>1, FailInv DEF MapSegment, TreeInv, Bare, Full
  <2>2. CASE pc' = "find" /\ Map("segment")
    BY <1>2, <2>2 DEF MapSegment, Map, ShapeInv, TreeInv, ReadInv, store, making, reading, Bare, Mapped, Full
  <2> QED
    BY <1>2, <2>1, <2>2 DEF MapSegment
<1>3. CASE FindEntryPoint
  <2>1. CASE FailAt("out")
    BY <1>3, <2>1, FailInv DEF FindEntryPoint, TreeInv, Bare, Full
  <2>2. CASE pc' = "entry" /\ NoChange
    BY <1>3, <2>2 DEF FindEntryPoint, NoChange, ShapeInv, TreeInv, ReadInv, store, making, reading, Bare, Mapped, Full
  <2> QED
    BY <1>3, <2>1, <2>2 DEF FindEntryPoint
<1>4. CASE MapEntryPoint
  <2>1. CASE FailAt("out")
    BY <1>4, <2>1, FailInv DEF MapEntryPoint, TreeInv, Bare, Full
  <2>2. CASE pc' = "check" /\ Map("entry")
    BY <1>4, <2>2 DEF MapEntryPoint, Map, ShapeInv, TreeInv, ReadInv, store, making, reading, Bare, Mapped, Full
  <2> QED
    BY <1>4, <2>1, <2>2 DEF MapEntryPoint
<1>5. CASE CheckEntryPoint
  <2>1. CASE FailAt("out")
    BY <1>5, <2>1, FailInv DEF CheckEntryPoint, TreeInv, Bare, Full
  <2>2. CASE pc' = "table" /\ NoChange
    BY <1>5, <2>2 DEF CheckEntryPoint, NoChange, ShapeInv, TreeInv, ReadInv, store, making, reading, Bare, Mapped, Full
  <2> QED
    BY <1>5, <2>1, <2>2 DEF CheckEntryPoint
<1>6. CASE MapTable
  <2>1. CASE FailAt("out")
    BY <1>6, <2>1, FailInv DEF MapTable, TreeInv, Bare, Full
  <2>2. CASE pc' = "mkdir_smbios" /\ Map("table")
    BY <1>6, <2>2 DEF MapTable, Map, ShapeInv, TreeInv, ReadInv, store, making, reading, Bare, Mapped, Full
  <2> QED
    BY <1>6, <2>1, <2>2 DEF MapTable
<1>7. CASE MakeDirs
  <2>1. CASE MakeDir("smbios", "mkdir_smbios", "mkdir_raw", "out")
    <3>1. CASE FailAt("out")
      BY <2>1, <3>1, FailInv DEF MakeDir, TreeInv, Bare, Full
    <3> QED
      BY <2>1, <3>1 DEF MakeDir, ShapeInv, TreeInv, ReadInv, store, making, reading, Bare, Mapped, Full, Dirs
  <2>2. CASE MakeDir("raw", "mkdir_raw", "mkdir_cooked", "raw")
    <3>1. CASE FailAt("raw")
      BY <2>2, <3>1, FailInv DEF MakeDir, TreeInv, Ladder, Bare, Full
    <3> QED
      BY <2>2, <3>1 DEF MakeDir, ShapeInv, TreeInv, ReadInv, store, making, reading, Bare, Mapped, Full, Dirs
  <2>3. CASE MakeDir("cooked", "mkdir_cooked", "version", "cooked")
    <3>1. CASE FailAt("cooked")
      BY <2>3, <3>1, FailInv DEF MakeDir, TreeInv, Ladder, Bare, Full
    <3> QED
      BY <2>3, <3>1 DEF MakeDir, ShapeInv, TreeInv, ReadInv, store, making, reading, Bare, Mapped, Full, Dirs
  <2> QED
    BY <1>7, <2>1, <2>2, <2>3 DEF MakeDirs
<1>8. CASE MakeVersionEntry
  <2>1. CASE FailAt("version")
    BY <1>8, <2>1, FailInv DEF MakeVersionEntry, ShapeInv, Ladder, Dirs, Bare, Full
  <2>2. CASE pc' = "files" /\ files' = files \union {VersionFile} /\ UNCHANGED <<held, dirs>>
    <3>1. VersionFile.dir \in Dirs /\ VersionFile.of \in 0 .. Len(bios.table)
      BY MachinesAssumption DEF VersionFile, File, Dirs, ShapeInv
    <3> QED
      BY <1>8, <2>2, <3>1 DEF MakeVersionEntry, ShapeInv, TreeInv, ReadInv, store, making, reading, Bare, Mapped, Full
  <2> QED
    BY <1>8, <2>1, <2>2 DEF MakeVersionEntry
<1>9. CASE MakeFileEntries
  <2> DEFINE d == FileOrder[next[2]]
             base == NameIn(d, bios.table[next[1]])
             f == File(d, base, Instances(d, base), next[1])
             name == [base |-> f.base, count |-> f.count]
  <2>1. d \in Dirs /\ next[1] \in 1 .. Len(bios.table)
    <3>1. next[1] \in 1 .. Len(bios.table) /\ next[2] \in 1 .. 3
      <4>1. next[1] <= Len(bios.table)
        BY <1>9 DEF MakeFileEntries
      <4> QED
        BY <4>1 DEF ShapeInv
    <3>2. FileOrder[next[2]] \in Dirs
      BY <3>1 DEF FileOrder, Dirs
    <3> QED
      BY <3>1, <3>2
  <2>2. f.dir \in Dirs /\ f.of \in 0 .. Len(bios.table)
    BY <2>1 DEF File
  <2>3. next' \in (Nat \ {0}) \X (1 .. 3)
    BY <1>9 DEF MakeFileEntries, NextFile, ShapeInv
  <2>4. /\ files' \in {files, files \union {f}}
        /\ cache' \in {cache, [cache EXCEPT ![d] = @ \union {name}]}
        /\ listed' \in {listed, listed \union {d}}
        /\ cache' # cache => listed' = listed \union {d}
        /\ lost' \in {lost, lost + 1} /\ (lost' # lost => lost < MaxLost)
    BY <1>9 DEF MakeFileEntries, store
  <2>5. UNCHANGED <<bios, pc, held, dirs, reading>> /\ pc = "files"
    BY <1>9 DEF MakeFileEntries
  <2> HIDE DEF d, f, name
  <2>6. ShapeInv'
    BY <2>1, <2>2, <2>3, <2>4, <2>5, BoundsAssumption DEF ShapeInv, reading
  <2>7. TreeInv'
    BY <2>1, <2>4, <2>5 DEF ShapeInv, TreeInv, Bare, Mapped, Full
  <2>8. ReadInv'
    BY <2>4, <2>5 DEF ReadInv, reading
  <2> QED
    BY <2>6, <2>7, <2>8
<1>10. CASE Loaded
  BY <1>10 DEF Loaded, NoChange, ShapeInv, TreeInv, ReadInv, store, making, reading, Bare, Mapped, Full
<1> QED
  BY <1>1, <1>2, <1>3, <1>4, <1>5, <1>6, <1>7, <1>8, <1>9, <1>10 DEF Load

(* Removing a directory waits for its readers.                                *)
LEMMA DestroyInv ==
  ASSUME IInv, NEW d \in Dirs, NEW from, NEW to, DestroyDirEntries(d, from, to)
  PROVE  ReadInv'
BY DEF IInv, ReadInv, DestroyDirEntries, Idle, Active, reading

LEMMA UnloadInv == ASSUME IInv, Unload PROVE IInv'
<1> USE DEF IInv
<1>1. CASE CleanupModule
  BY <1>1 DEF CleanupModule, NoChange, ShapeInv, TreeInv, ReadInv, store, making, reading, Bare, Mapped, Full
<1>2. CASE DestroyDirEntries("cooked", "remove_cooked", "remove_raw")
  <2>1. ReadInv'
    BY <1>2, DestroyInv DEF Dirs
  <2>2. ShapeInv'
    BY <1>2 DEF DestroyDirEntries, ReleaseDirList, ShapeInv, making, reading, Mapped, Full, Dirs
  <2>3. TreeInv'
    BY <1>2 DEF DestroyDirEntries, ReleaseDirList, ShapeInv, TreeInv, Bare, Mapped, Full, Dirs
  <2> QED
    BY <2>1, <2>2, <2>3
<1>3. CASE DestroyDirEntries("raw", "remove_raw", "remove_smbios")
  <2>1. ReadInv'
    BY <1>3, DestroyInv DEF Dirs
  <2>2. ShapeInv'
    BY <1>3 DEF DestroyDirEntries, ReleaseDirList, ShapeInv, making, reading, Mapped, Full, Dirs
  <2>3. TreeInv'
    BY <1>3 DEF DestroyDirEntries, ReleaseDirList, ShapeInv, TreeInv, Bare, Mapped, Full, Dirs
  <2> QED
    BY <2>1, <2>2, <2>3
<1>4. CASE DestroyDirEntries("smbios", "remove_smbios", "unmap")
  <2>1. ReadInv'
    BY <1>4, DestroyInv DEF Dirs
  <2>2. ShapeInv'
    BY <1>4 DEF DestroyDirEntries, ReleaseDirList, ShapeInv, making, reading, Bare, Dirs, Below
  <2>3. files' = {} /\ dirs' = {} /\ listed' = {}
    BY <1>4 DEF DestroyDirEntries, ReleaseDirList, ShapeInv, TreeInv, Dirs, Below
  <2>4. TreeInv'
    BY <1>4, <2>3 DEF DestroyDirEntries, ReleaseDirList, ShapeInv, TreeInv, Bare, Mapped, Full, Dirs
  <2> QED
    BY <2>1, <2>2, <2>4
<1>5. CASE Unmap
  BY <1>5 DEF Unmap, ShapeInv, TreeInv, ReadInv, store, making, reading, Bare, Mapped, Full
<1> QED
  BY <1>1, <1>2, <1>3, <1>4, <1>5 DEF Unload, Destroy

(* A step of a reader changes its own record only, and none of the tree.      *)
Quiet == UNCHANGED <<bios, pc, held, dirs, files, store, making>>

LEMMA ReaderStep ==
  ASSUME IInv, NEW r \in Readers, NEW value, Reading(r, value), Quiet,
         RecInv, ReaderOK(value), value.st = "reading" => value.file \in files
  PROVE  IInv' /\ RecInv'
<1>1. /\ reader' = [x \in Readers |-> reader'[x]] /\ reader'[r] = value
      /\ \A x \in Readers : reader'[x] = IF x = r THEN value ELSE reader[x]
  BY DEF IInv, ShapeInv, Reading
<1>2. ShapeInv'
  BY <1>1 DEF IInv, ShapeInv, Quiet, store, making
<1>3. TreeInv'
  BY DEF IInv, TreeInv, Quiet, store
<1>4. ReadInv'
  BY <1>1 DEF IInv, ReadInv, Quiet
<1>5. RecInv'
  BY <1>1 DEF RecInv, ReaderOK, FileLength, VersionLength, Quiet
<1> QED
  BY <1>2, <1>3, <1>4, <1>5 DEF IInv

LEMMA ReaderInv ==
  ASSUME IInv, RecInv, NEW r \in Readers, Open(r) \/ Read(r)
  PROVE  IInv' /\ RecInv'
<1> DEFINE s == reader[r]
<1>0. ReaderOK(s) /\ \A f \in files : f.of \in 0 .. Len(bios.table)
  BY DEF IInv, ShapeInv, RecInv
<1>1. CASE Open(r)
  <2>1. PICK f \in files : Reading(r, [Closed EXCEPT !.st = "open", !.file = f])
    BY <1>1 DEF Open
  <2> DEFINE v == [Closed EXCEPT !.st = "open", !.file = f]
  <2>2. v \in Records(f) /\ v.st = "open" /\ v.file = f /\ v.off = 0 /\ v.given = 0
        /\ v.missed = 0
    BY DEF Closed, Records
  <2>3. ReaderOK(v)
    <3>1. FileLength(f) \in Nat
      BY <1>0, LengthNat DEF IInv, ShapeInv
    <3> QED
      BY <1>0, <2>2, <3>1 DEF ReaderOK
  <2>4. Quiet
    BY <1>1 DEF Open, Quiet
  <2> QED
    BY <2>1, <2>2, <2>3, <2>4, ReaderStep
<1>2. CASE ReadBegin(r)
  <2>1. PICK n \in ReadCounts, memory \in BOOLEAN :
          Reading(r, [s EXCEPT !.st = "reading", !.count = n, !.text = Cooked(s.file) /\ memory])
    BY <1>2 DEF ReadBegin
  <2> DEFINE t == Cooked(s.file) /\ memory
             v == [s EXCEPT !.st = "reading", !.count = n, !.text = t]
  <2>2. t \in BOOLEAN
    BY DEF Cooked
  <2> HIDE DEF t
  <2>3. v \in Records(s.file) /\ v.st = "reading" /\ v.file = s.file /\ v.off = s.off
        /\ v.given = s.given /\ v.missed = s.missed /\ v.count = n
    BY <1>0, <2>2, CountsAssumption DEF ReaderOK, Records
  <2>4. ReaderOK(v)
    <3>1. s.st = "open"
      BY <1>2 DEF ReadBegin
    <3> QED
      BY <1>0, <2>3, <3>1, CountsAssumption DEF ReaderOK
  <2>5. s.file \in files /\ Quiet
    BY <1>2 DEF ReadBegin, Accessible, Quiet
  <2> QED
    BY <2>1, <2>3, <2>4, <2>5, ReaderStep DEF t
<1>3. CASE ReadEnd(r)
  <2> DEFINE length == IF Cooked(s.file) /\ ~s.text THEN 0 ELSE FileLength(s.file)
             n == Given(s.count, s.off, length)
  <2>1. s.st = "reading" /\ Quiet
    BY <1>3 DEF ReadEnd, Quiet
  <2>2. FileLength(s.file) \in Nat /\ s.off \in Nat /\ s.count \in Nat \ {0}
    BY <1>0, <2>1, LengthNat DEF IInv, ShapeInv, ReaderOK, Records
  <2>3. CASE s.off >= length /\ Reading(r, [s EXCEPT !.st = "done", !.count = 0])
    <3> DEFINE v == [s EXCEPT !.st = "done", !.count = 0]
    <3>1. v \in Records(s.file) /\ v.st = "done" /\ v.file = s.file /\ v.off = s.off
          /\ v.given = s.given /\ v.missed = s.missed /\ v.text = s.text
      BY <1>0 DEF ReaderOK, Records
    <3>2. (Cooked(s.file) => s.text) => length = FileLength(s.file)
      OBVIOUS
    <3>3. ReaderOK(v)
      BY <1>0, <2>1, <2>2, <2>3, <3>1, <3>2 DEF ReaderOK
    <3> QED
      BY <2>1, <2>3, <3>1, <3>3, ReaderStep
  <2>4. ASSUME ~(s.off >= length), NEW m \in 0 .. n,
               Reading(r, [s EXCEPT !.st = "open", !.off = s.off + n, !.given = @ + n - m,
                                    !.missed = @ + m, !.count = 0, !.text = FALSE])
        PROVE  IInv' /\ RecInv'
    <3> DEFINE v == [s EXCEPT !.st = "open", !.off = s.off + n, !.given = @ + n - m,
                              !.missed = @ + m, !.count = 0, !.text = FALSE]
    <3>1. length = FileLength(s.file)
      BY <2>2, <2>4
    <3>2. n \in 1 .. length - s.off
      BY <2>2, <2>4, <3>1, GivenRange
    <3> HIDE DEF n, length
    <3>3. s.given \in Nat /\ s.missed \in Nat /\ s.given + s.missed = s.off
      BY <1>0 DEF ReaderOK, Records
    <3>4. n \in Nat /\ s.off + n \in Nat /\ s.off + n <= length
      BY <2>2, <3>1, <3>2
    <3>5. s.given + n - m \in Nat /\ s.missed + m \in Nat
          /\ s.given + n - m + (s.missed + m) = s.off + n
      BY <2>2, <3>3, <3>4
    <3>6. v \in Records(s.file) /\ v.st = "open" /\ v.file = s.file /\ v.off = s.off + n
          /\ v.given = s.given + n - m /\ v.missed = s.missed + m
      BY <1>0, <3>4, <3>5 DEF ReaderOK, Records
    <3>7. ReaderOK(v)
      BY <1>0, <2>2, <3>1, <3>4, <3>5, <3>6 DEF ReaderOK
    <3> QED
      BY <2>1, <2>4, <3>6, <3>7, ReaderStep DEF n, length
  <2> QED
    BY <1>3, <2>3, <2>4 DEF ReadEnd, EndReached, NextOffset
<1>4. CASE ReadGone(r)
  <2>1. bios.table \in Seq(Structures)
    BY MachinesAssumption DEF IInv, ShapeInv
  <2>2. ReaderOK(Closed)
    BY <2>1, ClosedOK
  <2> QED
    BY <1>4, <2>2, ReaderStep DEF ReadGone, Quiet, Closed
<1> QED
  BY <1>1, <1>2, <1>3, <1>4 DEF Read

(* Load and unload leave the readers alone.                                   *)
LEMMA OthersRec == ASSUME RecInv, Load \/ Unload \/ UNCHANGED vars PROVE RecInv'
<1>1. UNCHANGED <<bios, reader>>
  BY DEF Load, Unload, InitModule, MapSegment, FindEntryPoint, MapEntryPoint, CheckEntryPoint,
         MapTable, MakeDirs, MakeDir, MakeVersionEntry, MakeFileEntries, Loaded, CleanupModule,
         Destroy, DestroyDirEntries, Unmap, vars, reading
<1> QED
  BY <1>1 DEF RecInv, ReaderOK, FileLength, VersionLength

LEMMA NextInv == ASSUME IInv, RecInv, [Next]_vars PROVE IInv' /\ RecInv'
<1>1. CASE UNCHANGED vars
  <2>1. IInv'
    BY <1>1 DEF IInv, ShapeInv, TreeInv, ReadInv, vars, store, making, reading
  <2> QED
    BY <1>1, <2>1, OthersRec
<1> QED
  BY <1>1, LoadInv, UnloadInv, OthersRec, ReaderInv DEF Next

LEMMA Invariance == Spec => [](IInv /\ RecInv)
<1>1. Init => IInv /\ RecInv
  <2>1. Init => RecInv
    <3>1. SUFFICES ASSUME Init PROVE ReaderOK(Closed) /\ \A r \in Readers : reader[r] = Closed
      BY DEF RecInv
    <3>2. bios.table \in Seq(Structures)
      BY <3>1, MachinesAssumption DEF Init
    <3> QED
      BY <3>1, <3>2, ClosedOK DEF Init
  <2> QED
    BY <2>1, InitInv
<1>2. IInv /\ RecInv /\ [Next]_vars => (IInv /\ RecInv)'
  BY NextInv
<1> QED
  BY <1>1, <1>2, PTL DEF Spec

(* A failed load and an unload leave no mapping, directory, file or name.     *)
THEOREM CleanUpCorrect == Spec => []NothingLeft
<1>1. IInv => NothingLeft
  BY DEF IInv, TreeInv, NothingLeft, Bare, Full
<1> QED
  BY <1>1, Invariance, PTL

(* Unload waits for the reads in progress before it unmaps what they read.    *)
THEOREM ReadsCorrect == Spec => []ReadsMapped
<1>1. IInv => ReadsMapped
  BY DEF IInv, TreeInv, ReadInv, ReadsMapped, Mapped
<1> QED
  BY <1>1, Invariance, PTL

(* A reader that is told the end was led through its whole file: what did not *)
(* come is what could not be written to its page.                             *)
THEOREM WholeFiles == Spec => []ReadsWhole
<1>1. IInv /\ RecInv => ReadsWhole
  BY DEF RecInv, ReaderOK, ReadsWhole
<1> QED
  BY <1>1, Invariance, PTL

-----------------------------------------------------------------------------
(* The cooked texts *)

(* Readers whose read holds a text.  There are finitely many, since each step *)
(* adds at most one.                                                          *)
Holding == {r \in Readers : reader[r].st = "reading" /\ reader[r].text}

TextInv ==
  /\ IsFiniteSet(Holding)
  /\ ends \in Nat
  /\ scratch = ends + Cardinality(Holding)

LEMMA HoldingStep ==
  ASSUME IInv, NEW r \in Readers, NEW value, Reading(r, value)
  PROVE  Holding' = IF value.st = "reading" /\ value.text THEN Holding \union {r}
                    ELSE Holding \ {r}
<1>1. \A x \in Readers : reader'[x] = IF x = r THEN value ELSE reader[x]
  BY DEF IInv, ShapeInv, Reading
<1> QED
  BY <1>1 DEF Holding

(* Reads take and give back texts; the end of a file is where one is kept.    *)
LEMMA TextStep ==
  ASSUME IInv, RecInv, TextInv, NEW r \in Readers, Open(r) \/ Read(r)
  PROVE  TextInv'
<1> DEFINE s == reader[r]
<1>0. /\ r \in Holding <=> s.st = "reading" /\ s.text
      /\ Cardinality(Holding) \in Nat
      /\ s \in Records(s.file)
  BY FS_CardinalityType DEF Holding, TextInv, RecInv, ReaderOK
<1>1. CASE Open(r)
  <2>1. PICK f \in files : Reading(r, [Closed EXCEPT !.st = "open", !.file = f])
    BY <1>1 DEF Open
  <2>2. r \notin Holding /\ UNCHANGED <<scratch, ends>>
    BY <1>0, <1>1 DEF Open
  <2>3. [Closed EXCEPT !.st = "open", !.file = f].st = "open"
    BY DEF Closed
  <2>4. Holding' = Holding \ {r}
    BY <2>1, <2>3, HoldingStep
  <2>5. Holding' = Holding
    BY <2>2, <2>4
  <2> QED
    BY <2>2, <2>5 DEF TextInv
<1>2. CASE ReadBegin(r)
  <2>1. PICK n \in ReadCounts, memory \in BOOLEAN :
          /\ Reading(r, [s EXCEPT !.st = "reading", !.count = n, !.text = Cooked(s.file) /\ memory])
          /\ scratch' = scratch + (IF Cooked(s.file) /\ memory THEN 1 ELSE 0)
    BY <1>2 DEF ReadBegin
  <2> DEFINE t == Cooked(s.file) /\ memory
             v == [s EXCEPT !.st = "reading", !.count = n, !.text = t]
  <2>2. r \notin Holding /\ UNCHANGED ends
    BY <1>0, <1>2 DEF ReadBegin
  <2>3. v.st = "reading" /\ v.text = t
    BY <1>0 DEF Records
  <2>4. Holding' = IF t THEN Holding \union {r} ELSE Holding \ {r}
    BY <2>1, <2>3, HoldingStep
  <2>5. scratch' = scratch + (IF t THEN 1 ELSE 0)
    BY <2>1
  <2> HIDE DEF t
  <2>6. CASE t
    <3>1. IsFiniteSet(Holding') /\ Cardinality(Holding') = Cardinality(Holding) + 1
      BY <2>2, <2>4, <2>6, FS_AddElement DEF TextInv
    <3> QED
      BY <1>0, <2>2, <2>5, <2>6, <3>1 DEF TextInv
  <2>7. CASE ~t
    <3>1. Holding' = Holding
      BY <2>2, <2>4, <2>7
    <3> QED
      BY <1>0, <2>2, <2>5, <2>7, <3>1 DEF TextInv
  <2> QED
    BY <2>6, <2>7
<1>3. CASE ReadEnd(r)
  <2>1. s.st = "reading"
    BY <1>3 DEF ReadEnd
  <2>2. PICK v : /\ Reading(r, v) /\ v.st \in {"done", "open"}
                 /\ \/ ends' = ends + (IF s.text THEN 1 ELSE 0) /\ UNCHANGED scratch
                    \/ scratch' = scratch - (IF s.text THEN 1 ELSE 0) /\ UNCHANGED ends
    <3>1. [s EXCEPT !.st = "done", !.count = 0].st = "done"
      BY <1>0 DEF Records
    <3> DEFINE length == IF Cooked(s.file) /\ ~s.text THEN 0 ELSE FileLength(s.file)
               n == Given(s.count, s.off, length)
               to == NextOffset(s, n)
               After(m) == [s EXCEPT !.st = "open", !.off = to, !.given = @ + n - m,
                                     !.missed = @ + m, !.count = 0, !.text = FALSE]
    <3>2. \A m : After(m).st = "open"
      BY <1>0 DEF Records
    <3>3. CASE Reading(r, [s EXCEPT !.st = "done", !.count = 0])
               /\ ends' = ends + (IF s.text THEN 1 ELSE 0) /\ UNCHANGED scratch
      BY <3>1, <3>3
    <3>4. ASSUME NEW m \in 0 .. n, Reading(r, After(m)),
                 scratch' = scratch - AfterCopy(s), UNCHANGED ends
          PROVE  \E v : /\ Reading(r, v) /\ v.st \in {"done", "open"}
                        /\ scratch' = scratch - (IF s.text THEN 1 ELSE 0) /\ UNCHANGED ends
      <4>1. After(m).st = "open"
        BY <3>2
      <4> QED
        BY <3>4, <4>1 DEF AfterCopy
    <3> QED
      BY <1>3, <3>3, <3>4 DEF ReadEnd
  <2>3. Holding' = Holding \ {r}
    BY <2>2, HoldingStep
  <2>4. Cardinality(Holding') = Cardinality(Holding) - (IF s.text THEN 1 ELSE 0)
        /\ IsFiniteSet(Holding')
    BY <1>0, <2>1, <2>3, FS_RemoveElement DEF TextInv
  <2>5. scratch \in Int /\ ends \in Nat
    BY <1>0 DEF TextInv
  <2> QED
    BY <1>0, <2>2, <2>4, <2>5 DEF TextInv
<1>4. CASE ReadGone(r)
  <2>1. r \notin Holding /\ Reading(r, Closed) /\ UNCHANGED <<scratch, ends>>
    BY <1>0, <1>4 DEF ReadGone
  <2>2. Holding' = Holding
    BY <2>1, HoldingStep DEF Closed
  <2> QED
    BY <2>1, <2>2 DEF TextInv
<1> QED
  BY <1>1, <1>2, <1>3, <1>4 DEF Read

LEMMA TextNext == ASSUME IInv, RecInv, TextInv, [Next]_vars PROVE TextInv'
<1>1. CASE Load \/ Unload \/ UNCHANGED vars
  <2>1. UNCHANGED <<reader, scratch, ends>>
    BY <1>1 DEF Load, Unload, InitModule, MapSegment, FindEntryPoint, MapEntryPoint,
           CheckEntryPoint, MapTable, MakeDirs, MakeDir, MakeVersionEntry, MakeFileEntries,
           Loaded, CleanupModule, Destroy, DestroyDirEntries, Unmap, vars, reading
  <2> QED
    BY <2>1 DEF TextInv, Holding
<1> QED
  BY <1>1, TextStep DEF Next

LEMMA TextInvariance == Spec => [](IInv /\ RecInv /\ TextInv)
<1>1. Init => TextInv
  <2>1. SUFFICES ASSUME Init PROVE Holding = {} /\ ends = 0 /\ scratch = 0
    BY FS_EmptySet DEF TextInv
  <2>2. \A r \in Readers : reader[r].st = "closed"
    BY <2>1 DEF Init, Closed
  <2> QED
    BY <2>1, <2>2 DEF Init, Holding
<1>2. IInv /\ RecInv /\ TextInv /\ [Next]_vars => TextInv'
  BY TextNext
<1> QED
  BY <1>1, <1>2, Invariance, PTL DEF Spec

(* Every text belongs to a read in progress or was left at the end of a file: *)
(* no other way through a read loses one.                                     *)
THEOREM TextsCorrect == Spec => []TextsAccounted
<1>1. TextInv => TextsAccounted
  BY DEF TextInv, Holding, TextsAccounted
<1> QED
  BY <1>1, TextInvariance, PTL

(* Type correctness; a reader's offset never passes the end of its file.      *)
THEOREM TypeCorrect == Spec => []TypeOK
<1>1. ASSUME IInv, RecInv, TextInv PROVE TypeOK
  <2>1. Cardinality(Holding) \in Nat
    BY <1>1, FS_CardinalityType DEF TextInv
  <2>2. scratch \in Nat /\ ends \in Nat
    BY <1>1, <2>1 DEF TextInv
  <2>3. ASSUME NEW r \in Readers
        PROVE  /\ reader[r].st \in {"closed", "open", "reading", "done"}
               /\ reader[r].st # "closed" => reader[r].off \in 0 .. FileLength(reader[r].file)
    <3>1. ReaderOK(reader[r])
      BY <1>1 DEF RecInv
    <3>2. FileLength(reader[r].file) \in Nat
      BY <1>1, <3>1, LengthNat DEF IInv, ShapeInv, ReaderOK
    <3> QED
      BY <3>1, <3>2 DEF ReaderOK, Records
  <2> QED
    BY <1>1, <2>2, <2>3 DEF IInv, ShapeInv, TreeInv, Bare, Mapped, Full, TypeOK
<1> QED
  BY <1>1, TextInvariance, PTL
=============================================================================
