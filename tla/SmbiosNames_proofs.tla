-------------------------- MODULE SmbiosNames_proofs -------------------------
(***************************************************************************)
(* Proof that the numbering of names in /proc/smbios gives every structure *)
(* its three files, for any table of structures, as long as every name     *)
(* could be registered.                                                    *)
(***************************************************************************)
EXTENDS SmbiosProc_proofs

-----------------------------------------------------------------------------
(* What names are like *)

(* The signs of a raw name.                                                   *)
Signs == {"0", "1", "2", "3", "4", "5", "6", "7", "8", "9", "-"}

(* A name that is not the one of the version file.                            *)
Name(b) == Len(b) \in Nat /\ b # <<"smbios_version">>

LEMMA DigitName == ASSUME NEW n \in 0 .. 9 PROVE Digit(n) \in Seq(Signs) /\ Len(Digit(n)) = 1
<1>1. <<"0", "1", "2", "3", "4", "5", "6", "7", "8", "9">>[n + 1] \in Signs
  BY DEF Signs
<1> QED
  BY <1>1 DEF Digit

LEMMA Joined ==
  ASSUME NEW a \in Seq(Signs), NEW b \in Seq(Signs)
  PROVE  a \o b \in Seq(Signs) /\ Len(a \o b) = Len(a) + Len(b)
OBVIOUS

LEMMA DecimalName ==
  ASSUME NEW n \in 0 .. 255 PROVE Decimal(n) \in Seq(Signs) /\ Len(Decimal(n)) > 0
<1>1. n % 10 \in 0 .. 9 /\ (n \div 10) % 10 \in 0 .. 9 /\ (n >= 100 => n \div 100 \in 0 .. 9)
  OBVIOUS
<1> DEFINE a == IF n >= 100 THEN Digit(n \div 100) ELSE <<>>
           b == IF n >= 10 THEN Digit((n \div 10) % 10) ELSE <<>>
           c == Digit(n % 10)
<1>2. a \in Seq(Signs)
  BY <1>1, DigitName
<1>3. b \in Seq(Signs)
  BY <1>1, DigitName
<1>4. c \in Seq(Signs) /\ Len(c) = 1
  BY <1>1, DigitName
<1> HIDE DEF a, b, c
<1>5. a \o b \in Seq(Signs)
  BY <1>2, <1>3
<1>6. (a \o b) \o c \in Seq(Signs) /\ Len((a \o b) \o c) = Len(a \o b) + Len(c)
  BY <1>4, <1>5, Joined
<1>7. Decimal(n) = (a \o b) \o c
  BY DEF Decimal, a, b, c
<1>8. Len(a \o b) \in Nat
  BY <1>5
<1> QED
  BY <1>4, <1>6, <1>7, <1>8

LEMMA SignsName == ASSUME NEW b \in Seq(Signs), Len(b) > 0 PROVE Name(b)
<1>1. b[1] \in Signs
  OBVIOUS
<1>2. b[1] # "smbios_version"
  BY <1>1 DEF Signs
<1> QED
  BY <1>2 DEF Name

LEMMA RawIsName ==
  ASSUME NEW s \in Structures PROVE Name(RawName(s))
<1>1. s.type \in 0 .. 255 /\ s.subtype \in 0 .. 255
  BY DEF Structures
<1> DEFINE a == Decimal(s.type)
           b == IF s.type \in Subtyped THEN <<"-">> \o Decimal(s.subtype) ELSE <<>>
<1>2. a \in Seq(Signs) /\ Len(a) > 0
  BY <1>1, DecimalName
<1>3. <<"-">> \in Seq(Signs)
  BY DEF Signs
<1>4. b \in Seq(Signs)
  <2>1. Decimal(s.subtype) \in Seq(Signs)
    BY <1>1, DecimalName
  <2> QED
    BY <1>3, <2>1
<1> HIDE DEF a, b
<1>5. a \o b \in Seq(Signs) /\ Len(a \o b) > 0
  BY <1>2, <1>4
<1> QED
  BY <1>5, SignsName DEF RawName, a, b

LEMMA WordsNames == \A k \in 1 .. 40 : Name(Words[k])
<1> SUFFICES ASSUME NEW k \in 1 .. 40 PROVE Name(Words[k])
  OBVIOUS
<1>1. Len(Words[k]) \in Nat
  BY SMTT(200) DEF Words
<1>2. Words[k][1] # "smbios_version"
  BY DEF Words
<1>3. <<"smbios_version">>[1] = "smbios_version"
  OBVIOUS
<1>4. Words[k] # <<"smbios_version">>
  BY <1>2, <1>3
<1> QED
  BY <1>1, <1>4 DEF Name

LEMMA IsName ==
  ASSUME NEW s \in Structures, NEW d \in Dirs PROVE Name(NameIn(d, s))
<1>1. s.type \in 0 .. 255
  BY DEF Structures
<1>2. Name(RawName(s))
  BY RawIsName
<1>3. Name(Decimal(s.type))
  BY <1>1, DecimalName, SignsName
<1>4. s.type \in 0 .. 39 => Name(Words[s.type + 1])
  BY <1>1, WordsNames
<1>5. Name(<<"inactive">>) /\ Name(<<"end", "of", "table">>)
  BY DEF Name
<1>6. Name(ReadableName(s))
  BY <1>2, <1>3, <1>4, <1>5 DEF ReadableName
<1> QED
  BY <1>2, <1>6 DEF NameIn

-----------------------------------------------------------------------------
(* The numbering *)

NameOf(f) == [base |-> f.base, count |-> f.count]

Named(f) ==
  /\ f.dir \in Dirs /\ f.of \in DOMAIN bios.table
  /\ f.base = NameIn(f.dir, bios.table[f.of])
  /\ NameOf(f) \in cache[f.dir]

(* Every file but that of the version has its name registered.                *)
FilesNamed == \A f \in files : f = VersionFile \/ Named(f)

(* The number of a registered name is below the number the next one that      *)
(* begins alike would get.                                                    *)
CountsBelow ==
  \A d \in Dirs :
    /\ IsFiniteSet(cache[d])
    /\ \A n \in cache[d] : n.count \in Nat /\ n.count < Instances(d, n.base)

Unique == \A f, g \in files : f.dir = g.dir /\ f.base = g.base /\ f.count = g.count => f = g

Shown(d, i) == \E f \in files : f.dir = d /\ f.of = i /\ f.base = NameIn(d, bios.table[i])

(* The files up to the next one are there; all of them when the module is in. *)
Done(i, k) == i < next[1] \/ (i = next[1] /\ k < next[2])

AllShown ==
  \A i \in DOMAIN bios.table, k \in 1 .. 3 :
    (pc = "files" /\ Done(i, k)) \/ pc = "in" => Shown(FileOrder[k], i)

Before == {"segment", "find", "entry", "check", "table", "mkdir_smbios", "mkdir_raw",
           "mkdir_cooked", "version"}

NamesInv ==
  /\ pc \in Before => next = <<1, 1>>
  /\ lost = 0 => FilesNamed /\ CountsBelow /\ Unique /\ AllShown

LEMMA Orders == \A k \in 1 .. 3 : FileOrder[k] \in Dirs
BY DEF FileOrder, Dirs

(* Outside the part of a load that makes files there are none.                *)
LEMMA EmptyNames ==
  ASSUME IInv', pc' \notin Full, pc' \in Before => next' = <<1, 1>> PROVE NamesInv'
<1>1. files' = {} /\ (\A d \in Dirs : cache'[d] = {}) /\ pc' \notin {"files", "in"}
  BY DEF IInv, TreeInv, Full
<1>2. CountsBelow'
  BY <1>1, FS_EmptySet DEF CountsBelow
<1> QED
  BY <1>1, <1>2 DEF NamesInv, FilesNamed, Unique, AllShown

(* Names that begin like b, and what one more name does to their count.       *)
Alike(S, b) == {m \in S : IsPrefix(b, m.base)}

LEMMA OneMore ==
  ASSUME NEW S, IsFiniteSet(S), NEW n, NEW b
  PROVE  /\ Cardinality(Alike(S, b)) \in Nat /\ Cardinality(Alike(S \union {n}, b)) \in Nat
         /\ Cardinality(Alike(S, b)) <= Cardinality(Alike(S \union {n}, b))
         /\ n \notin S /\ IsPrefix(b, n.base) =>
              Cardinality(Alike(S \union {n}, b)) = Cardinality(Alike(S, b)) + 1
<1> DEFINE old == Alike(S, b)
           new == Alike(S \union {n}, b)
<1>1. old \in SUBSET S /\ IsFiniteSet(old)
  BY FS_Subset DEF Alike
<1>2. new = IF IsPrefix(b, n.base) THEN old \union {n} ELSE old
  BY DEF Alike
<1>3. Cardinality(old) \in Nat
  BY <1>1, FS_CardinalityType
<1>4. IsFiniteSet(old \union {n})
      /\ Cardinality(old \union {n}) = IF n \in old THEN Cardinality(old) ELSE Cardinality(old) + 1
  BY <1>1, FS_AddElement
<1>5. n \notin S => n \notin old
  BY DEF Alike
<1> HIDE DEF old, new
<1>6. CASE IsPrefix(b, n.base)
  <2>1. new = old \union {n}
    BY <1>2, <1>6
  <2>2. Cardinality(new) = IF n \in old THEN Cardinality(old) ELSE Cardinality(old) + 1
    BY <1>4, <2>1
  <2>3. Cardinality(new) \in Nat /\ Cardinality(old) <= Cardinality(new)
    BY <1>3, <2>2
  <2>4. n \notin S => Cardinality(new) = Cardinality(old) + 1
    BY <1>5, <2>2
  <2> QED
    BY <1>3, <2>3, <2>4 DEF old, new
<1>7. CASE ~IsPrefix(b, n.base)
  <2>1. new = old
    BY <1>2, <1>7
  <2>2. Cardinality(new) = Cardinality(old)
    BY <2>1
  <2> QED
    BY <1>3, <1>7, <2>2 DEF old, new
<1> QED
  BY <1>6, <1>7

LEMMA PrefixOfItself == ASSUME NEW b, Len(b) \in Nat PROVE IsPrefix(b, b)
BY DEF IsPrefix

(* One file more, under a name that was free.                                 *)
LEMMA FileStep ==
  ASSUME IInv, IInv', NamesInv, MakeFileEntries, lost' = 0 PROVE NamesInv'
<1>0. PICK d, base, f, name :
        /\ d = FileOrder[next[2]] /\ base = NameIn(d, bios.table[next[1]])
        /\ f = File(d, base, Instances(d, base), next[1]) /\ name = NameOf(f)
  OBVIOUS
<1>1. lost = 0 /\ lost \in Nat
  <2>1. lost \in 0 .. MaxLost /\ MaxLost \in Nat
    BY BoundsAssumption DEF IInv, ShapeInv
  <2>2. lost' \in {lost, lost + 1}
    BY DEF MakeFileEntries, store
  <2> QED
    BY <2>1, <2>2
<1>2. /\ pc = "files" /\ pc' = "files" /\ UNCHANGED bios
      /\ next[1] <= Len(bios.table) /\ next' = NextFile
  BY DEF MakeFileEntries
<1>3. /\ bios.table \in Seq(Structures)
      /\ next[1] \in DOMAIN bios.table /\ next[2] \in 1 .. 3
      /\ next = <<next[1], next[2]>>
  BY <1>2, MachinesAssumption DEF IInv, ShapeInv
<1>4. d \in Dirs /\ bios.table[next[1]] \in Structures
  BY <1>0, <1>3, Orders
<1>5. Name(base)
  BY <1>0, <1>4, IsName
<1>6. FilesNamed /\ CountsBelow /\ Unique /\ AllShown
  BY <1>1 DEF NamesInv
<1>7. f.dir = d /\ f.base = base /\ f.count = Instances(d, base) /\ f.of = next[1]
      /\ name.base = base /\ name.count = Instances(d, base)
  BY <1>0 DEF File, NameOf
<1>8. ~Exists(f)
  <2> SUFFICES ASSUME NEW g \in files, g.dir = d, g.base = base, g.count = Instances(d, base)
               PROVE  FALSE
    BY <1>7 DEF Exists
  <2>1. g # VersionFile
    BY <1>5 DEF VersionFile, File, Name
  <2>2. NameOf(g) \in cache[d]
    BY <1>6, <2>1 DEF FilesNamed, Named
  <2>3. NameOf(g).count < Instances(d, NameOf(g).base) /\ NameOf(g).count \in Nat
    BY <1>4, <1>6, <2>2 DEF CountsBelow
  <2> QED
    BY <2>3 DEF NameOf
<1>9. files' = files \union {f} /\ cache' = [cache EXCEPT ![d] = @ \union {name}]
  <2>1. \/ lost' = lost + 1 \/ Exists(f)
        \/ files' = files \union {f} /\ cache' = [cache EXCEPT ![d] = @ \union {name}]
    BY <1>0 DEF MakeFileEntries, NameOf
  <2> QED
    BY <1>1, <1>8, <2>1
<1>10. \A e \in Dirs : cache'[e] = IF e = d THEN cache[d] \union {name} ELSE cache[e]
  BY <1>4, <1>9 DEF IInv, ShapeInv
<1>11. FilesNamed'
  <2>1. Named(f)'
    BY <1>0, <1>2, <1>3, <1>4, <1>7, <1>10 DEF Named
  <2>2. ASSUME NEW g \in files, Named(g) PROVE Named(g)'
    BY <1>2, <1>10, <2>2 DEF Named
  <2> QED
    BY <1>6, <1>9, <2>1, <2>2 DEF FilesNamed
<1>12. CountsBelow'
  <2> SUFFICES ASSUME NEW e \in Dirs
               PROVE  /\ IsFiniteSet(cache'[e])
                      /\ \A n \in cache'[e] : n.count \in Nat /\ n.count < Instances(e, n.base)'
    BY DEF CountsBelow
  <2>1. CASE e # d
    BY <1>6, <1>10, <2>1 DEF CountsBelow, Instances
  <2>2. CASE e = d
    <3>1. IsFiniteSet(cache[d])
      BY <1>4, <1>6 DEF CountsBelow
    <3>2. cache'[d] = cache[d] \union {name}
      BY <1>4, <1>10
    <3>3. IsFiniteSet(cache'[d])
      BY <3>1, <3>2, FS_AddElement
    <3>4. \A b : /\ Instances(d, b) \in Nat /\ Instances(d, b)' \in Nat
                 /\ Instances(d, b) <= Instances(d, b)'
                 /\ name \notin cache[d] /\ IsPrefix(b, name.base) =>
                      Instances(d, b)' = Instances(d, b) + 1
      <4> TAKE b
      <4>1. /\ Instances(d, b) = Cardinality(Alike(cache[d], b))
            /\ Instances(d, b)' = Cardinality(Alike(cache[d] \union {name}, b))
        BY <3>2 DEF Instances, Alike
      <4>2. /\ Cardinality(Alike(cache[d], b)) \in Nat
            /\ Cardinality(Alike(cache[d] \union {name}, b)) \in Nat
            /\ Cardinality(Alike(cache[d], b)) <= Cardinality(Alike(cache[d] \union {name}, b))
        BY <3>1, OneMore
      <4>3. name \notin cache[d] /\ IsPrefix(b, name.base) =>
              Cardinality(Alike(cache[d] \union {name}, b)) = Cardinality(Alike(cache[d], b)) + 1
        BY <3>1, OneMore
      <4> QED
        BY <4>1, <4>2, <4>3
    <3>5. name \notin cache[d]
      BY <1>4, <1>6, <1>7 DEF CountsBelow
    <3>6. IsPrefix(base, base)
      BY <1>5, PrefixOfItself DEF Name
    <3>7. ASSUME NEW n \in cache[d] PROVE n.count \in Nat /\ n.count < Instances(d, n.base)'
      <4>1. n.count \in Nat /\ n.count < Instances(d, n.base)
        BY <1>4, <1>6 DEF CountsBelow
      <4> QED
        BY <3>4, <4>1
    <3>8. name.count \in Nat /\ name.count < Instances(d, name.base)'
      BY <1>7, <3>4, <3>5, <3>6
    <3> QED
      BY <1>10, <2>2, <3>3, <3>7, <3>8
  <2> QED
    BY <2>1, <2>2
<1>13. Unique'
  BY <1>6, <1>7, <1>8, <1>9 DEF Unique, Exists
<1>14. AllShown'
  <2> SUFFICES ASSUME NEW i \in DOMAIN bios.table, NEW k \in 1 .. 3, Done(i, k)'
               PROVE  Shown(FileOrder[k], i)'
    BY <1>2 DEF AllShown
  <2>1. Done(i, k) \/ (i = next[1] /\ k = next[2])
    <3>1. next[1] \in Nat /\ i \in Nat
      BY <1>3
    <3> QED
      BY <1>2, <1>3, <3>1 DEF Done, NextFile
  <2>2. CASE Done(i, k)
    BY <1>2, <1>6, <1>9, <2>2 DEF AllShown, Shown
  <2>3. CASE i = next[1] /\ k = next[2]
    BY <1>0, <1>2, <1>7, <1>9, <2>3 DEF Shown
  <2> QED
    BY <2>1, <2>2, <2>3
<1> QED
  BY <1>2, <1>11, <1>12, <1>13, <1>14 DEF NamesInv, Before

(* A directory that is removed takes its files and names along.               *)
LEMMA DestroyNames ==
  ASSUME IInv, IInv', NamesInv, NEW d \in Dirs, NEW from, NEW to,
         to \notin Before \union {"files", "in"}, DestroyDirEntries(d, from, to)
  PROVE  NamesInv'
<1>1. /\ files' = {f \in files : f.dir \notin Below(d)} /\ UNCHANGED <<bios, lost, next>>
      /\ pc' = to
      /\ \A e \in Dirs : cache'[e] = IF e = d THEN {} ELSE cache[e]
  BY DEF DestroyDirEntries, ReleaseDirList, IInv, ShapeInv, making
<1>2. \A f \in files' : f \in files /\ f.dir # d
  BY <1>1 DEF Below
<1>3. ASSUME FilesNamed PROVE FilesNamed'
  BY <1>1, <1>2, <1>3 DEF FilesNamed, Named, VersionFile
<1>4. ASSUME CountsBelow PROVE CountsBelow'
  BY <1>1, <1>4, FS_EmptySet DEF CountsBelow, Instances
<1>5. ASSUME Unique PROVE Unique'
  BY <1>2, <1>5 DEF Unique
<1>6. AllShown'
  BY <1>1 DEF AllShown
<1> QED
  BY <1>1, <1>3, <1>4, <1>5, <1>6 DEF NamesInv

(* Steps that make and remove nothing.                                        *)
LEMMA SameNames ==
  ASSUME NamesInv, UNCHANGED <<bios, files, cache, lost, next>>,
         pc' = pc \/ pc' \in {"remove_cooked", "unmap"}
  PROVE  NamesInv'
<1>1. FilesNamed' = FilesNamed /\ CountsBelow' = CountsBelow /\ Unique' = Unique
  BY DEF FilesNamed, Named, CountsBelow, Instances, Unique, VersionFile
<1>2. AllShown => AllShown'
  BY DEF AllShown, Shown, Done
<1> QED
  BY <1>1, <1>2 DEF NamesInv, Before

LEMMA NamesLoad == ASSUME IInv, IInv', NamesInv, Load PROVE NamesInv'
<1>1. CASE InitModule
  BY <1>1, EmptyNames DEF InitModule, Full
<1>2. CASE MapSegment \/ FindEntryPoint \/ MapEntryPoint \/ CheckEntryPoint \/ MapTable \/ MakeDirs
  <2>1. pc \in Before /\ pc' \in Before \union {"out"} /\ UNCHANGED next
    BY <1>2 DEF MapSegment, FindEntryPoint, MapEntryPoint, CheckEntryPoint, MapTable, MakeDirs,
           MakeDir, FailAt, Before, making
  <2> QED
    BY <2>1, EmptyNames DEF NamesInv, Before, Full
<1>3. CASE MakeVersionEntry
  <2>1. pc = "version" /\ UNCHANGED <<bios, cache, lost, next>>
    BY <1>3 DEF MakeVersionEntry, store, making
  <2>2. files = {} /\ \A d \in Dirs : cache[d] = {}
    BY <2>1 DEF IInv, TreeInv, Full
  <2>3. CASE pc' = "files" /\ files' = files \union {VersionFile}
    <3>1. next' = <<1, 1>>
      BY <2>1 DEF NamesInv, Before
    <3>2. FilesNamed' /\ Unique'
      BY <2>2, <2>3 DEF FilesNamed, Unique, VersionFile
    <3>3. CountsBelow'
      BY <2>1, <2>2, FS_EmptySet DEF CountsBelow
    <3>4. AllShown'
      <4>1. \A i \in DOMAIN bios.table, k \in 1 .. 3 : ~Done(i, k)'
        <5>1. bios.table \in Seq(Structures)
          BY MachinesAssumption DEF IInv, ShapeInv
        <5> QED
          BY <3>1, <5>1 DEF Done
      <4> QED
        BY <2>1, <2>3, <4>1 DEF AllShown
    <3> QED
      BY <2>3, <3>2, <3>3, <3>4 DEF NamesInv, Before
  <2>4. CASE FailAt("version")
    BY <2>4, EmptyNames DEF FailAt, Full, Before
  <2> QED
    BY <1>3, <2>3, <2>4 DEF MakeVersionEntry
<1>4. CASE MakeFileEntries
  <2>1. CASE lost' = 0
    BY <1>4, <2>1, FileStep
  <2>2. CASE lost' # 0
    BY <1>4, <2>2 DEF MakeFileEntries, NamesInv, Before
  <2> QED
    BY <2>1, <2>2
<1>5. CASE Loaded
  <2>1. pc = "files" /\ pc' = "in" /\ next[1] > Len(bios.table)
        /\ UNCHANGED <<bios, files, cache, lost, next>>
    BY <1>5 DEF Loaded, NoChange, store, making
  <2>2. FilesNamed' = FilesNamed /\ CountsBelow' = CountsBelow /\ Unique' = Unique
    BY <2>1 DEF FilesNamed, Named, CountsBelow, Instances, Unique, VersionFile
  <2>3. \A i \in DOMAIN bios.table, k \in 1 .. 3 : Done(i, k)
    <3>1. bios.table \in Seq(Structures) /\ next[1] \in Nat
      BY MachinesAssumption DEF IInv, ShapeInv
    <3> QED
      BY <2>1, <3>1 DEF Done
  <2>4. AllShown => AllShown'
    BY <2>1, <2>3 DEF AllShown, Shown
  <2> QED
    BY <2>1, <2>2, <2>4 DEF NamesInv, Before
<1> QED
  BY <1>1, <1>2, <1>3, <1>4, <1>5 DEF Load

LEMMA NamesUnload == ASSUME IInv, IInv', NamesInv, Unload PROVE NamesInv'
<1>1. CASE CleanupModule
  <2>1. pc' = "remove_cooked" /\ UNCHANGED <<bios, files, cache, lost, next>>
    BY <1>1 DEF CleanupModule, NoChange, store, making
  <2> QED
    BY <2>1, SameNames
<1>2. CASE Destroy
  BY <1>2, DestroyNames DEF Destroy, Dirs, Before
<1>3. CASE Unmap
  BY <1>3, EmptyNames DEF Unmap, Full, Before
<1> QED
  BY <1>1, <1>2, <1>3 DEF Unload

LEMMA NamesNext == ASSUME IInv, IInv', NamesInv, [Next]_vars PROVE NamesInv'
<1>1. CASE (\E r \in Readers : Open(r) \/ Read(r)) \/ UNCHANGED vars
  <2>1. UNCHANGED <<bios, files, cache, lost, next, pc>>
    BY <1>1 DEF Open, Read, ReadBegin, ReadEnd, ReadGone, vars, store, making
  <2> QED
    BY <2>1, SameNames
<1> QED
  BY <1>1, NamesLoad, NamesUnload DEF Next

(* When nothing was lost on the way, every structure has its three files and  *)
(* no two files of a directory share a name, whatever the table.              *)
THEOREM FilesCorrect == Spec => []FilesComplete
<1>1. Init => NamesInv
  <2>1. SUFFICES ASSUME Init PROVE NamesInv
    OBVIOUS
  <2>2. CountsBelow
    BY <2>1, FS_EmptySet DEF Init, CountsBelow
  <2> QED
    BY <2>1, <2>2 DEF Init, NamesInv, FilesNamed, Unique, AllShown, Before
<1>2. IInv /\ IInv' /\ NamesInv /\ [Next]_vars => NamesInv'
  BY NamesNext
<1>3. NamesInv => FilesComplete
  <2>1. SUFFICES ASSUME NamesInv, pc = "in", lost = 0 PROVE FilesComplete
    BY DEF FilesComplete
  <2>2. \A d \in Dirs : \E k \in 1 .. 3 : FileOrder[k] = d
    BY DEF Dirs, FileOrder
  <2>3. \A i \in DOMAIN bios.table, d \in Dirs : Shown(d, i)
    BY <2>1, <2>2 DEF NamesInv, AllShown
  <2> QED
    BY <2>1, <2>3 DEF NamesInv, Shown, Unique, FilesComplete
<1> QED
  BY <1>1, <1>2, <1>3, Invariance, PTL DEF Spec
=============================================================================
