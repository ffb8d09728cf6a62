----------------------------- MODULE SmbiosProc ------------------------------
(***************************************************************************)
(* The module smbios (firmware_update/fujitsu/src/smbios): load, the tree  *)
(* /proc/smbios, reads of its files and unload (main.c, bios.c), as built  *)
(* for kernels from 3.10 on.                                               *)
(*                                                                         *)
(* Files can be read from the moment they are created, while the module is *)
(* still loading; a read in progress keeps proc_remove waiting.  A step of *)
(* load or unload is the code between two calls into the kernel.           *)
(***************************************************************************)
EXTENDS Integers, Sequences, SequencesExt, FiniteSets

CONSTANTS
  Machines,     (* the firmware: what is found and which structures           *)
  Readers,      (* processes that read files                                  *)
  ReadCounts,   (* how much a read asks for                                   *)
  BlockSize,    (* PROC_BLOCK_SIZE                                            *)
  VersionSize,  (* the length of smbios_version_string                        *)
  MaxEnds,      (* bound: reads at the end of a cooked file                   *)
  MaxLost       (* bound: failures of one load to make or register a file     *)

Kinds == {"smbios", "efi", "broken", "dmi", "none"}

(* type, subtype; size: bytes with the strings; text: bytes when cooked.      *)
Structures == [type : 0 .. 255, subtype : 0 .. 255, size : Nat, text : Nat]

ASSUME MachinesAssumption ==
  \A m \in Machines : m.kind \in Kinds /\ m.table \in Seq(Structures)
ASSUME CountsAssumption == ReadCounts \subseteq Nat \ {0}
ASSUME BoundsAssumption == {BlockSize, VersionSize, MaxEnds, MaxLost} \subseteq Nat \ {0}

VARIABLES
  bios,         (* the machine                                                *)
  pc,           (* where load or unload stands                                *)
  held,         (* what is mapped: the F-segment, entry point and table       *)
  dirs,         (* smbios_proc_dir, smbios_raw_proc_dir, smbios_cooked_proc_dir *)
  files,        (* the files below them                                       *)
  cache,        (* proc_dir_cache: names registered for each directory        *)
  listed,       (* directories that have an entry in proc_dir_cache           *)
  next,         (* the structure and, 1 to 3, the file to be made next        *)
  lost,         (* how often a file could not be made or registered           *)
  reader,       (* what each reader does                                      *)
  scratch,      (* cooked texts that are allocated                            *)
  ends          (* reads that found the end of a cooked file                  *)

store == <<cache, listed>>
making == <<next, lost>>
reading == <<reader, scratch, ends>>
vars == <<bios, pc, held, dirs, files, store, making, reading>>

Dirs == {"smbios", "raw", "cooked"}

-----------------------------------------------------------------------------
(* Names *)

Subtyped == {185, 187, 208, 209, 210, 211, 212, 254}

Digit(n) == << <<"0", "1", "2", "3", "4", "5", "6", "7", "8", "9">>[n + 1] >>

Decimal(n) == (IF n >= 100 THEN Digit(n \div 100) ELSE <<>>)
              \o (IF n >= 10 THEN Digit((n \div 10) % 10) ELSE <<>>)
              \o Digit(n % 10)

(* "%d" or "%d-%d".                                                           *)
RawName(s) == Decimal(s.type)
              \o (IF s.type \in Subtyped THEN <<"-">> \o Decimal(s.subtype) ELSE <<>>)

(* The names of strgdef.h, word by word, the two that begin with digits sign  *)
(* by sign as far as a decimal name can go: one name begins like another here *)
(* if it does in the code.                                                    *)
Words ==
  << <<"bios">>, <<"system">>, <<"baseboard">>, <<"enclosure">>, <<"processor">>,
     <<"memory", "controller">>, <<"memory", "module">>, <<"cache">>, <<"port", "connector">>,
     <<"system", "slot">>, <<"onboard", "device">>, <<"oem", "strings">>,
     <<"system", "configuration">>, <<"bios", "language">>, <<"group", "association">>,
     <<"system", "event", "log">>, <<"physical", "memory", "array">>,
     <<"physical", "memory", "device">>, <<"3", "2", "bit", "memory", "error", "information">>,
     <<"memory", "array", "mapped", "address">>, <<"memory", "device", "mapped", "address">>,
     <<"pointing", "device">>, <<"portable", "battery">>, <<"system", "reset">>,
     <<"hardware", "security">>, <<"system", "power", "controls">>, <<"voltage", "probe">>,
     <<"cooling", "device">>, <<"temperature", "probe">>, <<"current", "probe">>,
     <<"out", "of", "band", "remote", "access">>, <<"boot", "integrity", "services">>,
     <<"system", "boot", "information">>, <<"6", "4", "bit", "memory", "error", "information">>,
     <<"management", "device">>, <<"management", "device", "component">>,
     <<"management", "device", "thresholds">>, <<"memory", "channel">>,
     <<"ipmi", "information">>, <<"system", "power", "supply">> >>

ReadableName(s) ==
  CASE s.type \in Subtyped  -> RawName(s)
    [] s.type \in 0 .. 39   -> Words[s.type + 1]
    [] s.type = 126         -> <<"inactive">>
    [] s.type = 127         -> <<"end", "of", "table">>
    [] OTHER                -> Decimal(s.type)

(* Mutant of Instances: the numbering begins once two names are there.        *)
InstancesLessOne(d, base) ==
  LET n == Cardinality({m \in cache[d] : IsPrefix(base, m.base)}) IN IF n = 0 THEN 0 ELSE n - 1

(* count_filename_instances: registered names that begin like base, as far as *)
(* base goes.                                                                 *)
Instances(d, base) == Cardinality({n \in cache[d] : IsPrefix(base, n.base)})

-----------------------------------------------------------------------------
(* Load *)

(* Mutant of Ladder: the directories are not taken down in order.             *)
LadderWithoutRaw(label) ==
  IF label = "out" THEN {} ELSE IF label = "raw" THEN {"smbios"} ELSE {"smbios", "cooked"}

(* The directories the labels of init_module remove, from each label down.    *)
Ladder(label) ==
  IF label = "version" THEN {"cooked", "raw", "smbios"}
  ELSE IF label = "cooked" THEN {"raw", "smbios"}
  ELSE IF label = "raw" THEN {"smbios"} ELSE {}

(* goto label: everything that was made is unmade.                            *)
FailAt(label) ==
  /\ pc' = "out"
  /\ held' = {}
  /\ dirs' = dirs \ Ladder(label)
  /\ UNCHANGED files

Map(what) == held' = held \union {what} /\ UNCHANGED <<dirs, files>>
NoChange == UNCHANGED <<held, dirs, files>>

InitModule ==
  /\ pc = "out"
  /\ pc' = IF bios.kind = "efi" THEN "entry" ELSE "segment"
  /\ next' = <<1, 1>> /\ lost' = 0
  /\ NoChange
  /\ UNCHANGED <<bios, store, reading>>

MapSegment ==
  /\ pc = "segment"
  /\ \/ pc' = "find" /\ Map("segment")
     \/ FailAt("out")
  /\ UNCHANGED <<bios, store, making, reading>>

(* The SM-BIOS entry point, or else that of the DMI-BIOS.                     *)
FindEntryPoint ==
  /\ pc = "find"
  /\ \/ bios.kind # "none" /\ pc' = "entry" /\ NoChange
     \/ bios.kind = "none" /\ FailAt("out")
  /\ UNCHANGED <<bios, store, making, reading>>

(* The address is the start of the segment and the offset of the SM-BIOS      *)
(* entry point, -1 if there is none: never 0.                                 *)
MapEntryPoint ==
  /\ pc = "entry"
  /\ \/ pc' = "check" /\ Map("entry")
     \/ FailAt("out")
  /\ UNCHANGED <<bios, store, making, reading>>

(* "_DMI_" in the intermediate string.                                        *)
CheckEntryPoint ==
  /\ pc = "check"
  /\ \/ bios.kind \in {"smbios", "efi"} /\ pc' = "table" /\ NoChange
     \/ bios.kind \in {"broken", "dmi"} /\ FailAt("out")
  /\ UNCHANGED <<bios, store, making, reading>>

MapTable ==
  /\ pc = "table"
  /\ \/ pc' = "mkdir_smbios" /\ Map("table")
     \/ FailAt("out")
  /\ UNCHANGED <<bios, store, making, reading>>

MakeDir(d, from, to, label) ==
  /\ pc = from
  /\ \/ pc' = to /\ dirs' = dirs \union {d} /\ UNCHANGED <<held, files>>
     \/ FailAt(label)
  /\ UNCHANGED <<bios, store, making, reading>>

MakeDirs == \/ MakeDir("smbios", "mkdir_smbios", "mkdir_raw", "out")
            \/ MakeDir("raw", "mkdir_raw", "mkdir_cooked", "raw")
            \/ MakeDir("cooked", "mkdir_cooked", "version", "cooked")

File(d, base, count, of) == [dir |-> d, base |-> base, count |-> count, of |-> of]

VersionFile == File("smbios", <<"smbios_version">>, 0, 0)

MakeVersionEntry ==
  /\ pc = "version"
  /\ \/ pc' = "files" /\ files' = files \union {VersionFile} /\ UNCHANGED <<held, dirs>>
     \/ FailAt("version")
  /\ UNCHANGED <<bios, store, making, reading>>

(* Each structure gets a raw file, a cooked one under the same name and a     *)
(* cooked one under a readable name.                                          *)
FileOrder == <<"raw", "cooked", "smbios">>
NameIn(d, s) == IF d = "smbios" THEN ReadableName(s) ELSE RawName(s)
NextFile == IF next[2] < 3 THEN <<next[1], next[2] + 1>> ELSE <<next[1] + 1, 1>>

(* proc_create_data refuses a name that is there.                             *)
Exists(f) == \E g \in files : g.dir = f.dir /\ g.base = f.base /\ g.count = f.count

(* make_file_entries and register_proc_filename.  What they return is not     *)
(* looked at: without memory the file is missing, or its name is not          *)
(* registered.                                                                *)
MakeFileEntries ==
  /\ pc = "files" /\ next[1] <= Len(bios.table)
  /\ LET d == FileOrder[next[2]]
         base == NameIn(d, bios.table[next[1]])
         f == File(d, base, Instances(d, base), next[1])
         name == [base |-> f.base, count |-> f.count]
     IN \/ lost < MaxLost /\ lost' = lost + 1 /\ UNCHANGED <<files, store>>
        \/ /\ ~Exists(f)
           /\ files' = files \union {f}
           /\ \/ /\ cache' = [cache EXCEPT ![d] = @ \union {name}]
                 /\ listed' = listed \union {d}
                 /\ UNCHANGED lost
              \/ /\ lost < MaxLost /\ lost' = lost + 1
                 /\ listed' \in {listed, listed \union {d}}
                 /\ UNCHANGED cache
        \/ Exists(f) /\ UNCHANGED <<files, store, lost>>
  /\ next' = NextFile
  /\ UNCHANGED <<bios, pc, held, dirs, reading>>

Loaded ==
  /\ pc = "files" /\ next[1] > Len(bios.table)
  /\ pc' = "in"
  /\ NoChange
  /\ UNCHANGED <<bios, store, making, reading>>

-----------------------------------------------------------------------------
(* Unload *)

(* proc_remove of the directory smbios takes what is below it along.          *)
Below(d) == IF d = "smbios" THEN Dirs ELSE {d}

(* Mutant of Closing: reads go on to be started while a directory is removed. *)
StillOpen == {}

(* Directories no read can be started in any more.                            *)
Closing == CASE pc = "remove_cooked" -> {"cooked"} [] pc = "remove_raw" -> {"raw"}
             [] pc = "remove_smbios" -> Dirs [] OTHER -> {}

Active(f) == \E r \in Readers : reader[r].st = "reading" /\ reader[r].file = f

(* Mutant of Idle: the directory is removed under its readers.                *)
AnyTime(d) == TRUE

(* proc_remove waits until no read is in progress below the directory.        *)
Idle(d) == \A f \in files : f.dir \in Below(d) => ~Active(f)

(* release_dir_list.                                                          *)
ReleaseDirList(d) ==
  /\ cache' = [cache EXCEPT ![d] = {}]
  /\ listed' = listed \ {d}

DestroyDirEntries(d, from, to) ==
  /\ pc = from /\ pc' = to
  /\ Idle(d)
  /\ files' = {f \in files : f.dir \notin Below(d)}
  /\ dirs' = dirs \ Below(d)
  /\ ReleaseDirList(d)
  /\ UNCHANGED <<bios, held, making, reading>>

CleanupModule == pc = "in" /\ pc' = "remove_cooked"
                 /\ NoChange /\ UNCHANGED <<bios, store, making, reading>>

Destroy == \/ DestroyDirEntries("cooked", "remove_cooked", "remove_raw")
           \/ DestroyDirEntries("raw", "remove_raw", "remove_smbios")
           \/ DestroyDirEntries("smbios", "remove_smbios", "unmap")

Unmap ==
  /\ pc = "unmap" /\ pc' = "out"
  /\ held' = {}
  /\ UNCHANGED <<bios, dirs, files, store, making, reading>>

-----------------------------------------------------------------------------
(* Reads *)

NoFile == File("none", <<>>, 0, 0)

(* given and missed: bytes that came to the process, and that did not because *)
(* its page could not be written to.                                          *)
Closed == [st |-> "closed", file |-> NoFile, off |-> 0, given |-> 0, missed |-> 0, count |-> 0,
           text |-> FALSE]

Cooked(f) == f.dir = "cooked" \/ (f.dir = "smbios" /\ f.of # 0)

(* strlen(smbios_version_string): only the searches for an entry point fill   *)
(* it, and with EFI there is none.                                            *)
VersionLength == IF bios.kind = "efi" THEN 0 ELSE VersionSize

FileLength(f) == IF f.of = 0 THEN VersionLength
                 ELSE IF Cooked(f) THEN bios.table[f.of].text ELSE bios.table[f.of].size

Min2(a, b) == IF a < b THEN a ELSE b

Reading(r, value) == reader' = [reader EXCEPT ![r] = value]
Accessible(f) == f \in files /\ f.dir \notin Closing

Open(r) ==
  /\ reader[r].st \in {"closed", "done"} /\ ends < MaxEnds
  /\ \E f \in files : Accessible(f) /\ Reading(r, [Closed EXCEPT !.st = "open", !.file = f])
  /\ UNCHANGED <<bios, pc, held, dirs, files, store, making, scratch, ends>>

(* A read begins; a cooked file is cooked anew, if there is memory for it.    *)
ReadBegin(r) ==
  /\ reader[r].st = "open" /\ Accessible(reader[r].file)
  /\ \E n \in ReadCounts, memory \in BOOLEAN :
       /\ Reading(r, [reader[r] EXCEPT !.st = "reading", !.count = n,
                                       !.text = Cooked(reader[r].file) /\ memory])
       /\ scratch' = scratch + (IF Cooked(reader[r].file) /\ memory THEN 1 ELSE 0)
  /\ UNCHANGED <<bios, pc, held, dirs, files, store, making, ends>>

(* Mutant of Given: the end of the file is not looked at.                     *)
GivenPastEnd(count, off, length) == Min2(count, BlockSize)

Given(count, off, length) == Min2(Min2(count, length - off), BlockSize)

(* Mutant of NextOffset: the offset moves by what was asked for.              *)
OffsetAsAsked(s, n) == s.off + s.count

NextOffset(s, n) == s.off + n

(* Mutant of EndReached: the offset just behind the last byte is in the file. *)
EndPassed(off, length) == off > length

EndReached(off, length) == off >= length

(* Mutant of AfterCopy: the text is kept after the copy.                      *)
TextKept(s) == 0

(* kfree(scratch) of a cooked read.                                           *)
AfterCopy(s) == IF s.text THEN 1 ELSE 0

(* The length is 0 when a text could not be cooked: the reader takes that for *)
(* the end of the file.  At the end the text is not freed.  What copy_to_user *)
(* could not write is not looked at: the offset moves, and the process is     *)
(* told, as if all n bytes had come.                                          *)
ReadEnd(r) ==
  /\ reader[r].st = "reading"
  /\ LET s == reader[r]
         length == IF Cooked(s.file) /\ ~s.text THEN 0 ELSE FileLength(s.file)
         n == Given(s.count, s.off, length)
     IN \/ /\ EndReached(s.off, length)
           /\ Reading(r, [s EXCEPT !.st = "done", !.count = 0])
           /\ ends' = ends + (IF s.text THEN 1 ELSE 0)
           /\ UNCHANGED scratch
        \/ /\ ~EndReached(s.off, length)
           /\ \E m \in 0 .. n :
                Reading(r, [s EXCEPT !.st = "open", !.off = NextOffset(s, n), !.given = @ + n - m,
                                     !.missed = @ + m, !.count = 0, !.text = FALSE])
           /\ scratch' = scratch - AfterCopy(s)
           /\ UNCHANGED ends
  /\ UNCHANGED <<bios, pc, held, dirs, files, store, making>>

(* The file is gone: the kernel answers with an error.                        *)
ReadGone(r) ==
  /\ reader[r].st = "open" /\ ~Accessible(reader[r].file)
  /\ Reading(r, Closed)
  /\ UNCHANGED <<bios, pc, held, dirs, files, store, making, scratch, ends>>

-----------------------------------------------------------------------------
Init ==
  /\ bios \in Machines
  /\ pc = "out" /\ held = {} /\ dirs = {} /\ files = {}
  /\ cache = [d \in Dirs |-> {}] /\ listed = {}
  /\ next = <<1, 1>> /\ lost = 0
  /\ reader = [r \in Readers |-> Closed] /\ scratch = 0 /\ ends = 0

Load == InitModule \/ MapSegment \/ FindEntryPoint \/ MapEntryPoint \/ CheckEntryPoint
        \/ MapTable \/ MakeDirs \/ MakeVersionEntry \/ MakeFileEntries \/ Loaded

Unload == CleanupModule \/ Destroy \/ Unmap

Read(r) == ReadBegin(r) \/ ReadEnd(r) \/ ReadGone(r)

Next == Load \/ Unload \/ \E r \in Readers : Open(r) \/ Read(r)

Spec == Init /\ [][Next]_vars

(* A process that reads goes on until it is told the end, and an unload that  *)
(* has begun goes on when it is not held up by a read.                        *)
FairSpec == Spec /\ (\A r \in Readers : WF_vars(Read(r))) /\ WF_vars(Destroy \/ Unmap)

-----------------------------------------------------------------------------
(* Properties *)

(* Every variable holds a value of its type; an offset stays within its file. *)
TypeOK ==
  /\ bios \in Machines
  /\ pc \in {"out", "segment", "find", "entry", "check", "table", "mkdir_smbios", "mkdir_raw",
             "mkdir_cooked", "version", "files", "in", "remove_cooked", "remove_raw",
             "remove_smbios", "unmap"}
  /\ held \subseteq {"segment", "entry", "table"}
  /\ dirs \subseteq Dirs /\ listed \subseteq Dirs
  /\ \A d \in Dirs : cache[d] # {} => d \in listed
  /\ \A r \in Readers : /\ reader[r].st \in {"closed", "open", "reading", "done"}
                        /\ reader[r].st # "closed" => reader[r].off \in 0 .. FileLength(reader[r].file)
  /\ scratch \in Nat /\ ends \in Nat /\ lost \in 0 .. MaxLost

(* Whatever step of a load fails, and after every unload, nothing is left     *)
(* mapped, no directory or file stays and every registered name is freed.     *)
NothingLeft ==
  pc = "out" => held = {} /\ dirs = {} /\ files = {} /\ listed = {} /\ \A d \in Dirs : cache[d] = {}

(* When nothing was lost on the way, a loaded module shows every structure in *)
(* its three files, and no two files of a directory share a name.             *)
FilesComplete ==
  pc = "in" /\ lost = 0 =>
    /\ \A i \in DOMAIN bios.table, d \in Dirs :
         \E f \in files : f.dir = d /\ f.of = i /\ f.base = NameIn(d, bios.table[i])
    /\ \A f, g \in files : f.dir = g.dir /\ f.base = g.base /\ f.count = g.count => f = g

(* No read runs on a structure table that is no longer mapped.                *)
ReadsMapped ==
  \A r \in Readers : reader[r].st = "reading" => "table" \in held

(* When a reader is told the end, by a read that could cook its text, every   *)
(* byte of the file was in one of its reads, and came unless that read could  *)
(* not write to the page (bios.c:593, 888, 998 go on as if it had): none is   *)
(* skipped or read twice.                                                     *)
ReadsWhole ==
  \A r \in Readers :
    LET s == reader[r]
    IN s.st = "done" /\ (Cooked(s.file) => s.text) => s.given + s.missed = FileLength(s.file)

(* A text is held by a read in progress or was left by one that found the     *)
(* end: no other read keeps one.                                              *)
TextsAccounted ==
  scratch = ends + Cardinality({r \in Readers : reader[r].st = "reading" /\ reader[r].text})

(* A reader gets to the end of its file, or is told that it is gone.          *)
ReaderEnds == \A r \in Readers : reader[r].st = "open" ~> reader[r].st \in {"done", "closed"}

(* An unload that has begun ends: reads that keep being started cannot hold   *)
(* it up for ever.                                                            *)
UnloadEnds == pc = "remove_cooked" ~> pc = "out"

(* main.c:122-123 "first check for the smbios entry point. only if we can't   *)
(* find it we look for the proprietary dmi bios entry point": a machine with  *)
(* a DMI-BIOS is not turned away once its entry point is found.               *)
DmiBiosAccepted == [][pc = "check" /\ pc' = "out" => bios.kind # "dmi"]_vars

(* cooking.c:3682 "the caller is responsible to free the memory": no text is  *)
(* held when no read is in progress.                                          *)
CallerFrees ==
  (\A r \in Readers : reader[r].st # "reading") => scratch = 0
=============================================================================
