# Formal models of serverinstaller

This directory specifies parts of the repository in TLA+, checks them with TLC
on small instances and proves theorems about them with TLAPS. Paths are
relative to `src/`; `FJ` stands for `firmware_update/fujitsu/src`.

The repository is the tree a rescue system mounts to maintain servers: shell
scripts that update firmware and configure BMCs, the binaries they call, and
the sources of the kernel drivers those binaries need. The drivers hold the
state and the concurrency, so the models start there.

## Inventory

| component | state it keeps | operations | what is hard | what makes it correct |
|---|---|---|---|---|
| `FJ/sobbapi`: calls the BIOS for flash tools | one global `g_BApiInfo` (entry point, three buffers, two block lists) and the mapped F-segment | open, release, `IOCTL_DRV_BAPI_CALL` | everything is shared by all openers without a lock; allocations, mappings and copies fail in the middle; block sizes are halved on failure; the task priority of a CPU is raised | the BIOS gets valid memory of the promised size; nothing is leaked, freed twice or overrun; every call returns; a status tells the truth |
| `FJ/sobcmos`: reads and writes CMOS memory | the index port, `driver_lock` | read and write ioctls | two port accesses per byte, a lock per byte, an 8-bit index | a byte goes to or comes from the register that was asked for |
| `FJ/sobgabi`: UEFI GABI calls | the mapped GABI entry, buffers of one call | open, execute ioctl, module init and exit | descriptor lists of limited length, early exits before anything is initialised, user memory and the control buffer read twice | the list handed to the firmware is complete and terminated; all buffers are freed once |
| `FJ/smbios`: `/proc/smbios` | mappings, the structure table, lists of directory entries | module init and exit, readers | a ladder of clean-up labels for a dozen points of failure; numbering of names; reads while the module loads and unloads | after a failure nothing is left, after success every structure has its files; exit undoes init; a reader gets the whole file |
| `FJ/smbios`, `cooking.c`: the text of a structure | none between reads | one function per structure type | guards for the lengths of several SMBIOS versions, chains of ifs over the values of a member, lines and a text of fixed size filled without a look | no read behind the structure, no member left out, everything fits, each string is the one its number names |
| `FJ/sobdata`, `FJ/sobproc` | none | one ioctl each | partial failure | the status tells the truth |
| `firmware_update/*/src/amiwrap.c` (four copies) | an open count, the arguments of the ioctl as globals | open, release, ioctl, mmap | the single-open check is not atomic | at most one opener, so the globals have one user |
| `FJ/modules_installer.sh` | files of the installation, error level | build, install, load, remove | results tested too late | the level it exits with is that of the step that failed |
| `ipmi/intel/reset_intel.sh`, `ipmi/asus`, `ipmi/smi` | a BMC | reset and wait | waiting for a device that may not come back | the wait ends |
| `firmware_update/intel_s1200v3rp` | two BIOS halves and their versions | up to three runs with reboots in between | which half is flashed when | both halves end up current, no run flashes what it should not |
| `firmware_update/dell` | lock files, installed versions | update by item | test and touch of the lock; waiting for the controller | one update per item at a time; the wait ends |
| other update and IPMI scripts, helpers, benchmarks, images | none of their own | straight sequences around a vendor's tool | | |

The drivers do not call each other. Tools in user space call them through the
file operations of `FJ/_SHARED/Inc/sobmain.c`; concurrent calls of several
tools, or of one tool through several descriptors, meet in the globals of one
driver. Scripts load the drivers, call the tools and reboot.

`PROJECT.json` lists the components with their status and, under `hazards`,
each place where this code can go wrong in a way a test would hardly reach.

## Plan

The order is that of the behaviour that matters most: first the drivers that
hand memory to a BIOS, then the module whose files others read. All of it is
done.

1. `SobBapi`, with the abstract specification `BapiService` (runs `calls`,
   `shared`, `stale`, `scratch`, `input`; proofs, those about memory in a
   module of their own).
2. `SobCmos`, with the abstract specification `CmosRegisters` (run `ports`; proofs).
3. `SobGabi` (runs `gabi_calls`, `gabi_table`; proofs).
4. `SmbiosProc` (runs `smbios_files`, `smbios_dmi`, `smbios_texts`; proofs, those
   about names in a module of their own).
5. `SmbiosCook`, over `SmbiosTypes` (the layout of the structures) and
   `SmbiosStrings` (the widths of the texts) (run `cook`; proofs).

`Sums` has the sums of sequences that blocks, lists and texts are measured with,
and `Sums_proofs` their laws.

`MCSobBapi`, `MCSobCmos`, `MCSobGabi`, `MCSmbiosProc` and `MCSmbiosCook` give
the constants their values. The drivers share no state, so no module composes
them; `SmbiosProc` and `SmbiosCook` meet in the length of a cooked text, which is a
constant of the first and what the second computes.

What is left is listed under "Not modelled", with the reason.

## SobBapi: the BIOS-API driver

`SobBapi.tla` models open, release and the BAPI ioctl of `dispatch.c` and all
of `biosapi.c` behind them.

*State.* `segBase` is "`g_pucBiosSegBase` is not NULL". `hdr`, `required`,
`maxBlock`, `buf` and `map` are `g_BApiInfo`: whether there is an entry point
and an old version, `ulRequired`, `ulMaxBlockSize`, the three `ADDRESS_INFO`
and the two `PHYS_MAP_LIST`. `heap` is the kernel's memory: the size of each
allocated block; `list` is the flash map written into a block. `tpr` is each
CPU's task priority register, `files` the open files, `bios` what the machine's
F-segment holds. `pc` and `loc` are where each thread is and its locals:
arguments, loop counters, the pointer `pMapIn` or `pMapOut`, the values loaded
into the registers for the BIOS, the status. `fault` records the first misuse
of memory; the model goes on after it as a kernel does.

*Steps.* A step is the code between two places where the kernel can sleep or
where another CPU can observe a half-done change: `ioremap`, an allocation, a
copy to or from user space, the BIOS call, and in the clean-up between the free
of a block and the reset of its descriptor. Real preemption is finer; two CPUs
can interleave inside a step. What is proved or checked for several threads is
therefore stated over what each caller is told, and the two violations that
need two threads (`scratch`) or none (`stale`, `input`) do not depend on it.
The ioctl is registered as `unlocked_ioctl` on kernels that have it, so no
big lock serialises the calls.

*Data.* A block is a model value, and virtual and physical address are two
fields that hold it. Sizes are small numbers, not to scale and not always in the order
of the real ones: they are chosen so that each comparison of the code goes both
ways (a control buffer below the minimum and at it, blocks halved down to the
smallest, a list of blocks that fills up). The contents of the control buffer are left out, the success of the copy
of the caller's data is not. The version in the header counts only as "1.01 or
older", which is what `BiosApiCall` asks.

*Failure.* Each mapping, allocation and copy may fail at any time,
independently of how much memory is free. A NULL pointer that is written
through ends the thread (`oops`), which is why deadlock is not checked in these
runs: a killed task never returns.

*Actions and code.*

| actions | code |
|---|---|
| `DrvOpen`, `OpenMap`, `OpenClear`, `OpenRead`, `OpenTest` | `DrvOpen` |
| `DrvRelease`, `FreeMap`, `FreeBuffer`, `ClearBuffer` | `DrvRelease`, `BiosApiCleanUp` |
| `DrvDispatchIoctl`, `DrvBapiCall`, `AgainMap`, `AgainClear`, `AgainRead`, `PutStatus` | `DrvBapiCall` in `dispatch.c` |
| `ReadSignature` ... `CopyDataFromUser` | `BiosApiControl` up to its data, `BiosApiCtrlBuffersAlloc` |
| `BiosApiAllocBlocks` ... `BiosApiCopyDataToMap` | the flash maps: `BiosApiAllocBlocks`, `PhysBlkAllocBlocks` |
| `BiosApiCheckAccess` ... `BiosReturns` | the access check and `BiosApiCall` |
| `CopyToUser`, `Leave` | the results and `Leave_SkipCall` |

Left out: the I/O mappings of one call (one is lost at `biosapi.c:875`),
rounding of sizes to pages, module load and unload, debug output, the version
and test ioctls.

*Two kinds of properties.* With calls that follow one another (one thread) the
driver is expected to manage its memory: `NoMisuse`, `NothingHeld`,
`BuffersFit`, `FlashMapTrue`, `BlocksAccounted`, `PriorityRestored`,
`OpenHasEntry` and the liveness property `CallsReturn`. The invariants
among them are not claimed for callers that interleave, since everything is
shared and nothing is locked; `scratch` shows the way that contradicts a
comment. What does survive is
stated as the abstract specification `BapiService`: each request is executed
at most once, only for a member of the root group, `DRV_READY` is the answer to
a request for which the BIOS was called, and refusals come without a call.
`ServiceSpec` says that the driver implements it, with `phase` computed from
where a thread is, and `OpenNeedsApi` adds the state behind an open file.

## SobCmos: the CMOS driver

`SobCmos.tla` models the read and write ioctls down to single port accesses
under `driver_lock`; the memory behind the ports is external. `CmosRegisters`
is what callers may rely on: the accesses of a transfer happen one after the
other, each atomic and to the right register, and the transfer ends after the
last; a transfer of several bytes is not atomic. The refinement takes the write
to or read from the data port as the abstract access, and everything before and
after it as stuttering (`Made` counts an access as soon as it happened).

Assumed: nobody else uses the ports (the kernel's clock driver does, under a
lock of its own, outside this repository), and callers ask for no more bytes
than the driver's buffers hold (`RequestsAssumption`), since beyond that the
code has no defined behaviour.

## SobGabi: the GABI driver

`SobGabi.tla` models `sobgabimain.c` (load and unload), `dispatch.c` and all of
`gabi.c`: a call builds three buffers and up to two lists of pieces for the
firmware, copies the caller's data in, runs the BIOS and copies the answer out.

*State.* `bios`, `loaded`, `ep` and `open` are the module: a valid header in the
firmware, the module in the kernel, `g_pEP` (which points into a copy of the BIOS
code), the file: closed, open, or stale, that is open in a driver that has been
unloaded. `loc` holds the locals of `GabiExecute` and of what it calls:
`desc` the three buffer descriptors (garbage until they are filled in), `list`
the two tables of driver descriptors with the sizes of their pieces, `side`,
`left` and `seg` the loop of `BuildDescriptorList`, `u`, `ou`, `d`, `od`
the two cursors of the `...Ex` copies, `chunks` what the caller's list says at the
moment and `moved` whether that has changed since the copy began, `wrote` and `bytes` how far the answer
got and what is reported. `heap` is what is allocated, a block named by its
side and its place. `fault` is the first misuse of memory.

*Steps.* Calls share nothing but the entry point, which no call writes, so one
call at a time stands for all of them. A step is the code between two places that can
fail: an allocation, a copy, the BIOS. Each may fail at any time.

*User memory.* The two `...Ex` copies follow the caller's list where it lies
(`gabi.c:319-333`, `393-396`), and the answer of `UEFI_8205` reads `DataCount` there
(`647-655`), without `copy_from_user`. Another thread of the caller may change
either between two reads, or unmap it: `UserWrites` replaces the list during a copy,
`Answer8205` and `Copied` take a value of their own for each read of `DataCount`,
and `UserFault` is the access to a page that is not there, which a kernel dies of.

| actions | code |
|---|---|
| `Load`, `LocateAndMap`, `Unload` | `init_module`, `locate_and_map_gabi`, `cleanup_module`, at any time |
| `DrvOpen`, `DrvRelease`, `DrvGabiCall` | `dispatch.c` |
| `UseStale` | any system call for a file whose driver is gone |
| `UserWrites`, `UserFault` | the caller's other threads |
| `AllocateContiguousBuffer`, `CopyHeader` | the beginning of `GabiExecute` |
| `SetUpFlash`, `SetUpUefi`, `SetUpResponse`, `SetUpOther` | its first switch, one action for each way through it |
| `BuildTable`, `AllocateSegment`, `HalveSegment`, `Unbuild`, `Built` | `BuildDescriptorList`, `my_kmalloc`, `FreeBuffers` |
| `CopyFromUserToBuffers`, `CopyInEx`, `CopyChunk`, `ChunksDone` | the copies, plain and between two lists |
| `CallBios`, `AnswerUefi`, `Answer8205`, `AnswerRead`, `AnswerOther` | the call and the second switch, over the command the BIOS left behind |
| `CleanUp` | the label `cleanup` and `FreeBuffers` |

*Misuse of memory.* The code does misuse memory, and the model goes through the ways
it does. `FaultsExplained` says what must have happened before, and that no block is
freed twice:

| fault | only after |
|---|---|
| `past_table`: a place behind the table of a list is filled or looked at | a list of more bytes than `MaxSegs - 1` single pages hold |
| `wild_free`: a descriptor that was never filled in is freed | a buffer that could not be had |
| `overrun`: the request is copied with a wrapped length | a request that ends inside its first field |
| `null_list`: a list that was not built is followed | a BIOS that turned another command into `READ_SYS_DATA` |
| `user_memory`: unmapped user memory is read | `UEFI_8205`, from the caller or from the BIOS |
| `unloaded`: code of an unloaded driver runs | an unload while the file is open |

Outside a crash `BlocksAccounted` holds: the blocks of a call are those its
descriptors and lists name. After a crash the thread is gone, which is why deadlock is
not checked. `CursorsAgree` holds whatever is written into the caller's list, as far
as the driver's own list is concerned; that the caller's cursor stands at the same
byte is promised only to a caller that leaves its list alone (`~moved`).

The memory for the BIOS code that is left behind when the code cannot be mapped
(`sobgabimain.c:146`) or the device not be registered (`sobgabimain.c:179`) is not
counted: the next load begins with a pointer of its own.

## SmbiosProc: /proc/smbios

`SmbiosProc.tla` models `main.c` and `bios.c` as built for kernels from 3.10 on:
the ladder of `init_module`, the names and entries of the files, reads, and
`cleanup_module`.

*State.* `held` is what is mapped, `dirs` and `files` are the tree in `/proc`,
`cache` and `listed` are `proc_dir_cache` (names registered for a directory, and
which directories have an entry). `next` is the loop over the structures, three
files each. `reader` is each reading process: its file, offset, what it was
given, and whether its read holds a cooked text; `scratch` counts those texts.
`lost` and `ends` are counters with bounds: failures to make a file
(`MaxLost`) and reads at the end of a cooked file (`MaxEnds`).
What `copy_to_user` could not write is not looked at (`bios.c:593`, `888`, `998`), so
`ReadEnd` moves the offset by all of it and splits it in what was `given` and what was
`missed`; `ReadsWhole` is about their sum: no byte is skipped or read twice.
The text of the version is empty on an EFI machine, where nothing fills it
(`VersionLength`).

*Actions and code.* `InitModule` to `MapTable`, `MakeDirs`, `MakeVersionEntry`,
`MakeFileEntries` and `Loaded` are `init_module` step by step, `FailAt` its
labels; `CleanupModule`, `Destroy` and `Unmap` are `cleanup_module`; `Open`,
`ReadBegin`, `ReadEnd` and `ReadGone` the read functions and what procfs does
around them. A step of load and unload is the code between two calls of the kernel,
and reads happen between any two: a file is there from the moment it is created.

*Kernel, external.* `proc_create_data` refuses a name that is there;
`proc_remove` keeps new reads of the directory from starting, waits for the ones
in progress and takes the files away; a later read through an open descriptor fails.

*Names.* A name is a sequence of characters or words, because
`count_filename_instances` numbers a file by the registered names that begin
like it, as `64`, the name of type 64, begins `64bit_memory_error_information`, that of type 33.
`FilesComplete` says that this still gives different names; it holds
only as long as every name could be registered, which the property says.

## SmbiosCook: the text of a structure

`SmbiosCook.tla` models `cooking.c`: for each type the sequence of the members in the
order they are printed, each with the bytes it reads, the guard it stands
under, and its possible outcomes: how many lines, how long, of which string.
`Structure` is what a BIOS holds, with the positions of the zero bytes behind
its formatted part, which follow from the lengths of the strings (`StartOf`);
`GetString` walks them as the code does. A step of the
model is one line or one list of sub-lines, appended to the text. Offsets come
from `SmbiosTypes`, the packed members of `cooking.h`; widths from
`SmbiosStrings`, the longest text of each table of `strgdef.h`. The values and
the wording are abstracted, so an error in a value is not seen: below 1.1 V
the voltage shows a byte of the processor's ID (`cooking.c:1018`), and an
unknown state of the power supply shows that of the boot-up (`cooking.c:647`).

*Assumed of a BIOS.* `WellFormed` is what the code takes for granted and nothing in
it checks: a structure has one of the lengths that the versions of SMBIOS give to its
type (`Versions`), and strings of 1 to `MaxString` characters, of which
`StringAssumption` says that there are at most 64, the limit SMBIOS had before 2.7.
`Versions` matters: a length between two versions passes a guard before the last
member behind it is there, and the read would go over the end. Every other number
of the structure is any byte, the count of its strings or slots included.

*Long lists.* The lists of types 5, 10, 11, 12 and 13 are as long as the BIOS says
(`cooking.c:2617`, `2682`), up to 255, and the code does not look at the room: with
long strings a longer list overruns the buffer of 4096 bytes. `TextFits` therefore is
about lists of at most `Capacity` entries, each taking the most it can: 15 devices, 32 slots, or
36 strings, which is what type 13 has room for, whose lines are the longest. It says what the code can be relied on for, not that the overrun does
not happen: without the premise TLC finds it with 37 strings of 64 characters.

*Slots.* `SlotNumber` follows the type of the slot: `id1` is looked at for the types of
`Numbered`, `id2` for PCMCIA alone, and `NothingLeftOut` does not ask for them otherwise
(`Silent`).

*One line.* `OneLinePerMember` is about the chains of ifs (`Cases`), where each value of the
member, byte or word, is put through all of them; a `switch` has one line by its form.

## Runs

| run | threads and bounds | shows |
|---|---|---|
| `calls` | 1 thread, 1 file, 5 blocks, control sizes 1 and 2 of which 1 is too small, data sizes 0 and 5, with and without map, machines without API, without entry point and with an old one | all single-caller properties and `CallsReturn` |
| `shared` | 2 threads, 2 files, 1 block, no data, machines with and without API | `ServiceSpec`, `OpenNeedsApi` |
| `stale` | 1 thread, 3 blocks, no map | violated: `NoStaleAddress` |
| `scratch` | 2 threads, 2 files, 2 blocks | violated: `ScratchBigEnough` |
| `input` | 1 thread, 5 blocks, map | violated: `InputComplete` |
| `ports` | 2 threads, 2 registers, index modulo 4, transfers of up to 3 bytes | `IndexIsMine`, `TransfersSpec`, `TransferEnds`, no deadlock |
| `gabi_calls` | every command, every failure; request and response sizes around each size the code compares with; 3 places in a table, pages of 4096 bytes, blocks of at most 8192, unsigned numbers below 2^20, `DataCount` 0, 4098 and 12289, two chunk lists of the caller that replace each other during a copy, unload at any time | `BlocksAccounted`, `FaultsExplained`, `ListsHoldTheData`, `CursorsAgree`, `AnswerFits`, `CallsReturn` |
| `gabi_table` | the same | violated: `ListTerminated` |
| `smbios_files` | machines with SM-BIOS, EFI, a broken entry point, a DMI-BIOS, none; tables that are empty, with names that are beginnings of others, with a repeated type, with subtypes; 1 reader, blocks of 3 bytes, requests of 1 and 4 bytes, of which any part may not come | `NothingLeft`, `FilesComplete`, `ReadsMapped`, `ReadsWhole`, `TextsAccounted`, `ReaderEnds`, `UnloadEnds`, no deadlock |
| `smbios_dmi` | the same | violated: `DmiBiosAccepted` |
| `smbios_texts` | the same with 2 readers | violated: `CallerFrees` |
| `cook` | every type, in the lengths of the SMBIOS versions that define it and longer; lines of 128 bytes, a text of 4096; strings of up to 64 characters; lists of no, one and two entries, of as many as the buffer has room for, of one more and of (nearly) all a byte can count | `InsideStructure`, `LineFits`, `TextFits`, `NothingLeftOut`, `OneLinePerMember`, `StringsRight`, no deadlock |

*Why the bounds are enough.* `calls`: five blocks are the two flash maps, the
control buffer and two more, so a map can be allocated whole, in part, after
halving, or not at all; data of size 5 is larger than the largest block (4), so
the header block, the halving (4, 2, 1) and a full list of two
items all happen; a buffer of the previous call is met only within a call,
since `NothingHeld` holds between calls, and that makes longer sequences of calls repeat
states already reached. `shared`: the memory only adds failures to what callers
are told, so one block, which some calls get and others do not, is enough;
two files are needed for an open to clear the information under another
caller's call, and for the second initialisation in the ioctl to be reached.
`ports`: an index that wraps at four with two registers shows both the wrap of
the counter and the mask of the address; three bytes cross it.

`gabi_calls`: with three places in a table instead of 254, a list of two, of three and
of four pieces meets the room in the table, its end, and the place behind
it; the sizes include a request one byte too short for each field, which wraps
(2^20 is above every sum that occurs, as 2^32 is), and one of several pieces,
which is halved. The two chunk lists have an empty buffer each and
boundaries other than the driver's, and one is too short for the smaller count, so both
cursors move and either list can end first; when one replaces the other the offset
is within the new buffer or beyond it, where what is left of it wraps. `smbios_files`: files of up to five bytes in blocks of three are read in
one, two and more parts and asked for beyond the end; one failure to make a file and two texts
left behind show each case, and the counters change nothing else. `ReadsMapped`
and `ReadsWhole` are proved for any number of readers; what one reader does
depends on the others only through the directory that waits. `cook` takes
the sizes of the code itself.

Symmetry over threads, blocks and files is used in `shared` only, which checks
safety; `calls` and `ports` check liveness and use none.

*Fairness.* `SobBapi`: a step of a system call that has begun is taken
eventually (weak fairness of `Step`); nothing in the driver waits for another
thread, so this is only that the kernel runs its tasks. Nothing is assumed of
new calls. `SobCmos`: the same, and strong fairness of `SpinLock`, because the
kernel's spin locks (ticket and queued locks) serve waiters in order.
`SobGabi`: weak fairness of the steps of a call, which waits for nobody.
`SmbiosProc`: a process that reads goes on until it is told the end (weak
fairness of `Read(r)`, the loop of any reader), and an unload that has begun
goes on unless a read holds it up (weak fairness of `Destroy \/ Unmap`, the
kernel running the process). Load and new opens are not assumed.

## Findings

* `stale`: `PhysBlkFreeBlock` resets a descriptor's virtual address and size and
  keeps the physical address; a later call with no data passes it to the BIOS,
  although all sizes "may be 0" (`biosapi.c:381`).
* `scratch`: the control buffer that "may be randomly used by the BIOS services
  as a scratch buffer" (`dispatch.c:234`) can be freed by another caller's
  clean-up while the BIOS runs.
* `input`: a failed copy of the caller's data into the flash map is forgotten
  (`biosapi.c:683`, `688`), and the call continues to the BIOS and to `DRV_READY`.
* `gabi_table`: a list that needs every place of its table is not terminated,
  and one place more is written behind it (`gabi.c:278`), although
  "pMyDescr was cleared so no need for terminating" (`gabi.c:284`).
* `smbios_dmi`: a machine with a DMI-BIOS is turned away: the address of the
  SM-BIOS entry point is computed from an offset of -1 and is not 0
  (`main.c:143`), although the DMI-BIOS is what "we look for" if there is none
  (`main.c:122-124`).
* `smbios_texts`: a read at the end of a cooked file returns without freeing the
  text (`bios.c:988`), although "the caller is responsible to free the memory"
  (`cooking.c:3682`). Since every complete read ends there, each leaves 4096 bytes.

## Proofs

The theorems hold for every number of threads, files, CPUs, blocks, registers
and readers and for all sizes; the assumptions are the named `ASSUME`s of the
modules, which TLC evaluates in the runs.

*SobBapi.* `TypeCorrect` is type correctness; its invariant includes that a
thread's counter names one of the two maps where it is used to. The callers'
properties are not inductive: that `DRV_READY` implies a BIOS call needs to know
that no thread can be between the check and the answer without both. `CallInv`
says, for each part of the code (`OpenPcs`, `AskedPcs`, `CallPcs`, `CleanPcs`),
which call a thread is in there, that behind the access check the caller is in
the root group, and what stands behind a ready status. The argument goes through
`ThreadStep`: each of the thirty-odd actions changes at most its own thread and
either begins a call, advances it without touching its answer, runs the BIOS,
replies or ends it. `CallInv` is shown for those five kinds, and so is the
refinement of `BapiService`, where they are the abstract actions or stutter;
neither argument looks at the shared memory, which is why both hold without a
lock. `OpenCorrect` rests on one more invariant: an entry point in `hdr` is one
the machine has.

*SobBapiMemory.* The properties of the shared memory are proved for one thread that
makes all the calls (`Threads = {t}`), with any files, blocks and sizes. The
assumption is needed: with a second block and control buffers of two
sizes added to `SobBapi_shared.cfg` (two threads), TLC finds each of the five violated. `MemInv` has three parts. `Owned`: each
allocated block belongs to exactly one descriptor or list entry, which knows its
size; between the free of a buffer and the reset of its descriptor that one
descriptor names a free block (`Accounted`). `PlaceInv`: what the descriptors hold at
each place of a call: nothing before it and after it, the first
`k` buffers as the request asks for in `BiosApiCtrlBuffersAlloc`, all of them from there to
the answer, the lists gone before the buffers in the clean-up. `EntryInv`: an open
file implies an entry point, so an ioctl never sets the mapping up
again under itself. Only six kinds of step touch memory (`GiveBuffer`, `GiveEntry`,
`TakeEntries`, `FreeOwned`, `ForgetFreed`, `OwnedSame`); the actions are reduced to them.
`MisuseCorrect`, `CleanUpCorrect`, `AccountsCorrect`, `BuffersCorrect` and
`OpenHasEntryCorrect` follow.

`FlashMapsCorrect` is about what the lists say. `FlashInv` adds to `MemInv` that
a list written for the BIOS repeats the items of its `PHYS_MAP_LIST` (`Listed`),
that their sizes add up to what was allocated (`Spans`), that this is the size of the
data or the list is full, and that the first of several items is the header's.
`PriorityCorrect`, in `SobBapi_proofs`, needs one thread and one CPU: by `PriorityInv`
a priority is raised only from there to the end of the BIOS call, and the two conditions
under which it was raised are still those under which it is lowered. With a second CPU
in `SobBapi_calls.cfg` TLC finds `PriorityRestored` violated, since the task may move in between.

*SobCmos.* The inductive invariant `IInv` joins `TypeOK` with `IndexIsMine` and
with what is known of a request while it is being served (there is one, the
counter has not passed its end). `IndexCorrect` is its consequence;
`TransfersCorrect` shows that `InData` and `OutData` are the abstract access,
which needs `IndexIsMine` for the register and the invariant for the count, and
`TypeCorrect` is the first part of `IInv`.

*SobGabi.* `FileInv` is about the module: a call runs only through a file. For the blocks,
`BlocksAccounted` says nothing of what may be built next, so `OwnInv` adds
where each list and buffer can be: a list that is begun was not there
(`ListsAt`), the three buffers come in order and one that is unset follows one
that failed (`BuffersAt`). A step then adds to `heap` what it adds to
`Held`, or frees it, and `OwnershipCorrect` follows. Nothing is assumed there of the sizes but
that they are numbers, the field is no larger than a page and a page no larger than the
largest block.

What a call holds and answers needs the arithmetic, and one assumption more: even a
full table of the largest pieces is an unsigned number with room for the headers
(`TableAssumption`; 255 pieces of 4 MB in the code). `DataInv` says what the locals
are worth at each place of a call: a list that is done holds what was asked for, in
pieces of 1 to `MaxSpan` bytes (`ListAt`); in the loop of `BuildDescriptorList` what
the list holds and what is left make up what was asked for, and as long as something is
left a place of the table, or the one behind it, is free (`BuildAt`); the size of
the response is that of its list (`RespAt`); both cursors stand at the same
byte (`CursorAt`); no more was copied out than `OutSize` (`AnswerAt`). Of the cursors only the driver's
side is claimed at any time (`CursorAt`): each turn adds to what is done of the piece
what it takes from what is left, whatever the caller's list says at that moment. The
caller's side (`UserSide`) is kept by the turns and lost by `UserWrites`, which sets `moved`. In the last
the unsigned differences matter: a response that ends inside its headers asks for
almost 2^32 bytes, for which no table suffices, so the call fails before it
answers. `ListsCorrect`, `CursorsCorrect` and `AnswerCorrect` follow, and, with
what memory can look like (`MemoryInv`), `TypeCorrect`.

`FaultsCorrect` takes all of them and one more. That a full table was asked for more than
`MaxSegs - 1` pages needs to know how small the pieces get: `PagesInv` says that
every piece but the last of a list is a page at least, since `Half` gives up below a page, so
a list of `n` pieces was asked for more than `n - 1` pages (`FullTable`). A loop over a table
looks behind it only if the table is full. The other causes follow from where a call
stands: the garbage of a descriptor is freed only where an earlier buffer is null
(`BuffersAt`), and no step frees what is not in `heap`.

*SmbiosProc.* `IInv` says what there is at each place of load and unload
(`TreeInv`) and that a read in progress keeps its file in the tree (`ReadInv`);
`CleanUpCorrect` and `ReadsCorrect` follow, the second because files exist
only while the table is mapped. `WholeFiles` needs `RecInv`: what a reader was given
and what it missed make up its offset, the offset is within the file, and that of a reader
at the end is the file's length. The invariant for the readers uses that a file's number lies in the
table, the one of `ShapeInv`. `TextsCorrect` (each text is that of a read in progress or counted in
`ends`) needs `TextInv`, that the readers holding a
text are finitely many, since a step adds at most one: only then can the scratch memory be
said to be their number. `TypeCorrect` joins the three invariants.

*SmbiosNames.* `FilesCorrect` is about names, in `SmbiosNames_proofs`. Its invariant
`NamesInv` relates `cache` to `files`: a file of a structure has its name registered
(`FilesNamed`), and the number in it is below the count the next structure of
that name would get (`CountsBelow`). So the next file made is new (`Unique`), and
`AllShown` follows the loop through the table: behind it, every structure has
its files. All three fail once a registration was lost, hence `lost = 0`.

*SmbiosCook.* All properties of the run are proved, for any structures that are
`WellFormed` and strings of any length that `StringAssumption` allows; the sizes of lines,
buffer and texts are those of the code. Three things carry the proofs.

The *outcomes*: `Outs(s)` are the lines a structure may give rise to, `Items(s)` the
items made of them that read nothing behind it, and `Layout(s)` is shown to
be a sequence of such items, type by type. The guards need the offsets of
the members, which are sums of the sizes before them (`Laid`), and the lengths
of the versions. A chain of ifs prints one line if every value is in exactly one
branch (`Branch`). `CookInv` says that what was read is part of the structure, that
the items printed so far have been read, and that a text that is not empty is
complete when it is done; `InsideCorrect`, `LineCorrect` and `OneLineCorrect` follow,
and `NothingLeftOutCorrect` with `Covers`: the items of a layout together read every
member that lies `Within` the structure and is not `Silent`.

The *strings*: `StringsCorrect` is an induction over the strings that `GetString` walks.
Between two beginnings there is at least one character and a zero (`StartsApart`), and no zero
lies inside a string, so `strlen` measures it and the next step of the loop stands at the
next string or at the second zero.

The *sizes*: `Short(x, n)` says that an item prints at most `n` characters,
`Fits(q, n)` that the items of `q` have such bounds that add up to `n` at most. `LayoutFits`
adds the bounds up for each type, with as many entries as its list has, and shows that
`Capacity` keeps them below the buffer; `TextInv` counts that the text so far is no
longer than the bounds of the items before `next`, and `TextCorrect` follows.

*Sums and induction.* The induction theorems of the library take an operator as a
parameter, which the provers cannot instantiate. `Sums_proofs` goes another way: a set
of numbers that is not empty has a least element (from the library's `WFMin`), so
a set that has 0 and, with `m`, also `m + 1` is all of `Nat` (`NatSetInduction`). With
it the recursive function in `SumTo` is shown to exist and to be the only one, from which the
laws of sums follow (`SumNext`, `SumBound`, `TotalAppend`).

*Only model-checked:* the liveness properties `CallsReturn` (both), `TransferEnds`,
`ReaderEnds` and `UnloadEnds`: the prover has no rules for fairness and
`ENABLED`. Every other property of a passing run is stated by a theorem, those of
the shared memory and of the task priority for one caller, as said above.

## Not modelled

* *The files of a DMI-BIOS* (`smbios/Sources`, the `dmibios_*` functions): the load
  never reaches them (`smbios_dmi`), so no property of them would be about the program. Nor
  the branches of `main.c` and `bios.c` for kernels before 3.10, and the label
  `make_smbios_dir_entries_failed`: the functions whose result leads there return 0.
* *Unloading a driver while a file is open*, except in `SobGabi`, where it is a step and ends
  in a fault. None of the drivers names an owner in its file operations
  (`FJ/_SHARED/Inc/sobmain.c:64`); afterwards no code is left whose state could be described.
* *Lists of a structure that overrun the text, and strings of more than 64 characters* are
  in the model of `cooking.c` as far as the first, excused by `TextFits`, goes; what the bytes
  written behind the buffer do is not.
* *Calls into the BIOS that overlap.* Neither `sobbapi` nor `sobgabi` keeps two
  callers from being in the BIOS at once. What it does then is the vendor's.
* *The clock driver of the kernel*, which uses the CMOS ports under another lock.
* *`sobdata`, `sobproc`, registration of the drivers, the version and test
  ioctls*: handlers without state that outlives them, in which nothing interleaves.
* *`amiwrap.c`*: the counter it tests is plain, but the flash driver it protects is a
  binary object, so there is nothing a second opener could be shown to break.
* *The scripts* for BMCs, BIOS updates, Dell's packages, SSDs and RAID controllers: each is
  a sequence around a vendor's tool or a BMC. What they wait for, and what a
  flash leaves behind, is in no file of the repository; a model would make it up.
  The hazards seen in them are listed in `PROJECT.json` with that note.
* *Rescue system helpers, benchmarks, images, templates*: no state.

## Running

    tlc -workers 2 -config SobBapi_calls.cfg MCSobBapi.tla
    tlc -workers 2 -config SmbiosCook_text.cfg MCSmbiosCook.tla
    tlapm SobBapi_proofs.tla
    tlapm SmbiosCook_proofs.tla

`calls` and `shared` take under a minute each, the others less; the proofs of
`SmbiosCook_proofs` take about ten minutes, those of another module a few.
