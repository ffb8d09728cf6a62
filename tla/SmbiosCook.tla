----------------------------- MODULE SmbiosCook ------------------------------
(***************************************************************************)
(* The text behind a file of /proc/smbios/cooked: smbios/Sources/cooking.c *)
(* builds it line by line from one structure of the BIOS, and appends each *)
(* line to one buffer, without a look at the room that is left.            *)
(*                                                                         *)
(* A step is one line (or one list of sub-lines) of one member.  For every *)
(* type the layout is the sequence of the members in the order in which    *)
(* they are printed; each item names the bytes that are read and the       *)
(* possible outcomes: how many lines, how long, showing which member.      *)
(* Texts and numbers count by their greatest width.                        *)
(***************************************************************************)
EXTENDS SmbiosTypes, SmbiosStrings, SequencesExt

CONSTANTS
  Structures,   (* the structures a BIOS may hold                             *)
  MaxString     (* the longest string a BIOS stores                           *)

VARIABLES
  st,           (* the structure being read                                   *)
  pc,           (* "idle", "cook" while lines are appended, "done"            *)
  next,         (* the item of the layout to be printed next                  *)
  file,         (* the length of the text so far                              *)
  read,         (* the bytes of the structure looked at so far                *)
  line          (* what the last step printed                                 *)

vars == <<st, pc, next, file, read, line>>

-----------------------------------------------------------------------------
(* The strings behind the formatted part of a structure *)

Byte == 0 .. 255

(* line[] of every cooking function, and the text's buffer, BUFFER_SIZE.      *)
LineSize == 128
BufferSize == 4096

Null == -1

(* Where string k begins: behind the strings before it and their zeros.       *)
StartOf(strings, k) == SumTo(strings, k - 1) + k - 1

(* Offsets, from the end of the formatted part, of the bytes that are 0: one  *)
(* after each string and one more; two if there is no string.                 *)
Zeros(strings) ==
  {StartOf(strings, k + 1) - 1 : k \in DOMAIN strings}
    \union {StartOf(strings, Len(strings) + 1)}
    \union (IF strings = <<>> THEN {1} ELSE {})

(* The structure of type t, its length byte l, the byte n that decides which  *)
(* lines there are (number of slots or strings; the type of a system slot)    *)
(* and the lengths of its strings; with it the bytes of the members, as the C *)
(* type it is cast to has them.                                               *)
Structure(t, l, n, strings) ==
  [type |-> t, length |-> l, n |-> n, strings |-> strings, zeros |-> Zeros(strings),
   bytes |-> BytesOf(Members(t))]

(* The lengths that the versions of the SMBIOS specification give to a        *)
(* structure like s: what comes with a version is there as a whole.           *)
Versions(s) ==
  CASE s.type = 0  -> \h12 .. 255
    [] s.type = 1  -> {\h08} \union \h19 .. 255
    [] s.type = 2  -> \h08 .. 255
    [] s.type = 3  -> {\h09, \h0D} \union \h11 .. 255
    [] s.type = 4  -> {\h1A, \h20} \union \h23 .. 255
    [] s.type = 5  -> {2 * s.n + \h0F, 2 * s.n + \h10}
    [] s.type = 6  -> \h0C .. 255
    [] s.type = 7  -> {\h0F} \union \h13 .. 255
    [] s.type = 8  -> \h09 .. 255
    [] s.type = 9  -> \h0C .. 255
    [] s.type = 10 -> {HeaderSize + k * DeviceBytes : k \in 0 .. 125}
    [] s.type \in {11, 12} -> \h05 .. 255
    [] s.type = 13 -> \h16 .. 255
    [] s.type = 16 -> \h0F .. 255
    [] s.type = 17 -> {\h15, \h17} \union \h1B .. 255
    [] s.type = 19 -> \h0F .. 255
    [] s.type = 20 -> \h13 .. 255
    [] s.type = 32 -> \h0B .. 255
    [] OTHER       -> HeaderSize .. 255

strlen(s, p) == Min({q \in s.zeros : q >= p}) - p

(* Mutant of GetString: string 1 is skipped to reach string 1.                *)
GetStringFromZero(s, nr) ==
  LET Ptr[k \in 0 .. nr] ==
        IF k = 0 THEN 0
        ELSE LET p == Ptr[k - 1]
                 q == p + strlen(s, p) + 1
             IN IF p = Null \/ q \in s.zeros THEN Null ELSE q
  IN IF nr = 0 \/ {0, 1} \subseteq s.zeros THEN Null ELSE Ptr[nr]

(* Ptr[k] is where the loop stands when it has reached string k.              *)
GetString(s, nr) ==
  LET Ptr[k \in 1 .. nr] ==
        IF k = 1 THEN 0
        ELSE LET p == Ptr[k - 1]
                 q == p + strlen(s, p) + 1
             IN IF p = Null \/ q \in s.zeros THEN Null ELSE q
  IN IF nr = 0 \/ {0, 1} \subseteq s.zeros THEN Null ELSE Ptr[nr]

TextWidth(s, ptr) == IF ptr = Null THEN NullWidth ELSE strlen(s, ptr)

-----------------------------------------------------------------------------
(* Lines *)

(* "%-35s: text \n"; some lines end without the blank.                        *)
Line(w) == LabelWidth + 4 + w

(* "%-35s  > text \n", under a label                                          *)
SubLine(w) == LabelWidth + 6 + w

(* n lines that are len characters long together, none of them a string's.    *)
Lines(n, len, longest) == [n |-> n, len |-> len, line |-> longest, nr |-> 0, ptr |-> Null]

(* n lines of the same length.                                                *)
Out(n, len) == Lines(n, n * len, len)

Nothing == Out(0, 0)

Item(member, bytes, outs, once) ==
  [member |-> member, bytes |-> bytes, outs |-> outs, once |-> once]

(* A member of s that is always shown, with a text of width w.                *)
Plain(s, m, w) == Item(m, s.bytes[m], {Out(1, Line(w))}, TRUE)

(* A member that is shown only if it says something.                          *)
Optional(s, m, w) ==
  Item(m, s.bytes[m], {Out(1, Line(w)), Nothing}, FALSE)

(* A switch: the codes with a text, and the number itself for the others.     *)
Enum(s, m, range, codes, w) ==
  Item(m, s.bytes[m],
       IF range \subseteq codes THEN {Out(1, Line(w))} ELSE {Out(1, Line(w)), Out(1, Line(5))},
       TRUE)

(* A string, by its number.                                                   *)
StringOut(s, m, width, nr) ==
  LET ptr == GetString(s, nr)
  IN [Out(1, width + TextWidth(s, ptr)) EXCEPT !.nr = nr, !.ptr = ptr]

TextAt(s, m, bytes) ==
  Item(m, bytes,
       {StringOut(s, m, Line(0), nr) : nr \in {0, 1, Len(s.strings), Len(s.strings) + 1}},
       TRUE)

Text(s, m) == TextAt(s, m, s.bytes[m])

(* A bit field: a label, and a sub-line for each of the bits that is set.     *)
Label(m) == Item(m, {}, {Out(1, LabelWidth + 2)}, TRUE)

(* Mutant of BitLines: every line of the list repeats the padded label.       *)
BitLinesLabelled(m, bytes, bits, w) ==
  Item(m, bytes, {Out(k, LabelWidth + SubLine(w)) : k \in {0, bits}}, FALSE)

BitLines(m, bytes, bits, w) ==
  Item(m, bytes, {Out(k, SubLine(w)) : k \in {0, bits}}, FALSE)

Bits(s, m, bits, w) == <<Label(m), BitLines(m, s.bytes[m], bits, w)>>

(* Several ifs one after the other: each branch is <<values, width>>.         *)
Cases(s, m, values, branches, once) ==
  LET Count(v)  == Total([i \in DOMAIN branches |->
                            IF v \in branches[i][1] THEN 1 ELSE 0])
      Length(v) == Total([i \in DOMAIN branches |->
                            IF v \in branches[i][1] THEN Line(branches[i][2]) ELSE 0])
  IN Item(m, s.bytes[m],
          {Lines(Count(v), Length(v), Length(v)) : v \in values},
          once)

(* Digits of a number of so many bytes, and of a power of two: %d of an       *)
(* unsigned int that wraps.                                                   *)
Digits(bytes) == CASE bytes = 1 -> 3 [] bytes = 2 -> 5 [] bytes = 4 -> 10
pow2 == 11

Header(s) ==
  << Item("header", {0}, {Out(1, Line(Digits(1) + 1 + NameWidth))}, TRUE),
     Item("header", {1}, {Out(1, Line(Digits(1) + UnitWidth))}, TRUE),
     Item("header", {2, 3}, {Out(1, Line(Digits(2) + 1))}, TRUE) >>

(* What a BIOS keeps to: the lengths of a version, and strings of at most     *)
(* MaxString characters.  Numbers are those that a byte can hold.             *)
WellFormed(s) ==
  /\ s = Structure(s.type, s.length, s.n, s.strings)
  /\ s.type \in Byte
  /\ s.length \in Byte \intersect Versions(s)
  /\ s.n \in Byte
  /\ s.strings \in Seq(1 .. MaxString)

ASSUME StructuresAssumption == \A s \in Structures : WellFormed(s)

(* SMBIOS specifications before 2.7 limit a string to 64 characters; the code *)
(* does not look.                                                             *)
ASSUME StringAssumption == MaxString \in 0 .. 64

-----------------------------------------------------------------------------
(* Types 0 to 3 *)

BiosCharacteristics(s) == Bits(s, "characteristics", 32, Words0.characteristics)

BiosExtensions(s) ==
  (IF s.length > \h12 THEN <<BitLines("ext1", s.bytes.ext1, 8, Words0.ext1)>> ELSE <<>>)
  \o (IF s.length > \h13 THEN <<BitLines("ext2", s.bytes.ext2, 2, Words0.ext2)>> ELSE <<>>)

Type0(s) ==
  << Text(s, "vendor"), Text(s, "version"), Plain(s, "startaddr", 4), Text(s, "reldate"),
     Plain(s, "romsize", Digits(2) + UnitWidth) >>
  \o BiosCharacteristics(s) \o BiosExtensions(s)

(* Mutant of Type1: the guard of the later members is one too strict.         *)
Type1Strict(s) ==
  << Text(s, "manufacturer"), Text(s, "productname"), Text(s, "version"),
     Text(s, "serialnumber") >>
  \o IF s.length > \h19
     THEN <<Plain(s, "uuid", 48), Enum(s, "wakeuptype", Byte, 0 .. 8, Words1.wakeuptype)>>
     ELSE <<>>

Type1(s) ==
  << Text(s, "manufacturer"), Text(s, "productname"), Text(s, "version"),
     Text(s, "serialnumber") >>
  \o IF s.length > \h08
     THEN <<Plain(s, "uuid", 48), Enum(s, "wakeuptype", Byte, 0 .. 8, Words1.wakeuptype)>>
     ELSE <<>>

Type2(s) ==
  << Text(s, "manufacturer"), Text(s, "product"), Text(s, "version"), Text(s, "serialnumber") >>

EnclosureStates(s) ==
  << Enum(s, "bootup_state", Byte, 1 .. 6, Words3.state),
     Enum(s, "pwr_supply_state", Byte, 1 .. 6, Words3.state),
     Enum(s, "thermal_state", Byte, 1 .. 6, Words3.state),
     Enum(s, "security_state", Byte, 1 .. 5, Words3.security) >>

Type3(s) ==
  << Text(s, "manufacturer"), Text(s, "version"), Text(s, "serialnumber"), Text(s, "asset_tag"),
     Plain(s, "type", Words3.lock), Enum(s, "type", 0 .. 127, 1 .. 24, Words3.type) >>
  \o (IF s.length > \h09 THEN EnclosureStates(s) ELSE <<>>)
  \o (IF s.length > \h0D THEN <<Plain(s, "oem_defined", 10)>> ELSE <<>>)

-----------------------------------------------------------------------------
(* Type 4, a processor *)

ProcessorFamilies ==
  (1 .. 39) \union (48 .. 55) \union (64 .. 69) \union (80 .. 88) \union (96 .. 101)
    \union {112, 120, 121, 128, 130} \union (144 .. 150) \union {160} \union (176 .. 183)
    \union (200 .. 202) \union {250, 251, 260, 261, 280, 281, 300, 301, 302, 320, 350, 500}

CurrentVoltage == {Out(1, Line(6))}

Voltages ==
  {Lines(1, LabelWidth + 2 + k * SubLine(Words4.voltage), SubLine(Words4.voltage)) : k \in 0 .. 3}

ProcessorVoltage(s) ==
  << Item("voltage", s.bytes.voltage, CurrentVoltage \union Voltages, TRUE) >>

ProcessorSpeeds(s) ==
  << Optional(s, "external_clock", Digits(2) + UnitWidth),
     Optional(s, "max_speed", Digits(2) + UnitWidth),
     Optional(s, "current_speed", Digits(2) + UnitWidth) >>

ProcessorCaches(s) ==
  IF s.length > \h1A
  THEN << Optional(s, "l1_cache_handle", Digits(2)), Optional(s, "l2_cache_handle", Digits(2)),
          Optional(s, "l3_cache_handle", Digits(2)) >>
  ELSE <<>>

ProcessorTexts(s) ==
  IF s.length > \h20
  THEN <<Text(s, "serialnumber"), Text(s, "asset_tag"), Text(s, "part_number")>>
  ELSE <<>>

Type4(s) ==
  << Text(s, "socket_designation"), Enum(s, "type", Byte, 1 .. 6, Words4.type),
     Enum(s, "family", Byte, ProcessorFamilies, Words4Family), Text(s, "manufacturer"),
     Plain(s, "id", 24), Text(s, "version") >>
  \o ProcessorVoltage(s) \o ProcessorSpeeds(s)
  \o << Enum(s, "status", 0 .. 7, (0 .. 4) \union {7}, Words4.status),
        Plain(s, "status", Words4.socket),
        Enum(s, "upgrade", Byte, 1 .. 15, Words4.upgrade) >>
  \o ProcessorCaches(s) \o ProcessorTexts(s)

-----------------------------------------------------------------------------
(* Types 5 to 7, memory controller, memory module and cache *)

ControllerSpeeds(s) ==
  Bits(s, "supported_speeds", 5, Words5.speeds)

ControllerTypes(s) ==
  Bits(s, "supported_types", 11, Words5.types) \o Bits(s, "voltage", 3, Words5.voltage)

(* The low byte of each handle.                                               *)
SlotHandles(s) ==
  << Plain(s, "nr_assoc_slots", Digits(1) + 7), Label("handles") >>
  \o [i \in 1 .. s.n |->
        Item("handles", {\h0F + 2 * (i - 1)}, {Out(1, SubLine(7 + Digits(1)))}, TRUE)]

(* Mutant of EnabledEcc: the last byte is looked for behind the structure.    *)
EnabledEccBehind(s) ==
  IF s.length = 2 * s.n + 16
  THEN << Label("enabled_ecc"), BitLines("enabled_ecc", {2 * s.n + 16}, 6, Words5.ecc) >>
  ELSE <<>>

EnabledEcc(s) ==
  IF s.length = 2 * s.n + 16
  THEN << Label("enabled_ecc"), BitLines("enabled_ecc", {2 * s.n + \h0F}, 6, Words5.ecc) >>
  ELSE <<>>

Type5(s) ==
  << Enum(s, "error_detection", Byte, 1 .. 8, Words5.detection) >>
  \o Bits(s, "ecc", 6, Words5.ecc)
  \o << Enum(s, "supported_interleave", Byte, 1 .. 7, Words5.interleave),
        Enum(s, "current_interleave", Byte, 1 .. 7, Words5.interleave),
        Plain(s, "max_mem_module_size", pow2 + UnitWidth) >>
  \o ControllerSpeeds(s) \o ControllerTypes(s) \o SlotHandles(s) \o EnabledEcc(s)

(* 7Fh, 7Eh and 7Dh stand for a text, what is below for a size.               *)
BankSize(s, m) ==
  << Plain(s, m, Words6.size),
     Cases(s, m, 0 .. \h7F,
           << <<{\h7F}, Words6.size>>, <<{\h7E}, Words6.size>>, <<{\h7D}, Words6.size>>,
              <<0 .. \h7C, pow2 + UnitWidth>> >>, TRUE) >>

Type6(s) ==
  << Text(s, "designation"), Plain(s, "connection", 7),
     Optional(s, "current_speed", Digits(1) + UnitWidth) >>
  \o Bits(s, "current_type", 11, Words6.types)
  \o BankSize(s, "installed_size") \o BankSize(s, "enabled_size")
  \o Bits(s, "status", 3, Words6.status)

CacheConfiguration(s) ==
  << Enum(s, "configuration", 0 .. 3, 0 .. 3, Words7.mode),
     Enum(s, "configuration", 0 .. 1, 0 .. 1, Words7.enabled),
     Enum(s, "configuration", 0 .. 3, 0 .. 3, Words7.location),
     Enum(s, "configuration", 0 .. 1, 0 .. 1, Words7.enabled),
     Plain(s, "configuration", 1) >>

CacheKind(s) ==
  IF s.length > \h0F
  THEN << Optional(s, "speed", Digits(1) + UnitWidth),
          Enum(s, "ecc_type", Byte, 1 .. 6, Words7.ecc),
          Enum(s, "cache_type", Byte, 1 .. 5, Words7.type),
          Enum(s, "associativity", Byte, 1 .. 8, Words7.associativity) >>
  ELSE <<>>

Type7(s) ==
  << Text(s, "designation") >> \o CacheConfiguration(s)
  \o << Plain(s, "max_size", 7 + UnitWidth), Plain(s, "installed_size", 7 + UnitWidth) >>
  \o Bits(s, "supported_sram", 7, Words7.sram) \o Bits(s, "current_sram", 7, Words7.sram)
  \o CacheKind(s)

-----------------------------------------------------------------------------
(* Types 8 and 9, port and slot *)

Connectors == (0 .. 33) \union (160 .. 164) \union {255}

PortTypes == (0 .. 31) \union {160, 161, 255}

Type8(s) ==
  << Text(s, "internal_designation"), Enum(s, "internal_type", Byte, Connectors, Words8Connector),
     Text(s, "external_designation"), Enum(s, "external_type", Byte, Connectors, Words8Connector),
     Enum(s, "type", Byte, PortTypes, Words8Port) >>

(* The types of a slot (MCA, EISA, PCI with AGP and PCI-X, PCMCIA) for which  *)
(* id1 is looked at, and for which id2 is.                                    *)
Numbered == {4, 5, 6, 7} \union 15 .. 18
Socketed == {7}

(* The number of an MCA or EISA slot is shown only if it is not 0.            *)
SlotNumber(s) ==
  (IF s.n \notin Numbered THEN <<>>
   ELSE IF s.n \in {4, 5} THEN <<Optional(s, "id1", Digits(1))>>
   ELSE <<Plain(s, "id1", Digits(1))>>)
  \o IF s.n \in Socketed THEN <<Plain(s, "id2", Digits(1))>> ELSE <<>>

SlotCharacteristics(s) ==
  Bits(s, "characteristics1", 8, Words9.characteristics)
  \o IF s.length > \h0C
     THEN <<BitLines("characteristics2", s.bytes.characteristics2, 3, Words9.characteristics)>>
     ELSE <<>>

Type9(s) ==
  << Text(s, "designation"),
     Enum(s, "type", {s.n}, (1 .. 18) \union (160 .. 164), Words9.type),
     Enum(s, "width", Byte, 1 .. 7, Words9.width), Enum(s, "usage", Byte, 1 .. 4, Words9.usage),
     Enum(s, "length", Byte, 1 .. 4, Words9.length) >>
  \o SlotNumber(s) \o SlotCharacteristics(s)

-----------------------------------------------------------------------------
(* Types 10 to 13, lists of devices and strings *)

(* Mutant of nr_of_devices: every byte counts as a device.                    *)
nr_of_bytes(s) == s.length - HeaderSize

nr_of_devices(s) == (s.length - HeaderSize) \div DeviceBytes

Device(s, i) ==
  LET at == HeaderSize + (i - 1) * DeviceBytes
  IN << Item("type", {at}, {Out(1, Line(Digits(1)))}, TRUE),
        Item("type", {at}, {Out(1, Line(Words10.status))}, TRUE),
        Item("type", {at}, {Out(1, Line(Words10.type))}, TRUE),
        TextAt(s, "description", {at + 1}) >>

Type10(s) == FlattenSeq([i \in 1 .. nr_of_devices(s) |-> Device(s, i)])

(* As many strings as the structure says, by their positions.                 *)
Strings(s, width) ==
  << Item("nr_of_strings", s.bytes.nr_of_strings, {Nothing}, FALSE) >> \o
  [i \in 1 .. s.n |-> Item("string", {}, {StringOut(s, "string", width, i)}, TRUE)]

(* "text %d" padded to 35, ": text\n".                                        *)
Type11(s) == Strings(s, LabelWidth + 3)
Type12(s) == Strings(s, LabelWidth + 3)

Type13(s) ==
  << Label("string") >> \o Strings(s, SubLine(0)) \o << Text(s, "current_language") >>

-----------------------------------------------------------------------------
(* Types 16 to 20, memory *)

(* The greatest word, FFFFh.                                                  *)
WordMax == 256 * 256 - 1

(* Mutant of ErrorHandle: the last condition overlaps the one before it.      *)
ErrorHandleOverlap(s, w) ==
  Cases(s, "error_handle", 0 .. WordMax,
        << <<{WordMax - 1}, w>>, <<{WordMax}, w>>, <<0 .. WordMax - 1, w>> >>, TRUE)

ErrorHandle(s, w) ==
  Cases(s, "error_handle", 0 .. WordMax,
        << <<{WordMax - 1}, w>>, <<{WordMax}, w>>, <<0 .. WordMax - 2, w>> >>, TRUE)

Type16(s) ==
  << Enum(s, "location", Byte, (1 .. 10) \union (160 .. 164), Words16.location),
     Enum(s, "use", Byte, 1 .. 7, Words16.use), Enum(s, "ecc", Byte, 1 .. 7, Words16.ecc),
     Plain(s, "max_capacity", Digits(4) + UnitWidth), ErrorHandle(s, Words16.error),
     Plain(s, "nr_of_devices", Digits(2)) >>

DeviceSize(s) ==
  << Plain(s, "total_width", Digits(2) + UnitWidth), Plain(s, "data_width", Digits(2) + UnitWidth),
     Cases(s, "size", 0 .. WordMax,
           << <<{0}, Words17.size>>, <<{WordMax}, Words17.unknown>>,
              <<1 .. WordMax - 1, Digits(2) + UnitWidth>> >>, TRUE) >>

DeviceSet(s) ==
  << Cases(s, "device_set", Byte,
           << <<{0}, Words17.set>>, <<{\hFF}, Words17.unknown>>, <<1 .. \hFE, Digits(1)>> >>, TRUE) >>

TypeDetail(s) == Bits(s, "type_detail", 13, Words17.detail)

DeviceTexts(s) ==
  (IF s.length > \h15 THEN <<Optional(s, "speed", Digits(2) + UnitWidth)>> ELSE <<>>)
  \o IF s.length > \h17
     THEN << Text(s, "manufacturer"), Text(s, "serial_number"), Text(s, "asset_tag"),
             Text(s, "part_number") >>
     ELSE <<>>

Type17(s) ==
  << Plain(s, "memory_array_handle", Digits(2)), ErrorHandle(s, Words17.error) >>
  \o DeviceSize(s)
  \o << Enum(s, "form_factor", Byte, 1 .. 14, Words17.form) >> \o DeviceSet(s)
  \o << Text(s, "device_locator"), Text(s, "bank_locator"),
        Enum(s, "mem_type", Byte, 1 .. 18, Words17.type) >>
  \o TypeDetail(s) \o DeviceTexts(s)

Type19(s) ==
  << Plain(s, "starting_adr", 10), Plain(s, "ending_adr", 10),
     Plain(s, "mem_array_handle", Digits(2)), Plain(s, "partition_width", Digits(1)) >>

(* A partition row position of 0 has no line.                                 *)
Interleaving(s) ==
  LET special == << <<{0}, Words20.position>>, <<{\hFF}, Words20.unknown>>,
                    <<1 .. \hFE, Digits(1)>> >>
  IN << Cases(s, "partition_row_position", Byte, Tail(special), FALSE),
        Cases(s, "interleave_position", Byte, special, TRUE),
        Cases(s, "interleaved_data_depth", Byte, special, TRUE) >>

Type20(s) ==
  << Plain(s, "starting_adr", 10), Plain(s, "ending_adr", 10),
     Plain(s, "mem_dev_handle", Digits(2)),
     Plain(s, "mem_array_mapped_adr_handle", Digits(2)) >>
  \o Interleaving(s)

Type32(s) == << Enum(s, "status", Byte, 0 .. 8, Words32) >>

Type127(s) == << Item("header", {}, {Out(1, Line(Words127 + 1))}, TRUE) >>

NotSupported(s) ==
  << Item("header", {}, {Out(1, NotSupportedWidth + 3)}, TRUE) >>

-----------------------------------------------------------------------------
(* bios_cook *)

Layout(s) ==
  Header(s) \o
  CASE s.type = 0  -> Type0(s)  [] s.type = 1  -> Type1(s)  [] s.type = 2   -> Type2(s)
    [] s.type = 3  -> Type3(s)  [] s.type = 4  -> Type4(s)  [] s.type = 5   -> Type5(s)
    [] s.type = 6  -> Type6(s)  [] s.type = 7  -> Type7(s)  [] s.type = 8   -> Type8(s)
    [] s.type = 9  -> Type9(s)  [] s.type = 10 -> Type10(s) [] s.type = 11  -> Type11(s)
    [] s.type = 12 -> Type12(s) [] s.type = 13 -> Type13(s) [] s.type = 16  -> Type16(s)
    [] s.type = 17 -> Type17(s) [] s.type = 19 -> Type19(s) [] s.type = 20  -> Type20(s)
    [] s.type = 32 -> Type32(s) [] s.type = 127 -> Type127(s) [] OTHER -> NotSupported(s)

Layouts == [s \in Structures |-> Layout(s)]

NoLine == [member |-> "none", once |-> FALSE, out |-> Nothing]

Init ==
  /\ st \in Structures
  /\ pc = "idle" /\ next = 1 /\ file = 0 /\ read = {} /\ line = NoLine

(* A read of the file allocates the buffer and cooks the structure anew.      *)
Begin ==
  /\ pc = "idle"
  /\ pc' = "cook"
  /\ UNCHANGED <<st, next, file, read, line>>

(* Without memory for the buffer there is no text.                            *)
BeginFails ==
  /\ pc = "idle"
  /\ pc' = "done"
  /\ UNCHANGED <<st, next, file, read, line>>

Show ==
  /\ pc = "cook"
  /\ LET items == Layouts[st]
         item  == items[next] IN
     /\ next <= Len(items)
     /\ \E out \in item.outs :
          /\ line' = [member |-> item.member, once |-> item.once, out |-> out]
          /\ file' = file + out.len
     /\ read' = read \union item.bytes
  /\ next' = next + 1
  /\ UNCHANGED <<st, pc>>

Finish ==
  /\ pc = "cook"
  /\ next > Len(Layouts[st])
  /\ pc' = "done"
  /\ line' = NoLine
  /\ UNCHANGED <<st, next, file, read>>

(* Mutant of Free: the next text begins in front of its first line.           *)
FreeFromZero ==
  /\ pc = "done"
  /\ pc' = "idle" /\ next' = 0 /\ file' = 0 /\ read' = {}
  /\ UNCHANGED <<st, line>>

(* The reader has its part of the text and frees the buffer.                  *)
Free ==
  /\ pc = "done"
  /\ pc' = "idle" /\ next' = 1 /\ file' = 0 /\ read' = {}
  /\ UNCHANGED <<st, line>>

Next == Begin \/ BeginFails \/ Show \/ Finish \/ Free

Spec == Init /\ [][Next]_vars

-----------------------------------------------------------------------------
(* Properties *)

(* Every variable has its type.                                               *)
TypeOK ==
  /\ st.type \in Byte /\ st.length \in Byte
  /\ pc \in {"idle", "cook", "done"}
  /\ next \in Nat \ {0}
  /\ file \in Nat
  /\ read \subseteq Nat
  /\ line.out.n \in Nat

(* No cooking function looks behind the formatted part of the structure: what *)
(* a version of the BIOS does not have yet is behind the guard of its length. *)
InsideStructure == read \subseteq 0 .. st.length - 1

(* A line, with its final 0, fits the buffer of one line.                     *)
LineFits == line.out.line < LineSize

(* The entries of the list of a structure, and how many strings, devices and  *)
(* slots the buffer has room for if each of them takes the most it can.       *)
Entries(s) ==
  CASE s.type = 10 -> (s.length - HeaderSize) \div DeviceBytes
    [] s.type \in {5, 11, 12, 13} -> s.n
    [] OTHER -> 0

MaxStrings == 36
MaxDevices == 15
MaxSlots == 32

Capacity(s) ==
  CASE s.type = 5 -> MaxSlots [] s.type = 10 -> MaxDevices [] OTHER -> MaxStrings

(* The text, with its final 0, fits the buffer that bios_cook allocates,      *)
(* unless its structure has a list that is longer than the buffer has room    *)
(* for: cooking.c:2617 and 2682 and the other lists take what the BIOS says.  *)
TextFits == Entries(st) <= Capacity(st) => file < BufferSize

(* Members no line is made of: reserved ones, the format of the languages and *)
(* the numbers that a slot of its type does not have.                         *)
Silent(s) ==
  CASE s.type = 13 -> {"flags", "reserved"} [] s.type = 32 -> {"reserved"}
    [] s.type = 9  -> (IF s.n \in Numbered THEN {} ELSE {"id1"})
                      \union (IF s.n \in Socketed THEN {} ELSE {"id2"})
    [] OTHER -> {}

(* When the text is complete, every member that the structure is long enough  *)
(* to have has been looked at: no guard of a later version hides one.  Type   *)
(* 10 repeats its members.                                                    *)
NothingLeftOut ==
  pc = "done" /\ file > 0 /\ st.type # 10 =>
    \A m \in DOMAIN st.bytes \ Silent(st) :
      st.bytes[m] \subseteq 0 .. st.length - 1 => st.bytes[m] \subseteq read

(* A member that always says something says it on exactly one line: the       *)
(* chains of ifs leave no value out and take none twice.                      *)
OneLinePerMember == line.once => line.out.n = 1

(* The string shown for number nr is the nr-th of those behind the structure, *)
(* and none if there are not so many (or nr is 0).                            *)
StringsRight ==
  LET nr == line.out.nr IN
    line.out.ptr = IF nr \in DOMAIN st.strings THEN StartOf(st.strings, nr) ELSE Null
=============================================================================
