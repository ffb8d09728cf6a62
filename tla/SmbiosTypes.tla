----------------------------- MODULE SmbiosTypes -----------------------------
(***************************************************************************)
(* The structures of smbios/Sources/cooking.h: their members in order, as  *)
(* <<name, bytes>>.  Every member is packed, so an offset is the sum of    *)
(* the sizes before it.                                                    *)
(***************************************************************************)
EXTENDS Integers, Sequences, Sums

smbios_header == <<<<"type", 1>>, <<"length", 1>>, <<"handle", 2>>>>

smbios_type_0 ==
  << <<"vendor", 1>>, <<"version", 1>>, <<"startaddr", 2>>, <<"reldate", 1>>,
     <<"romsize", 1>>, <<"characteristics", 8>>, <<"ext1", 1>>, <<"ext2", 1>> >>

smbios_type_1 ==
  << <<"manufacturer", 1>>, <<"productname", 1>>, <<"version", 1>>,
     <<"serialnumber", 1>>, <<"uuid", 16>>, <<"wakeuptype", 1>> >>

smbios_type_2 ==
  << <<"manufacturer", 1>>, <<"product", 1>>, <<"version", 1>>, <<"serialnumber", 1>> >>

smbios_type_3 ==
  << <<"manufacturer", 1>>, <<"type", 1>>, <<"version", 1>>, <<"serialnumber", 1>>,
     <<"asset_tag", 1>>, <<"bootup_state", 1>>, <<"pwr_supply_state", 1>>,
     <<"thermal_state", 1>>, <<"security_state", 1>>, <<"oem_defined", 4>> >>

smbios_type_4 ==
  << <<"socket_designation", 1>>, <<"type", 1>>, <<"family", 1>>, <<"manufacturer", 1>>,
     <<"id", 8>>, <<"version", 1>>, <<"voltage", 1>>, <<"external_clock", 2>>,
     <<"max_speed", 2>>, <<"current_speed", 2>>, <<"status", 1>>, <<"upgrade", 1>>,
     <<"l1_cache_handle", 2>>, <<"l2_cache_handle", 2>>, <<"l3_cache_handle", 2>>,
     <<"serialnumber", 1>>, <<"asset_tag", 1>>, <<"part_number", 1>> >>

smbios_type_5 ==
  << <<"error_detection", 1>>, <<"ecc", 1>>, <<"supported_interleave", 1>>,
     <<"current_interleave", 1>>, <<"max_mem_module_size", 1>>, <<"supported_speeds", 2>>,
     <<"supported_types", 2>>, <<"voltage", 1>>, <<"nr_assoc_slots", 1>> >>

smbios_type_6 ==
  << <<"designation", 1>>, <<"connection", 1>>, <<"current_speed", 1>>,
     <<"current_type", 2>>, <<"installed_size", 1>>, <<"enabled_size", 1>>, <<"status", 1>> >>

smbios_type_7 ==
  << <<"designation", 1>>, <<"configuration", 2>>, <<"max_size", 2>>, <<"installed_size", 2>>,
     <<"supported_sram", 2>>, <<"current_sram", 2>>, <<"speed", 1>>, <<"ecc_type", 1>>,
     <<"cache_type", 1>>, <<"associativity", 1>> >>

smbios_type_8 ==
  << <<"internal_designation", 1>>, <<"internal_type", 1>>, <<"external_designation", 1>>,
     <<"external_type", 1>>, <<"type", 1>> >>

smbios_type_9 ==
  << <<"designation", 1>>, <<"type", 1>>, <<"width", 1>>, <<"usage", 1>>, <<"length", 1>>,
     <<"id1", 1>>, <<"id2", 1>>, <<"characteristics1", 1>>, <<"characteristics2", 1>> >>

(* One device; the structure repeats it.                                      *)
smbios_type_10 == << <<"type", 1>>, <<"description", 1>> >>

smbios_type_11 == << <<"nr_of_strings", 1>> >>
smbios_type_12 == << <<"nr_of_strings", 1>> >>

smbios_type_13 ==
  << <<"nr_of_strings", 1>>, <<"flags", 1>>, <<"reserved", 15>>, <<"current_language", 1>> >>

smbios_type_16 ==
  << <<"location", 1>>, <<"use", 1>>, <<"ecc", 1>>, <<"max_capacity", 4>>,
     <<"error_handle", 2>>, <<"nr_of_devices", 2>> >>

smbios_type_17 ==
  << <<"memory_array_handle", 2>>, <<"error_handle", 2>>, <<"total_width", 2>>,
     <<"data_width", 2>>, <<"size", 2>>, <<"form_factor", 1>>, <<"device_set", 1>>,
     <<"device_locator", 1>>, <<"bank_locator", 1>>, <<"mem_type", 1>>, <<"type_detail", 2>>,
     <<"speed", 2>>, <<"manufacturer", 1>>, <<"serial_number", 1>>, <<"asset_tag", 1>>,
     <<"part_number", 1>> >>

smbios_type_19 ==
  << <<"starting_adr", 4>>, <<"ending_adr", 4>>, <<"mem_array_handle", 2>>,
     <<"partition_width", 1>> >>

smbios_type_20 ==
  << <<"starting_adr", 4>>, <<"ending_adr", 4>>, <<"mem_dev_handle", 2>>,
     <<"mem_array_mapped_adr_handle", 2>>, <<"partition_row_position", 1>>,
     <<"interleave_position", 1>>, <<"interleaved_data_depth", 1>> >>

smbios_type_32 == << <<"reserved", 6>>, <<"status", 1>> >>

-----------------------------------------------------------------------------

(* The members of a structure of type t behind its header.                    *)
Members(t) ==
  CASE t = 0  -> smbios_type_0  [] t = 1  -> smbios_type_1  [] t = 2  -> smbios_type_2
    [] t = 3  -> smbios_type_3  [] t = 4  -> smbios_type_4  [] t = 5  -> smbios_type_5
    [] t = 6  -> smbios_type_6  [] t = 7  -> smbios_type_7  [] t = 8  -> smbios_type_8
    [] t = 9  -> smbios_type_9  [] t = 10 -> smbios_type_10 [] t = 11 -> smbios_type_11
    [] t = 12 -> smbios_type_12 [] t = 13 -> smbios_type_13 [] t = 16 -> smbios_type_16
    [] t = 17 -> smbios_type_17 [] t = 19 -> smbios_type_19 [] t = 20 -> smbios_type_20
    [] t = 32 -> smbios_type_32 [] OTHER -> <<>>

Sizes(members) == [i \in DOMAIN members |-> members[i][2]]

SizeOf(members) == Total(Sizes(members))

HeaderSize  == SizeOf(smbios_header)
DeviceBytes == SizeOf(smbios_type_10)

(* Where member i begins.                                                     *)
Offset(members, i) == HeaderSize + SumTo(Sizes(members), i - 1)

(* The bytes that each member occupies, by name.                              *)
BytesOf(members) ==
  [m \in {members[i][1] : i \in DOMAIN members} |->
     LET i == CHOOSE j \in DOMAIN members : members[j][1] = m
     IN Offset(members, i) .. Offset(members, i + 1) - 1]
=============================================================================
