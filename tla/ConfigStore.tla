----------------------------- MODULE ConfigStore -----------------------------
(***************************************************************************)
(* The configuration in data flash: config.c and hal_flash.c, the write of *)
(* config-set and the start of hal_entry.  A write erases the flash and    *)
(* programs it from the first byte on; power can fail, and the flash       *)
(* report an error, between any two steps.                                 *)
(*                                                                         *)
(* A configuration is its header and a sequence of fields.  A CRC is what  *)
(* it was computed over, so two are equal only for equal data.  A later    *)
(* firmware appends fields, as config.h allows without a new version.      *)
(***************************************************************************)
EXTENDS Naturals, Sequences

CONSTANTS
  Sizes,     (* sizeof(config_data_t) of the firmwares, in fields          *)
  Values,    (* the values of a field                                      *)
  Default,   (* the default value of a field                               *)
  Blank,     (* what erased cells hold                                     *)
  NoCrc,     (* UINT32_MAX in nv_crc: not yet calculated                   *)
  OnStack,   (* a CRC over the bytes behind a structure on the stack       *)
  InFlash    (* a CRC over 253 bytes of partly blank flash                 *)

Cells == Values \cup {Blank}

(* The CRCs over a structure itself: its length and what was counted.      *)
ImageCrcs == [length : Sizes \cup {Blank}, count : Sizes, fields : Seq(Cells)]

ASSUME ConfigConstants ==
  /\ Sizes \subseteq Nat \ {0} /\ Sizes # {} /\ Default \in Values
  /\ Blank \notin Nat /\ OnStack # InFlash
  /\ InFlash # Blank /\ NoCrc \notin {OnStack, InFlash, Blank}
  /\ {NoCrc, OnStack, InFlash, Blank} \cap ImageCrcs = {}

VARIABLES
  flash,    (* the cells at __Data_Flash_Start; body as far as programmed  *)
  nv_crc,   (* the calculated CRC                                          *)
  size,     (* sizeof(config_data_t) of the running firmware               *)
  pc,       (* "off", "start", "running", "halted", or in a write "erase"  *)
            (* and "program"                                               *)
  caller,   (* who writes: "validate" or "set"                             *)
  data,     (* the copy that is being written                              *)
  chosen,   (* history: the configuration last saved by config-set, <<>>   *)
            (* once a write was interrupted, or has failed in the session  *)
  failed    (* history: a write has failed since the start                 *)

vars == <<flash, nv_crc, size, pc, caller, data, chosen, failed>>

Erased == [crc |-> Blank, length |-> Blank, body |-> <<>>]
Defaults(n) == [f \in 1 .. n |-> Default]

Extended_Appends(c, n, v) == c \o [f \in 1 .. n |-> v]

(* The fields of c, and v for those it does not have. *)
Extended(c, n, v) == [f \in 1 .. n |-> IF f <= Len(c) THEN c[f] ELSE v]

(* The CRC over the length and the first n fields of an image.  A blank    *)
(* length means 255 bytes, more than the structure has.                    *)
Crc(image, n, beyond) ==
  IF n = Blank THEN beyond
  ELSE [length |-> image.length, count |-> n,
        fields |-> SubSeq(image.body, 1, IF n < Len(image.body) THEN n ELSE Len(image.body))]

Init ==
  /\ flash = Erased /\ nv_crc = NoCrc /\ size \in Sizes
  /\ pc = "off" /\ caller = "validate" /\ data = Erased
  /\ chosen = Defaults(size) /\ failed = FALSE

(***************************************************************************)
(* Reading.                                                                *)
(***************************************************************************)
Initialized == ~(flash.crc = Blank /\ flash.length = Blank)

(* nv_crc after a read, which calculates it once. *)
Calculated ==
  IF Initialized /\ nv_crc = NoCrc THEN Crc(flash, flash.length, InFlash) ELSE nv_crc

Accepts_Unchecked == Initialized

(* flash_config_read answers no error. *)
Accepts == Initialized /\ Calculated = flash.crc

(* config_get_or_default. *)
InUse == IF Accepts THEN Extended(flash.body, size, Blank) ELSE Defaults(size)

(***************************************************************************)
(* Writing.                                                                *)
(***************************************************************************)

BeginWrite_OldCrc(who, body) ==
  LET image == [crc |-> Blank, length |-> size, body |-> body]
  IN  /\ data' = [image EXCEPT !.crc = Crc(flash, flash.length, OnStack)]
      /\ caller' = who /\ pc' = "erase"

(* The CRC is calculated over as many bytes as the length in flash says.   *)
BeginWrite(who, body) ==
  LET image == [crc |-> Blank, length |-> size, body |-> body]
  IN  /\ data' = [image EXCEPT !.crc = Crc(image, flash.length, OnStack)]
      /\ caller' = who /\ pc' = "erase"

Erase ==
  /\ pc = "erase" /\ flash' = Erased /\ pc' = "program"
  /\ UNCHANGED <<nv_crc, size, caller, data, chosen, failed>>

(* The cells are programmed in their order. *)
Program ==
  /\ pc = "program"
  /\ \/ flash.crc = Blank /\ flash' = [flash EXCEPT !.crc = data.crc]
     \/ flash.crc # Blank /\ flash.length = Blank
        /\ flash' = [flash EXCEPT !.length = data.length]
     \/ flash.length # Blank /\ Len(flash.body) < size
        /\ flash' = [flash EXCEPT !.body = Append(@, data.body[Len(@) + 1])]
  /\ UNCHANGED <<nv_crc, size, pc, caller, data, chosen, failed>>

WriteDone_NoCrc ==
  /\ pc = "program" /\ Len(flash.body) = size
  /\ pc' = "running"
  /\ chosen' = IF caller = "set" /\ ~failed THEN data.body ELSE chosen
  /\ UNCHANGED <<flash, nv_crc, size, caller, data, failed>>

WriteDone ==
  /\ pc = "program" /\ Len(flash.body) = size
  /\ nv_crc' = data.crc /\ pc' = "running"
  /\ chosen' = IF caller = "set" /\ ~failed THEN data.body ELSE chosen
  /\ UNCHANGED <<flash, size, caller, data, failed>>

(* An error of the flash: hal_entry stops at a breakpoint, config-set      *)
(* answers NAK.  A failing erase may have erased.                          *)
WriteFails ==
  /\ \/ pc = "erase" /\ flash' \in {flash, Erased}
     \/ pc = "program" /\ UNCHANGED flash
  /\ pc' = IF caller = "validate" THEN "halted" ELSE "running"
  /\ chosen' = <<>> /\ failed' = TRUE
  /\ UNCHANGED <<nv_crc, size, caller, data>>

(***************************************************************************)
(* Starting, running, losing power.                                        *)
(***************************************************************************)

(* A firmware starts: the same, or one that appends fields. *)
Boot ==
  /\ pc = "off" /\ pc' = "start"
  /\ size' \in {s \in Sizes : s >= size}
  /\ nv_crc' = NoCrc /\ failed' = FALSE
  /\ UNCHANGED <<flash, caller, data, chosen>>

(* config_validate. *)
Validate ==
  /\ pc = "start" /\ nv_crc' = Calculated
  /\ IF ~Accepts THEN BeginWrite("validate", Defaults(size))
     ELSE IF flash.length # size THEN BeginWrite("validate", Extended(flash.body, size, Default))
     ELSE pc' = "running" /\ UNCHANGED <<caller, data>>
  /\ UNCHANGED <<flash, size, chosen, failed>>

(* handler_config_set changes one field of the configuration it reads. *)
SetConfig(f, v) ==
  /\ pc = "running" /\ Accepts /\ nv_crc' = Calculated
  /\ BeginWrite("set", [InUse EXCEPT ![f] = v])
  /\ UNCHANGED <<flash, size, chosen, failed>>

PowerLoss ==
  /\ pc # "off" /\ pc' = "off"
  /\ chosen' = IF pc \in {"erase", "program"} THEN <<>> ELSE chosen
  /\ UNCHANGED <<flash, nv_crc, size, caller, data, failed>>

Next ==
  \/ Boot \/ Validate \/ Erase \/ Program \/ WriteDone \/ WriteFails \/ PowerLoss
  \/ \E f \in 1 .. size, v \in Values : SetConfig(f, v)

Spec == Init /\ [][Next]_vars

(***************************************************************************)
(* Properties.                                                             *)
(***************************************************************************)

Crcs == ImageCrcs \cup {Blank, OnStack, InFlash}

(* Every variable has a value of its type; what is written has exactly the *)
(* fields of the running firmware's structure.                             *)
TypeOK ==
  /\ flash \in [crc : Crcs \ {InFlash}, length : Sizes \cup {Blank}, body : Seq(Cells)]
  /\ data \in [crc : Crcs \ {InFlash}, length : Sizes \cup {Blank}, body : Seq(Cells)]
  /\ nv_crc \in Crcs \cup {NoCrc} /\ size \in Sizes
  /\ pc \in {"off", "start", "running", "halted", "erase", "program"}
  /\ caller \in {"validate", "set"} /\ chosen \in Seq(Cells) /\ failed \in BOOLEAN
  /\ Len(flash.body) <= size
  /\ pc \in {"erase", "program"} => data.length = size /\ Len(data.body) = size

(* Once started, and until a write fails, reading works, although the CRC  *)
(* in flash may be one that the next start refuses: the firmware never     *)
(* falls back to defaults in the middle of a session.                      *)
ConfigUsable == pc = "running" /\ ~failed => Accepts

(* Whatever moment power failed at, a start never takes a half-written     *)
(* structure for a configuration.                                          *)
NothingTornAccepted ==
  pc = "running" /\ ~failed => flash.length = size /\ Len(flash.body) = size

(* What config-set answered OK for is in use after any number of restarts  *)
(* of the same firmware, unless a write was interrupted, or failed in the  *)
(* same session: then a rewrite of the very same data can leave a torn     *)
(* structure with the CRC in nv_crc, and what is saved on top of it a CRC  *)
(* that the next start refuses.                                            *)
SettingsKept == pc = "running" /\ Len(chosen) = size => InUse = chosen

(* What the code does not do: the settings also survive a firmware that    *)
(* appends fields (config.h:36).  The CRC of the upgraded structure     *)
(* covers only as many bytes as the old one had, and the second start of   *)
(* the new firmware refuses it and restores the defaults.                  *)
SettingsSurviveUpgrade ==
  pc = "running" /\ chosen # <<>> => InUse = Extended(chosen, size, Default)
=============================================================================
