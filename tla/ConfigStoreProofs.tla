-------------------------- MODULE ConfigStoreProofs --------------------------
(***************************************************************************)
(* Proofs about ConfigStore, for firmwares of any sizes and any values.    *)
(*                                                                         *)
(* The argument: a CRC over a structure knows how many of its fields it    *)
(* covers.  The start that takes a structure for a configuration has       *)
(* computed the CRC over as many fields as its length says, so the CRC in  *)
(* flash was computed over a structure with at least these fields, and the *)
(* fields in flash are the same: none is missing.  Within a session the    *)
(* CRC in nv_crc is the one in flash until a write fails.                  *)
(***************************************************************************)
EXTENDS ConfigStore, TLAPS

(* A CRC covers as many fields as were counted, or all there were.         *)
Covers(c) ==
  c \in ImageCrcs =>
    /\ c.length \in Nat
    /\ Len(c.fields) = IF c.count < c.length THEN c.count ELSE c.length

(* The strengthening: what flash holds at each point of a write and of a   *)
(* session.                                                                *)
FlashInv ==
  /\ Covers(flash.crc) /\ Covers(data.crc)
  /\ pc = "start" => nv_crc = NoCrc /\ ~failed
  /\ pc \in {"erase", "program"} => data.crc # NoCrc
  /\ pc = "program" =>
       \/ flash = Erased
       \/ flash.crc = data.crc /\ flash.length = Blank /\ flash.body = <<>>
       \/ flash.crc = data.crc /\ flash.length = data.length
  /\ pc = "running" /\ ~failed =>
       /\ flash.length = size /\ Len(flash.body) = size
       /\ nv_crc = flash.crc /\ nv_crc # NoCrc

Inv == TypeOK /\ FlashInv

Images == [crc : Crcs \ {InFlash}, length : Sizes \cup {Blank}, body : Seq(Cells)]

-----------------------------------------------------------------------------
(* A configuration extended to n fields has n fields. *)
LEMMA ExtendedFields ==
  ASSUME NEW c \in Seq(Cells), NEW n \in Nat, NEW v \in Cells
  PROVE  Extended(c, n, v) \in Seq(Cells) /\ Len(Extended(c, n, v)) = n
<1>1. \A f \in 1 .. n : f <= Len(c) => c[f] \in Cells
  OBVIOUS
<1>2. Extended(c, n, v) \in [1 .. n -> Cells]
  BY <1>1 DEF Extended
<1> QED BY <1>2

(* The default configuration, too. *)
LEMMA DefaultFields ==
  ASSUME NEW n \in Nat
  PROVE  Defaults(n) \in Seq(Cells) /\ Len(Defaults(n)) = n
<1>1. Defaults(n) \in [1 .. n -> Cells]
  BY ConfigConstants DEF Defaults, Cells
<1> QED BY <1>1

(* The CRC over a structure is a CRC that covers its fields. *)
LEMMA CrcCovers ==
  ASSUME NEW length \in Sizes \cup {Blank}, NEW body \in Seq(Cells), NEW crc,
         NEW n \in Sizes, NEW beyond
  PROVE  LET c == Crc([crc |-> crc, length |-> length, body |-> body], n, beyond) IN
         /\ c \in ImageCrcs
         /\ c.length = length /\ c.count = n
         /\ Len(c.fields) = IF n < Len(body) THEN n ELSE Len(body)
<1> DEFINE k == IF n < Len(body) THEN n ELSE Len(body)
<1>1. n \in Nat /\ n # Blank /\ k \in 0 .. Len(body)
  BY ConfigConstants
<1>2. SubSeq(body, 1, k) \in Seq(Cells) /\ Len(SubSeq(body, 1, k)) = k
  BY <1>1
<1>3. Crc([crc |-> crc, length |-> length, body |-> body], n, beyond)
        = [length |-> length, count |-> n, fields |-> SubSeq(body, 1, k)]
  BY <1>1 DEF Crc
<1> HIDE DEF k
<1>4. [length |-> length, count |-> n, fields |-> SubSeq(body, 1, k)] \in ImageCrcs
  BY <1>2 DEF ImageCrcs
<1>5. Len(SubSeq(body, 1, k)) = IF n < Len(body) THEN n ELSE Len(body)
  BY <1>2 DEF k
<1> DEFINE c == Crc([crc |-> crc, length |-> length, body |-> body], n, beyond)
<1>6. c.length = length /\ c.count = n /\ c.fields = SubSeq(body, 1, k)
  BY <1>3
<1>7. c \in ImageCrcs
  BY <1>3, <1>4
<1> HIDE DEF c
<1>8. /\ c \in ImageCrcs /\ c.length = length /\ c.count = n
      /\ Len(c.fields) = IF n < Len(body) THEN n ELSE Len(body)
  BY <1>5, <1>6, <1>7
<1> QED BY <1>8 DEF c

(* A write begins with a complete image of the running firmware's size and *)
(* a CRC that covers its fields, or one of bytes that are not its own.     *)
LEMMA WriteBegins ==
  ASSUME Inv, NEW who, NEW body \in Seq(Cells), Len(body) = size, BeginWrite(who, body)
  PROVE  /\ data' \in Images /\ data'.length = size /\ Len(data'.body) = size
         /\ Covers(data'.crc) /\ data'.crc # NoCrc
         /\ caller' = who /\ pc' = "erase"
<1> DEFINE image == [crc |-> Blank, length |-> size, body |-> body]
           c == Crc(image, flash.length, OnStack)
<1>1. size \in Sizes /\ size \in Nat /\ flash.length \in Sizes \cup {Blank}
  BY ConfigConstants DEF Inv, TypeOK
<1>2. data' = [crc |-> c, length |-> size, body |-> body] /\ caller' = who /\ pc' = "erase"
  BY DEF BeginWrite
<1>3. c \in Crcs \ {InFlash} /\ c # NoCrc /\ Covers(c)
  <2>1. CASE flash.length = Blank
    <3>1. c = OnStack BY <2>1 DEF Crc
    <3> QED BY <3>1, ConfigConstants DEF Crcs, Covers
  <2>2. CASE flash.length \in Sizes
    <3>0. size \in Sizes \cup {Blank}
      BY <1>1
    <3> HIDE DEF c
    <3>1. /\ c \in ImageCrcs /\ c.length = size /\ c.count = flash.length
          /\ Len(c.fields) = IF flash.length < Len(body) THEN flash.length ELSE Len(body)
      <4>1. \A n \in Sizes : LET d == Crc(image, n, OnStack) IN
              /\ d \in ImageCrcs /\ d.length = size /\ d.count = n
              /\ Len(d.fields) = IF n < Len(body) THEN n ELSE Len(body)
        BY <3>0, CrcCovers
      <4> HIDE DEF image
      <4> QED BY <2>2, <4>1 DEF c
    <3>2. c \notin {NoCrc, InFlash}
      BY <3>1, ConfigConstants
    <3> QED BY <1>1, <3>1, <3>2 DEF Crcs, Covers
  <2> QED BY <1>1, <2>1, <2>2
<1> HIDE DEF c
<1> QED BY <1>1, <1>2, <1>3 DEF Images

(* A structure that a start takes for a configuration of its own length is *)
(* complete.                                                               *)
LEMMA AcceptedIsComplete ==
  ASSUME Inv, pc = "start", Accepts, flash.length = size
  PROVE  Len(flash.body) = size /\ Calculated = flash.crc /\ flash.crc # NoCrc
<1> DEFINE c == Crc(flash, flash.length, InFlash)
<1>1. /\ size \in Sizes /\ size \in Nat /\ flash.body \in Seq(Cells)
      /\ Len(flash.body) <= size /\ Covers(flash.crc)
      /\ flash = [crc |-> flash.crc, length |-> flash.length, body |-> flash.body]
  BY ConfigConstants DEF Inv, TypeOK, FlashInv
<1>2. c = flash.crc
  BY DEF Accepts, Calculated, Inv, FlashInv
<1> HIDE DEF c
<1>3. /\ c \in ImageCrcs /\ c.length = size /\ c.count = size
      /\ Len(c.fields) = IF size < Len(flash.body) THEN size ELSE Len(flash.body)
  BY <1>1, CrcCovers DEF c
<1>4. Len(c.fields) = size
  BY <1>1, <1>2, <1>3 DEF Covers
<1>5. Len(flash.body) \in Nat
  BY <1>1
<1>6. c # NoCrc
  BY <1>3, ConfigConstants
<1> QED BY <1>1, <1>2, <1>3, <1>4, <1>5, <1>6 DEF Accepts

(* What is calculated is a CRC. *)
LEMMA CalculatedType ==
  ASSUME Inv
  PROVE  Calculated \in Crcs \cup {NoCrc}
<1>1. CASE Calculated = nv_crc
  BY <1>1 DEF Inv, TypeOK
<1>2. CASE Calculated = Crc(flash, flash.length, InFlash)
  <2>1. /\ flash.body \in Seq(Cells) /\ flash.length \in Sizes \cup {Blank}
        /\ flash = [crc |-> flash.crc, length |-> flash.length, body |-> flash.body]
    BY DEF Inv, TypeOK
  <2>2. CASE flash.length = Blank
    BY <1>2, <2>2 DEF Crc, Crcs
  <2>3. CASE flash.length \in Sizes
    <3>1. Crc(flash, flash.length, InFlash) \in ImageCrcs
      BY <2>1, <2>3, CrcCovers
    <3> QED BY <1>2, <3>1 DEF Crcs
  <2> QED BY <2>1, <2>2, <2>3
<1> QED BY <1>1, <1>2 DEF Calculated

-----------------------------------------------------------------------------
LEMMA InitInv == Init => Inv
<1> SUFFICES ASSUME Init PROVE Inv
  OBVIOUS
<1>1. Blank \in Crcs \ {InFlash} /\ NoCrc \in Crcs \cup {NoCrc} /\ Covers(Blank)
  BY ConfigConstants DEF Crcs, Covers
<1>2. Erased \in Images /\ Erased.crc = Blank /\ Erased.body = <<>> /\ Len(Erased.body) = 0
  BY <1>1 DEF Erased, Images
<1>3. size \in Nat /\ Defaults(size) \in Seq(Cells)
  BY ConfigConstants, DefaultFields DEF Init
<1>4. TypeOK
  <2>1. /\ flash = Erased /\ data = Erased /\ chosen = Defaults(size) /\ size \in Sizes
        /\ nv_crc = NoCrc /\ pc = "off" /\ caller = "validate" /\ failed = FALSE
    BY DEF Init
  <2>2. flash \in Images /\ data \in Images /\ Len(flash.body) <= size
    BY <1>2, <1>3, <2>1
  <2> HIDE DEF Init
  <2> QED BY <1>1, <1>3, <2>1, <2>2 DEF TypeOK, Images
<1>5. FlashInv
  BY <1>1, <1>2 DEF Init, FlashInv
<1> QED BY <1>4, <1>5 DEF Inv

LEMMA StepInv == Inv /\ [Next]_vars => Inv'
<1> SUFFICES ASSUME Inv, [Next]_vars PROVE Inv'
  OBVIOUS
<1> USE DEF Inv
<1>1. /\ flash \in Images /\ data \in Images /\ size \in Sizes /\ size \in Nat \ {0}
      /\ flash.body \in Seq(Cells) /\ Len(flash.body) \in Nat
      /\ data.body \in Seq(Cells) /\ Len(data.body) \in Nat
  BY ConfigConstants DEF TypeOK, Images
<1>2. /\ Erased \in Images /\ Erased.crc = Blank /\ Erased.length = Blank
      /\ Erased.body = <<>> /\ Len(Erased.body) = 0 /\ Covers(Blank)
  BY ConfigConstants DEF Erased, Images, Crcs, Covers
<1>3. CASE Boot
  <2>1. size' \in Sizes /\ size' \in Nat /\ size' >= size
    BY <1>1, <1>3, ConfigConstants DEF Boot
  <2>2. TypeOK'
    <3>1. UNCHANGED <<flash, caller, data, chosen>>
          /\ pc' = "start" /\ nv_crc' = NoCrc /\ failed' = FALSE
      BY <1>3 DEF Boot
    <3>2. Len(flash.body) <= size
      BY DEF TypeOK
    <3>3. Len(flash'.body) <= size'
      BY <1>1, <2>1, <3>1, <3>2
    <3> QED BY <2>1, <3>1, <3>3 DEF TypeOK
  <2>3. FlashInv'
    BY <1>3 DEF Boot, FlashInv
  <2> QED BY <2>2, <2>3
<1>4. CASE Validate
  <2>1. nv_crc' \in Crcs \cup {NoCrc} /\ UNCHANGED <<flash, size, chosen, failed>> /\ pc = "start"
    BY <1>4, CalculatedType DEF Validate
  <2>2. ASSUME NEW body \in Seq(Cells), Len(body) = size, BeginWrite("validate", body)
        PROVE  Inv'
    <3>1. /\ data' \in Images /\ data'.length = size /\ Len(data'.body) = size
          /\ Covers(data'.crc) /\ data'.crc # NoCrc
          /\ caller' = "validate" /\ pc' = "erase"
      BY <2>2, WriteBegins
    <3>2. TypeOK'
      BY <1>1, <2>1, <3>1 DEF TypeOK, Images
    <3>3. FlashInv'
      BY <2>1, <3>1 DEF FlashInv
    <3> QED BY <3>2, <3>3
  <2>3. CASE ~Accepts
    BY <1>1, <1>4, <2>2, <2>3, DefaultFields DEF Validate
  <2>4. CASE Accepts /\ flash.length # size
    <3>1. Default \in Cells
      BY ConfigConstants DEF Cells
    <3> QED BY <1>1, <1>4, <2>2, <2>4, <3>1, ExtendedFields DEF Validate
  <2>5. CASE Accepts /\ flash.length = size
    <3>1. pc' = "running" /\ UNCHANGED <<caller, data>> /\ nv_crc' = Calculated
      BY <1>4, <2>5 DEF Validate
    <3>2. Len(flash.body) = size /\ Calculated = flash.crc /\ flash.crc # NoCrc
      BY <2>1, <2>5, AcceptedIsComplete
    <3>3. TypeOK'
      BY <1>1, <2>1, <3>1 DEF TypeOK, Images
    <3>4. FlashInv'
      BY <2>1, <2>5, <3>1, <3>2 DEF FlashInv
    <3> QED BY <3>3, <3>4
  <2> QED BY <2>3, <2>4, <2>5
<1>5. CASE Erase
  <2>1. TypeOK'
    BY <1>1, <1>2, <1>5 DEF Erase, TypeOK, Images
  <2>2. FlashInv'
    BY <1>2, <1>5 DEF Erase, FlashInv
  <2> QED BY <2>1, <2>2
<1>6. CASE Program
  <2> USE <1>6 DEF Program
  <2>0. pc = "program" /\ pc' = "program" /\ UNCHANGED <<nv_crc, size, caller, data, chosen, failed>>
        /\ data.length = size /\ Len(data.body) = size /\ size # Blank
    BY <1>1, ConfigConstants DEF TypeOK
  <2>1. CASE flash.crc = Blank /\ flash' = [flash EXCEPT !.crc = data.crc]
    <3>1. flash' \in Images /\ flash'.crc = data.crc /\ flash'.length = flash.length
          /\ flash'.body = flash.body
      BY <1>1, <2>1 DEF Images
    <3>2. TypeOK'
      BY <2>0, <3>1 DEF TypeOK, Images
    <3>3. FlashInv'
      BY <1>2, <2>0, <3>1 DEF FlashInv
    <3> QED BY <3>2, <3>3
  <2>2. CASE /\ flash.crc # Blank /\ flash.length = Blank
             /\ flash' = [flash EXCEPT !.length = data.length]
    <3>1. flash' \in Images /\ flash'.crc = flash.crc /\ flash'.length = data.length
          /\ flash'.body = flash.body
      BY <1>1, <2>2 DEF Images
    <3>2. TypeOK'
      BY <2>0, <3>1 DEF TypeOK, Images
    <3>3. FlashInv'
      BY <1>2, <2>0, <2>2, <3>1 DEF FlashInv
    <3> QED BY <3>2, <3>3
  <2>3. CASE /\ flash.length # Blank /\ Len(flash.body) < size
             /\ flash' = [flash EXCEPT !.body = Append(@, data.body[Len(@) + 1])]
    <3>1. data.body[Len(flash.body) + 1] \in Cells
      BY <1>1, <2>0, <2>3
    <3>2. /\ Append(flash.body, data.body[Len(flash.body) + 1]) \in Seq(Cells)
          /\ Len(Append(flash.body, data.body[Len(flash.body) + 1])) = Len(flash.body) + 1
      BY <1>1, <3>1
    <3>3. flash' \in Images /\ flash'.crc = flash.crc /\ flash'.length = flash.length
          /\ Len(flash'.body) = Len(flash.body) + 1
      BY <1>1, <2>3, <3>2 DEF Images
    <3>4. TypeOK'
      BY <1>1, <2>0, <2>3, <3>3 DEF TypeOK, Images
    <3>5. FlashInv'
      BY <1>2, <2>0, <2>3, <3>3 DEF FlashInv
    <3> QED BY <3>4, <3>5
  <2> QED BY <2>1, <2>2, <2>3
<1>7. CASE WriteDone
  <2>1. flash.crc = data.crc /\ flash.length = data.length
    BY <1>1, <1>2, <1>7 DEF WriteDone, FlashInv
  <2>2. TypeOK'
    BY <1>1, <1>7 DEF WriteDone, TypeOK, Images
  <2>3. FlashInv'
    BY <1>7, <2>1 DEF WriteDone, FlashInv, TypeOK
  <2> QED BY <2>2, <2>3
<1>8. CASE WriteFails
  <2>1. flash' \in Images /\ Covers(flash'.crc) /\ Len(flash'.body) <= size
    BY <1>1, <1>2, <1>8 DEF WriteFails, FlashInv, TypeOK
  <2>2. TypeOK'
    BY <1>8, <2>1 DEF WriteFails, TypeOK, Images
  <2>3. FlashInv'
    BY <1>8, <2>1 DEF WriteFails, FlashInv
  <2> QED BY <2>2, <2>3
<1>9. ASSUME NEW f \in 1 .. size, NEW v \in Values, SetConfig(f, v) PROVE Inv'
  <2>1. nv_crc' = Calculated /\ UNCHANGED <<flash, size, chosen, failed>> /\ pc = "running"
    BY <1>9 DEF SetConfig
  <2>2. InUse \in Seq(Cells) /\ Len(InUse) = size
    BY <1>1, <1>9, ExtendedFields DEF SetConfig, InUse, Cells
  <2>3. [InUse EXCEPT ![f] = v] \in Seq(Cells) /\ Len([InUse EXCEPT ![f] = v]) = size
    BY <1>1, <1>9, <2>2 DEF Cells
  <2>4. /\ data' \in Images /\ data'.length = size /\ Len(data'.body) = size
        /\ Covers(data'.crc) /\ data'.crc # NoCrc
        /\ caller' = "set" /\ pc' = "erase"
    BY <1>9, <2>3, WriteBegins DEF SetConfig
  <2>5. TypeOK'
    BY <1>1, <2>1, <2>4, CalculatedType DEF TypeOK, Images
  <2>6. FlashInv'
    BY <2>1, <2>4 DEF FlashInv
  <2> QED BY <2>5, <2>6
<1>10. CASE PowerLoss
  <2>1. TypeOK'
    BY <1>10 DEF PowerLoss, TypeOK
  <2>2. FlashInv'
    BY <1>10 DEF PowerLoss, FlashInv
  <2> QED BY <2>1, <2>2
<1>11. CASE UNCHANGED vars
  BY <1>11 DEF vars, TypeOK, FlashInv
<1> QED BY <1>3, <1>4, <1>5, <1>6, <1>7, <1>8, <1>9, <1>10, <1>11 DEF Next

LEMMA Invariance == Spec => []Inv
BY InitInv, StepInv, PTL DEF Spec

-----------------------------------------------------------------------------
(* Types, and a write always has an image of the firmware's own size.      *)
THEOREM TypeCorrect == Spec => []TypeOK
<1>1. Inv => TypeOK
  BY DEF Inv
<1> QED BY <1>1, Invariance, PTL

(* Reading works for a whole session, until a write fails: the firmware    *)
(* does not fall back to the defaults while it runs.                       *)
THEOREM UsableInSession == Spec => []ConfigUsable
<1>1. Inv => ConfigUsable
  BY ConfigConstants DEF Inv, TypeOK, FlashInv, ConfigUsable, Accepts, Initialized, Calculated
<1> QED BY <1>1, Invariance, PTL

(* Power may fail at any step of any write: no start takes a part of a     *)
(* structure for a configuration.                                          *)
THEOREM TornNeverAccepted == Spec => []NothingTornAccepted
<1>1. Inv => NothingTornAccepted
  BY DEF Inv, FlashInv, NothingTornAccepted
<1> QED BY <1>1, Invariance, PTL

-----------------------------------------------------------------------------
(* A structure whose CRC covers all of it. *)
Good(image) ==
  image.crc = [length |-> image.length, count |-> size, fields |-> image.body]

(* What the settings that config-set saved depend on: they are in flash    *)
(* with their CRC, or they are the defaults, which a start that refuses    *)
(* the flash restores; a write of config-set has a CRC that the next start *)
(* accepts.                                                                *)
KeptInv ==
  /\ failed => chosen = <<>>
  /\ pc = "halted" => failed
  /\ Len(chosen) <= size
  /\ pc = "program" => \A k \in 1 .. Len(flash.body) : flash.body[k] = data.body[k]
  /\ pc \in {"erase", "program"} /\ caller = "set" /\ ~failed => Good(data)
  /\ pc \in {"erase", "program"} /\ caller = "validate" /\ Len(chosen) = size =>
       data.body = chosen /\ chosen = Defaults(size)
  /\ pc \in {"off", "start", "running"} /\ Len(chosen) = size =>
       \/ /\ flash.length = size /\ flash.body = chosen
          /\ Good(flash) \/ chosen = Defaults(size)
       \/ pc # "running" /\ flash = Erased /\ chosen = Defaults(size)

(* The CRC of a complete structure of the running firmware over its own    *)
(* length.                                                                 *)
LEMMA WholeCrc ==
  ASSUME NEW body \in Seq(Cells), size \in Sizes, Len(body) = size, NEW crc, NEW beyond
  PROVE  Crc([crc |-> crc, length |-> size, body |-> body], size, beyond)
           = [length |-> size, count |-> size, fields |-> body]
<1>1. size \in Nat \ {0} /\ size # Blank
  BY ConfigConstants
<1>2. SubSeq(body, 1, size) = body
  BY <1>1
<1>3. (IF size < Len(body) THEN size ELSE Len(body)) = size
  BY <1>1
<1> QED BY <1>1, <1>2, <1>3 DEF Crc

LEMMA InitKept == Init => KeptInv
<1> SUFFICES ASSUME Init PROVE KeptInv
  OBVIOUS
<1>1. size \in Nat /\ Defaults(size) \in Seq(Cells) /\ Len(Defaults(size)) = size
  BY ConfigConstants, DefaultFields DEF Init
<1> QED BY <1>1 DEF Init, KeptInv

LEMMA StepKept == Inv /\ KeptInv /\ [Next]_vars => KeptInv'
<1> SUFFICES ASSUME Inv, KeptInv, [Next]_vars PROVE KeptInv'
  OBVIOUS
<1>1. /\ flash \in Images /\ data \in Images /\ size \in Sizes /\ size \in Nat \ {0}
      /\ size # Blank
      /\ flash.body \in Seq(Cells) /\ Len(flash.body) \in Nat
      /\ data.body \in Seq(Cells) /\ Len(data.body) \in Nat
      /\ chosen \in Seq(Cells) /\ Len(chosen) \in Nat
  BY ConfigConstants DEF Inv, TypeOK, Images
<1>2. chosen = <<>> => Len(chosen) # size
  BY <1>1
<1>3. CASE Boot
  <2>1. /\ UNCHANGED <<flash, caller, data, chosen>> /\ pc = "off" /\ pc' = "start"
        /\ failed' = FALSE
    BY <1>3 DEF Boot
  <2>2. size' \in Nat /\ size' >= size /\ (Len(chosen) = size' => size' = size)
    BY <1>1, <1>3, ConfigConstants DEF Boot, KeptInv
  <2>3. Len(chosen) <= size'
    BY <1>1, <2>2 DEF KeptInv
  <2>4. CASE size' = size
    BY <2>1, <2>3, <2>4 DEF KeptInv, Good
  <2>5. CASE size' # size
    BY <2>1, <2>2, <2>3, <2>5 DEF KeptInv
  <2> QED BY <2>4, <2>5
<1>4. CASE Validate
  <2>1. pc = "start" /\ UNCHANGED <<flash, size, chosen, failed>> /\ ~failed /\ nv_crc = NoCrc
    BY <1>4 DEF Validate, Inv, FlashInv
  <2>2. CASE ~Accepts
    <3>1. BeginWrite("validate", Defaults(size))
      BY <1>4, <2>2 DEF Validate
    <3>2. data'.body = Defaults(size) /\ caller' = "validate" /\ pc' = "erase"
      BY <3>1 DEF BeginWrite
    <3>3. ASSUME Len(chosen) = size, flash.length = size, flash.body = chosen, Good(flash)
          PROVE  FALSE
      <4>1. flash = [crc |-> flash.crc, length |-> size, body |-> flash.body]
        BY <1>1, <3>3 DEF Images
      <4>2. Crc(flash, flash.length, InFlash) = flash.crc
        BY <1>1, <3>3, <4>1, WholeCrc DEF Good
      <4>3. Initialized
        BY <1>1, <3>3 DEF Initialized
      <4> QED BY <2>1, <2>2, <4>2, <4>3 DEF Accepts, Calculated
    <3>4. Len(chosen) = size => chosen = Defaults(size)
      BY <2>1, <3>3 DEF KeptInv
    <3> QED BY <2>1, <3>2, <3>4 DEF KeptInv
  <2>3. CASE Accepts /\ flash.length # size
    <3>1. flash # Erased
      BY <2>3 DEF Accepts, Initialized, Erased
    <3>2. Len(chosen) # size
      BY <2>1, <2>3, <3>1 DEF KeptInv
    <3>3. caller' = "validate" /\ pc' = "erase"
      BY <1>4, <2>3 DEF Validate, BeginWrite
    <3> QED BY <2>1, <3>2, <3>3 DEF KeptInv
  <2>4. CASE Accepts /\ flash.length = size
    <3>1. pc' = "running" /\ UNCHANGED <<caller, data>>
      BY <1>4, <2>4 DEF Validate
    <3>2. flash # Erased
      BY <1>1, <2>4 DEF Erased
    <3> QED BY <2>1, <3>1, <3>2 DEF KeptInv, Good
  <2> QED BY <2>2, <2>3, <2>4
<1>5. CASE Erase
  <2>1. /\ pc = "erase" /\ pc' = "program" /\ flash' = Erased /\ Len(flash'.body) = 0
        /\ UNCHANGED <<size, caller, data, chosen, failed>>
    BY <1>5 DEF Erase, Erased
  <2> QED BY <2>1 DEF KeptInv, Good
<1>6. CASE Program
  <2>1. /\ pc = "program" /\ pc' = "program"
        /\ UNCHANGED <<size, caller, data, chosen, failed>>
    BY <1>6 DEF Program
  <2>2. \A k \in 1 .. Len(flash'.body) : flash'.body[k] = data.body[k]
    <3>1. CASE flash'.body = flash.body
      BY <2>1, <3>1 DEF KeptInv
    <3>2. CASE flash'.body = Append(flash.body, data.body[Len(flash.body) + 1])
      <4>1. /\ Len(flash'.body) = Len(flash.body) + 1
            /\ \A k \in 1 .. Len(flash.body) : flash'.body[k] = flash.body[k]
            /\ flash'.body[Len(flash.body) + 1] = data.body[Len(flash.body) + 1]
        BY <1>1, <3>2
      <4> QED BY <1>1, <2>1, <4>1 DEF KeptInv
    <3>3. flash'.body = flash.body \/ flash'.body = Append(flash.body, data.body[Len(flash.body) + 1])
      BY <1>1, <1>6 DEF Program, Images
    <3> QED BY <3>1, <3>2, <3>3
  <2> QED BY <2>1, <2>2 DEF KeptInv, Good
<1>7. CASE WriteDone
  <2>1. /\ pc = "program" /\ pc' = "running" /\ Len(flash.body) = size
        /\ UNCHANGED <<flash, size, caller, data, failed>>
        /\ chosen' = IF caller = "set" /\ ~failed THEN data.body ELSE chosen
    BY <1>7 DEF WriteDone
  <2>2. flash.crc = data.crc /\ flash.length = size /\ data.length = size /\ Len(data.body) = size
    BY <1>1, <2>1 DEF Inv, FlashInv, TypeOK, Erased
  <2>3. flash.body = data.body
    BY <1>1, <2>1, <2>2 DEF KeptInv
  <2>4. CASE caller = "set" /\ ~failed
    BY <1>1, <2>1, <2>2, <2>3, <2>4 DEF KeptInv, Good
  <2>5. CASE failed
    BY <1>2, <2>1, <2>5 DEF KeptInv
  <2>6. CASE caller # "set" /\ ~failed
    <3>1. caller = "validate" /\ chosen' = chosen
      BY <2>1, <2>6 DEF Inv, TypeOK
    <3> QED BY <2>1, <2>2, <2>3, <2>6, <3>1 DEF KeptInv
  <2> QED BY <2>4, <2>5, <2>6
<1>8. CASE WriteFails
  <2>1. chosen' = <<>> /\ failed' = TRUE /\ size' = size /\ Len(chosen') = 0
        /\ pc' \in {"halted", "running"}
    BY <1>8 DEF WriteFails
  <2> QED BY <1>1, <2>1 DEF KeptInv
<1>9. ASSUME NEW f \in 1 .. size, NEW v \in Values, SetConfig(f, v) PROVE KeptInv'
  <2>1. /\ pc = "running" /\ UNCHANGED <<flash, size, chosen, failed>>
        /\ BeginWrite("set", [InUse EXCEPT ![f] = v])
    BY <1>9 DEF SetConfig
  <2>2. caller' = "set" /\ pc' = "erase"
    BY <2>1 DEF BeginWrite
  <2>3. ASSUME ~failed PROVE Good(data)'
    <3> DEFINE body == [InUse EXCEPT ![f] = v]
    <3>1. InUse \in Seq(Cells) /\ Len(InUse) = size
      BY <1>1, <1>9, ExtendedFields DEF SetConfig, InUse, Cells
    <3>2. body \in Seq(Cells) /\ Len(body) = size
      BY <1>1, <1>9, <3>1 DEF Cells
    <3>3. flash.length = size
      BY <2>1, <2>3 DEF Inv, FlashInv
    <3> HIDE DEF body
    <3>4. Crc([crc |-> Blank, length |-> size, body |-> body], size, OnStack)
            = [length |-> size, count |-> size, fields |-> body]
      BY <1>1, <3>2, WholeCrc
    <3>5. data' = [crc |-> [length |-> size, count |-> size, fields |-> body],
                   length |-> size, body |-> body]
      BY <2>1, <3>3, <3>4 DEF BeginWrite, body
    <3> QED BY <2>1, <3>5 DEF Good
  <2> QED BY <2>1, <2>2, <2>3 DEF KeptInv
<1>10. CASE PowerLoss
  <2>1. /\ UNCHANGED <<flash, size, caller, data, failed>> /\ pc' = "off" /\ pc # "off"
        /\ chosen' = IF pc \in {"erase", "program"} THEN <<>> ELSE chosen
    BY <1>10 DEF PowerLoss
  <2>2. CASE pc \in {"erase", "program"}
    BY <1>1, <2>1, <2>2 DEF KeptInv
  <2>3. CASE pc = "halted"
    BY <1>1, <1>2, <2>1, <2>3 DEF KeptInv
  <2>4. CASE pc \in {"start", "running"}
    BY <2>1, <2>4 DEF KeptInv, Good
  <2> QED BY <2>1, <2>2, <2>3, <2>4 DEF Inv, TypeOK
<1>11. CASE UNCHANGED vars
  BY <1>11 DEF vars, KeptInv, Good
<1> QED BY <1>3, <1>4, <1>5, <1>6, <1>7, <1>8, <1>9, <1>10, <1>11 DEF Next

(* What config-set answered OK for is in use again after any number of     *)
(* restarts of the same firmware, unless a write was cut short.            *)
THEOREM SavedIsKept == Spec => []SettingsKept
<1>1. Inv /\ KeptInv => SettingsKept
  <2> SUFFICES ASSUME Inv, KeptInv, pc = "running", Len(chosen) = size
               PROVE  InUse = chosen
    BY DEF SettingsKept
  <2>1. chosen \in Seq(Cells) /\ size \in Nat \ {0}
    BY ConfigConstants DEF Inv, TypeOK
  <2>2. ~failed /\ flash.body = chosen
    BY <2>1 DEF KeptInv
  <2>3. Accepts
    BY <2>2, ConfigConstants DEF Inv, TypeOK, FlashInv, Accepts, Initialized, Calculated
  <2>4. Extended(chosen, size, Blank) = chosen
    BY <2>1 DEF Extended
  <2> QED BY <2>2, <2>3, <2>4 DEF InUse
<1>2. Spec => [](Inv /\ KeptInv)
  BY InitInv, StepInv, InitKept, StepKept, PTL DEF Spec
<1> QED BY <1>1, <1>2, PTL
=============================================================================
