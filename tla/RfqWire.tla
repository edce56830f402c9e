------------------------------- MODULE RfqWire -------------------------------
(***************************************************************************)
(* The fixed 280-byte RFQ broadcast of rfq.rs, rfq.ts and rfq.py: the      *)
(* server encodes, a market maker in any of the three languages decodes,   *)
(* walks the legs, may edit the object, and may encode it again.           *)
(*                                                                         *)
(* A buffer is the record of its fixed-offset fields and of its MaxLegs    *)
(* leg slots; fields no rule looks into (request id, amounts, market ids,  *)
(* start times, leg indices) are one token each.  A Rust object keeps all  *)
(* slots; a TypeScript or Python object keeps a list of the active legs    *)
(* and the raw bytes of the others.                                        *)
(***************************************************************************)
EXTENDS Integers, Sequences

CONSTANTS
  MaxLegs,      \* MAX_RFQ_LEGS
  Version,      \* RFQ_PROTOCOL_VERSION
  Assets,       \* the asset ids of Asset::from_u8
  Windows,      \* the window lengths of Duration::from_secs
  LegWires,     \* the leg slots that occur
  Metadata,     \* taker tiers and addresses
  ZeroMetadata, \* tier 0 and the zero address
  Heads,        \* the values of the fields no rule looks into
  Counts,       \* the leg counts that occur
  Versions,     \* the protocol versions that occur
  BadText,      \* texts that are not base64, or not of 280 bytes
  Intruders,    \* the texts that peers of other versions send
  MaxEdits,     \* bound on the edits of objects
  NoWire,       \* nothing has been broadcast
  NoObject      \* nothing has been decoded

\* RfqLegWire::default, and the unused bytes of an object built by hand.
ZeroLeg ==
  [type_tag |-> 0, direction |-> 0, type_value |-> 0, price_window_secs |-> 0, rest |-> 0]

ZeroSlots(n) == [i \in 1 .. n |-> ZeroLeg]

Directions == {0, 1}
PriceStrikeTag == 0
BinaryEventTag == 2

\* Languages whose objects hold lists: rfq.ts and rfq.py do the same.
Listed == {"typescript", "python"}
Languages == Listed \cup {"rust"}

\* 280 bytes.  Any byte may be anything: peers may be of another version.
Buffer ==
  [head : Heads, option : Nat, metadata : Metadata, order_type : Nat,
   leg_count : Nat, version : Nat, reserved : Nat, slots : [1 .. MaxLegs -> LegWires]]

\* The object of each language (Rust has no use for inactive).
Object ==
  [language : Languages, head : Heads, option : Nat, metadata : Metadata,
   order_type : Nat, leg_count : Nat, version : Nat, reserved : Nat,
   legs : Seq(LegWires), inactive : Seq(LegWires)]

ASSUME RfqAssumption ==
  /\ MaxLegs \in Nat \ {0}
  /\ Version \in Nat
  /\ Windows \subseteq Nat \ {0}
  /\ LegWires \subseteq [type_tag : Nat, direction : Nat, type_value : Nat,
                         price_window_secs : Nat, rest : Nat]
  /\ ZeroLeg \in LegWires
  /\ ZeroMetadata \in Metadata
  /\ Counts \subseteq Nat
  /\ Versions \subseteq Nat
  /\ MaxEdits \in Nat
  /\ Intruders \subseteq Buffer \cup BadText
  /\ \A other \in BadText \cup {NoWire} : other \notin Buffer
  /\ NoWire \notin BadText
  /\ NoObject \notin Object

Smaller(a, b) == IF a < b THEN a ELSE b

\* The leg count, clamped.
Active(leg_count) == Smaller(leg_count, MaxLegs)

-----------------------------------------------------------------------------
(* One leg *)

\* TryFrom<RfqLegWire> for RfqLeg, RfqLeg.validate: the error
\* of a slot, "ok" when there is none.  Tag 1 is retired.
LegError(wire) ==
  IF wire.direction \notin Directions THEN "InvalidDirection"
  ELSE IF wire.type_tag = PriceStrikeTag THEN
    (IF wire.type_value \notin Assets THEN "InvalidAsset"
     ELSE IF wire.price_window_secs \notin Windows THEN "InvalidPriceWindowSecs"
     ELSE "ok")
  ELSE IF wire.type_tag = BinaryEventTag THEN
    (IF wire.price_window_secs # 0 THEN "InvalidBinaryEventPriceWindowSecs"
     ELSE IF wire.type_value # 0 THEN "InvalidBinaryEventTypeValue"
     ELSE "ok")
  ELSE "InvalidTypeTag"

\* ... and the leg.  A binary event carries no asset and no window.
Leg(wire) ==
  [direction |-> wire.direction, rest |-> wire.rest,
   leg_type |-> IF wire.type_tag = PriceStrikeTag
                THEN <<"PriceStrike", wire.type_value, wire.price_window_secs>>
                ELSE <<"BinaryEvent">>]

\* From<RfqLeg> for RfqLegWire.
LegToWire(leg) ==
  [direction |-> leg.direction, rest |-> leg.rest,
   type_tag |-> IF leg.leg_type[1] = "PriceStrike" THEN PriceStrikeTag ELSE BinaryEventTag,
   type_value |-> IF leg.leg_type[1] = "PriceStrike" THEN leg.leg_type[2] ELSE 0,
   price_window_secs |-> IF leg.leg_type[1] = "PriceStrike" THEN leg.leg_type[3] ELSE 0]

ValidWires == {w \in LegWires : LegError(w) = "ok"}

\* What a market maker learns of a slot: the leg or why it is not one.
LegResult(wire) ==
  IF LegError(wire) = "ok" THEN <<"leg", Leg(wire)>> ELSE <<LegError(wire)>>

-----------------------------------------------------------------------------
(* Buffers and objects *)

\* Mutant: the option byte of absent metadata is set.
FromPartsUnshielded(head, metadata, order_type, leg_count, slots) ==
  [head |-> head, order_type |-> order_type, leg_count |-> leg_count, option |-> 1,
   metadata |-> IF metadata = <<>> THEN ZeroMetadata ELSE metadata[1],
   version |-> Version, reserved |-> 0, slots |-> slots]

\* BroadcastRfqRequest::from_parts and to_bytes on the server: the metadata is
\* one-element or empty, and empty leaves zeros behind.
FromParts(head, metadata, order_type, leg_count, slots) ==
  [head |-> head, order_type |-> order_type, leg_count |-> leg_count,
   option |-> Len(metadata),
   metadata |-> IF metadata = <<>> THEN ZeroMetadata ELSE metadata[1],
   version |-> Version, reserved |-> 0, slots |-> slots]

\* BroadcastRfqRequest::from_bytes keeps every slot ...
RustFromBytes(b) ==
  [language |-> "rust", head |-> b.head, option |-> b.option, metadata |-> b.metadata,
   order_type |-> b.order_type, leg_count |-> b.leg_count, version |-> b.version,
   reserved |-> b.reserved, legs |-> b.slots, inactive |-> <<>>]

\* ... those of rfq.ts and rfq.py split them at the leg count.
ListedFromBytes(language, b) ==
  [language |-> language, head |-> b.head, option |-> b.option, metadata |-> b.metadata,
   order_type |-> b.order_type, leg_count |-> b.leg_count, version |-> b.version,
   reserved |-> b.reserved, legs |-> SubSeq(b.slots, 1, Active(b.leg_count)),
   inactive |-> SubSeq(b.slots, Active(b.leg_count) + 1, MaxLegs)]

\* Mutant: the bytes of the inactive slots are not kept.
FromBytesForgetting(language, b) ==
  IF language = "rust" THEN RustFromBytes(b)
  ELSE [ListedFromBytes(language, b) EXCEPT !.inactive = <<>>]

FromBytes(language, b) ==
  IF language = "rust" THEN RustFromBytes(b) ELSE ListedFromBytes(language, b)

\* decode_broadcast_rfq: the error, "ok" when there is none.
DecodeError(text) ==
  IF text \in BadText THEN "Base64 or WrongSize"
  ELSE IF text.version # Version THEN "UnsupportedProtocolVersion"
  ELSE IF text.leg_count \notin 1 .. MaxLegs THEN "InvalidLegCount"
  ELSE "ok"

\* In TypeScript and Python to_bytes throws when the list is shorter than the
\* leg count.
CanEncode(o) == o.language \in Listed => Len(o.legs) >= Active(o.leg_count)

\* The slots that to_bytes writes: no legs beyond the leg count.
EncodedSlots(o) ==
  IF o.language = "rust" THEN o.legs
  ELSE SubSeq(o.legs, 1, Active(o.leg_count)) \o
       IF o.inactive = <<>> THEN ZeroSlots(MaxLegs - Active(o.leg_count)) ELSE o.inactive

ToBytes(o) ==
  [head |-> o.head, option |-> o.option, metadata |-> o.metadata,
   order_type |-> o.order_type, leg_count |-> o.leg_count, version |-> o.version,
   reserved |-> o.reserved, slots |-> EncodedSlots(o)]

\* active_leg_wires clamps the leg count everywhere.
ActiveLegWires(o) == SubSeq(o.legs, 1, Smaller(Active(o.leg_count), Len(o.legs)))

\* Mutants of iter_leg_wires: it walks the whole list, or all slots in Rust.
IterWholeList(o) ==
  IF o.language = "rust" THEN SubSeq(o.legs, 1, Active(o.leg_count)) ELSE o.legs

IterAllSlots(o) ==
  IF o.language = "rust" THEN o.legs
  ELSE SubSeq(o.legs, 1, Smaller(o.leg_count, Len(o.legs)))

\* iter_leg_wires and leg_wire clamp it in Rust only.
IterLegWires(o) ==
  IF o.language = "rust" THEN SubSeq(o.legs, 1, Active(o.leg_count))
  ELSE SubSeq(o.legs, 1, Smaller(o.leg_count, Len(o.legs)))

LegWire(o, index) ==
  IF index < Len(IterLegWires(o)) THEN <<IterLegWires(o)[index + 1]>> ELSE <<>>

\* The place of the first slot that is no leg, one past the end if there is none.
FirstBad(wires) ==
  CHOOSE i \in 1 .. Len(wires) + 1 :
    /\ \A j \in 1 .. i - 1 : LegError(wires[j]) = "ok"
    /\ i <= Len(wires) => LegError(wires[i]) # "ok"

\* iter_legs.  Rust gives a result per slot; the generator of Python gives the
\* legs before the first error and raises it; TypeScript reads all the slots at
\* once and throws the first error, so that no leg is seen.
IterLegs(o) ==
  LET wires == IterLegWires(o)
      results == [i \in DOMAIN wires |-> LegResult(wires[i])]
      bad == FirstBad(wires)
  IN  IF bad > Len(wires) \/ o.language = "rust" THEN results
      ELSE IF o.language = "python" THEN SubSeq(results, 1, bad)
      ELSE <<results[bad]>>

\* A walk that meets an error.
Refuses(results) == \E i \in DOMAIN results : results[i][1] # "leg"

\* get_taker_metadata: any option byte but 0 means present.
TakerMetadata(o) == IF o.option = 0 THEN <<>> ELSE <<o.metadata>>
=============================================================================
