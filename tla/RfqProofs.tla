------------------------------ MODULE RfqProofs ------------------------------
(***************************************************************************)
(* The properties of RfqFlow for every number of slots, every set of slot  *)
(* contents, assets and windows, and any text of any peer.                 *)
(*                                                                         *)
(* All rest on one fact about sequences: the active and the inactive slots *)
(* of a buffer, cut apart by a decoder, join up to the slots again.        *)
(***************************************************************************)
EXTENDS RfqFlow, SequenceTheorems, WellFoundedInduction, TLAPS

USE DEF Smaller

-----------------------------------------------------------------------------
(* Slots *)

\* A cut at the leg count leaves two parts that join up again.
LEMMA CutSlots ==
  ASSUME NEW slots \in [1 .. MaxLegs -> LegWires], NEW n \in 0 .. MaxLegs
  PROVE  LET front == SubSeq(slots, 1, n)
             back == SubSeq(slots, n + 1, MaxLegs)
         IN  /\ slots \in Seq(LegWires) /\ Len(slots) = MaxLegs
             /\ front \in Seq(LegWires) /\ Len(front) = n
             /\ back \in Seq(LegWires) /\ Len(back) = MaxLegs - n
             /\ front \o back = slots
             /\ SubSeq(slots, 1, MaxLegs) = slots
<1>1. slots \in Seq(LegWires) /\ Len(slots) = MaxLegs
  BY RfqAssumption
<1>2. /\ SubSeq(slots, 1, n) \in Seq(LegWires)
      /\ Len(SubSeq(slots, 1, n)) = n
  <2>1. \A i \in 1 .. n : slots[i] \in LegWires
    BY RfqAssumption
  <2> QED  BY <2>1, SubSeqProperties, RfqAssumption, SMTT(30)
<1>3. /\ SubSeq(slots, n + 1, MaxLegs) \in Seq(LegWires)
      /\ Len(SubSeq(slots, n + 1, MaxLegs)) = MaxLegs - n
  <2>1. \A i \in n + 1 .. MaxLegs : slots[i] \in LegWires
    BY RfqAssumption
  <2> QED  BY <2>1, SubSeqProperties, RfqAssumption, SMTT(30)
<1>4. SubSeq(slots, 1, n) \o SubSeq(slots, n + 1, MaxLegs) = SubSeq(slots, 1, MaxLegs)
  <2>1. 1 \in 1 .. Len(slots) + 1 /\ n \in 1 - 1 .. Len(slots) /\ MaxLegs \in n .. Len(slots)
    BY <1>1, RfqAssumption
  <2> QED  BY <1>1, <2>1, ConcatAdjacentSubSeq
<1>5. SubSeq(slots, 1, MaxLegs) = slots
  BY <1>1, SubSeqFull
<1> QED  BY <1>1, <1>2, <1>3, <1>4, <1>5

LEMMA ZeroSlotsType ==
  ASSUME NEW n \in Nat
  PROVE  ZeroSlots(n) \in Seq(LegWires) /\ Len(ZeroSlots(n)) = n
BY RfqAssumption DEF ZeroSlots

LEMMA ActiveType ==
  ASSUME NEW n \in Nat
  PROVE  /\ Active(n) \in 0 .. MaxLegs
         /\ Smaller(n, Active(n)) = Active(n)
         /\ n <= MaxLegs => Active(n) = n
BY RfqAssumption DEF Active

\* The front of a sequence that is cut at its own length.
LEMMA FrontOfJoin ==
  ASSUME NEW s \in Seq(LegWires), NEW t \in Seq(LegWires)
  PROVE  SubSeq(s \o t, 1, Len(s)) = s
<1> DEFINE front == SubSeq(s \o t, 1, Len(s))
<1>1. /\ s \o t \in Seq(LegWires)
      /\ Len(s \o t) = Len(s) + Len(t)
      /\ \A i \in 1 .. Len(s) : (s \o t)[i] = s[i]
      /\ Len(s) \in Nat /\ Len(t) \in Nat
  BY ConcatProperties, LenProperties
<1>2. \A i \in 1 .. Len(s) : (s \o t)[i] \in LegWires
  BY <1>1, ElementOfSeq
<1>3. front \in Seq(LegWires) /\ Len(front) = Len(s)
      /\ \A i \in 1 .. Len(s) : front[i] = s[i]
  <2>1. /\ front \in Seq(LegWires)
        /\ Len(front) = IF 1 <= Len(s) THEN Len(s) - 1 + 1 ELSE 0
        /\ \A i \in 1 .. Len(s) - 1 + 1 : front[i] = (s \o t)[1 + i - 1]
    BY <1>1, <1>2, SubSeqProperties
  <2>2. \A i \in 1 .. Len(s) : front[i] = (s \o t)[i]
    <3>1. SUFFICES ASSUME NEW i \in 1 .. Len(s)  PROVE  front[i] = (s \o t)[i]
      OBVIOUS
    <3>2. i \in 1 .. Len(s) - 1 + 1 /\ 1 + i - 1 = i
      BY <1>1
    <3> HIDE DEF front
    <3> QED  BY <2>1, <3>2
  <2> HIDE DEF front
  <2> QED  BY <1>1, <2>1, <2>2
<1> HIDE DEF front
<1>4. front = s
  BY <1>3, SeqEqual
<1> QED  BY <1>4 DEF front

-----------------------------------------------------------------------------
(* Decoding and encoding *)

LEMMA BufferParts ==
  ASSUME NEW b \in Buffer
  PROVE  /\ b.leg_count \in Nat
         /\ b.slots \in [1 .. MaxLegs -> LegWires]
         /\ Active(b.leg_count) \in 0 .. MaxLegs
BY ActiveType DEF Buffer

LEMMA DecodedLegs ==
  ASSUME NEW b \in Buffer, NEW language \in Languages
  PROVE  LET o == FromBytes(language, b)
             n == Active(b.leg_count)
         IN  /\ o \in Object
             /\ o.leg_count = b.leg_count
             /\ language = "rust" => Len(o.legs) = MaxLegs
             /\ language \in Listed => Len(o.legs) = n /\ Len(o.inactive) = MaxLegs - n
             /\ IterLegWires(o) = SubSeq(b.slots, 1, n)
             /\ ActiveLegWires(o) = SubSeq(b.slots, 1, n)
             /\ CanEncode(o)
             /\ ToBytes(o) = b
<1> DEFINE o == FromBytes(language, b)
           n == Active(b.leg_count)
           front == SubSeq(b.slots, 1, n)
           back == SubSeq(b.slots, n + 1, MaxLegs)
<1>1. b.leg_count \in Nat /\ n \in 0 .. MaxLegs /\ b.slots \in [1 .. MaxLegs -> LegWires]
  BY BufferParts
<1>2. /\ b.slots \in Seq(LegWires) /\ Len(b.slots) = MaxLegs
      /\ front \in Seq(LegWires) /\ Len(front) = n
      /\ back \in Seq(LegWires) /\ Len(back) = MaxLegs - n
      /\ front \o back = b.slots
      /\ SubSeq(b.slots, 1, MaxLegs) = b.slots
  BY <1>1, CutSlots
<1>3. SubSeq(front, 1, n) = front
  BY <1>2, SubSeqFull
<1>4. Smaller(b.leg_count, n) = n /\ Smaller(n, MaxLegs) = n /\ Smaller(n, n) = n
  <2>1. Smaller(b.leg_count, n) = n
    BY <1>1, ActiveType
  <2> HIDE DEF n
  <2> QED  BY <1>1, <2>1, RfqAssumption
<1>5. <<>> \in Seq(LegWires)
  OBVIOUS
<1>6. b = [head |-> b.head, option |-> b.option, metadata |-> b.metadata,
           order_type |-> b.order_type, leg_count |-> b.leg_count, version |-> b.version,
           reserved |-> b.reserved, slots |-> b.slots]
  BY DEF Buffer
<1>7. /\ b.head \in Heads /\ b.option \in Nat /\ b.metadata \in Metadata
      /\ b.order_type \in Nat /\ b.version \in Nat /\ b.reserved \in Nat
  BY DEF Buffer
<1>8. CASE language = "rust"
  <2>1. o = RustFromBytes(b)
    BY <1>8 DEF FromBytes
  <2>2. /\ o.language = "rust" /\ o.head = b.head /\ o.option = b.option
        /\ o.metadata = b.metadata /\ o.order_type = b.order_type
        /\ o.leg_count = b.leg_count /\ o.version = b.version /\ o.reserved = b.reserved
        /\ o.legs = b.slots /\ o.inactive = <<>>
    BY <2>1 DEF RustFromBytes
  <2>3. o \in Object
    BY <1>1, <1>2, <1>5, <1>7, <2>1 DEF RustFromBytes, Object, Languages
  <2>4. EncodedSlots(o) = b.slots
    BY <2>2 DEF EncodedSlots
  <2>5. ToBytes(o) = b
    BY <2>2, <2>4, <1>6 DEF ToBytes
  <2>6. CanEncode(o) /\ language \notin Listed
    BY <2>2, <1>8 DEF CanEncode, Listed
  <2> HIDE DEF o, front, back
  <2>7. IterLegWires(o) = front
    BY <2>2 DEF IterLegWires, front
  <2>8. ActiveLegWires(o) = front
    BY <2>2, <1>2, <1>4 DEF ActiveLegWires, front
  <2> QED  BY <1>2, <1>8, <2>2, <2>3, <2>5, <2>6, <2>7, <2>8 DEF o, front
<1>9. CASE language \in Listed
  <2>1. language # "rust" /\ o = ListedFromBytes(language, b)
    BY <1>9 DEF FromBytes, Listed
  <2> HIDE DEF o
  <2>2. /\ o.language = language /\ o.head = b.head /\ o.option = b.option
        /\ o.metadata = b.metadata /\ o.order_type = b.order_type
        /\ o.leg_count = b.leg_count /\ o.version = b.version /\ o.reserved = b.reserved
        /\ o.legs = front /\ o.inactive = back
    BY <2>1 DEF ListedFromBytes
  <2>3. o \in Object
    <3>1. /\ o = [language |-> language, head |-> b.head, option |-> b.option,
                   metadata |-> b.metadata, order_type |-> b.order_type,
                   leg_count |-> b.leg_count, version |-> b.version,
                   reserved |-> b.reserved, legs |-> front, inactive |-> back]
      BY <2>1 DEF ListedFromBytes
    <3> HIDE DEF front, back
    <3> QED  BY <1>1, <1>2, <1>7, <3>1 DEF Object
  <2> HIDE DEF front, back
  <2>4. EncodedSlots(o) = b.slots
    <3>1. EncodedSlots(o) = front \o (IF back = <<>> THEN ZeroSlots(MaxLegs - n) ELSE back)
      BY <2>1, <2>2, <1>3 DEF EncodedSlots
    <3>2. CASE back = <<>>
      <4>1. MaxLegs - n = 0
        BY <1>2, <3>2
      <4>2. ZeroSlots(MaxLegs - n) = <<>>
        BY <4>1, ZeroSlotsType, EmptySeq
      <4> QED  BY <1>2, <3>1, <3>2, <4>2
    <3> QED  BY <1>2, <3>1, <3>2
  <2>5. ToBytes(o) = b
    BY <2>2, <2>4, <1>6 DEF ToBytes
  <2>6. CanEncode(o)
    BY <1>1, <1>2, <2>2, RfqAssumption DEF CanEncode
  <2>7. IterLegWires(o) = front
    BY <2>1, <2>2, <1>2, <1>3, <1>4 DEF IterLegWires
  <2>8. ActiveLegWires(o) = front
    BY <2>2, <1>2, <1>3, <1>4 DEF ActiveLegWires
  <2> QED  BY <1>2, <2>1, <2>2, <2>3, <2>5, <2>6, <2>7, <2>8 DEF o, front
<1> QED  BY <1>8, <1>9 DEF Languages

-----------------------------------------------------------------------------
(* The inductive invariant *)

\* The lists of an object fit its language and its leg count.
SlotsFit ==
  object # NoObject =>
    /\ object.language = "rust" => Len(object.legs) = MaxLegs
    /\ object.language \in Listed => Len(object.inactive) = MaxLegs - Active(object.leg_count)

\* Without an edit an object is the text, decoded.
Unedited ==
  edits = 0 /\ object # NoObject =>
    /\ text \in Buffer
    /\ received = text
    /\ \E language \in Languages : object = FromBytes(language, text)

\* Without an edit the text is the one the server sent.
FromServer ==
  meaning # NoWire =>
    /\ text # NoWire
    /\ Len(meaning.taker) \in {0, 1}
    /\ Len(meaning.legs) \in 1 .. MaxLegs
    /\ edits = 0 =>
         \E head \in Heads :
           text = FromParts(head, meaning.taker, 2, Len(meaning.legs),
                    meaning.legs \o ZeroSlots(MaxLegs - Len(meaning.legs)))

IInv == TypeOK /\ SlotsFit /\ Unedited /\ FromServer

-----------------------------------------------------------------------------
(* What encoding gives *)

\* An object whose lists fit encodes to a buffer that starts with its legs.
LEMMA EncodingFits ==
  ASSUME NEW o \in Object, CanEncode(o),
         o.language = "rust" => Len(o.legs) = MaxLegs,
         o.language \in Listed => Len(o.inactive) = MaxLegs - Active(o.leg_count)
  PROVE  /\ ToBytes(o) \in Buffer
         /\ ToBytes(o).leg_count = o.leg_count
         /\ SubSeq(EncodedSlots(o), 1, Active(o.leg_count))
              = SubSeq(o.legs, 1, Active(o.leg_count))
<1> DEFINE n == Active(o.leg_count)
           front == SubSeq(o.legs, 1, n)
           back == IF o.inactive = <<>> THEN ZeroSlots(MaxLegs - n) ELSE o.inactive
<1>1. /\ o.leg_count \in Nat /\ n \in 0 .. MaxLegs /\ MaxLegs \in Nat
      /\ o.legs \in Seq(LegWires) /\ o.inactive \in Seq(LegWires)
      /\ o.language \in Languages
  BY ActiveType, RfqAssumption DEF Object
<1>2. EncodedSlots(o) \in [1 .. MaxLegs -> LegWires]
      /\ SubSeq(EncodedSlots(o), 1, n) = SubSeq(o.legs, 1, n)
  <2>1. CASE o.language = "rust"
    <3>1. EncodedSlots(o) = o.legs
      BY <2>1 DEF EncodedSlots
    <3> QED  BY <1>1, <2>1, <3>1, LenProperties
  <2>2. CASE o.language \in Listed
    <3>1. EncodedSlots(o) = front \o back
      BY <2>2 DEF EncodedSlots, Listed
    <3>2. Len(o.legs) >= n
      BY <2>2 DEF CanEncode
    <3>3. front \in Seq(LegWires) /\ Len(front) = n
      <4>1. \A i \in 1 .. n : o.legs[i] \in LegWires
        BY <1>1, <3>2, ElementOfSeq, LenProperties
      <4> HIDE DEF n
      <4> QED  BY <1>1, <4>1, SubSeqProperties
    <3>4. back \in Seq(LegWires) /\ Len(back) = MaxLegs - n
      <4>1. MaxLegs - n \in Nat
        BY <1>1
      <4>2. ZeroSlots(MaxLegs - n) \in Seq(LegWires) /\ Len(ZeroSlots(MaxLegs - n)) = MaxLegs - n
        BY <4>1, ZeroSlotsType
      <4> QED  BY <1>1, <2>2, <4>2
    <3> HIDE DEF n, front, back
    <3>5. front \o back \in Seq(LegWires) /\ Len(front \o back) = MaxLegs
      <4>1. /\ front \o back \in Seq(LegWires)
            /\ Len(front \o back) = Len(front) + Len(back)
        BY <3>3, <3>4, ConcatProperties
      <4>2. n + (MaxLegs - n) = MaxLegs
        BY <1>1
      <4> QED  BY <3>3, <3>4, <4>1, <4>2
    <3>6. front \o back \in [1 .. MaxLegs -> LegWires]
      BY <3>5, LenProperties
    <3>7. SubSeq(front \o back, 1, n) = front
      BY <3>3, <3>4, FrontOfJoin
    <3> QED  BY <3>1, <3>6, <3>7 DEF front
  <2> QED  BY <1>1, <2>1, <2>2 DEF Languages
<1>3. ToBytes(o) \in Buffer /\ ToBytes(o).leg_count = o.leg_count
  BY <1>2 DEF ToBytes, Buffer, Object
<1> QED  BY <1>2, <1>3

\* What the server sends is a buffer.
LEMMA ServerBuffer ==
  ASSUME NEW head \in Heads, NEW taker \in Seq(Metadata), Len(taker) \in {0, 1},
         NEW wires \in Seq(ValidWires), Len(wires) \in 1 .. MaxLegs
  PROVE  LET text_ == FromParts(head, taker, 2, Len(wires),
                        wires \o ZeroSlots(MaxLegs - Len(wires)))
         IN  /\ text_ \in Buffer
             /\ text_.leg_count = Len(wires)
             /\ text_.option = Len(taker)
             /\ text_.metadata = IF taker = <<>> THEN ZeroMetadata ELSE taker[1]
             /\ SubSeq(text_.slots, 1, Active(Len(wires))) = wires
<1> DEFINE n == Len(wires)
           slots == wires \o ZeroSlots(MaxLegs - n)
<1>1. n \in Nat /\ MaxLegs - n \in Nat /\ MaxLegs \in Nat /\ Version \in Nat
  BY RfqAssumption
<1>2. wires \in Seq(LegWires)
  <2>1. ValidWires \subseteq LegWires
    BY DEF ValidWires
  <2> QED  BY <2>1, SeqMonotonic
<1>3. ZeroSlots(MaxLegs - n) \in Seq(LegWires) /\ Len(ZeroSlots(MaxLegs - n)) = MaxLegs - n
  BY <1>1, ZeroSlotsType
<1>4. slots \in Seq(LegWires) /\ Len(slots) = MaxLegs
  BY <1>1, <1>2, <1>3, ConcatProperties
<1>5. slots \in [1 .. MaxLegs -> LegWires]
  <2> HIDE DEF slots
  <2> QED  BY <1>4, LenProperties
<1>6. SubSeq(slots, 1, n) = wires
  BY <1>2, <1>3, FrontOfJoin
<1>7. Active(n) = n
  BY <1>1, ActiveType
<1>8. (IF taker = <<>> THEN ZeroMetadata ELSE taker[1]) \in Metadata
  <2>1. CASE taker = <<>>
    BY <2>1, RfqAssumption
  <2>2. CASE taker # <<>>
    <3>1. Len(taker) = 1
      BY <2>2, EmptySeq
    <3> QED  BY <2>2, <3>1, ElementOfSeq
  <2> QED  BY <2>1, <2>2
<1>9. Len(taker) \in Nat
  OBVIOUS
<1> HIDE DEF n, slots
<1>10. FromParts(head, taker, 2, n, slots) \in Buffer
  BY <1>1, <1>5, <1>8, <1>9 DEF FromParts, Buffer
<1> QED  BY <1>6, <1>7, <1>10 DEF FromParts, n, slots

-----------------------------------------------------------------------------
(* The inductive invariant holds *)

LEMMA InitInvariant == Init => IInv
BY RfqAssumption DEF Init, IInv, TypeOK, SlotsFit, Unedited, FromServer

\* No buffer and no bad text is NoWire, no object is NoObject.
LEMMA Markers ==
  /\ NoWire \notin Buffer /\ NoWire \notin BadText
  /\ NoObject \notin Object
  /\ \A other \in BadText : other \notin Buffer
BY RfqAssumption

LEMMA FunctionIsSequence ==
  ASSUME NEW S, NEW m \in Nat, NEW f \in [1 .. m -> S]
  PROVE  f \in Seq(S) /\ Len(f) = m
OBVIOUS

LEMMA BroadcastStep ==
  ASSUME IInv, NEW head \in Heads, NEW n \in 1 .. MaxLegs,
         NEW taker \in {<<>>} \cup [1 .. 1 -> Metadata],
         NEW wires \in [1 .. n -> ValidWires], Broadcast(head, taker, wires)
  PROVE  IInv'
<1>1. taker \in Seq(Metadata) /\ Len(taker) \in {0, 1}
  <2>1. CASE taker = <<>>
    BY <2>1, EmptySeq
  <2>2. CASE taker \in [1 .. 1 -> Metadata]
    BY <2>2, FunctionIsSequence
  <2> QED  BY <2>1, <2>2
<1>2. wires \in Seq(ValidWires) /\ Len(wires) = n /\ Len(wires) \in 1 .. MaxLegs
  BY RfqAssumption
<1>3. text' \in Buffer
  BY <1>1, <1>2, ServerBuffer DEF Broadcast
<1>4. meaning' \in Meaning
  BY <1>1, <1>2 DEF Broadcast, Meaning
<1>5. TypeOK'
  BY <1>3, <1>4 DEF IInv, TypeOK, Broadcast
<1>6. SlotsFit'
  BY DEF IInv, SlotsFit, Broadcast
<1>7. Unedited'
  BY Markers DEF IInv, Unedited, Broadcast
<1>8. FromServer'
  <2>1. meaning'.taker = taker /\ meaning'.legs = wires
    BY DEF Broadcast
  <2>2. text' # NoWire
    BY <1>3, Markers
  <2>3. text' = FromParts(head, meaning'.taker, 2, Len(meaning'.legs),
                  meaning'.legs \o ZeroSlots(MaxLegs - Len(meaning'.legs)))
    BY <2>1 DEF Broadcast
  <2> QED  BY <1>1, <1>2, <2>1, <2>2, <2>3 DEF FromServer
<1> QED  BY <1>5, <1>6, <1>7, <1>8 DEF IInv

LEMMA IntrudeStep ==
  ASSUME IInv, NEW other \in Intruders, Intrude(other)
  PROVE  IInv'
<1>1. TypeOK'
  BY RfqAssumption DEF IInv, TypeOK, Intrude
<1>2. SlotsFit'
  BY DEF IInv, SlotsFit, Intrude
<1>3. Unedited'
  BY Markers DEF IInv, Unedited, Intrude
<1>4. FromServer'
  BY DEF IInv, FromServer, Intrude
<1> QED  BY <1>1, <1>2, <1>3, <1>4 DEF IInv

LEMMA ReceiveStep ==
  ASSUME IInv, NEW language \in Languages, Receive(language) \/ ReceiveRaw(language)
  PROVE  IInv'
<1>1. text \in Buffer
  <2>1. CASE Receive(language)
    <3>1. text # NoWire /\ text \notin BadText
      BY <2>1 DEF Receive, DecodeError
    <3> QED  BY <3>1 DEF IInv, TypeOK
  <2>2. CASE ReceiveRaw(language)
    BY <2>2 DEF ReceiveRaw
  <2> QED  BY <2>1, <2>2
<1>2. /\ object' = FromBytes(language, text) /\ received' = text
      /\ UNCHANGED <<text, meaning, edits>>
  BY DEF Receive, ReceiveRaw
<1> DEFINE o == FromBytes(language, text)
<1>3. /\ o \in Object /\ o.leg_count = text.leg_count
      /\ language = "rust" => Len(o.legs) = MaxLegs
      /\ language \in Listed => Len(o.inactive) = MaxLegs - Active(text.leg_count)
  BY <1>1, DecodedLegs
<1>4. o.language = language
  BY DEF FromBytes, RustFromBytes, ListedFromBytes
<1> HIDE DEF o
<1>5. TypeOK'
  BY <1>1, <1>2, <1>3 DEF IInv, TypeOK, o
<1>6. SlotsFit'
  BY <1>2, <1>3, <1>4 DEF SlotsFit, o
<1>7. Unedited'
  BY <1>1, <1>2 DEF Unedited
<1>8. FromServer'
  BY <1>2 DEF IInv, FromServer
<1> QED  BY <1>5, <1>6, <1>7, <1>8 DEF IInv

LEMMA EditStep ==
  ASSUME IInv,
         \/ \E wire \in LegWires : PushLeg(wire)
         \/ PopLeg
         \/ \E leg_count \in Counts : SetLegCount(leg_count)
  PROVE  IInv'
<1>1. /\ object # NoObject /\ object \in Object
      /\ edits \in Nat /\ edits' = edits + 1 /\ edits' \in 0 .. MaxEdits /\ edits' # 0
      /\ UNCHANGED <<text, received, meaning>>
  <2>1. /\ object # NoObject /\ edits < MaxEdits /\ edits' = edits + 1
        /\ UNCHANGED <<text, received, meaning>>
    BY DEF PushLeg, PopLeg, SetLegCount
  <2>2. object \in Object /\ edits \in 0 .. MaxEdits
    BY <2>1 DEF IInv, TypeOK
  <2> QED  BY <2>1, <2>2, RfqAssumption
<1>2. /\ object' \in Object
      /\ object'.language = object.language
      /\ object.language = "rust" => object'.legs = object.legs
      /\ object.language \in Listed =>
           object'.leg_count = object.leg_count /\ object'.inactive = object.inactive
  <2>1. ASSUME NEW wire \in LegWires, PushLeg(wire)
        PROVE  <1>2
    <3>1. object.legs \o <<wire>> \in Seq(LegWires)
      BY <1>1, ConcatProperties DEF Object
    <3>2. object' = [object EXCEPT !.legs = object.legs \o <<wire>>]
      BY <2>1 DEF PushLeg
    <3>3. object.language # "rust"
      BY <2>1 DEF PushLeg, Listed
    <3> QED  BY <1>1, <3>1, <3>2, <3>3 DEF Object
  <2>2. ASSUME PopLeg
        PROVE  <1>2
    <3>1. object.legs \in Seq(LegWires)
      BY <1>1 DEF Object
    <3>2. SubSeq(object.legs, 1, Len(object.legs) - 1) \in Seq(LegWires)
      <4>1. Len(object.legs) \in Nat
        BY <3>1
      <4>2. \A i \in 1 .. Len(object.legs) - 1 : object.legs[i] \in LegWires
        BY <3>1, <4>1, ElementOfSeq
      <4> QED  BY <4>1, <4>2, SubSeqProperties
    <3>3. object' = [object EXCEPT !.legs = SubSeq(object.legs, 1, Len(object.legs) - 1)]
      BY <2>2 DEF PopLeg
    <3>4. object.language # "rust"
      BY <2>2 DEF PopLeg, Listed
    <3> QED  BY <1>1, <3>2, <3>3, <3>4 DEF Object
  <2>3. ASSUME NEW leg_count \in Counts, SetLegCount(leg_count)
        PROVE  <1>2
    <3>1. leg_count \in Nat
      BY RfqAssumption
    <3>2. object' = [object EXCEPT !.leg_count = leg_count] /\ object.language = "rust"
      BY <2>3 DEF SetLegCount
    <3> QED  BY <1>1, <3>1, <3>2 DEF Object, Listed
  <2> QED  BY <2>1, <2>2, <2>3
<1>3. TypeOK'
  BY <1>1, <1>2 DEF IInv, TypeOK
<1>4. SlotsFit'
  BY <1>1, <1>2 DEF IInv, SlotsFit
<1>5. Unedited'
  BY <1>1 DEF Unedited
<1>6. FromServer'
  BY <1>1 DEF IInv, FromServer
<1> QED  BY <1>3, <1>4, <1>5, <1>6 DEF IInv

\* An unedited object encodes to what it was decoded from.
LEMMA UneditedEncoding ==
  ASSUME IInv, edits = 0, object # NoObject
  PROVE  CanEncode(object) /\ ToBytes(object) = received /\ received = text
<1>1. PICK language \in Languages : object = FromBytes(language, text)
  BY DEF IInv, Unedited
<1>2. text \in Buffer /\ received = text
  BY DEF IInv, Unedited
<1> QED  BY <1>1, <1>2, DecodedLegs

LEMMA RelayStep ==
  ASSUME IInv, Relay
  PROVE  IInv'
<1>1. /\ object # NoObject /\ object \in Object /\ CanEncode(object)
      /\ text' = ToBytes(object) /\ object' = NoObject
      /\ UNCHANGED <<received, meaning, edits>>
  BY DEF IInv, TypeOK, Relay
<1>2. text' \in Buffer
  BY <1>1, EncodingFits DEF IInv, SlotsFit
<1>3. TypeOK'
  BY <1>1, <1>2 DEF IInv, TypeOK
<1>4. SlotsFit' /\ Unedited'
  BY <1>1 DEF SlotsFit, Unedited
<1>5. edits = 0 => text' = text
  BY <1>1, UneditedEncoding
<1>6. FromServer'
  BY <1>1, <1>2, <1>5, Markers DEF IInv, FromServer
<1> QED  BY <1>3, <1>4, <1>6 DEF IInv

LEMMA Invariant == Spec => []IInv
<1>1. IInv /\ [Next]_vars => IInv'
  <2>1. ASSUME IInv, Next  PROVE IInv'
    BY <2>1, BroadcastStep, IntrudeStep, ReceiveStep, EditStep, RelayStep DEF Next
  <2>2. ASSUME IInv, UNCHANGED vars  PROVE IInv'
    BY <2>2 DEF IInv, TypeOK, SlotsFit, Unedited, FromServer, vars
  <2> QED  BY <2>1, <2>2
<1> QED  BY InitInvariant, <1>1, PTL DEF Spec

-----------------------------------------------------------------------------
(* The properties *)

\* The states of the flow have their types: what is relayed is always 280
\* bytes, whatever was edited (BroadcastRfqRequest::to_bytes).
THEOREM TypeCorrect == Spec => []TypeOK
<1>1. IInv => TypeOK
  BY DEF IInv
<1> QED  BY Invariant, <1>1, PTL

\* Decoding and encoding an unedited broadcast loses no byte, in any language.
THEOREM RelaysLoseNothing == Spec => []RelayIsLossless
<1>1. IInv => RelayIsLossless
  BY UneditedEncoding DEF RelayIsLossless
<1> QED  BY Invariant, <1>1, PTL

\* The first bad slot is there whenever any slot is bad.
LEMMA FirstBadIs ==
  ASSUME NEW wires \in Seq(LegWires)
  PROVE  /\ FirstBad(wires) \in 1 .. Len(wires) + 1
         /\ FirstBad(wires) <= Len(wires) => LegError(wires[FirstBad(wires)]) # "ok"
         /\ FirstBad(wires) > Len(wires) <=>
              \A i \in DOMAIN wires : LegError(wires[i]) = "ok"
<1> DEFINE Bad == {i \in DOMAIN wires : LegError(wires[i]) # "ok"}
           First(i) == /\ \A j \in 1 .. i - 1 : LegError(wires[j]) = "ok"
                       /\ i <= Len(wires) => LegError(wires[i]) # "ok"
<1>1. Len(wires) \in Nat /\ DOMAIN wires = 1 .. Len(wires)
  OBVIOUS
<1>2. \E i \in 1 .. Len(wires) + 1 : First(i)
  <2>1. CASE Bad = {}
    BY <1>1, <2>1
  <2>2. CASE Bad # {}
    <3> DEFINE R == {pair \in Nat \X Nat : pair[1] < pair[2]}
    <3>1. IsWellFoundedOn(R, Nat)
      BY NatLessThanWellFounded DEF OpToRel
    <3>2. PICK i \in Bad : \A j \in Bad : ~(j < i)
      <4>1. Bad \subseteq Nat
        BY <1>1
      <4>2. \A j, k \in Nat : j < k => <<j, k>> \in R
        OBVIOUS
      <4>3. Bad # {}
        BY <2>2
      <4> HIDE DEF Bad, R
      <4>4. PICK i \in Bad : \A j \in Bad : <<j, i>> \notin R
        BY <3>1, <4>1, <4>3, WFMin
      <4> QED
        BY <4>1, <4>4, <4>2
    <3>3. i \in 1 .. Len(wires) /\ LegError(wires[i]) # "ok"
      BY <1>1, <3>2
    <3>4. \A j \in 1 .. i - 1 : LegError(wires[j]) = "ok"
      BY <1>1, <3>2, <3>3
    <3> QED
      BY <1>1, <3>3, <3>4
  <2> QED
    BY <2>1, <2>2
<1>3. FirstBad(wires) \in 1 .. Len(wires) + 1 /\ First(FirstBad(wires))
  BY <1>2 DEF FirstBad
<1> HIDE DEF Bad
<1> QED
  BY <1>1, <1>3

\* A walk gives the legs when all slots are legs, and an error otherwise.
LEMMA Walk ==
  ASSUME NEW o, NEW wires \in Seq(LegWires), IterLegWires(o) = wires
  PROVE  /\ (\A i \in DOMAIN wires : LegError(wires[i]) = "ok") =>
              IterLegs(o) = [i \in DOMAIN wires |-> LegResult(wires[i])]
         /\ ~(\A i \in DOMAIN wires : LegError(wires[i]) = "ok") => Refuses(IterLegs(o))
<1> DEFINE results == [i \in DOMAIN wires |-> LegResult(wires[i])]
           bad == FirstBad(wires)
<1>1. Len(wires) \in Nat /\ DOMAIN wires = 1 .. Len(wires)
  OBVIOUS
<1>2. IterLegs(o) = IF bad > Len(wires) \/ o.language = "rust" THEN results
                    ELSE IF o.language = "python" THEN SubSeq(results, 1, bad)
                    ELSE <<results[bad]>>
  BY DEF IterLegs
<1>3. CASE \A i \in DOMAIN wires : LegError(wires[i]) = "ok"
  BY <1>2, <1>3, FirstBadIs
<1>4. CASE ~(\A i \in DOMAIN wires : LegError(wires[i]) = "ok")
  <2>1. bad \in 1 .. Len(wires) /\ LegError(wires[bad]) # "ok"
    BY <1>1, <1>4, FirstBadIs
  <2>2. results[bad][1] # "leg"
    BY <1>1, <2>1 DEF LegResult, LegError
  <2> HIDE DEF bad
  <2>3. results \in Seq({LegResult(wires[i]) : i \in DOMAIN wires}) /\ Len(results) = Len(wires)
    BY <1>1
  <2> HIDE DEF results
  <2>4. /\ DOMAIN results = DOMAIN wires
        /\ DOMAIN SubSeq(results, 1, bad) = 1 .. bad /\ SubSeq(results, 1, bad)[bad] = results[bad]
    BY <1>1, <2>1, <2>3
  <2>5. DOMAIN <<results[bad]>> = {1} /\ <<results[bad]>>[1] = results[bad]
    OBVIOUS
  <2>6. Refuses(results)
    BY <2>1, <2>2, <2>4, <1>1 DEF Refuses
  <2>7. Refuses(SubSeq(results, 1, bad))
    <3>1. /\ bad \in DOMAIN SubSeq(results, 1, bad)
          /\ SubSeq(results, 1, bad)[bad][1] # "leg"
      BY <2>1, <2>2, <2>4
    <3> QED
      BY <3>1, Zenon DEF Refuses
  <2>8. Refuses(<<results[bad]>>)
    BY <2>2, <2>5 DEF Refuses
  <2> QED
    BY <1>2, <1>4, <2>6, <2>7, <2>8
<1> QED
  BY <1>3, <1>4

\* All languages see the same legs and taker in the same buffer.
THEOREM LanguagesAgree == Spec => []SameViewInEveryLanguage
<1>1. ASSUME IInv, text \in Buffer, NEW a \in Languages, NEW b \in Languages
      PROVE  LET p == FromBytes(a, text)
                 q == FromBytes(b, text)
             IN  /\ IterLegWires(p) = IterLegWires(q)
                 /\ ActiveLegWires(p) = ActiveLegWires(q)
                 /\ \A i \in 0 .. MaxLegs : LegWire(p, i) = LegWire(q, i)
                 /\ TakerMetadata(p) = TakerMetadata(q)
                 /\ \/ IterLegs(p) = IterLegs(q)
                    \/ Refuses(IterLegs(p)) /\ Refuses(IterLegs(q))
                 /\ ToBytes(p) = ToBytes(q)
  <2> DEFINE p == FromBytes(a, text)
             q == FromBytes(b, text)
             wires == SubSeq(text.slots, 1, Active(text.leg_count))
  <2>1. /\ IterLegWires(p) = IterLegWires(q)
        /\ ActiveLegWires(p) = ActiveLegWires(q)
        /\ ToBytes(p) = ToBytes(q)
    BY <1>1, DecodedLegs
  <2>3. IterLegWires(p) = wires /\ IterLegWires(q) = wires
    BY <1>1, DecodedLegs
  <2>4. wires \in Seq(LegWires)
    BY <1>1, BufferParts, CutSlots
  <2>5. TakerMetadata(p) = TakerMetadata(q)
    BY <1>1 DEF FromBytes, RustFromBytes, ListedFromBytes, TakerMetadata
  <2> HIDE DEF p, q, wires
  <2>6. \/ IterLegs(p) = IterLegs(q)
        \/ Refuses(IterLegs(p)) /\ Refuses(IterLegs(q))
    BY <2>3, <2>4, Walk
  <2>2. \A i \in 0 .. MaxLegs : LegWire(p, i) = LegWire(q, i)
    BY <2>1 DEF LegWire
  <2> QED  BY <2>1, <2>2, <2>5, <2>6 DEF p, q
<1>2. IInv => SameViewInEveryLanguage
  BY <1>1 DEF SameViewInEveryLanguage
<1> QED  BY Invariant, <1>2, PTL

\* An edited object walks the legs that the process it is relayed to will walk.
THEOREM PeersSeeEdits == Spec => []EditsAreSeenByPeers
<1>1. ASSUME IInv, object # NoObject, object.leg_count <= MaxLegs, CanEncode(object),
             NEW language \in Languages
      PROVE  IterLegWires(FromBytes(language, ToBytes(object))) = IterLegWires(object)
  <2> DEFINE n == Active(object.leg_count)
             b == ToBytes(object)
  <2>1. object \in Object /\ object.leg_count \in Nat /\ object.language \in Languages
    BY <1>1 DEF IInv, TypeOK, Object
  <2>2. n = object.leg_count
    BY <1>1, <2>1, ActiveType
  <2>3. /\ b \in Buffer /\ b.leg_count = object.leg_count
        /\ SubSeq(EncodedSlots(object), 1, n) = SubSeq(object.legs, 1, n)
    BY <1>1, <2>1, EncodingFits DEF IInv, SlotsFit
  <2>4. b.slots = EncodedSlots(object)
    BY DEF ToBytes
  <2> HIDE DEF b
  <2>5. IterLegWires(FromBytes(language, b)) = SubSeq(object.legs, 1, n)
    BY <2>3, <2>4, DecodedLegs
  <2>6. IterLegWires(object) = SubSeq(object.legs, 1, n)
    <3>1. CASE object.language = "rust"
      BY <3>1 DEF IterLegWires
    <3>2. CASE object.language \in Listed
      <4>1. Len(object.legs) \in Nat
        BY <2>1 DEF Object
      <4>2. Len(object.legs) >= object.leg_count
        BY <1>1, <2>2, <3>2 DEF CanEncode
      <4>3. Smaller(object.leg_count, Len(object.legs)) = n
        BY <2>1, <2>2, <4>1, <4>2
      <4> QED  BY <3>2, <4>3 DEF IterLegWires, Listed
    <3> QED  BY <2>1, <3>1, <3>2 DEF Languages
  <2> QED  BY <2>5, <2>6 DEF b
<1>2. IInv => EditsAreSeenByPeers
  BY <1>1 DEF EditsAreSeenByPeers
<1> QED  BY Invariant, <1>2, PTL

\* A valid slot is read as a leg that encodes back to the slot.
LEMMA LegRoundTrip ==
  ASSUME NEW wire \in ValidWires
  PROVE  LegToWire(Leg(wire)) = wire
<1>1. /\ wire \in [type_tag : Nat, direction : Nat, type_value : Nat,
                   price_window_secs : Nat, rest : Nat]
      /\ LegError(wire) = "ok"
  BY RfqAssumption DEF ValidWires
<1>2. wire = [type_tag |-> wire.type_tag, direction |-> wire.direction,
              type_value |-> wire.type_value,
              price_window_secs |-> wire.price_window_secs, rest |-> wire.rest]
  BY <1>1
<1>3. CASE wire.type_tag = PriceStrikeTag
  <2>1. Leg(wire).leg_type = <<"PriceStrike", wire.type_value, wire.price_window_secs>>
    BY <1>3 DEF Leg
  <2>2. Leg(wire).direction = wire.direction /\ Leg(wire).rest = wire.rest
    BY DEF Leg
  <2> QED  BY <1>2, <1>3, <2>1, <2>2 DEF LegToWire
<1>4. CASE wire.type_tag # PriceStrikeTag
  <2>1. Leg(wire).leg_type = <<"BinaryEvent">>
    BY <1>4 DEF Leg
  <2>2. Leg(wire).direction = wire.direction /\ Leg(wire).rest = wire.rest
    BY DEF Leg
  <2>3. /\ wire.type_tag = BinaryEventTag
        /\ wire.type_value = 0 /\ wire.price_window_secs = 0
    BY <1>1, <1>4 DEF LegError
  <2> QED  BY <1>2, <2>1, <2>2, <2>3 DEF LegToWire
<1> QED  BY <1>3, <1>4

\* A market maker sees the legs and the taker that the server meant.
THEOREM ServersAreUnderstood == Spec => []ServerIsUnderstood
<1>1. ASSUME IInv, object # NoObject, meaning # NoWire, edits = 0
      PROVE  /\ TakerMetadata(object) = meaning.taker
             /\ meaning.taker = <<>> => object.metadata = ZeroMetadata
             /\ IterLegs(object) =
                  [i \in DOMAIN meaning.legs |-> <<"leg", Leg(meaning.legs[i])>>]
             /\ \A i \in DOMAIN meaning.legs :
                  LegToWire(Leg(meaning.legs[i])) = IterLegWires(object)[i]
  <2>1. PICK language \in Languages : object = FromBytes(language, text)
    BY <1>1 DEF IInv, Unedited
  <2>2. text \in Buffer
    BY <1>1 DEF IInv, Unedited
  <2>3. /\ meaning.taker \in Seq(Metadata) /\ Len(meaning.taker) \in {0, 1}
        /\ meaning.legs \in Seq(ValidWires) /\ Len(meaning.legs) \in 1 .. MaxLegs
    BY <1>1 DEF IInv, TypeOK, Meaning, FromServer
  <2>4. PICK head \in Heads :
          text = FromParts(head, meaning.taker, 2, Len(meaning.legs),
                   meaning.legs \o ZeroSlots(MaxLegs - Len(meaning.legs)))
    BY <1>1 DEF IInv, FromServer
  <2>5. /\ text.leg_count = Len(meaning.legs) /\ text.option = Len(meaning.taker)
        /\ text.metadata = IF meaning.taker = <<>> THEN ZeroMetadata ELSE meaning.taker[1]
        /\ SubSeq(text.slots, 1, Active(text.leg_count)) = meaning.legs
    BY <2>3, <2>4, ServerBuffer
  <2>6. IterLegWires(object) = meaning.legs
    BY <2>1, <2>2, <2>5, DecodedLegs
  <2>7. object.option = text.option /\ object.metadata = text.metadata
    BY <2>1 DEF FromBytes, RustFromBytes, ListedFromBytes
  <2>8. TakerMetadata(object) = meaning.taker
    <3>1. CASE meaning.taker = <<>>
      BY <3>1, <2>5, <2>7, EmptySeq DEF TakerMetadata
    <3>2. CASE meaning.taker # <<>>
      <4>1. Len(meaning.taker) = 1
        BY <2>3, <3>2, EmptySeq
      <4>2. TakerMetadata(object) = <<meaning.taker[1]>>
        BY <2>5, <2>7, <3>2, <4>1 DEF TakerMetadata
      <4>3. meaning.taker[1] \in Metadata
        BY <2>3, <4>1, ElementOfSeq
      <4>4. <<meaning.taker[1]>> \in Seq(Metadata)
        BY <4>3
      <4> QED  BY <2>3, <4>1, <4>2, <4>4, SeqEqual
    <3> QED  BY <3>1, <3>2
  <2>9. \A i \in DOMAIN meaning.legs : meaning.legs[i] \in ValidWires
    BY <2>3, LenProperties, ElementOfSeq
  <2>10. IterLegs(object) = [i \in DOMAIN meaning.legs |-> <<"leg", Leg(meaning.legs[i])>>]
    <3>1. meaning.legs \in Seq(LegWires)
      BY <2>3 DEF ValidWires
    <3>2. \A i \in DOMAIN meaning.legs :
            LegResult(meaning.legs[i]) = <<"leg", Leg(meaning.legs[i])>>
      BY <2>9 DEF LegResult, ValidWires
    <3>3. IterLegs(object) = [i \in DOMAIN meaning.legs |-> LegResult(meaning.legs[i])]
      BY <2>6, <2>9, <3>1, Walk DEF ValidWires
    <3> QED  BY <3>2, <3>3
  <2>11. \A i \in DOMAIN meaning.legs :
           LegToWire(Leg(meaning.legs[i])) = IterLegWires(object)[i]
    BY <2>6, <2>9, LegRoundTrip
  <2> QED  BY <2>5, <2>7, <2>8, <2>10, <2>11
<1>2. IInv => ServerIsUnderstood
  BY <1>1 DEF ServerIsUnderstood
<1> QED  BY Invariant, <1>2, PTL
=============================================================================
