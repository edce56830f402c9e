------------------------------- MODULE RfqFlow -------------------------------
(***************************************************************************)
(* RFQ broadcasts on their way: the server encodes one, market makers      *)
(* decode it, walk its legs, may edit the object, and may encode it again  *)
(* for another process (a relay, a log, a replay), in any language each    *)
(* time.  Peers of another version may send any bytes.                     *)
(***************************************************************************)
EXTENDS RfqWire

VARIABLES
  text,      \* the rfq.data text last put on a socket
  object,    \* the BroadcastRfqRequest a process works on
  received,  \* history: the buffer it was decoded from
  meaning,   \* history: what the server meant, once it has broadcast
  edits      \* history: how often an object was edited

vars == <<text, object, received, meaning, edits>>

Meaning == [taker : Seq(Metadata), legs : Seq(ValidWires)]

TypeOK ==
  /\ text \in Buffer \cup BadText \cup {NoWire}
  /\ object \in Object \cup {NoObject}
  /\ received \in Buffer \cup {NoWire}
  /\ meaning \in Meaning \cup {NoWire}
  /\ edits \in 0 .. MaxEdits

Init ==
  /\ text = NoWire
  /\ object = NoObject
  /\ received = NoWire
  /\ meaning = NoWire
  /\ edits = 0

\* The server broadcasts legs that it has validated, showing the taker or not.
Broadcast(head, taker, wires) ==
  /\ text = NoWire
  /\ text' = FromParts(head, taker, 2, Len(wires),
               wires \o ZeroSlots(MaxLegs - Len(wires)))
  /\ meaning' = [taker |-> taker, legs |-> wires]
  /\ UNCHANGED <<object, received, edits>>

\* Some other peer sends some other text.
Intrude(other) ==
  /\ text = NoWire
  /\ text' = other
  /\ UNCHANGED <<object, received, meaning, edits>>

\* decode_broadcast_rfq.
Receive(language) ==
  /\ text # NoWire
  /\ object = NoObject
  /\ DecodeError(text) = "ok"
  /\ object' = FromBytes(language, text)
  /\ received' = text
  /\ UNCHANGED <<text, meaning, edits>>

\* from_bytes alone, which looks at the size only.
ReceiveRaw(language) ==
  /\ text \in Buffer
  /\ object = NoObject
  /\ object' = FromBytes(language, text)
  /\ received' = text
  /\ UNCHANGED <<text, meaning, edits>>

\* The legs list of TypeScript and Python can grow and shrink ...
PushLeg(wire) ==
  /\ object # NoObject
  /\ edits < MaxEdits
  /\ object.language \in Listed
  /\ Len(object.legs) <= MaxLegs
  /\ object' = [object EXCEPT !.legs = @ \o <<wire>>]
  /\ edits' = edits + 1
  /\ UNCHANGED <<text, received, meaning>>

PopLeg ==
  /\ object # NoObject
  /\ edits < MaxEdits
  /\ object.language \in Listed
  /\ object.legs # <<>>
  /\ object' = [object EXCEPT !.legs = SubSeq(@, 1, Len(@) - 1)]
  /\ edits' = edits + 1
  /\ UNCHANGED <<text, received, meaning>>

\* ... and in Rust the leg count is a public field.
SetLegCount(leg_count) ==
  /\ object # NoObject
  /\ edits < MaxEdits
  /\ object.language = "rust"
  /\ object' = [object EXCEPT !.leg_count = leg_count]
  /\ edits' = edits + 1
  /\ UNCHANGED <<text, received, meaning>>

\* to_bytes, and the text goes on to another process.
Relay ==
  /\ object # NoObject
  /\ CanEncode(object)
  /\ text' = ToBytes(object)
  /\ object' = NoObject
  /\ UNCHANGED <<received, meaning, edits>>

Next ==
  \/ \E head \in Heads, n \in 1 .. MaxLegs :
       \E taker \in {<<>>} \cup [1 .. 1 -> Metadata], wires \in [1 .. n -> ValidWires] :
         Broadcast(head, taker, wires)
  \/ \E other \in Intruders : Intrude(other)
  \/ \E language \in Languages : Receive(language) \/ ReceiveRaw(language)
  \/ \E wire \in LegWires : PushLeg(wire)
  \/ PopLeg
  \/ \E leg_count \in Counts : SetLegCount(leg_count)
  \/ Relay

Spec == Init /\ [][Next]_vars

-----------------------------------------------------------------------------
(* Properties *)

\* Whatever happens on the way, a process that decodes an unedited RFQ of the
\* server sees the taker the server showed or none, and exactly its legs in
\* order, each a leg that encodes back to its slot: no language loses, adds,
\* reorders or reinterprets a leg, and a shielded taker stays shielded.
ServerIsUnderstood ==
  object # NoObject /\ meaning # NoWire /\ edits = 0 =>
    /\ TakerMetadata(object) = meaning.taker
    /\ meaning.taker = <<>> => object.metadata = ZeroMetadata
    /\ IterLegs(object) = [i \in DOMAIN meaning.legs |-> <<"leg", Leg(meaning.legs[i])>>]
    /\ \A i \in DOMAIN meaning.legs : LegToWire(Leg(meaning.legs[i])) = IterLegWires(object)[i]

\* Encoding an unedited object gives back every byte it was decoded from, also
\* of inactive slots, retired tags, absent metadata and reserved bytes, and for
\* leg counts beyond the maximum (rfq_leg_wire_decoder_round_trips_inactive_padding).
RelayIsLossless ==
  object # NoObject /\ edits = 0 => CanEncode(object) /\ ToBytes(object) = received

\* A buffer shows the same taker and the same legs, and has the same encoding,
\* in every language, although the objects differ.  A walk over the legs is the
\* same, or meets a slot that is no leg in both languages, however much of it
\* they give before that.
SameViewInEveryLanguage ==
  text \in Buffer =>
    \A a, b \in Languages :
      LET p == FromBytes(a, text)
          q == FromBytes(b, text)
      IN  /\ IterLegWires(p) = IterLegWires(q)
          /\ ActiveLegWires(p) = ActiveLegWires(q)
          /\ \A i \in 0 .. MaxLegs : LegWire(p, i) = LegWire(q, i)
          /\ TakerMetadata(p) = TakerMetadata(q)
          /\ \/ IterLegs(p) = IterLegs(q)
             \/ Refuses(IterLegs(p)) /\ Refuses(IterLegs(q))
          /\ ToBytes(p) = ToBytes(q)

\* After any edits too, an object whose leg count is one the protocol allows
\* and that can be encoded walks the legs its receiver will walk.
EditsAreSeenByPeers ==
  object # NoObject /\ object.leg_count <= MaxLegs /\ CanEncode(object) =>
    \A language \in Languages :
      IterLegWires(FromBytes(language, ToBytes(object))) = IterLegWires(object)
=============================================================================
