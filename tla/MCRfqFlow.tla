------------------------------ MODULE MCRfqFlow ------------------------------
(***************************************************************************)
(* A small instance of RfqFlow.                                            *)
(***************************************************************************)
EXTENDS RfqFlow

Wire(tag, direction, value, window) ==
  [type_tag |-> tag, direction |-> direction, type_value |-> value,
   price_window_secs |-> window, rest |-> direction]

\* Every kind of slot: a price strike and a binary event; the zero slot, which
\* is not a leg (no window of 0 s); bad direction, asset, window, binary event
\* value and window; the retired tag.
AllWires ==
  {ZeroLeg, Wire(0, 1, 1, 60), Wire(2, 1, 0, 0), Wire(0, 2, 1, 60), Wire(0, 0, 9, 60),
   Wire(0, 0, 1, 61), Wire(2, 0, 1, 0), Wire(2, 0, 0, 60), Wire(1, 0, 1, 60)}

\* Any leg count, version, option byte and slots.
AllIntruders ==
  BadText \cup
  [head : {7}, option : {0, 2}, metadata : {"m"}, order_type : {3},
   leg_count : Counts, version : Versions, reserved : {5},
   slots : [1 .. MaxLegs -> LegWires]]
=============================================================================
