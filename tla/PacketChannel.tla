---------------------------- MODULE PacketChannel ----------------------------
(***************************************************************************)
(* What LidarDriverImpl (driver/lidar_driver_impl.hpp) promises about the  *)
(* packets between its input and its decoder: a first-in first-out channel *)
(* of values that may drop everything it holds at once (an overflow), and  *)
(* never reorders, repeats or alters a packet.  Nothing is said here of    *)
(* buffers, which the driver recycles under both ends of the channel.      *)
(***************************************************************************)
EXTENDS Sequences

CONSTANTS Packet,       \* what a packet can be
          NoPacket      \* "none being decoded"

VARIABLES pending,      \* received, not yet taken by the handler, oldest first
          decoding      \* the packet the handler is working on, or NoPacket

vars == <<pending, decoding>>

Init == pending = <<>> /\ decoding = NoPacket

Receive ==
    /\ \E pkt \in Packet : pending' = Append(pending, pkt)
    /\ UNCHANGED decoding

Take ==
    /\ decoding = NoPacket
    /\ pending # <<>>
    /\ decoding' = Head(pending)
    /\ pending' = Tail(pending)

Finish ==
    /\ decoding # NoPacket
    /\ decoding' = NoPacket
    /\ UNCHANGED pending

Discard ==
    /\ pending' = <<>>
    /\ UNCHANGED decoding

Next == Receive \/ Take \/ Finish \/ Discard

Spec == Init /\ [][Next]_vars
=============================================================================
