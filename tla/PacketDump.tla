----------------------------- MODULE PacketDump -----------------------------
(***************************************************************************)
(* The packet decoder, dec/main.c: it goes through a capture (pcap) or a   *)
(* raw dump, and prints every PTP/USB container it finds.                  *)
(*                                                                         *)
(* Traffic is a sequence of positions, bytes in the code, and what counts *)
(* is what the decoder reads when it takes a position for the start of a   *)
(* container.  Behind the first one of a container it may read anything:   *)
(* where the transaction id stands for the type, 4 makes an event of it.   *)
(***************************************************************************)
EXTENDS Integers, Sequences, SequencesExt

CONSTANTS WifiHeader,    \* 0x36: Ethernet, IP and TCP without options
          BulkHeader,    \* 12: a container's header without parameters
          CommandMax     \* 32: the longest command, parameters included

ASSUME HeadersAssumption == /\ WifiHeader \in Nat /\ CommandMax \in Nat
                            /\ BulkHeader \in Nat \ {0}

\* A container as it is read: its type, the high byte of its code, its length.
ReadAs(type, group, length) == [type |-> type, group |-> group, length |-> length]
Garbage == ReadAs("none", "none", 0)

\* A container, with what is read at each position behind its first one.
Container(type, group, inside) ==
  [type |-> type, group |-> group, length |-> 1 + Len(inside), inside |-> inside]
Start(c) == ReadAs(c.type, c.group, c.length)
Units(c) == <<Start(c)>> \o c.inside

\* What is missing of a data container, the type of the last container, and
\* what was printed.  (The transaction only decides about a blank line.)
Fresh == [unfinished |-> 0, last |-> "response", printed |-> <<>>, failed |-> FALSE]

-----------------------------------------------------------------------------
\* Data has its heading behind a command, another one behind data, and none
\* behind anything else.
Heading(last, type) ==
  IF type \in {"command", "response"} THEN type
  ELSE IF type = "data" /\ last = "command" THEN "data"
  ELSE IF type = "data" /\ last = "data" THEN "random"
  ELSE "none"

Refused(c) == c.type = "command" /\ c.length \notin BulkHeader..CommandMax

\* The container at the start of a packet is printed; a packet shorter than
\* its data container leaves the rest to the packets after it.
PrintContainer(ctx, at, c, size) ==
  IF Refused(c) THEN [ctx EXCEPT !.failed = TRUE]
  ELSE [printed |-> Append(ctx.printed,
                           [at |-> at, heading |-> Heading(ctx.last, c.type), read |-> c]),
        unfinished |-> IF c.type = "data" /\ size < c.length THEN c.length - size ELSE ctx.unfinished,
        last |-> c.type,
        failed |-> ctx.failed]

\* Mutant: a packet that ends the container counts as one behind it.
DumpPacketLate(ctx, at, bytes) ==
  IF ctx.unfinished > 0 /\ Len(bytes) < ctx.unfinished
    THEN [ctx EXCEPT !.unfinished = @ - Len(bytes)]
  ELSE PrintContainer([ctx EXCEPT !.unfinished = 0], at, bytes[1], Len(bytes))

\* ptp_dump_packet.  A packet longer than what is missing holds the start of
\* another container behind it, but the count is cleared before it is used to
\* step there: the packet is read from its first byte.
DumpPacket(ctx, at, bytes) ==
  IF ctx.unfinished > 0 /\ Len(bytes) <= ctx.unfinished
    THEN [ctx EXCEPT !.unfinished = @ - Len(bytes)]
  ELSE PrintContainer([ctx EXCEPT !.unfinished = 0], at, bytes[1], Len(bytes))

-----------------------------------------------------------------------------
(* A capture.  A packet of it has a header of its own before the payload:  *)
(* usbpcap says how long it is, on wifi a length is assumed.               *)
HeaderLen(mode, packet) == IF mode = "wifi" THEN WifiHeader ELSE packet.header

PacketHandler(mode, ctx, at, packet) ==
  LET all == [i \in 1..packet.header |-> Garbage] \o packet.payload
      size == Len(all) - HeaderLen(mode, packet)
  IN  IF size = 0 THEN ctx
      ELSE DumpPacket(ctx, at, SubSeq(all, HeaderLen(mode, packet) + 1, Len(all)))

\* The number of a packet stands for its offset.  The payload is also copied to
\* a file, as long as the header says, which is left out: when the container is
\* split that reads what stands behind the packet, and is taken to go well.
DecodePcap(mode, packets) ==
  LET after[k \in 0..Len(packets)] ==
        IF k = 0 THEN Fresh ELSE PacketHandler(mode, after[k - 1], k, packets[k])
  IN  after[Len(packets)]

-----------------------------------------------------------------------------
(* A raw dump: every position is tried, also those inside a container.     *)
CommandGroups == {"0x10", "0x90", "0x91", "0x92", "0x98", "0xF0"}

Passes(c) ==
  /\ c.type \in {"command", "data", "response", "event"}
  /\ c.type \in {"command", "data"} => c.group \in CommandGroups
  /\ c.type = "response" => c.group = "0x20"

\* The copy of the payload reads behind the file, or has a negative length.
\* Whether that ends the program depends on the memory there: it does at the
\* positions in "fatal".
Wild(c, rest) == c.type = "data" /\ c.length \notin BulkHeader..rest
Stops(units, k, fatal) ==
  /\ Passes(units[k])
  /\ Refused(units[k]) \/ (Wild(units[k], Len(units) - k + 1) /\ k \in fatal)

\* A container is dumped with the length it claims; the first failure ends
\* the decoding.
DumpUnit(ctx, units, k, fatal) ==
  IF ctx.failed \/ ~Passes(units[k]) THEN ctx
  ELSE IF Stops(units, k, fatal) THEN [ctx EXCEPT !.failed = TRUE]
  ELSE PrintContainer(ctx, k, units[k], units[k].length)
DecodeDump(units, fatal) ==
  LET after[k \in 0..Len(units)] ==
        IF k = 0 THEN Fresh ELSE DumpUnit(after[k - 1], units, k, fatal)
  IN  after[Len(units)]
=============================================================================
