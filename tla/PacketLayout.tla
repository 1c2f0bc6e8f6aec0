---------------------------- MODULE PacketLayout ----------------------------
(***************************************************************************)
(* packet.c: where the accessors look for the parts of an answer in        *)
(* r->data.  A buffer is a sequence of units; a unit remembers the packet  *)
(* it belongs to ("of") and its place in it ("at").  The fields of a       *)
(* packet are read through its first unit.                                 *)
(***************************************************************************)
EXTENDS Naturals, Sequences

\* What is not the beginning of a packet spells no known packet type.
Junk == [type |-> "junk", len |-> 0, tid |-> 0]

\* The packet whose header is at offset o.
Header(d, o) == IF o < Len(d) /\ d[o + 1].at = 1 THEN d[o + 1].of ELSE Junk

\* Mutant: the first container of the buffer, data phase or not.
UsbFirst(d) == Header(d, 0)

\* ptp_get_return_code, ptp_get_last_transaction_id and ptp_get_param_length
\* over USB: the response follows a data container, if there is one.
UsbResponse(d) == LET c == Header(d, 0)
                  IN  IF c.type = "data" THEN Header(d, c.len) ELSE c

\* ptp_get_payload and ptp_get_payload_length over USB.
UsbPayload(d, hdr) == SubSeq(d, hdr + 1, Header(d, 0).len)

\* ptp_get_param over USB.  After a data phase the code is returned, which is
\* in the header of the response, whatever parameter was asked for.
UsbParam(d, hdr, i) == LET c == Header(d, 0)
                       IN  IF c.type = "data" THEN d[c.len + 1] ELSE d[hdr + i + 1]

\* ptpip_get_response_packet; the program stops ("panic") on other types.
IpResponse(d) ==
  LET ds == Header(d, 0)
      de == Header(d, ds.len)
      rs == Header(d, ds.len + de.len)
  IN  IF ds.type = "rsp" THEN ds
      ELSE IF ds.type = "start" /\ de.type = "end" /\ rs.type = "rsp" THEN rs
      ELSE [Junk EXCEPT !.type = "panic"]
=============================================================================
