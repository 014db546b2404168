----------------------------- MODULE RtpChecksum -----------------------------
(***************************************************************************)
(* The UDP checksum code of checksum.c at the level of 16-bit words.  The  *)
(* kernel's helpers are modelled by what RFC 1071 and RFC 768 say they     *)
(* compute: csum_partial is the ones'-complement sum of the bytes taken    *)
(* as big-endian 16-bit words (a last odd byte padded with zero),          *)
(* csum_tcpudp_magic the complement of that sum with the pseudo header     *)
(* (source and destination address, protocol 17, UDP length) added.  The   *)
(* sums are independent of the host's byte order (RFC 1071, 2.B), so they  *)
(* are taken in network order.                                             *)
(*                                                                         *)
(* A ones'-complement value is a natural in 0..65535; 0 and 65535 both     *)
(* stand for zero.  Bytes are a function from offsets to 0..255, the UDP   *)
(* header at offset 0: length at 4..5, checksum at 6..7.                   *)
(***************************************************************************)
EXTENDS Naturals

OnesAdd(a, c) == IF a + c > 65535 THEN a + c - 65535 ELSE a + c
Comp(x) == 65535 - x

\* The 16-bit field at offset k, in network byte order.
Net16(b, k) == b[k] * 256 + b[k + 1]

\* The sum of the bytes b[k..n-1] as big-endian words.
RECURSIVE SumFrom(_, _, _)
SumFrom(b, k, n) ==
    IF k >= n THEN 0
    ELSE OnesAdd(b[k] * 256 + (IF k + 1 < n THEN b[k + 1] ELSE 0), SumFrom(b, k + 2, n))

CsumPartial(b, n, csum) == OnesAdd(csum, SumFrom(b, 0, n))

PseudoHeader(saddr, daddr, ulen) ==
    OnesAdd(OnesAdd(OnesAdd(saddr \div 65536, saddr % 65536),
                    OnesAdd(daddr \div 65536, daddr % 65536)),
            OnesAdd(17, ulen))

CsumTcpudpMagic(saddr, daddr, ulen, csum) == Comp(OnesAdd(PseudoHeader(saddr, daddr, ulen), csum))

CSUM_MANGLED_0 == 65535

SetCheck(b, x) == [b EXCEPT ![6] = x \div 256, ![7] = x % 256]

-----------------------------------------------------------------------------
\* udp_csum_partial: csum_partial over ntohs(udp->len) bytes.
UdpCsumPartial(b, csum) == CsumPartial(b, Net16(b, 4), csum)

\* udp_csum_pseudo_header_partial: the uncomplemented pseudo-header sum,
\* which the device completes for CHECKSUM_PARTIAL.
UdpCsumPseudoHeaderPartial(saddr, daddr, b) ==
    Comp(CsumTcpudpMagic(saddr, daddr, Net16(b, 4), 0))

\* Seeded fault for mutation testing: a computed 0 is stored as it is.
UdpCsumPseudoHeaderNoMangle(saddr, daddr, b, csum) ==
    CsumTcpudpMagic(saddr, daddr, Net16(b, 4), csum)

\* udp_csum_pseudo_header: the final checksum; a computed 0 is sent as
\* CSUM_MANGLED_0, since 0 on the wire means "no checksum".
UdpCsumPseudoHeader(saddr, daddr, b, csum) ==
    LET sum == CsumTcpudpMagic(saddr, daddr, Net16(b, 4), csum) IN
    IF sum = 0 THEN CSUM_MANGLED_0 ELSE sum

\* calculate_pseudo_header_udp_checksum.
CalculatePseudoHeaderUdpChecksum(saddr, daddr, b) ==
    SetCheck(b, UdpCsumPseudoHeaderPartial(saddr, daddr, b))

\* calculate_udp_checksum_full: zero the field, sum the datagram, add the
\* pseudo header.
CalculateUdpChecksumFull(saddr, daddr, b) ==
    LET b0 == SetCheck(b, 0) IN
    SetCheck(b0, UdpCsumPseudoHeader(saddr, daddr, b0, UdpCsumPartial(b0, 0)))

(***************************************************************************)
(* The UDP part of handle_outgoing_checksums: CHECKSUM_PARTIAL gets a new  *)
(* pseudo-header sum; any other state is switched to CHECKSUM_PARTIAL when *)
(* the packet is not for this host and the device can checksum            *)
(* (can_hw_csum), and gets a full software checksum otherwise.  Returns   *)
(* the new state, the bytes, and the offsets read or written: the length  *)
(* and checksum fields, and for a full checksum the ntohs(udp->len) bytes  *)
(* csum_partial reads.                                                     *)
(***************************************************************************)
OutgoingUdp(summed, localOut, hwCsum, saddr, daddr, b) ==
    IF summed = "PARTIAL" \/ (~localOut /\ hwCsum)
    THEN [summed   |-> "PARTIAL",
          bytes    |-> CalculatePseudoHeaderUdpChecksum(saddr, daddr, b),
          accessed |-> 4..7]
    ELSE [summed   |-> summed,
          bytes    |-> CalculateUdpChecksumFull(saddr, daddr, b),
          accessed |-> 4..7 \cup 0..(Net16(b, 4) - 1)]

-----------------------------------------------------------------------------
\* What the device (or skb_checksum_help) does for CHECKSUM_PARTIAL: sum
\* from the UDP header to the end of the skb, n bytes, and store the
\* complement, a 0 as CSUM_MANGLED_0.
DeviceComplete(b, n) ==
    LET s == Comp(SumFrom(b, 0, n)) IN SetCheck(b, IF s = 0 THEN CSUM_MANGLED_0 ELSE s)

\* A receiver's check (RFC 768): a non-zero checksum field, and the sum of
\* pseudo header and datagram, checksum included, is ones'-complement zero.
Verifies(saddr, daddr, b) ==
    /\ Net16(b, 6) # 0
    /\ OnesAdd(PseudoHeader(saddr, daddr, Net16(b, 4)), SumFrom(b, 0, Net16(b, 4))) = 65535

=============================================================================
