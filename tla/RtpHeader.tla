------------------------------ MODULE RtpHeader ------------------------------
(***************************************************************************)
(* rewrite_rtp (rewrite.c) at the level of the bytes it reads and writes.  *)
(* The UDP header is bytes 0..7 of the packet (the length field at 4..5),  *)
(* the RTP fixed header follows at 8..19: byte 8 holds V, P, X and CC,     *)
(* bytes 10..11 the sequence number.  The header is read through the C     *)
(* bitfields of struct rtp_packet (rtp_packet.h), whose layout depends on  *)
(* the build's bitfield order, and 16-bit fields through ntohs/htons,      *)
(* whose effect depends on the host's byte order.  Both are modelled by    *)
(* what they do on each host.                                              *)
(*                                                                         *)
(* `len` is the number of bytes the skb really holds from the UDP header   *)
(* on; any byte past it is whatever lies in memory there.                  *)
(*                                                                         *)
(* The same handler runs at LOCAL_IN and at POST_ROUTING; at POST_ROUTING  *)
(* generic_hook_func (mangle.c) then calls handle_outgoing_checksums,      *)
(* whose UDP part is modelled with the operators of RtpChecksum.           *)
(***************************************************************************)
EXTENDS Naturals, RtpRoute, RtpChecksum

CONSTANTS
    Hosts,    \* the builds: "LE" (little-endian bitfields and bytes), "BE"
    Packets,  \* [len, b]: bytes b[0..MaxOffset], of which len are the packet's
    Ports,    \* the proxy port E_PRX_PORT, in host order
    Entries,  \* the table entry of that port before the packet
    MaxOffset,\* last byte offset modelled
    Envs,     \* [hook, summed, localOut, hwCsum]: the hook and the skb's
              \* ip_summed, is_local_out and can_hw_csum
    SAddr,    \* the source address after the rewrite (E_PRX_ADDR)
    DAddr     \* the destination address

VARIABLES
    host,     \* the build
    port,     \* the proxy port the packet is smoothed on
    len,      \* bytes of the packet from the UDP header on
    orig,     \* history: the bytes before rewrite_rtp
    bytes,    \* the bytes (of packet and memory past it)
    ent0,     \* history: the entry before
    entry,    \* the table entry of port
    accessed, \* offsets rewrite_rtp read or wrote
    smoothed, \* rewrite_rtp called set_SN_function
    env,      \* the hook and the skb's checksum context
    summed,   \* skb->ip_summed
    done

vars == <<host, port, len, orig, bytes, ent0, entry, accessed, smoothed, env, summed, done>>

Byte == 0..255
UdpHdrLen == 8    \* sizeof(struct udphdr)
RtpHdrLen == 12   \* sizeof(struct rtp_packet)

-----------------------------------------------------------------------------
(***************************************************************************)
(* The C semantics around the code: a 16-bit load and store in host byte  *)
(* order, and ntohs/htons, which swap on a little-endian host only.        *)
(***************************************************************************)
Load16(h, b, k) == IF h = "BE" THEN b[k] * 256 + b[k + 1] ELSE b[k] + b[k + 1] * 256

Store16(h, b, k, x) ==
    [b EXCEPT ![k]     = IF h = "BE" THEN x \div 256 ELSE x % 256,
              ![k + 1] = IF h = "BE" THEN x % 256 ELSE x \div 256]

Swap16(x) == (x % 256) * 256 + x \div 256
Ntohs(h, x) == IF h = "LE" THEN Swap16(x) ELSE x
Htons(h, x) == IF h = "LE" THEN Swap16(x) ELSE x

\* Bitfield allocation in a byte: a little-endian-bitfield build puts the
\* first declared field in the least significant bits, a big-endian one in
\* the most significant bits.
RECURSIVE BitsBefore(_, _)
BitsBefore(layout, i) == IF i = 1 THEN 0 ELSE layout[i - 1][2] + BitsBefore(layout, i - 1)

Bitfield(h, layout, byte, name) ==
    LET i  == CHOOSE j \in DOMAIN layout : layout[j][1] = name
        w  == layout[i][2]
        lo == IF h = "LE" THEN BitsBefore(layout, i) ELSE 8 - BitsBefore(layout, i) - w
    IN (byte \div 2^lo) % 2^w

\* Seeded fault for mutation testing: the little-endian branch declares the
\* fields in wire order, like the big-endian one.
RtpByte0WireOrder(h) ==
    <<<<"V", 2>>, <<"P", 1>>, <<"X", 1>>, <<"CC", 4>>>>

\* The first byte of struct rtp_packet, in declaration order per build.
RtpByte0(h) ==
    IF h = "BE" THEN <<<<"V", 2>>, <<"P", 1>>, <<"X", 1>>, <<"CC", 4>>>>
    ELSE <<<<"CC", 4>>, <<"X", 1>>, <<"P", 1>>, <<"V", 2>>>>

\* The second byte of struct rtp_packet.
RtpByte1(h) ==
    IF h = "BE" THEN <<<<"M", 1>>, <<"PT", 7>>>> ELSE <<<<"PT", 7>>, <<"M", 1>>>>

\* The first byte of struct rtcp_packet (rtcp_packet.h).
RtcpByte0(h) ==
    IF h = "BE" THEN <<<<"V", 2>>, <<"P", 1>>, <<"RC", 5>>>>
    ELSE <<<<"RC", 5>>, <<"P", 1>>, <<"V", 2>>>>

-----------------------------------------------------------------------------
\* Seeded fault for mutation testing: the smoothed number is stored back
\* without htons.
RewriteRtpNoHtons(h, b, index, e) ==
    LET remaining == Ntohs(h, Load16(h, b, 4))
        rtp == /\ remaining >= UdpHdrLen /\ Ntohs(h, index) % 2 = 0
               /\ remaining - UdpHdrLen >= RtpHdrLen
        sm  == rtp /\ Bitfield(h, RtpByte0(h), b[8], "V") = 2
        r   == SetSN(e, Ntohs(h, Load16(h, b, 10)))
    IN [accessed |-> {4, 5} \cup (IF rtp THEN {8} ELSE {}) \cup (IF sm THEN {10, 11} ELSE {}),
        bytes    |-> IF sm THEN Store16(h, b, 10, r.sn) ELSE b,
        entry    |-> IF sm THEN r.entry ELSE e,
        smoothed |-> sm]

\* Seeded fault for mutation testing: the RTP header length is not checked.
RewriteRtpNoLenCheck(h, b, index, e) ==
    LET remaining == Ntohs(h, Load16(h, b, 4))
        rtp == remaining >= UdpHdrLen /\ Ntohs(h, index) % 2 = 0
        sm  == rtp /\ Bitfield(h, RtpByte0(h), b[8], "V") = 2
        r   == SetSN(e, Ntohs(h, Load16(h, b, 10)))
    IN [accessed |-> {4, 5} \cup (IF rtp THEN {8} ELSE {}) \cup (IF sm THEN {10, 11} ELSE {}),
        bytes    |-> IF sm THEN Store16(h, b, 10, Htons(h, r.sn)) ELSE b,
        entry    |-> IF sm THEN r.entry ELSE e,
        smoothed |-> sm]

(***************************************************************************)
(* rewrite_rtp(udp_header, index, ent): remaining is ntohs(udp->len); past *)
(* the UDP header, an odd port (ntohs(index) & 1) is RTCP and left alone;  *)
(* with room for an RTP header and V == 2, the sequence number is read     *)
(* with ntohs, smoothed by table_atomically(index, set_SN_function) and    *)
(* stored with htons.  Returns the offsets touched, the new bytes and      *)
(* entry.  Nothing compares remaining with the real size of the packet.    *)
(***************************************************************************)
RewriteRtp(h, b, index, e) ==
    LET remaining == Ntohs(h, Load16(h, b, 4))
        rtp == /\ remaining >= UdpHdrLen /\ Ntohs(h, index) % 2 = 0
               /\ remaining - UdpHdrLen >= RtpHdrLen
        sm  == rtp /\ Bitfield(h, RtpByte0(h), b[8], "V") = 2
        r   == SetSN(e, Ntohs(h, Load16(h, b, 10)))
    IN [accessed |-> {4, 5} \cup (IF rtp THEN {8} ELSE {}) \cup (IF sm THEN {10, 11} ELSE {}),
        bytes    |-> IF sm THEN Store16(h, b, 10, Htons(h, r.sn)) ELSE b,
        entry    |-> IF sm THEN r.entry ELSE e,
        smoothed |-> sm]

Init ==
    /\ host \in Hosts
    /\ port \in Ports
    /\ \E p \in Packets : len = p.len /\ orig = p.b /\ bytes = p.b
    /\ ent0 \in Entries /\ entry = ent0
    /\ env \in Envs /\ summed = env.summed
    /\ accessed = {} /\ smoothed = FALSE /\ done = FALSE

\* handle_outgoing_udp_packet with smoothing on: rewrite_rtp on E_PRX_PORT,
\* a __be16 (the port in network order); at POST_ROUTING followed by
\* handle_outgoing_checksums.
Rewrite ==
    /\ ~done
    /\ LET r    == RewriteRtp(host, bytes, Htons(host, port), entry)
           c    == OutgoingUdp(summed, env.localOut, env.hwCsum, SAddr, DAddr, r.bytes)
           post == env.hook = "POST"
       IN /\ bytes' = IF post THEN c.bytes ELSE r.bytes
          /\ summed' = IF post THEN c.summed ELSE summed
          /\ accessed' = r.accessed \cup (IF post THEN c.accessed ELSE {})
          /\ entry' = r.entry /\ smoothed' = r.smoothed
    /\ done' = TRUE
    /\ UNCHANGED <<host, port, len, orig, ent0, env>>

Quiescent == done /\ UNCHANGED vars

Next == Rewrite \/ Quiescent

Spec == Init /\ [][Next]_vars

-----------------------------------------------------------------------------
(***************************************************************************)
(* The reference: RFC 3550 numbers the bits of a header from the most      *)
(* significant bit of its first byte (5.1 for RTP, 6.4.1 for RTCP), and    *)
(* RFC 768 sends 16-bit fields most significant byte first.                *)
(***************************************************************************)
RfcBits(byte, first, w) == (byte \div 2^(8 - first - w)) % 2^w
RfcRtp0  == [V |-> <<0, 2>>, P |-> <<2, 1>>, X |-> <<3, 1>>, CC |-> <<4, 4>>]
RfcRtp1  == [M |-> <<0, 1>>, PT |-> <<1, 7>>]
RfcRtcp0 == [V |-> <<0, 2>>, P |-> <<2, 1>>, RC |-> <<3, 5>>]

\* Every field of layout reads, on host h, the bits the RFC gives it.
Agrees(h, layout, rfc) ==
    \A x \in Byte, j \in DOMAIN layout :
        Bitfield(h, layout, x, layout[j][1]) = RfcBits(x, rfc[layout[j][1]][1], rfc[layout[j][1]][2])

(***************************************************************************)
(* The bitfields of struct rtp_packet and struct rtcp_packet read, in the  *)
(* build's bitfield order, exactly the header bits RFC 3550 assigns to V,  *)
(* P, X, CC, M, PT and RC, for every value of the byte.                    *)
(***************************************************************************)
HeaderLayoutsMatchRfc ==
    /\ Agrees(host, RtpByte0(host), RfcRtp0)
    /\ Agrees(host, RtpByte1(host), RfcRtp1)
    /\ Agrees(host, RtcpByte0(host), RfcRtcp0)

(***************************************************************************)
(* rewrite_rtp smooths exactly the RTP packets: a UDP datagram (of the     *)
(* length its header gives) with a full RTP header, RTP version 2, on an   *)
(* even port; it then stores, in network byte order, the number            *)
(* set_SN_function makes of the number the packet carried, and changes no  *)
(* other byte but the UDP checksum.  Any other packet and its entry are    *)
(* left as they were.                                                      *)
(***************************************************************************)
RtpRewriteMatchesRfc ==
    done =>
      LET ulen == Net16(orig, 4)
          kept == DOMAIN bytes \ {6, 7}
          isRtp == /\ ulen >= UdpHdrLen + RtpHdrLen /\ port % 2 = 0
                   /\ RfcBits(orig[8], 0, 2) = 2
          r == SetSN(ent0, Net16(orig, 10))
      IN /\ smoothed = isRtp
         /\ IF isRtp
            THEN /\ Net16(bytes, 10) = r.sn /\ entry = r.entry
                 /\ \A k \in kept \ {10, 11} : bytes[k] = orig[k]
            ELSE (\A k \in kept : bytes[k] = orig[k]) /\ entry = ent0

(***************************************************************************)
(* A datagram leaves POST_ROUTING with a UDP checksum its receiver         *)
(* accepts (RFC 768): the one calculate_udp_checksum_full stores, or the   *)
(* one the device completes from the pseudo-header sum that               *)
(* handle_outgoing_checksums leaves for CHECKSUM_PARTIAL; never 0, which   *)
(* would mean "no checksum".                                               *)
(***************************************************************************)
ChecksumOnWire ==
    done /\ env.hook = "POST" =>
      Verifies(SAddr, DAddr, IF summed = "PARTIAL" THEN DeviceComplete(bytes, len) ELSE bytes)

(***************************************************************************)
(* rewrite_rtp, and at POST_ROUTING the UDP checksum code after it, read  *)
(* and write only bytes of the packet.  Both trust the UDP length field,   *)
(* which nothing before a POST_ROUTING or LOCAL_IN hook has compared with  *)
(* the size of the packet.                                                 *)
(***************************************************************************)
AccessesInPacket ==
    accessed \subseteq 0..(len - 1)

=============================================================================
