---------------------------- MODULE MC_RtpHeader ----------------------------
(***************************************************************************)
(* Inputs for RtpHeader.  Only the bytes rewrite_rtp reads vary: the UDP   *)
(* length (4..5), the first RTP byte (8) and the sequence number (10..11); *)
(* the others are 0.  Bytes up to offset 20 exist, so that csum_partial   *)
(* over a 21-byte datagram reads only modelled bytes.                      *)
(***************************************************************************)
EXTENDS RtpHeader

MC_MaxOffset == 20

Pkt(ulen, n, b8, s1, s2) ==
    [len |-> n,
     b   |-> [k \in 0..MC_MaxOffset |->
                CASE k = 4  -> ulen \div 256 [] k = 5  -> ulen % 256
                  [] k = 8  -> b8            [] k = 10 -> s1
                  [] k = 11 -> s2            [] OTHER  -> 0]]

\* First RTP bytes: version 2 (plain, with X and CC bits, with all low bits
\* set), versions 1, 3 and 0 with the low bits spelling 2.
MC_FirstBytes == {128, 144, 191, 64, 192, 2}
\* Sequence numbers 0x1234, 0xFFFF and 0.
MC_SnBytes == {<<18, 52>>, <<255, 255>>, <<0, 0>>}

\* (UDP length, bytes present): no payload, one byte short of an RTP
\* header, exactly one, one more, and a length field below the real size
\* (trailing bytes).  The length field never exceeds the packet.
MC_WellFormed == {<<8, 8>>, <<9, 9>>, <<19, 19>>, <<20, 20>>, <<21, 21>>, <<19, 20>>}

\* A length field that claims more than the packet holds: the UDP header
\* alone, or one payload byte, claiming a full RTP header.
MC_Oversized == {<<20, 8>>, <<20, 9>>}

MC_Packets(sizes) ==
    {Pkt(s[1], s[2], b8, sn[1], sn[2]) : s \in sizes, b8 \in MC_FirstBytes, sn \in MC_SnBytes}

MC_GoodPackets == MC_Packets(MC_WellFormed)
MC_BadPackets  == MC_Packets(MC_Oversized)

\* Ports 10 (RTP), 11 (RTCP) and 256 (even, but odd in its low byte).
MC_Ports == {10, 11, 256}

MC_Fresh == [EmptyEntry EXCEPT !.offset = 5, !.offset_set = 1]

\* A fresh entry and one in use whose last number was 0x1240 (so 0x1234
\* jumps back) with the largest offset.
MC_Entries ==
    { MC_Fresh,
      [EmptyEntry EXCEPT !.offset = 65535, !.offset_set = 1,
                         !.entry_used = 1, !.last_sn = 4672] }

\* The hooks and checksum contexts: LOCAL_IN (no checksum step); at
\* POST_ROUTING a local packet, a forwarded one without and with a device
\* that checksums, an incoming CHECKSUM_NONE, and one already
\* CHECKSUM_PARTIAL.
MC_Envs ==
    { [hook |-> "LOCAL_IN", summed |-> "UNNECESSARY", localOut |-> FALSE, hwCsum |-> TRUE],
      [hook |-> "POST", summed |-> "UNNECESSARY", localOut |-> TRUE, hwCsum |-> TRUE],
      [hook |-> "POST", summed |-> "UNNECESSARY", localOut |-> FALSE, hwCsum |-> FALSE],
      [hook |-> "POST", summed |-> "UNNECESSARY", localOut |-> FALSE, hwCsum |-> TRUE],
      [hook |-> "POST", summed |-> "NONE", localOut |-> FALSE, hwCsum |-> FALSE],
      [hook |-> "POST", summed |-> "PARTIAL", localOut |-> TRUE, hwCsum |-> FALSE] }

\* Source 10.1.0.1; destination 10.0.89.139, chosen so that the full
\* checksum of the smoothed 20-byte RTP packet with number 0x1234 on port
\* 10 with the fresh entry computes to 0 (the ASSUME confirms it).
MC_SAddr == 10 * 16777216 + 65536 + 1
MC_DAddr == 10 * 16777216 + 22923

ASSUME LET sn == SetSN(MC_Fresh, 4660).sn
           b  == Pkt(20, 20, 128, sn \div 256, sn % 256).b
       IN CsumTcpudpMagic(MC_SAddr, MC_DAddr, 20, UdpCsumPartial(b, 0)) = 0
=============================================================================
