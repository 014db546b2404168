----------------------------- MODULE MC_RtpProxy -----------------------------
(***************************************************************************)
(* Model values for RtpProxy.  Address 1 is the proxy host (internal and   *)
(* external proxy address, as in the reference fixtures of the tests), 3   *)
(* an internal host, 4 an external peer (sbc).  Session A relays port 10   *)
(* to the external peer; A2 re-adds port 10 pointing its sbc at the        *)
(* proxy's own port 12, where session B lives, so that the two sessions    *)
(* cascade; B's sbc is port 10 back.                                       *)
(***************************************************************************)
EXTENDS RtpProxy

MC_TablePorts == {10, 12}

SessA  == [port |-> 10, sender_addr |-> 3, sender_port |-> 20,
           receiver_addr |-> 3, receiver_port |-> 21, sbc_addr |-> 4, sbc_port |-> 40]
SessA2 == [SessA EXCEPT !.sbc_addr = 1, !.sbc_port = 12]
SessB  == [port |-> 12, sender_addr |-> 1, sender_port |-> 22,
           receiver_addr |-> 1, receiver_port |-> 23, sbc_addr |-> 1, sbc_port |-> 10]

MC_Sessions == {SessA, SessA2, SessB}
ProxyConfig == [int_proxy_addr |-> 1, ext_proxy_addr |-> 1, smoothing |-> 1, loopback |-> 1]
\* The cascade A2 <-> B is in place when the run starts.
MC_CascadeSessions == {SessA2, SessB}
MC_ProxyAddrs == {[int |-> 1, ext |-> 1]}
MC_FlagValues == {0}
MC_RandomOffsets == {0, 65535}
MC_LocalAddrs == {1}

Pkt(hook, sa, sp, da, dp, sn, summed, hw) ==
    [hook |-> hook, saddr |-> sa, sport |-> sp, daddr |-> da, dport |-> dp,
     sn |-> sn, rtp |-> TRUE, summed |-> summed, hw |-> hw]

\* A's sender (two sequence numbers: in order, and a jump back), the sbc
\* answering on port 10, and B's local sender via LOCAL_OUT.
MC_Origins ==
    { Pkt("PRE", 3, 20, 1, 10, 6, "NONE", FALSE),
      Pkt("PRE", 3, 20, 1, 10, 0, "COMPLETE", TRUE),
      Pkt("PRE", 4, 40, 1, 10, 7, "NONE", FALSE),
      Pkt("LOCAL_OUT", 1, 22, 1, 12, 65535, "PARTIAL", TRUE) }

\* Session A alone, for the smoothing run: A's sender sends in order across
\* the 16-bit wrap (65535, 0) and jumps back by more than MIN_DELTA (6, 0).
MC_PlainSessions == {SessA}
MC_SmoothOrigins ==
    { Pkt("PRE", 3, 20, 1, 10, 65535, "NONE", FALSE),
      Pkt("PRE", 3, 20, 1, 10, 0, "NONE", FALSE),
      Pkt("PRE", 3, 20, 1, 10, 6, "NONE", FALSE) }

\* One packet of A's sender, for the runs that race it against a command.
MC_OneOrigin == { Pkt("PRE", 3, 20, 1, 10, 6, "NONE", FALSE) }


=============================================================================
