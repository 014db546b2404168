------------------------------ MODULE RtpRoute ------------------------------
(***************************************************************************)
(* The per-packet, lock-free part of the relay: the validity predicate of  *)
(* a table entry and the derivation of a routing context (table.c), the    *)
(* classification of a packet against the context and the two rewrite     *)
(* phases (rewrite.c), and the RTP sequence-number smoothing transaction   *)
(* that runs under a slot's lock (rewrite.c set_SN_function).              *)
(*                                                                         *)
(* Addresses and ports are naturals; 0 is the all-zero address / port that *)
(* the code treats as "not set" (a wildcard when matching, "leave the      *)
(* field alone" when rewriting).  A packet header is a record with the     *)
(* four fields S_ADDR, S_PORT, D_ADDR, D_PORT of module.h.                 *)
(***************************************************************************)
EXTENDS Naturals

\* A table entry, struct table_entry of table.h.
EmptyEntry ==
    [sender_addr |-> 0, sender_port |-> 0,
     receiver_addr |-> 0, receiver_port |-> 0,
     sbc_addr |-> 0, sbc_port |-> 0,
     last_sn |-> 0, offset |-> 0, offset_set |-> 0, entry_used |-> 0]

\* is_entry_valid: receiver and sbc address and port are all non-zero.
IsEntryValid(e) ==
    /\ e.receiver_addr # 0 /\ e.receiver_port # 0
    /\ e.sbc_addr # 0 /\ e.sbc_port # 0

(***************************************************************************)
(* init_routing: the routing context of entry e at table index `index`.    *)
(* When loopback is configured and the receiver is the proxy's own         *)
(* internal address and port, the internal side is replaced by the sbc     *)
(* side and the context is marked loopback.                                *)
(***************************************************************************)
InitRouting(index, cfg, e) ==
    LET loop == /\ cfg.loopback # 0
                /\ e.receiver_addr = cfg.int_proxy_addr
                /\ e.receiver_port = index
    IN [i_src_addr |-> IF loop THEN e.sbc_addr ELSE e.sender_addr,
        i_src_port |-> IF loop THEN e.sbc_port ELSE e.sender_port,
        i_dst_addr |-> IF loop THEN e.sbc_addr ELSE e.receiver_addr,
        i_dst_port |-> IF loop THEN e.sbc_port ELSE e.receiver_port,
        i_prx_addr |-> IF loop THEN cfg.ext_proxy_addr ELSE cfg.int_proxy_addr,
        i_prx_port |-> index,
        e_prx_addr |-> cfg.ext_proxy_addr,
        e_prx_port |-> index,
        e_src_addr |-> e.sbc_addr,
        e_src_port |-> e.sbc_port,
        e_dst_addr |-> e.sbc_addr,
        e_dst_port |-> e.sbc_port,
        loopback   |-> IF loop THEN 1 ELSE 0,
        smoothing  |-> cfg.smoothing]

\* get_routing: the condition under which the sbc port is looked up as a
\* second, locally registered session.
Cascades(cfg, e) ==
    cfg.loopback # 0 /\ e.sbc_addr = cfg.ext_proxy_addr

\* get_routing: the external side of rt replaced by the internal side of the
\* routing context tmp of the cascaded session.
Merge(rt, tmp) ==
    [rt EXCEPT !.e_prx_addr = tmp.i_prx_addr, !.e_prx_port = tmp.i_prx_port,
               !.e_src_addr = tmp.i_src_addr, !.e_src_port = tmp.i_src_port,
               !.e_dst_addr = tmp.i_dst_addr, !.e_dst_port = tmp.i_dst_port]

(***************************************************************************)
(* get_routing over a snapshot of the table: e is the entry read at index, *)
(* e2 the entry read afterwards at e.sbc_port (used only when Cascades).   *)
(* The two reads are separate lock acquisitions in the code; RtpProxy      *)
(* takes them as separate steps and uses this operator for the result.     *)
(***************************************************************************)
GetRouting(index, cfg, e, e2) ==
    IF Cascades(cfg, e) /\ IsEntryValid(e2)
    THEN Merge(InitRouting(index, cfg, e), InitRouting(e.sbc_port, cfg, e2))
    ELSE InitRouting(index, cfg, e)

-----------------------------------------------------------------------------
(***************************************************************************)
(* match_udp_packet: 0 unless every non-zero expected field equals the     *)
(* packet's; otherwise 5 minus the number of zero (wildcard) fields.       *)
(***************************************************************************)
Wild(x) == IF x = 0 THEN 1 ELSE 0

MatchUdpPacket(h, sa, sp, da, dp) ==
    IF /\ (sa = 0 \/ h.saddr = sa) /\ (sp = 0 \/ h.sport = sp)
       /\ (da = 0 \/ h.daddr = da) /\ (dp = 0 \/ h.dport = dp)
    THEN 5 - (Wild(sa) + Wild(sp) + Wild(da) + Wild(dp))
    ELSE 0

RouteClasses == {"LOOPBACK", "OUTGOING", "INCOMING", "AMBIGIUOS", "NO_ROUTE"}

\* match_routes
MatchRoutes(h, rt) ==
    IF rt.loopback # 0 THEN "LOOPBACK"
    ELSE LET out == MatchUdpPacket(h, rt.i_src_addr, rt.i_src_port, 0, rt.i_prx_port)
             inc == MatchUdpPacket(h, rt.e_src_addr, rt.e_src_port, 0, rt.e_prx_port)
         IN CASE out = 0 /\ inc = 0 -> "NO_ROUTE"
              [] out > inc         -> "OUTGOING"
              [] inc > out         -> "INCOMING"
              [] OTHER             -> "AMBIGIUOS"

\* rewrite_udp_packet: a zero target leaves the field unchanged.
RewriteUdpPacket(h, sa, sp, da, dp) ==
    [h EXCEPT !.saddr = IF sa # 0 THEN sa ELSE @,
              !.sport = IF sp # 0 THEN sp ELSE @,
              !.daddr = IF da # 0 THEN da ELSE @,
              !.dport = IF dp # 0 THEN dp ELSE @]

\* Seeded fault for mutation testing: an INCOMING packet is sent to the sbc
\* (E_DST_ADDR, the value of the OUTGOING case) instead of the receiver.
HandleIncomingCopyPaste(h, rt) ==
    LET cls == MatchRoutes(h, rt) IN
    IF cls \in {"LOOPBACK", "OUTGOING", "INCOMING"}
    THEN [verdict |-> "ACCEPT", hdr |-> RewriteUdpPacket(h, 0, 0, rt.e_dst_addr, 0)]
    ELSE [verdict |-> "DROP", hdr |-> h]

(***************************************************************************)
(* handle_incoming_udp_packet, the pre-decision phase used at PRE_ROUTING  *)
(* and LOCAL_OUT: only the destination address is rewritten.  The result   *)
(* is the verdict and the rewritten header.                                *)
(***************************************************************************)
HandleIncoming(h, rt) ==
    LET cls == MatchRoutes(h, rt) IN
    CASE cls \in {"LOOPBACK", "OUTGOING"} ->
            [verdict |-> "ACCEPT", hdr |-> RewriteUdpPacket(h, 0, 0, rt.e_dst_addr, 0)]
      [] cls = "INCOMING" ->
            [verdict |-> "ACCEPT", hdr |-> RewriteUdpPacket(h, 0, 0, rt.i_dst_addr, 0)]
      [] OTHER -> [verdict |-> "DROP", hdr |-> h]

(***************************************************************************)
(* handle_outgoing_udp_packet, the post-decision phase used at LOCAL_IN    *)
(* and POST_ROUTING: source address, source port and destination port.     *)
(* `smooth` is TRUE when rewrite_rtp is called (smoothing configured on an *)
(* outgoing or loopback route); the smoothing itself touches the table and *)
(* is the separate transaction SetSN below.                                *)
(***************************************************************************)
HandleOutgoing(h, rt) ==
    LET cls == MatchRoutes(h, rt) IN
    CASE cls \in {"LOOPBACK", "OUTGOING"} ->
            [verdict |-> "ACCEPT", smooth |-> rt.smoothing # 0,
             hdr |-> RewriteUdpPacket(h, rt.e_prx_addr, rt.e_prx_port, 0, rt.e_dst_port)]
      [] cls = "INCOMING" ->
            [verdict |-> "ACCEPT", smooth |-> FALSE,
             hdr |-> RewriteUdpPacket(h, rt.i_prx_addr, rt.i_prx_port, 0, rt.i_dst_port)]
      [] OTHER -> [verdict |-> "DROP", smooth |-> FALSE, hdr |-> h]

\* rewrite_rtp: an RTP packet (payload long enough and version 2, the flag
\* `rtp`) on an even port is smoothed; odd ports carry RTCP and are not.
RtpEligible(rtp, index) == rtp /\ index % 2 = 0

-----------------------------------------------------------------------------
(***************************************************************************)
(* set_SN_function, run by table_atomically under the slot's lock: the     *)
(* new entry and the emitted sequence number for observed number sn.       *)
(* Arithmetic is on uint16_t, so every sum and difference is mod 2^16.     *)
(***************************************************************************)
MIN_DELTA == 4
U16 == 65536

\* Seeded fault for mutation testing: the sum is not truncated to 16 bits.
SetSNUnwrapped(e, sn) ==
    LET expected == (e.last_sn + 1) % U16
        jump     == e.entry_used # 0 /\ sn < expected /\ expected - sn >= MIN_DELTA
        offset   == IF jump THEN e.offset + (expected - sn) ELSE e.offset
    IN [entry |-> [e EXCEPT !.entry_used = 1, !.last_sn = sn, !.offset = offset % U16],
        sn    |-> sn + offset]

\* Seeded fault for mutation testing: last_sn is stored only when the
\* packet did not jump back (the assignment moved into the else branch).
SetSNKeepsLast(e, sn) ==
    LET expected == (e.last_sn + 1) % U16
        delta    == (expected - sn) % U16
        jump     == e.entry_used # 0 /\ sn < expected /\ delta >= MIN_DELTA
        offset   == IF jump THEN (e.offset + delta) % U16 ELSE e.offset
    IN [entry |-> [e EXCEPT !.entry_used = 1, !.last_sn = IF jump THEN @ ELSE sn,
                            !.offset = offset],
        sn    |-> (sn + offset) % U16]

SetSN(e, sn) ==
    LET expected == (e.last_sn + 1) % U16
        delta    == (expected - sn) % U16
        jump     == e.entry_used # 0 /\ sn < expected /\ delta >= MIN_DELTA
        offset   == IF jump THEN (e.offset + delta) % U16 ELSE e.offset
    IN [entry |-> [e EXCEPT !.entry_used = 1, !.last_sn = sn, !.offset = offset],
        sn    |-> (sn + offset) % U16]

\* Seeded fault for mutation testing: every "a" re-seeds the offset.
UpdateTableReseed(e, s, r) ==
    [e EXCEPT !.sender_addr = s.sender_addr, !.sender_port = s.sender_port,
              !.receiver_addr = s.receiver_addr, !.receiver_port = s.receiver_port,
              !.sbc_addr = s.sbc_addr, !.sbc_port = s.sbc_port,
              !.offset = r, !.offset_set = 1]

\* update_table_function (command.c), run by table_atomically for command
\* "a": the endpoint fields are overwritten; the offset is seeded with the
\* random value r only the first time.
UpdateTable(e, s, r) ==
    [e EXCEPT !.sender_addr = s.sender_addr, !.sender_port = s.sender_port,
              !.receiver_addr = s.receiver_addr, !.receiver_port = s.receiver_port,
              !.sbc_addr = s.sbc_addr, !.sbc_port = s.sbc_port,
              !.offset = IF e.offset_set = 0 THEN r ELSE @,
              !.offset_set = 1]
=============================================================================
