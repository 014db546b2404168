------------------------------ MODULE RtpProxy ------------------------------
(***************************************************************************)
(* The relay as a concurrent system: the global configuration (config.c),  *)
(* the routing table of per-port slots (table.c), the control commands     *)
(* written to the proc file (command.c), and UDP packets crossing the four *)
(* netfilter hooks (mangle.c generic_hook_func with the handlers of        *)
(* rewrite.c and the checksum handling of checksum.c).                     *)
(*                                                                         *)
(* Every spinlock-protected access (config_get, config_set, table_get,     *)
(* table_put, table_atomically) is one atomic step; what a handler does    *)
(* between two such accesses works on its own copies and is folded into    *)
(* the step of the access that precedes it.  Packets and commands run on   *)
(* different CPUs, so their steps interleave freely.                       *)
(***************************************************************************)
EXTENDS Naturals, Sequences, FiniteSets, SequencesExt, RtpRoute

CONSTANTS
    TablePorts,     \* the table indices (proxy ports) the model exercises
    Sessions,       \* arguments of command "a": [port, sender_addr, ..., sbc_port]
    ProxyAddrs,     \* arguments of command "c": [int, ext]
    FlagValues,     \* arguments of commands "s" and "l"
    RandomOffsets,  \* values get_random_bytes may produce for a new offset
    LocalAddrs,     \* addresses the host's routing delivers locally
    Origins,        \* packets entering the pipeline (see Inject)
    InitConfig,     \* configuration when the run starts (set by earlier commands)
    InitSessions,   \* sessions added by "a" commands before the run starts
    MaxPackets,     \* bound on the number of packets injected
    MaxCommands     \* bound on the number of commands issued

VARIABLES
    config,   \* the global struct config
    table,    \* table[k]: the entry of slot k
    cmds,     \* cmds[i]: the i-th control command, while and after it runs
    nCmds,    \* number of commands issued
    pkts,     \* pkts[i]: the i-th packet and the hook code handling it
    nPkts,    \* number of packets injected
    \* history variables, read only by the properties:
    life,     \* life[k]: number of times command "a" seeded slot k's offset
    smoothed, \* smoothed[k]: the last two smoothing transactions on slot k
    wanted    \* the configuration the completed commands wrote, in order

vars == <<config, table, cmds, nCmds, pkts, nPkts, life, smoothed, wanted>>

CmdIds == 1..MaxCommands
PktIds == 1..MaxPackets

Hooks == {"PRE", "LOCAL_IN", "LOCAL_OUT", "POST"}
PreHooks == {"PRE", "LOCAL_OUT"}  \* hooks whose function is handle_incoming_udp_packet
Places == Hooks \cup {"new", "wire", "local", "dropped"}

\* config_clr: addresses zero, smoothing and loopback on.
DefaultConfig ==
    [int_proxy_addr |-> 0, ext_proxy_addr |-> 0, smoothing |-> 1, loopback |-> 1]

\* A slot outside the modelled indices is never written, hence all-zero.
Slot(k) == IF k \in TablePorts THEN table[k] ELSE EmptyEntry

\* Placeholder for "no routing context used" in the history fields.
NoRouting == InitRouting(0, [DefaultConfig EXCEPT !.smoothing = 0,
                                                  !.loopback = 0], EmptyEntry)
NoEvent == [life |-> 0, used |-> 0, sn |-> 0, out |-> 0]

-----------------------------------------------------------------------------
(***************************************************************************)
(* Checksums.  A checksum is modelled by the header fields it covers at    *)
(* the time it was computed: it is correct exactly when those fields       *)
(* still have that value.  The IP checksum covers the addresses; a full    *)
(* UDP checksum covers addresses, ports and payload (the RTP sequence      *)
(* number is the only payload that changes); the pseudo-header partial    *)
(* sum left for the device (CHECKSUM_PARTIAL) covers the addresses only.   *)
(***************************************************************************)
IpSum(p) == <<p.hdr.saddr, p.hdr.daddr>>
FullSum(p) == [kind |-> "full",
               over |-> <<p.hdr.saddr, p.hdr.sport, p.hdr.daddr, p.hdr.dport, p.sn>>]
PseudoSum(p) == [kind |-> "pseudo", over |-> <<p.hdr.saddr, p.hdr.daddr>>]

\* What a receiver checks: the IP checksum, and the UDP checksum that the
\* packet's ip_summed state says the check field holds.
ChecksumsValid(p) ==
    /\ p.ipck = IpSum(p)
    /\ p.udpck = IF p.summed = "PARTIAL" THEN PseudoSum(p) ELSE FullSum(p)

\* handle_incoming_checksums: only CHECKSUM_COMPLETE changes state (the
\* verification branches only log).
IncomingChecksums(p) ==
    [p EXCEPT !.summed = IF @ = "COMPLETE" THEN "UNNECESSARY" ELSE @]

\* is_local_out: the route of the packet is local.
IsLocalOut(p) == p.hdr.daddr \in LocalAddrs

\* Seeded fault for mutation testing: the CHECKSUM_PARTIAL branch forgets
\* calculate_pseudo_header_udp_checksum.
OutgoingChecksumsNoPseudo(p) ==
    IF p.summed = "PARTIAL"
    THEN [p EXCEPT !.ipck = IpSum(p)]
    ELSE IF ~IsLocalOut(p) /\ p.hw
         THEN [p EXCEPT !.ipck = IpSum(p), !.summed = "PARTIAL", !.udpck = PseudoSum(p)]
         ELSE [p EXCEPT !.ipck = IpSum(p), !.udpck = FullSum(p)]

\* handle_outgoing_checksums: the IP checksum is always recomputed; a
\* CHECKSUM_PARTIAL packet keeps it and gets a new pseudo-header sum; any
\* other packet is switched to CHECKSUM_PARTIAL when it is not local and the
\* device can checksum, and gets a full software checksum otherwise.
OutgoingChecksums(p) ==
    IF p.summed = "PARTIAL"
    THEN [p EXCEPT !.ipck = IpSum(p), !.udpck = PseudoSum(p)]
    ELSE IF ~IsLocalOut(p) /\ p.hw
         THEN [p EXCEPT !.ipck = IpSum(p), !.summed = "PARTIAL", !.udpck = PseudoSum(p)]
         ELSE [p EXCEPT !.ipck = IpSum(p), !.udpck = FullSum(p)]

-----------------------------------------------------------------------------
(***************************************************************************)
(* The network stack around the hooks: where a packet goes after a hook    *)
(* accepts it.  After PRE_ROUTING the routing decision delivers locally or *)
(* forwards; LOCAL_OUT is followed by POST_ROUTING; after POST_ROUTING a   *)
(* packet to a local address comes back in through the loopback device.    *)
(***************************************************************************)
NextHop(p) ==
    CASE p.at = "PRE"       -> IF p.hdr.daddr \in LocalAddrs THEN "LOCAL_IN" ELSE "POST"
      [] p.at = "LOCAL_OUT" -> "POST"
      [] p.at = "LOCAL_IN"  -> "local"
      [] p.at = "POST"      -> IF p.hdr.daddr \in LocalAddrs THEN "PRE" ELSE "wire"

\* The hook is done with the packet and returns NF_ACCEPT; a packet
\* entering a pre-decision hook starts a new pass of the history fields.
Hop(p) ==
    LET nxt == NextHop(p) IN
    [p EXCEPT !.at = nxt, !.pc = "cfg",
              !.cfg = DefaultConfig, !.ent = EmptyEntry, !.rt = NoRouting,
              !.preRt  = IF nxt = "PRE" THEN NoRouting ELSE @,
              !.postRt = IF nxt = "PRE" THEN NoRouting ELSE @]

\* The hook returns NF_ACCEPT without touching the packet.
Pass(p) ==
    Hop([p EXCEPT !.preRt  = IF p.at \in PreHooks THEN NoRouting ELSE @,
                  !.postRt = IF p.at \in PreHooks THEN @ ELSE NoRouting])

\* Work after the handler accepted (and, if it smooths, after smoothing):
\* generic_hook_func finalizes checksums at POST_ROUTING.
Finish(p) ==
    Hop(IF p.at = "POST" THEN OutgoingChecksums(p) ELSE p)

(***************************************************************************)
(* generic_hook_func once the routing context rt is known: the set of      *)
(* possible successors of packet p (at LOCAL_OUT, ip_route_me_harder may   *)
(* fail and the packet is dropped).                                        *)
(***************************************************************************)
Apply(p, rt) ==
    IF p.at \in PreHooks
    THEN LET q   == [IncomingChecksums(p) EXCEPT !.preRt = rt,
                                                 !.cls = MatchRoutes(p.hdr, rt)]
             res == HandleIncoming(p.hdr, rt)
             acc == [q EXCEPT !.hdr = res.hdr]
         IN IF res.verdict = "DROP" THEN {[q EXCEPT !.at = "dropped"]}
            ELSE IF p.at = "LOCAL_OUT"
                 THEN {Hop(acc), [acc EXCEPT !.at = "dropped"]}
                 ELSE {Hop(acc)}
    ELSE LET q   == [p EXCEPT !.postRt = rt]
             res == HandleOutgoing(p.hdr, rt)
             acc == [q EXCEPT !.hdr = res.hdr, !.rt = rt]
         IN IF res.verdict = "DROP" THEN {[q EXCEPT !.at = "dropped"]}
            ELSE IF res.smooth /\ RtpEligible(p.rtp, rt.e_prx_port)
                 THEN {[acc EXCEPT !.pc = "smooth"]}
                 ELSE {Finish(acc)}

-----------------------------------------------------------------------------
(***************************************************************************)
(* The run starts after module init (config_init, table_init) and the     *)
(* commands that set InitConfig and added InitSessions, each with a random *)
(* offset.                                                                 *)
(***************************************************************************)
Init ==
    /\ config = InitConfig
    /\ \E r \in [TablePorts -> RandomOffsets] :
          table = [k \in TablePorts |->
                     IF \E s \in InitSessions : s.port = k
                     THEN UpdateTable(EmptyEntry, CHOOSE s \in InitSessions : s.port = k, r[k])
                     ELSE EmptyEntry]
    /\ cmds = [i \in CmdIds |-> [op |-> "none", pc |-> "done", arg |-> 0,
                                 cfg |-> DefaultConfig, todo |-> <<>>]]
    /\ nCmds = 0
    /\ pkts = [i \in PktIds |-> [at |-> "new", pc |-> "cfg",
                 hdr |-> [saddr |-> 0, sport |-> 0, daddr |-> 0, dport |-> 0],
                 sn |-> 0, rtp |-> FALSE, summed |-> "NONE", hw |-> FALSE, linear |-> FALSE,
                 ipck |-> <<0, 0>>, udpck |-> [kind |-> "full", over |-> <<>>],
                 cfg |-> DefaultConfig, ent |-> EmptyEntry, rt |-> NoRouting,
                 preRt |-> NoRouting, postRt |-> NoRouting, cls |-> "NO_ROUTE"]]
    /\ nPkts = 0
    /\ life = [k \in TablePorts |-> IF \E s \in InitSessions : s.port = k THEN 1 ELSE 0]
    /\ smoothed = [k \in TablePorts |-> <<NoEvent, NoEvent>>]
    /\ wanted = InitConfig

-----------------------------------------------------------------------------
(***************************************************************************)
(* Control commands (command.c handle_command).  "a" and "d" each make one *)
(* table access and are one step.  "c", "s" and "l" read the whole         *)
(* configuration with config_get, change their field(s) in a local copy    *)
(* and write it back with config_set: two steps.  "f" clears the           *)
(* configuration and then deletes the slots one by one (table_clr).        *)
(* Nothing serializes two writers of the proc file.                        *)
(***************************************************************************)
CanIssue == nCmds < MaxCommands

\* command_add: table_atomically(port, update_table_function).
CmdAdd(s) ==
    /\ CanIssue
    /\ \E r \in RandomOffsets :
          table' = [table EXCEPT ![s.port] = UpdateTable(@, s, r)]
    /\ life' = [life EXCEPT ![s.port] = IF table[s.port].offset_set = 0 THEN @ + 1 ELSE @]
    /\ nCmds' = nCmds + 1
    /\ UNCHANGED <<config, cmds, pkts, nPkts, smoothed, wanted>>

\* command_delete: table_del, a table_put of an all-zero entry.
CmdDelete(k) ==
    /\ CanIssue
    /\ table' = [table EXCEPT ![k] = EmptyEntry]
    /\ nCmds' = nCmds + 1
    /\ UNCHANGED <<config, cmds, pkts, nPkts, life, smoothed, wanted>>

\* handle_command dispatching "c", "s", "l" or "f" with argument arg.
CmdIssue(op, arg) ==
    /\ CanIssue
    /\ cmds' = [cmds EXCEPT ![nCmds + 1] =
                  [op |-> op, pc |-> IF op = "f" THEN "clr" ELSE "get",
                   arg |-> arg, cfg |-> DefaultConfig, todo |-> <<>>]]
    /\ nCmds' = nCmds + 1
    /\ UNCHANGED <<config, table, pkts, nPkts, life, smoothed, wanted>>

\* The field(s) command op sets in configuration c.
SetField(c, op, arg) ==
    CASE op = "c" -> [c EXCEPT !.int_proxy_addr = arg.int, !.ext_proxy_addr = arg.ext]
      [] op = "s" -> [c EXCEPT !.smoothing = arg]
      [] op = "l" -> [c EXCEPT !.loopback = arg]

\* command_configure / command_smoothing / command_loopback: config_get.
CmdGet(i) ==
    /\ cmds[i].pc = "get"
    /\ cmds' = [cmds EXCEPT ![i].cfg = config, ![i].pc = "set"]
    /\ UNCHANGED <<config, table, nCmds, pkts, nPkts, life, smoothed, wanted>>

\* ... and config_set of the changed copy.
CmdSet(i) ==
    /\ cmds[i].pc = "set"
    /\ config' = SetField(cmds[i].cfg, cmds[i].op, cmds[i].arg)
    /\ wanted' = SetField(wanted, cmds[i].op, cmds[i].arg)
    /\ cmds' = [cmds EXCEPT ![i].pc = "done", ![i].cfg = DefaultConfig]
    /\ UNCHANGED <<table, nCmds, pkts, nPkts, life, smoothed>>

\* command_flush: config_clr, then table_clr deletes slot after slot.
FlushConfig(i) ==
    /\ cmds[i].pc = "clr"
    /\ config' = DefaultConfig
    /\ wanted' = DefaultConfig
    /\ cmds' = [cmds EXCEPT ![i].pc = "del", ![i].todo = SetToSortSeq(TablePorts, <)]
    /\ UNCHANGED <<table, nCmds, pkts, nPkts, life, smoothed>>

FlushDel(i) ==
    /\ cmds[i].pc = "del"
    /\ table' = [table EXCEPT ![Head(cmds[i].todo)] = EmptyEntry]
    /\ cmds' = [cmds EXCEPT ![i].todo = Tail(@),
                            ![i].pc = IF Len(cmds[i].todo) = 1 THEN "done" ELSE "del"]
    /\ UNCHANGED <<config, nCmds, pkts, nPkts, life, smoothed, wanted>>

-----------------------------------------------------------------------------
(***************************************************************************)
(* Packets.  An origin o is a packet as it enters the host: at PRE_ROUTING *)
(* from a device or at LOCAL_OUT from a local socket, with its header, its *)
(* RTP sequence number, whether it is RTP version 2 with a full header,    *)
(* its ip_summed state and whether its output device can checksum.  Its    *)
(* checksums are correct when it enters.                                   *)
(***************************************************************************)
Inject(o) ==
    /\ nPkts < MaxPackets
    /\ LET p == [pkts[nPkts + 1] EXCEPT
                   !.at = o.hook, !.pc = "cfg",
                   !.hdr = [saddr |-> o.saddr, sport |-> o.sport,
                            daddr |-> o.daddr, dport |-> o.dport],
                   !.sn = o.sn, !.rtp = o.rtp, !.summed = o.summed, !.hw = o.hw]
       IN pkts' = [pkts EXCEPT ![nPkts + 1] =
                     [p EXCEPT !.ipck = IpSum(p),
                               !.udpck = IF p.summed = "PARTIAL" THEN PseudoSum(p)
                                                                ELSE FullSum(p)]]
    /\ nPkts' = nPkts + 1
    /\ UNCHANGED <<config, table, cmds, nCmds, life, smoothed, wanted>>

InHook(i) == pkts[i].at \in Hooks

\* get_ip_and_udp_headers fails (skb_linearize cannot allocate a linear
\* copy of a fragmented skb): the hook accepts the packet unexamined.  Once
\* linearized, skb_linearize cannot fail again.
HeaderFail(i) ==
    /\ InHook(i) /\ pkts[i].pc = "cfg" /\ ~pkts[i].linear
    /\ pkts' = [pkts EXCEPT ![i] = Pass(@)]
    /\ UNCHANGED <<config, table, cmds, nCmds, nPkts, life, smoothed, wanted>>

\* generic_hook_func: the headers are found (the skb is now linear), then
\* config_get.
ReadConfig(i) ==
    /\ InHook(i) /\ pkts[i].pc = "cfg"
    /\ pkts' = [pkts EXCEPT ![i].linear = TRUE, ![i].cfg = config, ![i].pc = "get"]
    /\ UNCHANGED <<config, table, cmds, nCmds, nPkts, life, smoothed, wanted>>

\* get_routing: table_get of the slot of the destination port.  No valid
\* entry: accept unexamined.  Cascading: a second lookup follows.
\* Otherwise the handler runs on the routing context.
Lookup(i) ==
    /\ InHook(i) /\ pkts[i].pc = "get"
    /\ LET p == pkts[i]
           e == Slot(p.hdr.dport)
       IN CASE ~IsEntryValid(e) ->
                 pkts' = [pkts EXCEPT ![i] = Pass(p)]
            [] Cascades(p.cfg, e) ->
                 pkts' = [pkts EXCEPT ![i].ent = e, ![i].pc = "cascade"]
            [] OTHER ->
                 \E q \in Apply([p EXCEPT !.ent = e],
                                InitRouting(p.hdr.dport, p.cfg, e)) :
                    pkts' = [pkts EXCEPT ![i] = q]
    /\ UNCHANGED <<config, table, cmds, nCmds, nPkts, life, smoothed, wanted>>

\* get_routing: table_get of the sbc port, after the first slot's lock was
\* released; then the handler runs.
Cascade(i) ==
    /\ InHook(i) /\ pkts[i].pc = "cascade"
    /\ LET p == pkts[i] IN
       \E q \in Apply(p, GetRouting(p.hdr.dport, p.cfg, p.ent, Slot(p.ent.sbc_port))) :
          pkts' = [pkts EXCEPT ![i] = q]
    /\ UNCHANGED <<config, table, cmds, nCmds, nPkts, life, smoothed, wanted>>

\* rewrite_rtp: table_atomically(E_PRX_PORT, set_SN_function); the hook
\* then finishes the packet.
Smooth(i) ==
    /\ InHook(i) /\ pkts[i].pc = "smooth"
    /\ LET p == pkts[i]
           k == p.rt.e_prx_port
           r == SetSN(table[k], p.sn)
       IN /\ k \in TablePorts
          /\ table' = [table EXCEPT ![k] = r.entry]
          /\ pkts' = [pkts EXCEPT ![i] = Finish([p EXCEPT !.sn = r.sn])]
          /\ smoothed' = [smoothed EXCEPT ![k] =
                 <<[life |-> life[k], used |-> table[k].entry_used,
                    sn |-> p.sn, out |-> r.sn], @[1]>>]
    /\ UNCHANGED <<config, cmds, nCmds, nPkts, life, wanted>>

\* All bounded activity is over; the host keeps running.
Quiescent ==
    /\ nPkts = MaxPackets /\ nCmds = MaxCommands
    /\ \A i \in PktIds : ~InHook(i)
    /\ \A i \in CmdIds : cmds[i].pc = "done"
    /\ UNCHANGED vars

PacketStep(i) ==
    HeaderFail(i) \/ ReadConfig(i) \/ Lookup(i) \/ Cascade(i) \/ Smooth(i)

Next ==
    \/ \E s \in Sessions : CmdAdd(s)
    \/ \E k \in TablePorts : CmdDelete(k)
    \/ \E a \in ProxyAddrs : CmdIssue("c", a)
    \/ \E v \in FlagValues : CmdIssue("s", v) \/ CmdIssue("l", v)
    \/ CmdIssue("f", 0)
    \/ \E i \in CmdIds : CmdGet(i) \/ CmdSet(i) \/ FlushConfig(i) \/ FlushDel(i)
    \/ \E o \in Origins : Inject(o)
    \/ \E i \in PktIds : PacketStep(i)
    \/ Quiescent

Spec == Init /\ [][Next]_vars


-----------------------------------------------------------------------------
(***************************************************************************)
(* Properties.                                                             *)
(***************************************************************************)
Config == [int_proxy_addr : Nat, ext_proxy_addr : Nat, smoothing : Nat, loopback : Nat]
Entry == [sender_addr : Nat, sender_port : Nat, receiver_addr : Nat,
          receiver_port : Nat, sbc_addr : Nat, sbc_port : Nat,
          last_sn : 0..(U16 - 1), offset : 0..(U16 - 1),
          offset_set : {0, 1}, entry_used : {0, 1}]
\* struct routing: addresses and ports as get_routing copies them, the
\* loopback flag set to 0 or 1, smoothing copied from the configuration.
Routing == [i_src_addr : Nat, i_src_port : Nat, i_dst_addr : Nat, i_dst_port : Nat,
            i_prx_addr : Nat, i_prx_port : Nat, e_prx_addr : Nat, e_prx_port : Nat,
            e_src_addr : Nat, e_src_port : Nat, e_dst_addr : Nat, e_dst_port : Nat,
            loopback : {0, 1}, smoothing : Nat]

\* Every variable has the shape the code gives it; sequence numbers and
\* offsets stay 16-bit.
TypeOK ==
    /\ config \in Config
    /\ table \in [TablePorts -> Entry]
    /\ nCmds \in 0..MaxCommands /\ nPkts \in 0..MaxPackets
    /\ \A i \in CmdIds : cmds[i].op \in {"none", "c", "s", "l", "f"}
                         /\ cmds[i].pc \in {"get", "set", "clr", "del", "done"}
    /\ \A i \in PktIds : /\ pkts[i].at \in Places
                         /\ pkts[i].pc \in {"cfg", "get", "cascade", "smooth"}
                         /\ pkts[i].sn \in 0..(U16 - 1)
                         /\ pkts[i].cls \in RouteClasses
                         /\ {pkts[i].rt, pkts[i].preRt, pkts[i].postRt} \subseteq Routing
    /\ wanted \in Config

Done(p) == p.at \in {"wire", "local", "dropped"}

\* The pre-decision hook and the post-decision hook of the packet's last
\* pass through the host derived the same routing context.
SameRoute(p) == p.preRt # NoRouting /\ p.postRt = p.preRt

\* The header a relayed packet must leave with: from the proxy's side of the
\* leg to the leg's destination (rewrite.c, ROUTING LOGIC comment).
Leg(rt, cls) ==
    IF cls \in {"LOOPBACK", "OUTGOING"}
    THEN [saddr |-> rt.e_prx_addr, sport |-> rt.e_prx_port,
          daddr |-> rt.e_dst_addr, dport |-> rt.e_dst_port]
    ELSE [saddr |-> rt.i_prx_addr, sport |-> rt.i_prx_port,
          daddr |-> rt.i_dst_addr, dport |-> rt.i_dst_port]

(***************************************************************************)
(* The two rewrite phases compose to the whole relay: a packet that the    *)
(* pre-decision hook (PRE_ROUTING or LOCAL_OUT) accepted on a route whose  *)
(* proxy and destination fields are all set, and whose post-decision hook  *)
(* (LOCAL_IN or POST_ROUTING) saw the same routing context, is not dropped *)
(* and leaves with exactly the leg's header: rewrite.c changes only the    *)
(* destination address first and the source and destination port later,   *)
(* across the host's routing decision and the loopback device.            *)
(***************************************************************************)
RelayCompletesRoute ==
    \A i \in PktIds :
        LET p == pkts[i] IN
        (/\ Done(p) /\ SameRoute(p)
         /\ p.cls \in {"LOOPBACK", "OUTGOING", "INCOMING"}
         /\ \A f \in DOMAIN Leg(p.preRt, p.cls) : Leg(p.preRt, p.cls)[f] # 0)
        => /\ p.at # "dropped"
           /\ p.hdr = Leg(p.preRt, p.cls)

(***************************************************************************)
(* A packet that POST_ROUTING puts on the wire carries an IP checksum that *)
(* matches its header and the UDP checksum its ip_summed state promises:   *)
(* checksum.c handle_outgoing_checksums runs after every rewrite and after *)
(* smoothing changed the payload.  Stated for packets whose two hooks saw  *)
(* the same routing context (WireChecksumsValid drops that condition).     *)
(***************************************************************************)
StableRouteChecksumsValid ==
    \A i \in PktIds :
        (pkts[i].at = "wire" /\ pkts[i].preRt = pkts[i].postRt)
            => ChecksumsValid(pkts[i])

\* Every packet on the wire has valid checksums, whatever the control
\* plane did while the packet was between its two hooks.
WireChecksumsValid ==
    \A i \in PktIds : pkts[i].at = "wire" => ChecksumsValid(pkts[i])

(***************************************************************************)
(* A relayed packet never leaves the proxy with a source other than the    *)
(* proxy host's: when both decision points relayed it on one and the same *)
(* route, the post-decision rewrite replaced the source address of the     *)
(* internal or external sender by the proxy's address.  command_flush     *)
(* must not open a window in which sessions are relayed without it.        *)
(***************************************************************************)
RelayedFromProxy ==
    \A i \in PktIds :
        LET p == pkts[i] IN
        (/\ p.at = "wire" /\ SameRoute(p)
         /\ p.cls \in {"LOOPBACK", "OUTGOING", "INCOMING"})
        => p.hdr.saddr \in LocalAddrs

(***************************************************************************)
(* RTP smoothing keeps the emitted sequence contiguous: within one life of *)
(* a slot (from the "a" command that seeded its offset), when a smoothed   *)
(* packet follows the previous one in order, or jumps back by at least     *)
(* MIN_DELTA, the number emitted is the previous emitted number plus one   *)
(* (mod 2^16).  This must survive concurrent packets on the slot and "a"   *)
(* commands that re-add the session (update_table_function keeps the      *)
(* offset once set).                                                       *)
(***************************************************************************)
Continues(last, sn) ==
    LET expected == (last + 1) % U16 IN
    sn = expected \/ (sn < expected /\ expected - sn >= MIN_DELTA)

StreamContiguous ==
    \A k \in TablePorts :
        LET cur == smoothed[k][1]
            prev == smoothed[k][2]
        IN (/\ prev # NoEvent /\ cur.used = 1 /\ cur.life = prev.life
            /\ Continues(prev.sn, cur.sn))
           => cur.out = (prev.out + 1) % U16

(***************************************************************************)
(* Deletion resets a slot: a slot whose offset no "a" command has seeded   *)
(* since it was last deleted is all-zero (spec: "Deletion zeroes the slot, *)
(* resetting all state"; update_table_function is the only writer of      *)
(* offset_set).                                                            *)
(***************************************************************************)
NeverAddedIsEmpty ==
    \A k \in TablePorts : table[k].offset_set = 0 => table[k] = EmptyEntry

(***************************************************************************)
(* Configuration commands do not lose each other's writes: once no command *)
(* is running, the configuration is what the completed commands wrote, in  *)
(* the order they completed (spec: whole-record semantics of configSet).   *)
(***************************************************************************)
NoLostConfigUpdate ==
    (\A i \in CmdIds : cmds[i].pc = "done") => config = wanted

-----------------------------------------------------------------------------
(***************************************************************************)
(* Refinement: the table implements the smoothing promise of RtpStream.    *)
(* A slot's last output number is its last input plus its offset, which   *)
(* is what set_SN_function emitted for it.                                 *)
(***************************************************************************)
StreamOf(e) ==
    [seeded |-> e.offset_set, used |-> e.entry_used,
     lastIn |-> e.last_sn, lastOut |-> (e.last_sn + e.offset) % U16]

Stream == INSTANCE RtpStream WITH
    Ports <- TablePorts, MinDelta <- MIN_DELTA, Modulus <- U16,
    stream <- [k \in TablePorts |-> StreamOf(table[k])]

\* Smoothing, re-adds and deletes, interleaved with packets in flight, only
\* ever renumber a slot's stream as RtpStream allows: contiguous output
\* across wrap and backward jumps, the gap kept by re-adds (Spec => Stream!Spec).
StreamRefined == Stream!Spec

=============================================================================
