# TLA+ models of lbm_rtp_proxy

lbm_rtp_proxy is a Linux kernel module that relays RTP/RTCP over UDP between an
internal and an external network. It rewrites the addresses and ports of the
packets at four netfilter hooks and can smooth RTP sequence numbers. This
directory models it for the TLC model checker.

## 1. Inventory

### Parts and how they interact

| Part | Source | State | Operations |
|---|---|---|---|
| configuration | `config.c` | one `struct config` (`int_proxy_addr`, `ext_proxy_addr`, `smoothing`, `loopback`) under one spinlock | `config_init`, `config_get`, `config_set`, `config_clr` |
| routing table | `table.c`, `table.h` | 65536 slots, indexed by proxy port, each with its own spinlock and a `struct table_entry` | `table_get`, `table_put`, `table_del`, `table_clr` (slot by slot), `table_atomically(fn)`; `init_routing`, `get_routing` (which does a second lookup for cascaded loopback sessions) |
| classifier and rewriter | `rewrite.c` | none (works on the packet and a routing context) | `match_udp_packet`, `match_routes`, `rewrite_udp_packet`, and the four hook handlers: the pre-decision phase rewrites the destination address, the post-decision phase rewrites the source address, the source port and the destination port |
| RTP smoothing | `rewrite.c` | `last_sn`, `offset`, `entry_used` of a slot (uint16 / uint8) | `rewrite_rtp` → `table_atomically(set_SN_function)` on the slot of `E_PRX_PORT` |
| hook dispatcher | `mangle.c` | none | `generic_hook_func`: headers, `config_get`, `get_routing`, incoming checksums, handler, `ip_route_me_harder` at LOCAL_OUT, outgoing checksums at POST_ROUTING |
| checksums | `checksum.c` | the packet's `ip_summed`, IP and UDP checksums | `handle_incoming_checksums` (COMPLETE→UNNECESSARY), `handle_outgoing_checksums` (PARTIAL / hardware / full software), built on `udp_csum_partial`, `udp_csum_pseudo_header(_partial)` and the kernel's `csum_partial` and `csum_tcpudp_magic` |
| control commands | `command.c`, `procfs.c` | none of their own | `a` (add or update a session), `d` (delete), `c` (proxy addresses), `s` (smoothing), `l` (loopback), `f` (flush), written to `/proc/rtp_proxy` |
| proc file | `procfs.c` | seq_file position and iterator; a 256-byte write buffer per `write()` | `seq_start`, `seq_next`, `seq_show`, `next_table_index`; `rtp_proxy_write` → `handle_command` |
| module life cycle | `module.c`, `mangle.c` | registered hooks | init, exit, `register_nf_hooks`, `unregister_nf_hooks` |
| header layouts | `rtp_packet.h`, `rtcp_packet.h` | none | `struct rtp_packet` and `struct rtcp_packet` bitfields, read by `rewrite_rtp` |
| debug output, macros, tests | `debug.c`, `module.h`, `tests/` | none | printing, format and conversion macros, unit tests |

Packets run in softirq context on any CPU. Commands run in the context of the
process that writes the proc file, and nothing serializes two writers. The two
meet only through the config lock and the slot locks. Every one of these
accesses is atomic on its own, but a handler or command is a *sequence* of
them:

* A packet makes a fresh `config_get` and `get_routing` at **every hook**. The
  two rewrite phases of one relay therefore read the table at two different
  times, with the kernel's routing decision (and possibly the loopback device)
  in between.
* A cascaded lookup reads two slots under two separate lock acquisitions.
* Smoothing writes the slot with `table_atomically` after the handler read it
  with `table_get`.
* `c`, `s` and `l` each do `config_get`, change a field, then `config_set`.
* `f` does `config_clr`, then deletes the slots one at a time.

### Hard behaviours

These are listed with their lines in `PROJECT.json` "hazards":

* stale routing between the pre- and post-decision hooks;
* lost configuration updates;
* smoothing on a slot that was deleted after the lookup;
* the non-atomic cascade;
* 16-bit wrap of the sequence numbers and of the offset;
* re-adding a live session;
* flush order;
* partial failures (`skb_linearize`, `ip_route_me_harder`);
* the checksum states, including local delivery with a stale checksum (the
  FIXME in `checksum.c`);
* proc buffer truncation;
* the table listing racing with commands;
* the UDP length field trusted by `rewrite_rtp` and `udp_csum_partial`;
* bitfields and `ntohs`/`htons` whose effect depends on the build's byte
  order;
* a UDP checksum that computes to 0, and the device completing a
  `CHECKSUM_PARTIAL` checksum over more bytes than the UDP length;
* IP fragments reaching the hooks before defragmentation.

## 2. Modules

* **`RtpRoute`** contains the pure, lock-free code as operators:
  * `IsEntryValid`;
  * `InitRouting` and `GetRouting` (with `Cascades` and `Merge`);
  * `MatchUdpPacket`, `MatchRoutes` and `RewriteUdpPacket`;
  * `HandleIncoming` (pre-decision phase) and `HandleOutgoing` (post-decision
    phase, which also says whether `rewrite_rtp` is called);
  * `SetSN`, which is `set_SN_function` in uint16 arithmetic (`% 2^16`);
  * `UpdateTable`, which is `update_table_function`.
* **`RtpProxy`** composes config, table, commands and packets into one
  concurrent system. It extends `RtpRoute`.
  * Variables:
    * `config`;
    * `table` (slot → entry, over the ports `TablePorts` the model uses; any
      other slot reads as all-zero);
    * `cmds` (each command's program counter and local copy);
    * `pkts` (each packet: where it is, its header, its RTP sequence number,
      its `ip_summed` state and checksums, the local copies of config, entry
      and routing the hook code holds between its lock acquisitions);
    * the bounds counters `nCmds` and `nPkts`.
  * One action per lock acquisition, the whole code path up to the next
    acquisition included:
    * `CmdAdd`, `CmdDelete`;
    * `CmdIssue` with `CmdGet` and `CmdSet` for `c`, `s`, `l`;
    * `FlushConfig` and `FlushDel` for `f` (`config_clr`, then `table_clr`
      slot by slot);
    * `Inject`: a packet arrives at PRE_ROUTING or LOCAL_OUT;
    * `HeaderFail` (linearize failure), `ReadConfig`, `Lookup` (first
      `table_get` and, unless it cascades, the handler), `Cascade` (second
      `table_get`, then the handler) and `Smooth` (`table_atomically` and the
      rest of the hook).
  * `Apply` is the part of `generic_hook_func` after the lookup. `NextHop` is
    the host's routing between hooks: local delivery, forwarding, and the
    loopback device feeding POST_ROUTING back into PRE_ROUTING.
  * A checksum is the tuple of header fields it was computed over, and it is
    valid when they still have those values.
  * `Quiescent` is the stuttering step once every bounded packet and command
    has finished. The host is never stuck, so deadlock is checked.
  * History variables, read only by properties:
    * `life`: how many times `a` seeded a slot;
    * `smoothed`: the last two smoothing transactions per slot;
    * `wanted`: the configuration the completed commands wrote;
    * per packet, `preRt`/`postRt`/`cls`: the routing contexts the two phases
      used.
  * `Stream` instantiates `RtpStream` with the refinement mapping `StreamOf`:
    * `seeded` is `offset_set`, `used` is `entry_used`, `lastIn` is `last_sn`;
    * `lastOut` is `(last_sn + offset) % 2^16`, the number last emitted.
* **`RtpStream`** is the abstract promise of smoothing, per slot, stated
  without the offset. A slot is seeded once (any gap between input and output
  numbers), reset by a delete, and renumbers each packet:
  * a packet that jumps back by at least `MinDelta` gets the successor of the
    last output;
  * any other packet keeps the gap.
* **`RtpList`** models reading `/proc/rtp_proxy` while `a` and `d` change the
  table.
  * A slot is abstracted to whether `table_get` finds a valid entry there.
  * The reader is a program counter over `seq_start` (with its `while` loop),
    `next_table_index` (one probe per step, each a separate lock
    acquisition), `seq_show`, `seq_next` and the buffer-full `Restart`
    (`seq_stop` then `seq_start` at the position `seq_next` returned).
  * History variables: `stable`, the valid slots no command touched since the
    file was opened; `resume`, the record a restart left unshown.
* **`RtpWrite`** models `rtp_proxy_write` and `handle_command`, with the
  process that writes the file.
  * A byte is a command letter, a newline or any other byte. A command run is
    the first line of the buffer handed to `handle_command`.
  * `Kept` is the size clamp: copy `min(len, 256)` bytes and keep at most 255.
  * `WriteFails` is the `-ENOMEM` and `-EFAULT` paths.
  * `Write` is a successful call. The writer follows the `write()` contract:
    after a short write it writes the rest, after an error it gives up.
  * A cut line may or may not parse, since `sscanf` may read a shortened last
    number; both outcomes are allowed.
* **`RtpChecksum`** holds the UDP checksum code as operators on bytes:
  * the kernel's helpers by what RFC 1071 and RFC 768 define them to
    compute: `OnesAdd` (end-around carry), `SumFrom` (RECURSIVE, big-endian
    words, an odd last byte padded with 0), `CsumPartial`, `PseudoHeader`,
    `CsumTcpudpMagic`. These sums do not depend on the host's byte order, so
    they are taken in network order;
  * this repository's code on top of them: `UdpCsumPartial`,
    `UdpCsumPseudoHeaderPartial`, `UdpCsumPseudoHeader` (0 becomes
    `CSUM_MANGLED_0`), `CalculatePseudoHeaderUdpChecksum`,
    `CalculateUdpChecksumFull`, and `OutgoingUdp`, the UDP part of
    `handle_outgoing_checksums`, which also returns the offsets it touches;
  * the reference side: `DeviceComplete` (the device or
    `skb_checksum_help` finishing a `CHECKSUM_PARTIAL` packet, from the UDP
    header to the end of the skb) and `Verifies` (a receiver's RFC 768 check).
* **`RtpHeader`** models `rewrite_rtp` on the bytes it reads and writes, for a
  little-endian (`"LE"`) and a big-endian (`"BE"`) build.
  * `Load16`, `Store16`, `Ntohs` and `Htons` are C's 16-bit memory access and
    byte swapping per host. `Bitfield` places a declared bitfield in its byte
    the way each bitfield order allocates it. `RtpByte0`, `RtpByte1` and
    `RtcpByte0` are the declarations of `rtp_packet.h` and `rtcp_packet.h`.
  * `RewriteRtp` is `rewrite_rtp`: the UDP length from bytes 4..5, the
    odd-port (RTCP) test on the `__be16` index, the RTP header size test,
    `V == 2`, then `SetSN` on the number at 10..11 and `htons` back.
  * The single step `Rewrite` is the handler and, at POST_ROUTING, the
    `handle_outgoing_checksums` call `generic_hook_func` makes after it.
  * `len` is what the skb really holds; the variable `accessed` records every
    offset the code reads or writes.
  * `RfcBits`, `RfcRtp0`, `RfcRtp1` and `RfcRtcp0` are the reference: RFC 3550
    numbers header bits from the most significant bit.
* **`MC_RtpProxy`** gives the model values:
  * port 10 and port 12;
  * session A (internal host 3 ↔ external peer 4);
  * A2 and B, two sessions cascaded through the proxy's own address 1
    (loopback routing);
  * offsets 0 and 65535 (both ends of the 16-bit range);
  * packets from each side, with each `ip_summed` state.

  `Init` starts after `rtp_proxy_init` and the commands that set
  `InitConfig` and added `InitSessions`.
* **`MC_RtpWrite`** scales `WRITE_BUF_SIZE` from 256 to 5 and defines the
  messages.
* **`MC_RtpHeader`** gives the packet bytes: UDP lengths 8, 9, 19, 20 and 21,
  one with a trailing byte, and, for the overread run, lengths claiming 20
  bytes of an 8- or 9-byte packet; first RTP bytes of versions 0 to 3 with
  the other bits clear and set; sequence numbers 0, 0x1234 and 0xFFFF; ports
  10, 11 and 256 (even, but odd in its low byte); a fresh entry and one with
  the largest offset. The checksum contexts are LOCAL_IN, and at
  POST_ROUTING a local packet, a forwarded one with and without a
  checksumming device, `CHECKSUM_NONE` and `CHECKSUM_PARTIAL`. The
  destination address is chosen so that one packet's checksum computes to 0;
  an ASSUME confirms it.

## 3. Runs

| Run | Checks | Bounds | Result |
|---|---|---|---|
| `relay` | `TypeOK`, `RelayCompletesRoute`, `StableRouteChecksumsValid`, `StreamRefined` | cascade A2/B in place, 2 packets out of 4 origins, 1 command of any kind | pass, ~604k states |
| `smoothing` | `StreamContiguous`, `StreamRefined` | session A, 2 packets out of {65535, 0, 6}, 1 command | pass, ~79k states |
| `delete_race` | `NeverAddedIsEmpty` | 1 packet, 1 command | violation |
| `hook_race` | `WireChecksumsValid` | 1 packet, 1 command | violation |
| `config_race` | `NoLostConfigUpdate` | 0 packets, 2 commands | violation |
| `flush_race` | `RelayedFromProxy` | 1 packet, 1 command | violation |
| `list` | `StableEntriesListed`, `ListingTerminates` | 5 slots, 2 commands, 2 restarts | pass, ~26k states |
| `list_skip` | `ResumesAtPending` | 5 slots, no command, 1 restart | violation |
| `list_stale` | `ShownEntriesValid` | 5 slots, 1 command | violation |
| `write` | `CommandsExecutedAsWritten` | buffer of 5, 3 messages that fit | pass, 148 states |
| `header` | `HeaderLayoutsMatchRfc`, `AccessesInPacket`, `RtpRewriteMatchesRfc`, `ChecksumOnWire` | 2 hosts × 108 packets × 3 ports × 2 entries × 6 contexts | pass, ~16k states |
| `header_overread` | `AccessesInPacket` | packets shorter than their UDP length field | violation |

### The passing runs

* **`TypeOK`** (`RtpProxy`) keeps the configuration, the table entries and
  every routing context a packet carries (`rt`, `preRt`, `postRt`) within
  the C types: `Config` (`struct config`), `Entry` (`struct table_entry`)
  and `Routing` (`struct routing`), sequence numbers and offsets 16-bit.
* **`RelayCompletesRoute`** holds for packets whose pre-decision and
  post-decision hooks saw the same route. Such a packet is not dropped and
  leaves with exactly the header of its leg. This covers plain routes, a
  packet looping through the proxy twice (the cascade `cfg.loopback`
  enables), and the loopback device. The `LOOPBACK` route class of
  `match_routes` is not reached: no modelled session has the proxy's own
  address and port as its receiver. It is the design's central claim that the two
  half-rewrites compose.
* **`StableRouteChecksumsValid`**: packets on the wire have checksums that
  match their final header and payload after smoothing, for every
  `ip_summed` state.
* **`StreamContiguous`**: within one life of a slot, the emitted RTP sequence
  numbers stay contiguous across the 65535→0 wrap and backward jumps, with a
  concurrent re-add of the session.
* **`StreamRefined`** (`RtpProxy` implements `RtpStream`): every step of the
  concurrent system changes each slot's smoothing state as the abstract
  promise allows. This holds with deletes, re-adds and flushes racing the
  packets. It also pins down that a re-add keeps the offset and that
  `entry_used` makes the first packet keep the gap.
* **`StableEntriesListed`**: a listing that fits one read buffer shows every entry
  that stayed valid while it ran, whatever `a` and `d` do to other slots.
* **`ListingTerminates`**: reading the file reaches end of file, with and
  without restarts.
* **`CommandsExecutedAsWritten`**: commands that fit the buffer are run once
  each, whole and in order. A command whose `write()` failed runs nothing.
  One message fills the kept part exactly, to catch an off-by-one in the
  clamp.
* **`HeaderLayoutsMatchRfc`**: on both bitfield orders, the bitfields of
  `struct rtp_packet` and `struct rtcp_packet` read exactly the bits RFC 3550
  assigns to V, P, X, CC, M, PT and RC, for all 256 values of the byte.
* **`RtpRewriteMatchesRfc`**: `rewrite_rtp` smooths exactly the RTP packets
  (full RTP header within the UDP length, V = 2, even port in host order even
  when its network-order low byte is odd), stores `set_SN_function`'s number
  in network order, and changes no other byte but the checksum.
* **`AccessesInPacket`**: when the UDP length field is no larger than the
  packet, `rewrite_rtp` and the checksum code touch only packet bytes.
* **`ChecksumOnWire`**: at POST_ROUTING, the datagram leaves with a UDP
  checksum its receiver accepts, whichever path `handle_outgoing_checksums`
  takes. The full software checksum is checked directly; the
  `CHECKSUM_PARTIAL` one after the device completes it. It is never 0, which
  would mean "no checksum", including for the packet whose sum computes to 0.

Each property has a mutant in `PROJECT.json`, a plausible bug that TLC then
catches:

* a missing 16-bit truncation;
* an INCOMING route that rewrites to the sbc address;
* a forgotten pseudo-header recompute;
* a re-seeded offset on re-add;
* `last_sn` not updated on a jump;
* `next_table_index` with its bound off by one, or wrapping around;
* a clamp that keeps one byte less;
* bitfields declared in wire order on a little-endian build;
* a dropped RTP header length test;
* the smoothed number stored without `htons`;
* a computed 0 stored as the checksum instead of `CSUM_MANGLED_0`.

### The violation runs and what they show

* **`hook_race`**: `d` runs between the two lookups of one packet. The packet
  leaves with its destination rewritten but its source not. The internal
  sender's address and port leak, and the IP checksum is stale.
* **`delete_race`**: a packet looks up a slot before `d` and smooths after it.
  This leaves `entry_used`/`last_sn` in the "zeroed" slot, which the next `a`
  inherits.
* **`config_race`**: `s` and `l` (or `c`) interleave their get/set pairs, and
  one update is lost.
* **`flush_race`**: `f` clears the configuration before the table. A packet
  relayed in between is rewritten with proxy address 0, which the rewrite
  treats as "leave unchanged". It leaves with the internal sender's address
  as its source.
* **`list_skip`** checks `ResumesAtPending`, the seq_file contract that
  `seq_start(pos)` returns the record `seq_next` returned for `pos`, which
  did not fit the full buffer. `rtp_proxy_seq_start` calls
  `next_table_index` `pos + 1` times, so the next read resumes one entry too
  far and that entry is never shown. This happens on every restart, with no
  command running. The run allows no commands, so the re-walk landing on an
  entry already shown when `a` adds an entry below the cursor between two
  reads (hazard `procfs.c:108`) is not checked: the skip hides it.
* **`list_stale`**: `seq_show` ignores the result of its own `table_get`. An
  entry deleted between `next_table_index` and `seq_show` is printed as an
  all-zero line.
* **`header_overread`**: `rewrite_rtp` takes the UDP length from the
  packet's own header and never compares it with the size of the skb. A
  datagram of 8 or 9 bytes whose length field says 20 makes it read the
  RTP version byte and read and write the sequence number past the end of
  the packet; at POST_ROUTING `udp_csum_partial` then sums 20 bytes. Nothing
  in the kernel's path to LOCAL_IN or POST_ROUTING checks that length for a
  packet this module relays.

One more disagreement is kept as a reproduction configuration and recorded
as a hazard rather than a run: `MC_write_truncate.cfg` (a write longer than
255 bytes is cut, and the writer's retry of the tail is dispatched as a new
command).

### Bounds and fairness

* **Why the bounds are enough.**
  * Each race needs one packet and one command, or two commands.
  * The relay run needs two packets to cover both directions of a cascade.
  * Two offsets at the ends of the 16-bit range are what the wrap-around
    needs.
  * The listing needs five slots: two commands below and above the cursor,
    plus an entry that stays valid, plus slot 0.
  * The write buffer is scaled to 5 bytes. The clamp's two cases are
    "fits" and "does not fit", and a message of exactly 4 bytes sits on the
    boundary.
  * The header run puts the UDP length on both sides of each test in
    `rewrite_rtp` (8, 19/20 bytes), uses both byte orders, and a port whose
    network-order value has the other parity. Only the bytes the code
    branches on vary; the others are 0, which no checksum or test can tell
    from another value except in the trailing-byte case below.
* **Fairness.** `RtpList` assumes weak fairness of each reader step:
  * `seq_start`, `next_table_index`, `seq_show` and `seq_next` run inside one
    `read()` in the kernel, without sleeping;
  * `cat` keeps calling `read()` until end of file.

  `Restart` is not fair, because the buffer need never fill. The commands are
  not fair either, since nobody has to write. `RtpProxy` and `RtpWrite` check
  safety only.

## 4. Not modelled

* **IP checksum arithmetic.** The UDP checksum is computed on bytes in
  `RtpChecksum`; `calculate_ip_checksum` is not, as the IP header is not in
  `RtpHeader`'s bytes. In `RtpProxy` a checksum is the tuple of fields it
  covers.
* **Bytes after the UDP length with `CHECKSUM_PARTIAL`.** The device sums to
  the end of the skb, the receiver only `ntohs(udp->len)` bytes.
  `ChecksumOnWire` fails when such a byte is non-zero (hazard
  `checksum.c:220`); the header run keeps them 0.
* **IP fragments.** `get_ip_and_udp_headers` does not look at the fragment
  offset, and the hooks run before defragmentation; fragments are not
  modelled (hazard `mangle.c:27`).
* **A locally delivered `CHECKSUM_NONE` packet keeps a stale UDP checksum.**
  The FIXME in `checksum.c` and spec.md §4.3 record this as a known
  limitation, so there is no run for it (hazard `checksum.c:86`).
* **Several commands in one write.** `CommandsExecutedAsWritten` fails on
  them in one step. No run checks it, because the protocol is one command per
  write (hazard `command.c:181`).
* **Which stream a slot smooths.** For a cascaded route `rewrite_rtp` runs on
  `E_PRX_PORT`, the other session's slot (hazard `rewrite.c:234`).
  `StreamContiguous` and `StreamRefined` judge each slot on its own, so no
  property says which stream a slot's `last_sn` belongs to.
* **Module init and exit.** `Init` starts after `rtp_proxy_init`. The kernel's
  `nf_unregister_net_hooks` waits for packets in flight before
  `rtp_proxy_exit` removes the proc file. No state of this module outlives
  that, so unload adds no interleaving to check.
* **Debug output, the macros of `module.h` and the unit tests.** They change
  no state: `atohl`/`htoal` convert between an address's bytes and its
  integer, which the models keep abstract.

## 5. Plan for further work

1. An abstract `Relay` specification: a packet is mapped atomically onto its
   leg. A refinement run would show `RtpProxy` implementing it when no
   command runs concurrently.
2. The IP header checksum on bytes, so that `RtpHeader` covers the whole of
   `handle_outgoing_checksums`.

Packet liveness in `RtpProxy` (every injected packet is eventually on the
wire, delivered or dropped) was considered and left out. Each hook runs to
completion in softirq context, so a packet's steps are weakly fair, and the
only way back into the pipeline is `NextHop`: POST_ROUTING to PRE_ROUTING
(loopback device) only for a local destination, and PRE_ROUTING to
POST_ROUTING only for a non-local one. POST_ROUTING does not rewrite the
destination address, so a packet passes PRE_ROUTING at most once and
runs through at most four hooks (LOCAL_OUT, POST, PRE, POST). The
property would hold by the shape of that graph whatever the handlers do,
and no mutant of the handlers could break it.
