------------------------------- MODULE RtpList -------------------------------
(***************************************************************************)
(* Reading /proc/rtp_proxy (procfs.c) while control commands change the    *)
(* table.  The listing is a seq_file: the kernel calls seq_start(pos),     *)
(* then alternately seq_show and seq_next until seq_next returns NULL;     *)
(* when its buffer is full it stops after a seq_next and, on the next      *)
(* read(), restarts with seq_start at the position seq_next returned.     *)
(* Position 0 is the configuration line, every later position a valid     *)
(* table entry, found by next_table_index, which probes the slots after   *)
(* the current one, each probe a table_get under that slot's lock.        *)
(*                                                                         *)
(* A slot is abstracted to whether table_get finds a valid entry there;    *)
(* the text seq_show_table_entry formats is abstracted to the slot shown   *)
(* and whether its entry was valid when seq_show read it.                  *)
(***************************************************************************)
EXTENDS Naturals, Sequences, FiniteSets

CONSTANTS
    TableSize,    \* TABLE_SIZE: slots 0 .. TableSize - 1
    CmdSlots,     \* slots that commands "a" and "d" name
    MaxCommands,  \* bound on the commands run during the listing
    MaxRestarts   \* bound on buffer-full restarts of the listing

VARIABLES
    valid,     \* valid[k]: table_get(k) finds a valid entry
    rd,        \* the reader: seq_file position, struct iter and locals
    out,       \* the records seq_show produced, in order
    nCmds,     \* number of commands run
    nRestarts, \* number of restarts
    stable,    \* history: valid slots no command has touched since open
    resume     \* history: the record left unshown by the last restart, 0 once
               \* a record has been shown since

vars == <<valid, rd, out, nCmds, nRestarts, stable, resume>>

Slots == 0 .. (TableSize - 1)

(***************************************************************************)
(* Reader program counter:                                                 *)
(*   "start"     rtp_proxy_seq_start entered with position rd.pos          *)
(*   "startloop" its while loop, rd.position the loop counter              *)
(*   "scan"      next_table_index probing slot rd.scan + 1, for rd.ret     *)
(*   "show"      rtp_proxy_seq_show of iter->index = rd.index              *)
(*   "emit"      seq_next returned a record: shown, or the buffer is full  *)
(*   "next"      rtp_proxy_seq_next                                        *)
(*   "done"      a callback returned NULL: end of file                     *)
(***************************************************************************)
ReaderInit ==
    [pc |-> "start", pos |-> 0, position |-> 0, index |-> 0, scan |-> 0, ret |-> "next"]

\* The listing starts when the file is opened (seq_open_private zeroes the
\* iterator), with a table some earlier commands filled.
Init ==
    /\ \E S \in SUBSET (Slots \ {0}) : valid = [k \in Slots |-> k \in S]
    /\ rd = ReaderInit
    /\ out = <<>>
    /\ nCmds = 0
    /\ nRestarts = 0
    /\ stable = {k \in Slots : valid[k]}
    /\ resume = 0

-----------------------------------------------------------------------------
\* command_add (a valid session) and command_delete (table_del) on slot k.
CmdAdd(k) ==
    /\ nCmds < MaxCommands
    /\ valid' = [valid EXCEPT ![k] = TRUE]
    /\ nCmds' = nCmds + 1
    /\ stable' = stable \ {k}
    /\ UNCHANGED <<rd, out, nRestarts, resume>>

CmdDelete(k) ==
    /\ nCmds < MaxCommands
    /\ valid' = [valid EXCEPT ![k] = FALSE]
    /\ nCmds' = nCmds + 1
    /\ stable' = stable \ {k}
    /\ UNCHANGED <<rd, out, nRestarts, resume>>

-----------------------------------------------------------------------------
\* rtp_proxy_seq_start: position 0 is the configuration line; otherwise
\* the while loop calls next_table_index position + 1 times from slot 0.
SeqStart ==
    /\ rd.pc = "start"
    /\ rd' = IF rd.pos = 0
             THEN [rd EXCEPT !.index = 0, !.pc = "show"]
             ELSE [rd EXCEPT !.position = rd.pos, !.index = 0, !.pc = "startloop"]
    /\ UNCHANGED <<valid, out, nCmds, nRestarts, stable, resume>>

\* while(position >= 0) { --position; index = next_table_index(index); ... }
StartLoop ==
    /\ rd.pc = "startloop"
    /\ rd' = IF rd.position >= 0
             THEN [rd EXCEPT !.position = @ - 1, !.scan = rd.index,
                             !.ret = "start", !.pc = "scan"]
             ELSE [rd EXCEPT !.pc = "show"]
    /\ UNCHANGED <<valid, out, nCmds, nRestarts, stable, resume>>

\* Where next_table_index returns r to: the loop of seq_start leaves on 0
\* and returns NULL; seq_next returns NULL on 0, the record otherwise.
Return(r) ==
    IF rd.ret = "start"
    THEN [rd EXCEPT !.index = r, !.pc = IF r = 0 THEN "done" ELSE "startloop"]
    ELSE [rd EXCEPT !.index = IF r = 0 THEN @ ELSE r, !.pc = IF r = 0 THEN "done" ELSE "emit"]

\* Seeded fault for mutation testing: the bound test is off by one, the
\* last slot is never probed.
NextTableIndexShortBound ==
    /\ rd.pc = "scan"
    /\ LET i == rd.scan + 1 IN
       rd' = CASE i >= TableSize - 1 -> Return(0)
               [] valid[i]           -> Return(i)
               [] OTHER              -> [rd EXCEPT !.scan = i]
    /\ UNCHANGED <<valid, out, nCmds, nRestarts, stable, resume>>

\* Seeded fault for mutation testing: the index is a uint16_t, so
\* "index < TABLE_SIZE" always holds and the probe wraps around to slot 0.
NextTableIndexWraps ==
    /\ rd.pc = "scan"
    /\ LET i == (rd.scan + 1) % TableSize IN
       rd' = IF valid[i] THEN Return(i) ELSE [rd EXCEPT !.scan = i]
    /\ UNCHANGED <<valid, out, nCmds, nRestarts, stable, resume>>

\* One iteration of next_table_index: ++index; past the table it returns
\* 0, else table_get(index) under the slot's lock decides.
NextTableIndex ==
    /\ rd.pc = "scan"
    /\ LET i == rd.scan + 1 IN
       rd' = CASE i >= TableSize -> Return(0)
               [] valid[i]       -> Return(i)
               [] OTHER          -> [rd EXCEPT !.scan = i]
    /\ UNCHANGED <<valid, out, nCmds, nRestarts, stable, resume>>

\* seq_show_table_entry: the configuration line for index 0, else the two
\* lines of the entry, abstracted to the slot and whether the entry the
\* text is made of is a valid one.
Record(i) == [index |-> i, valid |-> i = 0 \/ valid[i]]

\* rtp_proxy_seq_show: table_get (its result ignored) and config_get, then
\* seq_show_table_entry.
SeqShow ==
    /\ rd.pc \in {"show", "emit"}
    /\ out' = Append(out, Record(rd.index))
    /\ rd' = [rd EXCEPT !.pc = "next"]
    /\ resume' = 0
    /\ UNCHANGED <<valid, nCmds, nRestarts, stable>>

\* rtp_proxy_seq_next: ++*pos and next_table_index from iter->index.
SeqNext ==
    /\ rd.pc = "next"
    /\ rd' = [rd EXCEPT !.pos = @ + 1, !.scan = rd.index, !.ret = "next", !.pc = "scan"]
    /\ UNCHANGED <<valid, out, nCmds, nRestarts, stable, resume>>

\* The seq_file buffer is full: the record seq_next returned is not shown;
\* seq_stop, and the next read() calls seq_start at that position.
Restart ==
    /\ rd.pc = "emit"
    /\ nRestarts < MaxRestarts
    /\ rd' = [rd EXCEPT !.pc = "start"]
    /\ nRestarts' = nRestarts + 1
    /\ resume' = rd.index
    /\ UNCHANGED <<valid, out, nCmds, stable>>

\* The listing has ended and no more commands come.
Quiescent ==
    /\ rd.pc = "done" /\ nCmds = MaxCommands
    /\ UNCHANGED vars

ReaderStep == SeqStart \/ StartLoop \/ NextTableIndex \/ SeqShow \/ SeqNext \/ Restart

Next ==
    \/ \E k \in CmdSlots : CmdAdd(k) \/ CmdDelete(k)
    \/ ReaderStep
    \/ Quiescent

(***************************************************************************)
(* The reader runs in the kernel inside read() without sleeping, and the   *)
(* process reading the file (cat) reads until end of file: every reader    *)
(* step that stays enabled is eventually taken.  Restart is not required:  *)
(* the buffer need never fill.                                             *)
(***************************************************************************)
Fairness ==
    /\ WF_vars(SeqStart) /\ WF_vars(StartLoop) /\ WF_vars(NextTableIndex)
    /\ WF_vars(SeqShow) /\ WF_vars(SeqNext)

Spec == Init /\ [][Next]_vars /\ Fairness

-----------------------------------------------------------------------------
(***************************************************************************)
(* Properties.                                                             *)
(***************************************************************************)
Shown == {out[j].index : j \in DOMAIN out}

(***************************************************************************)
(* A listing that fits one read() buffer is complete: when cat reaches end *)
(* of file, every table entry that was valid when the file was opened and *)
(* that no command touched since has been shown (slot 0 is the            *)
(* configuration's position and is never probed).  Concurrent adds and    *)
(* deletes of other slots must not make next_table_index skip it.          *)
(***************************************************************************)
StableEntriesListed ==
    rd.pc = "done" /\ nRestarts = 0 => (stable \ {0}) \subseteq Shown

(***************************************************************************)
(* The seq_file contract for a full buffer: seq_start(pos) returns the     *)
(* record seq_next returned for pos, the one that did not fit, so the      *)
(* next read() shows it first.  With the table unchanged, rtp_proxy_seq_   *)
(* start's walk from slot 0 must land on exactly that entry.               *)
(***************************************************************************)
ResumesAtPending ==
    [][resume # 0 /\ out' # out => out'[Len(out')].index = resume]_vars

(***************************************************************************)
(* Every entry line shows an entry that was valid when seq_show read it:   *)
(* rtp_proxy_seq_show repeats the table_get that next_table_index made,    *)
(* ignoring its result.                                                    *)
(***************************************************************************)
ShownEntriesValid ==
    \A j \in DOMAIN out : out[j].valid

(***************************************************************************)
(* Reading the file terminates: next_table_index stops at TABLE_SIZE and   *)
(* seq_start's loop at its position, so cat reaches end of file.          *)
(***************************************************************************)
ListingTerminates == <>(rd.pc = "done")

=============================================================================
