------------------------------ MODULE RtpWrite ------------------------------
(***************************************************************************)
(* Writing commands to /proc/rtp_proxy (procfs.c rtp_proxy_write and      *)
(* command.c handle_command).  Each write() copies at most WRITE_BUF_SIZE  *)
(* bytes, keeps at most WRITE_BUF_SIZE - 1 of them, hands that buffer to  *)
(* handle_command once and returns the number of bytes kept.  The writing *)
(* process (echo, printf, a control daemon) follows the write() contract: *)
(* after a short write it writes the rest, after an error it gives up.    *)
(*                                                                         *)
(* A byte is abstracted to a command letter, "nl" (a newline) or "x" (any *)
(* other byte: digits, dots, colons, blanks).  What handle_command runs   *)
(* is abstracted to the first line of the buffer: the command letter and  *)
(* the argument text its sscanf parses; trailing text is never read.      *)
(***************************************************************************)
EXTENDS Naturals, Sequences, SequencesExt

CONSTANTS
    WriteBufSize, \* WRITE_BUF_SIZE
    Letters,      \* the command letters handle_command dispatches on
    Messages,     \* the byte strings the writer passes to one write()
    MaxWrites     \* bound on the messages written

VARIABLES
    cur,      \* the message being written
    pending,  \* its bytes not yet consumed by write(); <<>> when idle
    acked,    \* messages whose write() calls all succeeded, in order
    executed, \* the command lines handle_command ran, in order
    nWrites   \* number of messages begun

vars == <<cur, pending, acked, executed, nWrites>>

\* The lines of a byte string, split at newlines (a final newline ends the
\* last line and opens none).
RECURSIVE Lines(_)
Lines(s) ==
    IF s = <<>> THEN <<>>
    ELSE LET i == SelectInSeq(s, LAMBDA b : b = "nl") IN
         IF i = 0 THEN <<s>>
         ELSE <<SubSeq(s, 1, i - 1)>> \o Lines(SubSeq(s, i + 1, Len(s)))

FirstLine(s) == Head(Lines(s))

\* Lines the writer composes: their sscanf succeeds.
WrittenLines == UNION {ToSet(Lines(m)) : m \in Messages}

Init ==
    /\ cur = <<>>
    /\ pending = <<>>
    /\ acked = <<>>
    /\ executed = <<>>
    /\ nWrites = 0

\* The writer begins to write message m.
Begin(m) ==
    /\ pending = <<>>
    /\ nWrites < MaxWrites
    /\ cur' = m
    /\ pending' = m
    /\ nWrites' = nWrites + 1
    /\ UNCHANGED <<acked, executed>>

\* kmalloc fails (-ENOMEM) or copy_from_user faults (-EFAULT): nothing is
\* handled, the write() fails and the writer gives up on the message.
WriteFails ==
    /\ pending /= <<>>
    /\ pending' = <<>>
    /\ UNCHANGED <<cur, acked, executed, nWrites>>

(***************************************************************************)
(* handle_command(buf): a known command letter runs its command on the     *)
(* first line; a line as the writer composed it parses, a cut one may or   *)
(* may not (sscanf may read a shortened last number).  Any other first    *)
(* byte is only logged.  The set of possible executed sequences.          *)
(***************************************************************************)
HandleCommand(buf) ==
    IF buf[1] \notin Letters THEN {executed}
    ELSE IF FirstLine(buf) \in WrittenLines THEN {Append(executed, FirstLine(buf))}
    ELSE {executed, Append(executed, FirstLine(buf))}

\* The size rtp_proxy_write keeps of a write of len bytes: it copies
\* min(len, WRITE_BUF_SIZE) and leaves room for the terminating NUL.
KeptShortBound(len) ==
    LET copied == IF len < WriteBufSize THEN len ELSE WriteBufSize IN
    IF copied >= WriteBufSize - 1 THEN WriteBufSize - 2 ELSE copied

Kept(len) ==
    LET copied == IF len < WriteBufSize THEN len ELSE WriteBufSize IN
    IF copied >= WriteBufSize THEN WriteBufSize - 1 ELSE copied

\* A successful rtp_proxy_write of the pending bytes: handle the kept
\* prefix if it is not empty and return its size; the writer continues
\* with the bytes after it.
Write ==
    /\ pending /= <<>>
    /\ LET size == Kept(Len(pending)) IN
       /\ executed' \in IF size > 0 THEN HandleCommand(SubSeq(pending, 1, size))
                                   ELSE {executed}
       /\ pending' = SubSeq(pending, size + 1, Len(pending))
    /\ acked' = IF pending' = <<>> THEN Append(acked, cur) ELSE acked
    /\ UNCHANGED <<cur, nWrites>>

\* All messages written.
Quiescent ==
    /\ pending = <<>> /\ nWrites = MaxWrites
    /\ UNCHANGED vars

Next ==
    \/ \E m \in Messages : Begin(m)
    \/ WriteFails
    \/ Write
    \/ Quiescent

Spec == Init /\ [][Next]_vars

-----------------------------------------------------------------------------
\* The command lines of the acknowledged messages, in order.
Intended == FlattenSeq([j \in DOMAIN acked |-> Lines(acked[j])])

(***************************************************************************)
(* Between writes, the commands handle_command has run are exactly the    *)
(* lines of the messages whose write() succeeded, whole and in order: a   *)
(* message whose write failed runs nothing, and no line is cut, dropped   *)
(* or run twice by rtp_proxy_write's size clamp and the writer's retry of *)
(* the rest.                                                              *)
(***************************************************************************)
CommandsExecutedAsWritten ==
    pending = <<>> => executed = Intended

=============================================================================
