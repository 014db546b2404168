------------------------------ MODULE RtpStream ------------------------------
(***************************************************************************)
(* What RTP sequence-number smoothing promises, per table slot, in terms  *)
(* of the numbers a slot has received and emitted only (no offset): a    *)
(* packet that continues the stream, or jumps back by at least MinDelta,  *)
(* is emitted as the successor of the previous output; any other packet   *)
(* keeps the gap between input and output numbers.  The gap is chosen     *)
(* once, when a session is first added to an empty slot, and forgotten    *)
(* when the slot is deleted.  All arithmetic is modulo Modulus.           *)
(***************************************************************************)
EXTENDS Naturals

CONSTANTS
    Ports,     \* the slots
    MinDelta,  \* smallest backward jump that is closed up
    Modulus    \* 2^16: sequence numbers are 16-bit

VARIABLE stream  \* stream[k]: [seeded, used, lastIn, lastOut]

Num == 0 .. (Modulus - 1)

Empty == [seeded |-> 0, used |-> 0, lastIn |-> 0, lastOut |-> 0]

\* sn jumps back from the previous input by at least MinDelta.
JumpsBack(last, sn) ==
    LET expected == (last + 1) % Modulus IN
    sn < expected /\ expected - sn >= MinDelta

\* The number a slot in state s emits for input sn.
Emitted(s, sn) ==
    IF s.used = 1 /\ JumpsBack(s.lastIn, sn)
    THEN (s.lastOut + 1) % Modulus
    ELSE (s.lastOut + sn + Modulus - s.lastIn) % Modulus

(***************************************************************************)
(* The chosen output number and the received input number are any in Num; *)
(* the actions name them by the new state, stream'[k], rather than by an   *)
(* existential over 2^16 values, so that checking a step is cheap.        *)
(***************************************************************************)

\* A new session on an unseeded slot: the gap is chosen (lastIn stays).
Seed(k) ==
    /\ stream[k].seeded = 0
    /\ stream'[k].lastOut \in Num
    /\ stream' = [stream EXCEPT ![k].seeded = 1, ![k].lastOut = stream'[k].lastOut]

\* The slot is deleted.
Reset(k) ==
    stream' = [stream EXCEPT ![k] = Empty]

\* A packet with number sn is smoothed on slot k.
Renumber(k) ==
    LET sn == stream'[k].lastIn IN
    /\ sn \in Num
    /\ stream' = [stream EXCEPT ![k] = [@ EXCEPT !.used = 1, !.lastIn = sn,
                                                !.lastOut = Emitted(stream[k], sn)]]

Init ==
    stream \in [Ports -> {s \in [seeded : {0, 1}, used : {0, 1},
                                 lastIn : Num, lastOut : Num] :
                            s.used = 0 /\ s.lastIn = 0 /\ (s.seeded = 0 => s = Empty)}]

Next == \E k \in Ports : Seed(k) \/ Reset(k) \/ Renumber(k)

Spec == Init /\ [][Next]_stream

=============================================================================
