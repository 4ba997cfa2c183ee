---------------------------- MODULE ControlBlock ----------------------------
(***************************************************************************)
(* The ring buffer of fossilize_external_replayer_control_block.hpp: the   *)
(* part of SharedControlBlock that needs the lock.  Its counters are       *)
(* uint32_t and wrap; here they wrap at CountMod.  A stored message is     *)
(* MsgSize units long, each unit remembering its message and its place, so *)
(* that a read of units of two messages shows.                             *)
(***************************************************************************)
EXTENDS Integers, Sequences

CONSTANTS
    RingSize,    \* ring_buffer_size, a power of two
    MsgSize,     \* ControlBlockMessageSize
    CountMod     \* 2^32 in the code

ASSUME RingAssumption ==
    /\ RingSize \in Nat \ {0} /\ MsgSize \in Nat \ {0} /\ CountMod \in Nat
    /\ RingSize < CountMod
    /\ CountMod % RingSize = 0

Torn == 0            \* what parse_message makes of units of several messages

NewBlock ==
    [ring |-> [o \in 0..RingSize - 1 |-> [msg |-> Torn, part |-> 0]],
     write_count |-> 0, read_count |-> 0, read_offset |-> 0, write_offset |-> 0]

ReadAvail(b) == (b.write_count - b.read_count) % CountMod

\* Slip: the free space is compared without the size of the message.
AcceptsOneTooMany(b) ==
    /\ MsgSize <= RingSize
    /\ b.write_count <= (b.read_count + RingSize) % CountMod

Accepts(b) ==                      \* the early returns of the write
    /\ MsgSize <= RingSize
    /\ (b.write_count + MsgSize) % CountMod <= (b.read_count + RingSize) % CountMod

WriteBlock(b, m) ==                 \* both memcpy's: the units wrap around
    [b EXCEPT
       !.ring = [o \in DOMAIN b.ring |->
                   LET i == (o - b.write_offset) % RingSize
                   IN  IF i < MsgSize THEN [msg |-> m, part |-> i] ELSE b.ring[o]],
       !.write_offset = (@ + MsgSize) % RingSize,
       !.write_count = (@ + MsgSize) % CountMod]

Message(b) ==                       \* the message a read copies out
    LET m == b.ring[b.read_offset].msg
    IN  IF \A i \in 0..MsgSize - 1 :
              b.ring[(b.read_offset + i) % RingSize] = [msg |-> m, part |-> i]
        THEN m ELSE Torn

\* Slip: the read offset is not masked.
SkipUnmasked(b, n) ==
    [b EXCEPT !.read_offset = @ + n * MsgSize,
              !.read_count = (@ + n * MsgSize) % CountMod]

Skip(b, n) ==                       \* the block after n reads
    [b EXCEPT !.read_offset = (@ + n * MsgSize) % RingSize,
              !.read_count = (@ + n * MsgSize) % CountMod]

(***************************************************************************)
(* poll_progress's loop: the messages of read_avail bytes, in order.       *)
(***************************************************************************)
Pending(b)  == ReadAvail(b) \div MsgSize
Messages(b) == [n \in 1..Pending(b) |-> Message(Skip(b, n - 1))]
Drained(b)  == Skip(b, Pending(b))
=============================================================================
