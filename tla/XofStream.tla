----------------------------- MODULE XofStream -----------------------------
(***************************************************************************)
(* What an OutputReader promises: a cursor over a stream of bytes, each    *)
(* byte being its place in the stream.  Past the maximum output size "the  *)
(* behavior is unspecified" (doc of fill).                                 *)
(***************************************************************************)
EXTENDS Integers, Sequences

CONSTANTS
  Last,        \* u64::MAX
  ReadLens,    \* bound: lengths of buffers
  Offsets      \* bound: relative seeks

VARIABLES
  pos,         \* where the next byte is read
  got          \* what the last call returned

None == [kind |-> "none"]
Position(p) == [kind |-> "position", at |-> p]
Error == [kind |-> "error"]
Filled(bytes) == [kind |-> "bytes", bytes |-> bytes]

\* A position that cannot be represented is reported as the last one.
Reported == IF pos <= Last THEN pos ELSE Last

-----------------------------------------------------------------------------
StreamInit == pos = 0 /\ got = None

Read(n) ==
  /\ pos + n <= Last
  /\ got' = Filled([i \in 1..n |-> pos + i - 1])
  /\ pos' = pos + n

\* Unspecified, but the buffer is filled.
ReadPast(n) ==
  /\ pos + n > Last
  /\ got'.kind = "bytes" /\ Len(got'.bytes) = n
  /\ pos' \in Nat

Tell == got' = Position(Reported) /\ UNCHANGED pos

Seek(target) ==
  IF target < 0 THEN got' = Error /\ UNCHANGED pos
  ELSE /\ pos' = IF target > Last THEN Last ELSE target
       /\ got' = Position(pos')

SeekEnd == got' = Error /\ UNCHANGED pos

StreamNext ==
  \/ \E n \in ReadLens : Read(n) \/ ReadPast(n)
  \/ Tell
  \/ \E p \in 0..Last : Seek(p)
  \/ \E d \in Offsets : Seek(Reported + d)
  \/ SeekEnd

StreamSpec == StreamInit /\ [][StreamNext]_<<pos, got>>
=============================================================================
