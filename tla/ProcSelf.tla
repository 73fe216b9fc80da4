------------------------------ MODULE ProcSelf ------------------------------
(***************************************************************************)
(* What src/src/lib.rs (mod locked) asks the kernel about this process:    *)
(* locked_bytes, which reads /proc/self/status piece by piece and takes    *)
(* VmLck from it, and deny_debugging and is_dumpable, over the flag that   *)
(* says whether the process may be dumped.                                 *)
(*                                                                         *)
(* The status file is a sequence of symbols: Needle is VmLck:, a number    *)
(* from 0 on a digit, the others a byte each.  A file has the name of the  *)
(* process in front, which the process chooses, and the real field behind. *)
(***************************************************************************)
EXTENDS Integers, Sequences

CONSTANTS
  Owner, Reader, \* threads: the one that sets the process's policy, and another
  Names,         \* names a process may have given itself
  Fields,        \* the digits the kernel prints behind VmLck:
  Base,          \* 10
  Kibi,          \* 1024
  MaxU64,
  ChunkLen,      \* 4096
  MaxLen,        \* 1 << 20
  MaxRetries     \* MAX_EINTR_RETRIES

Needle == -1
Lf == -2
Tab == -3
Space == -4
Escape == -5 \* what an escaping kernel writes for a line end
Byte == -6   \* any other

Digits == 0..Base - 1
Symbols == {Needle, Lf, Tab, Space, Escape, Byte} \cup Digits

ASSUME ProcAssumption ==
  /\ Owner # Reader
  /\ Base \in Nat \ {0, 1} /\ Kibi \in Nat /\ MaxU64 \in Nat
  /\ ChunkLen \in Nat \ {0} /\ MaxLen \in Nat /\ MaxRetries \in Nat \ {0}
  /\ Names \subseteq Seq(Symbols)
  /\ Fields \subseteq Seq(Digits) \ {<<>>}

VARIABLES
  file, field,  \* the status file, and the digits in it
  dumpable,     \* the kernel's flag: 0, 1 or 2
  before,       \* history: the flag when the owner's call began
  pc,           \* where each thread is
  answer,       \* what the last call of each thread returned
  reading       \* locked_bytes: the bytes it has, reads tried in a row, and its descriptor

vars == <<file, field, dumpable, before, pc, answer, reading>>
process == <<file, field>>
flag == <<dumpable, before>>

Threads == {Owner, Reader}

\* What a call returns that has no number: None, or an errno
None == -1
Err == -1

Limited(v) == IF v > MaxU64 THEN MaxU64 ELSE v

-----------------------------------------------------------------------------
(* The status file *)

\* seq_escape_str of the kernel: no line end is left in the name.
Escaped(name) ==
  [i \in 1..Len(name) |-> IF name[i] = Lf THEN Escape ELSE name[i]]

\* With an escaping kernel and with one that does not escape
StatusFiles(name, digits) ==
  {<<Byte>> \o n \o <<Lf, Needle, Tab>> \o digits \o <<Byte, Lf>> :
     n \in {name, Escaped(name)}}

LineStarts(buf) ==
  {i \in 1..Len(buf) : buf[i] = Needle /\ (i = 1 \/ buf[i - 1] = Lf)}

\* The first index from i on whose symbol is not of the kind
SkipWhile(buf, i, kind) ==
  CHOOSE j \in i..Len(buf) + 1 :
    /\ \A k \in i..j - 1 : buf[k] \in kind
    /\ j = Len(buf) + 1 \/ buf[j] \notin kind

\* checked_mul and checked_add: None once the value does not fit.
Number(digits) ==
  LET value[k \in 0..Len(digits)] ==
        IF k = 0 THEN 0
        ELSE IF value[k - 1] = -1 \/ Base * value[k - 1] + digits[k] > MaxU64 THEN -1
        ELSE Base * value[k - 1] + digits[k]
  IN  value[Len(digits)]

\* The number on the line that starts at i
FieldAt(buf, i) ==
  LET start == SkipWhile(buf, i + 1, {Space, Tab})
      end == SkipWhile(buf, start, Digits)
      kb == Number(SubSeq(buf, start, end - 1))
  IN  IF end = start \/ kb = -1 THEN None ELSE Limited(kb * Kibi)

\* Mutant: the first match ends the search.
ParseFirst(buf) ==
  IF LineStarts(buf) = {} THEN None
  ELSE FieldAt(buf, CHOOSE i \in LineStarts(buf) : \A j \in LineStarts(buf) : i <= j)

\* parse_vmlck: the last line that starts with the needle
Parse(buf) ==
  IF LineStarts(buf) = {} THEN None
  ELSE FieldAt(buf, CHOOSE i \in LineStarts(buf) : \A j \in LineStarts(buf) : i >= j)

-----------------------------------------------------------------------------
Closed == [buf |-> <<>>, tries |-> 0, open |-> FALSE, failed |-> FALSE]

Init ==
  /\ field \in Fields /\ file \in UNION {StatusFiles(name, field) : name \in Names}
  /\ dumpable \in 0..2 /\ before = dumpable
  /\ pc = [t \in Threads |-> "idle"]
  /\ answer = [t \in Threads |-> [of |-> "nothing"]]
  /\ reading = Closed

At(t, where) == pc[t] = where
Goto(t, where) == pc' = [pc EXCEPT ![t] = where]

Answer(t, call, value) ==
  /\ Goto(t, "idle")
  /\ answer' = [answer EXCEPT ![t] = [of |-> call, value |-> value]]

-----------------------------------------------------------------------------
(* locked_bytes.  Of the failures, "failed" remembers that there was one. *)

OpenStatus ==
  /\ At(Reader, "idle")
  /\ \/ /\ reading' = [Closed EXCEPT !.open = TRUE]
        /\ Goto(Reader, "read") /\ UNCHANGED answer
     \/ /\ reading' = [Closed EXCEPT !.failed = TRUE]
        /\ Answer(Reader, "locked_bytes", None)
  /\ UNCHANGED <<process, flag>>

\* Mutant: the retries are no term of the loop's exit test.
InterruptedForever ==
  /\ At(Reader, "read")
  /\ reading' = [reading EXCEPT !.tries = (@ + 1) % MaxRetries]
  /\ UNCHANGED <<process, flag, pc, answer>>

\* read fails with EINTR, and is tried again.
Interrupted ==
  /\ At(Reader, "read") /\ reading.tries + 1 < MaxRetries
  /\ reading' = [reading EXCEPT !.tries = @ + 1]
  /\ UNCHANGED <<process, flag, pc, answer>>

\* read fails otherwise, or once too often: the descriptor is closed.
ReadFails ==
  /\ At(Reader, "read")
  /\ reading' = [Closed EXCEPT !.failed = TRUE]
  /\ Answer(Reader, "locked_bytes", None)
  /\ UNCHANGED <<process, flag>>

Left == Len(file) - Len(reading.buf)

\* Mutant: the refusal of a long file returns at once.
RefuseOpen ==
  /\ reading' = [reading EXCEPT !.failed = TRUE]
  /\ Answer(Reader, "locked_bytes", None)

\* The status is past MAX_LEN, or no memory for it: the descriptor is closed.
RefuseStatus ==
  /\ reading' = [Closed EXCEPT !.failed = TRUE]
  /\ Answer(Reader, "locked_bytes", None)

\* read gives any number of the bytes that are left, up to what was asked for.
ReadSome ==
  /\ At(Reader, "read")
  /\ \E n \in 1..IF Left < ChunkLen THEN Left ELSE ChunkLen :
       \/ RefuseStatus
       \/ /\ Len(reading.buf) + n <= MaxLen
          /\ reading' = [reading EXCEPT !.buf = SubSeq(file, 1, Len(reading.buf) + n),
                                        !.tries = 0]
          /\ UNCHANGED <<pc, answer>>
  /\ UNCHANGED <<process, flag>>

ReadEnds ==
  /\ At(Reader, "read") /\ Left = 0
  /\ reading' = Closed
  /\ Answer(Reader, "locked_bytes", Parse(reading.buf))
  /\ UNCHANGED <<process, flag>>

-----------------------------------------------------------------------------
(* prctl: PR_GET_DUMPABLE and PR_SET_DUMPABLE may each be refused. *)

IsDumpable(t) ==
  /\ At(t, "idle")
  /\ \E v \in {None, IF dumpable = 0 THEN 0 ELSE 1} : Answer(t, "is_dumpable", v)
  /\ UNCHANGED <<process, flag, reading>>

DenyGet ==
  /\ At(Owner, "idle")
  /\ before' = dumpable
  /\ \/ Goto(Owner, "set") /\ UNCHANGED answer
     \/ Answer(Owner, "deny_debugging", Err)
  /\ UNCHANGED <<process, dumpable, reading>>

\* Mutant: the result of the second prctl is not looked at.
DenySetUnchecked ==
  /\ At(Owner, "set")
  /\ dumpable' \in {0, dumpable}
  /\ Answer(Owner, "deny_debugging", before)
  /\ UNCHANGED <<process, before, reading>>

DenySet ==
  /\ At(Owner, "set")
  /\ \/ dumpable' = 0 /\ Answer(Owner, "deny_debugging", before)
     \/ UNCHANGED dumpable /\ Answer(Owner, "deny_debugging", Err)
  /\ UNCHANGED <<process, before, reading>>

\* The caller gives the flag back; PR_SET_DUMPABLE takes 0 and 1 only.
Restore ==
  /\ At(Owner, "idle")
  /\ answer[Owner].of = "deny_debugging" /\ answer[Owner].value # Err
  /\ dumpable' = IF answer[Owner].value = 2 THEN 1 ELSE answer[Owner].value
  /\ Answer(Owner, "restore", dumpable')
  /\ UNCHANGED <<process, before, reading>>

ReadStep == Interrupted \/ ReadFails \/ ReadSome \/ ReadEnds

Next ==
  \/ OpenStatus \/ ReadStep
  \/ \E t \in Threads : IsDumpable(t)
  \/ DenyGet \/ DenySet \/ Restore

Spec == Init /\ [][Next]_vars

\* The thread that reads goes on while the system call it is in returns.
FairSpec == Spec /\ WF_vars(ReadStep)

-----------------------------------------------------------------------------
(* Properties *)

\* The value of the digits, in bytes, and what a u64 holds of it
Charged ==
  LET value[k \in 0..Len(field)] == IF k = 0 THEN 0 ELSE Base * value[k - 1] + field[k]
  IN  value[Len(field)]

\* locked_bytes answers the kernel's own number, however the reads cut the file and
\* whatever line the name of the process forges in it, escaped or not; it answers None
\* only after a failure, or for a number that does not fit.
FieldIsReported ==
  answer[Reader].of = "locked_bytes" /\ At(Reader, "idle") =>
    IF reading.failed \/ Charged > MaxU64 THEN answer[Reader].value = None
    ELSE answer[Reader].value = Limited(Charged * Kibi)

\* On every path out of locked_bytes its descriptor is closed.
DescriptorIsClosed == At(Reader, "idle") => ~reading.open

\* deny_debugging that says Ok has denied, and says what was there before; one that
\* says Err has changed nothing, whichever of the two calls was refused.
DenialIsReal ==
  At(Owner, "idle") /\ answer[Owner].of = "deny_debugging" =>
    IF answer[Owner].value = Err THEN dumpable = before
    ELSE dumpable = 0 /\ answer[Owner].value = before

\* A reading that began ends, however often it is interrupted: the retries are counted
\* and the length is bounded.
ReadingEnds == At(Reader, "read") ~> At(Reader, "idle")
=============================================================================
