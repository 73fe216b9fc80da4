-------------------------------- MODULE Wipe --------------------------------
(***************************************************************************)
(* zeroize_raw (src/src/lib.rs) over a memory of bytes, store by store,    *)
(* called the way its two heap users call it: Plaintext's drop, which      *)
(* wipes the length and then the rest of the capacity, and fill_from,      *)
(* which wipes a buffer whose source failed part of the way.               *)
(***************************************************************************)
EXTENDS Integers, Sequences, FiniteSets

CONSTANTS
  Word,        \* size_of::<usize>(), which is align_of::<usize>()
  Memory       \* bound: number of bytes

ASSUME WipeAssumption == Word \in Nat \ {0} /\ Memory \in Nat

Bytes == 0..Memory - 1

VARIABLES
  mem,         \* every byte: "zero", or whose it is
  buf,         \* the allocation: where it begins, its length and its capacity
  user,        \* "drop", or "fill" and whether its source fails
  todo,        \* calls of zeroize_raw still to make: first byte and length
  i,           \* bytes done in the call under way
  loop,        \* its loop
  store        \* history: the last store, its first byte and size

wipeVars == <<mem, buf, user, todo, i, loop, store>>

NoStore == [at |-> 0, size |-> 1]
Of(b) == b.ptr..b.ptr + b.cap - 1

\* Buffers that leave a byte of others on either side.
Buffers ==
  {b \in [ptr : 1..Word, len : 0..Memory, cap : 0..Memory] :
     b.len <= b.cap /\ b.ptr + b.cap < Memory}

WipeInit ==
  /\ buf \in Buffers
  /\ user \in {"drop", "fill"}
  /\ user = "fill" => buf.len = buf.cap
  /\ mem = [a \in Bytes |-> IF a \in Of(buf) THEN "old" ELSE "other"]
  /\ todo = <<>> /\ i = 0 /\ loop = "call" /\ store = NoStore

\* Mutant: only the length is wiped.
DropLength ==
  /\ loop = "call" /\ user = "drop"
  /\ todo' = <<[ptr |-> buf.ptr, len |-> buf.len]>>
  /\ loop' = "lead"
  /\ UNCHANGED <<mem, buf, user, i, store>>

\* Plaintext::drop: the slice, then what the allocator gave beyond it.
Drop ==
  /\ loop = "call" /\ user = "drop"
  /\ todo' = <<[ptr |-> buf.ptr, len |-> buf.len]>>
               \o IF buf.cap > buf.len
                  THEN <<[ptr |-> buf.ptr + buf.len, len |-> buf.cap - buf.len]>>
                  ELSE <<>>
  /\ loop' = "lead"
  /\ UNCHANGED <<mem, buf, user, i, store>>

Written(n) == [a \in Bytes |-> IF a \in buf.ptr..buf.ptr + n - 1 THEN "random" ELSE mem[a]]

FillOk ==
  /\ loop = "call" /\ user = "fill"
  /\ mem' = Written(buf.len) /\ loop' = "filled"
  /\ UNCHANGED <<buf, user, todo, i, store>>

\* The source fails after any part of its buffer.
FillFails(n) ==
  /\ loop = "call" /\ user = "fill" /\ n <= buf.len
  /\ mem' = Written(n)
  /\ todo' = <<[ptr |-> buf.ptr, len |-> buf.len]>>
  /\ loop' = "lead"
  /\ UNCHANGED <<buf, user, i, store>>

-----------------------------------------------------------------------------
(* zeroize_raw *)

ptr == todo[1].ptr
len == todo[1].len
Misaligned == (ptr + i) % Word # 0

\* Mutant: one more word than there is.
WideFitsOneMore == len - i + 1 >= Word

WideFits == len - i >= Word

WriteZeros(n) ==
  /\ mem' = [a \in Bytes |-> IF a \in ptr + i..ptr + i + n - 1 THEN "zero" ELSE mem[a]]
  /\ store' = [at |-> ptr + i, size |-> n]
  /\ i' = i + n

Stay == mem' = mem /\ store' = store /\ i' = i

Leading ==
  /\ loop = "lead"
  /\ IF i < len /\ Misaligned THEN WriteZeros(1) /\ loop' = loop
     ELSE Stay /\ loop' = "wide"
  /\ UNCHANGED <<buf, user, todo>>

Wide ==
  /\ loop = "wide"
  /\ IF WideFits THEN WriteZeros(Word) /\ loop' = loop
     ELSE Stay /\ loop' = "trail"
  /\ UNCHANGED <<buf, user, todo>>

\* The trailing bytes, and the return to the caller.
Trailing ==
  /\ loop = "trail"
  /\ IF i < len THEN WriteZeros(1) /\ UNCHANGED <<loop, todo>>
     ELSE /\ todo' = Tail(todo) /\ i' = 0
          /\ loop' = IF Len(todo) > 1 THEN "lead" ELSE "done"
          /\ UNCHANGED <<mem, store>>
  /\ UNCHANGED <<buf, user>>

WipeNext ==
  \/ Drop \/ FillOk \/ \E n \in 0..Memory : FillFails(n)
  \/ Leading \/ Wide \/ Trailing

WipeSpec == WipeInit /\ [][WipeNext]_wipeVars

-----------------------------------------------------------------------------
\* When the wipe is done nothing of the allocation is left, from its first byte to
\* its capacity's last, wherever it lies: the plaintext is erased before it is freed,
\* and a failed source leaves no half of a key.
AllErased == loop = "done" => \A a \in Of(buf) : mem[a] = "zero"

\* No store reaches a byte that is not the allocation's, and a store of a word is at an
\* address that is a multiple of its size, as write_volatile demands of a *mut usize.
OthersUntouched ==
  /\ \A a \in Bytes \ Of(buf) : mem[a] = "other"
  /\ store.at % store.size = 0

=============================================================================
