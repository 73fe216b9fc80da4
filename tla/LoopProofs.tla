----------------------------- MODULE LoopProofs -----------------------------
(***************************************************************************)
(* The three modules of loops over bytes.                                  *)
(*                                                                         *)
(* Wipe: for every word size, every memory and every place, length and     *)
(* capacity of the buffer in it, zeroize_raw, called by drop or by a fill  *)
(* that failed, erases the whole allocation, touches no other byte and     *)
(* stores words only at multiples of their size.                           *)
(*                                                                         *)
(* TagCompare: for tags and words of any length, one fault in one of the   *)
(* two loops of second_gate_comparison opens no gate to a tag that         *)
(* differs, and without a fault the fold is equality.                      *)
(*                                                                         *)
(* OutputReader: for every block length, width of the counter, buffers     *)
(* and seeks, every step of the reader is a step of XofStream.             *)
(***************************************************************************)
EXTENDS Wipe, TagCompare, OutputReader, SequenceTheorems, TLAPS

-----------------------------------------------------------------------------
(* The invariant of Wipe *)

Work == [ptr : Nat, len : Nat]
Wiping == loop \in {"lead", "wide", "trail"}

TypeInv ==
  /\ buf \in Buffers
  /\ DOMAIN mem = Bytes
  /\ todo \in Seq(Work) /\ i \in Nat
  /\ loop \in {"call", "filled", "lead", "wide", "trail", "done"}
  /\ loop = "call" => i = 0
  /\ user = "fill" => buf.len = buf.cap

\* What is still to wipe, of the call under way and of the call after it
Undone(a) ==
  \/ ptr + i <= a /\ a < ptr + len
  \/ Len(todo) = 2 /\ todo[2].ptr <= a /\ a < todo[2].ptr + todo[2].len

Inside(w) == buf.ptr <= w.ptr /\ w.ptr + w.len <= buf.ptr + buf.cap

\* The calls of zeroize_raw stay in the allocation, and the one under way in its length.
CallsInv ==
  Wiping => /\ Len(todo) \in {1, 2} /\ i <= len
            /\ \A k \in 1..Len(todo) : Inside(todo[k])

\* Every byte of the allocation is zero or still to wipe.
ErasedInv ==
  /\ Wiping => \A a \in Of(buf) : mem[a] = "zero" \/ Undone(a)
  /\ loop = "done" => \A a \in Of(buf) : mem[a] = "zero"

OthersInv == \A a \in Bytes \ Of(buf) : mem[a] = "other"

\* From the first aligned byte on, words are stored at multiples of their size.
AlignedInv ==
  /\ store.at % store.size = 0
  /\ loop = "wide" => i = len \/ ~Misaligned

Inv == TypeInv /\ CallsInv /\ ErasedInv /\ OthersInv /\ AlignedInv

-----------------------------------------------------------------------------
\* Arithmetic of alignment
LEMMA ModOne ==
  \A x \in Nat : x % 1 = 0
OBVIOUS

\* A number is a multiple and a rest.
LEMMA QuotientAndRest ==
  ASSUME NEW w \in Nat \ {0}, NEW x \in Nat
  PROVE  x = w * (x \div w) + (x % w) /\ x \div w \in Nat /\ x % w \in Nat
<1>1. x = w * (x \div w) + (x % w)
  OBVIOUS
<1>2. x \div w \in Nat
  BY SMTT(30)
<1>3. x % w \in Nat
  OBVIOUS
<1> QED
  BY <1>1, <1>2, <1>3

\* One word further, one more.
LEMMA NextQuotient ==
  ASSUME NEW w \in Nat \ {0}, NEW x \in Nat
  PROVE  (x + w) \div w = x \div w + 1
BY SMTT(30)

\* The word after an aligned word is aligned.
LEMMA NextWordIsAligned ==
  ASSUME NEW w \in Nat \ {0}, NEW x \in Nat, x % w = 0
  PROVE  (x + w) % w = 0
<1> DEFINE y == x + w
           q == x \div w
           k == y \div w
           rest == y % w
<1>1. x = w * q + (x % w) /\ q \in Nat
  BY QuotientAndRest
<1>2. y \in Nat
  OBVIOUS
<1>3. k = q + 1
  BY NextQuotient
<1> HIDE DEF y
<1>4. y = w * k + rest /\ rest \in Nat
  BY <1>2, QuotientAndRest
<1> HIDE DEF q, k, rest
<1>5. rest = 0
  BY <1>1, <1>3, <1>4 DEF y
<1> QED
  BY <1>5 DEF y, rest

-----------------------------------------------------------------------------
\* The allocation lies in memory.
LEMMA BufIsInMemory ==
  ASSUME TypeInv
  PROVE  /\ buf.ptr \in Nat /\ buf.len \in Nat /\ buf.cap \in Nat /\ buf.len <= buf.cap
         /\ Of(buf) \subseteq Bytes
         /\ \A a : a \in Of(buf) <=> a \in Int /\ buf.ptr <= a /\ a < buf.ptr + buf.cap
BY WipeAssumption DEF TypeInv, Buffers, Of, Bytes

\* Nothing is written yet.
LEMMA InitInv == WipeInit => Inv
<1> SUFFICES ASSUME WipeInit  PROVE Inv
  OBVIOUS
<1>1. TypeInv
  BY DEF WipeInit, TypeInv
<1>2. 0 % 1 = 0
  BY ModOne
<1> QED
  BY <1>1, <1>2, BufIsInMemory
  DEF WipeInit, Inv, CallsInv, ErasedInv, OthersInv, AlignedInv, NoStore, Wiping

\* The calls a user of zeroize_raw makes cover its allocation.
LEMMA DropInv ==
  ASSUME Inv, Drop
  PROVE  Inv'
<1> DEFINE d == [ptr |-> buf.ptr, len |-> buf.len]
           e == [ptr |-> buf.ptr + buf.len, len |-> buf.cap - buf.len]
<1>1. /\ buf.ptr \in Nat /\ buf.len \in Nat /\ buf.cap \in Nat /\ buf.len <= buf.cap
      /\ \A a : a \in Of(buf) <=> a \in Int /\ buf.ptr <= a /\ a < buf.ptr + buf.cap
  BY BufIsInMemory DEF Inv
<1>2. d \in Work /\ e \in Work
  BY <1>1 DEF Work
<1>3. /\ loop = "call" /\ i = 0 /\ loop' = "lead"
      /\ UNCHANGED <<mem, buf, user, i, store>>
  BY DEF Drop, Inv, TypeInv
<1>4. CASE buf.cap > buf.len
  <2>1. todo' = <<d>> \o <<e>>
    BY <1>4 DEF Drop
  <2>2. /\ todo' \in Seq(Work) /\ Len(todo') = 2 /\ todo'[1] = d /\ todo'[2] = e
    <3> HIDE DEF d, e
    <3>1. /\ <<d>> \in Seq(Work) /\ Len(<<d>>) = 1 /\ <<d>>[1] = d
          /\ <<e>> \in Seq(Work) /\ Len(<<e>>) = 1 /\ <<e>>[1] = e
      BY <1>2
    <3> DEFINE one == <<d>>
               two == <<e>>
    <3> HIDE DEF one, two
    <3>2. /\ one \o two \in Seq(Work) /\ Len(one \o two) = 1 + 1
          /\ \A k \in 1..1 + 1 :
               (one \o two)[k] = IF k <= 1 THEN one[k] ELSE two[k - 1]
      BY <3>1, ConcatProperties DEF one, two
    <3>3. (one \o two)[1] = one[1] /\ (one \o two)[2] = two[1]
      BY <3>2
    <3> QED  BY <2>1, <3>1, <3>2, <3>3 DEF one, two
  <2>3. TypeInv' /\ CallsInv'
    BY <1>1, <1>3, <2>2 DEF Inv, TypeInv, CallsInv, Inside, len
  <2>4. ErasedInv'
    BY <1>1, <1>3, <2>2 DEF ErasedInv, Undone, ptr, len, Of
  <2> QED  BY <1>3, <2>3, <2>4 DEF Inv, OthersInv, AlignedInv, Of
<1>5. CASE ~(buf.cap > buf.len)
  <2>1. todo' = <<d>> /\ buf.cap = buf.len
    BY <1>1, <1>5 DEF Drop
  <2>2. /\ todo' \in Seq(Work) /\ Len(todo') = 1 /\ todo'[1] = d
    BY <1>2, <2>1
  <2>3. TypeInv' /\ CallsInv'
    BY <1>1, <1>3, <2>2 DEF Inv, TypeInv, CallsInv, Inside, len
  <2>4. ErasedInv'
    BY <1>1, <1>3, <2>1, <2>2 DEF ErasedInv, Undone, ptr, len, Of
  <2> QED  BY <1>3, <2>3, <2>4 DEF Inv, OthersInv, AlignedInv, Of
<1> QED
  BY <1>4, <1>5

\* What a source writes stays in the buffer it was given.
LEMMA WrittenStaysInside ==
  ASSUME Inv, NEW n \in Nat, n <= buf.len
  PROVE  /\ DOMAIN Written(n) = Bytes
         /\ \A a \in Bytes \ Of(buf) : Written(n)[a] = mem[a]
<1>1. buf.ptr..buf.ptr + n - 1 \subseteq Of(buf)
  BY BufIsInMemory DEF Inv, Of
<1> QED
  BY <1>1 DEF Written

LEMMA FillOkInv ==
  ASSUME Inv, FillOk
  PROVE  Inv'
<1>1. buf.len \in Nat
  BY BufIsInMemory DEF Inv
<1>2. /\ DOMAIN mem' = Bytes
      /\ \A a \in Bytes \ Of(buf) : mem'[a] = mem[a]
  BY <1>1, WrittenStaysInside DEF FillOk
<1> QED
  BY <1>2 DEF Inv, FillOk, TypeInv, CallsInv, ErasedInv, OthersInv, AlignedInv, Wiping, Of

LEMMA FillFailsInv ==
  ASSUME Inv, NEW n \in Nat, FillFails(n)
  PROVE  Inv'
<1> DEFINE d == [ptr |-> buf.ptr, len |-> buf.len]
<1>1. /\ buf.ptr \in Nat /\ buf.len \in Nat /\ buf.cap = buf.len
      /\ \A a : a \in Of(buf) <=> a \in Int /\ buf.ptr <= a /\ a < buf.ptr + buf.cap
  BY BufIsInMemory DEF Inv, TypeInv, FillFails
<1>2. d \in Work
  BY <1>1 DEF Work
<1>3. /\ loop = "call" /\ i = 0 /\ loop' = "lead" /\ todo' = <<d>>
      /\ UNCHANGED <<buf, user, i, store>>
  BY DEF FillFails, Inv, TypeInv
<1>4. /\ todo' \in Seq(Work) /\ Len(todo') = 1 /\ todo'[1] = d
  BY <1>2, <1>3
<1>5. /\ DOMAIN mem' = Bytes
      /\ \A a \in Bytes \ Of(buf) : mem'[a] = mem[a]
  BY WrittenStaysInside DEF FillFails
<1>6. TypeInv' /\ CallsInv'
  BY <1>1, <1>3, <1>4, <1>5 DEF Inv, TypeInv, CallsInv, Inside, len
<1>7. ErasedInv'
  BY <1>1, <1>3, <1>4 DEF ErasedInv, Undone, ptr, len, Of
<1> QED
  BY <1>3, <1>5, <1>6, <1>7 DEF Inv, OthersInv, AlignedInv, Of

-----------------------------------------------------------------------------
(* zeroize_raw *)

\* The call under way and the one after it, by index
LEMMA CallUnderWay ==
  ASSUME Inv, Wiping
  PROVE  /\ Len(todo) \in {1, 2} /\ todo[1] \in Work /\ Inside(todo[1])
         /\ Len(todo) = 2 => todo[2] \in Work /\ Inside(todo[2])
         /\ ptr \in Nat /\ len \in Nat /\ i \in Nat /\ i <= len
         /\ buf.ptr <= ptr /\ ptr + len <= buf.ptr + buf.cap
<1>1. /\ todo \in Seq(Work) /\ Len(todo) \in {1, 2} /\ i \in Nat /\ i <= len
      /\ \A k \in 1..Len(todo) : Inside(todo[k])
  BY DEF Inv, TypeInv, CallsInv
<1>2. todo[1] \in Work /\ Inside(todo[1])
  BY <1>1
<1>3. Len(todo) = 2 => todo[2] \in Work /\ Inside(todo[2])
  <2> SUFFICES ASSUME Len(todo) = 2  PROVE todo[2] \in Work /\ Inside(todo[2])
    OBVIOUS
  <2>1. 2 \in 1..Len(todo)
    OBVIOUS
  <2> QED  BY <1>1, <2>1, ElementOfSeq
<1> QED
  BY <1>1, <1>2, <1>3 DEF Work, Inside, ptr, len

\* A store of zeros behind what is done, within the call's length
LEMMA WriteInv ==
  ASSUME Inv, Wiping, NEW n \in Nat \ {0}, i + n <= len,
         WriteZeros(n), UNCHANGED <<buf, user, todo, loop>>,
         (ptr + i) % n = 0,
         loop = "wide" => (ptr + (i + n)) % Word = 0
  PROVE  Inv'
<1> DEFINE Stored == ptr + i..ptr + i + n - 1
<1>1. /\ buf.ptr \in Nat /\ buf.cap \in Nat
      /\ \A a : a \in Of(buf) <=> a \in Int /\ buf.ptr <= a /\ a < buf.ptr + buf.cap
      /\ Of(buf) \subseteq Bytes
  BY BufIsInMemory DEF Inv
<1>2. /\ ptr \in Nat /\ len \in Nat /\ i \in Nat
      /\ buf.ptr <= ptr /\ ptr + len <= buf.ptr + buf.cap
  BY CallUnderWay
<1>3. /\ mem' = [a \in Bytes |-> IF a \in Stored THEN "zero" ELSE mem[a]]
      /\ store' = [at |-> ptr + i, size |-> n] /\ i' = i + n
      /\ UNCHANGED <<buf, user, todo, loop>>
  BY DEF WriteZeros
<1>4. Stored \subseteq Of(buf)
  BY <1>1, <1>2
<1>5. TypeInv'
  <2>1. DOMAIN mem' = Bytes /\ i' \in Nat /\ loop # "call"
    BY <1>2, <1>3 DEF Wiping
  <2> QED  BY <1>3, <2>1 DEF Inv, TypeInv, Bytes
<1>6. CallsInv'
  BY <1>2, <1>3 DEF Inv, CallsInv, Inside, len, Wiping
<1>7. ErasedInv'
  <2> SUFFICES ASSUME NEW a \in Of(buf)  PROVE mem'[a] = "zero" \/ Undone(a)'
    BY <1>3 DEF ErasedInv, Wiping, Of
  <2>1. a \in Int /\ (mem[a] = "zero" \/ Undone(a)) /\ a \in Bytes
    BY <1>1 DEF Inv, ErasedInv
  <2>2. CASE a \in Stored \/ mem[a] = "zero"
    BY <1>3, <2>1, <2>2
  <2>3. CASE a \notin Stored /\ Undone(a)
    BY <1>2, <1>3, <2>1, <2>3 DEF Undone, ptr, len
  <2> QED  BY <2>1, <2>2, <2>3
<1>8. OthersInv'
  BY <1>1, <1>3, <1>4 DEF Inv, OthersInv, Of, Bytes
<1>9. AlignedInv'
  <2>1. store'.at % store'.size = 0
    BY <1>3
  <2>2. loop' = "wide" => ~Misaligned'
    BY <1>3 DEF Misaligned, ptr
  <2> QED  BY <2>1, <2>2 DEF AlignedInv
<1> QED
  BY <1>5, <1>6, <1>7, <1>8, <1>9 DEF Inv

\* From one loop of zeroize_raw to the next
LEMMA NextLoopInv ==
  ASSUME Inv, Wiping, Stay, loop' \in {"wide", "trail"}, UNCHANGED <<buf, user, todo>>,
         loop' = "wide" => i = len \/ ~Misaligned
  PROVE  Inv'
<1>1. UNCHANGED <<mem, store, i, buf, user, todo>>
  BY DEF Stay
<1>2. TypeInv' /\ CallsInv'
  BY <1>1 DEF Inv, TypeInv, CallsInv, Wiping, Inside, len, Bytes
<1>3. ErasedInv' /\ OthersInv'
  BY <1>1 DEF Inv, ErasedInv, OthersInv, Wiping, Undone, ptr, len, Of, Bytes
<1>4. AlignedInv'
  BY <1>1 DEF Inv, AlignedInv, Misaligned, ptr, len
<1> QED
  BY <1>2, <1>3, <1>4 DEF Inv

LEMMA LeadingInv ==
  ASSUME Inv, Leading
  PROVE  Inv'
<1>1. Wiping /\ loop = "lead" /\ UNCHANGED <<buf, user, todo>>
  BY DEF Leading, Wiping
<1>2. ptr \in Nat /\ len \in Nat /\ i \in Nat /\ i <= len
  BY <1>1, CallUnderWay
<1>3. CASE i < len /\ Misaligned
  <2>1. WriteZeros(1) /\ UNCHANGED <<buf, user, todo, loop>>
    BY <1>3 DEF Leading
  <2>2. (ptr + i) % 1 = 0 /\ i + 1 <= len
    BY <1>2, <1>3, ModOne
  <2> QED  BY <1>1, <2>1, <2>2, WriteInv
<1>4. CASE ~(i < len /\ Misaligned)
  <2>1. Stay /\ loop' = "wide"
    BY <1>4 DEF Leading
  <2> QED  BY <1>1, <1>2, <1>4, <2>1, NextLoopInv
<1> QED
  BY <1>3, <1>4

LEMMA WideInv ==
  ASSUME Inv, Wide
  PROVE  Inv'
<1>1. Wiping /\ loop = "wide" /\ UNCHANGED <<buf, user, todo>>
  BY DEF Wide, Wiping
<1>2. ptr \in Nat /\ len \in Nat /\ i \in Nat /\ i <= len /\ Word \in Nat \ {0}
  BY <1>1, CallUnderWay, WipeAssumption
<1>3. CASE WideFits
  <2>1. WriteZeros(Word) /\ UNCHANGED <<buf, user, todo, loop>>
    BY <1>1, <1>3 DEF Wide
  <2>2. i + Word <= len
    BY <1>2, <1>3 DEF WideFits
  <2>3. (ptr + i) % Word = 0
    BY <1>1, <1>2, <2>2 DEF Inv, AlignedInv, Misaligned
  <2>4. (ptr + (i + Word)) % Word = 0
    <3>1. ptr + i \in Nat /\ ptr + (i + Word) = (ptr + i) + Word
      BY <1>2
    <3> QED  BY <1>2, <2>3, <3>1, NextWordIsAligned
  <2> QED  BY <1>1, <1>2, <2>1, <2>2, <2>3, <2>4, WriteInv
<1>4. CASE ~WideFits
  <2>1. Stay /\ loop' = "trail"
    BY <1>4 DEF Wide
  <2> QED  BY <1>1, <2>1, NextLoopInv
<1> QED
  BY <1>3, <1>4

\* The end of a call leaves nothing of it undone, and the next call begins at its start.
LEMMA TrailingInv ==
  ASSUME Inv, Trailing
  PROVE  Inv'
<1>1. Wiping /\ loop = "trail" /\ UNCHANGED <<buf, user>>
  BY DEF Trailing, Wiping
<1>2. ptr \in Nat /\ len \in Nat /\ i \in Nat /\ i <= len
  BY <1>1, CallUnderWay
<1>3. CASE i < len
  <2>1. WriteZeros(1) /\ UNCHANGED <<buf, user, todo, loop>>
    BY <1>3 DEF Trailing
  <2>2. (ptr + i) % 1 = 0 /\ i + 1 <= len
    BY <1>2, <1>3, ModOne
  <2> QED  BY <1>1, <2>1, <2>2, WriteInv
<1>4. CASE ~(i < len)
  <2>1. /\ i = len /\ todo' = Tail(todo) /\ i' = 0 /\ UNCHANGED <<mem, store, buf, user>>
        /\ loop' = IF Len(todo) > 1 THEN "lead" ELSE "done"
    BY <1>1, <1>2, <1>4 DEF Trailing
  <2>2. /\ Len(todo) \in {1, 2} /\ todo \in Seq(Work)
        /\ Len(todo) = 2 => todo[2] \in Work /\ Inside(todo[2])
    BY <1>1, CallUnderWay DEF Inv, TypeInv
  <2>3. \A a \in Of(buf) : mem[a] = "zero" \/ Undone(a)
    BY <1>1 DEF Inv, ErasedInv
  <2>4. \A a : a \in Of(buf) => a \in Int
    BY BufIsInMemory DEF Inv
  <2>5. /\ todo' \in Seq(Work) /\ Len(todo') = Len(todo) - 1
        /\ Len(todo) = 2 => todo'[1] = todo[2]
    BY <2>1, <2>2
  <2>6. OthersInv' /\ AlignedInv'
    BY <1>1, <2>1 DEF Inv, OthersInv, AlignedInv, Of, Bytes
  <2>7. TypeInv'
    BY <2>1, <2>5 DEF Inv, TypeInv, Bytes
  <2>8. CASE Len(todo) = 2
    <3>0. /\ todo'[1] = todo[2] /\ Len(todo') = 1 /\ loop' = "lead"
          /\ todo[2].ptr \in Nat /\ todo[2].len \in Nat
      <4>1. Len(todo) = 2 /\ todo[2] \in Work
        BY <2>2, <2>8
      <4>2. loop' = "lead" /\ Len(todo') = 1 /\ todo'[1] = todo[2]
        BY <2>1, <2>5, <4>1
      <4> QED  BY <4>1, <4>2 DEF Work
    <3>1. CallsInv'
      <4>1. i' <= len'
        BY <2>1, <3>0 DEF len
      <4>2. \A k \in 1..Len(todo') : k = 1
        BY <3>0
      <4> QED  BY <2>1, <2>2, <2>8, <3>0, <4>1, <4>2 DEF CallsInv, Inside
    <3>2. ErasedInv'
      <4> SUFFICES ASSUME NEW a \in Of(buf)  PROVE mem'[a] = "zero" \/ Undone(a)'
        BY <2>1, <3>0 DEF ErasedInv, Wiping, Of
      <4>1. a \in Int /\ (mem[a] = "zero" \/ Undone(a))
        BY <2>3, <2>4
      <4>2. CASE Undone(a)
        <5>1. ~(ptr + i <= a /\ a < ptr + len)
          BY <1>2, <2>1, <4>1
        <5>2. todo[2].ptr <= a /\ a < todo[2].ptr + todo[2].len
          BY <4>2, <5>1 DEF Undone
        <5>3. todo'[1].ptr + i' <= a /\ a < todo'[1].ptr + todo'[1].len
          BY <2>1, <3>0, <5>2
        <5> QED  BY <5>3 DEF Undone, ptr, len
      <4> QED  BY <2>1, <4>1, <4>2
    <3> QED  BY <2>6, <2>7, <3>1, <3>2 DEF Inv
  <2>9. CASE Len(todo) = 1
    <3>1. CallsInv'
      BY <2>1, <2>9 DEF CallsInv, Wiping
    <3>2. ErasedInv'
      BY <1>2, <2>1, <2>3, <2>4, <2>9 DEF ErasedInv, Undone, Wiping, Of
    <3> QED  BY <2>6, <2>7, <3>1, <3>2 DEF Inv
  <2> QED  BY <2>2, <2>8, <2>9
<1> QED
  BY <1>3, <1>4

LEMMA NextInv == Inv /\ [WipeNext]_wipeVars => Inv'
<1> SUFFICES ASSUME Inv, [WipeNext]_wipeVars  PROVE Inv'
  OBVIOUS
<1>1. CASE UNCHANGED wipeVars
  BY <1>1 DEF wipeVars, Inv, TypeInv, CallsInv, ErasedInv, OthersInv, AlignedInv, Wiping,
     Undone,
              Inside, ptr, len, Misaligned, Of, Bytes
<1>2. CASE \E n \in 0..Memory : FillFails(n)
  BY <1>2, FillFailsInv, WipeAssumption
<1> QED
  BY <1>1, <1>2, DropInv, FillOkInv, LeadingInv, WideInv, TrailingInv DEF WipeNext

-----------------------------------------------------------------------------
(* Theorems. *)

\* The inductive invariant, which TLC also checked on the small instance
THEOREM InvAlways == WipeSpec => []Inv
<1> QED
  BY InitInv, NextInv, PTL DEF WipeSpec

\* Nothing of the allocation is left when the wipe is done, whatever its place, length
\* and capacity, and however much of it a failed source had written.
THEOREM ErasedAlways == WipeSpec => []AllErased
<1>1. Inv => AllErased
  BY DEF Inv, ErasedInv, AllErased
<1> QED
  BY <1>1, InvAlways, PTL

\* No store reaches a byte of others, and every word is stored at a multiple of its size.
THEOREM OthersAlways == WipeSpec => []OthersUntouched
<1>1. Inv => OthersUntouched
  BY DEF Inv, OthersInv, AlignedInv, OthersUntouched
<1> QED
  BY <1>1, InvAlways, PTL

-----------------------------------------------------------------------------
(* The invariant of TagCompare *)

\* The accumulator holds the differences among the bytes behind folded, and each verdict
\* is about the bytes its loop got to.
FoldedSoFar == acc = differ \cap 0..folded - 1

PlainSeesItsBytes ==
  pc # "subtle" => plain = (differ \cap 0..Cut("subtle") - 1 = {})

AlsoSeesItsBytes ==
  pc = "done" => folded >= Cut("independent") /\ also = (acc = {})

CompareInv ==
  /\ differ \subseteq Positions /\ fault \in Faults /\ folded \in Nat
  /\ plain \in BOOLEAN /\ also \in BOOLEAN
  /\ FoldedSoFar /\ PlainSeesItsBytes /\ AlsoSeesItsBytes

\* The first m bytes and the n after them are the first m + n.
LEMMA NextBytes ==
  ASSUME NEW m \in Nat, NEW n \in Nat, NEW S
  PROVE  (S \cap 0..m - 1) \cup (S \cap m..m + n - 1) = S \cap 0..m + n - 1
OBVIOUS

\* Folding n bytes more keeps the accumulator the differences behind folded.
LEMMA FoldKeeps ==
  ASSUME NEW n \in Nat, folded \in Nat, FoldedSoFar, Fold(n), differ' = differ
  PROVE  folded' \in Nat /\ FoldedSoFar'
<1>1. folded' = folded + n /\ acc' = acc \cup (differ \cap folded..folded + n - 1)
  BY DEF Fold
<1>2. acc' = differ \cap 0..folded + n - 1
  BY <1>1, NextBytes DEF FoldedSoFar
<1> QED
  BY <1>1, <1>2 DEF FoldedSoFar

\* Nothing is folded yet.
LEMMA CompareInitInv == CompareInit => CompareInv
<1> SUFFICES ASSUME CompareInit PROVE CompareInv
  OBVIOUS
<1>1. 0..0 - 1 = {}
  OBVIOUS
<1>2. FoldedSoFar
  BY <1>1 DEF CompareInit, FoldedSoFar
<1> QED
  BY <1>2 DEF CompareInit, CompareInv, PlainSeesItsBytes, AlsoSeesItsBytes

\* Every step folds the bytes it reads.
LEMMA CompareNextInv == CompareInv /\ [CompareNext]_compareVars => CompareInv'
<1> SUFFICES ASSUME CompareInv, [CompareNext]_compareVars PROVE CompareInv'
  OBVIOUS
<1>1. CASE Subtle
  BY <1>1 DEF Subtle, CompareInv, FoldedSoFar, PlainSeesItsBytes, AlsoSeesItsBytes, Cut
<1>2. CASE Words
  <2>1. CASE folded + WordLen <= Cut("independent")
    <3>1. Fold(WordLen) /\ pc' = pc /\ pc = "words" /\ UNCHANGED <<differ, fault, plain, also>>
      BY <1>2, <2>1 DEF Words
    <3>2. folded' \in Nat /\ FoldedSoFar'
      BY <3>1, FoldKeeps, CompareAssumption DEF CompareInv
    <3> QED
      BY <3>1, <3>2 DEF CompareInv, PlainSeesItsBytes, AlsoSeesItsBytes, Cut
  <2>2. CASE ~(folded + WordLen <= Cut("independent"))
    BY <1>2, <2>2 DEF Words, CompareInv, FoldedSoFar, PlainSeesItsBytes, AlsoSeesItsBytes, Cut
  <2> QED
    BY <2>1, <2>2
<1>3. CASE TailLoop
  <2>1. CASE folded < Cut("independent")
    <3>1. Fold(1) /\ pc' = pc /\ pc = "tail" /\ UNCHANGED <<differ, fault, plain, also>>
      BY <1>3, <2>1 DEF TailLoop
    <3>2. folded' \in Nat /\ FoldedSoFar'
      BY <3>1, FoldKeeps DEF CompareInv
    <3> QED
      BY <3>1, <3>2 DEF CompareInv, PlainSeesItsBytes, AlsoSeesItsBytes, Cut
  <2>2. CASE ~(folded < Cut("independent"))
    <3>1. folded >= Cut("independent")
      BY <2>2, CompareAssumption DEF CompareInv, Cut, Faults, Positions
    <3>2. /\ pc' = "done" /\ also' = (acc = {})
          /\ UNCHANGED <<differ, fault, plain, folded, acc>> /\ pc = "tail"
      BY <1>3, <2>2 DEF TailLoop
    <3> QED
      BY <3>1, <3>2 DEF CompareInv, FoldedSoFar, PlainSeesItsBytes, AlsoSeesItsBytes, Cut
  <2> QED
    BY <2>1, <2>2
<1>4. CASE UNCHANGED compareVars
  BY <1>4 DEF compareVars, CompareInv, FoldedSoFar, PlainSeesItsBytes, AlsoSeesItsBytes, Cut
<1> QED
  BY <1>1, <1>2, <1>3, <1>4 DEF CompareNext

\* A loop that no fault shortened saw every byte.
LEMMA WholeLoopSeesAll ==
  ASSUME CompareInv, pc = "done"
  PROVE  /\ fault.loop # "subtle" => plain = (differ = {})
         /\ fault.loop # "independent" => also = (differ = {})
<1>1. ASSUME NEW n \in Int, n >= TagLen PROVE differ \cap 0..n - 1 = differ
  <2>1. \A p \in differ : p \in 0..n - 1
    BY <1>1, CompareAssumption DEF CompareInv, Positions
  <2> QED
    BY <2>1
<1>2. ASSUME fault.loop # "subtle" PROVE plain = (differ = {})
  BY <1>1, <1>2, CompareAssumption DEF CompareInv, PlainSeesItsBytes, Cut
<1>3. ASSUME fault.loop # "independent" PROVE also = (differ = {})
  BY <1>1, <1>3, CompareAssumption DEF CompareInv, FoldedSoFar, AlsoSeesItsBytes, Cut
<1> QED
  BY <1>2, <1>3

\* second_gate_comparison accepts no tag that differs in a byte, whichever of its two
\* loops one fault shortens, and to whatever length.
THEOREM SingleFaultAlways == CompareSpec => []SingleFaultIsCaught
<1>1. CompareInv => SingleFaultIsCaught
  <2> SUFFICES ASSUME CompareInv, pc = "done", Gate PROVE differ = {}
    BY DEF SingleFaultIsCaught
  <2> QED
    BY WholeLoopSeesAll DEF Gate, CompareInv
<1> QED
  BY CompareInitInv, CompareNextInv, <1>1, PTL DEF CompareSpec

\* ct_eq_independent is equality, whatever TAG_LEN leaves over after whole words.
THEOREM FoldAlways == CompareSpec => []FoldIsEquality
<1>1. CompareInv => FoldIsEquality
  <2> SUFFICES ASSUME CompareInv, pc = "done", fault.loop = "none"
               PROVE  (also <=> differ = {}) /\ (plain <=> also)
    BY DEF FoldIsEquality
  <2> QED
    BY WholeLoopSeesAll
<1> QED
  BY CompareInitInv, CompareNextInv, <1>1, PTL DEF CompareSpec

-----------------------------------------------------------------------------
(* OutputReader *)

\* Where the next byte comes from
Place(c, w) == c * BlockLen + w

\* Part of the way through fill, started at place p with a buffer of n bytes: what is
\* filled and what is left make n, and, up to the maximum output size, the bytes are those
\* of the stream and the reader stands behind the last of them.
Underway(f, p, n) ==
  /\ f.counter \in 0..Last /\ f.within \in 0..BlockLen - 1
  /\ f.left \in 0..n
  /\ f.bytes \in Seq(Nat) /\ Len(f.bytes) = n - f.left
  /\ p + n <= Last =>
       /\ Place(f.counter, f.within) = p + Len(f.bytes)
       /\ \A j \in 1..Len(f.bytes) : f.bytes[j] = p + j - 1

-----------------------------------------------------------------------------
(* Arithmetic of blocks *)

\* A number is a multiple and a rest.
LEMMA Quotient ==
  ASSUME NEW w \in Nat \ {0}, NEW x \in Nat
  PROVE  /\ x \div w \in Nat /\ x % w \in 0..w - 1
         /\ x = w * (x \div w) + (x % w)
BY SMTT(30)

\* A product, one more factor
LEMMA OneMore ==
  ASSUME NEW a \in Nat, NEW b \in Nat
  PROVE  a * b \in Nat /\ (a + 1) * b = a * b + b
BY SMTT(30)

\* A sum, multiplied
LEMMA Spread ==
  ASSUME NEW a \in Nat, NEW b \in Nat, NEW w \in Nat
  PROVE  /\ a * w \in Nat /\ b * w \in Nat
         /\ (a + b) * w = a * w + b * w
BY SMTT(30)

\* A counter is no more than the place of its block.
LEMMA BlockIsBehind ==
  ASSUME NEW w \in Nat \ {0}, NEW a \in Nat
  PROVE  a <= a * w
BY SMTT(30)

\* Nothing wraps below the modulus.
LEMMA NoWrap ==
  ASSUME NEW m \in Nat, NEW a \in 0..m
  PROVE  a % (m + 1) = a
BY SMTT(30)

\* What is taken modulo the counter's width is a counter.
LEMMA Wraps ==
  ASSUME NEW m \in Nat, NEW a \in Nat
  PROVE  a % (m + 1) \in 0..m
BY SMTT(30)

\* The place is a number.
LEMMA PlaceIsNat ==
  ASSUME ReaderAssumption, NEW c \in Nat, NEW w \in Nat
  PROVE  Place(c, w) \in Nat /\ c * BlockLen \in Nat
<1>1. c * BlockLen \in Nat
  BY OneMore DEF ReaderAssumption
<1> QED
  BY <1>1 DEF Place

-----------------------------------------------------------------------------
(* fill *)

\* fill_one_block goes on as fill has begun.
LEMMA OneBlock ==
  ASSUME ReaderAssumption, NEW p \in Nat, NEW n \in Nat,
         NEW f, Underway(f, p, n)
  PROVE  /\ Underway(FillOneBlock(f), p, n)
         /\ FillOneBlock(f).left = 0 \/ FillOneBlock(f).within = 0
<1> DEFINE c == f.counter
           w == f.within
           block == BlockBytes(c)
           rest == SubSeq(block, w + 1, BlockLen)
           take == IF f.left < Len(rest) THEN f.left ELSE Len(rest)
           spent == w + take = BlockLen
           more == SubSeq(rest, 1, take)
           g == FillOneBlock(f)
<1>1. /\ BlockLen \in Nat \ {0} /\ Last \in Nat
      /\ c \in 0..Last /\ w \in 0..BlockLen - 1 /\ f.left \in 0..n
      /\ f.bytes \in Seq(Nat) /\ Len(f.bytes) = n - f.left
  BY DEF Underway, ReaderAssumption
<1> HIDE DEF c, w
<1>2. c * BlockLen \in Nat /\ c <= c * BlockLen
  BY <1>1, PlaceIsNat, BlockIsBehind
<1>3. block \in Seq(Nat) /\ Len(block) = BlockLen
      /\ \A j \in 1..BlockLen : block[j] = c * BlockLen + j - 1
  BY <1>1, <1>2 DEF BlockBytes
<1>4. /\ rest \in Seq(Nat) /\ Len(rest) = BlockLen - w
      /\ \A j \in 1..BlockLen - w : rest[j] = block[w + j]
  <2> HIDE DEF block
  <2>1. w + 1 \in 1..BlockLen + 1 /\ BlockLen \in w + 1 - 1..Len(block)
    BY <1>1, <1>3
  <2>2. /\ rest \in Seq(Nat)
        /\ Len(rest) = IF w + 1 <= BlockLen THEN BlockLen - (w + 1) + 1 ELSE 0
        /\ \A j \in 1..BlockLen - (w + 1) + 1 : rest[j] = block[(w + 1) + j - 1]
    BY <1>1, <1>3, <2>1, SubSeqProperties
  <2> HIDE DEF rest
  <2> QED
    BY <1>1, <2>2
<1> HIDE DEF block
<1>5. \A j \in 1..BlockLen - w : rest[j] = c * BlockLen + w + j - 1
  <2> HIDE DEF rest
  <2>1. \A j \in 1..BlockLen - w : w + j \in 1..BlockLen
    BY <1>1
  <2>2. \A j \in 1..BlockLen - w : c * BlockLen + (w + j) - 1 = c * BlockLen + w + j - 1
    BY <1>1, <1>2
  <2> QED
    BY <1>1, <1>3, <1>4, <2>1, <2>2
<1> HIDE DEF rest
<1>6. take \in 0..BlockLen - w /\ take <= f.left /\ (take = f.left \/ take = BlockLen - w)
  BY <1>1, <1>4
<1> HIDE DEF take
<1>7. /\ more \in Seq(Nat) /\ Len(more) = take
      /\ \A j \in 1..take : more[j] = rest[j]
  <2>1. 1 \in 1..Len(rest) + 1 /\ take \in 0..Len(rest)
    BY <1>1, <1>4, <1>6
  <2>2. /\ more \in Seq(Nat) /\ Len(more) = IF 1 <= take THEN take - 1 + 1 ELSE 0
        /\ \A j \in 1..take - 1 + 1 : more[j] = rest[1 + j - 1]
    BY <1>4, <2>1, SubSeqProperties
  <2> HIDE DEF more
  <2> QED
    BY <1>1, <1>6, <2>2
<1> HIDE DEF more
<1>8. /\ g.counter = IF spent THEN (c + 1) % Modulus ELSE c
      /\ g.within = IF spent THEN 0 ELSE w + take
      /\ g.left = f.left - take /\ g.bytes = f.bytes \o more
  BY DEF FillOneBlock, Filling, more, take, rest, block, c, w
<1> HIDE DEF g
<1>9. /\ g.bytes \in Seq(Nat) /\ Len(g.bytes) = Len(f.bytes) + take
      /\ \A j \in 1..Len(f.bytes) : g.bytes[j] = f.bytes[j]
      /\ \A j \in 1..take : g.bytes[Len(f.bytes) + j] = more[j]
  <2> DEFINE both == f.bytes \o more
             k == Len(f.bytes)
  <2>1. /\ both \in Seq(Nat) /\ Len(both) = k + Len(more)
        /\ \A j \in 1..k + Len(more) : both[j] = IF j <= k THEN f.bytes[j] ELSE more[j - k]
    BY <1>1, <1>7, ConcatProperties
  <2>2. k \in Nat
    BY <1>1
  <2> HIDE DEF both, k
  <2>3. \A j \in 1..take : k + j \in 1..k + take /\ ~(k + j <= k) /\ (k + j) - k = j
    BY <1>1, <1>6, <2>2
  <2>4. \A j \in 1..k : j \in 1..k + take
    BY <1>1, <1>6, <2>2
  <2>5. \A j \in 1..k : both[j] = f.bytes[j]
    BY <1>7, <2>1, <2>4
  <2>6. \A j \in 1..take : both[k + j] = more[j]
    BY <1>7, <2>1, <2>3
  <2> QED
    BY <1>7, <1>8, <2>1, <2>5, <2>6 DEF both, k
<1>10. g.counter \in 0..Last /\ g.within \in 0..BlockLen - 1 /\ g.left \in 0..n
       /\ Len(g.bytes) = n - g.left
  <2>1. (c + 1) % Modulus \in 0..Last
    <3>1. c + 1 \in Nat
      BY <1>1
    <3> QED
      BY <1>1, <3>1, Wraps DEF Modulus
  <2>2. w + take \in 0..BlockLen /\ f.left - take \in 0..n
    BY <1>1, <1>6
  <2> QED
    BY <1>1, <1>6, <1>8, <1>9, <2>1, <2>2
<1>11. ASSUME p + n <= Last
       PROVE  /\ Place(g.counter, g.within) = p + Len(g.bytes)
              /\ \A j \in 1..Len(g.bytes) : g.bytes[j] = p + j - 1
  <2> DEFINE k == Len(f.bytes)
  <2>1. /\ c * BlockLen + w = p + k
        /\ \A j \in 1..k : f.bytes[j] = p + j - 1
    BY <1>11 DEF Underway, Place, c, w
  <2>2. k \in Nat /\ k + take <= n
    BY <1>1, <1>6
  <2> HIDE DEF k
  <2>3. Place(g.counter, g.within) = p + k + take
    <3>1. CASE spent
      <4>1. (c + 1) * BlockLen = c * BlockLen + BlockLen
        BY <1>1, OneMore
      <4>2. (c + 1) * BlockLen = p + k + take
        BY <1>1, <1>2, <1>6, <2>1, <2>2, <3>1, <4>1
      <4>3. c + 1 \in 0..Last
        <5>1. c + 1 <= (c + 1) * BlockLen
          BY <1>1, BlockIsBehind
        <5>2. (c + 1) * BlockLen <= Last
          BY <1>1, <1>11, <2>2, <4>2, <1>6
        <5> QED
          BY <1>1, <1>2, <4>1, <5>1, <5>2
      <4>4. (c + 1) % Modulus = c + 1
        BY <1>1, <4>3, NoWrap DEF Modulus
      <4>5. g.counter = c + 1 /\ g.within = 0
        BY <1>8, <3>1, <4>4
      <4> QED
        BY <1>1, <1>2, <4>1, <4>2, <4>5 DEF Place
    <3>2. CASE ~spent
      <4>1. g.counter = c /\ g.within = w + take
        BY <1>8, <3>2
      <4> QED
        BY <1>1, <1>2, <1>6, <2>1, <2>2, <4>1 DEF Place
    <3> QED
      BY <3>1, <3>2
  <2>4. \A j \in 1..k + take : j \in 1..k \/ (j - k \in 1..take /\ k + (j - k) = j)
    BY <1>1, <1>6, <2>2
  <2>5. \A j \in 1..k : g.bytes[j] = p + j - 1
    BY <1>9, <2>1 DEF k
  <2>6. \A j \in 1..take : g.bytes[k + j] = p + (k + j) - 1
    <3> TAKE j \in 1..take
    <3>1. g.bytes[k + j] = c * BlockLen + w + j - 1
      <4>1. j \in 1..BlockLen - w
        BY <1>1, <1>6
      <4> QED
        BY <1>5, <1>7, <1>9, <4>1 DEF k
    <3> QED
      BY <1>1, <1>2, <1>6, <2>1, <2>2, <3>1
  <2>7. Len(g.bytes) = k + take
    BY <1>9 DEF k
  <2>8. \A j \in 1..Len(g.bytes) : g.bytes[j] = p + j - 1
    BY <2>4, <2>5, <2>6, <2>7
  <2> QED
    BY <1>6, <2>2, <2>3, <2>7, <2>8
<1>12. g.left = 0 \/ g.within = 0
  BY <1>1, <1>6, <1>8
<1> QED
  BY <1>9, <1>10, <1>11, <1>12 DEF Underway, g

\* The blocks that xof_many fills go on as well, from the beginning of a block.
LEMMA FullBlocks ==
  ASSUME ReaderAssumption, NEW p \in Nat, NEW n \in Nat,
         NEW f, Underway(f, p, n), f.left = 0 \/ f.within = 0
  PROVE  Underway(FillFullBlocks(f), p, n)
<1> DEFINE c == f.counter
           w == f.within
           k == Len(f.bytes)
           full == f.left \div BlockLen
           size == full * BlockLen
           r == f.left % BlockLen
           byte(j) == ((c + (j - 1) \div BlockLen) % Modulus) * BlockLen
                        + ((j - 1) % BlockLen)
           blocks == [j \in 1..size |-> byte(j)]
           g == FillFullBlocks(f)
<1>1. /\ BlockLen \in Nat \ {0} /\ Last \in Nat
      /\ c \in 0..Last /\ w \in 0..BlockLen - 1 /\ f.left \in 0..n
      /\ f.bytes \in Seq(Nat) /\ k = n - f.left /\ k \in Nat
      /\ f.left = 0 \/ w = 0
  BY DEF Underway, ReaderAssumption
<1>2. /\ g.counter = (c + full) % Modulus /\ g.within = w
      /\ g.left = r /\ g.bytes = f.bytes \o blocks
  BY DEF FillFullBlocks, Filling
<1> HIDE DEF c, w, k
<1>3. full \in Nat /\ r \in 0..BlockLen - 1 /\ size \in Nat /\ f.left = size + r
  <2>1. f.left \in Nat
    BY <1>1
  <2>2. full \in Nat /\ r \in 0..BlockLen - 1 /\ f.left = BlockLen * full + r
    BY <1>1, <2>1, Quotient
  <2> HIDE DEF full, r
  <2>3. size \in Nat
    BY <1>1, <2>2, OneMore
  <2>4. BlockLen * full = size
    BY <1>1, <2>2
  <2> QED
    BY <2>2, <2>3, <2>4
<1> HIDE DEF full, r, size
<1>4. \A j \in 1..size : byte(j) \in Nat
  <2> TAKE j \in 1..size
  <2> DEFINE x == j - 1
             d == x \div BlockLen
  <2>1. x \in Nat
    BY <1>3
  <2> HIDE DEF x
  <2>2. d \in Nat /\ x % BlockLen \in 0..BlockLen - 1
    BY <1>1, <2>1, Quotient
  <2> HIDE DEF d
  <2>3. c + d \in Nat
    BY <1>1, <2>2
  <2>4. (c + d) % Modulus \in Nat
    BY <1>1, <2>3, Wraps DEF Modulus
  <2>5. ((c + d) % Modulus) * BlockLen \in Nat
    BY <1>1, <2>4, OneMore
  <2> QED
    <3> DEFINE e == x % BlockLen
    <3>1. e \in Nat
      BY <1>1, <2>2
    <3>2. byte(j) = ((c + d) % Modulus) * BlockLen + e
      BY DEF x, d
    <3> HIDE DEF e, byte
    <3> QED
      BY <2>5, <3>1, <3>2
<1>5. blocks \in Seq(Nat) /\ Len(blocks) = size /\ \A j \in 1..size : blocks[j] = byte(j)
  <2> HIDE DEF byte
  <2> QED
    BY <1>3, <1>4
<1> HIDE DEF byte, blocks, g
<1>6. /\ g.bytes \in Seq(Nat) /\ Len(g.bytes) = k + size
      /\ \A j \in 1..k : g.bytes[j] = f.bytes[j]
      /\ \A j \in 1..size : g.bytes[k + j] = byte(j)
  <2> DEFINE both == f.bytes \o blocks
  <2>1. /\ both \in Seq(Nat) /\ Len(both) = Len(f.bytes) + Len(blocks)
        /\ \A j \in 1..Len(f.bytes) + Len(blocks) :
             both[j] = IF j <= Len(f.bytes) THEN f.bytes[j] ELSE blocks[j - Len(f.bytes)]
    BY <1>1, <1>5, ConcatProperties
  <2> HIDE DEF both
  <2>2. /\ Len(both) = k + size
        /\ \A j \in 1..k + size : both[j] = IF j <= k THEN f.bytes[j] ELSE blocks[j - k]
    BY <1>5, <2>1 DEF k
  <2>3. \A j \in 1..size : k + j \in 1..k + size /\ ~(k + j <= k) /\ (k + j) - k = j
    BY <1>1, <1>3
  <2>4. \A j \in 1..k : j \in 1..k + size
    BY <1>1, <1>3
  <2>5. \A j \in 1..k : both[j] = f.bytes[j]
    BY <2>2, <2>4
  <2>6. \A j \in 1..size : both[k + j] = byte(j)
    BY <1>5, <2>2, <2>3
  <2> QED
    BY <1>2, <2>1, <2>2, <2>5, <2>6 DEF both
<1>7. /\ g.counter \in 0..Last /\ g.within \in 0..BlockLen - 1
      /\ g.left \in 0..n /\ Len(g.bytes) = n - g.left
  <2>1. c + full \in Nat
    BY <1>1, <1>3
  <2>2. (c + full) % Modulus \in 0..Last
    BY <1>1, <2>1, Wraps DEF Modulus
  <2>3. r \in 0..n /\ k + size = n - r
    BY <1>1, <1>3
  <2> QED
    BY <1>1, <1>2, <1>6, <2>2, <2>3
<1>8. ASSUME p + n <= Last
      PROVE  /\ Place(g.counter, g.within) = p + Len(g.bytes)
             /\ \A j \in 1..Len(g.bytes) : g.bytes[j] = p + j - 1
  <2>1. c * BlockLen + w = p + k /\ \A j \in 1..k : f.bytes[j] = p + j - 1
    BY <1>8 DEF Underway, Place, c, w, k
  <2>2. c * BlockLen \in Nat /\ (c + full) * BlockLen = c * BlockLen + size
    <3>1. c \in Nat
      BY <1>1
    <3> QED
      BY <1>1, <1>3, <3>1, Spread DEF size
  <2>3. k + size \in Nat /\ k + size <= n
    BY <1>1, <1>3
  <2>4. \A d \in 0..full : c + d \in 0..Last
    <3>1. c + full \in Nat /\ c + full <= (c + full) * BlockLen
      BY <1>1, <1>3, BlockIsBehind
    <3>2. (c + full) * BlockLen <= Last
      <4> QED
        BY <1>1, <1>3, <1>8, <2>1, <2>2, <2>3
    <3>3. c + full <= Last
      <4> DEFINE y == (c + full) * BlockLen
      <4>1. y \in Nat /\ c + full <= y /\ y <= Last
        BY <1>3, <2>2, <3>1, <3>2
      <4> HIDE DEF y
      <4> QED
        BY <1>1, <3>1, <4>1
    <3> QED
      BY <1>1, <1>3, <3>3
  <2>5. g.counter = c + full
    <3>1. c + full \in 0..Last
      BY <1>3, <2>4
    <3>2. (c + full) % (Last + 1) = c + full
      BY <1>1, <3>1, NoWrap
    <3> QED
      BY <1>2, <3>2 DEF Modulus
  <2>6. Place(g.counter, g.within) = p + (k + size)
    <3>1. Place(g.counter, g.within) = (c + full) * BlockLen + w
      BY <1>2, <2>5 DEF Place
    <3> DEFINE y == c * BlockLen
    <3>2. y \in Nat /\ y + w = p + k /\ (c + full) * BlockLen = y + size
      BY <2>1, <2>2
    <3> HIDE DEF y
    <3> QED
      BY <1>1, <1>3, <3>1, <3>2
  <2>7. \A j \in 1..size : byte(j) = p + (k + j) - 1
    <3> TAKE j \in 1..size
    <3> DEFINE x == j - 1
               d == x \div BlockLen
    <3>1. x \in Nat /\ x < size
      BY <1>3
    <3> HIDE DEF x
    <3>2. d \in Nat /\ x % BlockLen \in 0..BlockLen - 1 /\ x = BlockLen * d + (x % BlockLen)
      BY <1>1, <3>1, Quotient
    <3> HIDE DEF d
    <3>3. d * BlockLen \in Nat /\ BlockLen * d = d * BlockLen
      BY <1>1, <3>2, OneMore
    <3>4. d <= full
      <4>1. CASE d > full
        <5>1. d - full \in Nat /\ (full + (d - full)) * BlockLen = size + (d - full) * BlockLen
              /\ (d - full) * BlockLen \in Nat
          BY <1>1, <1>3, <3>2, <4>1, Spread DEF size
        <5>2. full + (d - full) = d
          BY <1>3, <3>2
        <5>3. d * BlockLen >= size
          BY <1>3, <5>1, <5>2
        <5> QED
          BY <1>3, <3>1, <3>2, <3>3, <5>3
      <4> QED
        BY <1>3, <3>2, <4>1
    <3>5. (c + d) % Modulus = c + d
      <4>1. c + d \in 0..Last
        BY <1>3, <2>4, <3>2, <3>4
      <4>2. (c + d) % (Last + 1) = c + d
        BY <1>1, <4>1, NoWrap
      <4> QED
        BY <4>2 DEF Modulus
    <3>6. (c + d) * BlockLen = c * BlockLen + d * BlockLen
      BY <1>1, <3>2, Spread
    <3>7. byte(j) = (c + d) * BlockLen + (x % BlockLen)
      BY <3>5 DEF byte, d, x
    <3>8. w = 0
      <4>1. f.left # 0
        BY <1>1, <1>3, <3>1
      <4> QED
        BY <1>1, <4>1
    <3>9. byte(j) = c * BlockLen + x
      <4> DEFINE e == x % BlockLen
      <4>1. /\ e \in 0..BlockLen - 1 /\ x = d * BlockLen + e
            /\ byte(j) = (c * BlockLen + d * BlockLen) + e
        BY <3>2, <3>3, <3>6, <3>7
      <4> HIDE DEF e
      <4> QED
        BY <1>1, <2>2, <3>1, <3>3, <4>1
    <3> DEFINE y == c * BlockLen
    <3>10. y \in Nat /\ y + w = p + k /\ byte(j) = y + x
      BY <2>1, <2>2, <3>9
    <3> HIDE DEF y
    <3>11. byte(j) = p + k + x
      BY <1>1, <3>1, <3>8, <3>10
    <3> QED
      BY <1>1, <3>11 DEF x
  <2>8. \A j \in 1..Len(g.bytes) : g.bytes[j] = p + j - 1
    <3>1. \A j \in 1..k + size : j \in 1..k \/ (j - k \in 1..size /\ k + (j - k) = j)
      BY <1>1, <1>3
    <3>2. \A j \in 1..k : g.bytes[j] = p + j - 1
      BY <1>6, <2>1
    <3>3. \A j \in 1..size : g.bytes[k + j] = p + (k + j) - 1
      BY <1>6, <2>7
    <3> QED
      BY <1>6, <3>1, <3>2, <3>3
  <2> QED
    BY <1>6, <2>6, <2>8
<1> QED
  BY <1>6, <1>7, <1>8 DEF Underway, g

\* What is left after them is less than a block, and fill_one_block finishes it.
LEMMA LastBlock ==
  ASSUME ReaderAssumption, NEW f, f.counter \in Nat, f.within = 0, f.left \in 0..BlockLen - 1
  PROVE  FillOneBlock(f).left = 0
<1> DEFINE block == BlockBytes(f.counter)
           rest == SubSeq(block, f.within + 1, BlockLen)
<1>1. BlockLen \in Nat \ {0}
  BY DEF ReaderAssumption
<1>2. block \in Seq(Int) /\ Len(block) = BlockLen
  <2>1. f.counter * BlockLen \in Nat
    BY <1>1, OneMore
  <2> QED
    BY <1>1, <2>1 DEF BlockBytes
<1>3. Len(rest) = BlockLen
  <2> HIDE DEF block
  <2>1. f.within + 1 = 1 /\ 1 \in 1..Len(block) + 1 /\ BlockLen \in 1 - 1..Len(block)
    BY <1>1, <1>2
  <2>2. Len(rest) = IF 1 <= BlockLen THEN BlockLen - 1 + 1 ELSE 0
    BY <1>2, <2>1, SubSeqProperties
  <2> HIDE DEF rest
  <2> QED
    BY <1>1, <2>2
<1>4. FillOneBlock(f).left = f.left - (IF f.left < Len(rest) THEN f.left ELSE Len(rest))
  BY DEF FillOneBlock, Filling
<1> HIDE DEF rest
<1> QED
  BY <1>1, <1>3, <1>4

-----------------------------------------------------------------------------
(* Every step is one of the stream's *)

\* A buffer is filled from the stream, or from past its end.
LEMMA FillReads ==
  ASSUME ReaderAssumption, TypeOK, NEW n \in ReadLens, Fill(n)
  PROVE  TypeOK' /\ (Stream!Read(n) \/ Stream!ReadPast(n))
<1> DEFINE p == Place(counter, within)
           start == Filling(counter, within, n, <<>>)
           aligned == IF n > 0 /\ within # 0 THEN FillOneBlock(start) ELSE start
           whole == FillFullBlocks(aligned)
           end == IF whole.left > 0 THEN FillOneBlock(whole) ELSE whole
<1>1. /\ BlockLen \in Nat \ {0} /\ Last \in Nat /\ n \in Nat
      /\ counter \in 0..Last /\ within \in 0..BlockLen - 1
  BY DEF ReaderAssumption, TypeOK
<1>2. p \in Nat
  <2>1. counter \in Nat /\ within \in Nat
    BY <1>1
  <2> QED
    BY <2>1, PlaceIsNat
<1>3. counter' = end.counter /\ within' = end.within /\ got' = Stream!Filled(end.bytes)
  BY DEF Fill
<1>4. Underway(start, p, n) /\ start.left = n /\ start.within = within
  <2>1. /\ start.counter = counter /\ start.within = within /\ start.left = n
        /\ start.bytes = <<>>
    BY DEF Filling
  <2>2. <<>> \in Seq(Nat) /\ Len(<<>>) = 0
    OBVIOUS
  <2> HIDE DEF start
  <2> QED
    BY <1>1, <1>2, <2>1, <2>2 DEF Underway
<1> HIDE DEF start, p
<1>5. Underway(aligned, p, n) /\ (aligned.left = 0 \/ aligned.within = 0)
  <2>1. CASE n > 0 /\ within # 0
    BY <1>1, <1>2, <1>4, <2>1, OneBlock
  <2>2. CASE ~(n > 0 /\ within # 0)
    BY <1>1, <1>4, <2>2
  <2> QED
    BY <2>1, <2>2
<1> HIDE DEF aligned
<1>6. Underway(whole, p, n)
  BY <1>1, <1>2, <1>5, FullBlocks
<1>7. whole.left \in 0..BlockLen - 1 /\ whole.within = aligned.within
  <2>1. aligned.left \in Nat
    BY <1>5 DEF Underway
  <2>2. whole.left = aligned.left % BlockLen /\ whole.within = aligned.within
    BY DEF FillFullBlocks, Filling
  <2> HIDE DEF whole
  <2> QED
    BY <1>1, <2>1, <2>2, Quotient
<1>8. whole.left > 0 => whole.within = 0
  <2>1. CASE aligned.left = 0
    <3>1. whole.left = 0
      <4>1. whole.left = 0 % BlockLen
        BY <2>1 DEF FillFullBlocks, Filling
      <4>2. 0 % BlockLen = 0
        BY <1>1, SMTT(30)
      <4> QED
        BY <4>1, <4>2
    <3> QED
      BY <3>1
  <2>2. CASE aligned.within = 0
    BY <1>7, <2>2
  <2> QED
    BY <1>5, <2>1, <2>2
<1> HIDE DEF whole
<1>9. Underway(end, p, n) /\ end.left = 0
  <2>1. CASE whole.left > 0
    <3>1. end = FillOneBlock(whole)
      BY <2>1
    <3>2. Underway(end, p, n)
      BY <1>1, <1>2, <1>6, <3>1, OneBlock
    <3>3. end.left = 0
      BY <1>1, <1>6, <1>7, <1>8, <2>1, <3>1, LastBlock DEF Underway
    <3> QED
      BY <3>2, <3>3
  <2>2. CASE ~(whole.left > 0)
    BY <1>1, <1>6, <1>7, <2>2
  <2> QED
    BY <2>1, <2>2
<1> HIDE DEF end
<1>10. /\ end.bytes \in Seq(Nat) /\ Len(end.bytes) = n
       /\ end.counter \in 0..Last /\ end.within \in 0..BlockLen - 1
  BY <1>1, <1>9 DEF Underway
<1>11. TypeOK'
  BY <1>3, <1>10 DEF TypeOK
<1>12. CASE p + n <= Last
  <2>1. /\ Place(end.counter, end.within) = p + n
        /\ \A j \in 1..n : end.bytes[j] = p + j - 1
    BY <1>9, <1>10, <1>12 DEF Underway
  <2>2. end.bytes = [j \in 1..n |-> p + j - 1]
    <3>1. end.bytes = [j \in 1..n |-> end.bytes[j]]
      BY <1>10
    <3> QED
      BY <2>1, <3>1
  <2>3. Stream!Read(n)
    BY <1>3, <1>12, <2>1, <2>2 DEF Stream!Read, Stream!Filled, Place, p
  <2> QED
    BY <1>11, <2>3
<1>13. CASE ~(p + n <= Last)
  <2>1. Place(counter', within') \in Nat
    <3>1. counter' \in Nat /\ within' \in Nat
      BY <1>1, <1>3, <1>10
    <3> QED
      BY <3>1, PlaceIsNat
  <2>2. got'.kind = "bytes" /\ Len(got'.bytes) = n
    BY <1>3, <1>10 DEF Stream!Filled
  <2>3. p + n > Last
    BY <1>1, <1>2, <1>13
  <2>4. Stream!ReadPast(n)
    BY <2>1, <2>2, <2>3 DEF Stream!ReadPast, Place, p
  <2> QED
    BY <1>11, <2>4
<1> QED
  BY <1>12, <1>13

\* What position says is what the stream reports.
LEMMA PositionIsReported ==
  ASSUME ReaderAssumption, NEW c \in Nat, NEW w \in Nat
  PROVE  /\ PositionOf(c, w) = IF Place(c, w) <= Last THEN Place(c, w) ELSE Last
         /\ PositionOf(c, w) \in 0..Last
<1>1. c * BlockLen \in Nat /\ Last \in Nat
  BY PlaceIsNat DEF ReaderAssumption
<1> QED
  BY <1>1 DEF PositionOf, Saturated, Place

\* set_position goes to the place it is given.
LEMMA SetGoesThere ==
  ASSUME ReaderAssumption, NEW p \in 0..Last
  PROVE  /\ Place(p \div BlockLen, p % BlockLen) = p
         /\ p \div BlockLen \in 0..Last /\ p % BlockLen \in 0..BlockLen - 1
<1>1. BlockLen \in Nat \ {0} /\ Last \in Nat /\ p \in Nat /\ p <= Last
  BY DEF ReaderAssumption
<1> DEFINE q == p \div BlockLen
           r == p % BlockLen
<1>2. q \in Nat /\ r \in 0..BlockLen - 1 /\ p = BlockLen * q + r
  BY <1>1, Quotient
<1> HIDE DEF q, r
<1>3. q * BlockLen \in Nat /\ BlockLen * q = q * BlockLen /\ q <= q * BlockLen
  BY <1>1, <1>2, OneMore, BlockIsBehind
<1> DEFINE y == q * BlockLen
<1>4. y \in Nat /\ q <= y /\ p = y + r
  BY <1>2, <1>3
<1> HIDE DEF y
<1>5. q \in 0..Last /\ p = y + r
  BY <1>1, <1>2, <1>4
<1> QED
  BY <1>2, <1>5 DEF Place, q, r, y

\* A seek is one of the stream's.
LEMMA SeekSeeks ==
  ASSUME ReaderAssumption, TypeOK, NEW t \in Int, SeekTo(t)
  PROVE  TypeOK' /\ Stream!Seek(t)
<1>1. CASE t < 0
  BY <1>1 DEF SeekTo, Stream!Seek, TypeOK
<1>2. CASE ~(t < 0)
  <2> DEFINE p == Saturated(t)
  <2>1. p \in 0..Last /\ p = IF t > Last THEN Last ELSE t
    BY <1>2 DEF Saturated, ReaderAssumption
  <2>2. counter' = p \div BlockLen /\ within' = p % BlockLen
        /\ got' = Stream!Position(PositionOf(counter', within'))
    BY <1>2 DEF SeekTo, SetPosition
  <2> HIDE DEF p
  <2>3. Place(counter', within') = p /\ counter' \in 0..Last /\ within' \in 0..BlockLen - 1
    BY <2>1, <2>2, SetGoesThere
  <2>4. PositionOf(counter', within') = p
    <3> DEFINE c == counter'
               w == within'
    <3>1. c \in Nat /\ w \in Nat /\ Place(c, w) = p /\ Last \in Nat
      BY <2>3 DEF ReaderAssumption
    <3> HIDE DEF c, w
    <3>2. PositionOf(c, w) = IF Place(c, w) <= Last THEN Place(c, w) ELSE Last
      BY <3>1, PositionIsReported
    <3>3. PositionOf(c, w) = p
      BY <2>1, <3>1, <3>2
    <3> QED
      BY <3>3 DEF c, w
  <2> QED
    BY <1>2, <2>1, <2>2, <2>3, <2>4 DEF Stream!Seek, Place, TypeOK
<1> QED
  BY <1>1, <1>2

\* One step, and the invariant with it.
LEMMA StepRefines ==
  ASSUME ReaderAssumption, TypeOK, [Next]_vars
  PROVE  TypeOK' /\ [Stream!StreamNext]_<<Place(counter, within), got>>
<1>0. /\ Last \in Nat /\ counter \in Nat /\ within \in Nat
      /\ position = Stream!Reported /\ position \in 0..Last
  <2>1. Last \in Nat /\ counter \in Nat /\ within \in Nat
    BY DEF TypeOK, ReaderAssumption
  <2> QED
    BY <2>1, PositionIsReported DEF position, Stream!Reported, Place
<1>1. CASE UNCHANGED vars
  BY <1>1 DEF vars, TypeOK, Place
<1>2. ASSUME NEW n \in ReadLens, Fill(n) PROVE TypeOK' /\ Stream!StreamNext
  BY <1>2, FillReads DEF Stream!StreamNext
<1>3. CASE AskPosition
  BY <1>0, <1>3 DEF AskPosition, TypeOK, Stream!StreamNext, Stream!Tell
<1>4. ASSUME NEW p \in 0..Last, SeekTo(p) PROVE TypeOK' /\ Stream!StreamNext
  BY <1>0, <1>4, SeekSeeks DEF Stream!StreamNext
<1>5. ASSUME NEW d \in Offsets, SeekTo(position + d) PROVE TypeOK' /\ Stream!StreamNext
  <2>1. position + d \in Int
    BY <1>0 DEF ReaderAssumption
  <2> QED
    BY <1>0, <1>5, <2>1, SeekSeeks DEF Stream!StreamNext
<1>6. CASE SeekFromEnd
  BY <1>6 DEF SeekFromEnd, TypeOK, Stream!StreamNext, Stream!SeekEnd
<1> QED
  BY <1>1, <1>2, <1>3, <1>4, <1>5, <1>6 DEF Next

-----------------------------------------------------------------------------
(* The theorems *)

\* Between calls the reader stands inside a block, at a counter that u64 holds.
THEOREM ReaderTypeCorrect == Spec => []TypeOK
<1>1. Init => TypeOK
  BY ReaderAssumption DEF Init, TypeOK, ReaderAssumption
<1>2. TypeOK /\ [Next]_vars => TypeOK'
  BY StepRefines, ReaderAssumption
<1> QED
  BY <1>1, <1>2, PTL DEF Spec

\* OutputReader implements XofStream: fill, position, set_position and seek, in any order
\* and with any lengths, are a cursor over one stream.
THEOREM StreamAlways == Spec => IsAStream
<1>1. Init => Stream!StreamInit
  BY ReaderAssumption DEF Init, Stream!StreamInit, ReaderAssumption
<1>2. TypeOK /\ [Next]_vars => [Stream!StreamNext]_<<counter * BlockLen + within, got>>
  BY StepRefines, ReaderAssumption DEF Place
<1> QED
  BY <1>1, <1>2, ReaderTypeCorrect, PTL DEF Spec, IsAStream, Stream!StreamSpec

=============================================================================
