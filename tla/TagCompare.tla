----------------------------- MODULE TagCompare -----------------------------
(***************************************************************************)
(* The second gate's comparison of two tags (src/src/lib.rs): the byte     *)
(* loop of the subtle crate in both directions, and ct_eq_independent,     *)
(* which folds a word at a time and then the bytes that are left.  A fault *)
(* shortens one of the two loops.                                          *)
(***************************************************************************)
EXTENDS Integers, FiniteSets

CONSTANTS
  TagLen,      \* TAG_LEN, 65 in the code
  WordLen      \* bytes of a u64

ASSUME CompareAssumption == TagLen \in Nat /\ WordLen \in Nat \ {0}

Positions == 0..TagLen - 1

\* The code a fault can strike once, and a fault's loop length.
Loops == {"subtle", "independent"}
Faults == {[loop |-> "none", at |-> 0]}
            \cup [loop : Loops, at : 0..TagLen - 1]

VARIABLES
  differ,      \* the positions where the tags differ
  fault,       \* the loop that is shortened, and to how many bytes
  pc,
  folded,      \* i of ct_eq_independent
  acc,         \* acc of ct_eq_independent: the differences folded in
  plain,       \* subtle's verdict
  also         \* ct_eq_independent's

compareVars == <<differ, fault, pc, folded, acc, plain, also>>

CompareInit ==
  /\ differ \in SUBSET Positions
  /\ fault \in Faults
  /\ pc = "subtle" /\ folded = 0 /\ acc = {} /\ plain = FALSE /\ also = FALSE

Cut(loop) == IF fault.loop = loop THEN fault.at ELSE TagLen

\* a.ct_eq(b) & b.ct_eq(a): the same loop, so the same fault, twice.
Subtle ==
  /\ pc = "subtle"
  /\ plain' = (differ \cap 0..Cut("subtle") - 1 = {})
  /\ pc' = "words"
  /\ UNCHANGED <<differ, fault, folded, acc, also>>

Fold(n) == acc' = acc \cup (differ \cap folded..folded + n - 1) /\ folded' = folded + n

Words ==
  /\ pc = "words"
  /\ IF folded + WordLen <= Cut("independent") THEN Fold(WordLen) /\ pc' = pc
     ELSE pc' = "tail" /\ UNCHANGED <<folded, acc>>
  /\ UNCHANGED <<differ, fault, plain, also>>

\* Mutant: a length that is a multiple of a word is taken for granted.
NoTail ==
  /\ pc = "tail"
  /\ also' = (acc = {}) /\ pc' = "done"
  /\ UNCHANGED <<differ, fault, folded, acc, plain>>

\* The bytes that are left, and the one comparison of the accumulator.
TailLoop ==
  /\ pc = "tail"
  /\ IF folded < Cut("independent") THEN Fold(1) /\ UNCHANGED <<pc, also>>
     ELSE also' = (acc = {}) /\ pc' = "done" /\ UNCHANGED <<folded, acc>>
  /\ UNCHANGED <<differ, fault, plain>>

CompareNext == Subtle \/ Words \/ TailLoop

CompareSpec == CompareInit /\ [][CompareNext]_compareVars

-----------------------------------------------------------------------------
\* Mutant: the one verdict serves for both.
GateOfOne == plain

\* second_gate_comparison
Gate == plain /\ also

\* A fault that shortens either loop, to any length, opens no gate to a tag that
\* differs in any byte: "what it removes is the single-fault case".
SingleFaultIsCaught == pc = "done" /\ Gate => differ = {}

\* Without a fault the fold alone is equality, the last byte included.
FoldIsEquality ==
  pc = "done" /\ fault.loop = "none" => (also <=> differ = {}) /\ (plain <=> also)
=============================================================================
