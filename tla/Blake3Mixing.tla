---------------------------- MODULE Blake3Mixing ----------------------------
(***************************************************************************)
(* The compression function of BLAKE3, in each of its implementations: the *)
(* reference (reference_impl.rs), portable.rs, the kernels that keep the   *)
(* state in four rows (rust_sse2.rs, rust_sse41.rs, wasm32_simd.rs) and    *)
(* the kernels that work on one block of several inputs at once (those and *)
(* rust_avx2.rs).                                                          *)
(*                                                                         *)
(* A word of the state is its position 0..15, a word of the message its    *)
(* place 0..15 in the block.  A compression is what is mixed with what:    *)
(* for each of the seven rounds the half steps <<a, b, c, d, m, r, s>> of  *)
(* G, the first and the second halves of the columns, then of the          *)
(* diagonals; and the pairs of words that are xored at the end.            *)
(***************************************************************************)
EXTENDS Integers, Sequences

Places == 0..15

Compression(rounds, cv, xof) == [rounds |-> rounds, cv |-> cv, xof |-> xof]

\* The steps of four calls of G that touch disjoint words.
FirstHalves(gs) == {<<g[1], g[2], g[3], g[4], g[5], 16, 12>> : g \in gs}
SecondHalves(gs) == {<<g[1], g[2], g[3], g[4], g[6], 8, 7>> : g \in gs}
Mix(gs) == <<FirstHalves(gs), SecondHalves(gs)>>

\* words 0..7 of the state with 8..15, and for an XOF block 8..15 with the cv
CvPairs == [i \in 1..8 |-> {i - 1, i + 7}]
XofPairs == [i \in 1..8 |-> <<i + 7, i - 1>>]

-----------------------------------------------------------------------------
(* reference_impl.rs *)

Permutation == <<2, 6, 3, 10, 7, 0, 4, 13, 1, 11, 12, 5, 9, 14, 15, 8>>

Permute(m) == [i \in Places |-> m[Permutation[i + 1]]]

ReferenceRound(m) ==
  Mix({<<0, 4, 8, 12, m[0], m[1]>>, <<1, 5, 9, 13, m[2], m[3]>>,
       <<2, 6, 10, 14, m[4], m[5]>>, <<3, 7, 11, 15, m[6], m[7]>>})
    \o Mix({<<0, 5, 10, 15, m[8], m[9]>>, <<1, 6, 11, 12, m[10], m[11]>>,
            <<2, 7, 8, 13, m[12], m[13]>>, <<3, 4, 9, 14, m[14], m[15]>>})

\* compress: a round, and a permutation of the block between two rounds
Reference ==
  LET block[r \in 1..7] == IF r = 1 THEN [i \in Places |-> i] ELSE Permute(block[r - 1])
  IN  Compression([r \in 1..7 |-> ReferenceRound(block[r])], CvPairs, XofPairs)

-----------------------------------------------------------------------------
(* MSG_SCHEDULE and portable.rs *)

Schedule ==
  << <<0, 1, 2, 3, 4, 5, 6, 7, 8, 9, 10, 11, 12, 13, 14, 15>>,
     <<2, 6, 3, 10, 7, 0, 4, 13, 1, 11, 12, 5, 9, 14, 15, 8>>,
     <<3, 4, 10, 12, 13, 2, 7, 14, 6, 5, 9, 0, 11, 15, 8, 1>>,
     <<10, 7, 12, 9, 14, 3, 13, 15, 4, 0, 11, 2, 5, 8, 1, 6>>,
     <<12, 13, 9, 11, 15, 10, 14, 8, 7, 2, 5, 3, 0, 1, 6, 4>>,
     <<9, 14, 11, 5, 8, 12, 15, 1, 13, 3, 0, 10, 2, 6, 4, 7>>,
     <<11, 15, 5, 0, 1, 9, 8, 6, 14, 10, 2, 12, 3, 4, 7, 13>> >>

\* Column i, and the diagonal that starts at i, of the state
Column(i) == <<i, 4 + i, 8 + i, 12 + i>>
Diagonal(i) == <<i, 4 + ((i + 1) % 4), 8 + ((i + 2) % 4), 12 + ((i + 3) % 4)>>

\* round, with the words of row r of the schedule
PortableRound(r) ==
  LET s == Schedule[r]
  IN  Mix({Column(i) \o <<s[2 * i + 1], s[2 * i + 2]>> : i \in 0..3})
        \o Mix({Diagonal(i) \o <<s[2 * i + 9], s[2 * i + 10]>> : i \in 0..3})

Portable == Compression([r \in 1..7 |-> PortableRound(r)], CvPairs, XofPairs)

-----------------------------------------------------------------------------
(* The skeleton of compress_pre in the kernels that keep the state in four rows:
   round 1 takes the words of the message in groups from First, every other round
   from Next of the groups before; the diagonals are rows brought into line by Turn
   and back by Back.  compress_in_place and compress_xof end with xors of rows. *)

Rows == << <<0, 1, 2, 3>>, <<4, 5, 6, 7>>, <<8, 9, 10, 11>>, <<12, 13, 14, 15>> >>

\* The half step of G on four columns at once, with the words of m
HalfSteps(rows, m, a, b) ==
  {<<rows[1][i], rows[2][i], rows[3][i], rows[4][i], m[i], a, b>> : i \in 1..4}

RowCompression(G1(_, _), G2(_, _), Turn(_), Back(_), First(_), Next(_)) ==
  LET words[r \in 1..7] == IF r = 1 THEN First(Rows) ELSE Next(words[r - 1])
      rows[r \in 0..7] == IF r = 0 THEN Rows ELSE Back(Turn(rows[r - 1]))
      round(r) == <<G1(rows[r - 1], words[r][1]), G2(rows[r - 1], words[r][2]),
                    G1(Turn(rows[r - 1]), words[r][3]), G2(Turn(rows[r - 1]), words[r][4])>>
      end == rows[7]
  IN  Compression([r \in 1..7 |-> round(r)],
                  [i \in 1..4 |-> {end[1][i], end[3][i]}]
                    \o [i \in 1..4 |-> {end[2][i], end[4][i]}],
                  [i \in 1..4 |-> <<end[3][i], i - 1>>]
                    \o [i \in 1..4 |-> <<end[4][i], i + 3>>])

-----------------------------------------------------------------------------
(* round of the kernels with one vector for every word: all columns, then all
   diagonals, with the words the schedule names and the rotations of the file *)

LaneRound(r, rot16, rot12, rot8, rot7) ==
  LET half(Place(_), first, a, b) ==
        {Place(i) \o <<Schedule[r][2 * i + first], a, b>> : i \in 0..3}
  IN  <<half(Column, 1, rot16, rot12), half(Column, 2, rot8, rot7),
        half(Diagonal, 9, rot16, rot12), half(Diagonal, 10, rot8, rot7)>>

LaneCompression(rounds) == Compression(rounds, CvPairs, XofPairs)

-----------------------------------------------------------------------------
(* Rotations to the right: two shifts that meet, or a move of the bytes of every
   word, byte i of the result being p[i + 1].  0 is not a rotation. *)

ByShifts(right, left) == IF right + left = 32 THEN right ELSE 0

ByBytes(p) ==
  LET turn == {k \in 0..3 : \A i \in 0..3 : p[i + 1] = (i + k) % 4}
  IN  IF turn = {} THEN 0 ELSE 8 * CHOOSE k \in turn : TRUE
=============================================================================
