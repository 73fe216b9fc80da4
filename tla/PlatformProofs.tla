--------------------------- MODULE PlatformProofs ---------------------------
(***************************************************************************)
(* What Platform promises, for every target, set of features, processor,   *)
(* number of inputs, of blocks and of halves of output, and every counter. *)
(*                                                                         *)
(* Every implementation of the compression function is the reference: the  *)
(* rounds of the row kernels are followed through their shuffles, those of *)
(* the lane kernels through the schedule, and hash4 and hash8 through the  *)
(* transposes, so that a batch is hashed as its inputs one by one.  On top *)
(* of that, MachineInv (what may run) and SlotsInv (what is filled) are    *)
(* inductive.                                                              *)
(***************************************************************************)
EXTENDS Platform, SequenceTheorems, FiniteSetTheorems, WellFoundedInduction, TLAPS

-----------------------------------------------------------------------------
(* The compression function: reference, portable, and a round in lanes or rows *)

\* Four half steps of G, on the columns and on the diagonals of the state
Columns(p, q, r, s, a, b) == {<<0, 4, 8, 12, p, a, b>>, <<1, 5, 9, 13, q, a, b>>,
                              <<2, 6, 10, 14, r, a, b>>, <<3, 7, 11, 15, s, a, b>>}
Diagonals(p, q, r, s, a, b) == {<<0, 5, 10, 15, p, a, b>>, <<1, 6, 11, 12, q, a, b>>,
                                <<2, 7, 8, 13, r, a, b>>, <<3, 4, 9, 14, s, a, b>>}

\* A round, with the words of the message in the order of the schedule
RoundWith(m) ==
  <<Columns(m[0], m[2], m[4], m[6], 16, 12), Columns(m[1], m[3], m[5], m[7], 8, 7),
    Diagonals(m[8], m[10], m[12], m[14], 16, 12), Diagonals(m[9], m[11], m[13], m[15], 8, 7)>>

Scheduled(r) == [i \in Places |-> Schedule[r][i + 1]]

\* f is a sequence of n.
IsList(f, n) == f = [i \in 1..n |-> f[i]]

\* A list of n is a sequence of length n.
LEMMA ListIsSeq ==
  ASSUME NEW n \in Nat, NEW f, IsList(f, n)
  PROVE  f \in Seq({f[i] : i \in 1..n}) /\ Len(f) = n
<1> DEFINE S == {f[i] : i \in 1..n}
           g == [i \in 1..n |-> f[i]]
<1>1. g \in [1..n -> S]
  OBVIOUS
<1> HIDE DEF S
<1>2. g \in Seq(S) /\ Len(g) = n
  <2> HIDE DEF g
  <2>1. g \in Seq(S)
    BY <1>1
  <2> QED  BY <1>1, <2>1
<1> QED
  BY <1>2 DEF IsList, S

\* st is s, of m members, and t behind it, up to k members.
Begins(st, s, m) == \A i \in 1..m : st[i] = s[i]
Ends(st, t, m, k) == \A i \in m + 1..k : st[i] = t[i - m]

\* A concatenation is a list that begins with the one and ends with the other.
LEMMA Concatenated ==
  ASSUME NEW m \in Nat, NEW n \in Nat, NEW s, NEW t, IsList(s, m), IsList(t, n)
  PROVE  /\ IsList(s \o t, m + n)
         /\ Begins(s \o t, s, m)
         /\ Ends(s \o t, t, m, m + n)
<1> DEFINE S == {s[i] : i \in 1..m}
           T == {t[i] : i \in 1..n}
           st == s \o t
<1>1. /\ s \in Seq(S) /\ Len(s) = m
      /\ t \in Seq(T) /\ Len(t) = n
  BY ListIsSeq
<1> HIDE DEF S, T
<1>2. s \in Seq(S \cup T) /\ t \in Seq(S \cup T)
  BY <1>1
<1>3. /\ st \in Seq(S \cup T) /\ Len(st) = Len(s) + Len(t)
      /\ \A i \in 1..Len(s) + Len(t) : st[i] = IF i <= Len(s) THEN s[i] ELSE t[i - Len(s)]
  BY <1>2, ConcatProperties
<1> HIDE DEF st
<1>4. /\ st \in Seq(S \cup T) /\ Len(st) = m + n
      /\ \A i \in 1..m + n : st[i] = IF i <= m THEN s[i] ELSE t[i - m]
  BY <1>1, <1>3
<1>5. st = [i \in 1..m + n |-> st[i]]
  BY <1>4
<1>6. IsList(st, m + n)
  BY <1>5 DEF IsList
<1>7. Begins(st, s, m)
  BY <1>4 DEF Begins
<1>8. Ends(st, t, m, m + n)
  BY <1>4 DEF Ends
<1> QED
  BY <1>6, <1>7, <1>8 DEF st

\* Pairs, joined
LEMMA Join2 ==
  ASSUME NEW a, NEW b, NEW c, NEW d
  PROVE  <<a, b>> \o <<c, d>> = <<a, b, c, d>>
<1> DEFINE s == <<a, b>>
           t == <<c, d>>
           st == s \o t
<1>1. IsList(s, 2) /\ IsList(t, 2)
  BY DEF IsList
<1>2. IsList(st, 4) /\ Begins(st, s, 2) /\ Ends(st, t, 2, 4)
  <2> HIDE DEF s, t
  <2>1. IsList(s \o t, 4) /\ Begins(s \o t, s, 2) /\ Ends(s \o t, t, 2, 4)
    BY <1>1, Concatenated
  <2> QED  BY <2>1
<1> HIDE DEF st
<1>3. st[1] = a /\ st[2] = b /\ st[3] = c /\ st[4] = d
  BY <1>2 DEF Begins, Ends
<1>4. st = <<a, b, c, d>>
  BY <1>2, <1>3 DEF IsList
<1> QED
  BY <1>4 DEF st

\* Four and two, joined
LEMMA Join42 ==
  ASSUME NEW a, NEW b, NEW c, NEW d, NEW e, NEW f
  PROVE  <<a, b, c, d>> \o <<e, f>> = <<a, b, c, d, e, f>>
<1> DEFINE s == <<a, b, c, d>>
           t == <<e, f>>
           st == s \o t
<1>1. IsList(s, 4) /\ IsList(t, 2)
  BY DEF IsList
<1>2. IsList(st, 6) /\ Begins(st, s, 4) /\ Ends(st, t, 4, 6)
  <2> HIDE DEF s, t
  <2>1. IsList(s \o t, 6) /\ Begins(s \o t, s, 4) /\ Ends(s \o t, t, 4, 6)
    BY <1>1, Concatenated
  <2> QED  BY <2>1
<1> HIDE DEF st
<1>3. st[1] = a /\ st[2] = b /\ st[3] = c /\ st[4] = d /\ st[5] = e /\ st[6] = f
  BY <1>2 DEF Begins, Ends
<1>4. st = <<a, b, c, d, e, f>>
  BY <1>2, <1>3 DEF IsList
<1> QED
  BY <1>4 DEF st

\* Four and four, joined
LEMMA Join4 ==
  ASSUME NEW a, NEW b, NEW c, NEW d, NEW e, NEW f, NEW g, NEW h
  PROVE  <<a, b, c, d>> \o <<e, f, g, h>> = <<a, b, c, d, e, f, g, h>>
<1> DEFINE s == <<a, b, c, d>>
           t == <<e, f, g, h>>
           st == s \o t
<1>1. IsList(s, 4) /\ IsList(t, 4)
  BY DEF IsList
<1>2. IsList(st, 8) /\ Begins(st, s, 4) /\ Ends(st, t, 4, 8)
  <2> HIDE DEF s, t
  <2>1. IsList(s \o t, 8) /\ Begins(s \o t, s, 4) /\ Ends(s \o t, t, 4, 8)
    BY <1>1, Concatenated
  <2> QED  BY <2>1
<1> HIDE DEF st
<1>3. st[1] = a /\ st[2] = b /\ st[3] = c /\ st[4] = d /\ st[5] = e /\ st[6] = f /\ st[7] = g /\ st[8] = h
  BY <1>2 DEF Begins, Ends
<1>4. st = <<a, b, c, d, e, f, g, h>>
  BY <1>2, <1>3 DEF IsList
<1> QED
  BY <1>4 DEF st

\* A round of the reference, as the half steps of the columns and of the diagonals
LEMMA ReferenceRounds ==
  ASSUME NEW m
  PROVE  ReferenceRound(m) = RoundWith(m)
<1>1. ASSUME NEW a, NEW b, NEW c, NEW d
      PROVE  Mix({a, b, c, d}) =
               << {<<a[1], a[2], a[3], a[4], a[5], 16, 12>>, <<b[1], b[2], b[3], b[4], b[5], 16, 12>>,
                   <<c[1], c[2], c[3], c[4], c[5], 16, 12>>, <<d[1], d[2], d[3], d[4], d[5], 16, 12>>},
                  {<<a[1], a[2], a[3], a[4], a[6], 8, 7>>, <<b[1], b[2], b[3], b[4], b[6], 8, 7>>,
                   <<c[1], c[2], c[3], c[4], c[6], 8, 7>>, <<d[1], d[2], d[3], d[4], d[6], 8, 7>>} >>
  <2> DEFINE F(x) == <<x[1], x[2], x[3], x[4], x[5], 16, 12>>
             H(x) == <<x[1], x[2], x[3], x[4], x[6], 8, 7>>
  <2>1. {F(x) : x \in {a, b, c, d}} = {F(a), F(b), F(c), F(d)}
    <3> HIDE DEF F
    <3> QED  OBVIOUS
  <2>2. {H(x) : x \in {a, b, c, d}} = {H(a), H(b), H(c), H(d)}
    <3> HIDE DEF H
    <3> QED  OBVIOUS
  <2> QED
    BY <2>1, <2>2, Zenon DEF Mix, FirstHalves, SecondHalves
<1>2. Mix({<<0, 4, 8, 12, m[0], m[1]>>, <<1, 5, 9, 13, m[2], m[3]>>,
           <<2, 6, 10, 14, m[4], m[5]>>, <<3, 7, 11, 15, m[6], m[7]>>})
        = <<Columns(m[0], m[2], m[4], m[6], 16, 12), Columns(m[1], m[3], m[5], m[7], 8, 7)>>
  <2> DEFINE a == <<0, 4, 8, 12, m[0], m[1]>>
             b == <<1, 5, 9, 13, m[2], m[3]>>
             c == <<2, 6, 10, 14, m[4], m[5]>>
             d == <<3, 7, 11, 15, m[6], m[7]>>
  <2>1. /\ a[1] = 0 /\ a[2] = 4 /\ a[3] = 8 /\ a[4] = 12 /\ a[5] = m[0] /\ a[6] = m[1]
        /\ b[1] = 1 /\ b[2] = 5 /\ b[3] = 9 /\ b[4] = 13 /\ b[5] = m[2] /\ b[6] = m[3]
        /\ c[1] = 2 /\ c[2] = 6 /\ c[3] = 10 /\ c[4] = 14 /\ c[5] = m[4] /\ c[6] = m[5]
        /\ d[1] = 3 /\ d[2] = 7 /\ d[3] = 11 /\ d[4] = 15 /\ d[5] = m[6] /\ d[6] = m[7]
    OBVIOUS
  <2> HIDE DEF a, b, c, d
  <2>2. Mix({a, b, c, d}) =
          << {<<a[1], a[2], a[3], a[4], a[5], 16, 12>>, <<b[1], b[2], b[3], b[4], b[5], 16, 12>>,
              <<c[1], c[2], c[3], c[4], c[5], 16, 12>>, <<d[1], d[2], d[3], d[4], d[5], 16, 12>>},
             {<<a[1], a[2], a[3], a[4], a[6], 8, 7>>, <<b[1], b[2], b[3], b[4], b[6], 8, 7>>,
              <<c[1], c[2], c[3], c[4], c[6], 8, 7>>, <<d[1], d[2], d[3], d[4], d[6], 8, 7>>} >>
    BY <1>1
  <2>3. Mix({a, b, c, d}) = <<Columns(a[5], b[5], c[5], d[5], 16, 12), Columns(a[6], b[6], c[6], d[6], 8, 7)>>
    BY <2>1, <2>2, Zenon DEF Columns
  <2>4. Mix({a, b, c, d}) =
          <<Columns(m[0], m[2], m[4], m[6], 16, 12), Columns(m[1], m[3], m[5], m[7], 8, 7)>>
    BY <2>1, <2>3, Zenon
  <2> QED  BY <2>4 DEF a, b, c, d
<1>3. Mix({<<0, 5, 10, 15, m[8], m[9]>>, <<1, 6, 11, 12, m[10], m[11]>>,
           <<2, 7, 8, 13, m[12], m[13]>>, <<3, 4, 9, 14, m[14], m[15]>>})
        = <<Diagonals(m[8], m[10], m[12], m[14], 16, 12), Diagonals(m[9], m[11], m[13], m[15], 8, 7)>>
  <2> DEFINE a == <<0, 5, 10, 15, m[8], m[9]>>
             b == <<1, 6, 11, 12, m[10], m[11]>>
             c == <<2, 7, 8, 13, m[12], m[13]>>
             d == <<3, 4, 9, 14, m[14], m[15]>>
  <2>1. /\ a[1] = 0 /\ a[2] = 5 /\ a[3] = 10 /\ a[4] = 15 /\ a[5] = m[8] /\ a[6] = m[9]
        /\ b[1] = 1 /\ b[2] = 6 /\ b[3] = 11 /\ b[4] = 12 /\ b[5] = m[10] /\ b[6] = m[11]
        /\ c[1] = 2 /\ c[2] = 7 /\ c[3] = 8 /\ c[4] = 13 /\ c[5] = m[12] /\ c[6] = m[13]
        /\ d[1] = 3 /\ d[2] = 4 /\ d[3] = 9 /\ d[4] = 14 /\ d[5] = m[14] /\ d[6] = m[15]
    OBVIOUS
  <2> HIDE DEF a, b, c, d
  <2>2. Mix({a, b, c, d}) =
          << {<<a[1], a[2], a[3], a[4], a[5], 16, 12>>, <<b[1], b[2], b[3], b[4], b[5], 16, 12>>,
              <<c[1], c[2], c[3], c[4], c[5], 16, 12>>, <<d[1], d[2], d[3], d[4], d[5], 16, 12>>},
             {<<a[1], a[2], a[3], a[4], a[6], 8, 7>>, <<b[1], b[2], b[3], b[4], b[6], 8, 7>>,
              <<c[1], c[2], c[3], c[4], c[6], 8, 7>>, <<d[1], d[2], d[3], d[4], d[6], 8, 7>>} >>
    BY <1>1
  <2>3. Mix({a, b, c, d}) = <<Diagonals(a[5], b[5], c[5], d[5], 16, 12), Diagonals(a[6], b[6], c[6], d[6], 8, 7)>>
    BY <2>1, <2>2, Zenon DEF Diagonals
  <2>4. Mix({a, b, c, d}) =
          <<Diagonals(m[8], m[10], m[12], m[14], 16, 12),
            Diagonals(m[9], m[11], m[13], m[15], 8, 7)>>
    BY <2>1, <2>3, Zenon
  <2> QED  BY <2>4 DEF a, b, c, d
<1> QED BY <1>2, <1>3, Join2 DEF RoundWith, ReferenceRound

\* The schedule has the words of a round, permuted, in the next.
LEMMA Permuted ==
  ASSUME NEW r \in 2..7
  PROVE  Permute(Scheduled(r - 1)) = Scheduled(r)
<1>1. ASSUME NEW i \in Places
      PROVE  Scheduled(r - 1)[Permutation[i + 1]] = Scheduled(r)[i]
  <2>1. Permutation[i + 1] \in Places /\ i + 1 \in 1..16
    BY DEF Places, Permutation
  <2>2. Schedule[r - 1][Permutation[i + 1] + 1] = Schedule[r][i + 1]
    <3>1. CASE r = 2
      BY <3>1, <2>1 DEF Permutation, Schedule, Places
    <3>2. CASE r = 3
      BY <3>2, <2>1 DEF Permutation, Schedule, Places
    <3>3. CASE r = 4
      BY <3>3, <2>1 DEF Permutation, Schedule, Places
    <3>4. CASE r = 5
      BY <3>4, <2>1 DEF Permutation, Schedule, Places
    <3>5. CASE r = 6
      BY <3>5, <2>1 DEF Permutation, Schedule, Places
    <3>6. CASE r = 7
      BY <3>6, <2>1 DEF Permutation, Schedule, Places
    <3> QED BY <3>1, <3>2, <3>3, <3>4, <3>5, <3>6
  <2> QED BY <2>1, <2>2 DEF Scheduled
<1> QED BY <1>1 DEF Permute, Scheduled

\* compress of reference_impl.rs makes its rounds with the words of the schedule.
LEMMA ReferenceIs == 
  Reference = Compression([r \in 1..7 |-> RoundWith(Scheduled(r))], CvPairs, XofPairs)
<1> DEFINE next(b, r) == IF r = 1 THEN [i \in Places |-> i] ELSE Permute(b[r - 1])
           block[r \in 1..7] == next(block, r)
           x == [r \in 1..7 |-> Scheduled(r)]
<1>1. Scheduled(1) = [i \in Places |-> i]
  BY DEF Scheduled, Schedule, Places
<1>2. x = [r \in 1..7 |-> next(x, r)]
  <2>1. \A r \in 1..7 : r # 1 => r \in 2..7 /\ r - 1 \in 1..7
    OBVIOUS
  <2> QED BY <1>1, <2>1, Permuted
<1>3. block = [r \in 1..7 |-> next(block, r)]
  <2> HIDE DEF x, next
  <2> QED BY <1>2
<1> HIDE DEF block
<1>4. block[1] = Scheduled(1) /\ \A r \in 2..7 : block[r] = Permute(block[r - 1])
  BY <1>1, <1>3
<1>5. \A r \in 1..7 : block[r] = Scheduled(r)
  <2>1. block[2] = Scheduled(2)
    BY <1>4, Permuted
  <2>2. block[3] = Scheduled(3)
    BY <1>4, <2>1, Permuted
  <2>3. block[4] = Scheduled(4)
    BY <1>4, <2>2, Permuted
  <2>4. block[5] = Scheduled(5)
    BY <1>4, <2>3, Permuted
  <2>5. block[6] = Scheduled(6)
    BY <1>4, <2>4, Permuted
  <2>6. block[7] = Scheduled(7)
    BY <1>4, <2>5, Permuted
  <2> QED BY <1>4, <2>1, <2>2, <2>3, <2>4, <2>5, <2>6
<1>6. Reference = Compression([r \in 1..7 |-> ReferenceRound(block[r])], CvPairs, XofPairs)
  BY DEF Reference, block
<1> QED
  BY <1>5, <1>6, ReferenceRounds

\* portable.rs compresses as the reference does.
LEMMA PortableIs == Portable = Reference
<1>1. ASSUME NEW r \in 1..7 PROVE PortableRound(r) = RoundWith(Scheduled(r))
  <2> DEFINE m == Scheduled(r)
             s == Schedule[r]
  <2>1. \A i \in 0..15 : s[i + 1] = m[i]
    BY DEF Scheduled, Places
  <2>2. {Column(i) \o <<s[2 * i + 1], s[2 * i + 2]>> : i \in 0..3} =
          {<<0, 4, 8, 12, m[0], m[1]>>, <<1, 5, 9, 13, m[2], m[3]>>,
           <<2, 6, 10, 14, m[4], m[5]>>, <<3, 7, 11, 15, m[6], m[7]>>}
    <3> HIDE DEF s, m
    <3>1. /\ Column(0) \o <<s[1], s[2]>> = <<0, 4, 8, 12, m[0], m[1]>>
          /\ Column(1) \o <<s[3], s[4]>> = <<1, 5, 9, 13, m[2], m[3]>>
          /\ Column(2) \o <<s[5], s[6]>> = <<2, 6, 10, 14, m[4], m[5]>>
          /\ Column(3) \o <<s[7], s[8]>> = <<3, 7, 11, 15, m[6], m[7]>>
      <4>1. /\ Column(0) = <<0, 4, 8, 12>>
            /\ Column(1) = <<1, 5, 9, 13>>
            /\ Column(2) = <<2, 6, 10, 14>>
            /\ Column(3) = <<3, 7, 11, 15>>
        BY DEF Column
      <4>2. /\ <<0, 4, 8, 12>> \o <<s[1], s[2]>> = <<0, 4, 8, 12, s[1], s[2]>>
            /\ <<1, 5, 9, 13>> \o <<s[3], s[4]>> = <<1, 5, 9, 13, s[3], s[4]>>
            /\ <<2, 6, 10, 14>> \o <<s[5], s[6]>> = <<2, 6, 10, 14, s[5], s[6]>>
            /\ <<3, 7, 11, 15>> \o <<s[7], s[8]>> = <<3, 7, 11, 15, s[7], s[8]>>
        BY Join42
      <4>3. s[1] = m[0] /\ s[2] = m[1] /\ s[3] = m[2] /\ s[4] = m[3] /\ s[5] = m[4] /\ s[6] = m[5] /\ s[7] = m[6] /\ s[8] = m[7]
        <5>1. \A i \in 0..15 : i + 1 \in 1..16
          OBVIOUS
        <5> QED  BY <2>1
      <4>4. /\ <<0, 4, 8, 12, s[1], s[2]>> = <<0, 4, 8, 12, m[0], m[1]>>
            /\ <<1, 5, 9, 13, s[3], s[4]>> = <<1, 5, 9, 13, m[2], m[3]>>
            /\ <<2, 6, 10, 14, s[5], s[6]>> = <<2, 6, 10, 14, m[4], m[5]>>
            /\ <<3, 7, 11, 15, s[7], s[8]>> = <<3, 7, 11, 15, m[6], m[7]>>
        BY <4>3
      <4> QED  BY <4>1, <4>2, <4>4, Zenon
    <3> DEFINE F(i) == Column(i) \o <<s[2 * i + 1], s[2 * i + 2]>>
    <3>2. /\ F(0) = Column(0) \o <<s[1], s[2]>> /\ F(1) = Column(1) \o <<s[3], s[4]>>
          /\ F(2) = Column(2) \o <<s[5], s[6]>> /\ F(3) = Column(3) \o <<s[7], s[8]>>
      <4>1. 2 * 0 = 0 /\ 2 * 1 = 2 /\ 2 * 2 = 4 /\ 2 * 3 = 6
        OBVIOUS
      <4> QED  BY <4>1
    <3>3. {F(i) : i \in 0..3} = {F(0), F(1), F(2), F(3)}
      <4> HIDE DEF F
      <4> QED  OBVIOUS
    <3>4. {F(i) : i \in 0..3} = {<<0, 4, 8, 12, m[0], m[1]>>, <<1, 5, 9, 13, m[2], m[3]>>, <<2, 6, 10, 14, m[4], m[5]>>, <<3, 7, 11, 15, m[6], m[7]>>}
      <4> HIDE DEF F
      <4> QED  BY <3>1, <3>2, <3>3, Zenon
    <3> QED  BY <3>4
  <2>3. {Diagonal(i) \o <<s[2 * i + 9], s[2 * i + 10]>> : i \in 0..3} =
          {<<0, 5, 10, 15, m[8], m[9]>>, <<1, 6, 11, 12, m[10], m[11]>>,
           <<2, 7, 8, 13, m[12], m[13]>>, <<3, 4, 9, 14, m[14], m[15]>>}
    <3> HIDE DEF s, m
    <3>1. /\ Diagonal(0) \o <<s[9], s[10]>> = <<0, 5, 10, 15, m[8], m[9]>>
          /\ Diagonal(1) \o <<s[11], s[12]>> = <<1, 6, 11, 12, m[10], m[11]>>
          /\ Diagonal(2) \o <<s[13], s[14]>> = <<2, 7, 8, 13, m[12], m[13]>>
          /\ Diagonal(3) \o <<s[15], s[16]>> = <<3, 4, 9, 14, m[14], m[15]>>
      <4>1. /\ Diagonal(0) = <<0, 5, 10, 15>>
            /\ Diagonal(1) = <<1, 6, 11, 12>>
            /\ Diagonal(2) = <<2, 7, 8, 13>>
            /\ Diagonal(3) = <<3, 4, 9, 14>>
        BY DEF Diagonal
      <4>2. /\ <<0, 5, 10, 15>> \o <<s[9], s[10]>> = <<0, 5, 10, 15, s[9], s[10]>>
            /\ <<1, 6, 11, 12>> \o <<s[11], s[12]>> = <<1, 6, 11, 12, s[11], s[12]>>
            /\ <<2, 7, 8, 13>> \o <<s[13], s[14]>> = <<2, 7, 8, 13, s[13], s[14]>>
            /\ <<3, 4, 9, 14>> \o <<s[15], s[16]>> = <<3, 4, 9, 14, s[15], s[16]>>
        BY Join42
      <4>3. s[9] = m[8] /\ s[10] = m[9] /\ s[11] = m[10] /\ s[12] = m[11] /\ s[13] = m[12] /\ s[14] = m[13] /\ s[15] = m[14] /\ s[16] = m[15]
        <5>1. \A i \in 0..15 : i + 1 \in 1..16
          OBVIOUS
        <5> QED  BY <2>1
      <4>4. /\ <<0, 5, 10, 15, s[9], s[10]>> = <<0, 5, 10, 15, m[8], m[9]>>
            /\ <<1, 6, 11, 12, s[11], s[12]>> = <<1, 6, 11, 12, m[10], m[11]>>
            /\ <<2, 7, 8, 13, s[13], s[14]>> = <<2, 7, 8, 13, m[12], m[13]>>
            /\ <<3, 4, 9, 14, s[15], s[16]>> = <<3, 4, 9, 14, m[14], m[15]>>
        BY <4>3
      <4> QED  BY <4>1, <4>2, <4>4, Zenon
    <3> DEFINE F(i) == Diagonal(i) \o <<s[2 * i + 9], s[2 * i + 10]>>
    <3>2. /\ F(0) = Diagonal(0) \o <<s[9], s[10]>> /\ F(1) = Diagonal(1) \o <<s[11], s[12]>>
          /\ F(2) = Diagonal(2) \o <<s[13], s[14]>> /\ F(3) = Diagonal(3) \o <<s[15], s[16]>>
      <4>1. 2 * 0 = 0 /\ 2 * 1 = 2 /\ 2 * 2 = 4 /\ 2 * 3 = 6
        OBVIOUS
      <4> QED  BY <4>1
    <3>3. {F(i) : i \in 0..3} = {F(0), F(1), F(2), F(3)}
      <4> HIDE DEF F
      <4> QED  OBVIOUS
    <3>4. {F(i) : i \in 0..3} = {<<0, 5, 10, 15, m[8], m[9]>>, <<1, 6, 11, 12, m[10], m[11]>>, <<2, 7, 8, 13, m[12], m[13]>>, <<3, 4, 9, 14, m[14], m[15]>>}
      <4> HIDE DEF F
      <4> QED  BY <3>1, <3>2, <3>3, Zenon
    <3> QED  BY <3>4
  <2>4. PortableRound(r) = ReferenceRound(m)
    BY <2>2, <2>3 DEF PortableRound, ReferenceRound
  <2> QED  BY <2>4, ReferenceRounds
<1> QED BY <1>1, ReferenceIs DEF Portable

\* Four and three, joined
LEMMA Join43 ==
  ASSUME NEW a, NEW b, NEW c, NEW d, NEW e, NEW f, NEW g
  PROVE  <<a, b, c, d>> \o <<e, f, g>> = <<a, b, c, d, e, f, g>>
<1> DEFINE s == <<a, b, c, d>>
           t == <<e, f, g>>
           st == s \o t
<1>1. IsList(s, 4) /\ IsList(t, 3)
  BY DEF IsList
<1>2. IsList(st, 7) /\ Begins(st, s, 4) /\ Ends(st, t, 4, 7)
  <2> HIDE DEF s, t
  <2>1. IsList(s \o t, 7) /\ Begins(s \o t, s, 4) /\ Ends(s \o t, t, 4, 7)
    BY <1>1, Concatenated
  <2> QED  BY <2>1
<1> HIDE DEF st
<1>3. st[1] = a /\ st[2] = b /\ st[3] = c /\ st[4] = d /\ st[5] = e /\ st[6] = f /\ st[7] = g
  BY <1>2 DEF Begins, Ends
<1>4. st = <<a, b, c, d, e, f, g>>
  BY <1>2, <1>3 DEF IsList
<1> QED
  BY <1>4 DEF st

\* The half steps on columns, with the words of the schedule
LEMMA ColumnSteps ==
  ASSUME NEW f \in 1..10, NEW s, NEW a, NEW b
  PROVE  {Column(i) \o <<s[2 * i + f], a, b>> : i \in 0..3} =
           Columns(s[f], s[f + 2], s[f + 4], s[f + 6], a, b)
<1> DEFINE F(i) == Column(i) \o <<s[2 * i + f], a, b>>
<1>1. Column(0) = <<0, 4, 8, 12>> /\ Column(1) = <<1, 5, 9, 13>> /\ Column(2) = <<2, 6, 10, 14>> /\ Column(3) = <<3, 7, 11, 15>>
  BY DEF Column
<1>2. 2 * 0 + f = f /\ 2 * 1 + f = f + 2 /\ 2 * 2 + f = f + 4 /\ 2 * 3 + f = f + 6
  OBVIOUS
<1>3. /\ F(0) = <<0, 4, 8, 12, s[f], a, b>>
      /\ F(1) = <<1, 5, 9, 13, s[f + 2], a, b>>
      /\ F(2) = <<2, 6, 10, 14, s[f + 4], a, b>>
      /\ F(3) = <<3, 7, 11, 15, s[f + 6], a, b>>
  <2>1. /\ F(0) = <<0, 4, 8, 12>> \o <<s[f], a, b>> /\ F(1) = <<1, 5, 9, 13>> \o <<s[f + 2], a, b>>
        /\ F(2) = <<2, 6, 10, 14>> \o <<s[f + 4], a, b>> /\ F(3) = <<3, 7, 11, 15>> \o <<s[f + 6], a, b>>
    BY <1>1, <1>2
  <2>2. /\ <<0, 4, 8, 12>> \o <<s[f], a, b>> = <<0, 4, 8, 12, s[f], a, b>>
        /\ <<1, 5, 9, 13>> \o <<s[f + 2], a, b>> = <<1, 5, 9, 13, s[f + 2], a, b>>
        /\ <<2, 6, 10, 14>> \o <<s[f + 4], a, b>> = <<2, 6, 10, 14, s[f + 4], a, b>>
        /\ <<3, 7, 11, 15>> \o <<s[f + 6], a, b>> = <<3, 7, 11, 15, s[f + 6], a, b>>
    BY Join43
  <2> HIDE DEF F
  <2> QED  BY <2>1, <2>2, Zenon
<1>4. {F(i) : i \in 0..3} = {F(0), F(1), F(2), F(3)}
  <2> HIDE DEF F
  <2> QED  OBVIOUS
<1>5. {F(i) : i \in 0..3} = Columns(s[f], s[f + 2], s[f + 4], s[f + 6], a, b)
  <2> HIDE DEF F
  <2> QED  BY <1>3, <1>4, Zenon DEF Columns
<1> QED
  BY <1>5

\* The half steps on diagonals, with the words of the schedule
LEMMA DiagonalSteps ==
  ASSUME NEW f \in 1..10, NEW s, NEW a, NEW b
  PROVE  {Diagonal(i) \o <<s[2 * i + f], a, b>> : i \in 0..3} =
           Diagonals(s[f], s[f + 2], s[f + 4], s[f + 6], a, b)
<1> DEFINE F(i) == Diagonal(i) \o <<s[2 * i + f], a, b>>
<1>1. Diagonal(0) = <<0, 5, 10, 15>> /\ Diagonal(1) = <<1, 6, 11, 12>> /\ Diagonal(2) = <<2, 7, 8, 13>> /\ Diagonal(3) = <<3, 4, 9, 14>>
  BY DEF Diagonal
<1>2. 2 * 0 + f = f /\ 2 * 1 + f = f + 2 /\ 2 * 2 + f = f + 4 /\ 2 * 3 + f = f + 6
  OBVIOUS
<1>3. /\ F(0) = <<0, 5, 10, 15, s[f], a, b>>
      /\ F(1) = <<1, 6, 11, 12, s[f + 2], a, b>>
      /\ F(2) = <<2, 7, 8, 13, s[f + 4], a, b>>
      /\ F(3) = <<3, 4, 9, 14, s[f + 6], a, b>>
  <2>1. /\ F(0) = <<0, 5, 10, 15>> \o <<s[f], a, b>> /\ F(1) = <<1, 6, 11, 12>> \o <<s[f + 2], a, b>>
        /\ F(2) = <<2, 7, 8, 13>> \o <<s[f + 4], a, b>> /\ F(3) = <<3, 4, 9, 14>> \o <<s[f + 6], a, b>>
    BY <1>1, <1>2
  <2>2. /\ <<0, 5, 10, 15>> \o <<s[f], a, b>> = <<0, 5, 10, 15, s[f], a, b>>
        /\ <<1, 6, 11, 12>> \o <<s[f + 2], a, b>> = <<1, 6, 11, 12, s[f + 2], a, b>>
        /\ <<2, 7, 8, 13>> \o <<s[f + 4], a, b>> = <<2, 7, 8, 13, s[f + 4], a, b>>
        /\ <<3, 4, 9, 14>> \o <<s[f + 6], a, b>> = <<3, 4, 9, 14, s[f + 6], a, b>>
    BY Join43
  <2> HIDE DEF F
  <2> QED  BY <2>1, <2>2, Zenon
<1>4. {F(i) : i \in 0..3} = {F(0), F(1), F(2), F(3)}
  <2> HIDE DEF F
  <2> QED  OBVIOUS
<1>5. {F(i) : i \in 0..3} = Diagonals(s[f], s[f + 2], s[f + 4], s[f + 6], a, b)
  <2> HIDE DEF F
  <2> QED  BY <1>3, <1>4, Zenon DEF Diagonals
<1> QED
  BY <1>5

\* A round of the kernels with a vector for every word is a round of the reference.
LEMMA LaneRounds ==
  ASSUME NEW r \in 1..7
  PROVE  LaneRound(r, 16, 12, 8, 7) = RoundWith(Scheduled(r))
<1> DEFINE s == Schedule[r]
           m == Scheduled(r)
<1>1. \A i \in 1..16 : s[i] = m[i - 1]
  BY DEF Scheduled, Places
<1>2. LaneRound(r, 16, 12, 8, 7) =
        <<Columns(s[1], s[1 + 2], s[1 + 4], s[1 + 6], 16, 12),
          Columns(s[2], s[2 + 2], s[2 + 4], s[2 + 6], 8, 7),
          Diagonals(s[9], s[9 + 2], s[9 + 4], s[9 + 6], 16, 12),
          Diagonals(s[10], s[10 + 2], s[10 + 4], s[10 + 6], 8, 7)>>
  <2> DEFINE C(f, a, b) == {Column(i) \o <<s[2 * i + f], a, b>> : i \in 0..3}
             D(f, a, b) == {Diagonal(i) \o <<s[2 * i + f], a, b>> : i \in 0..3}
  <2>1. LaneRound(r, 16, 12, 8, 7) = <<C(1, 16, 12), C(2, 8, 7), D(9, 16, 12), D(10, 8, 7)>>
    BY Zenon DEF LaneRound
  <2>2. \A f \in 1..10 : \A a, b :
          /\ C(f, a, b) = Columns(s[f], s[f + 2], s[f + 4], s[f + 6], a, b)
          /\ D(f, a, b) = Diagonals(s[f], s[f + 2], s[f + 4], s[f + 6], a, b)
    BY ColumnSteps, DiagonalSteps
  <2> HIDE DEF s, C, D
  <2>3. 1 \in 1..10 /\ 2 \in 1..10 /\ 9 \in 1..10 /\ 10 \in 1..10
    OBVIOUS
  <2> QED  BY <2>1, <2>2, <2>3, Zenon
<1> HIDE DEF s, m
<1>3. /\ s[1] = m[0] /\ s[1 + 2] = m[2] /\ s[1 + 4] = m[4] /\ s[1 + 6] = m[6]
      /\ s[2] = m[1] /\ s[2 + 2] = m[3] /\ s[2 + 4] = m[5] /\ s[2 + 6] = m[7]
      /\ s[9] = m[8] /\ s[9 + 2] = m[10] /\ s[9 + 4] = m[12] /\ s[9 + 6] = m[14]
      /\ s[10] = m[9] /\ s[10 + 2] = m[11] /\ s[10 + 4] = m[13] /\ s[10 + 6] = m[15]
  BY <1>1
<1>4. LaneRound(r, 16, 12, 8, 7) = RoundWith(m)
  BY <1>2, <1>3, Zenon DEF RoundWith
<1> QED
  BY <1>4 DEF m

\* Four groups of words, as round 1 shuffles the rows of the block
Grouped(m) == << <<m[0], m[2], m[4], m[6]>>, <<m[1], m[3], m[5], m[7]>>,
                 <<m[14], m[8], m[10], m[12]>>, <<m[15], m[9], m[11], m[13]>> >>

Turned == << <<3, 0, 1, 2>>, <<4, 5, 6, 7>>, <<9, 10, 11, 8>>, <<14, 15, 12, 13>> >>

\* The half steps on rows are those on columns, and on turned rows those on diagonals.
LEMMA RowSteps ==
  ASSUME NEW w, NEW a, NEW b
  PROVE  /\ HalfSteps(Rows, w, a, b) = Columns(w[1], w[2], w[3], w[4], a, b)
         /\ HalfSteps(Turned, w, a, b) = Diagonals(w[2], w[3], w[4], w[1], a, b)
<1> DEFINE F(i) == <<Rows[1][i], Rows[2][i], Rows[3][i], Rows[4][i], w[i], a, b>>
           G(i) == <<Turned[1][i], Turned[2][i], Turned[3][i], Turned[4][i], w[i], a, b>>
<1>1. /\ F(1) = <<0, 4, 8, 12, w[1], a, b>> /\ F(2) = <<1, 5, 9, 13, w[2], a, b>>
      /\ F(3) = <<2, 6, 10, 14, w[3], a, b>> /\ F(4) = <<3, 7, 11, 15, w[4], a, b>>
  BY DEF Rows
<1>2. /\ G(1) = <<3, 4, 9, 14, w[1], a, b>> /\ G(2) = <<0, 5, 10, 15, w[2], a, b>>
      /\ G(3) = <<1, 6, 11, 12, w[3], a, b>> /\ G(4) = <<2, 7, 8, 13, w[4], a, b>>
  BY DEF Turned
<1>3. HalfSteps(Rows, w, a, b) = {F(i) : i \in 1..4} /\ HalfSteps(Turned, w, a, b) = {G(i) : i \in 1..4}
  BY Zenon DEF HalfSteps
<1> HIDE DEF F, G
<1>4. {F(i) : i \in 1..4} = {F(1), F(2), F(3), F(4)} /\ {G(i) : i \in 1..4} = {G(2), G(3), G(4), G(1)}
  OBVIOUS
<1>5. HalfSteps(Rows, w, a, b) = Columns(w[1], w[2], w[3], w[4], a, b)
  BY <1>1, <1>3, <1>4, Zenon DEF Columns
<1>6. HalfSteps(Turned, w, a, b) = Diagonals(w[2], w[3], w[4], w[1], a, b)
  BY <1>2, <1>3, <1>4, Zenon DEF Diagonals
<1> QED
  BY <1>5, <1>6

\* What a kernel with four rows computes when its shuffles are right
LEMMA RowRounds ==
  ASSUME NEW r \in 1..7, NEW w, w = Grouped(Scheduled(r))
  PROVE  <<HalfSteps(Rows, w[1], 16, 12), HalfSteps(Rows, w[2], 8, 7),
           HalfSteps(Turned, w[3], 16, 12), HalfSteps(Turned, w[4], 8, 7)>> = RoundWith(Scheduled(r))
<1> DEFINE m == Scheduled(r)
<1> HIDE DEF m
<1>1. /\ w[1][1] = m[0] /\ w[1][2] = m[2] /\ w[1][3] = m[4] /\ w[1][4] = m[6]
      /\ w[2][1] = m[1] /\ w[2][2] = m[3] /\ w[2][3] = m[5] /\ w[2][4] = m[7]
      /\ w[3][1] = m[14] /\ w[3][2] = m[8] /\ w[3][3] = m[10] /\ w[3][4] = m[12]
      /\ w[4][1] = m[15] /\ w[4][2] = m[9] /\ w[4][3] = m[11] /\ w[4][4] = m[13]
  <2>1. w = Grouped(m)
    BY DEF m
  <2> QED  BY <2>1 DEF Grouped
<1>2. <<HalfSteps(Rows, w[1], 16, 12), HalfSteps(Rows, w[2], 8, 7),
        HalfSteps(Turned, w[3], 16, 12), HalfSteps(Turned, w[4], 8, 7)>> =
      <<Columns(w[1][1], w[1][2], w[1][3], w[1][4], 16, 12),
        Columns(w[2][1], w[2][2], w[2][3], w[2][4], 8, 7),
        Diagonals(w[3][2], w[3][3], w[3][4], w[3][1], 16, 12),
        Diagonals(w[4][2], w[4][3], w[4][4], w[4][1], 8, 7)>>
  BY RowSteps, Zenon
<1>3. RoundWith(m) = <<Columns(m[0], m[2], m[4], m[6], 16, 12), Columns(m[1], m[3], m[5], m[7], 8, 7),
    Diagonals(m[8], m[10], m[12], m[14], 16, 12), Diagonals(m[9], m[11], m[13], m[15], 8, 7)>>
  BY Zenon DEF RoundWith
<1> QED
  BY <1>1, <1>2, <1>3, Zenon DEF m

\* Rows that are back in place are xored as the words of the reference are.
LEMMA RowEnds ==
  /\ [i \in 1..4 |-> {Rows[1][i], Rows[3][i]}] \o [i \in 1..4 |-> {Rows[2][i], Rows[4][i]}] = CvPairs
  /\ [i \in 1..4 |-> <<Rows[3][i], i - 1>>] \o [i \in 1..4 |-> <<Rows[4][i], i + 3>>] = XofPairs
<1> DEFINE s == [i \in 1..4 |-> {Rows[1][i], Rows[3][i]}]
           t == [i \in 1..4 |-> {Rows[2][i], Rows[4][i]}]
           u == [i \in 1..4 |-> <<Rows[3][i], i - 1>>]
           v == [i \in 1..4 |-> <<Rows[4][i], i + 3>>]
<1>1. \A i \in 1..4 : s[i] = CvPairs[i] /\ t[i] = CvPairs[i + 4] /\ u[i] = XofPairs[i] /\ v[i] = XofPairs[i + 4]
  <2>1. \A i \in 1..4 : i + 4 \in 1..8 /\ i \in 1..8 /\ (i = 1 \/ i = 2 \/ i = 3 \/ i = 4)
    OBVIOUS
  <2>2. \A i \in 1..4 : /\ Rows[1][i] = i - 1 /\ Rows[2][i] = i + 3
                        /\ Rows[3][i] = i + 7 /\ Rows[4][i] = i + 11
    BY <2>1 DEF Rows
  <2>3. \A i \in 1..4 : /\ CvPairs[i] = {i - 1, i + 7} /\ CvPairs[i + 4] = {i + 3, i + 11}
                        /\ XofPairs[i] = <<i + 7, i - 1>> /\ XofPairs[i + 4] = <<i + 11, i + 3>>
    BY <2>1 DEF CvPairs, XofPairs
  <2>4. \A i \in 1..4 : /\ s[i] = {Rows[1][i], Rows[3][i]} /\ t[i] = {Rows[2][i], Rows[4][i]}
                        /\ u[i] = <<Rows[3][i], i - 1>> /\ v[i] = <<Rows[4][i], i + 3>>
    OBVIOUS
  <2> HIDE DEF s, t, u, v
  <2> QED  BY <2>2, <2>3, <2>4
<1>2. IsList(s, 4) /\ IsList(t, 4) /\ IsList(u, 4) /\ IsList(v, 4)
  BY DEF IsList
<1> HIDE DEF s, t, u, v
<1>3. /\ IsList(s \o t, 8) /\ Begins(s \o t, s, 4) /\ Ends(s \o t, t, 4, 8)
      /\ IsList(u \o v, 8) /\ Begins(u \o v, u, 4) /\ Ends(u \o v, v, 4, 8)
  BY <1>2, Concatenated
<1>4. \A f, g, h : IsList(h, 8) /\ Begins(h, f, 4) /\ Ends(h, g, 4, 8) =>
        h = [i \in 1..8 |-> IF i <= 4 THEN f[i] ELSE g[i - 4]]
  <2> SUFFICES ASSUME NEW f, NEW g, NEW h, IsList(h, 8), Begins(h, f, 4), Ends(h, g, 4, 8)
               PROVE  h = [i \in 1..8 |-> IF i <= 4 THEN f[i] ELSE g[i - 4]]
    OBVIOUS
  <2>1. \A i \in 1..8 : h[i] = IF i <= 4 THEN f[i] ELSE g[i - 4]
    BY DEF Begins, Ends
  <2> QED  BY <2>1 DEF IsList
<1>5. /\ s \o t = [i \in 1..8 |-> IF i <= 4 THEN s[i] ELSE t[i - 4]]
      /\ u \o v = [i \in 1..8 |-> IF i <= 4 THEN u[i] ELSE v[i - 4]]
  BY <1>3, <1>4, Zenon
<1>6. \A i \in 1..8 : /\ (IF i <= 4 THEN s[i] ELSE t[i - 4]) = CvPairs[i]
                      /\ (IF i <= 4 THEN u[i] ELSE v[i - 4]) = XofPairs[i]
  <2> TAKE i \in 1..8
  <2>1. CASE i <= 4
    BY <1>1, <2>1
  <2>2. CASE ~(i <= 4)
    <3>1. i - 4 \in 1..4 /\ (i - 4) + 4 = i
      BY <2>2
    <3> QED  BY <1>1, <2>2, <3>1
  <2> QED  BY <2>1, <2>2
<1>7. CvPairs = [i \in 1..8 |-> CvPairs[i]] /\ XofPairs = [i \in 1..8 |-> XofPairs[i]]
  BY DEF CvPairs, XofPairs
<1>8. s \o t = CvPairs /\ u \o v = XofPairs
  BY <1>5, <1>6, <1>7
<1> QED
  BY <1>8 DEF s, t, u, v

\* The permutation of the message, on the groups of words
LEMMA Regrouped ==
  ASSUME NEW m
  PROVE  Grouped(Permute(m)) =
           << <<m[2], m[3], m[7], m[4]>>, <<m[6], m[10], m[0], m[13]>>,
              <<m[15], m[1], m[12], m[9]>>, <<m[8], m[11], m[5], m[14]>> >>
<1> DEFINE p == Permute(m)
<1>1. \A i \in 0..15 : p[i] = m[Permutation[i + 1]]
  BY DEF Permute, Places
<1> HIDE DEF p
<1>2. /\ p[0] = m[2] /\ p[1] = m[6] /\ p[2] = m[3] /\ p[3] = m[10]
      /\ p[4] = m[7] /\ p[5] = m[0] /\ p[6] = m[4] /\ p[7] = m[13]
      /\ p[8] = m[1] /\ p[9] = m[11] /\ p[10] = m[12] /\ p[11] = m[5]
      /\ p[12] = m[9] /\ p[13] = m[14] /\ p[14] = m[15] /\ p[15] = m[8]
  BY <1>1 DEF Permutation
<1>3. Grouped(p) = << <<m[2], m[3], m[7], m[4]>>, <<m[6], m[10], m[0], m[13]>>,
                      <<m[15], m[1], m[12], m[9]>>, <<m[8], m[11], m[5], m[14]>> >>
  BY <1>2, Zenon DEF Grouped
<1> QED
  BY <1>3 DEF p

\* The words of the seven rounds, when the first are right and so is each from the one before
LEMMA GroupedWords ==
  ASSUME NEW words, words[1] = Grouped(Scheduled(1)),
         \A r \in 2..7 : words[r - 1] = Grouped(Scheduled(r - 1)) => words[r] = Grouped(Scheduled(r))
  PROVE  \A r \in 1..7 : words[r] = Grouped(Scheduled(r))
<1> DEFINE g == [r \in 1..7 |-> Grouped(Scheduled(r))]
<1>1. \A r \in 1..7 : g[r] = Grouped(Scheduled(r))
  OBVIOUS
<1> HIDE DEF g
<1>2. words[1] = g[1] /\ \A r \in 2..7 : words[r - 1] = g[r - 1] => words[r] = g[r]
  BY <1>1
<1>3. words[2] = g[2]
  BY <1>2
<1>4. words[3] = g[3]
  BY <1>2, <1>3
<1>5. words[4] = g[4]
  BY <1>2, <1>4
<1>6. words[5] = g[5]
  BY <1>2, <1>5
<1>7. words[6] = g[6]
  BY <1>2, <1>6
<1>8. words[7] = g[7]
  BY <1>2, <1>7
<1> QED
  BY <1>1, <1>2, <1>3, <1>4, <1>5, <1>6, <1>7, <1>8

\* The turns of rows that come back every round
LEMMA RowsReturn ==
  ASSUME NEW rows, rows[0] = Rows, \A r \in 1..7 : rows[r - 1] = Rows => rows[r] = Rows
  PROVE  \A r \in 0..7 : rows[r] = Rows
<1>1. rows[1] = Rows
  OBVIOUS
<1>2. rows[2] = Rows
  BY <1>1
<1>3. rows[3] = Rows
  BY <1>2
<1>4. rows[4] = Rows
  BY <1>3
<1>5. rows[5] = Rows
  BY <1>4
<1>6. rows[6] = Rows
  BY <1>5
<1>7. rows[7] = Rows
  BY <1>6
<1> QED
  BY <1>1, <1>2, <1>3, <1>4, <1>5, <1>6, <1>7

\* n members of s behind the first m
LEMMA SubList ==
  ASSUME NEW s, NEW m \in Int, NEW n \in Nat
  PROVE  SubSeq(s, m + 1, m + n) = [i \in 1..n |-> s[m + i]]
<1> DEFINE S == {s[i] : i \in m + 1..m + n}
           t == SubSeq(s, m + 1, m + n)
           u == [i \in 1..n |-> s[m + i]]
<1>1. m + 1 \in Int /\ m + n \in Int /\ \A i \in m + 1..m + n : s[i] \in S
  OBVIOUS
<1> HIDE DEF S
<1>2. /\ t \in Seq(S)
      /\ Len(t) = IF m + 1 <= m + n THEN (m + n) - (m + 1) + 1 ELSE 0
      /\ \A i \in 1..(m + n) - (m + 1) + 1 : t[i] = s[(m + 1) + i - 1]
  BY <1>1, SubSeqProperties
<1> HIDE DEF t
<1>3. Len(t) = n /\ (m + n) - (m + 1) + 1 = n
  BY <1>2
<1>4. \A i \in 1..n : t[i] = s[(m + 1) + i - 1]
  BY <1>2, <1>3
<1>5. \A i \in 1..n : u[i] = s[m + i] /\ (m + 1) + i - 1 = m + i
  OBVIOUS
<1>6. DOMAIN t = 1..n /\ t = [i \in DOMAIN t |-> t[i]]
  BY <1>2, <1>3
<1>7. u = [i \in 1..n |-> u[i]]
  OBVIOUS
<1> HIDE DEF u
<1>8. \A i \in 1..n : t[i] = u[i]
  BY <1>4, <1>5
<1>9. t = u
  BY <1>6, <1>7, <1>8
<1> QED
  BY <1>9 DEF t, u

\* Two members that follow each other
LEMMA Pairs ==
  ASSUME NEW s, NEW k \in Nat
  PROVE  SubSeq(s, k + 1, k + 2) = <<s[k + 1], s[k + 2]>>
<1>1. SubSeq(s, k + 1, k + 2) = [i \in 1..2 |-> s[k + i]]
  BY SubList
<1> DEFINE f == [i \in 1..2 |-> s[k + i]]
<1>2. f[1] = s[k + 1] /\ f[2] = s[k + 2] /\ f = [i \in 1..2 |-> f[i]]
  OBVIOUS
<1> HIDE DEF f
<1>3. f = <<f[1], f[2]>>
  BY <1>2
<1>4. f = <<s[k + 1], s[k + 2]>>
  BY <1>2, <1>3, Zenon
<1> QED
  BY <1>1, <1>4 DEF f

\* The instructions of rust_sse2.rs, on vectors of four
LEMMA Sse2Lanes ==
  ASSUME NEW a, NEW b, IsList(a, 4), IsList(b, 4)
  PROVE  /\ Sse2!Shuffle2(a, b, 2, 0, 2, 0) = <<a[1], a[3], b[1], b[3]>>
         /\ Sse2!Shuffle2(a, b, 3, 1, 3, 1) = <<a[2], a[4], b[2], b[4]>>
         /\ Sse2!Shuffle2(a, b, 3, 1, 1, 2) = <<a[3], a[2], b[2], b[4]>>
         /\ Sse2!Shuffle2(a, b, 3, 3, 2, 2) = <<a[3], a[3], b[4], b[4]>>
         /\ Sse2!Shuffle(a, 2, 1, 0, 3) = <<a[4], a[1], a[2], a[3]>>
         /\ Sse2!Shuffle(a, 0, 3, 2, 1) = <<a[2], a[3], a[4], a[1]>>
         /\ Sse2!Shuffle(a, 1, 0, 3, 2) = <<a[3], a[4], a[1], a[2]>>
         /\ Sse2!Shuffle(a, 0, 0, 3, 3) = <<a[4], a[4], a[1], a[1]>>
         /\ Sse2!Shuffle(a, 1, 3, 2, 0) = <<a[1], a[3], a[4], a[2]>>
         /\ Sse2!Shuffle(a, 0, 1, 3, 2) = <<a[3], a[4], a[2], a[1]>>
         /\ Sse2!UnpackLo32(a, b) = <<a[1], b[1], a[2], b[2]>>
         /\ Sse2!UnpackHi32(a, b) = <<a[3], b[3], a[4], b[4]>>
         /\ Sse2!UnpackLo64(a, b) = <<a[1], a[2], b[1], b[2]>>
         /\ Sse2!UnpackHi64(a, b) = <<a[3], a[4], b[3], b[4]>>
<1>1. Len(a) = 4
  BY ListIsSeq
<1> QED
  BY <1>1 DEF Sse2!Shuffle2, Sse2!Shuffle, Sse2!UnpackLo32, Sse2!UnpackHi32, Sse2!UnpackLo64,
         Sse2!UnpackHi64, Sse2!PerHalf

\* Immediates 204 and 192 take words 2 and 4, and word 4, from the second vector.
LEMMA Sse2Blends ==
  ASSUME NEW a, NEW b
  PROVE  /\ Sse2!BlendEpi16(a, b, 204) = <<a[1], b[2], a[3], b[4]>>
         /\ Sse2!BlendEpi16(a, b, 192) = <<a[1], a[2], a[3], b[4]>>
<1>1. /\ \A k \in 0..7 : Sse2!Bit(204, k) <=> k \in {2, 3, 6, 7}
      /\ \A k \in 0..7 : Sse2!Bit(192, k) <=> k \in {6, 7}
  BY DEF Sse2!Bit
<1>2. /\ {k \in 0..7 : Sse2!Bit(204, k)} = {2, 3, 6, 7}
      /\ {k \in 0..7 : Sse2!Bit(192, k)} = {6, 7}
  BY <1>1
<1> DEFINE s == Sse2!BlendEpi16(a, b, 204)
           t == Sse2!BlendEpi16(a, b, 192)
           P(mask, i) == IF {2 * i - 2, 2 * i - 1} \subseteq mask THEN b[i]
                         ELSE IF {2 * i - 2, 2 * i - 1} \cap mask = {} THEN a[i] ELSE -1
<1>3. /\ s = [i \in 1..4 |-> P({2, 3, 6, 7}, i)]
      /\ t = [i \in 1..4 |-> P({6, 7}, i)]
  BY <1>2 DEF Sse2!BlendEpi16
<1>4. /\ P({2, 3, 6, 7}, 1) = a[1] /\ P({2, 3, 6, 7}, 2) = b[2]
      /\ P({2, 3, 6, 7}, 3) = a[3] /\ P({2, 3, 6, 7}, 4) = b[4]
      /\ P({6, 7}, 1) = a[1] /\ P({6, 7}, 2) = a[2]
      /\ P({6, 7}, 3) = a[3] /\ P({6, 7}, 4) = b[4]
  OBVIOUS
<1> HIDE DEF s, t, P
<1>5. s = <<a[1], b[2], a[3], b[4]>> /\ t = <<a[1], a[2], a[3], b[4]>>
  BY <1>3, <1>4
<1> QED  BY <1>5 DEF s, t

\* The shuffles of compress_pre in rust_sse2.rs group the words of every round as the schedule
\* orders them, and turn the rows there and back; and the rotations are those of G.
LEMMA Sse2Shuffles ==
  /\ Sse2!FirstWords(Rows) = Grouped(Scheduled(1))
  /\ \A m : Sse2!NextWords(Grouped(m)) = Grouped(Permute(m))
  /\ Sse2!Diagonalize(Rows) = Turned /\ Sse2!Undiagonalize(Turned) = Rows
  /\ Sse2!Rot16 = 16 /\ Sse2!Rot12 = 12 /\ Sse2!Rot8 = 8 /\ Sse2!Rot7 = 7
<1>1. Sse2!Rot16 = 16 /\ Sse2!Rot12 = 12 /\ Sse2!Rot8 = 8 /\ Sse2!Rot7 = 7
  BY DEF Sse2!Rot16, Sse2!Rot12, Sse2!Rot8, Sse2!Rot7, Sse2!ByShifts
<1>2. \A a, b, c, d : IsList(<<a, b, c, d>>, 4)
  BY DEF IsList
<1>3. /\ Sse2!Diagonalize(Rows) = Turned /\ Sse2!Undiagonalize(Turned) = Rows
  <2>1. IsList(Rows[1], 4) /\ IsList(Rows[3], 4) /\ IsList(Rows[4], 4)
    BY <1>2 DEF Rows
  <2>2. IsList(Turned[1], 4) /\ IsList(Turned[3], 4) /\ IsList(Turned[4], 4)
    BY <1>2 DEF Turned
  <2>3. Sse2!Diagonalize(Rows) = << <<Rows[1][4], Rows[1][1], Rows[1][2], Rows[1][3]>>, Rows[2],
          <<Rows[3][2], Rows[3][3], Rows[3][4], Rows[3][1]>>,
          <<Rows[4][3], Rows[4][4], Rows[4][1], Rows[4][2]>> >>
    BY <2>1, Sse2Lanes DEF Sse2!Diagonalize
  <2>4. Sse2!Undiagonalize(Turned) =
          << <<Turned[1][2], Turned[1][3], Turned[1][4], Turned[1][1]>>, Turned[2],
             <<Turned[3][4], Turned[3][1], Turned[3][2], Turned[3][3]>>,
             <<Turned[4][3], Turned[4][4], Turned[4][1], Turned[4][2]>> >>
    BY <2>2, Sse2Lanes DEF Sse2!Undiagonalize
  <2> QED
    BY <2>3, <2>4 DEF Rows, Turned
<1>4. Sse2!FirstWords(Rows) = Grouped(Scheduled(1))
  <2>1. IsList(Rows[1], 4) /\ IsList(Rows[2], 4) /\ IsList(Rows[3], 4) /\ IsList(Rows[4], 4)
    BY <1>2 DEF Rows
  <2>2. /\ Sse2!Shuffle2(Rows[1], Rows[2], 2, 0, 2, 0) = <<0, 2, 4, 6>>
        /\ Sse2!Shuffle2(Rows[1], Rows[2], 3, 1, 3, 1) = <<1, 3, 5, 7>>
        /\ Sse2!Shuffle2(Rows[3], Rows[4], 2, 0, 2, 0) = <<8, 10, 12, 14>>
        /\ Sse2!Shuffle2(Rows[3], Rows[4], 3, 1, 3, 1) = <<9, 11, 13, 15>>
    BY <2>1, Sse2Lanes DEF Rows
  <2>3. /\ Sse2!Shuffle(<<8, 10, 12, 14>>, 2, 1, 0, 3) = <<14, 8, 10, 12>>
        /\ Sse2!Shuffle(<<9, 11, 13, 15>>, 2, 1, 0, 3) = <<15, 9, 11, 13>>
    <3>1. \A a : IsList(a, 4) => Sse2!Shuffle(a, 2, 1, 0, 3) = <<a[4], a[1], a[2], a[3]>>
      BY Sse2Lanes
    <3>2. IsList(<<8, 10, 12, 14>>, 4) /\ IsList(<<9, 11, 13, 15>>, 4)
      BY <1>2
    <3> QED  BY <3>1, <3>2
  <2>4. Sse2!FirstWords(Rows) = << <<0, 2, 4, 6>>, <<1, 3, 5, 7>>, <<14, 8, 10, 12>>, <<15, 9, 11, 13>> >>
    BY <2>2, <2>3, Zenon DEF Sse2!FirstWords
  <2>5. \A i \in 0..15 : Scheduled(1)[i] = i
    BY DEF Scheduled, Schedule, Places
  <2>6. Grouped(Scheduled(1)) = << <<0, 2, 4, 6>>, <<1, 3, 5, 7>>, <<14, 8, 10, 12>>, <<15, 9, 11, 13>> >>
    BY <2>5 DEF Grouped
  <2> QED
    BY <2>4, <2>6
<1>5. ASSUME NEW m
      PROVE  Sse2!NextWords(Grouped(m)) = Grouped(Permute(m))
  <2> DEFINE g == Grouped(m)
  <2>1. /\ g[1] = <<m[0], m[2], m[4], m[6]>> /\ g[2] = <<m[1], m[3], m[5], m[7]>>
        /\ g[3] = <<m[14], m[8], m[10], m[12]>> /\ g[4] = <<m[15], m[9], m[11], m[13]>>
    BY DEF Grouped
  <2> HIDE DEF g
  <2>2. IsList(g[1], 4) /\ IsList(g[2], 4) /\ IsList(g[3], 4) /\ IsList(g[4], 4)
    BY <1>2, <2>1
  <2>3. Sse2!Shuffle(Sse2!Shuffle2(g[1], g[2], 3, 1, 1, 2), 0, 3, 2, 1) = <<m[2], m[3], m[7], m[4]>>
    <3>1. Sse2!Shuffle2(g[1], g[2], 3, 1, 1, 2) = <<m[4], m[2], m[3], m[7]>>
      BY <2>1, <2>2, Sse2Lanes
    <3>2. Sse2!Shuffle(<<m[4], m[2], m[3], m[7]>>, 0, 3, 2, 1) = <<m[2], m[3], m[7], m[4]>>
      BY <1>2, Sse2Lanes
    <3> QED  BY <3>1, <3>2, Zenon
  <2>4. Sse2!BlendEpi16(Sse2!Shuffle(g[1], 0, 0, 3, 3), Sse2!Shuffle2(g[3], g[4], 3, 3, 2, 2), 204) =
          <<m[6], m[10], m[0], m[13]>>
    <3>1. Sse2!Shuffle(g[1], 0, 0, 3, 3) = <<m[6], m[6], m[0], m[0]>>
      <4>1. Sse2!Shuffle(g[1], 0, 0, 3, 3) = <<g[1][4], g[1][4], g[1][1], g[1][1]>>
        BY <2>2, Sse2Lanes
      <4> QED  BY <2>1, <4>1
    <3>2. Sse2!Shuffle2(g[3], g[4], 3, 3, 2, 2) = <<m[10], m[10], m[13], m[13]>>
      BY <2>1, <2>2, Sse2Lanes
    <3>3. Sse2!BlendEpi16(<<m[6], m[6], m[0], m[0]>>, <<m[10], m[10], m[13], m[13]>>, 204) =
            <<m[6], m[10], m[0], m[13]>>
      BY Sse2Blends
    <3> QED  BY <3>1, <3>2, <3>3, Zenon
  <2>5. Sse2!Shuffle(Sse2!BlendEpi16(Sse2!UnpackLo64(g[4], g[2]), g[3], 192), 1, 3, 2, 0) =
          <<m[15], m[1], m[12], m[9]>>
    <3>1. Sse2!UnpackLo64(g[4], g[2]) = <<m[15], m[9], m[1], m[3]>>
      BY <2>1, <2>2, Sse2Lanes
    <3>2. Sse2!BlendEpi16(<<m[15], m[9], m[1], m[3]>>, g[3], 192) = <<m[15], m[9], m[1], m[12]>>
      BY <2>1, Sse2Blends
    <3>3. Sse2!Shuffle(<<m[15], m[9], m[1], m[12]>>, 1, 3, 2, 0) = <<m[15], m[1], m[12], m[9]>>
      BY <1>2, Sse2Lanes
    <3> QED  BY <3>1, <3>2, <3>3, Zenon
  <2>6. Sse2!Shuffle(Sse2!UnpackLo32(g[3], Sse2!UnpackHi32(g[2], g[4])), 0, 1, 3, 2) =
          <<m[8], m[11], m[5], m[14]>>
    <3>1. Sse2!UnpackHi32(g[2], g[4]) = <<m[5], m[11], m[7], m[13]>>
      BY <2>1, <2>2, Sse2Lanes
    <3>2. Sse2!UnpackLo32(g[3], <<m[5], m[11], m[7], m[13]>>) = <<m[14], m[5], m[8], m[11]>>
      BY <1>2, <2>1, <2>2, Sse2Lanes
    <3>3. Sse2!Shuffle(<<m[14], m[5], m[8], m[11]>>, 0, 1, 3, 2) = <<m[8], m[11], m[5], m[14]>>
      BY <1>2, Sse2Lanes
    <3> QED  BY <3>1, <3>2, <3>3, Zenon
  <2>7. Sse2!NextWords(g) = << <<m[2], m[3], m[7], m[4]>>, <<m[6], m[10], m[0], m[13]>>,
                             <<m[15], m[1], m[12], m[9]>>, <<m[8], m[11], m[5], m[14]>> >>
    BY <2>3, <2>4, <2>5, <2>6, Zenon DEF Sse2!NextWords
  <2> QED
    BY <2>7, Regrouped, Zenon DEF g
<1> QED
  BY <1>1, <1>3, <1>4, <1>5, Zenon

\* compress_in_place and compress_xof of rust_sse2.rs mix as the reference.
LEMMA Sse2Compresses == Sse2!CompressXof = Reference /\ Sse2!CompressInPlace = Reference
<1> DEFINE first(f, r) == IF r = 1 THEN Sse2!FirstWords(Rows) ELSE Sse2!NextWords(f[r - 1])
           next(f, r) == IF r = 0 THEN Rows ELSE Sse2!Undiagonalize(Sse2!Diagonalize(f[r - 1]))
           words[r \in 1..7] == first(words, r)
           rows[r \in 0..7] == next(rows, r)
           round(r) == <<Sse2!G1(rows[r - 1], words[r][1]), Sse2!G2(rows[r - 1], words[r][2]),
                         Sse2!G1(Sse2!Diagonalize(rows[r - 1]), words[r][3]),
                         Sse2!G2(Sse2!Diagonalize(rows[r - 1]), words[r][4])>>
<1>1. \A r \in 1..7 : words[r] = Grouped(Scheduled(r))
  <2> DEFINE g == [r \in 1..7 |-> Grouped(Scheduled(r))]
  <2>1. \A r \in 2..7 : Sse2!NextWords(Grouped(Scheduled(r - 1))) = Grouped(Scheduled(r))
    BY Sse2Shuffles, Permuted
  <2>2. \A r \in 1..7 : first(g, r) = Grouped(Scheduled(r))
    <3>1. \A r \in 1..7 : r # 1 => r \in 2..7 /\ r - 1 \in 1..7
      OBVIOUS
    <3> QED  BY <2>1, <3>1, Sse2Shuffles
  <2>3. g = [r \in 1..7 |-> first(g, r)]
    BY <2>2
  <2>4. words = [r \in 1..7 |-> first(words, r)]
    <3> HIDE DEF g, first
    <3> QED  BY <2>3
  <2> HIDE DEF words
  <2>5. words[1] = Grouped(Scheduled(1))
    BY <2>4, Sse2Shuffles
  <2>6. \A r \in 2..7 : words[r - 1] = Grouped(Scheduled(r - 1)) => words[r] = Grouped(Scheduled(r))
    <3>1. \A r \in 2..7 : words[r] = Sse2!NextWords(words[r - 1])
      BY <2>4
    <3> QED  BY <2>1, <3>1
  <2> QED
    BY <2>5, <2>6, GroupedWords
<1>2. \A r \in 0..7 : rows[r] = Rows
  <2> DEFINE g == [r \in 0..7 |-> Rows]
  <2>1. Sse2!Undiagonalize(Sse2!Diagonalize(Rows)) = Rows
    BY Sse2Shuffles, Zenon
  <2>2. \A r \in 0..7 : next(g, r) = Rows
    BY <2>1
  <2>3. g = [r \in 0..7 |-> next(g, r)]
    BY <2>2
  <2>4. rows = [r \in 0..7 |-> next(rows, r)]
    <3> HIDE DEF g, next
    <3> QED  BY <2>3
  <2> HIDE DEF rows
  <2>5. rows[0] = Rows
    BY <2>4
  <2>6. \A r \in 1..7 : rows[r - 1] = Rows => rows[r] = Rows
    BY <2>1, <2>4
  <2> QED
    BY <2>5, <2>6, RowsReturn
<1>3. Sse2!CompressPre =
        Compression([r \in 1..7 |-> round(r)],
                    [i \in 1..4 |-> {rows[7][1][i], rows[7][3][i]}]
                      \o [i \in 1..4 |-> {rows[7][2][i], rows[7][4][i]}],
                    [i \in 1..4 |-> <<rows[7][3][i], i - 1>>]
                      \o [i \in 1..4 |-> <<rows[7][4][i], i + 3>>])
  BY DEF Sse2!CompressPre, Sse2!RowCompression, Sse2!Compression, Compression, Sse2!Rows, Rows
<1> HIDE DEF words, rows
<1>4. \A r \in 1..7 : round(r) = RoundWith(Scheduled(r))
  <2> TAKE r \in 1..7
  <2>1. rows[r - 1] = Rows /\ words[r] = Grouped(Scheduled(r))
    BY <1>1, <1>2
  <2>2. \A w : /\ Sse2!G1(Rows, w) = HalfSteps(Rows, w, 16, 12)
               /\ Sse2!G1(Turned, w) = HalfSteps(Turned, w, 16, 12)
               /\ Sse2!G2(Rows, w) = HalfSteps(Rows, w, 8, 7)
               /\ Sse2!G2(Turned, w) = HalfSteps(Turned, w, 8, 7)
    BY Sse2Shuffles, Zenon DEF Sse2!G1, Sse2!G2, Sse2!HalfSteps, HalfSteps
  <2>3. round(r) = <<HalfSteps(Rows, words[r][1], 16, 12), HalfSteps(Rows, words[r][2], 8, 7),
                     HalfSteps(Turned, words[r][3], 16, 12), HalfSteps(Turned, words[r][4], 8, 7)>>
    BY <2>1, <2>2, Sse2Shuffles, Zenon
  <2> QED
    BY <2>1, <2>3, RowRounds, Zenon
<1> HIDE DEF round
<1>5. [r \in 1..7 |-> round(r)] = [r \in 1..7 |-> RoundWith(Scheduled(r))]
  BY <1>4
<1>6. rows[7] = Rows
  BY <1>2
<1>7. Sse2!CompressPre = Compression([r \in 1..7 |-> RoundWith(Scheduled(r))], CvPairs, XofPairs)
  BY <1>3, <1>5, <1>6, RowEnds, Zenon
<1> QED
  BY <1>7, ReferenceIs, Zenon DEF Sse2!CompressXof, Sse2!CompressInPlace

\* The instructions of rust_sse41.rs, on vectors of four
LEMMA Sse41Lanes ==
  ASSUME NEW a, NEW b, IsList(a, 4), IsList(b, 4)
  PROVE  /\ Sse41!Shuffle2(a, b, 2, 0, 2, 0) = <<a[1], a[3], b[1], b[3]>>
         /\ Sse41!Shuffle2(a, b, 3, 1, 3, 1) = <<a[2], a[4], b[2], b[4]>>
         /\ Sse41!Shuffle2(a, b, 3, 1, 1, 2) = <<a[3], a[2], b[2], b[4]>>
         /\ Sse41!Shuffle2(a, b, 3, 3, 2, 2) = <<a[3], a[3], b[4], b[4]>>
         /\ Sse41!Shuffle(a, 2, 1, 0, 3) = <<a[4], a[1], a[2], a[3]>>
         /\ Sse41!Shuffle(a, 0, 3, 2, 1) = <<a[2], a[3], a[4], a[1]>>
         /\ Sse41!Shuffle(a, 1, 0, 3, 2) = <<a[3], a[4], a[1], a[2]>>
         /\ Sse41!Shuffle(a, 0, 0, 3, 3) = <<a[4], a[4], a[1], a[1]>>
         /\ Sse41!Shuffle(a, 1, 3, 2, 0) = <<a[1], a[3], a[4], a[2]>>
         /\ Sse41!Shuffle(a, 0, 1, 3, 2) = <<a[3], a[4], a[2], a[1]>>
         /\ Sse41!UnpackLo32(a, b) = <<a[1], b[1], a[2], b[2]>>
         /\ Sse41!UnpackHi32(a, b) = <<a[3], b[3], a[4], b[4]>>
         /\ Sse41!UnpackLo64(a, b) = <<a[1], a[2], b[1], b[2]>>
         /\ Sse41!UnpackHi64(a, b) = <<a[3], a[4], b[3], b[4]>>
<1>1. Len(a) = 4
  BY ListIsSeq
<1> QED
  BY <1>1 DEF Sse41!Shuffle2, Sse41!Shuffle, Sse41!UnpackLo32, Sse41!UnpackHi32, Sse41!UnpackLo64,
         Sse41!UnpackHi64, Sse41!PerHalf

\* Immediates 204 and 192 take words 2 and 4, and word 4, from the second vector.
LEMMA Sse41Blends ==
  ASSUME NEW a, NEW b
  PROVE  /\ Sse41!Blend16(a, b, 204) = <<a[1], b[2], a[3], b[4]>>
         /\ Sse41!Blend16(a, b, 192) = <<a[1], a[2], a[3], b[4]>>
<1>1. /\ \A k \in 0..7 : Sse41!Bit(204, k) <=> k \in {2, 3, 6, 7}
      /\ \A k \in 0..7 : Sse41!Bit(192, k) <=> k \in {6, 7}
  BY DEF Sse41!Bit
<1> DEFINE s == Sse41!Blend16(a, b, 204)
           t == Sse41!Blend16(a, b, 192)
<1>2. /\ s[1] = a[1] /\ s[2] = b[2] /\ s[3] = a[3] /\ s[4] = b[4]
      /\ t[1] = a[1] /\ t[2] = a[2] /\ t[3] = a[3] /\ t[4] = b[4]
  BY <1>1 DEF Sse41!Blend16
<1>3. IsList(s, 4) /\ IsList(t, 4)
  BY DEF Sse41!Blend16, IsList
<1> HIDE DEF s, t
<1>4. s = <<a[1], b[2], a[3], b[4]>> /\ t = <<a[1], a[2], a[3], b[4]>>
  BY <1>2, <1>3 DEF IsList
<1> QED  BY <1>4 DEF s, t

\* The shuffles of compress_pre in rust_sse41.rs group the words of every round as the schedule
\* orders them, and turn the rows there and back; and the rotations are those of G.
LEMMA Sse41Shuffles ==
  /\ Sse41!FirstWords(Rows) = Grouped(Scheduled(1))
  /\ \A m : Sse41!NextWords(Grouped(m)) = Grouped(Permute(m))
  /\ Sse41!Diagonalize(Rows) = Turned /\ Sse41!Undiagonalize(Turned) = Rows
  /\ Sse41!Rot16 = 16 /\ Sse41!Rot12 = 12 /\ Sse41!Rot8 = 8 /\ Sse41!Rot7 = 7
<1>1. Sse41!Rot16 = 16 /\ Sse41!Rot12 = 12 /\ Sse41!Rot8 = 8 /\ Sse41!Rot7 = 7
  BY DEF Sse41!Rot16, Sse41!Rot12, Sse41!Rot8, Sse41!Rot7, Sse41!ByShifts
<1>2. \A a, b, c, d : IsList(<<a, b, c, d>>, 4)
  BY DEF IsList
<1>3. /\ Sse41!Diagonalize(Rows) = Turned /\ Sse41!Undiagonalize(Turned) = Rows
  <2>1. IsList(Rows[1], 4) /\ IsList(Rows[3], 4) /\ IsList(Rows[4], 4)
    BY <1>2 DEF Rows
  <2>2. IsList(Turned[1], 4) /\ IsList(Turned[3], 4) /\ IsList(Turned[4], 4)
    BY <1>2 DEF Turned
  <2>3. Sse41!Diagonalize(Rows) = << <<Rows[1][4], Rows[1][1], Rows[1][2], Rows[1][3]>>, Rows[2],
          <<Rows[3][2], Rows[3][3], Rows[3][4], Rows[3][1]>>,
          <<Rows[4][3], Rows[4][4], Rows[4][1], Rows[4][2]>> >>
    BY <2>1, Sse41Lanes DEF Sse41!Diagonalize
  <2>4. Sse41!Undiagonalize(Turned) =
          << <<Turned[1][2], Turned[1][3], Turned[1][4], Turned[1][1]>>, Turned[2],
             <<Turned[3][4], Turned[3][1], Turned[3][2], Turned[3][3]>>,
             <<Turned[4][3], Turned[4][4], Turned[4][1], Turned[4][2]>> >>
    BY <2>2, Sse41Lanes DEF Sse41!Undiagonalize
  <2> QED
    BY <2>3, <2>4 DEF Rows, Turned
<1>4. Sse41!FirstWords(Rows) = Grouped(Scheduled(1))
  <2>1. IsList(Rows[1], 4) /\ IsList(Rows[2], 4) /\ IsList(Rows[3], 4) /\ IsList(Rows[4], 4)
    BY <1>2 DEF Rows
  <2>2. /\ Sse41!Shuffle2(Rows[1], Rows[2], 2, 0, 2, 0) = <<0, 2, 4, 6>>
        /\ Sse41!Shuffle2(Rows[1], Rows[2], 3, 1, 3, 1) = <<1, 3, 5, 7>>
        /\ Sse41!Shuffle2(Rows[3], Rows[4], 2, 0, 2, 0) = <<8, 10, 12, 14>>
        /\ Sse41!Shuffle2(Rows[3], Rows[4], 3, 1, 3, 1) = <<9, 11, 13, 15>>
    BY <2>1, Sse41Lanes DEF Rows
  <2>3. /\ Sse41!Shuffle(<<8, 10, 12, 14>>, 2, 1, 0, 3) = <<14, 8, 10, 12>>
        /\ Sse41!Shuffle(<<9, 11, 13, 15>>, 2, 1, 0, 3) = <<15, 9, 11, 13>>
    <3>1. \A a : IsList(a, 4) => Sse41!Shuffle(a, 2, 1, 0, 3) = <<a[4], a[1], a[2], a[3]>>
      BY Sse41Lanes
    <3>2. IsList(<<8, 10, 12, 14>>, 4) /\ IsList(<<9, 11, 13, 15>>, 4)
      BY <1>2
    <3> QED  BY <3>1, <3>2
  <2>4. Sse41!FirstWords(Rows) = << <<0, 2, 4, 6>>, <<1, 3, 5, 7>>, <<14, 8, 10, 12>>, <<15, 9, 11, 13>> >>
    BY <2>2, <2>3, Zenon DEF Sse41!FirstWords
  <2>5. \A i \in 0..15 : Scheduled(1)[i] = i
    BY DEF Scheduled, Schedule, Places
  <2>6. Grouped(Scheduled(1)) = << <<0, 2, 4, 6>>, <<1, 3, 5, 7>>, <<14, 8, 10, 12>>, <<15, 9, 11, 13>> >>
    BY <2>5 DEF Grouped
  <2> QED
    BY <2>4, <2>6
<1>5. ASSUME NEW m
      PROVE  Sse41!NextWords(Grouped(m)) = Grouped(Permute(m))
  <2> DEFINE g == Grouped(m)
  <2>1. /\ g[1] = <<m[0], m[2], m[4], m[6]>> /\ g[2] = <<m[1], m[3], m[5], m[7]>>
        /\ g[3] = <<m[14], m[8], m[10], m[12]>> /\ g[4] = <<m[15], m[9], m[11], m[13]>>
    BY DEF Grouped
  <2> HIDE DEF g
  <2>2. IsList(g[1], 4) /\ IsList(g[2], 4) /\ IsList(g[3], 4) /\ IsList(g[4], 4)
    BY <1>2, <2>1
  <2>3. Sse41!Shuffle(Sse41!Shuffle2(g[1], g[2], 3, 1, 1, 2), 0, 3, 2, 1) = <<m[2], m[3], m[7], m[4]>>
    <3>1. Sse41!Shuffle2(g[1], g[2], 3, 1, 1, 2) = <<m[4], m[2], m[3], m[7]>>
      BY <2>1, <2>2, Sse41Lanes
    <3>2. Sse41!Shuffle(<<m[4], m[2], m[3], m[7]>>, 0, 3, 2, 1) = <<m[2], m[3], m[7], m[4]>>
      BY <1>2, Sse41Lanes
    <3> QED  BY <3>1, <3>2, Zenon
  <2>4. Sse41!Blend16(Sse41!Shuffle(g[1], 0, 0, 3, 3), Sse41!Shuffle2(g[3], g[4], 3, 3, 2, 2), 204) =
          <<m[6], m[10], m[0], m[13]>>
    <3>1. Sse41!Shuffle(g[1], 0, 0, 3, 3) = <<m[6], m[6], m[0], m[0]>>
      <4>1. Sse41!Shuffle(g[1], 0, 0, 3, 3) = <<g[1][4], g[1][4], g[1][1], g[1][1]>>
        BY <2>2, Sse41Lanes
      <4> QED  BY <2>1, <4>1
    <3>2. Sse41!Shuffle2(g[3], g[4], 3, 3, 2, 2) = <<m[10], m[10], m[13], m[13]>>
      BY <2>1, <2>2, Sse41Lanes
    <3>3. Sse41!Blend16(<<m[6], m[6], m[0], m[0]>>, <<m[10], m[10], m[13], m[13]>>, 204) =
            <<m[6], m[10], m[0], m[13]>>
      BY Sse41Blends
    <3> QED  BY <3>1, <3>2, <3>3, Zenon
  <2>5. Sse41!Shuffle(Sse41!Blend16(Sse41!UnpackLo64(g[4], g[2]), g[3], 192), 1, 3, 2, 0) =
          <<m[15], m[1], m[12], m[9]>>
    <3>1. Sse41!UnpackLo64(g[4], g[2]) = <<m[15], m[9], m[1], m[3]>>
      BY <2>1, <2>2, Sse41Lanes
    <3>2. Sse41!Blend16(<<m[15], m[9], m[1], m[3]>>, g[3], 192) = <<m[15], m[9], m[1], m[12]>>
      BY <2>1, Sse41Blends
    <3>3. Sse41!Shuffle(<<m[15], m[9], m[1], m[12]>>, 1, 3, 2, 0) = <<m[15], m[1], m[12], m[9]>>
      BY <1>2, Sse41Lanes
    <3> QED  BY <3>1, <3>2, <3>3, Zenon
  <2>6. Sse41!Shuffle(Sse41!UnpackLo32(g[3], Sse41!UnpackHi32(g[2], g[4])), 0, 1, 3, 2) =
          <<m[8], m[11], m[5], m[14]>>
    <3>1. Sse41!UnpackHi32(g[2], g[4]) = <<m[5], m[11], m[7], m[13]>>
      BY <2>1, <2>2, Sse41Lanes
    <3>2. Sse41!UnpackLo32(g[3], <<m[5], m[11], m[7], m[13]>>) = <<m[14], m[5], m[8], m[11]>>
      BY <1>2, <2>1, <2>2, Sse41Lanes
    <3>3. Sse41!Shuffle(<<m[14], m[5], m[8], m[11]>>, 0, 1, 3, 2) = <<m[8], m[11], m[5], m[14]>>
      BY <1>2, Sse41Lanes
    <3> QED  BY <3>1, <3>2, <3>3, Zenon
  <2>7. Sse41!NextWords(g) = << <<m[2], m[3], m[7], m[4]>>, <<m[6], m[10], m[0], m[13]>>,
                             <<m[15], m[1], m[12], m[9]>>, <<m[8], m[11], m[5], m[14]>> >>
    BY <2>3, <2>4, <2>5, <2>6, Zenon DEF Sse41!NextWords
  <2> QED
    BY <2>7, Regrouped, Zenon DEF g
<1> QED
  BY <1>1, <1>3, <1>4, <1>5, Zenon

\* compress_in_place and compress_xof of rust_sse41.rs mix as the reference.
LEMMA Sse41Compresses == Sse41!CompressXof = Reference /\ Sse41!CompressInPlace = Reference
<1> DEFINE first(f, r) == IF r = 1 THEN Sse41!FirstWords(Rows) ELSE Sse41!NextWords(f[r - 1])
           next(f, r) == IF r = 0 THEN Rows ELSE Sse41!Undiagonalize(Sse41!Diagonalize(f[r - 1]))
           words[r \in 1..7] == first(words, r)
           rows[r \in 0..7] == next(rows, r)
           round(r) == <<Sse41!G1(rows[r - 1], words[r][1]), Sse41!G2(rows[r - 1], words[r][2]),
                         Sse41!G1(Sse41!Diagonalize(rows[r - 1]), words[r][3]),
                         Sse41!G2(Sse41!Diagonalize(rows[r - 1]), words[r][4])>>
<1>1. \A r \in 1..7 : words[r] = Grouped(Scheduled(r))
  <2> DEFINE g == [r \in 1..7 |-> Grouped(Scheduled(r))]
  <2>1. \A r \in 2..7 : Sse41!NextWords(Grouped(Scheduled(r - 1))) = Grouped(Scheduled(r))
    BY Sse41Shuffles, Permuted
  <2>2. \A r \in 1..7 : first(g, r) = Grouped(Scheduled(r))
    <3>1. \A r \in 1..7 : r # 1 => r \in 2..7 /\ r - 1 \in 1..7
      OBVIOUS
    <3> QED  BY <2>1, <3>1, Sse41Shuffles
  <2>3. g = [r \in 1..7 |-> first(g, r)]
    BY <2>2
  <2>4. words = [r \in 1..7 |-> first(words, r)]
    <3> HIDE DEF g, first
    <3> QED  BY <2>3
  <2> HIDE DEF words
  <2>5. words[1] = Grouped(Scheduled(1))
    BY <2>4, Sse41Shuffles
  <2>6. \A r \in 2..7 : words[r - 1] = Grouped(Scheduled(r - 1)) => words[r] = Grouped(Scheduled(r))
    <3>1. \A r \in 2..7 : words[r] = Sse41!NextWords(words[r - 1])
      BY <2>4
    <3> QED  BY <2>1, <3>1
  <2> QED
    BY <2>5, <2>6, GroupedWords
<1>2. \A r \in 0..7 : rows[r] = Rows
  <2> DEFINE g == [r \in 0..7 |-> Rows]
  <2>1. Sse41!Undiagonalize(Sse41!Diagonalize(Rows)) = Rows
    BY Sse41Shuffles, Zenon
  <2>2. \A r \in 0..7 : next(g, r) = Rows
    BY <2>1
  <2>3. g = [r \in 0..7 |-> next(g, r)]
    BY <2>2
  <2>4. rows = [r \in 0..7 |-> next(rows, r)]
    <3> HIDE DEF g, next
    <3> QED  BY <2>3
  <2> HIDE DEF rows
  <2>5. rows[0] = Rows
    BY <2>4
  <2>6. \A r \in 1..7 : rows[r - 1] = Rows => rows[r] = Rows
    BY <2>1, <2>4
  <2> QED
    BY <2>5, <2>6, RowsReturn
<1>3. Sse41!CompressPre =
        Compression([r \in 1..7 |-> round(r)],
                    [i \in 1..4 |-> {rows[7][1][i], rows[7][3][i]}]
                      \o [i \in 1..4 |-> {rows[7][2][i], rows[7][4][i]}],
                    [i \in 1..4 |-> <<rows[7][3][i], i - 1>>]
                      \o [i \in 1..4 |-> <<rows[7][4][i], i + 3>>])
  BY DEF Sse41!CompressPre, Sse41!RowCompression, Sse41!Compression, Compression, Sse41!Rows, Rows
<1> HIDE DEF words, rows
<1>4. \A r \in 1..7 : round(r) = RoundWith(Scheduled(r))
  <2> TAKE r \in 1..7
  <2>1. rows[r - 1] = Rows /\ words[r] = Grouped(Scheduled(r))
    BY <1>1, <1>2
  <2>2. \A w : /\ Sse41!G1(Rows, w) = HalfSteps(Rows, w, 16, 12)
               /\ Sse41!G1(Turned, w) = HalfSteps(Turned, w, 16, 12)
               /\ Sse41!G2(Rows, w) = HalfSteps(Rows, w, 8, 7)
               /\ Sse41!G2(Turned, w) = HalfSteps(Turned, w, 8, 7)
    BY Sse41Shuffles, Zenon DEF Sse41!G1, Sse41!G2, Sse41!HalfSteps, HalfSteps
  <2>3. round(r) = <<HalfSteps(Rows, words[r][1], 16, 12), HalfSteps(Rows, words[r][2], 8, 7),
                     HalfSteps(Turned, words[r][3], 16, 12), HalfSteps(Turned, words[r][4], 8, 7)>>
    BY <2>1, <2>2, Sse41Shuffles, Zenon
  <2> QED
    BY <2>1, <2>3, RowRounds, Zenon
<1> HIDE DEF round
<1>5. [r \in 1..7 |-> round(r)] = [r \in 1..7 |-> RoundWith(Scheduled(r))]
  BY <1>4
<1>6. rows[7] = Rows
  BY <1>2
<1>7. Sse41!CompressPre = Compression([r \in 1..7 |-> RoundWith(Scheduled(r))], CvPairs, XofPairs)
  BY <1>3, <1>5, <1>6, RowEnds, Zenon
<1> QED
  BY <1>7, ReferenceIs, Zenon DEF Sse41!CompressXof, Sse41!CompressInPlace

\* A shuffle of WebAssembly picks lanes of two vectors of four.
LEMMA WasmLanes ==
  ASSUME NEW a, NEW b, IsList(a, 4), IsList(b, 4)
  PROVE  /\ Wasm!ShuffleMacro(a, b, 2, 0, 2, 0) = <<a[1], a[3], b[1], b[3]>>
         /\ Wasm!ShuffleMacro(a, b, 3, 1, 3, 1) = <<a[2], a[4], b[2], b[4]>>
         /\ Wasm!ShuffleMacro(a, b, 3, 1, 1, 2) = <<a[3], a[2], b[2], b[4]>>
         /\ Wasm!ShuffleMacro(a, b, 3, 3, 2, 2) = <<a[3], a[3], b[4], b[4]>>
         /\ Wasm!ShuffleEpi32(a, 2, 1, 0, 3) = <<a[4], a[1], a[2], a[3]>>
         /\ Wasm!ShuffleEpi32(a, 0, 3, 2, 1) = <<a[2], a[3], a[4], a[1]>>
         /\ Wasm!ShuffleEpi32(a, 1, 0, 3, 2) = <<a[3], a[4], a[1], a[2]>>
         /\ Wasm!ShuffleEpi32(a, 0, 0, 3, 3) = <<a[4], a[4], a[1], a[1]>>
         /\ Wasm!ShuffleEpi32(a, 1, 3, 2, 0) = <<a[1], a[3], a[4], a[2]>>
         /\ Wasm!ShuffleEpi32(a, 0, 1, 3, 2) = <<a[3], a[4], a[2], a[1]>>
         /\ Wasm!UnpackLoEpi32(a, b) = <<a[1], b[1], a[2], b[2]>>
         /\ Wasm!UnpackHiEpi32(a, b) = <<a[3], b[3], a[4], b[4]>>
         /\ Wasm!UnpackLoEpi64(a, b) = <<a[1], a[2], b[1], b[2]>>
         /\ Wasm!UnpackHiEpi64(a, b) = <<a[3], a[4], b[3], b[4]>>
<1> DEFINE s == a \o b
           t == a \o a
<1>1. /\ IsList(s, 8) /\ Begins(s, a, 4) /\ Ends(s, b, 4, 8)
      /\ Begins(t, a, 4) /\ Ends(t, a, 4, 8)
  BY Concatenated
<1>2. /\ Wasm!ShuffleMacro(a, b, 2, 0, 2, 0) = <<s[1], s[3], s[5], s[7]>>
      /\ Wasm!ShuffleMacro(a, b, 3, 1, 3, 1) = <<s[2], s[4], s[6], s[8]>>
      /\ Wasm!ShuffleMacro(a, b, 3, 1, 1, 2) = <<s[3], s[2], s[6], s[8]>>
      /\ Wasm!ShuffleMacro(a, b, 3, 3, 2, 2) = <<s[3], s[3], s[8], s[8]>>
      /\ Wasm!UnpackLoEpi32(a, b) = <<s[1], s[5], s[2], s[6]>>
      /\ Wasm!UnpackHiEpi32(a, b) = <<s[3], s[7], s[4], s[8]>>
  BY DEF Wasm!ShuffleMacro, Wasm!UnpackLoEpi32, Wasm!UnpackHiEpi32, Wasm!I32x4Shuffle
<1>3. /\ Wasm!ShuffleEpi32(a, 2, 1, 0, 3) = <<t[4], t[1], t[2], t[3]>>
      /\ Wasm!ShuffleEpi32(a, 0, 3, 2, 1) = <<t[2], t[3], t[4], t[1]>>
      /\ Wasm!ShuffleEpi32(a, 1, 0, 3, 2) = <<t[3], t[4], t[1], t[2]>>
      /\ Wasm!ShuffleEpi32(a, 0, 0, 3, 3) = <<t[4], t[4], t[1], t[1]>>
      /\ Wasm!ShuffleEpi32(a, 1, 3, 2, 0) = <<t[1], t[3], t[4], t[2]>>
      /\ Wasm!ShuffleEpi32(a, 0, 1, 3, 2) = <<t[3], t[4], t[2], t[1]>>
  BY DEF Wasm!ShuffleEpi32, Wasm!I32x4Shuffle
<1>4. /\ Wasm!UnpackLoEpi64(a, b) = SubSeq(s, 1, 2) \o SubSeq(s, 5, 6)
      /\ Wasm!UnpackHiEpi64(a, b) = SubSeq(s, 3, 4) \o SubSeq(s, 7, 8)
  BY DEF Wasm!UnpackLoEpi64, Wasm!UnpackHiEpi64, Wasm!I64x2Shuffle
<1>5. /\ SubSeq(s, 1, 2) = <<s[1], s[2]>> /\ SubSeq(s, 5, 6) = <<s[5], s[6]>>
      /\ SubSeq(s, 3, 4) = <<s[3], s[4]>> /\ SubSeq(s, 7, 8) = <<s[7], s[8]>>
  <2> HIDE DEF s
  <2>1. \A k \in Nat : SubSeq(s, k + 1, k + 2) = <<s[k + 1], s[k + 2]>>
    BY Pairs
  <2>2. /\ SubSeq(s, 0 + 1, 0 + 2) = <<s[0 + 1], s[0 + 2]>>
        /\ SubSeq(s, 2 + 1, 2 + 2) = <<s[2 + 1], s[2 + 2]>>
        /\ SubSeq(s, 4 + 1, 4 + 2) = <<s[4 + 1], s[4 + 2]>>
        /\ SubSeq(s, 6 + 1, 6 + 2) = <<s[6 + 1], s[6 + 2]>>
    BY <2>1, Zenon, 0 \in Nat, 2 \in Nat, 4 \in Nat, 6 \in Nat
  <2> QED  BY <2>2
<1> HIDE DEF s, t
<1>6. /\ Wasm!UnpackLoEpi64(a, b) = <<s[1], s[2], s[5], s[6]>>
      /\ Wasm!UnpackHiEpi64(a, b) = <<s[3], s[4], s[7], s[8]>>
  BY <1>4, <1>5, Join2
<1>7. /\ s[1] = a[1] /\ s[2] = a[2] /\ s[3] = a[3] /\ s[4] = a[4]
      /\ s[5] = b[1] /\ s[6] = b[2] /\ s[7] = b[3] /\ s[8] = b[4]
      /\ t[1] = a[1] /\ t[2] = a[2] /\ t[3] = a[3] /\ t[4] = a[4]
  BY <1>1 DEF Begins, Ends
<1> QED
  BY <1>2, <1>3, <1>6, <1>7

\* Immediates 204 and 192 take words 2 and 4, and word 4, from the second vector.
LEMMA WasmBlends ==
  ASSUME NEW a, NEW b
  PROVE  /\ Wasm!BlendEpi16(a, b, 204) = <<a[1], b[2], a[3], b[4]>>
         /\ Wasm!BlendEpi16(a, b, 192) = <<a[1], a[2], a[3], b[4]>>
<1>1. /\ \A k \in 0..7 : Wasm!Bit(204, k) <=> k \in {2, 3, 6, 7}
      /\ \A k \in 0..7 : Wasm!Bit(192, k) <=> k \in {6, 7}
  BY DEF Wasm!Bit
<1>2. /\ {k \in 0..7 : Wasm!Bit(204, k)} = {2, 3, 6, 7}
      /\ {k \in 0..7 : Wasm!Bit(192, k)} = {6, 7}
  BY <1>1
<1> DEFINE s == Wasm!BlendEpi16(a, b, 204)
           t == Wasm!BlendEpi16(a, b, 192)
           P(mask, i) == IF {2 * i - 2, 2 * i - 1} \subseteq mask THEN b[i]
                         ELSE IF {2 * i - 2, 2 * i - 1} \cap mask = {} THEN a[i] ELSE -1
<1>3. /\ s = [i \in 1..4 |-> P({2, 3, 6, 7}, i)]
      /\ t = [i \in 1..4 |-> P({6, 7}, i)]
  BY <1>2 DEF Wasm!BlendEpi16
<1>4. /\ P({2, 3, 6, 7}, 1) = a[1] /\ P({2, 3, 6, 7}, 2) = b[2]
      /\ P({2, 3, 6, 7}, 3) = a[3] /\ P({2, 3, 6, 7}, 4) = b[4]
      /\ P({6, 7}, 1) = a[1] /\ P({6, 7}, 2) = a[2]
      /\ P({6, 7}, 3) = a[3] /\ P({6, 7}, 4) = b[4]
  OBVIOUS
<1> HIDE DEF s, t, P
<1>5. s = <<a[1], b[2], a[3], b[4]>> /\ t = <<a[1], a[2], a[3], b[4]>>
  BY <1>3, <1>4
<1> QED  BY <1>5 DEF s, t

\* The shuffles of compress_pre in wasm32_simd.rs group the words of every round as the schedule
\* orders them, and turn the rows there and back; and the rotations are those of G.
LEMMA WasmShuffles ==
  /\ Wasm!FirstWords(Rows) = Grouped(Scheduled(1))
  /\ \A m : Wasm!NextWords(Grouped(m)) = Grouped(Permute(m))
  /\ Wasm!Diagonalize(Rows) = Turned /\ Wasm!Undiagonalize(Turned) = Rows
  /\ Wasm!Rot16 = 16 /\ Wasm!Rot12 = 12 /\ Wasm!Rot8 = 8 /\ Wasm!Rot7 = 7
<1>1. Wasm!Rot16 = 16 /\ Wasm!Rot12 = 12 /\ Wasm!Rot8 = 8 /\ Wasm!Rot7 = 7
  <2>1. /\ {k \in 0..3 : \A i \in 0..3 : <<2, 3, 0, 1>>[i + 1] = (i + k) % 4} = {2}
        /\ {k \in 0..3 : \A i \in 0..3 : <<1, 2, 3, 0>>[i + 1] = (i + k) % 4} = {1}
    OBVIOUS
  <2>2. Wasm!Rot16 = 8 * CHOOSE k \in {2} : TRUE
    BY <2>1 DEF Wasm!Rot16, Wasm!ByBytes
  <2>3. Wasm!Rot8 = 8 * CHOOSE k \in {1} : TRUE
    BY <2>1 DEF Wasm!Rot8, Wasm!ByBytes
  <2> QED
    BY <2>2, <2>3 DEF Wasm!Rot12, Wasm!Rot7, Wasm!ByShifts
<1>2. \A a, b, c, d : IsList(<<a, b, c, d>>, 4)
  BY DEF IsList
<1>3. /\ Wasm!Diagonalize(Rows) = Turned /\ Wasm!Undiagonalize(Turned) = Rows
  <2>1. IsList(Rows[1], 4) /\ IsList(Rows[3], 4) /\ IsList(Rows[4], 4)
    BY <1>2 DEF Rows
  <2>2. IsList(Turned[1], 4) /\ IsList(Turned[3], 4) /\ IsList(Turned[4], 4)
    BY <1>2 DEF Turned
  <2>3. Wasm!Diagonalize(Rows) = << <<Rows[1][4], Rows[1][1], Rows[1][2], Rows[1][3]>>, Rows[2],
          <<Rows[3][2], Rows[3][3], Rows[3][4], Rows[3][1]>>,
          <<Rows[4][3], Rows[4][4], Rows[4][1], Rows[4][2]>> >>
    BY <2>1, WasmLanes DEF Wasm!Diagonalize
  <2>4. Wasm!Undiagonalize(Turned) =
          << <<Turned[1][2], Turned[1][3], Turned[1][4], Turned[1][1]>>, Turned[2],
             <<Turned[3][4], Turned[3][1], Turned[3][2], Turned[3][3]>>,
             <<Turned[4][3], Turned[4][4], Turned[4][1], Turned[4][2]>> >>
    BY <2>2, WasmLanes DEF Wasm!Undiagonalize
  <2> QED
    BY <2>3, <2>4 DEF Rows, Turned
<1>4. Wasm!FirstWords(Rows) = Grouped(Scheduled(1))
  <2>1. IsList(Rows[1], 4) /\ IsList(Rows[2], 4) /\ IsList(Rows[3], 4) /\ IsList(Rows[4], 4)
    BY <1>2 DEF Rows
  <2>2. /\ Wasm!ShuffleMacro(Rows[1], Rows[2], 2, 0, 2, 0) = <<0, 2, 4, 6>>
        /\ Wasm!ShuffleMacro(Rows[1], Rows[2], 3, 1, 3, 1) = <<1, 3, 5, 7>>
        /\ Wasm!ShuffleMacro(Rows[3], Rows[4], 2, 0, 2, 0) = <<8, 10, 12, 14>>
        /\ Wasm!ShuffleMacro(Rows[3], Rows[4], 3, 1, 3, 1) = <<9, 11, 13, 15>>
    BY <2>1, WasmLanes DEF Rows
  <2>3. /\ Wasm!ShuffleEpi32(<<8, 10, 12, 14>>, 2, 1, 0, 3) = <<14, 8, 10, 12>>
        /\ Wasm!ShuffleEpi32(<<9, 11, 13, 15>>, 2, 1, 0, 3) = <<15, 9, 11, 13>>
    <3>1. \A a : IsList(a, 4) => Wasm!ShuffleEpi32(a, 2, 1, 0, 3) = <<a[4], a[1], a[2], a[3]>>
      BY WasmLanes
    <3>2. IsList(<<8, 10, 12, 14>>, 4) /\ IsList(<<9, 11, 13, 15>>, 4)
      BY <1>2
    <3> QED  BY <3>1, <3>2
  <2>4. Wasm!FirstWords(Rows) = << <<0, 2, 4, 6>>, <<1, 3, 5, 7>>, <<14, 8, 10, 12>>, <<15, 9, 11, 13>> >>
    BY <2>2, <2>3, Zenon DEF Wasm!FirstWords
  <2>5. \A i \in 0..15 : Scheduled(1)[i] = i
    BY DEF Scheduled, Schedule, Places
  <2>6. Grouped(Scheduled(1)) = << <<0, 2, 4, 6>>, <<1, 3, 5, 7>>, <<14, 8, 10, 12>>, <<15, 9, 11, 13>> >>
    BY <2>5 DEF Grouped
  <2> QED
    BY <2>4, <2>6
<1>5. ASSUME NEW m
      PROVE  Wasm!NextWords(Grouped(m)) = Grouped(Permute(m))
  <2> DEFINE g == Grouped(m)
  <2>1. /\ g[1] = <<m[0], m[2], m[4], m[6]>> /\ g[2] = <<m[1], m[3], m[5], m[7]>>
        /\ g[3] = <<m[14], m[8], m[10], m[12]>> /\ g[4] = <<m[15], m[9], m[11], m[13]>>
    BY DEF Grouped
  <2> HIDE DEF g
  <2>2. IsList(g[1], 4) /\ IsList(g[2], 4) /\ IsList(g[3], 4) /\ IsList(g[4], 4)
    BY <1>2, <2>1
  <2>3. Wasm!ShuffleEpi32(Wasm!ShuffleMacro(g[1], g[2], 3, 1, 1, 2), 0, 3, 2, 1) = <<m[2], m[3], m[7], m[4]>>
    <3>1. Wasm!ShuffleMacro(g[1], g[2], 3, 1, 1, 2) = <<m[4], m[2], m[3], m[7]>>
      BY <2>1, <2>2, WasmLanes
    <3>2. Wasm!ShuffleEpi32(<<m[4], m[2], m[3], m[7]>>, 0, 3, 2, 1) = <<m[2], m[3], m[7], m[4]>>
      BY <1>2, WasmLanes
    <3> QED  BY <3>1, <3>2, Zenon
  <2>4. Wasm!BlendEpi16(Wasm!ShuffleEpi32(g[1], 0, 0, 3, 3), Wasm!ShuffleMacro(g[3], g[4], 3, 3, 2, 2), 204) =
          <<m[6], m[10], m[0], m[13]>>
    <3>1. Wasm!ShuffleEpi32(g[1], 0, 0, 3, 3) = <<m[6], m[6], m[0], m[0]>>
      <4>1. Wasm!ShuffleEpi32(g[1], 0, 0, 3, 3) = <<g[1][4], g[1][4], g[1][1], g[1][1]>>
        BY <2>2, WasmLanes
      <4> QED  BY <2>1, <4>1
    <3>2. Wasm!ShuffleMacro(g[3], g[4], 3, 3, 2, 2) = <<m[10], m[10], m[13], m[13]>>
      BY <2>1, <2>2, WasmLanes
    <3>3. Wasm!BlendEpi16(<<m[6], m[6], m[0], m[0]>>, <<m[10], m[10], m[13], m[13]>>, 204) =
            <<m[6], m[10], m[0], m[13]>>
      BY WasmBlends
    <3> QED  BY <3>1, <3>2, <3>3, Zenon
  <2>5. Wasm!ShuffleEpi32(Wasm!BlendEpi16(Wasm!UnpackLoEpi64(g[4], g[2]), g[3], 192), 1, 3, 2, 0) =
          <<m[15], m[1], m[12], m[9]>>
    <3>1. Wasm!UnpackLoEpi64(g[4], g[2]) = <<m[15], m[9], m[1], m[3]>>
      BY <2>1, <2>2, WasmLanes
    <3>2. Wasm!BlendEpi16(<<m[15], m[9], m[1], m[3]>>, g[3], 192) = <<m[15], m[9], m[1], m[12]>>
      BY <2>1, WasmBlends
    <3>3. Wasm!ShuffleEpi32(<<m[15], m[9], m[1], m[12]>>, 1, 3, 2, 0) = <<m[15], m[1], m[12], m[9]>>
      BY <1>2, WasmLanes
    <3> QED  BY <3>1, <3>2, <3>3, Zenon
  <2>6. Wasm!ShuffleEpi32(Wasm!UnpackLoEpi32(g[3], Wasm!UnpackHiEpi32(g[2], g[4])), 0, 1, 3, 2) =
          <<m[8], m[11], m[5], m[14]>>
    <3>1. Wasm!UnpackHiEpi32(g[2], g[4]) = <<m[5], m[11], m[7], m[13]>>
      BY <2>1, <2>2, WasmLanes
    <3>2. Wasm!UnpackLoEpi32(g[3], <<m[5], m[11], m[7], m[13]>>) = <<m[14], m[5], m[8], m[11]>>
      BY <1>2, <2>1, <2>2, WasmLanes
    <3>3. Wasm!ShuffleEpi32(<<m[14], m[5], m[8], m[11]>>, 0, 1, 3, 2) = <<m[8], m[11], m[5], m[14]>>
      BY <1>2, WasmLanes
    <3> QED  BY <3>1, <3>2, <3>3, Zenon
  <2>7. Wasm!NextWords(g) = << <<m[2], m[3], m[7], m[4]>>, <<m[6], m[10], m[0], m[13]>>,
                             <<m[15], m[1], m[12], m[9]>>, <<m[8], m[11], m[5], m[14]>> >>
    BY <2>3, <2>4, <2>5, <2>6, Zenon DEF Wasm!NextWords
  <2> QED
    BY <2>7, Regrouped, Zenon DEF g
<1> QED
  BY <1>1, <1>3, <1>4, <1>5, Zenon

\* compress_in_place and compress_xof of wasm32_simd.rs mix as the reference.
LEMMA WasmCompresses == Wasm!CompressXof = Reference /\ Wasm!CompressInPlace = Reference
<1> DEFINE first(f, r) == IF r = 1 THEN Wasm!FirstWords(Rows) ELSE Wasm!NextWords(f[r - 1])
           next(f, r) == IF r = 0 THEN Rows ELSE Wasm!Undiagonalize(Wasm!Diagonalize(f[r - 1]))
           words[r \in 1..7] == first(words, r)
           rows[r \in 0..7] == next(rows, r)
           round(r) == <<Wasm!G1(rows[r - 1], words[r][1]), Wasm!G2(rows[r - 1], words[r][2]),
                         Wasm!G1(Wasm!Diagonalize(rows[r - 1]), words[r][3]),
                         Wasm!G2(Wasm!Diagonalize(rows[r - 1]), words[r][4])>>
<1>1. \A r \in 1..7 : words[r] = Grouped(Scheduled(r))
  <2> DEFINE g == [r \in 1..7 |-> Grouped(Scheduled(r))]
  <2>1. \A r \in 2..7 : Wasm!NextWords(Grouped(Scheduled(r - 1))) = Grouped(Scheduled(r))
    BY WasmShuffles, Permuted
  <2>2. \A r \in 1..7 : first(g, r) = Grouped(Scheduled(r))
    <3>1. \A r \in 1..7 : r # 1 => r \in 2..7 /\ r - 1 \in 1..7
      OBVIOUS
    <3> QED  BY <2>1, <3>1, WasmShuffles
  <2>3. g = [r \in 1..7 |-> first(g, r)]
    BY <2>2
  <2>4. words = [r \in 1..7 |-> first(words, r)]
    <3> HIDE DEF g, first
    <3> QED  BY <2>3
  <2> HIDE DEF words
  <2>5. words[1] = Grouped(Scheduled(1))
    BY <2>4, WasmShuffles
  <2>6. \A r \in 2..7 : words[r - 1] = Grouped(Scheduled(r - 1)) => words[r] = Grouped(Scheduled(r))
    <3>1. \A r \in 2..7 : words[r] = Wasm!NextWords(words[r - 1])
      BY <2>4
    <3> QED  BY <2>1, <3>1
  <2> QED
    BY <2>5, <2>6, GroupedWords
<1>2. \A r \in 0..7 : rows[r] = Rows
  <2> DEFINE g == [r \in 0..7 |-> Rows]
  <2>1. Wasm!Undiagonalize(Wasm!Diagonalize(Rows)) = Rows
    BY WasmShuffles, Zenon
  <2>2. \A r \in 0..7 : next(g, r) = Rows
    BY <2>1
  <2>3. g = [r \in 0..7 |-> next(g, r)]
    BY <2>2
  <2>4. rows = [r \in 0..7 |-> next(rows, r)]
    <3> HIDE DEF g, next
    <3> QED  BY <2>3
  <2> HIDE DEF rows
  <2>5. rows[0] = Rows
    BY <2>4
  <2>6. \A r \in 1..7 : rows[r - 1] = Rows => rows[r] = Rows
    BY <2>1, <2>4
  <2> QED
    BY <2>5, <2>6, RowsReturn
<1>3. Wasm!CompressPre =
        Compression([r \in 1..7 |-> round(r)],
                    [i \in 1..4 |-> {rows[7][1][i], rows[7][3][i]}]
                      \o [i \in 1..4 |-> {rows[7][2][i], rows[7][4][i]}],
                    [i \in 1..4 |-> <<rows[7][3][i], i - 1>>]
                      \o [i \in 1..4 |-> <<rows[7][4][i], i + 3>>])
  BY DEF Wasm!CompressPre, Wasm!RowCompression, Wasm!Compression, Compression, Wasm!Rows, Rows
<1> HIDE DEF words, rows
<1>4. \A r \in 1..7 : round(r) = RoundWith(Scheduled(r))
  <2> TAKE r \in 1..7
  <2>1. rows[r - 1] = Rows /\ words[r] = Grouped(Scheduled(r))
    BY <1>1, <1>2
  <2>2. \A w : /\ Wasm!G1(Rows, w) = HalfSteps(Rows, w, 16, 12)
               /\ Wasm!G1(Turned, w) = HalfSteps(Turned, w, 16, 12)
               /\ Wasm!G2(Rows, w) = HalfSteps(Rows, w, 8, 7)
               /\ Wasm!G2(Turned, w) = HalfSteps(Turned, w, 8, 7)
    BY WasmShuffles, Zenon DEF Wasm!G1, Wasm!G2, Wasm!HalfSteps, HalfSteps
  <2>3. round(r) = <<HalfSteps(Rows, words[r][1], 16, 12), HalfSteps(Rows, words[r][2], 8, 7),
                     HalfSteps(Turned, words[r][3], 16, 12), HalfSteps(Turned, words[r][4], 8, 7)>>
    BY <2>1, <2>2, WasmShuffles, Zenon
  <2> QED
    BY <2>1, <2>3, RowRounds, Zenon
<1> HIDE DEF round
<1>5. [r \in 1..7 |-> round(r)] = [r \in 1..7 |-> RoundWith(Scheduled(r))]
  BY <1>4
<1>6. rows[7] = Rows
  BY <1>2
<1>7. Wasm!CompressPre = Compression([r \in 1..7 |-> RoundWith(Scheduled(r))], CvPairs, XofPairs)
  BY <1>3, <1>5, <1>6, RowEnds, Zenon
<1> QED
  BY <1>7, ReferenceIs, Zenon DEF Wasm!CompressXof, Wasm!CompressInPlace

-----------------------------------------------------------------------------
(* The groups of the foreign kernels *)

\* Every non-empty set of naturals has a least member.
LEMMA Least ==
  ASSUME NEW T, T \subseteq Nat, T # {}
  PROVE  \E m \in T : \A k \in T : m <= k
<1> DEFINE R == StrictSubsetOrdering(Nat)
           U == {0..n : n \in T}
<1>1. IsWellFoundedOn(R, FiniteSubsetsOf(Nat))
  BY FS_StrictSubsetOrderingWellFounded
<1>2. U \subseteq FiniteSubsetsOf(Nat) /\ U # {}
  <2>1. \A n \in Nat : IsFiniteSet(0..n)
    BY FS_Interval
  <2>2. \A n \in T : 0..n \in FiniteSubsetsOf(Nat)
    BY <2>1 DEF FiniteSubsetsOf
  <2> QED
    BY <2>2
<1>3. PICK x \in U : \A y \in U : ~(<<y, x>> \in R)
  <2> HIDE DEF R, U
  <2> QED
    BY <1>1, <1>2, WFMin
<1>4. PICK m \in T : x = 0..m
  OBVIOUS
<1>5. ASSUME NEW k \in T, k < m
      PROVE  FALSE
  <2>1. 0..k \subseteq 0..m /\ 0..k # 0..m /\ 0..k \in U
    <3>1. m \in 0..m /\ m \notin 0..k
      BY <1>5
    <3>2. 0..k \subseteq 0..m
      BY <1>5
    <3> QED
      BY <3>1, <3>2
  <2>2. <<0..k, 0..m>> \in (SUBSET Nat) \X (SUBSET Nat)
    OBVIOUS
  <2>3. <<0..k, 0..m>> \in R
    BY <2>1, <2>2 DEF StrictSubsetOrdering
  <2> QED
    BY <1>3, <1>4, <2>1, <2>3
<1> QED
  BY <1>5

\* What holds of zero, and of the next of all it holds of, holds of every natural.
LEMMA Induction ==
  ASSUME NEW S, 0 \in S, \A n \in Nat : n \in S => n + 1 \in S
  PROVE  Nat \subseteq S
<1> SUFFICES ASSUME Nat \ S # {} PROVE FALSE
  OBVIOUS
<1>1. PICK m \in Nat \ S : \A k \in Nat \ S : m <= k
  BY Least
<1>2. m - 1 \in Nat /\ m - 1 \in S
  BY <1>1
<1>3. (m - 1) + 1 = m
  OBVIOUS
<1> QED
  BY <1>1, <1>2, <1>3

\* The widest group that fits, as GroupsOf chooses it
WideOf(w, m) == CHOOSE i \in DOMAIN w : w[i] <= m /\ \A j \in 1..i - 1 : w[j] > m

\* Widths of groups, the last of which is one
AreWidths(w, k) == DOMAIN w = 1..k /\ w[k] = 1 /\ \A i \in 1..k : w[i] \in Nat \ {0}

\* One step of GroupsOf, and what follows every step
GroupsNext(g, w, m) ==
  IF m = 0 THEN {} ELSE {w[WideOf(w, m)]} \cup g[m - w[WideOf(w, m)]]

AreGroups(g, w, n) == g = [m \in 0..n |-> GroupsNext(g, w, m)]

\* Some group always fits.
LEMMA SomeFits ==
  ASSUME NEW w, NEW k \in Nat \ {0}, AreWidths(w, k), NEW m \in Nat \ {0}
  PROVE  LET i == WideOf(w, m) IN i \in 1..k /\ w[i] <= m /\ \A j \in 1..i - 1 : w[j] > m
<1> DEFINE T == {i \in 1..k : w[i] <= m}
<1>1. T \subseteq Nat /\ k \in T
  BY DEF AreWidths
<1>2. PICK i \in T : \A j \in T : i <= j
  <2> HIDE DEF T
  <2> QED  BY <1>1, Least
<1>3. i \in DOMAIN w /\ w[i] <= m /\ \A j \in 1..i - 1 : w[j] > m
  <2>1. \A j \in 1..i - 1 : j \in 1..k /\ j \notin T
    BY <1>2
  <2>2. \A j \in 1..i - 1 : w[j] > m
    BY <2>1 DEF AreWidths
  <2> QED  BY <1>2, <2>2 DEF AreWidths
<1>4. \E x \in DOMAIN w : w[x] <= m /\ \A j \in 1..x - 1 : w[j] > m
  BY <1>3
<1>5. WideOf(w, m) \in DOMAIN w /\ w[WideOf(w, m)] <= m /\ \A j \in 1..WideOf(w, m) - 1 : w[j] > m
  BY <1>4 DEF WideOf
<1> QED
  BY <1>5 DEF AreWidths

\* GroupsOf is defined for every number of inputs.
LEMMA GroupsExist ==
  ASSUME NEW w, NEW k \in Nat \ {0}, AreWidths(w, k), NEW n \in Nat
  PROVE  \E g : AreGroups(g, w, n)
<1> DEFINE S == {x \in Nat : \E g : AreGroups(g, w, x)}
<1>1. 0 \in S
  <2> DEFINE g == [m \in 0..0 |-> {}]
  <2>1. AreGroups(g, w, 0)
    BY DEF AreGroups, GroupsNext
  <2> HIDE DEF g
  <2> QED  BY <2>1
<1>2. ASSUME NEW x \in Nat, x \in S
      PROVE  x + 1 \in S
  <2>1. PICK f : AreGroups(f, w, x)
    BY <1>2
  <2> DEFINE i == WideOf(w, x + 1)
             g == [m \in 0..x + 1 |-> IF m <= x THEN f[m] ELSE {w[i]} \cup f[(x + 1) - w[i]]]
  <2>2. i \in 1..k /\ w[i] <= x + 1 /\ w[i] \in Nat \ {0}
    BY SomeFits DEF AreWidths
  <2>3. \A m \in 1..x : w[WideOf(w, m)] \in Nat \ {0} /\ w[WideOf(w, m)] <= m
    BY SomeFits DEF AreWidths
  <2> HIDE DEF i
  <2>4. \A m \in 0..x + 1 : g[m] = GroupsNext(g, w, m)
    <3> TAKE m \in 0..x + 1
    <3>1. CASE m = 0
      BY <2>1, <3>1 DEF AreGroups, GroupsNext
    <3>2. CASE m \in 1..x
      <4> DEFINE y == m - w[WideOf(w, m)]
      <4>1. m \in 0..x /\ m # 0 /\ m <= x /\ y \in 0..x /\ y <= x
        BY <2>3, <3>2
      <4>2. f[m] = GroupsNext(f, w, m)
        BY <2>1, <4>1 DEF AreGroups
      <4>3. f[m] = {w[WideOf(w, m)]} \cup f[y]
        BY <4>1, <4>2 DEF GroupsNext
      <4>4. g[m] = f[m] /\ g[y] = f[y]
        BY <4>1
      <4>5. GroupsNext(g, w, m) = {w[WideOf(w, m)]} \cup g[y]
        BY <4>1 DEF GroupsNext
      <4> HIDE DEF g
      <4> QED  BY <4>3, <4>4, <4>5
    <3>3. CASE m = x + 1
      <4>1. (x + 1) - w[i] \in 0..x /\ x + 1 # 0 /\ ~(x + 1 <= x)
        BY <2>2
      <4>2. g[m] = {w[i]} \cup f[(x + 1) - w[i]]
        BY <3>3, <4>1
      <4>3. g[(x + 1) - w[i]] = f[(x + 1) - w[i]]
        BY <4>1
      <4> HIDE DEF g
      <4> QED  BY <3>3, <4>1, <4>2, <4>3 DEF GroupsNext, i
    <3> QED  BY <3>1, <3>2, <3>3
  <2>5. AreGroups(g, w, x + 1)
    <3>1. g = [m \in 0..x + 1 |-> g[m]]
      OBVIOUS
    <3> HIDE DEF g
    <3> QED  BY <2>4, <3>1 DEF AreGroups
  <2> HIDE DEF g
  <2> QED  BY <2>5
<1>3. Nat \subseteq S
  <2> HIDE DEF S
  <2> QED  BY <1>1, <1>2, Induction
<1> QED
  BY <1>3

\* The groups of GroupsOf
LEMMA GroupsAre ==
  ASSUME NEW w, NEW k \in Nat \ {0}, AreWidths(w, k), NEW n \in Nat
  PROVE  \E g : AreGroups(g, w, n) /\ GroupsOf(w, n) = g[n]
<1> DEFINE groups == CHOOSE g : AreGroups(g, w, n)
<1>1. GroupsOf(w, n) = groups[n]
  BY Zenon DEF GroupsOf, AreGroups, GroupsNext, WideOf
<1>2. AreGroups(groups, w, n)
  BY GroupsExist
<1> HIDE DEF groups
<1> QED
  BY <1>1, <1>2

\* As many inputs as fill groups of the widest size are in such groups only.
LEMMA WidestGroups ==
  ASSUME NEW w, NEW k \in Nat \ {0}, AreWidths(w, k), w[1] \in {8, 16}, NEW q \in Nat
  PROVE  GroupsOf(w, q * w[1]) \subseteq {w[1]}
<1> DEFINE d == w[1]
           n == q * d
<1>0. d \in {8, 16} /\ n \in Nat
  OBVIOUS
<1>1. PICK g : AreGroups(g, w, n) /\ GroupsOf(w, n) = g[n]
  <2> HIDE DEF n
  <2> QED  BY <1>0, GroupsAre
<1> DEFINE S == {x \in Nat : x <= q => g[x * d] \subseteq {d}}
<1>2. 0 \in S
  <2>1. g[0] = {}
    BY <1>0, <1>1 DEF AreGroups, GroupsNext
  <2> QED  BY <1>0, <2>1
<1>3. ASSUME NEW x \in Nat, x \in S, x + 1 <= q
      PROVE  g[(x + 1) * d] \subseteq {d}
  <2> DEFINE m == (x + 1) * d
  <2>1. m \in 1..n /\ m - d = x * d /\ d <= m
    <3>1. CASE d = 8
      BY <1>3, <3>1
    <3>2. CASE d = 16
      BY <1>3, <3>2
    <3> QED  BY <1>0, <3>1, <3>2
  <2>2. g[x * d] \subseteq {d}
    BY <1>3
  <2> HIDE DEF m, n
  <2>3. WideOf(w, m) = 1
    <3>1. WideOf(w, m) \in 1..k /\ \A j \in 1..WideOf(w, m) - 1 : w[j] > m
      BY <1>0, <2>1, SomeFits
    <3> QED  BY <1>0, <2>1, <3>1
  <2>4. g[m] = {d} \cup g[m - d]
    BY <1>0, <1>1, <2>1, <2>3 DEF AreGroups, GroupsNext
  <2> HIDE DEF d
  <2> QED  BY <2>1, <2>2, <2>4 DEF m
<1>4. \A x \in Nat : x \in S => x + 1 \in S
  BY <1>3
<1>5. Nat \subseteq S
  <2> HIDE DEF S
  <2> QED  BY <1>2, <1>4, Induction
<1> QED
  BY <1>1, <1>5

\* A number of inputs that is a width makes one group.
LEMMA OneGroup ==
  ASSUME NEW w, NEW k \in Nat \ {0}, AreWidths(w, k), NEW n \in Nat \ {0}, w[WideOf(w, n)] = n
  PROVE  GroupsOf(w, n) = {n}
<1>1. PICK g : AreGroups(g, w, n) /\ GroupsOf(w, n) = g[n]
  BY GroupsAre
<1>2. g[0] = {} /\ g[n] = {n} \cup g[n - n] /\ n - n = 0
  BY <1>1 DEF AreGroups, GroupsNext
<1> QED
  BY <1>1, <1>2

-----------------------------------------------------------------------------
(* The invariant *)

\* Every instruction set of x86 has a kernel, and AVX-512 is compiled once.
BuildInv ==
  phase \notin {"source", "panicked"} =>
    /\ IsX86(target) => /\ cfgs \cap {"sse2_rust", "sse2_ffi"} # {}
                        /\ cfgs \cap {"sse41_rust", "sse41_ffi"} # {}
                        /\ cfgs \cap {"avx2_rust", "avx2_ffi"} # {}
    /\ "avx512_ffi" \in cfgs => ("avx512_asm" \in cfgs <=> "avx512_c" \notin cfgs)

Platforms == {"Portable", "SSE2", "SSE41", "AVX2", "AVX512", "NEON", "WASM32_SIMD"}

Chosen == phase \notin {"source", "panicked", "built"}

\* The platform is one that the build and the processor allow.
PlatformInv ==
  Chosen =>
    /\ platform \in Platforms
    /\ platform \in {"SSE2", "SSE41", "AVX2", "AVX512"} => IsX86(target)
    /\ platform = "SSE2" => "sse2" \in cpu
    /\ platform = "SSE41" => "sse41" \in cpu
    /\ platform = "AVX2" => "avx2" \in cpu
    /\ platform = "AVX512" => "avx512" \in cpu /\ "avx512_ffi" \in cfgs
    /\ platform = "NEON" => "neon" \in cfgs
    /\ platform = "WASM32_SIMD" => "wasm32_simd" \in cfgs
    /\ sse41 => "sse41" \in cpu
    /\ IsX86(target) => cpu \in Cpus

\* What runs is compiled, and comes to no narrow group of a wide kernel; only the SSE4.1
\* kernel of the AVX2 platform can want instructions the processor lacks.
GoodRun(r) ==
  /\ IsCompiled(r.kernel)
  /\ ~Supported(r) => platform = "AVX2" /\ r.kernel = "sse41"
  /\ r.kernel \in {"avx2", "avx512"} => r.widths \cap {2, 4} = {}

BatchRun(r) == GoodRun(r) /\ Supported(r)

\* Nothing has run before a method does its work, and what a batch runs is supported.
RunsInv ==
  /\ phase \notin {"tail", "done"} => ran = {}
  /\ \A r \in ran : GoodRun(r)
  /\ call.method = "hash_many" => \A r \in ran : Supported(r)

HashCalls == [method : {"hash_many"}, n : Counts, blocks : BlockCounts, counter : FirstCounters,
              increment : BOOLEAN]

CallInv ==
  /\ phase \in {"full", "tail"} => call \in HashCalls
  /\ phase = "done" /\ call.method = "hash_many" => call \in HashCalls
  /\ call.method = "xof_many" => call.written = call.halves

\* The inputs that are left are the last ones, and their counter is theirs; the slots of
\* those before them hold their hashes, and no other slot is touched.
IsRest(left) == rest.inputs = [i \in 1..left |-> (call.n - left) + i]

SlotsFilled(filled) ==
  /\ IsList(out, Len(out))
  /\ Len(out) \in Nat /\ Len(out) >= call.n
  /\ \A i \in 1..Len(out) :
       out[i] = IF i <= filled
                THEN ReferenceHash(i, call.blocks, Advanced(call.counter, call.increment, i - 1))
                ELSE Untouched

RestIs(left) ==
  /\ IsRest(left)
  /\ rest.counter = Advanced(call.counter, call.increment, call.n - left)
  /\ SlotsFilled(call.n - left)

SlotsInv ==
  /\ phase = "full" => RestIs(call.n)
  /\ phase = "tail" => \E left \in 0..call.n : RestIs(left)
  /\ phase = "done" /\ call.method = "hash_many" => SlotsFilled(call.n)

\* Blocks of output are those of the stream as soon as they are made.
StreamInv == BlocksAreTheStream

MachineInv == BuildInv /\ PlatformInv /\ RunsInv /\ CallInv /\ StreamInv

-----------------------------------------------------------------------------
(* Kernels that may run *)

\* The first n members of a list
LEMMA Whole ==
  ASSUME NEW f, NEW n \in Nat
  PROVE  SubSeq(f, 1, n) = [i \in 1..n |-> f[i]]
<1>1. SubSeq(f, 0 + 1, 0 + n) = [i \in 1..n |-> f[0 + i]]
  BY SubList
<1>2. 0 + 1 = 1 /\ 0 + n = n /\ \A i \in 1..n : 0 + i = i
  OBVIOUS
<1> QED
  BY <1>1, <1>2

\* build.rs gives an x86 target every kernel up to AVX2, and AVX-512 one implementation.
LEMMA BuildFacts ==
  ASSUME NEW t, NEW features, NEW support
  PROVE  LET c == BuildCfgs(t, features, support) IN
         /\ IsX86(t) => /\ c \cap {"sse2_rust", "sse2_ffi"} # {}
                        /\ c \cap {"sse41_rust", "sse41_ffi"} # {}
                        /\ c \cap {"avx2_rust", "avx2_ffi"} # {}
         /\ "avx512_ffi" \in c => ("avx512_asm" \in c <=> "avx512_c" \notin c)
<1> DEFINE c == BuildCfgs(t, features, support)
           s == SseAvx(t, features, support)
           a == Avx512(t, features, support)
<1>1. s = {"sse2_rust", "sse41_rust", "avx2_rust"} \/ s = {"sse2_ffi", "sse41_ffi", "avx2_ffi"}
  BY DEF SseAvx, RustSseAvx, AssemblySseAvx
<1>2. a = {} \/ a = {"avx512_ffi", "avx512_c"} \/ a = {"avx512_ffi", "avx512_asm"}
  BY DEF Avx512
<1>3. Neon(t, features) \subseteq {"neon"} /\ WasmSimd(t, features) \subseteq {"wasm32_simd"}
  BY DEF Neon, WasmSimd
<1>4. c = (IF IsX86(t) THEN s \cup a ELSE {}) \cup Neon(t, features) \cup WasmSimd(t, features)
  BY DEF BuildCfgs
<1> HIDE DEF c, s, a
<1>5. IsX86(t) => s \subseteq c
  BY <1>4
<1>6. IsX86(t) => /\ c \cap {"sse2_rust", "sse2_ffi"} # {}
                   /\ c \cap {"sse41_rust", "sse41_ffi"} # {}
                   /\ c \cap {"avx2_rust", "avx2_ffi"} # {}
  BY <1>1, <1>5
<1>7. "avx512_ffi" \in c => ("avx512_asm" \in c <=> "avx512_c" \notin c)
  <2> HAVE "avx512_ffi" \in c
  <2>1. "avx512_ffi" \in a /\ IsX86(t)
    BY <1>1, <1>3, <1>4
  <2>2. \A x \in {"avx512_asm", "avx512_c"} : x \in c <=> x \in a
    BY <1>1, <1>3, <1>4, <2>1
  <2> QED  BY <1>2, <2>1, <2>2
<1> QED
  BY <1>6, <1>7 DEF c

\* The lists of widths of the wide foreign kernels fall to one.
LEMMA Widths ==
  /\ AreWidths(<<8, 4, 2, 1>>, 4) /\ AreWidths(<<16, 8, 4, 2, 1>>, 5) /\ AreWidths(<<16, 8, 4, 1>>, 4)
BY DEF AreWidths

\* AVX-512 has one of two lists of widths.
LEMMA Wide512 ==
  ASSUME BuildInv, Chosen, "avx512_ffi" \in cfgs
  PROVE  LET w == ForeignWidths("avx512") IN
         /\ w = <<16, 8, 4, 2, 1>> \/ w = <<16, 8, 4, 1>>
         /\ \E k \in Nat \ {0} : AreWidths(w, k)
         /\ w[1] = 16 /\ w[WideOf(w, 8)] = 8 /\ w[WideOf(w, 1)] = 1
<1> DEFINE w == ForeignWidths("avx512")
<1>1. "avx512_asm" \in cfgs <=> "avx512_c" \notin cfgs
  BY DEF BuildInv, Chosen
<1>2. w = <<16, 8, 4, 2, 1>> \/ w = <<16, 8, 4, 1>>
  <2>1. CASE "avx512_asm" \in cfgs
    BY <1>1, <2>1 DEF ForeignWidths
  <2>2. CASE "avx512_c" \in cfgs
    BY <1>1, <2>2 DEF ForeignWidths
  <2> QED  BY <1>1, <2>1, <2>2
<1> HIDE DEF w
<1>3. \E k \in Nat \ {0} : AreWidths(w, k)
  BY <1>2, Widths
<1>5. w[WideOf(w, 1)] = 1
  <2>1. PICK k \in Nat \ {0} : AreWidths(w, k)
    BY <1>3
  <2>2. WideOf(w, 1) \in 1..k /\ w[WideOf(w, 1)] <= 1
    BY <2>1, SomeFits
  <2> QED  BY <2>1, <2>2 DEF AreWidths
<1>6. w[WideOf(w, 8)] = 8
  <2> DEFINE i == WideOf(w, 8)
  <2>1. PICK k \in Nat \ {0} : AreWidths(w, k)
    BY <1>3
  <2>2. i \in 1..k /\ w[i] <= 8 /\ \A j \in 1..i - 1 : w[j] > 8
    BY <2>1, SomeFits
  <2> HIDE DEF i
  <2>3. w[1] = 16 /\ w[2] = 8
    BY <1>2
  <2>4. i # 1 /\ ~(i > 2)
    BY <2>2, <2>3
  <2>5. i = 2
    BY <2>2, <2>4
  <2> QED  BY <2>3, <2>5 DEF i
<1> QED
  BY <1>2, <1>3, <1>5, <1>6 DEF w

\* What a platform may run: full groups, eight more on AVX-512, tails and single blocks
LEMMA GoodRuns ==
  ASSUME BuildInv, PlatformInv, Chosen
  PROVE  /\ SimdDegree \in {1, 4, 8, 16}
         /\ \A q \in Nat : BatchRun(Run(SimdKernel, q * SimdDegree))
         /\ platform = "AVX512" => BatchRun(Run(SimdKernel, 8)) /\ BatchRun(Run("avx512", 1))
         /\ \A n : BatchRun(Run(TailKernel, n))
         /\ GoodRun(Run(CompressKernel, 1))
<1>1. \A kernel, n : Run(kernel, n).kernel = kernel
  BY DEF Run
<1>2. \A kernel, n : IsCompiled(kernel) /\ kernel \notin X86Kernels =>
                       BatchRun(Run(kernel, n))
  BY <1>1 DEF BatchRun, GoodRun, Supported, X86Kernels
<1>3. IsX86(target) => \A n : /\ "sse2" \in cpu => BatchRun(Run("sse2", n))
                              /\ "sse41" \in cpu => BatchRun(Run("sse41", n))
  BY <1>1 DEF BatchRun, GoodRun, Supported, X86Kernels, BuildInv, Chosen, IsCompiled
<1>4. BatchRun(Run("portable", 1)) /\ \A n : BatchRun(Run("portable", n))
  BY <1>2 DEF IsCompiled, X86Kernels
<1>5. platform = "AVX512" =>
        IsX86(target) /\ "avx512" \in cpu /\ "avx512_ffi" \in cfgs
  BY DEF PlatformInv
<1>6. ASSUME platform = "AVX512", NEW n, GroupsOf(ForeignWidths("avx512"), n) \cap {2, 4} = {}
      PROVE  BatchRun(Run("avx512", n))
  <2>1. IsCompiled("avx512") /\ Run("avx512", n).widths \cap {2, 4} = {}
    BY <1>5, <1>6 DEF IsCompiled, Run, IsForeign
  <2> QED  BY <1>1, <1>5, <1>6, <2>1 DEF BatchRun, GoodRun, Supported, X86Kernels
<1>7. ASSUME platform = "AVX512"
      PROVE  /\ BatchRun(Run("avx512", 8)) /\ BatchRun(Run("avx512", 1))
             /\ \A q \in Nat : BatchRun(Run("avx512", q * 16))
  <2> DEFINE w == ForeignWidths("avx512")
  <2>1. /\ \E k \in Nat \ {0} : AreWidths(w, k)
        /\ w[1] = 16 /\ w[WideOf(w, 8)] = 8 /\ w[WideOf(w, 1)] = 1
    BY <1>5, <1>7, Wide512
  <2> HIDE DEF w
  <2>2. GroupsOf(w, 8) = {8} /\ GroupsOf(w, 1) = {1}
    BY <2>1, OneGroup
  <2>3. \A q \in Nat : GroupsOf(w, q * 16) \subseteq {16}
    BY <2>1, WidestGroups
  <2>4. GroupsOf(w, 8) \cap {2, 4} = {} /\ GroupsOf(w, 1) \cap {2, 4} = {}
    BY <2>2
  <2>5. \A q \in Nat : GroupsOf(w, q * 16) \cap {2, 4} = {}
    BY <2>3
  <2> QED  BY <1>6, <1>7, <2>4, <2>5 DEF w
<1>8. ASSUME platform = "AVX2", NEW q \in Nat
      PROVE  BatchRun(Run("avx2", q * 8))
  <2>1. IsX86(target) /\ "avx2" \in cpu /\ IsCompiled("avx2")
    BY <1>8 DEF PlatformInv, BuildInv, Chosen, IsCompiled
  <2>2. GroupsOf(<<8, 4, 2, 1>>, q * 8) \subseteq {8}
    <3> DEFINE w == <<8, 4, 2, 1>>
    <3>1. AreWidths(w, 4) /\ w[1] = 8 /\ 4 \in Nat \ {0}
      BY Widths
    <3> HIDE DEF w
    <3>2. GroupsOf(w, q * w[1]) \subseteq {w[1]}
      BY <3>1, WidestGroups
    <3> QED  BY <3>1, <3>2 DEF w
  <2>3. ForeignWidths("avx2") = <<8, 4, 2, 1>>
    BY DEF ForeignWidths
  <2>4. Run("avx2", q * 8).widths \subseteq {8}
    BY <2>2, <2>3 DEF Run
  <2> QED  BY <1>1, <2>1, <2>4 DEF BatchRun, GoodRun, Supported, X86Kernels
<1>9. platform \in Platforms
  BY DEF PlatformInv
<1>10. SimdDegree \in {1, 4, 8, 16}
  BY <1>9 DEF SimdDegree, Platforms
<1>11. ASSUME NEW q \in Nat
       PROVE  BatchRun(Run(SimdKernel, q * SimdDegree))
  <2>1. CASE platform = "AVX2"
    BY <1>8, <2>1 DEF SimdKernel, SimdDegree
  <2>2. CASE platform = "AVX512"
    BY <1>7, <2>2 DEF SimdKernel, SimdDegree
  <2>3. CASE platform \in {"Portable", "SSE2", "SSE41", "NEON", "WASM32_SIMD"}
    <3>1. CASE platform \in {"SSE2", "SSE41"}
      BY <1>3, <3>1 DEF SimdKernel, PlatformInv
    <3>2. CASE platform \in {"Portable", "NEON", "WASM32_SIMD"}
      <4>1. SimdKernel \in {"portable", "neon", "wasm32_simd"} /\ IsCompiled(SimdKernel)
        BY <3>2 DEF SimdKernel, PlatformInv, IsCompiled
      <4> QED  BY <1>2, <4>1 DEF X86Kernels
    <3> QED  BY <2>3, <3>1, <3>2
  <2> QED  BY <1>9, <2>1, <2>2, <2>3 DEF Platforms
<1>12. platform = "AVX512" => BatchRun(Run(SimdKernel, 8)) /\ BatchRun(Run("avx512", 1))
  BY <1>7 DEF SimdKernel
<1>13. ASSUME NEW n
       PROVE  BatchRun(Run(TailKernel, n))
  <2>1. CASE TailKernel = "portable"
    BY <1>4, <2>1
  <2>2. CASE TailKernel = "sse41"
    BY <1>3, <2>2 DEF TailKernel, PlatformInv
  <2>3. CASE TailKernel = "sse2"
    BY <1>3, <2>3 DEF TailKernel, PlatformInv
  <2> QED  BY <1>9, <2>1, <2>2, <2>3 DEF TailKernel, Platforms
<1>14. GoodRun(Run(CompressKernel, 1))
  <2>1. \A kernel : BatchRun(Run(kernel, 1)) => GoodRun(Run(kernel, 1))
    BY DEF BatchRun
  <2>2. CASE platform \in {"Portable", "NEON"}
    BY <1>4, <2>1, <2>2 DEF CompressKernel
  <2>3. CASE platform \in {"SSE2", "SSE41"}
    BY <1>3, <2>1, <2>3 DEF CompressKernel, PlatformInv
  <2>4. CASE platform = "AVX2"
    <3>1. IsX86(target) /\ CompressKernel = "sse41" /\ IsCompiled("sse41")
      BY <2>4 DEF CompressKernel, PlatformInv, BuildInv, Chosen, IsCompiled
    <3> QED  BY <1>1, <2>4, <3>1 DEF GoodRun
  <2>5. CASE platform = "AVX512"
    BY <1>7, <2>1, <2>5 DEF CompressKernel
  <2>6. CASE platform = "WASM32_SIMD"
    <3>1. CompressKernel = "wasm32_simd" /\ IsCompiled("wasm32_simd")
      BY <2>6 DEF CompressKernel, PlatformInv, IsCompiled
    <3> QED  BY <1>2, <2>1, <3>1 DEF X86Kernels
  <2> QED  BY <1>9, <2>2, <2>3, <2>4, <2>5, <2>6 DEF Platforms
<1> QED
  BY <1>10, <1>11, <1>12, <1>13, <1>14

\* Every kernel compresses as the reference.
THEOREM CompressionIs ==
  ASSUME NEW kernel
  PROVE  CompressionOf(kernel) = Reference
BY Sse2Compresses, Sse41Compresses, WasmCompresses, PortableIs, Zenon DEF CompressionOf

\* Blocks of output of any kernel
LEMMA XofBlockIs ==
  ASSUME NEW kernel, NEW counter
  PROVE  XofBlock(kernel, counter) =
           Compressed(Key, MessageOf(1, 1), Low(counter), High(counter), {"flags"}, TRUE)
<1>1. CompressionOf(kernel) = Reference
  BY CompressionIs
<1>2. (CompressionOf(kernel) = Reference) = TRUE
  BY <1>1
<1> QED
  BY <1>2, Zenon DEF XofBlock

-----------------------------------------------------------------------------
(* The invariant of the machine, action by action *)

\* The machine, before a build
LEMMA InitMachine == Init => MachineInv
<1> SUFFICES ASSUME Init PROVE MachineInv
  OBVIOUS
<1>1. phase = "source" /\ ran = {} /\ call = NoCall
  BY DEF Init
<1>2. BuildInv /\ PlatformInv /\ RunsInv
  BY <1>1 DEF BuildInv, PlatformInv, RunsInv, Chosen
<1>3. CallInv /\ StreamInv
  BY <1>1 DEF CallInv, StreamInv, BlocksAreTheStream, NoCall
<1> QED
  BY <1>2, <1>3 DEF MachineInv

\* A build chooses kernels.
LEMMA BuildMachine == MachineInv /\ Build => MachineInv'
<1> SUFFICES ASSUME MachineInv, Build PROVE MachineInv'
  OBVIOUS
<1>1. /\ phase = "source" /\ phase' \in {"panicked", "built"} /\ UNCHANGED <<target, call, ran>>
      /\ phase' = "built" => \E features, support : cfgs' = BuildCfgs(target, features, support)
  BY DEF Build
<1>2. BuildInv'
  <2> SUFFICES ASSUME phase' = "built" PROVE BuildInv'
    BY <1>1 DEF BuildInv
  <2>1. PICK features, support : cfgs' = BuildCfgs(target, features, support)
    BY <1>1
  <2>2. /\ IsX86(target) => /\ cfgs' \cap {"sse2_rust", "sse2_ffi"} # {}
                            /\ cfgs' \cap {"sse41_rust", "sse41_ffi"} # {}
                            /\ cfgs' \cap {"avx2_rust", "avx2_ffi"} # {}
        /\ "avx512_ffi" \in cfgs' => ("avx512_asm" \in cfgs' <=> "avx512_c" \notin cfgs')
    BY <2>1, BuildFacts, Zenon
  <2>3. IsX86(target)' <=> IsX86(target)
    BY <1>1, Zenon
  <2> QED  BY <2>2, <2>3, Zenon DEF BuildInv
<1>3. PlatformInv'
  BY <1>1 DEF PlatformInv, Chosen
<1>4. RunsInv'
  BY <1>1 DEF MachineInv, RunsInv, Chosen
<1>5. CallInv' /\ StreamInv'
  BY <1>1 DEF MachineInv, CallInv, StreamInv, BlocksAreTheStream
<1> QED
  BY <1>2, <1>3, <1>4, <1>5 DEF MachineInv

\* Detection and the constructors choose a platform the processor has.
LEMMA ChooseMachine == MachineInv /\ Choose => MachineInv'
<1> SUFFICES ASSUME MachineInv, Choose PROVE MachineInv'
  OBVIOUS
<1>1. phase = "built" /\ phase' = "ready" /\ UNCHANGED <<target, cfgs, call, out, rest, ran>>
  BY DEF Choose
<1>2. PICK processor \in Cpus, off \in OffFeatures :
        LET found == IF IsX86(target) THEN Detected(processor, off) ELSE {}
        IN  /\ cpu' = IF IsX86(target) THEN processor ELSE {}
            /\ sse41' = ("sse41" \in found)
            /\ platform' \in {Widest(found)} \cup Constructed(found)
  BY DEF Choose
<1> DEFINE found == IF IsX86(target) THEN Detected(processor, off) ELSE {}
<1>3. found \subseteq cpu' /\ (~IsX86(target) => found = {})
  BY <1>2 DEF Detected
<1>4. /\ sse41' = ("sse41" \in found)
      /\ platform' = Widest(found) \/ platform' \in Constructed(found)
  BY <1>2
<1> HIDE DEF found
<1>5. IsX86(target) => cpu' \in Cpus
  BY <1>2
<1>6. /\ platform' \in Platforms
      /\ platform' \in {"SSE2", "SSE41", "AVX2", "AVX512"} => IsX86(target)
      /\ platform' = "SSE2" => "sse2" \in found
      /\ platform' = "SSE41" => "sse41" \in found
      /\ platform' = "AVX2" => "avx2" \in found
      /\ platform' = "AVX512" => "avx512" \in found /\ "avx512_ffi" \in cfgs
      /\ platform' = "NEON" => "neon" \in cfgs
      /\ platform' = "WASM32_SIMD" => "wasm32_simd" \in cfgs
  <2>1. CASE platform' = Widest(found)
    BY <2>1 DEF Widest, Platforms
  <2>2. CASE platform' \in Constructed(found)
    BY <2>2 DEF Constructed, Platforms
  <2> QED  BY <1>4, <2>1, <2>2
<1>7. IsX86(target)' <=> IsX86(target)
  BY <1>1, Zenon
<1>8. sse41' => "sse41" \in cpu'
  <2>2. sse41' => "sse41" \in found
    BY <1>4, Zenon
  <2> QED  BY <1>3, <2>2, Zenon
<1>9. PlatformInv'
  BY <1>1, <1>3, <1>5, <1>6, <1>7, <1>8 DEF PlatformInv
<1>10. BuildInv'
  BY <1>1, <1>7 DEF MachineInv, BuildInv
<1>11. RunsInv'
  BY <1>1 DEF MachineInv, RunsInv, Chosen
<1>12. CallInv' /\ StreamInv'
  BY <1>1 DEF MachineInv, CallInv, StreamInv, BlocksAreTheStream
<1> QED
  BY <1>9, <1>10, <1>11, <1>12 DEF MachineInv

\* A step of a method leaves the machine alone.
LEMMA SameMachine ==
  ASSUME MachineInv, UNCHANGED machine, Chosen, Chosen',
         ran' \subseteq ran \cup {r \in ran' : GoodRun(r)},
         phase' \notin {"tail", "done"} => ran' = {},
         call'.method = "hash_many" => \A r \in ran' : Supported(r)
  PROVE  BuildInv' /\ PlatformInv' /\ RunsInv'
<1>1. UNCHANGED <<target, cfgs, cpu, sse41, platform>>
  BY DEF machine
<1>2. BuildInv /\ PlatformInv /\ RunsInv
  BY DEF MachineInv
<1>3. BuildInv'
  BY <1>1, <1>2 DEF BuildInv, Chosen, IsX86, IsX86_64, IsX86_32
<1>4. PlatformInv'
  BY <1>1, <1>2 DEF PlatformInv, IsX86, IsX86_64, IsX86_32
<1>5. \A r : (GoodRun(r)' <=> GoodRun(r)) /\ (Supported(r)' <=> Supported(r))
  BY <1>1 DEF GoodRun, Supported, IsCompiled
<1>6. \A r \in ran' : GoodRun(r)
  BY <1>2 DEF RunsInv
<1>7. RunsInv'
  BY <1>5, <1>6 DEF RunsInv
<1> QED
  BY <1>3, <1>4, <1>7

\* hash_many takes its arguments.
LEMMA CallMachine == MachineInv /\ HashManyCall => MachineInv'
<1> SUFFICES ASSUME MachineInv, HashManyCall PROVE MachineInv'
  OBVIOUS
<1>1. PICK n \in Counts, blocks \in BlockCounts, counter \in FirstCounters, increment \in BOOLEAN :
        /\ call' = [method |-> "hash_many", n |-> n, blocks |-> blocks, counter |-> counter,
                    increment |-> increment]
        /\ phase' \in {"full", "refused"}
  BY DEF HashManyCall
<1>2. phase = "ready" /\ UNCHANGED machine /\ UNCHANGED ran
  BY DEF HashManyCall
<1>3. BuildInv' /\ PlatformInv' /\ RunsInv'
  <2>1. ran' = {}
    BY <1>2 DEF MachineInv, RunsInv
  <2> QED  BY <1>1, <1>2, <2>1, SameMachine DEF Chosen
<1>4. call' \in HashCalls
  BY <1>1 DEF HashCalls
<1>5. CallInv'
  BY <1>1, <1>4 DEF CallInv, HashCalls
<1>6. StreamInv'
  BY <1>1 DEF StreamInv, BlocksAreTheStream
<1> QED
  BY <1>3, <1>5, <1>6 DEF MachineInv

\* A step of hash_many: the call stays, and what runs is good.
LEMMA HashingMachine ==
  ASSUME MachineInv, UNCHANGED <<machine, call>>, phase \in {"full", "tail"}, phase' \in {"tail", "done"},
         ran' \subseteq ran \cup {r \in ran' : BatchRun(r)}
  PROVE  MachineInv'
<1>1. BuildInv' /\ PlatformInv' /\ RunsInv'
  <2>1. \A r \in ran' : GoodRun(r)
    BY DEF MachineInv, RunsInv, BatchRun
  <2>2. call'.method = "hash_many" => \A r \in ran' : Supported(r)
    BY DEF MachineInv, RunsInv, BatchRun
  <2>3. ran' \subseteq ran \cup {r \in ran' : GoodRun(r)}
    BY <2>1
  <2> QED  BY <2>2, <2>3, SameMachine DEF Chosen
<1>2. call \in HashCalls /\ call.method = "hash_many"
  BY DEF MachineInv, CallInv, HashCalls
<1>3. CallInv' /\ StreamInv'
  BY <1>2 DEF CallInv, StreamInv, BlocksAreTheStream, HashCalls
<1> QED
  BY <1>1, <1>3 DEF MachineInv

\* Full groups go to the kernel of the platform.
LEMMA FullMachine == MachineInv /\ HashFull => MachineInv'
<1> SUFFICES ASSUME MachineInv, HashFull PROVE MachineInv'
  OBVIOUS
<1>1. phase = "full" /\ phase' \in {"tail", "done"} /\ UNCHANGED <<machine, call>>
  BY DEF HashFull
<1>2. call.n \in Nat
  BY <1>1, CallAssumption DEF MachineInv, CallInv, HashCalls
<1>3. SimdDegree \in {1, 4, 8, 16} /\ \A q \in Nat : BatchRun(Run(SimdKernel, q * SimdDegree))
  BY <1>1, GoodRuns DEF MachineInv, Chosen
<1>4. call.n \div SimdDegree \in Nat
  BY <1>2, <1>3
<1>5. ran' = ran \/ ran' = ran \cup {Run(SimdKernel, (call.n \div SimdDegree) * SimdDegree)}
  BY DEF HashFull, Hash
<1>6. BatchRun(Run(SimdKernel, (call.n \div SimdDegree) * SimdDegree))
  BY <1>3, <1>4
<1>7. ran' \subseteq ran \cup {r \in ran' : BatchRun(r)}
  BY <1>5, <1>6
<1> QED
  BY <1>1, <1>7, HashingMachine

\* Eight more inputs on AVX-512
LEMMA PeelMachine == MachineInv /\ PeelEight => MachineInv'
<1> SUFFICES ASSUME MachineInv, PeelEight PROVE MachineInv'
  OBVIOUS
<1>1. phase = "tail" /\ phase' \in {"tail", "done"} /\ UNCHANGED <<machine, call>> /\ platform = "AVX512"
  BY DEF PeelEight, Peels
<1>2. BatchRun(Run(SimdKernel, 8))
  BY <1>1, GoodRuns DEF MachineInv, Chosen
<1>3. ran' = ran \cup {Run(SimdKernel, 8)}
  BY DEF PeelEight, Hash
<1>4. ran' \subseteq ran \cup {r \in ran' : BatchRun(r)}
  BY <1>2, <1>3
<1> QED
  BY <1>1, <1>4, HashingMachine

\* The tail goes to a narrower kernel.
LEMMA TailMachine == MachineInv /\ HashTail => MachineInv'
<1> SUFFICES ASSUME MachineInv, HashTail PROVE MachineInv'
  OBVIOUS
<1>1. phase = "tail" /\ phase' \in {"tail", "done"} /\ UNCHANGED <<machine, call>>
  BY DEF HashTail
<1>2. \A n : BatchRun(Run(TailKernel, n))
  BY <1>1, GoodRuns DEF MachineInv, Chosen
<1>3. ran' = ran \cup {Run(TailKernel, Len(rest.inputs))}
  BY DEF HashTail, Hash
<1>4. ran' \subseteq ran \cup {r \in ran' : BatchRun(r)}
  BY <1>2, <1>3
<1> QED
  BY <1>1, <1>4, HashingMachine

\* The block of a counter
StreamBlock(c) == Compressed(Key, MessageOf(1, 1), Low(c), High(c), {"flags"}, TRUE)

\* One block, and the first of a stream
LEMMA FirstBlock ==
  ASSUME NEW counter \in FirstCounters
  PROVE  (counter + 1 - 1) % CounterSpan = counter
<1>1. CounterSpan \in Nat
  BY CounterAssumption DEF CounterSpan
<1>2. counter \in 0..CounterSpan - 1
  BY CallAssumption
<1> HIDE DEF CounterSpan
<1>3. counter + 1 - 1 = counter
  BY <1>2
<1>4. \A c, s \in Nat : c <= s - 1 => c % s = c
  BY SMT
<1> QED
  BY <1>1, <1>2, <1>3, <1>4

\* One compression, with the kernel of the platform
LEMMA CompressMachine == MachineInv /\ Compress => MachineInv'
<1> SUFFICES ASSUME MachineInv, Compress PROVE MachineInv'
  OBVIOUS
<1>1. PICK counter \in FirstCounters :
        /\ call' = [method |-> "compress", counter |-> counter]
        /\ out' = <<XofBlock(CompressKernel, counter)>>
  BY DEF Compress
<1>2. phase = "ready" /\ phase' = "done" /\ UNCHANGED machine /\ ran' = {Run(CompressKernel, 1)}
  BY DEF Compress
<1>3. GoodRun(Run(CompressKernel, 1))
  BY <1>2, GoodRuns DEF MachineInv, Chosen
<1>4. BuildInv' /\ PlatformInv' /\ RunsInv'
  <2>1. ran' \subseteq ran \cup {r \in ran' : GoodRun(r)}
    BY <1>2, <1>3
  <2>2. call'.method # "hash_many"
    BY <1>1
  <2> QED  BY <1>2, <2>1, <2>2, SameMachine DEF Chosen
<1>5. CallInv'
  BY <1>1, <1>2 DEF CallInv
<1>6. StreamInv'
  <2>1. out' = <<StreamBlock(counter)>>
    BY <1>1, XofBlockIs DEF StreamBlock
  <2>2. \A i \in DOMAIN out' : i = 1 /\ out'[i] = StreamBlock(counter)
    BY <2>1
  <2>3. call'.counter = counter
    BY <1>1
  <2>4. \A i \in DOMAIN out' : out'[i] = StreamBlock((call'.counter + i - 1) % CounterSpan)
    BY <2>2, <2>3, FirstBlock
  <2> QED  BY <2>4 DEF StreamInv, BlocksAreTheStream, StreamBlock
<1> QED
  BY <1>4, <1>5, <1>6 DEF MachineInv

\* The blocks of an extended output
LEMMA XofMachine == MachineInv /\ XofMany => MachineInv'
<1> SUFFICES ASSUME MachineInv, XofMany PROVE MachineInv'
  OBVIOUS
<1>1. PICK counter \in FirstCounters, halves \in XofLengths :
       LET loops == halves % 2 = 1 \/ halves > 2 \/ ~HasForeignXof IN
       /\ call' = [method |-> "xof_many", counter |-> counter, halves |-> halves,
                   written |-> IF halves = 0 THEN 0 ELSE IF loops THEN halves
                               ELSE 2 * ((halves + 1) \div 2)]
       /\ out' = IF halves = 0 THEN <<>>
                 ELSE IF loops THEN XofLoop(counter, halves) ELSE ForeignXof(counter, halves)
       /\ ran' = IF halves = 0 THEN {} ELSE {Run(IF loops THEN CompressKernel ELSE "avx512", 1)}
  BY DEF XofMany
<1> DEFINE loops == halves % 2 = 1 \/ halves > 2 \/ ~HasForeignXof
<1>2. phase = "ready" /\ phase' = "done" /\ UNCHANGED machine
  BY DEF XofMany
<1>3. halves \in Nat
  BY CallAssumption
<1>4. ~loops => HasForeignXof /\ (halves = 0 \/ halves = 2)
  BY <1>3
<1>5. /\ call'.method = "xof_many" /\ call'.counter = counter /\ call'.halves = halves
      /\ call'.written = IF halves = 0 THEN 0 ELSE IF loops THEN halves ELSE 2 * ((halves + 1) \div 2)
  BY <1>1
<1>6. /\ out' = IF halves = 0 THEN <<>>
                ELSE IF loops THEN XofLoop(counter, halves) ELSE ForeignXof(counter, halves)
      /\ ran' = IF halves = 0 THEN {} ELSE {Run(IF loops THEN CompressKernel ELSE "avx512", 1)}
  BY <1>1
<1> HIDE DEF loops
<1>7. BuildInv' /\ PlatformInv' /\ RunsInv'
  <2>1. GoodRun(Run(CompressKernel, 1)) /\ (platform = "AVX512" => GoodRun(Run("avx512", 1)))
    BY <1>2, GoodRuns DEF MachineInv, Chosen, BatchRun
  <2>2. \A r \in ran' : GoodRun(r)
    BY <1>4, <1>6, <2>1 DEF HasForeignXof
  <2>3. ran' \subseteq ran \cup {r \in ran' : GoodRun(r)}
    BY <2>2
  <2>4. call'.method # "hash_many"
    BY <1>5
  <2> QED  BY <1>2, <2>3, <2>4, SameMachine DEF Chosen
<1>8. CallInv'
  <2>1. call'.written = call'.halves
    <3>1. CASE halves = 0
      BY <1>5, <3>1
    <3>2. CASE halves # 0 /\ loops
      BY <1>5, <3>2
    <3>3. CASE halves # 0 /\ ~loops
      BY <1>4, <1>5, <3>3
    <3> QED  BY <3>1, <3>2, <3>3
  <2> QED  BY <1>2, <1>5, <2>1 DEF CallInv
<1>9. \A i \in DOMAIN out' : out'[i] = StreamBlock((call'.counter + i - 1) % CounterSpan)
  <2>1. CASE halves = 0
    BY <1>6, <2>1
  <2>2. CASE halves # 0 /\ loops
    <3> DEFINE k == (halves + 1) \div 2
               b == [i \in 1..k |-> XofBlock(CompressKernel, (counter + i - 1) % CounterSpan)]
    <3>1. k \in Nat
      BY <1>3
    <3>2. XofLoop(counter, halves) = SubSeq(b, 1, k)
      BY DEF XofLoop, Listing
    <3> HIDE DEF k
    <3>3. SubSeq(b, 1, k) = [i \in 1..k |-> b[i]]
      <4> HIDE DEF b
      <4> QED  BY <3>1, Whole
    <3>4. \A i \in 1..k : b[i] = StreamBlock((counter + i - 1) % CounterSpan)
      BY XofBlockIs DEF StreamBlock
    <3> HIDE DEF b
    <3>5. out' = [i \in 1..k |-> b[i]]
      BY <1>6, <2>2, <3>2, <3>3
    <3> QED  BY <1>5, <3>4, <3>5
  <2>3. CASE halves # 0 /\ ~loops
    <3>1. halves = 2 /\ ~(halves > 2)
      BY <1>4, <2>3
    <3>2. out' = <<StreamBlock(counter)>>
      BY <1>6, <2>3, <3>1, XofBlockIs DEF ForeignXof, StreamBlock
    <3>3. \A i \in DOMAIN out' : i = 1 /\ out'[i] = StreamBlock(counter)
      BY <3>2
    <3> QED  BY <1>5, <3>3, FirstBlock
  <2> QED  BY <2>1, <2>2, <2>3
<1>10. StreamInv'
  BY <1>9 DEF StreamInv, BlocksAreTheStream, StreamBlock
<1> QED
  BY <1>7, <1>8, <1>10 DEF MachineInv

\* A method returns.
LEMMA ReturnMachine == MachineInv /\ Return => MachineInv'
<1> SUFFICES ASSUME MachineInv, Return PROVE MachineInv'
  OBVIOUS
<1>1. /\ phase \in {"done", "refused"} /\ phase' = "ready" /\ call' = NoCall /\ ran' = {}
      /\ UNCHANGED machine
  BY DEF Return
<1>2. BuildInv' /\ PlatformInv' /\ RunsInv'
  BY <1>1, SameMachine DEF Chosen
<1>3. CallInv' /\ StreamInv'
  BY <1>1 DEF CallInv, StreamInv, BlocksAreTheStream, NoCall
<1> QED
  BY <1>2, <1>3 DEF MachineInv

\* Nothing happens.
LEMMA StutterMachine == MachineInv /\ UNCHANGED vars => MachineInv'
<1> SUFFICES ASSUME MachineInv, UNCHANGED vars PROVE MachineInv'
  OBVIOUS
<1>1. UNCHANGED <<target, cfgs, cpu, sse41, platform, phase, call, out, rest, ran>>
  BY DEF vars
<1>2. BuildInv' /\ PlatformInv'
  BY <1>1 DEF MachineInv, BuildInv, PlatformInv, Chosen, IsX86, IsX86_64, IsX86_32
<1>3. RunsInv'
  BY <1>1 DEF MachineInv, RunsInv, Chosen, GoodRun, Supported, IsCompiled
<1>4. CallInv' /\ StreamInv'
  BY <1>1 DEF MachineInv, CallInv, StreamInv, BlocksAreTheStream
<1> QED
  BY <1>2, <1>3, <1>4 DEF MachineInv

\* Every step keeps the invariant of the machine.
LEMMA StepMachine == MachineInv /\ [Next]_vars => MachineInv'
BY BuildMachine, ChooseMachine, CallMachine, FullMachine, PeelMachine, TailMachine,
   CompressMachine, XofMachine, ReturnMachine, StutterMachine DEF Next, Panicked

\* The invariant of the machine
LEMMA MachineHolds == Spec => []MachineInv
BY InitMachine, StepMachine, PTL DEF Spec

\* On every target and every processor, with every set of features and detection switched
\* off at will: what runs is in the build, and a batch runs no instruction that the processor
\* lacks; the AVX2 platform's one-block SSE4.1 kernel is the only one that can.
THEOREM KernelsSupported == Spec => []BatchesAreSupported
<1>1. MachineInv => BatchesAreSupported
  <2> SUFFICES ASSUME MachineInv PROVE BatchesAreSupported
    OBVIOUS
  <2>1. /\ \A r \in ran : GoodRun(r)
        /\ call.method = "hash_many" => \A r \in ran : Supported(r)
    BY DEF MachineInv, RunsInv
  <2>2. phase = "ready" => SimdDegree <= MaxSimdDegree
    <3> SUFFICES ASSUME phase = "ready" PROVE SimdDegree <= MaxSimdDegree
      OBVIOUS
    <3>1. /\ platform \in Platforms
          /\ platform \in {"SSE2", "SSE41", "AVX2", "AVX512"} => IsX86(target)
          /\ platform = "AVX512" => "avx512_ffi" \in cfgs
          /\ platform = "NEON" => "neon" \in cfgs
          /\ platform = "WASM32_SIMD" => "wasm32_simd" \in cfgs
      BY DEF MachineInv, PlatformInv, Chosen
    <3> QED  BY <3>1 DEF SimdDegree, MaxSimdDegree, Platforms
  <2> QED  BY <2>1, <2>2 DEF BatchesAreSupported, GoodRun
<1> QED
  BY <1>1, MachineHolds, PTL

\* AVX2 without SSE4.1 is the whole of it: where every processor with the one has the
\* other, no method runs an instruction that the processor lacks.
THEOREM SupportedWithSse41 ==
  ASSUME \A c \in Cpus : "avx2" \in c => "sse41" \in c
  PROVE  Spec => []KernelsAreSupported
<1>1. MachineInv => KernelsAreSupported
  <2> SUFFICES ASSUME MachineInv, NEW r \in ran, ~Supported(r) PROVE FALSE
    BY DEF KernelsAreSupported
  <2>1. platform = "AVX2" /\ r.kernel = "sse41" /\ Chosen
    BY DEF MachineInv, RunsInv, GoodRun, Chosen
  <2>2. "avx2" \in cpu /\ cpu \in Cpus
    BY <2>1 DEF MachineInv, PlatformInv
  <2> QED  BY <2>1, <2>2 DEF Supported
<1> QED
  BY <1>1, MachineHolds, PTL

\* The foreign AVX2 and AVX-512 kernels never come to the narrow groups that read past a
\* block, and xof_many writes exactly what was asked for, for every number of inputs.
THEOREM KernelsInBounds == Spec => []InBounds
<1>1. MachineInv => InBounds
  BY DEF MachineInv, RunsInv, CallInv, GoodRun, InBounds
<1> QED
  BY <1>1, MachineHolds, PTL

\* compress_xof and xof_many make the blocks of the counter's stream, in order, on every
\* platform, with every kernel and for every length.
THEOREM BlocksStream == Spec => []BlocksAreTheStream
<1>1. MachineInv => BlocksAreTheStream
  BY DEF MachineInv, StreamInv
<1> QED
  BY <1>1, MachineHolds, PTL

-----------------------------------------------------------------------------
(* Lists *)

\* A value along a recursion, when two functions begin alike and agree on every step
LEMMA Unrolled ==
  ASSUME NEW n \in Nat, NEW f, NEW x, f[0] = x[0],
         \A k \in 1..n : f[k - 1] = x[k - 1] => f[k] = x[k]
  PROVE  \A k \in 0..n : f[k] = x[k]
<1> DEFINE S == {k \in Nat : k <= n => f[k] = x[k]}
<1>1. 0 \in S
  OBVIOUS
<1>2. \A k \in Nat : k \in S => k + 1 \in S
  <2> SUFFICES ASSUME NEW k \in Nat, k \in S, k + 1 <= n PROVE f[k + 1] = x[k + 1]
    OBVIOUS
  <2>1. k + 1 \in 1..n /\ (k + 1) - 1 = k /\ f[k] = x[k]
    OBVIOUS
  <2> QED  BY <2>1
<1>3. Nat \subseteq S
  <2> HIDE DEF S
  <2> QED  BY <1>1, <1>2, Induction
<1> QED
  BY <1>3

\* n members of e behind the first m
Part(e, m, n) == [i \in 1..n |-> e[m + i]]

\* Two parts of a list, joined
LEMMA GluedParts ==
  ASSUME NEW m \in Nat, NEW n \in Nat, NEW e
  PROVE  Part(e, 0, m) \o Part(e, m, n) = Part(e, 0, m + n)
<1> DEFINE s == Part(e, 0, m)
           t == Part(e, m, n)
           u == Part(e, 0, m + n)
           st == s \o t
<1>1. IsList(s, m) /\ IsList(t, n)
  BY DEF Part, IsList
<1>2. \A i \in Nat : 0 + i = i
  OBVIOUS
<1>3. \A i \in 1..m : s[i] = e[i]
  BY <1>2 DEF Part
<1>4. \A i \in 1..n : t[i] = e[m + i]
  BY DEF Part
<1>5. (\A i \in 1..m + n : u[i] = e[i]) /\ u = [i \in 1..m + n |-> u[i]]
  BY <1>2 DEF Part
<1> HIDE DEF s, t, u
<1>6. IsList(s \o t, m + n) /\ Begins(s \o t, s, m) /\ Ends(s \o t, t, m, m + n)
  BY <1>1, Concatenated
<1> HIDE DEF st
<1>10. IsList(st, m + n) /\ Begins(st, s, m) /\ Ends(st, t, m, m + n)
  BY <1>6 DEF st
<1>7. \A i \in 1..m + n : st[i] = u[i]
  <2> TAKE i \in 1..m + n
  <2>1. CASE i <= m
    BY <1>3, <1>5, <1>10, <2>1 DEF Begins
  <2>2. CASE i > m
    <3>1. i \in m + 1..m + n /\ i - m \in 1..n /\ m + (i - m) = i
      BY <2>2
    <3>2. st[i] = t[i - m]
      BY <1>10, <3>1 DEF Ends
    <3>3. t[i - m] = e[m + (i - m)]
      BY <1>4, <3>1
    <3> QED  BY <1>5, <3>1, <3>2, <3>3
  <2> QED  BY <2>1, <2>2
<1>8. st = [i \in 1..m + n |-> st[i]]
  BY <1>10 DEF IsList
<1>9. st = u
  BY <1>5, <1>7, <1>8
<1> QED
  BY <1>9 DEF s, t, u, st

\* The flattening of a list of groups of d
LEMMA FlatGroups ==
  ASSUME NEW d \in {4, 8}, NEW k \in Nat, NEW s, IsList(s, k), NEW e,
         \A g \in 1..k : s[g] = Part(e, d * (g - 1), d)
  PROVE  FlattenSeq(s) = Part(e, 0, d * k)
<1>1. Len(s) = k
  BY ListIsSeq
<1>2. CASE k = 0
  <2>1. FlattenSeq(s) = s
    BY <1>1, <1>2 DEF FlattenSeq
  <2>2. d * k = 0 /\ s = [j \in 1..0 |-> s[j]]
    BY <1>2 DEF IsList
  <2>3. [j \in 1..0 |-> s[j]] = Part(e, 0, 0)
    BY DEF Part
  <2> QED  BY <2>1, <2>2, <2>3
<1>3. CASE k \in Nat \ {0}
  <2> DEFINE next(f, i) == IF i = 1 THEN s[i] ELSE f[i - 1] \o s[i]
             flatten[i \in 1..k] == next(flatten, i)
             whole == [i \in 1..k |-> Part(e, 0, d * i)]
  <2>1. FlattenSeq(s) = flatten[k]
    BY <1>1, <1>3 DEF FlattenSeq
  <2>2. \A i \in 1..k : i # 1 => Part(e, 0, d * (i - 1)) \o s[i] = Part(e, 0, d * i)
    <3> SUFFICES ASSUME NEW i \in 1..k, i # 1
                 PROVE  Part(e, 0, d * (i - 1)) \o s[i] = Part(e, 0, d * i)
      OBVIOUS
    <3> DEFINE m == d * (i - 1)
    <3>1. m \in Nat /\ m + d = d * i /\ d \in Nat
      OBVIOUS
    <3>2. s[i] = Part(e, m, d)
      OBVIOUS
    <3> HIDE DEF m
    <3>3. Part(e, 0, m) \o Part(e, m, d) = Part(e, 0, m + d)
      BY <3>1, GluedParts
    <3> QED  BY <3>1, <3>2, <3>3 DEF m
  <2>3. s[1] = Part(e, 0, d * 1)
    <3>1. s[1] = Part(e, d * (1 - 1), d)
      BY <1>3
    <3>2. d * 1 = d /\ d * (1 - 1) = 0
      OBVIOUS
    <3> QED  BY <3>1, <3>2
  <2>4. \A i \in 1..k : i # 1 => i - 1 \in 1..k
    OBVIOUS
  <2>5. (\A i \in 1..k : whole[i] = Part(e, 0, d * i)) /\ whole = [i \in 1..k |-> whole[i]]
    OBVIOUS
  <2> HIDE DEF whole
  <2>6. \A i \in 1..k : whole[i] = next(whole, i)
    BY <2>2, <2>3, <2>4, <2>5
  <2>7. whole = [i \in 1..k |-> next(whole, i)]
    BY <2>5, <2>6
  <2>8. flatten = [i \in 1..k |-> next(flatten, i)]
    <3> HIDE DEF next
    <3> QED  BY <2>7
  <2> HIDE DEF flatten
  <2>9. \A i \in 1..k : flatten[i] = next(flatten, i)
    <3> HIDE DEF next
    <3> QED  BY <2>8
  <2>10. flatten[1] = s[1] /\ \A i \in 1..k : i # 1 => flatten[i] = flatten[i - 1] \o s[i]
    <3>1. 1 \in 1..k
      BY <1>3
    <3> QED  BY <2>9, <3>1, Zenon
  <2> DEFINE f == [i \in 0..k |-> IF i = 0 THEN <<>> ELSE flatten[i]]
             x == [i \in 0..k |-> IF i = 0 THEN <<>> ELSE whole[i]]
  <2>11. f[0] = x[0] /\ \A i \in 1..k : f[i] = flatten[i] /\ x[i] = whole[i]
    OBVIOUS
  <2> HIDE DEF f, x, next
  <2>12. \A i \in 1..k : f[i - 1] = x[i - 1] => f[i] = x[i]
    <3> SUFFICES ASSUME NEW i \in 1..k, f[i - 1] = x[i - 1] PROVE f[i] = x[i]
      OBVIOUS
    <3>1. CASE i = 1
      BY <2>3, <2>5, <2>10, <2>11, <3>1
    <3>2. CASE i # 1
      <4>1. i - 1 \in 1..k
        BY <3>2
      <4>2. flatten[i - 1] = whole[i - 1]
        BY <2>11, <4>1
      <4>3. flatten[i] = whole[i - 1] \o s[i]
        BY <2>10, <3>2, <4>2
      <4>4. flatten[i] = whole[i]
        BY <2>2, <2>5, <3>2, <4>1, <4>3
      <4> QED  BY <2>11, <4>4
    <3> QED  BY <3>1, <3>2
  <2>13. \A i \in 0..k : f[i] = x[i]
    <3>1. f[0] = x[0]
      BY <2>11
    <3> QED  BY <2>12, <3>1, Unrolled
  <2>14. flatten[k] = whole[k]
    BY <1>3, <2>11, <2>13
  <2> QED
    BY <1>3, <2>1, <2>5, <2>14
<1> QED
  BY <1>2, <1>3

-----------------------------------------------------------------------------
(* Counters *)

\* Multiples of w do not change what is left.
LEMMA WholeSpans ==
  ASSUME NEW w \in Nat \ {0}, NEW q \in Nat, NEW x \in Nat
  PROVE  (w * q + x) % w = x % w
<1> DEFINE d == x \div w
           r == x % w
<1>1. d \in Nat /\ r \in 0..w - 1 /\ x = w * d + r
  BY SMTT(30)
<1>2. w * q + x = w * (q + d) + r
  <2> HIDE DEF d, r
  <2>1. w * (q + d) = w * q + w * d
    BY <1>1, SMTT(30)
  <2>2. w * q \in Nat /\ w * d \in Nat /\ w * (q + d) \in Nat
    BY <1>1, SMTT(30)
  <2> QED
    BY <1>1, <2>1, <2>2
<1>3. (w * (q + d) + r) % w = r
  <2> HIDE DEF d, r
  <2> DEFINE e == q + d
  <2>1. e \in Nat /\ r \in 0..w - 1
    BY <1>1
  <2> HIDE DEF e
  <2>2. (w * e + r) % w = r
    BY <2>1, SMTT(30)
  <2> QED
    BY <2>2 DEF e
<1> QED
  BY <1>2, <1>3

\* A counter that wraps at every addition wraps as one that wraps at the end.
LEMMA AddModulo ==
  ASSUME NEW v \in Nat \ {0}, NEW a \in Nat, NEW b \in Nat
  PROVE  ((a % v) + b) % v = (a + b) % v
<1> DEFINE d == a \div v
           r == a % v
<1>1. d \in Nat /\ r \in Nat /\ a = v * d + r
  BY SMTT(30)
<1> HIDE DEF d, r
<1>2. a + b = v * d + (r + b)
  <2>1. v * d \in Nat
    BY <1>1, SMTT(30)
  <2> QED
    BY <1>1, <2>1
<1>3. (v * d + (r + b)) % v = (r + b) % v
  <2> DEFINE x == r + b
  <2>1. x \in Nat
    BY <1>1
  <2> HIDE DEF x
  <2>2. (v * d + x) % v = x % v
    BY <1>1, <2>1, WholeSpans
  <2> QED
    BY <2>2 DEF x
<1> QED
  BY <1>2, <1>3 DEF r

\* The counter of an input of a part of the batch is its counter in the batch.
LEMMA AdvancedTwice ==
  ASSUME NEW counter \in Nat, NEW increment, NEW a \in Nat, NEW b \in Nat
  PROVE  Advanced(Advanced(counter, increment, a), increment, b) = Advanced(counter, increment, a + b)
<1>1. CounterSpan \in Nat \ {0}
  BY CounterAssumption, SMTT(30) DEF CounterSpan
<1> HIDE DEF CounterSpan
<1>2. (((counter + a) % CounterSpan) + b) % CounterSpan = ((counter + a) + b) % CounterSpan
  <2> DEFINE c == counter + a
  <2>1. c \in Nat
    OBVIOUS
  <2> HIDE DEF c
  <2>2. ((c % CounterSpan) + b) % CounterSpan = (c + b) % CounterSpan
    BY <1>1, <2>1, AddModulo
  <2> QED  BY <2>2 DEF c
<1>3. (counter + a) + b = counter + (a + b)
  OBVIOUS
<1>4. CASE increment
  BY <1>2, <1>3, <1>4, Zenon DEF Advanced
<1>5. CASE ~increment
  BY <1>5, Zenon DEF Advanced
<1> QED
  BY <1>4, <1>5

-----------------------------------------------------------------------------
(* The chaining values of one input *)

\* The value behind block b
Chained(f, x, lo, hi, blocks, b) ==
  IF b = 0 THEN Key
  ELSE Compressed(f[b - 1], MessageOf(x, b), lo, hi, BlockFlags(b, blocks), TRUE)

IsChain(f, n, x, lo, hi, blocks) == f = [b \in 0..n |-> Chained(f, x, lo, hi, blocks, b)]

\* Every input has a chain of values.
LEMMA ChainExists ==
  ASSUME NEW n \in Nat, NEW x, NEW lo, NEW hi, NEW blocks
  PROVE  \E f : IsChain(f, n, x, lo, hi, blocks)
<1> DEFINE S == {m \in Nat : \E f : IsChain(f, m, x, lo, hi, blocks)}
<1>1. 0 \in S
  <2> DEFINE f == [b \in 0..0 |-> Key]
  <2>1. IsChain(f, 0, x, lo, hi, blocks)
    BY DEF IsChain, Chained
  <2> HIDE DEF f
  <2> QED  BY <2>1
<1>2. ASSUME NEW m \in Nat, m \in S
      PROVE  m + 1 \in S
  <2>1. PICK f : IsChain(f, m, x, lo, hi, blocks)
    BY <1>2
  <2> DEFINE last == Compressed(f[m], MessageOf(x, m + 1), lo, hi, BlockFlags(m + 1, blocks), TRUE)
             g == [b \in 0..m + 1 |-> IF b <= m THEN f[b] ELSE last]
  <2> HIDE DEF last
  <2>2. \A b \in 0..m : g[b] = f[b]
    OBVIOUS
  <2>3. g[m + 1] = last /\ g = [b \in 0..m + 1 |-> g[b]]
    <3>1. m + 1 \in 0..m + 1 /\ ~(m + 1 <= m)
      OBVIOUS
    <3> QED  BY <3>1
  <2> HIDE DEF g
  <2>4. \A b \in 0..m + 1 : g[b] = Chained(g, x, lo, hi, blocks, b)
    <3> TAKE b \in 0..m + 1
    <3>1. CASE b = 0
      <4>1. f[0] = Key
        BY <2>1 DEF IsChain, Chained
      <4> QED  BY <2>2, <3>1, <4>1 DEF Chained
    <3>2. CASE b \in 1..m
      <4>1. b \in 0..m /\ b - 1 \in 0..m /\ b # 0
        BY <3>2
      <4>2. f[b] = Chained(f, x, lo, hi, blocks, b)
        BY <2>1, <4>1 DEF IsChain
      <4>3. g[b] = f[b] /\ g[b - 1] = f[b - 1]
        BY <2>2, <4>1
      <4> QED  BY <4>1, <4>2, <4>3, Zenon DEF Chained
    <3>3. CASE b = m + 1
      <4>1. b # 0 /\ b - 1 = m /\ m \in 0..m
        BY <3>3
      <4>2. g[b - 1] = f[m]
        BY <2>2, <4>1
      <4> QED  BY <2>3, <3>3, <4>1, <4>2, Zenon DEF Chained, last
    <3> QED  BY <3>1, <3>2, <3>3
  <2>5. IsChain(g, m + 1, x, lo, hi, blocks)
    <3>1. [b \in 0..m + 1 |-> g[b]] = [b \in 0..m + 1 |-> Chained(g, x, lo, hi, blocks, b)]
      BY <2>4
    <3> QED  BY <2>3, <3>1, Zenon DEF IsChain
  <2> QED  BY <2>5
<1>3. Nat \subseteq S
  <2> HIDE DEF S
  <2> QED  BY <1>1, <1>2, Induction
<1> QED
  BY <1>3

\* Any two chains are the same.
LEMMA ChainUnique ==
  ASSUME NEW n \in Nat, NEW x, NEW lo, NEW hi, NEW blocks, NEW f, NEW g,
         IsChain(f, n, x, lo, hi, blocks), IsChain(g, n, x, lo, hi, blocks)
  PROVE  \A b \in 0..n : f[b] = g[b]
<1>1. /\ \A b \in 0..n : f[b] = Chained(f, x, lo, hi, blocks, b)
      /\ \A b \in 0..n : g[b] = Chained(g, x, lo, hi, blocks, b)
  BY DEF IsChain
<1>2. f[0] = g[0]
  <2>1. 0 \in 0..n
    OBVIOUS
  <2> QED  BY <1>1, <2>1 DEF Chained
<1>3. \A b \in 1..n : f[b - 1] = g[b - 1] => f[b] = g[b]
  <2> SUFFICES ASSUME NEW b \in 1..n, f[b - 1] = g[b - 1] PROVE f[b] = g[b]
    OBVIOUS
  <2>1. b \in 0..n /\ b # 0
    OBVIOUS
  <2> QED  BY <1>1, <2>1, Zenon DEF Chained
<1> QED
  BY <1>2, <1>3, Unrolled

\* The hash of one input is the end of its chain.
LEMMA HashOneIs ==
  ASSUME NEW x, NEW blocks \in Nat, NEW counter, NEW f,
         IsChain(f, blocks, x, Low(counter), High(counter), blocks)
  PROVE  HashOne(x, blocks, counter, Reference) = f[blocks]
<1> DEFINE exact == Reference = Reference
           cv[b \in 0..blocks] ==
             IF b = 0 THEN Key
             ELSE Compressed(cv[b - 1], MessageOf(x, b), Low(counter), High(counter),
                             BlockFlags(b, blocks), exact)
<1>1. HashOne(x, blocks, counter, Reference) = cv[blocks]
  BY DEF HashOne
<1>2. exact = TRUE
  OBVIOUS
<1>3. f = [b \in 0..blocks |->
             IF b = 0 THEN Key
             ELSE Compressed(f[b - 1], MessageOf(x, b), Low(counter), High(counter),
                             BlockFlags(b, blocks), exact)]
  BY <1>2, Zenon DEF IsChain, Chained
<1>4. cv = [b \in 0..blocks |->
              IF b = 0 THEN Key
              ELSE Compressed(cv[b - 1], MessageOf(x, b), Low(counter), High(counter),
                              BlockFlags(b, blocks), exact)]
  <2> HIDE DEF exact
  <2> QED  BY <1>3
<1> HIDE DEF cv
<1>5. IsChain(cv, blocks, x, Low(counter), High(counter), blocks)
  BY <1>2, <1>4, Zenon DEF IsChain, Chained
<1> QED
  BY <1>1, <1>5, ChainUnique

-----------------------------------------------------------------------------
(* Words in lanes *)

\* n vectors, each with one word of every member of the list xs of d
Vectors(xs, d, n) == [w \in 1..n |-> [l \in 1..d |-> [of |-> xs[l], word |-> w]]]

\* The words of a value
LEMMA WordsAre ==
  ASSUME NEW x, NEW n \in Nat
  PROVE  WordsOf(x, n) = [i \in 1..n |-> [of |-> x, word |-> i]]
<1> DEFINE f == [i \in 1..n |-> [of |-> x, word |-> i]]
<1>1. WordsOf(x, n) = SubSeq(f, 1, n)
  BY DEF WordsOf, Listing
<1>2. f = [i \in 1..n |-> f[i]]
  OBVIOUS
<1> HIDE DEF f
<1>3. SubSeq(f, 1, n) = f
  BY <1>2, Whole
<1> QED
  BY <1>1, <1>3 DEF f

\* ws is the list of the n words of x.
AreWords(ws, x, n) == IsList(ws, n) /\ \A i \in 1..n : ws[i] = [of |-> x, word |-> i]

\* The words of one value, in order, are gathered to it.
LEMMA Gathered ==
  ASSUME NEW x, NEW n \in Nat \ {0}, NEW ws, AreWords(ws, x, n)
  PROVE  Gather(ws) = x
<1>0. IsList(ws, n) /\ \A i \in 1..n : ws[i] = [of |-> x, word |-> i]
  BY DEF AreWords
<1>1. ws = [i \in 1..n |-> [of |-> x, word |-> i]]
  <2>1. ws = [i \in 1..n |-> ws[i]]
    BY <1>0 DEF IsList
  <2> QED  BY <1>0, <2>1
<1>2. Len(ws) = n
  BY <1>0, ListIsSeq
<1>3. ws[1].of = x
  <2>1. 1 \in 1..n
    OBVIOUS
  <2>2. ws[1] = [of |-> x, word |-> 1]
    BY <1>0, <2>1
  <2> QED  BY <2>2
<1>4. ws = WordsOf(x, n)
  BY <1>1, WordsAre
<1>5. ws = WordsOf(ws[1].of, Len(ws))
  BY <1>2, <1>3, <1>4
<1> QED
  BY <1>3, <1>5, Zenon DEF Gather

\* Lane l of a list of vectors
Lane(vecs, l) == Gather(Listing(Len(vecs), LAMBDA i : vecs[i][l]))

\* A lane of vectors of words
LEMMA LaneOf ==
  ASSUME NEW d \in Nat, NEW xs, NEW n \in Nat \ {0}, NEW l \in 1..d
  PROVE  Lane(Vectors(xs, d, n), l) = xs[l]
<1> DEFINE v == Vectors(xs, d, n)
           f == [i \in 1..n |-> v[i][l]]
<1>1. IsList(v, n) /\ \A i \in 1..n : v[i][l] = [of |-> xs[l], word |-> i]
  BY DEF Vectors, IsList
<1> HIDE DEF v
<1>2. Len(v) = n
  BY <1>1, ListIsSeq
<1>3. Listing(Len(v), LAMBDA i : v[i][l]) = SubSeq(f, 1, n)
  BY <1>2 DEF Listing
<1>4. AreWords(f, xs[l], n)
  BY <1>1 DEF IsList, AreWords
<1>7. f = [i \in 1..n |-> f[i]]
  OBVIOUS
<1> HIDE DEF f
<1>5. SubSeq(f, 1, n) = f
  BY <1>7, Whole
<1>6. Gather(f) = xs[l]
  BY <1>4, Gathered
<1> QED
  BY <1>3, <1>5, <1>6, Zenon DEF v, Lane

\* Vectors of the same values are the same.
LEMMA SameVectors ==
  ASSUME NEW d, NEW n, NEW x, NEW y, \A l \in 1..d : x[l] = y[l]
  PROVE  Vectors(x, d, n) = Vectors(y, d, n)
BY DEF Vectors

\* The eight vectors of the values of the lanes
LEMMA ByWord ==
  ASSUME NEW d \in Nat, NEW lanes
  PROVE  Listing(8, LAMBDA w : Listing(d, LAMBDA l : [of |-> lanes[l], word |-> w])) =
           Vectors(lanes, d, 8)
<1> DEFINE row(w) == [l \in 1..d |-> [of |-> lanes[l], word |-> w]]
           rows == [w \in 1..8 |-> Listing(d, LAMBDA l : [of |-> lanes[l], word |-> w])]
<1>1. \A w \in 1..8 : rows[w] = row(w)
  <2> TAKE w \in 1..8
  <2>1. rows[w] = SubSeq(row(w), 1, d)
    BY DEF Listing
  <2>2. row(w) = [l \in 1..d |-> row(w)[l]]
    OBVIOUS
  <2> HIDE DEF row, rows
  <2> QED  BY <2>1, <2>2, Whole
<1>2. Listing(8, LAMBDA w : Listing(d, LAMBDA l : [of |-> lanes[l], word |-> w])) = SubSeq(rows, 1, 8)
  BY DEF Listing
<1> HIDE DEF rows
<1>3. SubSeq(rows, 1, 8) = [w \in 1..8 |-> rows[w]]
  BY Whole
<1>4. SubSeq(rows, 1, 8) = [w \in 1..8 |-> row(w)]
  BY <1>1, <1>3
<1> QED
  BY <1>2, <1>4 DEF Vectors

\* The hashes of the inputs with the counters in "at"
HashesAt(inputs, blocks, at, d) == [l \in 1..d |-> HashOne(inputs[l], blocks, at[l], Reference)]

\* The counters of the lanes, and vectors with the blocks of the inputs
AreCounters(counters, at, d) ==
  \A l \in 1..d : counters.low[l] = Low(at[l]) /\ counters.high[l] = High(at[l])
AreMessages(messages, inputs, blocks, d) ==
  \A b \in 1..blocks : messages[b] = Vectors([l \in 1..d |-> MessageOf(inputs[l], b)], d, 16)

\* Hashing in lanes: every lane holds the hash of its own input.
LEMMA LanesHash ==
  ASSUME NEW d \in Nat \ {0}, NEW inputs, IsList(inputs, d), NEW blocks \in Nat,
         NEW counters, NEW at, AreCounters(counters, at, d),
         NEW messages, AreMessages(messages, inputs, blocks, d)
  PROVE  HashBlocks(inputs, blocks, counters, Reference, messages) =
           Vectors(HashesAt(inputs, blocks, at, d), d, 8)
<1> DEFINE degree == Len(inputs)
           exact == Reference = Reference
           byWord(lanes) == Listing(8, LAMBDA w :
                              Listing(degree, LAMBDA l : [of |-> lanes[l], word |-> w]))
           start == Listing(degree, LAMBDA l : Key)
           after(prev, b) == Listing(degree, LAMBDA l :
                    Compressed(Lane(prev, l), Lane(messages[b], l), counters.low[l],
                               counters.high[l], BlockFlags(b, blocks), exact))
           step(f, b) == IF b = 0 THEN byWord(start) ELSE byWord(after(f[b - 1], b))
           h[b \in 0..blocks] == step(h, b)
           chain(l) == CHOOSE f : IsChain(f, blocks, inputs[l], Low(at[l]), High(at[l]), blocks)
           chains == [l \in 1..d |-> chain(l)]
           cvs(b) == [l \in 1..d |-> chains[l][b]]
           whole == [b \in 0..blocks |-> Vectors(cvs(b), d, 8)]
<1>1. HashBlocks(inputs, blocks, counters, Reference, messages) = h[blocks]
  BY DEF HashBlocks, Lane
<1>2. degree = d
  BY ListIsSeq
<1>3. \A l \in 1..d : IsChain(chains[l], blocks, inputs[l], Low(at[l]), High(at[l]), blocks)
  <2> TAKE l \in 1..d
  <2>1. IsChain(chain(l), blocks, inputs[l], Low(at[l]), High(at[l]), blocks)
    BY ChainExists
  <2> HIDE DEF chain
  <2> QED  BY <2>1
<1> HIDE DEF chains
<1>4. \A lanes : byWord(lanes) = Vectors(lanes, d, 8)
  BY <1>2, ByWord
<1> HIDE DEF byWord
<1>5. start = [l \in 1..d |-> Key]
  <2> DEFINE f == [l \in 1..d |-> Key]
  <2>1. start = SubSeq(f, 1, d)
    BY <1>2 DEF Listing
  <2>2. f = [l \in 1..d |-> f[l]]
    OBVIOUS
  <2> HIDE DEF f
  <2>3. SubSeq(f, 1, d) = f
    BY <2>2, Whole
  <2> QED  BY <2>1, <2>3 DEF f
<1> HIDE DEF start
<1>6. \A b \in 1..blocks : after(whole[b - 1], b) = cvs(b)
  <2> TAKE b \in 1..blocks
  <2> DEFINE prev == whole[b - 1]
             value(l) == Compressed(Lane(prev, l), Lane(messages[b], l), counters.low[l],
                                    counters.high[l], BlockFlags(b, blocks), exact)
             f == [l \in 1..d |-> value(l)]
  <2>1. after(prev, b) = SubSeq(f, 1, d)
    BY <1>2 DEF Listing
  <2>2. b \in 0..blocks /\ b - 1 \in 0..blocks /\ b # 0
    OBVIOUS
  <2>3. prev = Vectors(cvs(b - 1), d, 8)
    BY <2>2
  <2> DEFINE ms == [k \in 1..d |-> MessageOf(inputs[k], b)]
  <2>4. messages[b] = Vectors(ms, d, 16) /\ \A l \in 1..d : ms[l] = MessageOf(inputs[l], b)
    BY DEF AreMessages
  <2> HIDE DEF ms
  <2> HIDE DEF prev
  <2>5. \A l \in 1..d : value(l) = cvs(b)[l]
    <3> TAKE l \in 1..d
    <3>1. Lane(messages[b], l) = MessageOf(inputs[l], b)
      <4>1. Lane(Vectors(ms, d, 16), l) = ms[l]
        BY LaneOf
      <4> QED  BY <2>4, <4>1
    <3>2. Lane(prev, l) = chains[l][b - 1]
      <4>1. Lane(Vectors(cvs(b - 1), d, 8), l) = cvs(b - 1)[l]
        <5> HIDE DEF cvs
        <5> QED  BY LaneOf
      <4> QED  BY <2>3, <4>1
    <3>3. exact = TRUE /\ counters.low[l] = Low(at[l]) /\ counters.high[l] = High(at[l])
      BY DEF AreCounters
    <3>4. chains[l][b] = Chained(chains[l], inputs[l], Low(at[l]), High(at[l]), blocks, b)
      BY <1>3, <2>2 DEF IsChain
    <3>5. value(l) = chains[l][b]
      BY <2>2, <3>1, <3>2, <3>3, <3>4, Zenon DEF Chained
    <3> QED  BY <3>5
  <2>6. f = cvs(b)
    <3> HIDE DEF value
    <3> QED  BY <2>5
  <2>7. SubSeq(f, 1, d) = f
    <3>1. f = [l \in 1..d |-> f[l]]
      OBVIOUS
    <3> HIDE DEF f
    <3> QED  BY <3>1, Whole
  <2> QED
    BY <2>1, <2>6, <2>7 DEF prev
<1> HIDE DEF after
<1>7. (\A b \in 0..blocks : whole[b] = Vectors(cvs(b), d, 8)) /\ whole = [b \in 0..blocks |-> whole[b]]
  OBVIOUS
<1> HIDE DEF whole
<1>8. \A b \in 1..blocks : b \in 0..blocks /\ b # 0
  OBVIOUS
<1>9. whole[0] = byWord(start)
  <2>1. 0 \in 0..blocks
    OBVIOUS
  <2>2. \A l \in 1..d : cvs(0)[l] = Key
    BY <1>3, <2>1 DEF IsChain, Chained
  <2>3. cvs(0) = [l \in 1..d |-> Key]
    BY <2>2
  <2> QED  BY <1>4, <1>5, <1>7, <2>1, <2>3
<1> HIDE DEF cvs, start
<1>10. \A b \in 1..blocks : whole[b] = byWord(after(whole[b - 1], b))
  BY <1>4, <1>6, <1>7, <1>8
<1>11. \A b \in 0..blocks : whole[b] = step(whole, b)
  <2> TAKE b \in 0..blocks
  <2>1. CASE b = 0
    BY <1>9, <2>1
  <2>2. CASE b # 0
    <3>1. b \in 1..blocks
      BY <2>2
    <3> QED  BY <1>10, <2>2, <3>1
  <2> QED  BY <2>1, <2>2
<1>12. h = [b \in 0..blocks |-> step(h, b)]
  <2>1. whole = [b \in 0..blocks |-> step(whole, b)]
    BY <1>7, <1>11
  <2> HIDE DEF step
  <2> QED  BY <2>1
<1> HIDE DEF h
<1>13. \A b \in 0..blocks : h[b] = step(h, b)
  <2> HIDE DEF step
  <2> QED  BY <1>12
<1>14. \A b \in 0..blocks : h[b] = whole[b]
  <2>1. h[0] = whole[0]
    <3>1. 0 \in 0..blocks
      OBVIOUS
    <3> QED  BY <1>9, <1>13, <3>1
  <2>2. \A b \in 1..blocks : h[b - 1] = whole[b - 1] => h[b] = whole[b]
    BY <1>8, <1>10, <1>13
  <2> QED  BY <2>1, <2>2, Unrolled
<1>15. blocks \in 0..blocks
  OBVIOUS
<1>16. \A l \in 1..d : cvs(blocks)[l] = HashesAt(inputs, blocks, at, d)[l]
  <2> TAKE l \in 1..d
  <2>1. HashOne(inputs[l], blocks, at[l], Reference) = chains[l][blocks]
    BY <1>3, HashOneIs
  <2> QED  BY <2>1 DEF cvs, HashesAt
<1>17. Vectors(cvs(blocks), d, 8) = Vectors(HashesAt(inputs, blocks, at, d), d, 8)
  BY <1>16, SameVectors
<1> QED
  BY <1>1, <1>7, <1>14, <1>15, <1>17

-----------------------------------------------------------------------------
(* The message and the hash of every lane *)

\* A square of d vectors of d words, and its transpose
IsSquare(v, d) == IsList(v, d) /\ \A i \in 1..d : IsList(v[i], d)
Flipped(v, d) == [i \in 1..d |-> [j \in 1..d |-> v[j][i]]]

\* A square of the words of block b of every input
WordSquare(inputs, b, q, d) ==
  [j \in 1..d |-> [i \in 1..d |-> [of |-> MessageOf(inputs[j], b), word |-> (q - 1) * d + i]]]

\* What is loaded is a square of the words of every input.
LEMMA LoadedSquare ==
  ASSUME NEW d \in Nat, NEW inputs, IsList(inputs, d), NEW b, NEW q
  PROVE  /\ Loaded(inputs, b, q) = WordSquare(inputs, b, q, d)
         /\ IsSquare(Loaded(inputs, b, q), d)
<1> DEFINE word(j, i) == [of |-> MessageOf(inputs[j], b), word |-> (q - 1) * d + i]
           row(j) == [i \in 1..d |-> word(j, i)]
           rows == [j \in 1..d |-> Listing(d, LAMBDA i : word(j, i))]
<1>1. Len(inputs) = d
  BY ListIsSeq
<1>2. Loaded(inputs, b, q) = SubSeq(rows, 1, d)
  BY <1>1 DEF Loaded, Listing
<1>3. \A j \in 1..d : rows[j] = row(j)
  <2> TAKE j \in 1..d
  <2>1. rows[j] = SubSeq(row(j), 1, d)
    BY DEF Listing
  <2>2. row(j) = [i \in 1..d |-> row(j)[i]]
    OBVIOUS
  <2> HIDE DEF row, rows
  <2> QED  BY <2>1, <2>2, Whole
<1> HIDE DEF rows
<1>4. SubSeq(rows, 1, d) = [j \in 1..d |-> rows[j]]
  BY Whole
<1>5. Loaded(inputs, b, q) = [j \in 1..d |-> row(j)]
  <2> HIDE DEF row
  <2> QED  BY <1>2, <1>3, <1>4
<1>6. [j \in 1..d |-> row(j)] = WordSquare(inputs, b, q, d)
  BY DEF WordSquare
<1>7. IsSquare(WordSquare(inputs, b, q, d), d)
  BY DEF IsSquare, IsList, WordSquare
<1> QED
  BY <1>5, <1>6, <1>7

\* The transposed squares, in order, are the vectors of the message of every input.
LEMMA MessagesAre ==
  ASSUME NEW d \in {4, 8}, NEW inputs, IsList(inputs, d), NEW b, NEW squares,
         \A q \in 1..4 : d * q <= 16 => squares[q] = Flipped(Loaded(inputs, b, q), d)
  PROVE  InOrder(d, squares) = Vectors([l \in 1..d |-> MessageOf(inputs[l], b)], d, 16)
<1> DEFINE ms == [l \in 1..d |-> MessageOf(inputs[l], b)]
           quot(p) == 1 + ((p - 1) \div d)
           rem(p) == 1 + ((p - 1) % d)
           f == [p \in 1..16 |-> squares[quot(p)][rem(p)]]
           row(p) == [l \in 1..d |-> [of |-> ms[l], word |-> p]]
<1>1. InOrder(d, squares) = SubSeq(f, 1, 16)
  BY DEF InOrder, Listing
<1>2. \A p \in 1..16 : /\ quot(p) \in 1..4 /\ d * quot(p) <= 16 /\ rem(p) \in 1..d
                       /\ (quot(p) - 1) * d + rem(p) = p
  BY SMTT(30)
<1>3. \A p \in 1..16 : squares[quot(p)][rem(p)] = row(p)
  <2> TAKE p \in 1..16
  <2> DEFINE q == quot(p)
             i == rem(p)
  <2>1. q \in 1..4 /\ d * q <= 16 /\ i \in 1..d /\ (q - 1) * d + i = p
    BY <1>2
  <2> HIDE DEF q, i
  <2>2. squares[q] = Flipped(WordSquare(inputs, b, q, d), d)
    <3>1. Loaded(inputs, b, q) = WordSquare(inputs, b, q, d)
      BY LoadedSquare
    <3> QED  BY <2>1, <3>1
  <2>3. squares[q][i] = [j \in 1..d |-> WordSquare(inputs, b, q, d)[j][i]]
    BY <2>1, <2>2 DEF Flipped
  <2>4. \A j \in 1..d : WordSquare(inputs, b, q, d)[j][i] = [of |-> ms[j], word |-> p]
    BY <2>1 DEF WordSquare
  <2>5. squares[q][i] = row(p)
    <3> HIDE DEF ms
    <3> QED  BY <2>3, <2>4
  <2> QED  BY <2>5 DEF q, i
<1>4. (\A p \in 1..16 : f[p] = row(p)) /\ f = [p \in 1..16 |-> f[p]]
  BY <1>3
<1> HIDE DEF f, row
<1>5. SubSeq(f, 1, 16) = f
  BY <1>4, Whole
<1>6. f = [p \in 1..16 |-> row(p)]
  BY <1>4
<1> QED
  BY <1>1, <1>5, <1>6 DEF row, Vectors

\* The counters of the lanes
LEMMA CountersAre ==
  ASSUME NEW d \in Nat, NEW counter, NEW increment, NEW l \in 1..d
  PROVE  /\ LoadCounters(d, counter, increment).low[l] = Low(Advanced(counter, increment, l - 1))
         /\ LoadCounters(d, counter, increment).high[l] = High(Advanced(counter, increment, l - 1))
<1> DEFINE at(i) == Advanced(counter, increment, i - 1)
           f == [i \in 1..d |-> Low(at(i))]
           g == [i \in 1..d |-> High(at(i))]
           c == LoadCounters(d, counter, increment)
<1>1. c.low = SubSeq(f, 1, d) /\ c.high = SubSeq(g, 1, d)
  BY DEF LoadCounters, Listing
<1>2. SubSeq(f, 1, d) = [i \in 1..d |-> f[i]] /\ SubSeq(g, 1, d) = [i \in 1..d |-> g[i]]
  <2> HIDE DEF f, g
  <2> QED  BY Whole
<1>3. f[l] = Low(at(l)) /\ g[l] = High(at(l))
  OBVIOUS
<1> HIDE DEF f, g, c, at
<1>4. c.low[l] = Low(at(l)) /\ c.high[l] = High(at(l))
  BY <1>1, <1>2, <1>3
<1> QED
  BY <1>4 DEF c, at

\* The hashes of a group of inputs
Hashes(inputs, blocks, counter, increment, d) ==
  [l \in 1..d |-> HashOne(inputs[l], blocks, Advanced(counter, increment, l - 1), Reference)]

\* Every lane holds the hash of its input.
LEMMA LaneHashes ==
  ASSUME NEW d \in {4, 8}, NEW inputs, IsList(inputs, d), NEW blocks \in Nat, NEW counter,
         NEW increment, NEW messages, AreMessages(messages, inputs, blocks, d)
  PROVE  HashBlocks(inputs, blocks, LoadCounters(d, counter, increment), Reference, messages) =
           Vectors(Hashes(inputs, blocks, counter, increment, d), d, 8)
<1> DEFINE counters == LoadCounters(d, counter, increment)
           at == [l \in 1..d |-> Advanced(counter, increment, l - 1)]
<1>1. AreCounters(counters, at, d)
  <2> HIDE DEF counters
  <2>1. \A l \in 1..d : /\ counters.low[l] = Low(Advanced(counter, increment, l - 1))
                        /\ counters.high[l] = High(Advanced(counter, increment, l - 1))
    BY CountersAre DEF counters
  <2> QED  BY <2>1 DEF AreCounters
<1>2. \A l \in 1..d : at[l] = Advanced(counter, increment, l - 1)
  OBVIOUS
<1> HIDE DEF counters, at
<1>4. HashBlocks(inputs, blocks, counters, Reference, messages) =
        Vectors(HashesAt(inputs, blocks, at, d), d, 8)
  <2>1. d \in Nat \ {0}
    OBVIOUS
  <2> QED  BY <1>1, <2>1, LanesHash
<1>5. HashesAt(inputs, blocks, at, d) = Hashes(inputs, blocks, counter, increment, d)
  BY <1>2 DEF Hashes, HashesAt
<1> QED
  BY <1>4, <1>5 DEF counters

\* Two transposed squares of the vectors of four lanes are stored as the four values.
LEMMA FourStored ==
  ASSUME NEW xs, IsList(xs, 4), NEW h, h = Vectors(xs, 4, 8)
  PROVE  /\ IsSquare(SubSeq(h, 1, 4), 4) /\ IsSquare(SubSeq(h, 5, 8), 4)
         /\ StoreFour(Flipped(SubSeq(h, 1, 4), 4), Flipped(SubSeq(h, 5, 8), 4)) = xs
<1> DEFINE u == SubSeq(h, 1, 4)
           v == SubSeq(h, 5, 8)
           word(l, w) == [of |-> xs[l], word |-> w]
<1>1. \A w \in 1..8 : h[w] = [l \in 1..4 |-> word(l, w)]
  BY DEF Vectors
<1>2. u = [w \in 1..4 |-> h[w]] /\ v = [w \in 1..4 |-> h[4 + w]]
  <2>1. u = [w \in 1..4 |-> h[w]]
    BY Whole
  <2>2. SubSeq(h, 4 + 1, 4 + 4) = [w \in 1..4 |-> h[4 + w]]
    BY SubList
  <2> QED  BY <2>1, <2>2
<1>3. \A w \in 1..4 : u[w] = [l \in 1..4 |-> word(l, w)] /\ v[w] = [l \in 1..4 |-> word(l, 4 + w)]
  <2> HIDE DEF word, u, v
  <2> QED  BY <1>1, <1>2
<1>4. IsSquare(u, 4) /\ IsSquare(v, 4)
  <2>1. IsList(u, 4) /\ IsList(v, 4)
    <3> HIDE DEF u, v
    <3> QED  BY <1>2 DEF IsList
  <2> HIDE DEF u, v, word
  <2>2. \A w \in 1..4 : IsList(u[w], 4) /\ IsList(v[w], 4)
    BY <1>3 DEF IsList
  <2> QED  BY <2>1, <2>2 DEF IsSquare
<1> DEFINE first == Flipped(u, 4)
           second == Flipped(v, 4)
           f == [i \in 1..4 |-> Gather(first[i] \o second[i])]
<1>5. StoreFour(first, second) = SubSeq(f, 1, 4)
  BY DEF StoreFour, Listing
<1> HIDE DEF u, v
<1>6. \A i \in 1..4 : Gather(first[i] \o second[i]) = xs[i]
  <2> TAKE i \in 1..4
  <2> DEFINE s == first[i]
             t == second[i]
             st == s \o t
  <2>1. s = [w \in 1..4 |-> u[w][i]] /\ t = [w \in 1..4 |-> v[w][i]]
    BY DEF Flipped
  <2> HIDE DEF s, t
  <2>2. IsList(s, 4) /\ IsList(t, 4)
    BY <2>1 DEF IsList
  <2>3. \A w \in 1..4 : s[w] = word(i, w) /\ t[w] = word(i, 4 + w)
    BY <1>3, <2>1
  <2>4. IsList(s \o t, 4 + 4) /\ Begins(s \o t, s, 4) /\ Ends(s \o t, t, 4, 4 + 4)
    BY <2>2, Concatenated
  <2> HIDE DEF st, word
  <2>5. IsList(st, 8) /\ Begins(st, s, 4) /\ Ends(st, t, 4, 8)
    BY <2>4 DEF st
  <2>6. \A w \in 1..8 : st[w] = word(i, w)
    <3> TAKE w \in 1..8
    <3>1. CASE w <= 4
      BY <2>3, <2>5, <3>1 DEF Begins
    <3>2. CASE w > 4
      <4>1. w \in 4 + 1..8 /\ w - 4 \in 1..4 /\ 4 + (w - 4) = w
        BY <3>2
      <4>2. st[w] = t[w - 4]
        BY <2>5, <4>1 DEF Ends
      <4>3. t[w - 4] = word(i, 4 + (w - 4))
        BY <2>3, <4>1
      <4> QED  BY <4>1, <4>2, <4>3
    <3> QED  BY <3>1, <3>2
  <2>7. AreWords(st, xs[i], 8)
    BY <2>5, <2>6 DEF AreWords, word
  <2>8. Gather(st) = xs[i]
    BY <2>7, Gathered
  <2> QED  BY <2>8 DEF st, s, t
<1> HIDE DEF first, second
<1>7. (\A i \in 1..4 : f[i] = xs[i]) /\ f = [i \in 1..4 |-> f[i]]
  BY <1>6
<1> HIDE DEF f
<1>8. SubSeq(f, 1, 4) = f
  BY <1>7, Whole
<1>9. f = [i \in 1..4 |-> xs[i]]
  BY <1>7
<1>10. StoreFour(first, second) = xs
  BY <1>5, <1>8, <1>9 DEF IsList
<1> QED
  BY <1>4, <1>10 DEF first, second, u, v

\* Eight vectors stored as eight values
StoreEight(turned) == Listing(8, LAMBDA i : Gather(turned[i]))

\* A transposed square of the vectors of eight lanes is the eight values.
LEMMA EightStored ==
  ASSUME NEW xs, IsList(xs, 8), NEW h, h = Vectors(xs, 8, 8)
  PROVE  IsSquare(h, 8) /\ StoreEight(Flipped(h, 8)) = xs
<1>1. IsSquare(h, 8)
  BY DEF IsSquare, IsList, Vectors
<1> DEFINE turned == Flipped(h, 8)
           f == [i \in 1..8 |-> Gather(turned[i])]
<1>2. StoreEight(turned) = SubSeq(f, 1, 8)
  BY DEF StoreEight, Listing
<1>3. \A i \in 1..8 : Gather(turned[i]) = xs[i]
  <2> TAKE i \in 1..8
  <2> DEFINE s == turned[i]
  <2>1. s = [w \in 1..8 |-> h[w][i]]
    BY DEF Flipped
  <2>2. \A w \in 1..8 : h[w][i] = [of |-> xs[i], word |-> w]
    BY DEF Vectors
  <2> HIDE DEF s
  <2>3. AreWords(s, xs[i], 8)
    BY <2>1, <2>2 DEF AreWords, IsList
  <2>4. Gather(s) = xs[i]
    BY <2>3, Gathered
  <2> QED  BY <2>4 DEF s
<1> HIDE DEF turned
<1>4. (\A i \in 1..8 : f[i] = xs[i]) /\ f = [i \in 1..8 |-> f[i]]
  BY <1>3
<1> HIDE DEF f
<1>5. SubSeq(f, 1, 8) = f
  BY <1>4, Whole
<1>6. f = [i \in 1..8 |-> xs[i]]
  BY <1>4
<1>7. StoreEight(turned) = xs
  BY <1>2, <1>5, <1>6 DEF IsList
<1> QED
  BY <1>1, <1>7 DEF turned

-----------------------------------------------------------------------------
(* Four and eight inputs at once, in each kernel written in Rust *)

\* What rust_sse2.rs shares with the other kernels
LEMMA Sse2Shares ==
  /\ \A inputs, blocks, counters, c, messages :
       Sse2!HashBlocks(inputs, blocks, counters, c, messages) =
         HashBlocks(inputs, blocks, counters, c, messages)
  /\ \A inputs, b, q : Sse2!Loaded(inputs, b, q) = Loaded(inputs, b, q)
  /\ \A squares : Sse2!InOrder(4, squares) = InOrder(4, squares)
  /\ \A counter, increment :
       Sse2!LoadCounters(4, counter, increment) = LoadCounters(4, counter, increment)
  /\ \A counter, increment, n : Sse2!Advanced(counter, increment, n) = Advanced(counter, increment, n)
  /\ \A inputs, n : Sse2!After(inputs, n) = After(inputs, n)
  /\ \A inputs, g : Sse2!GroupOf(inputs, 4, g) = GroupOf(inputs, 4, g)
  /\ \A first, second : Sse2!StoreFour(first, second) = StoreFour(first, second)
  /\ \A inputs, blocks, counter, increment, c :
       Sse2!HashEach(inputs, blocks, counter, increment, c) =
         HashEach(inputs, blocks, counter, increment, c)
<1>1. Sse2!Reference = Reference
  BY DEF Sse2!Reference, Reference, Sse2!Permute, Permute, Sse2!Permutation, Permutation,
         Sse2!ReferenceRound, ReferenceRound, Sse2!Mix, Mix, Sse2!FirstHalves, FirstHalves,
         Sse2!SecondHalves, SecondHalves, Sse2!CvPairs, CvPairs, Sse2!XofPairs, XofPairs,
         Sse2!Compression, Compression, Sse2!Places, Places
<1>2. ASSUME NEW inputs, NEW blocks, NEW counters, NEW c, NEW messages
      PROVE  Sse2!HashBlocks(inputs, blocks, counters, c, messages) =
               HashBlocks(inputs, blocks, counters, c, messages)
  BY <1>1 DEF Sse2!HashBlocks, HashBlocks, Sse2!Listing, Listing, Sse2!Gather, Gather,
         Sse2!WordsOf, WordsOf, Sse2!Key, Key, Sse2!Compressed, Compressed, Sse2!BlockFlags,
         BlockFlags
<1>3. \A inputs, b, q : Sse2!Loaded(inputs, b, q) = Loaded(inputs, b, q)
  BY DEF Sse2!Loaded, Loaded, Sse2!Listing, Listing, Sse2!MessageOf, MessageOf
<1>4. \A squares : Sse2!InOrder(4, squares) = InOrder(4, squares)
  BY DEF Sse2!InOrder, InOrder, Sse2!Listing, Listing
<1>5. \A counter, increment :
        Sse2!LoadCounters(4, counter, increment) = LoadCounters(4, counter, increment)
  BY DEF Sse2!LoadCounters, LoadCounters, Sse2!Listing, Listing, Sse2!Advanced, Advanced,
         Sse2!Low, Low, Sse2!High, High, Sse2!CounterSpan, CounterSpan
<1>6. \A counter, increment, n : Sse2!Advanced(counter, increment, n) = Advanced(counter, increment, n)
  BY DEF Sse2!Advanced, Advanced, Sse2!CounterSpan, CounterSpan
<1>7. /\ \A inputs, n : Sse2!After(inputs, n) = After(inputs, n)
      /\ \A inputs, g : Sse2!GroupOf(inputs, 4, g) = GroupOf(inputs, 4, g)
  BY DEF Sse2!After, After, Sse2!GroupOf, GroupOf
<1>8. \A first, second : Sse2!StoreFour(first, second) = StoreFour(first, second)
  BY DEF Sse2!StoreFour, StoreFour, Sse2!Listing, Listing, Sse2!Gather, Gather, Sse2!WordsOf,
         WordsOf
<1>9. ASSUME NEW inputs, NEW blocks, NEW counter, NEW increment, NEW c
      PROVE  Sse2!HashEach(inputs, blocks, counter, increment, c) =
               HashEach(inputs, blocks, counter, increment, c)
  BY <1>1 DEF Sse2!HashEach, HashEach, Sse2!HashOne, HashOne, Sse2!Listing, Listing,
         Sse2!Advanced, Advanced, Sse2!Low, Low, Sse2!High, High, Sse2!CounterSpan,
         CounterSpan, Sse2!MessageOf, MessageOf, Sse2!Key, Key, Sse2!Compressed, Compressed,
         Sse2!BlockFlags, BlockFlags
<1> QED
  BY <1>2, <1>3, <1>4, <1>5, <1>6, <1>7, <1>8, <1>9

\* The rounds of hash4 in rust_sse2.rs are those of the reference.
LEMMA Sse2LaneRounds == Sse2!LaneCompression([r \in 1..7 |-> Sse2!Round(r)]) = Reference
<1>1. Sse2!Rot16 = 16 /\ Sse2!Rot12 = 12 /\ Sse2!Rot8 = 8 /\ Sse2!Rot7 = 7
  BY Sse2Shuffles
<1>2. \A r \in 1..7 : Sse2!Round(r) = RoundWith(Scheduled(r))
  <2> TAKE r \in 1..7
  <2>1. Sse2!Round(r) = Sse2!LaneRound(r, 16, 12, 8, 7)
    BY <1>1 DEF Sse2!Round
  <2>2. Sse2!LaneRound(r, 16, 12, 8, 7) = LaneRound(r, 16, 12, 8, 7)
    BY DEF Sse2!LaneRound, LaneRound, Sse2!Schedule, Schedule, Sse2!Column, Column,
           Sse2!Diagonal, Diagonal
  <2> QED  BY <2>1, <2>2, LaneRounds
<1>3. [r \in 1..7 |-> Sse2!Round(r)] = [r \in 1..7 |-> RoundWith(Scheduled(r))]
  BY <1>2
<1> QED
  BY <1>3, ReferenceIs DEF Sse2!LaneCompression, LaneCompression, Sse2!Compression, Compression, Sse2!CvPairs,
         CvPairs, Sse2!XofPairs, XofPairs

\* transpose_vecs of rust_sse2.rs transposes a square.
LEMMA Sse2Transposes ==
  ASSUME NEW v, IsSquare(v, 4)
  PROVE  Sse2!TransposeVecs(v) = Flipped(v, 4)
<1> DEFINE s1 == <<v[1][1], v[2][1], v[1][2], v[2][2]>>
           s2 == <<v[1][3], v[2][3], v[1][4], v[2][4]>>
           s3 == <<v[3][1], v[4][1], v[3][2], v[4][2]>>
           s4 == <<v[3][3], v[4][3], v[3][4], v[4][4]>>
<1>1. IsList(v[1], 4) /\ IsList(v[2], 4) /\ IsList(v[3], 4) /\ IsList(v[4], 4)
  BY DEF IsSquare
<1>2. /\ Sse2!UnpackLo32(v[1], v[2]) = s1 /\ Sse2!UnpackHi32(v[1], v[2]) = s2
      /\ Sse2!UnpackLo32(v[3], v[4]) = s3 /\ Sse2!UnpackHi32(v[3], v[4]) = s4
  BY <1>1, Sse2Lanes
<1>3. IsList(s1, 4) /\ IsList(s2, 4) /\ IsList(s3, 4) /\ IsList(s4, 4)
  BY DEF IsList
<1>4. Sse2!TransposeVecs(v) = <<Sse2!UnpackLo64(s1, s3), Sse2!UnpackHi64(s1, s3),
                               Sse2!UnpackLo64(s2, s4), Sse2!UnpackHi64(s2, s4)>>
  <2> HIDE DEF s1, s2, s3, s4
  <2> QED  BY <1>2 DEF Sse2!TransposeVecs
<1>5. /\ Sse2!UnpackLo64(s1, s3) = <<s1[1], s1[2], s3[1], s3[2]>>
      /\ Sse2!UnpackHi64(s1, s3) = <<s1[3], s1[4], s3[3], s3[4]>>
      /\ Sse2!UnpackLo64(s2, s4) = <<s2[1], s2[2], s4[1], s4[2]>>
      /\ Sse2!UnpackHi64(s2, s4) = <<s2[3], s2[4], s4[3], s4[4]>>
  <2> HIDE DEF s1, s2, s3, s4
  <2> QED  BY <1>3, Sse2Lanes
<1> DEFINE row(i) == <<v[1][i], v[2][i], v[3][i], v[4][i]>>
<1>6. Sse2!TransposeVecs(v) = <<row(1), row(2), row(3), row(4)>>
  BY <1>4, <1>5
<1>7. \A i \in 1..4 : [j \in 1..4 |-> v[j][i]] = row(i)
  OBVIOUS
<1>8. Flipped(v, 4) = [i \in 1..4 |-> row(i)]
  <2> HIDE DEF row
  <2> QED  BY <1>7 DEF Flipped
<1>9. [i \in 1..4 |-> row(i)] = <<row(1), row(2), row(3), row(4)>>
  <2> HIDE DEF row
  <2> QED  OBVIOUS
<1> QED
  BY <1>6, <1>8, <1>9

\* hash4 of rust_sse2.rs hashes four inputs, each with its own counter.
LEMMA Sse2Hash4 ==
  ASSUME NEW inputs, IsList(inputs, 4), NEW blocks \in Nat, NEW counter, NEW increment
  PROVE  Sse2!Hash4(inputs, blocks, counter, increment) =
           Hashes(inputs, blocks, counter, increment, 4)
<1> DEFINE messages == [b \in 1..blocks |-> Sse2!TransposeMsgVecs(inputs, b)]
           c == Sse2!LaneCompression([r \in 1..7 |-> Sse2!Round(r)])
           h == Sse2!HashBlocks(inputs, blocks, Sse2!Counters(counter, increment), c, messages)
           xs == Hashes(inputs, blocks, counter, increment, 4)
<1>1. \A b \in 1..blocks :
        messages[b] = Vectors([l \in 1..4 |-> MessageOf(inputs[l], b)], 4, 16)
  <2> TAKE b \in 1..blocks
  <2> DEFINE f == [q \in 1..4 |-> Sse2!TransposeVecs(Sse2!Loaded(inputs, b, q))]
             squares == SubSeq(f, 1, 4)
  <2>1. messages[b] = Sse2!InOrder(4, squares)
    BY DEF Sse2!TransposeMsgVecs, Sse2!Listing
  <2>2. \A q \in 1..4 : f[q] = Flipped(Loaded(inputs, b, q), 4)
    <3> TAKE q \in 1..4
    <3>1. Sse2!Loaded(inputs, b, q) = Loaded(inputs, b, q)
      BY Sse2Shares
    <3>2. IsSquare(Loaded(inputs, b, q), 4)
      BY LoadedSquare
    <3> QED  BY <3>1, <3>2, Sse2Transposes
  <2> HIDE DEF f
  <2>3. squares = [q \in 1..4 |-> f[q]]
    BY Whole
  <2> HIDE DEF squares, messages
  <2>4. \A q \in 1..4 : 4 * q <= 16 => squares[q] = Flipped(Loaded(inputs, b, q), 4)
    BY <2>2, <2>3
  <2>5. Sse2!InOrder(4, squares) = InOrder(4, squares)
    BY Sse2Shares
  <2> QED  BY <2>1, <2>4, <2>5, MessagesAre
<1> HIDE DEF messages, c
<1>2. AreMessages(messages, inputs, blocks, 4)
  BY <1>1 DEF AreMessages
<1>3. c = Reference
  BY Sse2LaneRounds DEF c
<1>4. h = HashBlocks(inputs, blocks, LoadCounters(4, counter, increment), Reference, messages)
  BY <1>3, Sse2Shares DEF Sse2!Counters
<1>5. h = Vectors(xs, 4, 8)
  BY <1>2, <1>4, LaneHashes
<1>6. IsList(xs, 4)
  BY DEF Hashes, IsList
<1>7. Sse2!Hash4(inputs, blocks, counter, increment) =
        Sse2!StoreFour(Sse2!TransposeVecs(SubSeq(h, 1, 4)), Sse2!TransposeVecs(SubSeq(h, 5, 8)))
  BY DEF Sse2!Hash4, messages, c
<1> HIDE DEF h, xs
<1>8. /\ IsSquare(SubSeq(h, 1, 4), 4) /\ IsSquare(SubSeq(h, 5, 8), 4)
      /\ StoreFour(Flipped(SubSeq(h, 1, 4), 4), Flipped(SubSeq(h, 5, 8), 4)) = xs
  BY <1>5, <1>6, FourStored
<1>9. Sse2!Hash4(inputs, blocks, counter, increment) =
        StoreFour(Flipped(SubSeq(h, 1, 4), 4), Flipped(SubSeq(h, 5, 8), 4))
  BY <1>7, <1>8, Sse2Transposes, Sse2Shares
<1> QED
  BY <1>8, <1>9 DEF xs

\* What rust_sse41.rs shares with the other kernels
LEMMA Sse41Shares ==
  /\ \A inputs, blocks, counters, c, messages :
       Sse41!HashBlocks(inputs, blocks, counters, c, messages) =
         HashBlocks(inputs, blocks, counters, c, messages)
  /\ \A inputs, b, q : Sse41!Loaded(inputs, b, q) = Loaded(inputs, b, q)
  /\ \A squares : Sse41!InOrder(4, squares) = InOrder(4, squares)
  /\ \A counter, increment :
       Sse41!LoadCounters(4, counter, increment) = LoadCounters(4, counter, increment)
  /\ \A counter, increment, n : Sse41!Advanced(counter, increment, n) = Advanced(counter, increment, n)
  /\ \A inputs, n : Sse41!After(inputs, n) = After(inputs, n)
  /\ \A inputs, g : Sse41!GroupOf(inputs, 4, g) = GroupOf(inputs, 4, g)
  /\ \A first, second : Sse41!StoreFour(first, second) = StoreFour(first, second)
  /\ \A inputs, blocks, counter, increment, c :
       Sse41!HashEach(inputs, blocks, counter, increment, c) =
         HashEach(inputs, blocks, counter, increment, c)
<1>1. Sse41!Reference = Reference
  BY DEF Sse41!Reference, Reference, Sse41!Permute, Permute, Sse41!Permutation, Permutation,
         Sse41!ReferenceRound, ReferenceRound, Sse41!Mix, Mix, Sse41!FirstHalves,
         FirstHalves, Sse41!SecondHalves, SecondHalves, Sse41!CvPairs, CvPairs,
         Sse41!XofPairs, XofPairs, Sse41!Compression, Compression, Sse41!Places, Places
<1>2. ASSUME NEW inputs, NEW blocks, NEW counters, NEW c, NEW messages
      PROVE  Sse41!HashBlocks(inputs, blocks, counters, c, messages) =
               HashBlocks(inputs, blocks, counters, c, messages)
  BY <1>1 DEF Sse41!HashBlocks, HashBlocks, Sse41!Listing, Listing, Sse41!Gather, Gather,
         Sse41!WordsOf, WordsOf, Sse41!Key, Key, Sse41!Compressed, Compressed,
         Sse41!BlockFlags, BlockFlags
<1>3. \A inputs, b, q : Sse41!Loaded(inputs, b, q) = Loaded(inputs, b, q)
  BY DEF Sse41!Loaded, Loaded, Sse41!Listing, Listing, Sse41!MessageOf, MessageOf
<1>4. \A squares : Sse41!InOrder(4, squares) = InOrder(4, squares)
  BY DEF Sse41!InOrder, InOrder, Sse41!Listing, Listing
<1>5. \A counter, increment :
        Sse41!LoadCounters(4, counter, increment) = LoadCounters(4, counter, increment)
  BY DEF Sse41!LoadCounters, LoadCounters, Sse41!Listing, Listing, Sse41!Advanced, Advanced,
         Sse41!Low, Low, Sse41!High, High, Sse41!CounterSpan, CounterSpan
<1>6. \A counter, increment, n : Sse41!Advanced(counter, increment, n) = Advanced(counter, increment, n)
  BY DEF Sse41!Advanced, Advanced, Sse41!CounterSpan, CounterSpan
<1>7. /\ \A inputs, n : Sse41!After(inputs, n) = After(inputs, n)
      /\ \A inputs, g : Sse41!GroupOf(inputs, 4, g) = GroupOf(inputs, 4, g)
  BY DEF Sse41!After, After, Sse41!GroupOf, GroupOf
<1>8. \A first, second : Sse41!StoreFour(first, second) = StoreFour(first, second)
  BY DEF Sse41!StoreFour, StoreFour, Sse41!Listing, Listing, Sse41!Gather, Gather,
         Sse41!WordsOf, WordsOf
<1>9. ASSUME NEW inputs, NEW blocks, NEW counter, NEW increment, NEW c
      PROVE  Sse41!HashEach(inputs, blocks, counter, increment, c) =
               HashEach(inputs, blocks, counter, increment, c)
  BY <1>1 DEF Sse41!HashEach, HashEach, Sse41!HashOne, HashOne, Sse41!Listing, Listing,
         Sse41!Advanced, Advanced, Sse41!Low, Low, Sse41!High, High, Sse41!CounterSpan,
         CounterSpan, Sse41!MessageOf, MessageOf, Sse41!Key, Key, Sse41!Compressed,
         Compressed, Sse41!BlockFlags, BlockFlags
<1> QED
  BY <1>2, <1>3, <1>4, <1>5, <1>6, <1>7, <1>8, <1>9

\* The rounds of hash4 in rust_sse41.rs are those of the reference.
LEMMA Sse41LaneRounds == Sse41!LaneCompression([r \in 1..7 |-> Sse41!Round(r)]) = Reference
<1>1. Sse41!Rot16 = 16 /\ Sse41!Rot12 = 12 /\ Sse41!Rot8 = 8 /\ Sse41!Rot7 = 7
  BY Sse41Shuffles
<1>2. \A r \in 1..7 : Sse41!Round(r) = RoundWith(Scheduled(r))
  <2> TAKE r \in 1..7
  <2>1. Sse41!Round(r) = Sse41!LaneRound(r, 16, 12, 8, 7)
    BY <1>1 DEF Sse41!Round
  <2>2. Sse41!LaneRound(r, 16, 12, 8, 7) = LaneRound(r, 16, 12, 8, 7)
    BY DEF Sse41!LaneRound, LaneRound, Sse41!Schedule, Schedule, Sse41!Column, Column,
           Sse41!Diagonal, Diagonal
  <2> QED  BY <2>1, <2>2, LaneRounds
<1>3. [r \in 1..7 |-> Sse41!Round(r)] = [r \in 1..7 |-> RoundWith(Scheduled(r))]
  BY <1>2
<1> QED
  BY <1>3, ReferenceIs DEF Sse41!LaneCompression, LaneCompression, Sse41!Compression, Compression,
         Sse41!CvPairs, CvPairs, Sse41!XofPairs, XofPairs

\* transpose_vecs of rust_sse41.rs transposes a square.
LEMMA Sse41Transposes ==
  ASSUME NEW v, IsSquare(v, 4)
  PROVE  Sse41!TransposeVecs(v) = Flipped(v, 4)
<1> DEFINE s1 == <<v[1][1], v[2][1], v[1][2], v[2][2]>>
           s2 == <<v[1][3], v[2][3], v[1][4], v[2][4]>>
           s3 == <<v[3][1], v[4][1], v[3][2], v[4][2]>>
           s4 == <<v[3][3], v[4][3], v[3][4], v[4][4]>>
<1>1. IsList(v[1], 4) /\ IsList(v[2], 4) /\ IsList(v[3], 4) /\ IsList(v[4], 4)
  BY DEF IsSquare
<1>2. /\ Sse41!UnpackLo32(v[1], v[2]) = s1 /\ Sse41!UnpackHi32(v[1], v[2]) = s2
      /\ Sse41!UnpackLo32(v[3], v[4]) = s3 /\ Sse41!UnpackHi32(v[3], v[4]) = s4
  BY <1>1, Sse41Lanes
<1>3. IsList(s1, 4) /\ IsList(s2, 4) /\ IsList(s3, 4) /\ IsList(s4, 4)
  BY DEF IsList
<1>4. Sse41!TransposeVecs(v) = <<Sse41!UnpackLo64(s1, s3), Sse41!UnpackHi64(s1, s3),
                               Sse41!UnpackLo64(s2, s4), Sse41!UnpackHi64(s2, s4)>>
  <2> HIDE DEF s1, s2, s3, s4
  <2> QED  BY <1>2 DEF Sse41!TransposeVecs
<1>5. /\ Sse41!UnpackLo64(s1, s3) = <<s1[1], s1[2], s3[1], s3[2]>>
      /\ Sse41!UnpackHi64(s1, s3) = <<s1[3], s1[4], s3[3], s3[4]>>
      /\ Sse41!UnpackLo64(s2, s4) = <<s2[1], s2[2], s4[1], s4[2]>>
      /\ Sse41!UnpackHi64(s2, s4) = <<s2[3], s2[4], s4[3], s4[4]>>
  <2> HIDE DEF s1, s2, s3, s4
  <2> QED  BY <1>3, Sse41Lanes
<1> DEFINE row(i) == <<v[1][i], v[2][i], v[3][i], v[4][i]>>
<1>6. Sse41!TransposeVecs(v) = <<row(1), row(2), row(3), row(4)>>
  BY <1>4, <1>5
<1>7. \A i \in 1..4 : [j \in 1..4 |-> v[j][i]] = row(i)
  OBVIOUS
<1>8. Flipped(v, 4) = [i \in 1..4 |-> row(i)]
  <2> HIDE DEF row
  <2> QED  BY <1>7 DEF Flipped
<1>9. [i \in 1..4 |-> row(i)] = <<row(1), row(2), row(3), row(4)>>
  <2> HIDE DEF row
  <2> QED  OBVIOUS
<1> QED
  BY <1>6, <1>8, <1>9

\* hash4 of rust_sse41.rs hashes four inputs, each with its own counter.
LEMMA Sse41Hash4 ==
  ASSUME NEW inputs, IsList(inputs, 4), NEW blocks \in Nat, NEW counter, NEW increment
  PROVE  Sse41!Hash4(inputs, blocks, counter, increment) =
           Hashes(inputs, blocks, counter, increment, 4)
<1> DEFINE messages == [b \in 1..blocks |-> Sse41!TransposeMsgVecs(inputs, b)]
           c == Sse41!LaneCompression([r \in 1..7 |-> Sse41!Round(r)])
           h == Sse41!HashBlocks(inputs, blocks, Sse41!Counters(counter, increment), c, messages)
           xs == Hashes(inputs, blocks, counter, increment, 4)
<1>1. \A b \in 1..blocks :
        messages[b] = Vectors([l \in 1..4 |-> MessageOf(inputs[l], b)], 4, 16)
  <2> TAKE b \in 1..blocks
  <2> DEFINE f == [q \in 1..4 |-> Sse41!TransposeVecs(Sse41!Loaded(inputs, b, q))]
             squares == SubSeq(f, 1, 4)
  <2>1. messages[b] = Sse41!InOrder(4, squares)
    BY DEF Sse41!TransposeMsgVecs, Sse41!Listing
  <2>2. \A q \in 1..4 : f[q] = Flipped(Loaded(inputs, b, q), 4)
    <3> TAKE q \in 1..4
    <3>1. Sse41!Loaded(inputs, b, q) = Loaded(inputs, b, q)
      BY Sse41Shares
    <3>2. IsSquare(Loaded(inputs, b, q), 4)
      BY LoadedSquare
    <3> QED  BY <3>1, <3>2, Sse41Transposes
  <2> HIDE DEF f
  <2>3. squares = [q \in 1..4 |-> f[q]]
    BY Whole
  <2> HIDE DEF squares, messages
  <2>4. \A q \in 1..4 : 4 * q <= 16 => squares[q] = Flipped(Loaded(inputs, b, q), 4)
    BY <2>2, <2>3
  <2>5. Sse41!InOrder(4, squares) = InOrder(4, squares)
    BY Sse41Shares
  <2> QED  BY <2>1, <2>4, <2>5, MessagesAre
<1> HIDE DEF messages, c
<1>2. AreMessages(messages, inputs, blocks, 4)
  BY <1>1 DEF AreMessages
<1>3. c = Reference
  BY Sse41LaneRounds DEF c
<1>4. h = HashBlocks(inputs, blocks, LoadCounters(4, counter, increment), Reference, messages)
  BY <1>3, Sse41Shares DEF Sse41!Counters
<1>5. h = Vectors(xs, 4, 8)
  BY <1>2, <1>4, LaneHashes
<1>6. IsList(xs, 4)
  BY DEF Hashes, IsList
<1>7. Sse41!Hash4(inputs, blocks, counter, increment) =
        Sse41!StoreFour(Sse41!TransposeVecs(SubSeq(h, 1, 4)), Sse41!TransposeVecs(SubSeq(h, 5, 8)))
  BY DEF Sse41!Hash4, messages, c
<1> HIDE DEF h, xs
<1>8. /\ IsSquare(SubSeq(h, 1, 4), 4) /\ IsSquare(SubSeq(h, 5, 8), 4)
      /\ StoreFour(Flipped(SubSeq(h, 1, 4), 4), Flipped(SubSeq(h, 5, 8), 4)) = xs
  BY <1>5, <1>6, FourStored
<1>9. Sse41!Hash4(inputs, blocks, counter, increment) =
        StoreFour(Flipped(SubSeq(h, 1, 4), 4), Flipped(SubSeq(h, 5, 8), 4))
  BY <1>7, <1>8, Sse41Transposes, Sse41Shares
<1> QED
  BY <1>8, <1>9 DEF xs

\* What wasm32_simd.rs shares with the other kernels
LEMMA WasmShares ==
  /\ \A inputs, blocks, counters, c, messages :
       Wasm!HashBlocks(inputs, blocks, counters, c, messages) =
         HashBlocks(inputs, blocks, counters, c, messages)
  /\ \A inputs, b, q : Wasm!Loaded(inputs, b, q) = Loaded(inputs, b, q)
  /\ \A squares : Wasm!InOrder(4, squares) = InOrder(4, squares)
  /\ \A counter, increment :
       Wasm!LoadCounters(4, counter, increment) = LoadCounters(4, counter, increment)
  /\ \A counter, increment, n : Wasm!Advanced(counter, increment, n) = Advanced(counter, increment, n)
  /\ \A inputs, n : Wasm!After(inputs, n) = After(inputs, n)
  /\ \A inputs, g : Wasm!GroupOf(inputs, 4, g) = GroupOf(inputs, 4, g)
  /\ \A first, second : Wasm!StoreFour(first, second) = StoreFour(first, second)
  /\ \A inputs, blocks, counter, increment, c :
       Wasm!HashEach(inputs, blocks, counter, increment, c) =
         HashEach(inputs, blocks, counter, increment, c)
<1>1. Wasm!Reference = Reference
  BY DEF Wasm!Reference, Reference, Wasm!Permute, Permute, Wasm!Permutation, Permutation,
         Wasm!ReferenceRound, ReferenceRound, Wasm!Mix, Mix, Wasm!FirstHalves, FirstHalves,
         Wasm!SecondHalves, SecondHalves, Wasm!CvPairs, CvPairs, Wasm!XofPairs, XofPairs,
         Wasm!Compression, Compression, Wasm!Places, Places
<1>2. ASSUME NEW inputs, NEW blocks, NEW counters, NEW c, NEW messages
      PROVE  Wasm!HashBlocks(inputs, blocks, counters, c, messages) =
               HashBlocks(inputs, blocks, counters, c, messages)
  BY <1>1 DEF Wasm!HashBlocks, HashBlocks, Wasm!Listing, Listing, Wasm!Gather, Gather,
         Wasm!WordsOf, WordsOf, Wasm!Key, Key, Wasm!Compressed, Compressed, Wasm!BlockFlags,
         BlockFlags
<1>3. \A inputs, b, q : Wasm!Loaded(inputs, b, q) = Loaded(inputs, b, q)
  BY DEF Wasm!Loaded, Loaded, Wasm!Listing, Listing, Wasm!MessageOf, MessageOf
<1>4. \A squares : Wasm!InOrder(4, squares) = InOrder(4, squares)
  BY DEF Wasm!InOrder, InOrder, Wasm!Listing, Listing
<1>5. \A counter, increment :
        Wasm!LoadCounters(4, counter, increment) = LoadCounters(4, counter, increment)
  BY DEF Wasm!LoadCounters, LoadCounters, Wasm!Listing, Listing, Wasm!Advanced, Advanced,
         Wasm!Low, Low, Wasm!High, High, Wasm!CounterSpan, CounterSpan
<1>6. \A counter, increment, n : Wasm!Advanced(counter, increment, n) = Advanced(counter, increment, n)
  BY DEF Wasm!Advanced, Advanced, Wasm!CounterSpan, CounterSpan
<1>7. /\ \A inputs, n : Wasm!After(inputs, n) = After(inputs, n)
      /\ \A inputs, g : Wasm!GroupOf(inputs, 4, g) = GroupOf(inputs, 4, g)
  BY DEF Wasm!After, After, Wasm!GroupOf, GroupOf
<1>8. \A first, second : Wasm!StoreFour(first, second) = StoreFour(first, second)
  BY DEF Wasm!StoreFour, StoreFour, Wasm!Listing, Listing, Wasm!Gather, Gather, Wasm!WordsOf,
         WordsOf
<1>9. ASSUME NEW inputs, NEW blocks, NEW counter, NEW increment, NEW c
      PROVE  Wasm!HashEach(inputs, blocks, counter, increment, c) =
               HashEach(inputs, blocks, counter, increment, c)
  BY <1>1 DEF Wasm!HashEach, HashEach, Wasm!HashOne, HashOne, Wasm!Listing, Listing,
         Wasm!Advanced, Advanced, Wasm!Low, Low, Wasm!High, High, Wasm!CounterSpan,
         CounterSpan, Wasm!MessageOf, MessageOf, Wasm!Key, Key, Wasm!Compressed, Compressed,
         Wasm!BlockFlags, BlockFlags
<1> QED
  BY <1>2, <1>3, <1>4, <1>5, <1>6, <1>7, <1>8, <1>9

\* The rounds of hash4 in wasm32_simd.rs are those of the reference.
LEMMA WasmLaneRounds == Wasm!LaneCompression([r \in 1..7 |-> Wasm!Round(r)]) = Reference
<1>1. Wasm!Rot16 = 16 /\ Wasm!Rot12 = 12 /\ Wasm!Rot8 = 8 /\ Wasm!Rot7 = 7
  BY WasmShuffles
<1>2. \A r \in 1..7 : Wasm!Round(r) = RoundWith(Scheduled(r))
  <2> TAKE r \in 1..7
  <2>1. Wasm!Round(r) = Wasm!LaneRound(r, 16, 12, 8, 7)
    BY <1>1 DEF Wasm!Round
  <2>2. Wasm!LaneRound(r, 16, 12, 8, 7) = LaneRound(r, 16, 12, 8, 7)
    BY DEF Wasm!LaneRound, LaneRound, Wasm!Schedule, Schedule, Wasm!Column, Column,
           Wasm!Diagonal, Diagonal
  <2> QED  BY <2>1, <2>2, LaneRounds
<1>3. [r \in 1..7 |-> Wasm!Round(r)] = [r \in 1..7 |-> RoundWith(Scheduled(r))]
  BY <1>2
<1> QED
  BY <1>3, ReferenceIs DEF Wasm!LaneCompression, LaneCompression, Wasm!Compression, Compression, Wasm!CvPairs,
         CvPairs, Wasm!XofPairs, XofPairs

\* transpose_vecs of wasm32_simd.rs transposes a square.
LEMMA WasmTransposes ==
  ASSUME NEW v, IsSquare(v, 4)
  PROVE  Wasm!TransposeVecs(v) = Flipped(v, 4)
<1> DEFINE s1 == <<v[1][1], v[2][1], v[1][2], v[2][2]>>
           s2 == <<v[1][3], v[2][3], v[1][4], v[2][4]>>
           s3 == <<v[3][1], v[4][1], v[3][2], v[4][2]>>
           s4 == <<v[3][3], v[4][3], v[3][4], v[4][4]>>
<1>1. IsList(v[1], 4) /\ IsList(v[2], 4) /\ IsList(v[3], 4) /\ IsList(v[4], 4)
  BY DEF IsSquare
<1>2. /\ Wasm!UnpackLoEpi32(v[1], v[2]) = s1 /\ Wasm!UnpackHiEpi32(v[1], v[2]) = s2
      /\ Wasm!UnpackLoEpi32(v[3], v[4]) = s3 /\ Wasm!UnpackHiEpi32(v[3], v[4]) = s4
  BY <1>1, WasmLanes
<1>3. IsList(s1, 4) /\ IsList(s2, 4) /\ IsList(s3, 4) /\ IsList(s4, 4)
  BY DEF IsList
<1>4. Wasm!TransposeVecs(v) = <<Wasm!UnpackLoEpi64(s1, s3), Wasm!UnpackHiEpi64(s1, s3),
                               Wasm!UnpackLoEpi64(s2, s4), Wasm!UnpackHiEpi64(s2, s4)>>
  <2> HIDE DEF s1, s2, s3, s4
  <2> QED  BY <1>2 DEF Wasm!TransposeVecs
<1>5. /\ Wasm!UnpackLoEpi64(s1, s3) = <<s1[1], s1[2], s3[1], s3[2]>>
      /\ Wasm!UnpackHiEpi64(s1, s3) = <<s1[3], s1[4], s3[3], s3[4]>>
      /\ Wasm!UnpackLoEpi64(s2, s4) = <<s2[1], s2[2], s4[1], s4[2]>>
      /\ Wasm!UnpackHiEpi64(s2, s4) = <<s2[3], s2[4], s4[3], s4[4]>>
  <2> HIDE DEF s1, s2, s3, s4
  <2> QED  BY <1>3, WasmLanes
<1> DEFINE row(i) == <<v[1][i], v[2][i], v[3][i], v[4][i]>>
<1>6. Wasm!TransposeVecs(v) = <<row(1), row(2), row(3), row(4)>>
  BY <1>4, <1>5
<1>7. \A i \in 1..4 : [j \in 1..4 |-> v[j][i]] = row(i)
  OBVIOUS
<1>8. Flipped(v, 4) = [i \in 1..4 |-> row(i)]
  <2> HIDE DEF row
  <2> QED  BY <1>7 DEF Flipped
<1>9. [i \in 1..4 |-> row(i)] = <<row(1), row(2), row(3), row(4)>>
  <2> HIDE DEF row
  <2> QED  OBVIOUS
<1> QED
  BY <1>6, <1>8, <1>9

\* hash4 of wasm32_simd.rs hashes four inputs, each with its own counter.
LEMMA WasmHash4 ==
  ASSUME NEW inputs, IsList(inputs, 4), NEW blocks \in Nat, NEW counter, NEW increment
  PROVE  Wasm!Hash4(inputs, blocks, counter, increment) =
           Hashes(inputs, blocks, counter, increment, 4)
<1> DEFINE messages == [b \in 1..blocks |-> Wasm!TransposeMsgVecs(inputs, b)]
           c == Wasm!LaneCompression([r \in 1..7 |-> Wasm!Round(r)])
           h == Wasm!HashBlocks(inputs, blocks, Wasm!Counters(counter, increment), c, messages)
           xs == Hashes(inputs, blocks, counter, increment, 4)
<1>1. \A b \in 1..blocks :
        messages[b] = Vectors([l \in 1..4 |-> MessageOf(inputs[l], b)], 4, 16)
  <2> TAKE b \in 1..blocks
  <2> DEFINE f == [q \in 1..4 |-> Wasm!TransposeVecs(Wasm!Loaded(inputs, b, q))]
             squares == SubSeq(f, 1, 4)
  <2>1. messages[b] = Wasm!InOrder(4, squares)
    BY DEF Wasm!TransposeMsgVecs, Wasm!Listing
  <2>2. \A q \in 1..4 : f[q] = Flipped(Loaded(inputs, b, q), 4)
    <3> TAKE q \in 1..4
    <3>1. Wasm!Loaded(inputs, b, q) = Loaded(inputs, b, q)
      BY WasmShares
    <3>2. IsSquare(Loaded(inputs, b, q), 4)
      BY LoadedSquare
    <3> QED  BY <3>1, <3>2, WasmTransposes
  <2> HIDE DEF f
  <2>3. squares = [q \in 1..4 |-> f[q]]
    BY Whole
  <2> HIDE DEF squares, messages
  <2>4. \A q \in 1..4 : 4 * q <= 16 => squares[q] = Flipped(Loaded(inputs, b, q), 4)
    BY <2>2, <2>3
  <2>5. Wasm!InOrder(4, squares) = InOrder(4, squares)
    BY WasmShares
  <2> QED  BY <2>1, <2>4, <2>5, MessagesAre
<1> HIDE DEF messages, c
<1>2. AreMessages(messages, inputs, blocks, 4)
  BY <1>1 DEF AreMessages
<1>3. c = Reference
  BY WasmLaneRounds DEF c
<1>4. h = HashBlocks(inputs, blocks, LoadCounters(4, counter, increment), Reference, messages)
  BY <1>3, WasmShares DEF Wasm!Counters
<1>5. h = Vectors(xs, 4, 8)
  BY <1>2, <1>4, LaneHashes
<1>6. IsList(xs, 4)
  BY DEF Hashes, IsList
<1>7. Wasm!Hash4(inputs, blocks, counter, increment) =
        Wasm!StoreFour(Wasm!TransposeVecs(SubSeq(h, 1, 4)), Wasm!TransposeVecs(SubSeq(h, 5, 8)))
  BY DEF Wasm!Hash4, messages, c
<1> HIDE DEF h, xs
<1>8. /\ IsSquare(SubSeq(h, 1, 4), 4) /\ IsSquare(SubSeq(h, 5, 8), 4)
      /\ StoreFour(Flipped(SubSeq(h, 1, 4), 4), Flipped(SubSeq(h, 5, 8), 4)) = xs
  BY <1>5, <1>6, FourStored
<1>9. Wasm!Hash4(inputs, blocks, counter, increment) =
        StoreFour(Flipped(SubSeq(h, 1, 4), 4), Flipped(SubSeq(h, 5, 8), 4))
  BY <1>7, <1>8, WasmTransposes, WasmShares
<1> QED
  BY <1>8, <1>9 DEF xs

\* What rust_avx2.rs shares with the other kernels
LEMMA Avx2Shares ==
  /\ \A inputs, blocks, counters, c, messages :
       Avx2!HashBlocks(inputs, blocks, counters, c, messages) =
         HashBlocks(inputs, blocks, counters, c, messages)
  /\ \A inputs, b, q : Avx2!Loaded(inputs, b, q) = Loaded(inputs, b, q)
  /\ \A squares : Avx2!InOrder(8, squares) = InOrder(8, squares)
  /\ \A counter, increment :
       Avx2!LoadCounters(8, counter, increment) = LoadCounters(8, counter, increment)
  /\ \A counter, increment, n : Avx2!Advanced(counter, increment, n) = Advanced(counter, increment, n)
  /\ \A inputs, n : Avx2!After(inputs, n) = After(inputs, n)
  /\ \A inputs, g : Avx2!GroupOf(inputs, 8, g) = GroupOf(inputs, 8, g)
  /\ \A ws : Avx2!Gather(ws) = Gather(ws)
<1>1. Avx2!Reference = Reference
  BY DEF Avx2!Reference, Reference, Avx2!Permute, Permute, Avx2!Permutation, Permutation,
         Avx2!ReferenceRound, ReferenceRound, Avx2!Mix, Mix, Avx2!FirstHalves, FirstHalves,
         Avx2!SecondHalves, SecondHalves, Avx2!CvPairs, CvPairs, Avx2!XofPairs, XofPairs,
         Avx2!Compression, Compression, Avx2!Places, Places
<1>2. ASSUME NEW inputs, NEW blocks, NEW counters, NEW c, NEW messages
      PROVE  Avx2!HashBlocks(inputs, blocks, counters, c, messages) =
               HashBlocks(inputs, blocks, counters, c, messages)
  BY <1>1 DEF Avx2!HashBlocks, HashBlocks, Avx2!Listing, Listing, Avx2!Gather, Gather,
         Avx2!WordsOf, WordsOf, Avx2!Key, Key, Avx2!Compressed, Compressed, Avx2!BlockFlags,
         BlockFlags
<1>3. \A inputs, b, q : Avx2!Loaded(inputs, b, q) = Loaded(inputs, b, q)
  BY DEF Avx2!Loaded, Loaded, Avx2!Listing, Listing, Avx2!MessageOf, MessageOf
<1>4. \A squares : Avx2!InOrder(8, squares) = InOrder(8, squares)
  BY DEF Avx2!InOrder, InOrder, Avx2!Listing, Listing
<1>5. \A counter, increment :
        Avx2!LoadCounters(8, counter, increment) = LoadCounters(8, counter, increment)
  BY DEF Avx2!LoadCounters, LoadCounters, Avx2!Listing, Listing, Avx2!Advanced, Advanced,
         Avx2!Low, Low, Avx2!High, High, Avx2!CounterSpan, CounterSpan
<1>6. \A counter, increment, n : Avx2!Advanced(counter, increment, n) = Advanced(counter, increment, n)
  BY DEF Avx2!Advanced, Advanced, Avx2!CounterSpan, CounterSpan
<1>7. /\ \A inputs, n : Avx2!After(inputs, n) = After(inputs, n)
      /\ \A inputs, g : Avx2!GroupOf(inputs, 8, g) = GroupOf(inputs, 8, g)
  BY DEF Avx2!After, After, Avx2!GroupOf, GroupOf
<1>8. \A ws : Avx2!Gather(ws) = Gather(ws)
  BY DEF Avx2!Gather, Gather, Avx2!WordsOf, WordsOf, Avx2!Listing, Listing
<1> QED
  BY <1>2, <1>3, <1>4, <1>5, <1>6, <1>7, <1>8

\* The rounds of hash8 in rust_avx2.rs are those of the reference.
LEMMA Avx2LaneRounds == Avx2!LaneCompression([r \in 1..7 |-> Avx2!Round(r)]) = Reference
<1>1. Avx2!Rot16 = 16 /\ Avx2!Rot12 = 12 /\ Avx2!Rot8 = 8 /\ Avx2!Rot7 = 7
  BY DEF Avx2!Rot16, Avx2!Rot12, Avx2!Rot8, Avx2!Rot7, Avx2!ByShifts
<1>2. \A r \in 1..7 : Avx2!Round(r) = RoundWith(Scheduled(r))
  <2> TAKE r \in 1..7
  <2>1. Avx2!Round(r) = Avx2!LaneRound(r, 16, 12, 8, 7)
    BY <1>1 DEF Avx2!Round
  <2>2. Avx2!LaneRound(r, 16, 12, 8, 7) = LaneRound(r, 16, 12, 8, 7)
    BY DEF Avx2!LaneRound, LaneRound, Avx2!Schedule, Schedule, Avx2!Column, Column,
           Avx2!Diagonal, Diagonal
  <2> QED  BY <2>1, <2>2, LaneRounds
<1>3. [r \in 1..7 |-> Avx2!Round(r)] = [r \in 1..7 |-> RoundWith(Scheduled(r))]
  BY <1>2
<1> QED
  BY <1>3, ReferenceIs DEF Avx2!LaneCompression, LaneCompression, Avx2!Compression, Compression, Avx2!CvPairs,
         CvPairs, Avx2!XofPairs, XofPairs

\* The halves of a vector of eight
LEMMA Halves ==
  ASSUME NEW a
  PROVE  /\ SubSeq(a, 1, 4) = <<a[1], a[2], a[3], a[4]>>
         /\ SubSeq(a, 5, 8) = <<a[5], a[6], a[7], a[8]>>
<1>1. SubSeq(a, 1, 4) = [i \in 1..4 |-> a[i]]
  BY Whole
<1>2. SubSeq(a, 5, 8) = [i \in 1..4 |-> a[4 + i]]
  <2>1. SubSeq(a, 4 + 1, 4 + 4) = [i \in 1..4 |-> a[4 + i]]
    BY SubList
  <2> QED  BY <2>1
<1>3. [i \in 1..4 |-> a[i]] = <<a[1], a[2], a[3], a[4]>>
  OBVIOUS
<1>4. [i \in 1..4 |-> a[4 + i]] = <<a[5], a[6], a[7], a[8]>>
  <2> DEFINE f == [i \in 1..4 |-> a[4 + i]]
  <2>1. f[1] = a[5] /\ f[2] = a[6] /\ f[3] = a[7] /\ f[4] = a[8] /\ IsList(f, 4)
    BY DEF IsList
  <2> HIDE DEF f
  <2>2. f = <<a[5], a[6], a[7], a[8]>>
    BY <2>1 DEF IsList
  <2> QED  BY <2>2 DEF f
<1> QED
  BY <1>1, <1>2, <1>3, <1>4

\* The unpack instructions on vectors of eight
LEMMA Unpacked8 ==
  ASSUME NEW a, NEW b, Len(a) = 8
  PROVE  /\ Avx2!UnpackLo32(a, b) = <<a[1], b[1], a[2], b[2], a[5], b[5], a[6], b[6]>>
         /\ Avx2!UnpackHi32(a, b) = <<a[3], b[3], a[4], b[4], a[7], b[7], a[8], b[8]>>
         /\ Avx2!UnpackLo64(a, b) = <<a[1], a[2], b[1], b[2], a[5], a[6], b[5], b[6]>>
         /\ Avx2!UnpackHi64(a, b) = <<a[3], a[4], b[3], b[4], a[7], a[8], b[7], b[8]>>
<1>1. /\ Avx2!UnpackLo32(a, b) = <<a[1], b[1], a[2], b[2]>> \o <<a[5], b[5], a[6], b[6]>>
      /\ Avx2!UnpackHi32(a, b) = <<a[3], b[3], a[4], b[4]>> \o <<a[7], b[7], a[8], b[8]>>
      /\ Avx2!UnpackLo64(a, b) = <<a[1], a[2], b[1], b[2]>> \o <<a[5], a[6], b[5], b[6]>>
      /\ Avx2!UnpackHi64(a, b) = <<a[3], a[4], b[3], b[4]>> \o <<a[7], a[8], b[7], b[8]>>
  BY Halves DEF Avx2!UnpackLo32, Avx2!UnpackHi32, Avx2!UnpackLo64, Avx2!UnpackHi64, Avx2!PerHalf
<1> QED
  BY <1>1, Join4

\* Halves of two vectors side by side
LEMMA Interleaved ==
  ASSUME NEW a, NEW b
  PROVE  /\ Avx2!Interleave128(a, b)[1] = <<a[1], a[2], a[3], a[4], b[1], b[2], b[3], b[4]>>
         /\ Avx2!Interleave128(a, b)[2] = <<a[5], a[6], a[7], a[8], b[5], b[6], b[7], b[8]>>
<1>1. /\ Avx2!Permute2x128(a, b, 2, 0) = SubSeq(a, 1, 4) \o SubSeq(b, 1, 4)
      /\ Avx2!Permute2x128(a, b, 3, 1) = SubSeq(a, 5, 8) \o SubSeq(b, 5, 8)
  BY DEF Avx2!Permute2x128
<1>2. /\ Avx2!Permute2x128(a, b, 2, 0) = <<a[1], a[2], a[3], a[4], b[1], b[2], b[3], b[4]>>
      /\ Avx2!Permute2x128(a, b, 3, 1) = <<a[5], a[6], a[7], a[8], b[5], b[6], b[7], b[8]>>
  BY <1>1, Halves, Join4
<1> QED
  BY <1>2 DEF Avx2!Interleave128

\* Both halves of four vectors of eight, transposed side by side
FourOf(a, b, c, d) ==
  << <<a[1], b[1], c[1], d[1], a[5], b[5], c[5], d[5]>>,
     <<a[2], b[2], c[2], d[2], a[6], b[6], c[6], d[6]>>,
     <<a[3], b[3], c[3], d[3], a[7], b[7], c[7], d[7]>>,
     <<a[4], b[4], c[4], d[4], a[8], b[8], c[8], d[8]>> >>

\* Four vectors, interleaved by words and by pairs of words
LEMMA FourUnpacked ==
  ASSUME NEW a, NEW b, NEW c, NEW d, Len(a) = 8, Len(b) = 8, Len(c) = 8, Len(d) = 8
  PROVE  <<Avx2!UnpackLo64(Avx2!UnpackLo32(a, b), Avx2!UnpackLo32(c, d)),
           Avx2!UnpackHi64(Avx2!UnpackLo32(a, b), Avx2!UnpackLo32(c, d)),
           Avx2!UnpackLo64(Avx2!UnpackHi32(a, b), Avx2!UnpackHi32(c, d)),
           Avx2!UnpackHi64(Avx2!UnpackHi32(a, b), Avx2!UnpackHi32(c, d))>> = FourOf(a, b, c, d)
<1> DEFINE s0 == <<a[1], b[1], a[2], b[2], a[5], b[5], a[6], b[6]>>
           s1 == <<a[3], b[3], a[4], b[4], a[7], b[7], a[8], b[8]>>
           s2 == <<c[1], d[1], c[2], d[2], c[5], d[5], c[6], d[6]>>
           s3 == <<c[3], d[3], c[4], d[4], c[7], d[7], c[8], d[8]>>
<1>1. /\ Avx2!UnpackLo32(a, b) = s0 /\ Avx2!UnpackHi32(a, b) = s1
      /\ Avx2!UnpackLo32(c, d) = s2 /\ Avx2!UnpackHi32(c, d) = s3
  BY Unpacked8
<1>2. Len(s0) = 8 /\ Len(s1) = 8
  OBVIOUS
<1>3. Avx2!UnpackLo64(s0, s2) = <<a[1], b[1], c[1], d[1], a[5], b[5], c[5], d[5]>>
  BY <1>2, Unpacked8
<1>4. Avx2!UnpackHi64(s0, s2) = <<a[2], b[2], c[2], d[2], a[6], b[6], c[6], d[6]>>
  BY <1>2, Unpacked8
<1>5. Avx2!UnpackLo64(s1, s3) = <<a[3], b[3], c[3], d[3], a[7], b[7], c[7], d[7]>>
  BY <1>2, Unpacked8
<1>6. Avx2!UnpackHi64(s1, s3) = <<a[4], b[4], c[4], d[4], a[8], b[8], c[8], d[8]>>
  BY <1>2, Unpacked8
<1> HIDE DEF s0, s1, s2, s3
<1> QED
  BY <1>1, <1>3, <1>4, <1>5, <1>6 DEF FourOf

\* transpose_vecs of rust_avx2.rs transposes a square.
LEMMA Avx2Transposes ==
  ASSUME NEW v, IsSquare(v, 8)
  PROVE  Avx2!TransposeVecs(v) = Flipped(v, 8)
<1>1. \A j \in 1..8 : Len(v[j]) = 8
  BY ListIsSeq DEF IsSquare
<1> DEFINE first == FourOf(v[1], v[2], v[3], v[4])
           second == FourOf(v[5], v[6], v[7], v[8])
           both == [k \in 1..4 |-> Avx2!Interleave128(first[k], second[k])]
           row(k) == <<v[1][k], v[2][k], v[3][k], v[4][k], v[5][k], v[6][k], v[7][k], v[8][k]>>
<1>2. Avx2!TransposeVecs(v) = [k \in 1..8 |-> IF k <= 4 THEN both[k][1] ELSE both[k - 4][2]]
  <2>1. /\ <<Avx2!UnpackLo64(Avx2!UnpackLo32(v[1], v[2]), Avx2!UnpackLo32(v[3], v[4])),
             Avx2!UnpackHi64(Avx2!UnpackLo32(v[1], v[2]), Avx2!UnpackLo32(v[3], v[4])),
             Avx2!UnpackLo64(Avx2!UnpackHi32(v[1], v[2]), Avx2!UnpackHi32(v[3], v[4])),
             Avx2!UnpackHi64(Avx2!UnpackHi32(v[1], v[2]), Avx2!UnpackHi32(v[3], v[4]))>> = first
        /\ <<Avx2!UnpackLo64(Avx2!UnpackLo32(v[5], v[6]), Avx2!UnpackLo32(v[7], v[8])),
             Avx2!UnpackHi64(Avx2!UnpackLo32(v[5], v[6]), Avx2!UnpackLo32(v[7], v[8])),
             Avx2!UnpackLo64(Avx2!UnpackHi32(v[5], v[6]), Avx2!UnpackHi32(v[7], v[8])),
             Avx2!UnpackHi64(Avx2!UnpackHi32(v[5], v[6]), Avx2!UnpackHi32(v[7], v[8]))>> = second
    BY <1>1, FourUnpacked
  <2> HIDE DEF first, second
  <2>2. 1 + 1 = 2 /\ 1 + 2 = 3 /\ 3 + 1 = 4 /\ 5 + 1 = 6 /\ 5 + 2 = 7 /\ 7 + 1 = 8
    OBVIOUS
  <2> QED  BY <2>1, <2>2 DEF Avx2!TransposeVecs
<1>3. /\ both[1][1] = row(1) /\ both[2][1] = row(2) /\ both[3][1] = row(3) /\ both[4][1] = row(4)
      /\ both[1][2] = row(5) /\ both[2][2] = row(6) /\ both[3][2] = row(7) /\ both[4][2] = row(8)
  <2>1. \A k \in 1..4 : both[k] = Avx2!Interleave128(first[k], second[k])
    OBVIOUS
  <2>2. \A a, b : /\ Avx2!Interleave128(a, b)[1] = <<a[1], a[2], a[3], a[4], b[1], b[2], b[3], b[4]>>
                  /\ Avx2!Interleave128(a, b)[2] = <<a[5], a[6], a[7], a[8], b[5], b[6], b[7], b[8]>>
    BY Interleaved
  <2> HIDE DEF both
  <2>3. both[1][1] = row(1) /\ both[1][2] = row(5)
    BY <2>1, <2>2 DEF FourOf
  <2>4. both[2][1] = row(2) /\ both[2][2] = row(6)
    BY <2>1, <2>2 DEF FourOf
  <2>5. both[3][1] = row(3) /\ both[3][2] = row(7)
    BY <2>1, <2>2 DEF FourOf
  <2>6. both[4][1] = row(4) /\ both[4][2] = row(8)
    BY <2>1, <2>2 DEF FourOf
  <2> QED  BY <2>3, <2>4, <2>5, <2>6
<1> HIDE DEF both, first, second
<1>4. \A k \in 1..8 : (IF k <= 4 THEN both[k][1] ELSE both[k - 4][2]) = row(k)
  <2> HIDE DEF row
  <2> QED  BY <1>3
<1>5. \A i \in 1..8 : [j \in 1..8 |-> v[j][i]] = row(i)
  OBVIOUS
<1> HIDE DEF row
<1>6. Flipped(v, 8) = [i \in 1..8 |-> row(i)]
  BY <1>5 DEF Flipped
<1>7. Avx2!TransposeVecs(v) = [i \in 1..8 |-> row(i)]
  BY <1>2, <1>4
<1> QED
  BY <1>6, <1>7

\* hash8 of rust_avx2.rs hashes eight inputs, each with its own counter.
LEMMA Avx2Hash8 ==
  ASSUME NEW inputs, IsList(inputs, 8), NEW blocks \in Nat, NEW counter, NEW increment
  PROVE  Avx2!Hash8(inputs, blocks, counter, increment) =
           Hashes(inputs, blocks, counter, increment, 8)
<1> DEFINE messages == [b \in 1..blocks |-> Avx2!TransposeMsgVecs(inputs, b)]
           c == Avx2!LaneCompression([r \in 1..7 |-> Avx2!Round(r)])
           h == Avx2!HashBlocks(inputs, blocks, Avx2!Counters(counter, increment), c, messages)
           xs == Hashes(inputs, blocks, counter, increment, 8)
<1>1. \A b \in 1..blocks :
        messages[b] = Vectors([l \in 1..8 |-> MessageOf(inputs[l], b)], 8, 16)
  <2> TAKE b \in 1..blocks
  <2> DEFINE f == [q \in 1..2 |-> Avx2!TransposeVecs(Avx2!Loaded(inputs, b, q))]
             squares == SubSeq(f, 1, 2)
  <2>1. messages[b] = Avx2!InOrder(8, squares)
    BY DEF Avx2!TransposeMsgVecs, Avx2!Listing
  <2>2. \A q \in 1..2 : f[q] = Flipped(Loaded(inputs, b, q), 8)
    <3> TAKE q \in 1..2
    <3>1. Avx2!Loaded(inputs, b, q) = Loaded(inputs, b, q)
      BY Avx2Shares
    <3>2. IsSquare(Loaded(inputs, b, q), 8)
      BY LoadedSquare
    <3> QED  BY <3>1, <3>2, Avx2Transposes
  <2> HIDE DEF f
  <2>3. squares = [q \in 1..2 |-> f[q]]
    BY Whole
  <2> HIDE DEF squares, messages
  <2>4. \A q \in 1..4 : 8 * q <= 16 => squares[q] = Flipped(Loaded(inputs, b, q), 8)
    BY <2>2, <2>3
  <2>5. Avx2!InOrder(8, squares) = InOrder(8, squares)
    BY Avx2Shares
  <2> QED  BY <2>1, <2>4, <2>5, MessagesAre
<1> HIDE DEF messages, c
<1>2. AreMessages(messages, inputs, blocks, 8)
  BY <1>1 DEF AreMessages
<1>3. c = Reference
  BY Avx2LaneRounds DEF c
<1>4. h = HashBlocks(inputs, blocks, LoadCounters(8, counter, increment), Reference, messages)
  BY <1>3, Avx2Shares DEF Avx2!Counters
<1>5. h = Vectors(xs, 8, 8)
  BY <1>2, <1>4, LaneHashes
<1>6. IsList(xs, 8)
  BY DEF Hashes, IsList
<1> DEFINE turned == Avx2!TransposeVecs(h)
           f == [i \in 1..8 |-> Avx2!Gather(turned[i])]
<1>7. Avx2!Hash8(inputs, blocks, counter, increment) = SubSeq(f, 1, 8)
  BY DEF Avx2!Hash8, messages, c, Avx2!Listing
<1> HIDE DEF h, xs
<1>8. IsSquare(h, 8) /\ StoreEight(Flipped(h, 8)) = xs
  BY <1>5, <1>6, EightStored
<1>9. turned = Flipped(h, 8)
  BY <1>8, Avx2Transposes
<1> HIDE DEF turned
<1>10. f = [i \in 1..8 |-> Gather(turned[i])]
  BY Avx2Shares
<1> HIDE DEF f
<1>11. SubSeq(f, 1, 8) = xs
  BY <1>8, <1>9, <1>10 DEF StoreEight, Listing
<1> QED
  BY <1>7, <1>11 DEF xs

-----------------------------------------------------------------------------
(* Batches *)

\* A part is a list.
LEMMA PartIsList ==
  ASSUME NEW e, NEW m, NEW n
  PROVE  IsList(Part(e, m, n), n)
BY DEF Part, IsList

\* Groups of a list, and what is behind its first members
LEMMA PartsOfBatch ==
  ASSUME NEW n \in Nat, NEW inputs, IsList(inputs, n)
  PROVE  /\ \A d \in {4, 8} : \A g \in Nat \ {0} : GroupOf(inputs, d, g) = Part(inputs, d * (g - 1), d)
         /\ \A a \in 0..n : After(inputs, a) = Part(inputs, a, n - a)
         /\ \A a \in 0..n : SubSeq(inputs, 1, a) = Part(inputs, 0, a)
<1>1. ASSUME NEW d \in {4, 8}, NEW g \in Nat \ {0}
      PROVE  GroupOf(inputs, d, g) = Part(inputs, d * (g - 1), d)
  <2> DEFINE m == d * (g - 1)
  <2>1. m \in Nat /\ m + d = d * g
    OBVIOUS
  <2>2. GroupOf(inputs, d, g) = SubSeq(inputs, m + 1, m + d)
    BY <2>1 DEF GroupOf
  <2> HIDE DEF m
  <2>3. SubSeq(inputs, m + 1, m + d) = Part(inputs, m, d)
    BY <2>1, SubList DEF Part
  <2> QED  BY <2>2, <2>3 DEF m
<1>2. ASSUME NEW a \in 0..n
      PROVE  After(inputs, a) = Part(inputs, a, n - a)
  <2> DEFINE k == n - a
  <2>0. Len(inputs) = n
    BY ListIsSeq
  <2>1. k \in Nat /\ a \in Nat /\ a + k = n /\ Len(inputs) = n
    BY <2>0
  <2>2. After(inputs, a) = SubSeq(inputs, a + 1, a + k)
    BY <2>1 DEF After
  <2> HIDE DEF k
  <2>3. SubSeq(inputs, a + 1, a + k) = Part(inputs, a, k)
    BY <2>1, SubList DEF Part
  <2> QED  BY <2>2, <2>3 DEF k
<1>3. ASSUME NEW a \in 0..n
      PROVE  SubSeq(inputs, 1, a) = Part(inputs, 0, a)
  <2>1. SubSeq(inputs, 0 + 1, 0 + a) = Part(inputs, 0, a)
    BY SubList DEF Part
  <2> QED  BY <2>1
<1> QED
  BY <1>1, <1>2, <1>3

\* One by one, the inputs are hashed each with its own counter.
LEMMA EachHashed ==
  ASSUME NEW n \in Nat, NEW inputs, IsList(inputs, n), NEW blocks, NEW counter, NEW increment
  PROVE  HashEach(inputs, blocks, counter, increment, Reference) =
           Hashes(inputs, blocks, counter, increment, n)
<1> DEFINE f == [i \in 1..n |-> HashOne(inputs[i], blocks, Advanced(counter, increment, i - 1), Reference)]
<1>1. Len(inputs) = n
  BY ListIsSeq
<1>2. HashEach(inputs, blocks, counter, increment, Reference) = SubSeq(f, 1, n)
  BY <1>1 DEF HashEach, Listing
<1>3. f = [i \in 1..n |-> f[i]]
  OBVIOUS
<1>4. f = Hashes(inputs, blocks, counter, increment, n)
  BY DEF Hashes
<1> HIDE DEF f
<1>5. SubSeq(f, 1, n) = f
  BY <1>3, Whole
<1> QED
  BY <1>2, <1>4, <1>5

\* The hashes of a part of the inputs, from the counter of its first, are a part of the hashes.
LEMMA PartHashed ==
  ASSUME NEW n \in Nat, NEW inputs, NEW blocks, NEW counter \in Nat, NEW increment,
         NEW a \in Nat, NEW k \in Nat, a + k <= n
  PROVE  Hashes(Part(inputs, a, k), blocks, Advanced(counter, increment, a), increment, k) =
           Part(Hashes(inputs, blocks, counter, increment, n), a, k)
<1> DEFINE s == Part(inputs, a, k)
           c == Advanced(counter, increment, a)
           e == Hashes(inputs, blocks, counter, increment, n)
<1>1. \A l \in 1..k : HashOne(s[l], blocks, Advanced(c, increment, l - 1), Reference) = e[a + l]
  <2> TAKE l \in 1..k
  <2>1. a + l \in 1..n /\ l - 1 \in Nat /\ a + (l - 1) = (a + l) - 1
    OBVIOUS
  <2>2. s[l] = inputs[a + l]
    BY DEF Part
  <2>3. Advanced(c, increment, l - 1) = Advanced(counter, increment, (a + l) - 1)
    <3> DEFINE b == l - 1
    <3>1. b \in Nat /\ a + b = (a + l) - 1
      BY <2>1
    <3> HIDE DEF b
    <3>2. Advanced(c, increment, b) = Advanced(counter, increment, a + b)
      BY <3>1, AdvancedTwice
    <3> QED  BY <3>1, <3>2 DEF b
  <2>4. e[a + l] = HashOne(inputs[a + l], blocks, Advanced(counter, increment, (a + l) - 1), Reference)
    BY <2>1 DEF Hashes
  <2> QED  BY <2>2, <2>3, <2>4
<1> HIDE DEF s, c, e
<1>2. [l \in 1..k |-> HashOne(s[l], blocks, Advanced(c, increment, l - 1), Reference)] =
        [l \in 1..k |-> e[a + l]]
  BY <1>1
<1>3. Hashes(s, blocks, c, increment, k) = Part(e, a, k)
  BY <1>2 DEF Hashes, Part
<1> QED
  BY <1>3 DEF s, c, e

\* s has the hashes of the full groups of d inputs.
AreGroupHashes(s, inputs, blocks, counter, increment, d, groups) ==
  /\ IsList(s, groups)
  /\ \A g \in 1..groups :
       s[g] = Hashes(GroupOf(inputs, d, g), blocks, Advanced(counter, increment, d * (g - 1)),
                     increment, d)

\* The full groups of a batch are its first inputs.
LEMMA GroupsFit ==
  ASSUME NEW d \in {4, 8}, NEW n \in Nat
  PROVE  /\ n \div d \in Nat /\ d * (n \div d) \in Nat /\ d * (n \div d) <= n
         /\ n - d * (n \div d) \in Nat
BY SMTT(30)

\* The hashes of the full groups, one after the other
LEMMA GroupsHashed ==
  ASSUME NEW d \in {4, 8}, NEW n \in Nat, NEW inputs, IsList(inputs, n), NEW blocks,
         NEW counter \in Nat, NEW increment, NEW groups \in Nat, d * groups <= n, NEW s,
         AreGroupHashes(s, inputs, blocks, counter, increment, d, groups)
  PROVE  FlattenSeq(s) = Part(Hashes(inputs, blocks, counter, increment, n), 0, d * groups)
<1> DEFINE e == Hashes(inputs, blocks, counter, increment, n)
<1>1. \A g \in 1..groups : s[g] = Part(e, d * (g - 1), d)
  <2> TAKE g \in 1..groups
  <2> DEFINE a == d * (g - 1)
  <2>1. a \in Nat /\ a + d <= n /\ d \in Nat
    <3>1. a + d = d * g /\ d * g <= d * groups
      BY SMTT(30)
    <3> QED  BY <3>1
  <2>2. GroupOf(inputs, d, g) = Part(inputs, a, d)
    <3>1. g \in Nat \ {0}
      OBVIOUS
    <3> QED  BY <3>1, PartsOfBatch, Zenon
  <2>3. s[g] = Hashes(Part(inputs, a, d), blocks, Advanced(counter, increment, a), increment, d)
    BY <2>2 DEF AreGroupHashes
  <2> HIDE DEF a, e
  <2>4. Hashes(Part(inputs, a, d), blocks, Advanced(counter, increment, a), increment, d) = Part(e, a, d)
    BY <2>1, PartHashed DEF e
  <2> QED  BY <2>3, <2>4 DEF a
<1> HIDE DEF e
<1>2. FlattenSeq(s) = Part(e, 0, d * groups)
  BY <1>1, FlatGroups DEF AreGroupHashes
<1> QED
  BY <1>2 DEF e

Joined(f, h) == f \o h

\* The hashes of the first inputs, and of the rest
LEMMA RestHashed ==
  ASSUME NEW n \in Nat, NEW m \in Nat, NEW k \in Nat, m + k = n, NEW inputs, IsList(inputs, n),
         NEW blocks, NEW counter \in Nat, NEW increment, NEW f,
         f = Part(Hashes(inputs, blocks, counter, increment, n), 0, m)
  PROVE  /\ IsList(After(inputs, m), k)
         /\ Joined(f, Hashes(After(inputs, m), blocks, Advanced(counter, increment, m), increment, k))
              = Hashes(inputs, blocks, counter, increment, n)
<1> DEFINE e == Hashes(inputs, blocks, counter, increment, n)
<1>1. m \in 0..n /\ k = n - m /\ m + k <= n
  OBVIOUS
<1>2. After(inputs, m) = Part(inputs, m, k)
  BY <1>1, PartsOfBatch
<1>3. Hashes(Part(inputs, m, k), blocks, Advanced(counter, increment, m), increment, k) = Part(e, m, k)
  <2> HIDE DEF e
  <2> QED  BY <1>1, PartHashed DEF e
<1> HIDE DEF e
<1>4. Part(e, 0, m) \o Part(e, m, k) = Part(e, 0, n)
  BY GluedParts
<1>5. Part(e, 0, n) = e
  <2>1. \A i \in 1..n : 0 + i = i
    OBVIOUS
  <2>2. [i \in 1..n |-> e[0 + i]] = [i \in 1..n |-> e[i]]
    BY <2>1
  <2>3. e = [i \in 1..n |-> e[i]]
    BY DEF e, Hashes
  <2> QED  BY <2>2, <2>3 DEF Part
<1>6. IsList(After(inputs, m), k)
  BY <1>2, PartIsList
<1>7. f = Part(e, 0, m)
  BY DEF e
<1> QED
  BY <1>2, <1>3, <1>4, <1>5, <1>6, <1>7 DEF e, Joined

\* A counter stays a counter.
LEMMA AdvancedIsNat ==
  ASSUME NEW counter \in Nat, NEW increment, NEW a \in Nat
  PROVE  Advanced(counter, increment, a) \in Nat
<1>1. CounterSpan \in Nat \ {0}
  BY CounterAssumption, SMTT(30) DEF CounterSpan
<1> HIDE DEF CounterSpan
<1>2. (counter + a) % CounterSpan \in Nat
  <2>1. counter + a \in Nat
    OBVIOUS
  <2> QED  BY <1>1, <2>1, SMTT(30)
<1>3. CASE increment
  BY <1>2, <1>3, Zenon DEF Advanced
<1>4. CASE ~increment
  BY <1>4, Zenon DEF Advanced
<1> QED
  BY <1>3, <1>4

\* hash_many of rust_sse2.rs hashes every input with its own counter.
LEMMA Sse2HashMany ==
  ASSUME NEW n \in Nat, NEW inputs, IsList(inputs, n), NEW blocks \in Nat, NEW counter \in Nat,
         NEW increment
  PROVE  Sse2!HashMany(inputs, blocks, counter, increment) =
           Hashes(inputs, blocks, counter, increment, n)
<1> DEFINE groups == n \div 4
           f == [g \in 1..groups |->
                   Sse2!Hash4(Sse2!GroupOf(inputs, 4, g), blocks,
                     Sse2!Advanced(counter, increment, 4 * (g - 1)), increment)]
           s == SubSeq(f, 1, groups)
           after == Sse2!After(inputs, 4 * groups)
           counter2 == Sse2!Advanced(counter, increment, 4 * groups)
<1>1. Len(inputs) = n /\ groups \in Nat
  <2>1. Len(inputs) = n
    BY ListIsSeq
  <2>2. groups \in Nat
    BY SMTT(30)
  <2> QED  BY <2>1, <2>2
<1>2. Sse2!HashMany(inputs, blocks, counter, increment) =
        Sse2!FlattenSeq(s) \o Sse2!HashEach(after, blocks, counter2, increment, Sse2!CompressInPlace)
  BY <1>1 DEF Sse2!HashMany, Sse2!Listing
<1>3. Sse2!FlattenSeq(s) = FlattenSeq(s)
  BY DEF Sse2!FlattenSeq, FlattenSeq
<1>4. \A g \in 1..groups :
        f[g] = Hashes(GroupOf(inputs, 4, g), blocks, Advanced(counter, increment, 4 * (g - 1)),
                      increment, 4)
  <2> TAKE g \in 1..groups
  <2> DEFINE a == 4 * (g - 1)
             group == GroupOf(inputs, 4, g)
             c == Advanced(counter, increment, a)
  <2>1. f[g] = Sse2!Hash4(group, blocks, c, increment)
    BY Sse2Shares
  <2>2. IsList(group, 4)
    <3>1. g \in Nat \ {0}
      BY <1>1
    <3> HIDE DEF group
    <3>2. group = Part(inputs, 4 * (g - 1), 4)
      BY <3>1, PartsOfBatch DEF group
    <3> QED  BY <3>2, PartIsList
  <2> HIDE DEF f, group, c
  <2>3. f[g] = Hashes(group, blocks, c, increment, 4)
    BY <2>1, <2>2, Sse2Hash4
  <2> QED  BY <2>3 DEF group, c
<1>5. f = [g \in 1..groups |-> f[g]]
  OBVIOUS
<1> HIDE DEF f
<1>6. s = f
  BY <1>1, <1>5, Whole
<1> HIDE DEF s
<1>7. AreGroupHashes(s, inputs, blocks, counter, increment, 4, groups)
  BY <1>4, <1>5, <1>6 DEF AreGroupHashes, IsList
<1>8. /\ after = After(inputs, 4 * groups)
      /\ counter2 = Advanced(counter, increment, 4 * groups)
  BY Sse2Shares
<1> DEFINE m == 4 * groups
           k == n - m
<1>9. groups \in Nat /\ m \in Nat /\ k \in Nat /\ m + k = n /\ 4 * groups <= n /\ 4 \in {4, 8}
  BY GroupsFit
<1> HIDE DEF groups
<1>10. FlattenSeq(s) = Part(Hashes(inputs, blocks, counter, increment, n), 0, m)
  BY <1>7, <1>9, GroupsHashed
<1>11. /\ IsList(After(inputs, m), k)
       /\ FlattenSeq(s) \o Hashes(After(inputs, m), blocks, Advanced(counter, increment, m), increment, k)
            = Hashes(inputs, blocks, counter, increment, n)
  <2> DEFINE flat == FlattenSeq(s)
             h == Hashes(After(inputs, m), blocks, Advanced(counter, increment, m), increment, k)
             e == Hashes(inputs, blocks, counter, increment, n)
  <2> HIDE DEF m, k
  <2>1. flat = Part(e, 0, m)
    BY <1>10
  <2> HIDE DEF flat
  <2>2. IsList(After(inputs, m), k)
    BY <1>9, <2>1, RestHashed
  <2>3. Joined(flat, h) = e
    BY <1>9, <2>1, RestHashed
  <2> QED  BY <2>2, <2>3 DEF flat, Joined
<1> HIDE DEF after, counter2
<1>12. counter2 \in Nat
  BY <1>1, <1>8, <1>9, AdvancedIsNat
<1> HIDE DEF m, k
<1>13. Sse2!HashEach(after, blocks, counter2, increment, Sse2!CompressInPlace) =
         Hashes(after, blocks, counter2, increment, k)
  <2>1. Sse2!CompressInPlace = Reference
    BY Sse2Compresses
  <2>2. IsList(after, k)
    BY <1>8, <1>11 DEF m
  <2>3. HashEach(after, blocks, counter2, increment, Reference) = Hashes(after, blocks, counter2, increment, k)
    BY <1>9, <2>2, EachHashed
  <2> QED  BY <2>1, <2>3, Sse2Shares
<1> QED
  BY <1>2, <1>3, <1>8, <1>13, <1>11 DEF m

\* hash_many of rust_sse41.rs hashes every input with its own counter.
LEMMA Sse41HashMany ==
  ASSUME NEW n \in Nat, NEW inputs, IsList(inputs, n), NEW blocks \in Nat, NEW counter \in Nat,
         NEW increment
  PROVE  Sse41!HashMany(inputs, blocks, counter, increment) =
           Hashes(inputs, blocks, counter, increment, n)
<1> DEFINE groups == n \div 4
           f == [g \in 1..groups |->
                   Sse41!Hash4(Sse41!GroupOf(inputs, 4, g), blocks,
                     Sse41!Advanced(counter, increment, 4 * (g - 1)), increment)]
           s == SubSeq(f, 1, groups)
           after == Sse41!After(inputs, 4 * groups)
           counter2 == Sse41!Advanced(counter, increment, 4 * groups)
<1>1. Len(inputs) = n /\ groups \in Nat
  <2>1. Len(inputs) = n
    BY ListIsSeq
  <2>2. groups \in Nat
    BY SMTT(30)
  <2> QED  BY <2>1, <2>2
<1>2. Sse41!HashMany(inputs, blocks, counter, increment) =
        Sse41!FlattenSeq(s) \o Sse41!HashEach(after, blocks, counter2, increment, Sse41!CompressInPlace)
  BY <1>1 DEF Sse41!HashMany, Sse41!Listing
<1>3. Sse41!FlattenSeq(s) = FlattenSeq(s)
  BY DEF Sse41!FlattenSeq, FlattenSeq
<1>4. \A g \in 1..groups :
        f[g] = Hashes(GroupOf(inputs, 4, g), blocks, Advanced(counter, increment, 4 * (g - 1)),
                      increment, 4)
  <2> TAKE g \in 1..groups
  <2> DEFINE a == 4 * (g - 1)
             group == GroupOf(inputs, 4, g)
             c == Advanced(counter, increment, a)
  <2>1. f[g] = Sse41!Hash4(group, blocks, c, increment)
    BY Sse41Shares
  <2>2. IsList(group, 4)
    <3>1. g \in Nat \ {0}
      BY <1>1
    <3> HIDE DEF group
    <3>2. group = Part(inputs, 4 * (g - 1), 4)
      BY <3>1, PartsOfBatch DEF group
    <3> QED  BY <3>2, PartIsList
  <2> HIDE DEF f, group, c
  <2>3. f[g] = Hashes(group, blocks, c, increment, 4)
    BY <2>1, <2>2, Sse41Hash4
  <2> QED  BY <2>3 DEF group, c
<1>5. f = [g \in 1..groups |-> f[g]]
  OBVIOUS
<1> HIDE DEF f
<1>6. s = f
  BY <1>1, <1>5, Whole
<1> HIDE DEF s
<1>7. AreGroupHashes(s, inputs, blocks, counter, increment, 4, groups)
  BY <1>4, <1>5, <1>6 DEF AreGroupHashes, IsList
<1>8. /\ after = After(inputs, 4 * groups)
      /\ counter2 = Advanced(counter, increment, 4 * groups)
  BY Sse41Shares
<1> DEFINE m == 4 * groups
           k == n - m
<1>9. groups \in Nat /\ m \in Nat /\ k \in Nat /\ m + k = n /\ 4 * groups <= n /\ 4 \in {4, 8}
  BY GroupsFit
<1> HIDE DEF groups
<1>10. FlattenSeq(s) = Part(Hashes(inputs, blocks, counter, increment, n), 0, m)
  BY <1>7, <1>9, GroupsHashed
<1>11. /\ IsList(After(inputs, m), k)
       /\ FlattenSeq(s) \o Hashes(After(inputs, m), blocks, Advanced(counter, increment, m), increment, k)
            = Hashes(inputs, blocks, counter, increment, n)
  <2> DEFINE flat == FlattenSeq(s)
             h == Hashes(After(inputs, m), blocks, Advanced(counter, increment, m), increment, k)
             e == Hashes(inputs, blocks, counter, increment, n)
  <2> HIDE DEF m, k
  <2>1. flat = Part(e, 0, m)
    BY <1>10
  <2> HIDE DEF flat
  <2>2. IsList(After(inputs, m), k)
    BY <1>9, <2>1, RestHashed
  <2>3. Joined(flat, h) = e
    BY <1>9, <2>1, RestHashed
  <2> QED  BY <2>2, <2>3 DEF flat, Joined
<1> HIDE DEF after, counter2
<1>12. counter2 \in Nat
  BY <1>1, <1>8, <1>9, AdvancedIsNat
<1> HIDE DEF m, k
<1>13. Sse41!HashEach(after, blocks, counter2, increment, Sse41!CompressInPlace) =
         Hashes(after, blocks, counter2, increment, k)
  <2>1. Sse41!CompressInPlace = Reference
    BY Sse41Compresses
  <2>2. IsList(after, k)
    BY <1>8, <1>11 DEF m
  <2>3. HashEach(after, blocks, counter2, increment, Reference) = Hashes(after, blocks, counter2, increment, k)
    BY <1>9, <2>2, EachHashed
  <2> QED  BY <2>1, <2>3, Sse41Shares
<1> QED
  BY <1>2, <1>3, <1>8, <1>13, <1>11 DEF m

\* hash_many of wasm32_simd.rs hashes every input with its own counter.
LEMMA WasmHashMany ==
  ASSUME NEW n \in Nat, NEW inputs, IsList(inputs, n), NEW blocks \in Nat, NEW counter \in Nat,
         NEW increment
  PROVE  Wasm!HashMany(inputs, blocks, counter, increment) =
           Hashes(inputs, blocks, counter, increment, n)
<1> DEFINE groups == n \div 4
           f == [g \in 1..groups |->
                   Wasm!Hash4(Wasm!GroupOf(inputs, 4, g), blocks,
                     Wasm!Advanced(counter, increment, 4 * (g - 1)), increment)]
           s == SubSeq(f, 1, groups)
           after == Wasm!After(inputs, 4 * groups)
           counter2 == Wasm!Advanced(counter, increment, 4 * groups)
<1>1. Len(inputs) = n /\ groups \in Nat
  <2>1. Len(inputs) = n
    BY ListIsSeq
  <2>2. groups \in Nat
    BY SMTT(30)
  <2> QED  BY <2>1, <2>2
<1>2. Wasm!HashMany(inputs, blocks, counter, increment) =
        Wasm!FlattenSeq(s) \o Wasm!HashEach(after, blocks, counter2, increment, Wasm!CompressInPlace)
  BY <1>1 DEF Wasm!HashMany, Wasm!Listing
<1>3. Wasm!FlattenSeq(s) = FlattenSeq(s)
  BY DEF Wasm!FlattenSeq, FlattenSeq
<1>4. \A g \in 1..groups :
        f[g] = Hashes(GroupOf(inputs, 4, g), blocks, Advanced(counter, increment, 4 * (g - 1)),
                      increment, 4)
  <2> TAKE g \in 1..groups
  <2> DEFINE a == 4 * (g - 1)
             group == GroupOf(inputs, 4, g)
             c == Advanced(counter, increment, a)
  <2>1. f[g] = Wasm!Hash4(group, blocks, c, increment)
    BY WasmShares
  <2>2. IsList(group, 4)
    <3>1. g \in Nat \ {0}
      BY <1>1
    <3> HIDE DEF group
    <3>2. group = Part(inputs, 4 * (g - 1), 4)
      BY <3>1, PartsOfBatch DEF group
    <3> QED  BY <3>2, PartIsList
  <2> HIDE DEF f, group, c
  <2>3. f[g] = Hashes(group, blocks, c, increment, 4)
    BY <2>1, <2>2, WasmHash4
  <2> QED  BY <2>3 DEF group, c
<1>5. f = [g \in 1..groups |-> f[g]]
  OBVIOUS
<1> HIDE DEF f
<1>6. s = f
  BY <1>1, <1>5, Whole
<1> HIDE DEF s
<1>7. AreGroupHashes(s, inputs, blocks, counter, increment, 4, groups)
  BY <1>4, <1>5, <1>6 DEF AreGroupHashes, IsList
<1>8. /\ after = After(inputs, 4 * groups)
      /\ counter2 = Advanced(counter, increment, 4 * groups)
  BY WasmShares
<1> DEFINE m == 4 * groups
           k == n - m
<1>9. groups \in Nat /\ m \in Nat /\ k \in Nat /\ m + k = n /\ 4 * groups <= n /\ 4 \in {4, 8}
  BY GroupsFit
<1> HIDE DEF groups
<1>10. FlattenSeq(s) = Part(Hashes(inputs, blocks, counter, increment, n), 0, m)
  BY <1>7, <1>9, GroupsHashed
<1>11. /\ IsList(After(inputs, m), k)
       /\ FlattenSeq(s) \o Hashes(After(inputs, m), blocks, Advanced(counter, increment, m), increment, k)
            = Hashes(inputs, blocks, counter, increment, n)
  <2> DEFINE flat == FlattenSeq(s)
             h == Hashes(After(inputs, m), blocks, Advanced(counter, increment, m), increment, k)
             e == Hashes(inputs, blocks, counter, increment, n)
  <2> HIDE DEF m, k
  <2>1. flat = Part(e, 0, m)
    BY <1>10
  <2> HIDE DEF flat
  <2>2. IsList(After(inputs, m), k)
    BY <1>9, <2>1, RestHashed
  <2>3. Joined(flat, h) = e
    BY <1>9, <2>1, RestHashed
  <2> QED  BY <2>2, <2>3 DEF flat, Joined
<1> HIDE DEF after, counter2
<1>12. counter2 \in Nat
  BY <1>1, <1>8, <1>9, AdvancedIsNat
<1> HIDE DEF m, k
<1>13. Wasm!HashEach(after, blocks, counter2, increment, Wasm!CompressInPlace) =
         Hashes(after, blocks, counter2, increment, k)
  <2>1. Wasm!CompressInPlace = Reference
    BY WasmCompresses
  <2>2. IsList(after, k)
    BY <1>8, <1>11 DEF m
  <2>3. HashEach(after, blocks, counter2, increment, Reference) = Hashes(after, blocks, counter2, increment, k)
    BY <1>9, <2>2, EachHashed
  <2> QED  BY <2>1, <2>3, WasmShares
<1> QED
  BY <1>2, <1>3, <1>8, <1>13, <1>11 DEF m

\* hash_many of rust_avx2.rs hashes every input with its own counter.
LEMMA Avx2HashMany ==
  ASSUME NEW n \in Nat, NEW inputs, IsList(inputs, n), NEW blocks \in Nat, NEW counter \in Nat,
         NEW increment
  PROVE  Avx2!HashMany(Sse41!HashMany, inputs, blocks, counter, increment) =
           Hashes(inputs, blocks, counter, increment, n)
<1> DEFINE groups == n \div 8
           f == [g \in 1..groups |->
                   Avx2!Hash8(Avx2!GroupOf(inputs, 8, g), blocks,
                     Avx2!Advanced(counter, increment, 8 * (g - 1)), increment)]
           s == SubSeq(f, 1, groups)
           after == Avx2!After(inputs, 8 * groups)
           counter2 == Avx2!Advanced(counter, increment, 8 * groups)
<1>1. Len(inputs) = n /\ groups \in Nat
  <2>1. Len(inputs) = n
    BY ListIsSeq
  <2>2. groups \in Nat
    BY SMTT(30)
  <2> QED  BY <2>1, <2>2
<1>2. Avx2!HashMany(Sse41!HashMany, inputs, blocks, counter, increment) =
        Avx2!FlattenSeq(s) \o Sse41!HashMany(after, blocks, counter2, increment)
  BY <1>1 DEF Avx2!HashMany, Avx2!Listing
<1>3. Avx2!FlattenSeq(s) = FlattenSeq(s)
  BY DEF Avx2!FlattenSeq, FlattenSeq
<1>4. \A g \in 1..groups :
        f[g] = Hashes(GroupOf(inputs, 8, g), blocks, Advanced(counter, increment, 8 * (g - 1)),
                      increment, 8)
  <2> TAKE g \in 1..groups
  <2> DEFINE a == 8 * (g - 1)
             group == GroupOf(inputs, 8, g)
             c == Advanced(counter, increment, a)
  <2>1. f[g] = Avx2!Hash8(group, blocks, c, increment)
    BY Avx2Shares
  <2>2. IsList(group, 8)
    <3>1. g \in Nat \ {0}
      BY <1>1
    <3> HIDE DEF group
    <3>2. group = Part(inputs, 8 * (g - 1), 8)
      BY <3>1, PartsOfBatch DEF group
    <3> QED  BY <3>2, PartIsList
  <2> HIDE DEF f, group, c
  <2>3. f[g] = Hashes(group, blocks, c, increment, 8)
    BY <2>1, <2>2, Avx2Hash8
  <2> QED  BY <2>3 DEF group, c
<1>5. f = [g \in 1..groups |-> f[g]]
  OBVIOUS
<1> HIDE DEF f
<1>6. s = f
  BY <1>1, <1>5, Whole
<1> HIDE DEF s
<1>7. AreGroupHashes(s, inputs, blocks, counter, increment, 8, groups)
  BY <1>4, <1>5, <1>6 DEF AreGroupHashes, IsList
<1>8. /\ after = After(inputs, 8 * groups)
      /\ counter2 = Advanced(counter, increment, 8 * groups)
  BY Avx2Shares
<1> DEFINE m == 8 * groups
           k == n - m
<1>9. groups \in Nat /\ m \in Nat /\ k \in Nat /\ m + k = n /\ 8 * groups <= n /\ 8 \in {4, 8}
  BY GroupsFit
<1> HIDE DEF groups
<1>10. FlattenSeq(s) = Part(Hashes(inputs, blocks, counter, increment, n), 0, m)
  BY <1>7, <1>9, GroupsHashed
<1>11. /\ IsList(After(inputs, m), k)
       /\ FlattenSeq(s) \o Hashes(After(inputs, m), blocks, Advanced(counter, increment, m), increment, k)
            = Hashes(inputs, blocks, counter, increment, n)
  <2> DEFINE flat == FlattenSeq(s)
             h == Hashes(After(inputs, m), blocks, Advanced(counter, increment, m), increment, k)
             e == Hashes(inputs, blocks, counter, increment, n)
  <2> HIDE DEF m, k
  <2>1. flat = Part(e, 0, m)
    BY <1>10
  <2> HIDE DEF flat
  <2>2. IsList(After(inputs, m), k)
    BY <1>9, <2>1, RestHashed
  <2>3. Joined(flat, h) = e
    BY <1>9, <2>1, RestHashed
  <2> QED  BY <2>2, <2>3 DEF flat, Joined
<1> HIDE DEF after, counter2
<1>12. counter2 \in Nat
  BY <1>1, <1>8, <1>9, AdvancedIsNat
<1> HIDE DEF m, k
<1>13. Sse41!HashMany(after, blocks, counter2, increment) =
         Hashes(after, blocks, counter2, increment, k)
  <2>1. IsList(after, k)
    BY <1>8, <1>11 DEF m
  <2> QED  BY <1>9, <1>12, <2>1, Sse41HashMany
<1> QED
  BY <1>2, <1>3, <1>8, <1>13, <1>11 DEF m

-----------------------------------------------------------------------------
(* The slots *)

\* Every kernel hashes every input with its own counter.
THEOREM HashWithIs ==
  ASSUME NEW kernel, NEW n \in Nat, NEW inputs, IsList(inputs, n), NEW blocks \in Nat,
         NEW counter \in Nat, NEW increment
  PROVE  HashWith(kernel, inputs, blocks, counter, increment) =
           Hashes(inputs, blocks, counter, increment, n)
<1> DEFINE e == Hashes(inputs, blocks, counter, increment, n)
<1>1. HashPortable(inputs, blocks, counter, increment) = e
  BY PortableIs, EachHashed DEF HashPortable
<1>2. /\ Sse2!HashMany(inputs, blocks, counter, increment) = e
      /\ Sse41!HashMany(inputs, blocks, counter, increment) = e
      /\ Wasm!HashMany(inputs, blocks, counter, increment) = e
  BY Sse2HashMany, Sse41HashMany, WasmHashMany
<1>3. Avx2!HashMany(Sse41!HashMany, inputs, blocks, counter, increment) = e
  BY Avx2HashMany
<1> DEFINE avx2 == Avx2!HashMany(Sse41!HashMany, inputs, blocks, counter, increment)
<1> HIDE DEF e, avx2
<1>4. HashWith(kernel, inputs, blocks, counter, increment) =
        CASE kernel = "sse2" /\ "sse2_rust" \in cfgs -> Sse2!HashMany(inputs, blocks, counter, increment)
          [] kernel = "sse41" /\ "sse41_rust" \in cfgs -> Sse41!HashMany(inputs, blocks, counter, increment)
          [] kernel = "avx2" /\ "avx2_rust" \in cfgs -> avx2
          [] kernel = "wasm32_simd" -> Wasm!HashMany(inputs, blocks, counter, increment)
          [] OTHER -> HashPortable(inputs, blocks, counter, increment)
  BY DEF HashWith, avx2
<1>5. HashWith(kernel, inputs, blocks, counter, increment) = e
  BY <1>1, <1>2, <1>3, <1>4 DEF avx2
<1> QED
  BY <1>5 DEF e

\* The first n of the inputs that are left are hashed into the slots behind those that are
\* filled, and the rest stays.
LEMMA HashFills ==
  ASSUME call \in HashCalls, NEW left \in 0..call.n, RestIs(left), NEW kernel, NEW n \in 0..left,
         Hash(kernel, n), UNCHANGED call
  PROVE  RestIs(left - n)'
<1> DEFINE total == call.n
           base == total - left
           c == call.counter
           inc == call.increment
           xs == rest.inputs
           first == SubSeq(xs, 1, n)
           values == HashWith(kernel, first, call.blocks, rest.counter, inc)
           slots == Len(out)
           ref(i) == ReferenceHash(i, call.blocks, Advanced(c, inc, i - 1))
<1>1. total \in Nat /\ call.blocks \in Nat /\ c \in Nat /\ left \in Nat /\ n \in Nat /\ base \in Nat
      /\ left - n \in Nat /\ base + left = total
  <2>1. total \in Nat /\ call.blocks \in Nat /\ c \in Nat
    <3>1. CounterSpan \in Nat
      BY CounterAssumption, SMTT(30) DEF CounterSpan
    <3>2. call.n \in Counts /\ call.blocks \in BlockCounts /\ call.counter \in FirstCounters
      BY DEF HashCalls
    <3>3. FirstCounters \subseteq Nat
      BY <3>1, CallAssumption
    <3> QED  BY <3>2, <3>3, CallAssumption
  <2> QED  BY <2>1
<1>2. xs = [i \in 1..left |-> base + i] /\ rest.counter = Advanced(c, inc, base)
  BY DEF RestIs, IsRest
<1>3. /\ IsList(out, slots) /\ slots \in Nat /\ slots >= total
      /\ \A i \in 1..slots : out[i] = IF i <= base THEN ref(i) ELSE Untouched
  BY DEF RestIs, SlotsFilled
<1>4. /\ out' = Written(total - Len(xs) + 1, values)
      /\ rest' = [inputs |-> After(xs, n), counter |-> Advanced(rest.counter, inc, n)]
      /\ call' = call
  BY DEF Hash
<1> HIDE DEF total, base, c, inc, xs, slots, ref
<1>5. IsList(xs, left) /\ Len(xs) = left /\ \A i \in 1..left : xs[i] = base + i
  <2>1. IsList(xs, left) /\ \A i \in 1..left : xs[i] = base + i
    BY <1>2 DEF IsList
  <2> QED  BY <1>1, <2>1, ListIsSeq
<1>6. first = Part(xs, 0, n) /\ After(xs, n) = Part(xs, n, left - n)
  BY <1>1, <1>5, PartsOfBatch
<1>7. IsList(first, n) /\ \A i \in 1..n : first[i] = base + i
  <2>1. \A i \in 1..n : 0 + i = i /\ i \in 1..left
    BY <1>1
  <2>2. IsList(first, n)
    BY <1>6, PartIsList
  <2>3. \A i \in 1..n : first[i] = xs[0 + i]
    BY <1>6 DEF Part
  <2> QED  BY <1>5, <2>1, <2>2, <2>3
<1> HIDE DEF first
<1>8. rest.counter \in Nat
  BY <1>1, <1>2, AdvancedIsNat
<1>9. values = Hashes(first, call.blocks, rest.counter, inc, n)
  BY <1>1, <1>7, <1>8, HashWithIs
<1> HIDE DEF values
<1>10. Len(values) = n /\ \A i \in 1..n : values[i] = ref(base + i)
  <2>1. IsList(values, n)
    BY <1>9 DEF Hashes, IsList
  <2>2. Len(values) = n
    BY <1>1, <2>1, ListIsSeq
  <2>3. ASSUME NEW i \in 1..n
        PROVE  values[i] = ref(base + i)
    <3> DEFINE b == i - 1
    <3>1. b \in Nat /\ base + b = (base + i) - 1
      BY <1>1
    <3>2. values[i] = HashOne(first[i], call.blocks, Advanced(rest.counter, inc, b), Reference)
      BY <1>9 DEF Hashes
    <3> HIDE DEF b
    <3>3. Advanced(rest.counter, inc, b) = Advanced(c, inc, base + b)
      BY <1>1, <1>2, <3>1, AdvancedTwice
    <3>4. first[i] = base + i
      BY <1>7
    <3>5. ref(base + i) = HashOne(base + i, call.blocks, Advanced(c, inc, (base + i) - 1), Reference)
      BY DEF ref, ReferenceHash
    <3> QED  BY <3>1, <3>2, <3>3, <3>4, <3>5
  <2> QED  BY <2>2, <2>3
<1> DEFINE new(i) == IF i >= base + 1 /\ i < base + 1 + n THEN values[i - (base + 1) + 1] ELSE out[i]
           f == [i \in 1..slots |-> new(i)]
<1>11. out' = f
  <2>1. total - Len(xs) + 1 = base + 1
    BY <1>1, <1>5 DEF base
  <2>2. out' = SubSeq(f, 1, slots)
    BY <1>4, <1>10, <2>1 DEF Written, Listing, slots
  <2>3. f = [i \in 1..slots |-> f[i]]
    OBVIOUS
  <2> HIDE DEF f
  <2> QED  BY <1>3, <2>2, <2>3, Whole
<1>12. \A i \in 1..slots : new(i) = IF i <= base + n THEN ref(i) ELSE Untouched
  <2> TAKE i \in 1..slots
  <2>1. CASE i <= base
    BY <1>1, <1>3, <2>1
  <2>2. CASE i > base /\ i <= base + n
    <3>1. i - base \in 1..n /\ base + (i - base) = i /\ i - (base + 1) + 1 = i - base
      BY <1>1, <2>2
    <3>2. new(i) = values[i - base]
      BY <1>1, <2>2, <3>1
    <3>3. values[i - base] = ref(base + (i - base))
      BY <1>10, <3>1
    <3> QED  BY <2>2, <3>1, <3>2, <3>3
  <2>3. CASE i > base + n
    BY <1>1, <1>3, <2>3
  <2> QED  BY <1>1, <2>1, <2>2, <2>3
<1>13. IsList(out', slots) /\ Len(out') = slots /\ \A i \in 1..slots : out'[i] = new(i)
  <2> HIDE DEF new
  <2>1. IsList(out', slots) /\ \A i \in 1..slots : out'[i] = new(i)
    BY <1>11 DEF IsList
  <2> QED  BY <1>3, <2>1, ListIsSeq
<1> HIDE DEF new, f
<1>14. total - (left - n) = base + n
  BY <1>1
<1>15. SlotsFilled(total - (left - n))'
  <2>1. \A i \in 1..slots : out'[i] = IF i <= base + n THEN ref(i) ELSE Untouched
    BY <1>12, <1>13
  <2>2. \A i : ref(i)' = ref(i)
    BY <1>4 DEF ref, c, inc
  <2> QED  BY <1>3, <1>4, <1>13, <1>14, <2>1 DEF SlotsFilled, ref, c, inc, total
<1>16. rest'.inputs = [i \in 1..left - n |-> (total - (left - n)) + i]
  <2>1. \A i \in 1..left - n : n + i \in 1..left /\ base + (n + i) = (total - (left - n)) + i
    BY <1>1
  <2>2. rest'.inputs = [i \in 1..left - n |-> xs[n + i]]
    BY <1>4, <1>6 DEF Part
  <2>3. \A i \in 1..left - n : xs[n + i] = (total - (left - n)) + i
    BY <1>5, <2>1
  <2> QED  BY <2>2, <2>3
<1>17. rest'.counter = Advanced(c, inc, total - (left - n))
  <2>1. rest'.counter = Advanced(Advanced(c, inc, base), inc, n)
    BY <1>2, <1>4
  <2>2. Advanced(Advanced(c, inc, base), inc, n) = Advanced(c, inc, base + n)
    BY <1>1, AdvancedTwice
  <2> QED  BY <1>14, <2>1, <2>2
<1> QED
  BY <1>4, <1>15, <1>16, <1>17 DEF RestIs, IsRest, total, c, inc

\* Nothing is filled before the call.
LEMMA CallSlots == MachineInv /\ HashManyCall => SlotsInv'
<1> SUFFICES ASSUME MachineInv, HashManyCall PROVE SlotsInv'
  OBVIOUS
<1>1. PICK n \in Counts, blocks \in BlockCounts, whole \in BOOLEAN, counter \in FirstCounters,
           increment \in BOOLEAN : \E slots \in {n - 1, n, n + 1} \cap Nat :
        /\ call' = [method |-> "hash_many", n |-> n, blocks |-> blocks, counter |-> counter,
                    increment |-> increment]
        /\ out' = Listing(slots, LAMBDA i : Untouched)
        /\ rest' = [inputs |-> Inputs(n), counter |-> counter]
        /\ phase' = IF whole /\ slots >= n THEN "full" ELSE "refused"
  BY DEF HashManyCall
<1>2. PICK slots \in {n - 1, n, n + 1} \cap Nat :
        /\ call' = [method |-> "hash_many", n |-> n, blocks |-> blocks, counter |-> counter,
                    increment |-> increment]
        /\ out' = Listing(slots, LAMBDA i : Untouched)
        /\ rest' = [inputs |-> Inputs(n), counter |-> counter]
        /\ phase' = IF whole /\ slots >= n THEN "full" ELSE "refused"
  BY <1>1
<1>3. phase' \in {"full", "refused"} /\ (phase' = "full" => slots >= n)
  BY <1>2
<1>4. ASSUME phase' = "full"
      PROVE  RestIs(n)'
  <2>1. n \in Nat /\ n - n = 0 /\ slots \in Nat /\ slots >= n /\ call'.n = n
        /\ call'.counter = counter /\ call'.increment = increment
    BY <1>2, <1>3, <1>4, CallAssumption
  <2>2. Inputs(n) = [i \in 1..n |-> i]
    <3> DEFINE f == [i \in 1..n |-> i]
    <3>1. Inputs(n) = SubSeq(f, 1, n) /\ f = [i \in 1..n |-> f[i]]
      BY DEF Inputs, Listing
    <3> HIDE DEF f
    <3>2. Inputs(n) = f
      BY <2>1, <3>1, Whole
    <3> QED  BY <3>2 DEF f
  <2>3. rest'.inputs = [i \in 1..n |-> (n - n) + i]
    <3>1. \A i \in 1..n : (n - n) + i = i
      BY <2>1
    <3>2. rest'.inputs = [i \in 1..n |-> i]
      BY <1>2, <2>2
    <3> QED  BY <3>1, <3>2
  <2>4. counter = Advanced(counter, increment, n - n)
    <3>1. CounterSpan \in Nat \ {0}
      BY CounterAssumption, SMTT(30) DEF CounterSpan
    <3> HIDE DEF CounterSpan
    <3>2. counter \in 0..CounterSpan - 1
      BY CallAssumption
    <3>3. counter + 0 = counter /\ counter % CounterSpan = counter
      BY <3>1, <3>2, SMTT(30)
    <3>4. Advanced(counter, increment, 0) = counter
      BY <3>3, Zenon DEF Advanced
    <3> QED  BY <2>1, <3>4
  <2>5. SlotsFilled(n - n)'
    <3> DEFINE f == [i \in 1..slots |-> Untouched]
    <3>1. out' = SubSeq(f, 1, slots) /\ f = [i \in 1..slots |-> f[i]]
      BY <1>2 DEF Listing
    <3> HIDE DEF f
    <3>2. out' = f
      BY <2>1, <3>1, Whole
    <3>3. IsList(out', slots) /\ \A i \in 1..slots : out'[i] = Untouched /\ ~(i <= n - n)
      BY <2>1, <3>2 DEF f, IsList
    <3>4. Len(out') = slots
      BY <2>1, <3>3, ListIsSeq
    <3> QED  BY <2>1, <3>3, <3>4 DEF SlotsFilled
  <2> QED
    BY <1>2, <2>1, <2>3, <2>4, <2>5 DEF RestIs, IsRest
<1> QED
  BY <1>2, <1>3, <1>4 DEF SlotsInv

\* What is left of a list of inputs has its length.
LEMMA RestLength ==
  ASSUME NEW left \in Nat, RestIs(left)
  PROVE  Len(rest.inputs) = left /\ (rest.inputs = <<>> => left = 0)
<1>1. IsList(rest.inputs, left)
  BY DEF RestIs, IsRest, IsList
<1>2. Len(rest.inputs) = left
  BY <1>1, ListIsSeq
<1> QED
  BY <1>2

\* After a kernel ran, something is left, or every slot is filled.
LEMMA FilledOrLeft ==
  ASSUME call \in HashCalls, NEW left \in 0..call.n, RestIs(left)', UNCHANGED call,
         phase' = IF rest'.inputs = <<>> THEN "done" ELSE "tail"
  PROVE  SlotsInv'
<1>1. left \in Nat /\ call.n \in Nat /\ call.n - 0 = call.n
  <2>1. call.n \in Nat
    BY CallAssumption DEF HashCalls
  <2> QED  BY <2>1
<1>2. rest'.inputs = <<>> => left = 0
  <2>1. IsList(rest'.inputs, left)
    BY DEF RestIs, IsRest, IsList
  <2>2. Len(rest'.inputs) = left
    BY <1>1, <2>1, ListIsSeq
  <2> QED  BY <2>2
<1>3. CASE rest'.inputs = <<>>
  <2>1. phase' = "done" /\ left = 0
    BY <1>2, <1>3
  <2>2. SlotsFilled(call.n - left)'
    BY DEF RestIs
  <2>3. SlotsFilled(call.n)'
    BY <1>1, <2>1, <2>2
  <2> QED  BY <2>1, <2>3 DEF SlotsInv
<1>4. CASE rest'.inputs # <<>>
  <2>1. phase' = "tail"
    BY <1>4
  <2> QED  BY <2>1 DEF SlotsInv
<1> QED
  BY <1>3, <1>4

\* The full groups fill the first slots.
LEMMA FullSlots == MachineInv /\ SlotsInv /\ HashFull => SlotsInv'
<1> SUFFICES ASSUME MachineInv, SlotsInv, HashFull PROVE SlotsInv'
  OBVIOUS
<1>1. PICK n, full : n = call.n /\ full = (n \div SimdDegree) * SimdDegree
  OBVIOUS
<1>2. /\ phase = "full" /\ UNCHANGED <<machine, call>>
      /\ IF full > 0 THEN Hash(SimdKernel, full) ELSE UNCHANGED <<out, ran, rest>>
      /\ phase' = IF rest'.inputs = <<>> THEN "done" ELSE "tail"
  BY <1>1 DEF HashFull
<1>3. call \in HashCalls /\ RestIs(n)
  BY <1>1, <1>2 DEF MachineInv, CallInv, SlotsInv
<1>4. n \in Nat /\ SimdDegree \in {1, 4, 8, 16}
  <2>1. BuildInv /\ PlatformInv /\ Chosen
    BY <1>2 DEF MachineInv, Chosen
  <2>2. SimdDegree \in {1, 4, 8, 16}
    BY <2>1, GoodRuns
  <2> QED  BY <1>1, <1>3, <2>2, CallAssumption DEF HashCalls
<1>5. full \in 0..n
  <2> DEFINE d == SimdDegree
  <2>1. n \in Nat /\ d \in {1, 4, 8, 16} /\ full = (n \div d) * d
    BY <1>1, <1>4
  <2> HIDE DEF d
  <2> QED  BY <2>1, SMTT(30)
<1>6. \E left \in 0..n : RestIs(left)'
  <2>1. CASE full > 0
    <3>1. Hash(SimdKernel, full) /\ n \in 0..call.n
      BY <1>1, <1>2, <1>4, <2>1
    <3>2. RestIs(n - full)'
      BY <1>2, <1>3, <1>5, <3>1, HashFills
    <3>3. n - full \in 0..n
      BY <1>4, <1>5
    <3> QED  BY <3>2, <3>3
  <2>2. CASE ~(full > 0)
    <3>1. UNCHANGED <<out, rest, call>>
      BY <1>2, <2>2
    <3>2. RestIs(n)'
      BY <1>3, <3>1 DEF RestIs, IsRest, SlotsFilled
    <3>3. n \in 0..n
      BY <1>4
    <3> QED  BY <3>2, <3>3
  <2> QED  BY <2>1, <2>2
<1> QED
  BY <1>1, <1>2, <1>3, <1>6, FilledOrLeft

\* Eight more
LEMMA PeelSlots == MachineInv /\ SlotsInv /\ PeelEight => SlotsInv'
<1> SUFFICES ASSUME MachineInv, SlotsInv, PeelEight PROVE SlotsInv'
  OBVIOUS
<1>1. /\ phase = "tail" /\ UNCHANGED <<machine, call>> /\ Len(rest.inputs) >= 8
      /\ Hash(SimdKernel, 8)
      /\ phase' = IF rest'.inputs = <<>> THEN "done" ELSE "tail"
  BY DEF PeelEight, Peels
<1>2. call \in HashCalls /\ call.n \in Nat
  BY <1>1, CallAssumption DEF MachineInv, CallInv, HashCalls
<1>3. PICK left \in 0..call.n : RestIs(left)
  BY <1>1 DEF SlotsInv
<1>4. left \in Nat /\ left >= 8
  <2>1. left \in Nat
    BY <1>2
  <2> QED  BY <1>1, <1>3, <2>1, RestLength
<1>5. RestIs(left - 8)'
  <2>1. 8 \in 0..left
    BY <1>4
  <2> QED  BY <1>1, <1>2, <1>3, <2>1, HashFills
<1> DEFINE new == left - 8
<1>6. new \in 0..call.n
  BY <1>2, <1>4
<1> HIDE DEF new
<1>7. RestIs(new)'
  BY <1>5 DEF new
<1> QED
  BY <1>1, <1>2, <1>6, <1>7, FilledOrLeft

\* The rest
LEMMA TailSlots == MachineInv /\ SlotsInv /\ HashTail => SlotsInv'
<1> SUFFICES ASSUME MachineInv, SlotsInv, HashTail PROVE SlotsInv'
  OBVIOUS
<1>1. /\ phase = "tail" /\ UNCHANGED <<machine, call>> /\ phase' = "done"
      /\ Hash(TailKernel, Len(rest.inputs))
  BY DEF HashTail
<1>2. call \in HashCalls /\ call.n \in Nat
  BY <1>1, CallAssumption DEF MachineInv, CallInv, HashCalls
<1>3. PICK left \in 0..call.n : RestIs(left)
  BY <1>1 DEF SlotsInv
<1>4. left \in Nat /\ Len(rest.inputs) = left /\ left \in 0..left /\ left - left = 0
  <2>1. left \in Nat
    BY <1>2
  <2> QED  BY <1>3, <2>1, RestLength
<1>5. RestIs(left - left)'
  <2>1. Hash(TailKernel, left)
    BY <1>1, <1>4
  <2> QED  BY <1>1, <1>2, <1>3, <1>4, <2>1, HashFills
<1>6. RestIs(0)'
  BY <1>4, <1>5
<1>7. SlotsFilled(call.n)'
  <2>1. SlotsFilled(call.n - 0)'
    BY <1>6 DEF RestIs
  <2>2. call'.n - 0 = call'.n
    BY <1>1, <1>2
  <2> QED  BY <2>1, <2>2
<1> QED
  BY <1>1, <1>7 DEF SlotsInv

\* The slots of every batch, at every step
LEMMA StepSlots == MachineInv /\ SlotsInv /\ [Next]_vars => SlotsInv'
<1> SUFFICES ASSUME MachineInv, SlotsInv, [Next]_vars PROVE SlotsInv'
  OBVIOUS
<1>1. CASE Build
  BY <1>1 DEF Build, SlotsInv
<1>2. CASE Choose
  BY <1>2 DEF Choose, SlotsInv
<1>3. CASE Compress
  BY <1>3 DEF Compress, SlotsInv
<1>4. CASE XofMany
  <2>1. phase' = "done" /\ call'.method = "xof_many"
    BY <1>4 DEF XofMany
  <2> QED  BY <2>1 DEF SlotsInv
<1>5. CASE Return
  BY <1>5 DEF Return, SlotsInv
<1>6. CASE UNCHANGED vars
  BY <1>6 DEF vars, SlotsInv, RestIs, IsRest, SlotsFilled
<1>7. CASE Panicked
  BY <1>6, <1>7 DEF Panicked
<1> QED
  BY <1>1, <1>2, <1>3, <1>4, <1>5, <1>6, <1>7, CallSlots, FullSlots, PeelSlots, TailSlots DEF Next

\* hash_many hashes every input with its own counter into its own slot and touches no other,
\* on every platform, whatever the build, the processor, the groups and the counter.
THEOREM SlotsHashed == Spec => []SlotsAreHashes
<1>1. Init => SlotsInv
  BY DEF Init, SlotsInv
<1>2. SlotsInv => SlotsAreHashes
  <2> SUFFICES ASSUME SlotsInv, phase = "done", call.method = "hash_many",
                      NEW i \in DOMAIN out
               PROVE  out[i] = IF i <= call.n
                               THEN ReferenceHash(i, call.blocks, Advanced(call.counter, call.increment, i - 1))
                               ELSE Untouched
    BY DEF SlotsAreHashes
  <2>1. SlotsFilled(call.n)
    BY DEF SlotsInv
  <2>2. DOMAIN out = 1..Len(out)
    BY <2>1 DEF SlotsFilled, IsList
  <2> QED
    BY <2>1, <2>2 DEF SlotsFilled
<1>3. Spec => []MachineInv
  BY MachineHolds
<1> QED
  BY <1>1, <1>2, <1>3, StepSlots, PTL DEF Spec
=============================================================================
