----------------------- MODULE HookClassifiersProofs -----------------------
(***************************************************************************)
(* That the two hook programs agree, on calls of any size that the native  *)
(* one takes and within the assumptions of HookClassifiers: on every tool  *)
(* name, on commands that fit into its array of TokenLimit tokens with a   *)
(* wrapper before them, and on replies of any number of fields.            *)
(*                                                                         *)
(* The theorems are not about steps: what a state holds is all that        *)
(* matters of it (InvocationInv).  The work is in the loops.  A loop over  *)
(* words is a Reading, a recursive function, and ReadingReads says that it *)
(* is what its definition says, by the least position where it would not   *)
(* be.  The two scans for the program of a segment take the same steps     *)
(* (SameScan); the tables of programs are the same (SameState); and the    *)
(* loop over the segments, which keeps one state, has kept the most        *)
(* important one (LoopKeepsMostImportant), which is what the reference     *)
(* takes from a set.  That a command may be cut in two, and that a wrapper *)
(* may be put before it, is shown on the segments: where they start        *)
(* (StartsBehindCut), which lie on either side of a cut (CutInTwo), and    *)
(* where they are when words come before them (WrappedSegments).           *)
(***************************************************************************)
EXTENDS HookClassifiers, SequenceTheorems, WellFoundedInduction, TLAPS

\* A set of numbers that is not empty has a least element.
LEMMA LeastNumber ==
    ASSUME NEW T, T \subseteq Nat, T # {}
    PROVE  \E m \in T : \A n \in T : m <= n
<1> DEFINE R == OpToRel(<, Nat)
<1>1. IsWellFoundedOn(R, Nat)
    BY NatLessThanWellFounded
<1>2. \A m, n \in Nat : <<n, m>> \in R <=> n < m
    BY DEF OpToRel
<1> HIDE DEF R
<1>3. PICK m \in T : \A n \in T : <<n, m>> \notin R
    BY <1>1, WFMin
<1>4. ASSUME NEW n \in T PROVE m <= n
  <2>1. m \in Nat /\ n \in Nat /\ ~(n < m)
    BY <1>2, <1>3
  <2> QED
    BY <2>1
<1> QED
    BY <1>4

\* A set of numbers that has 0, and with each number the next one, has all.
LEMMA Induction ==
    ASSUME NEW n \in Nat, NEW T, 0 \in T,
           \A i \in 1..n : i - 1 \in T => i \in T
    PROVE  0..n \subseteq T
<1> SUFFICES ASSUME (0..n) \ T # {} PROVE FALSE
    OBVIOUS
<1> (0..n) \ T \subseteq Nat
    OBVIOUS
<1>1. PICK i \in (0..n) \ T : \A j \in (0..n) \ T : i <= j
    BY LeastNumber
<1>2. i # 0 /\ i \in 1..n /\ i - 1 \in 0..n
    BY <1>1
<1>3. i - 1 \in T
    BY <1>1, <1>2
<1> QED
    BY <1>1, <1>2, <1>3

\* What Min chooses.
LEMMA MinIs ==
    ASSUME NEW T, T \subseteq Nat, T # {}
    PROVE  Min(T) \in T /\ \A n \in T : Min(T) <= n
BY LeastNumber DEF Min

\* Sequences of one and of two elements.
LEMMA OneOrTwo ==
    ASSUME NEW S, NEW x \in S, NEW y \in S
    PROVE  /\ <<x>> \in Seq(S) /\ Len(<<x>>) = 1 /\ <<x>>[1] = x
           /\ <<x, y>> \in Seq(S) /\ Len(<<x, y>>) = 2
<1>1. <<>> \in Seq(S) /\ Len(<<>>) = 0
  BY EmptySeq
<1>2. <<x>> = Append(<<>>, x)
  OBVIOUS
<1>3. <<x>> \in Seq(S) /\ Len(<<x>>) = 1
  BY <1>1, <1>2, AppendProperties
<1>4. <<x, y>> = Append(<<x>>, y)
  OBVIOUS
<1>5. <<x, y>> \in Seq(S) /\ Len(<<x, y>>) = 2
  BY <1>3, <1>4, AppendProperties
<1> QED
  BY <1>3, <1>5

\* A prefix agrees element by element from the front.
LEMMA PrefixIs ==
    ASSUME NEW S, NEW s \in Seq(S), NEW t \in Seq(S)
    PROVE  IsPrefix(s, t) <=> Len(s) <= Len(t) /\ \A i \in 1..Len(s) : s[i] = t[i]
<1>1. SubSeq(s, 1, Len(s)) = s
  BY SubSeqFull
<1>2. ASSUME Len(s) <= Len(t)
      PROVE  /\ SubSeq(t, 1, Len(s)) \in Seq(S)
             /\ Len(SubSeq(t, 1, Len(s))) = Len(s)
             /\ \A i \in 1..Len(s) : SubSeq(t, 1, Len(s))[i] = t[i]
  BY <1>2, SubSeqProperties
<1>3. ASSUME Len(s) <= Len(t), \A i \in 1..Len(s) : s[i] = t[i]
      PROVE  s = SubSeq(t, 1, Len(s))
  BY <1>2, <1>3, SeqEqual
<1> QED
  BY <1>1, <1>2, <1>3 DEF IsPrefix

\* A suffix agrees element by element from the end.
LEMMA SuffixIs ==
    ASSUME NEW S, NEW s \in Seq(S), NEW t \in Seq(S)
    PROVE  IsSuffix(s, t) <=>
              /\ Len(s) <= Len(t)
              /\ \A i \in 1..Len(s) : s[i] = t[Len(t) - Len(s) + i]
<1>1. ASSUME NEW u \in Seq(S)
      PROVE  /\ Reverse(u) \in Seq(S) /\ Len(Reverse(u)) = Len(u)
             /\ \A i \in 1..Len(u) : Reverse(u)[i] = u[Len(u) - i + 1]
  BY DEF Reverse
<1>2. IsSuffix(s, t) <=>
          Len(s) <= Len(t) /\ \A i \in 1..Len(s) : s[Len(s) - i + 1] = t[Len(t) - i + 1]
  <2>1. IsSuffix(s, t) <=>
            Len(s) <= Len(t) /\ \A i \in 1..Len(s) : Reverse(s)[i] = Reverse(t)[i]
    BY <1>1, PrefixIs DEF IsSuffix
  <2>2. ASSUME Len(s) <= Len(t), NEW i \in 1..Len(s)
        PROVE  Reverse(s)[i] = s[Len(s) - i + 1] /\ Reverse(t)[i] = t[Len(t) - i + 1]
    BY <1>1, <2>2
  <2> QED
    BY <2>1, <2>2
<1>3. ASSUME NEW i \in 1..Len(s)
      PROVE  /\ Len(s) - i + 1 \in 1..Len(s)
             /\ Len(t) - Len(s) + (Len(s) - i + 1) = Len(t) - i + 1
             /\ Len(s) - (Len(s) - i + 1) + 1 = i
             /\ Len(t) - (Len(s) - i + 1) + 1 = Len(t) - Len(s) + i
  OBVIOUS
<1>4. (\A i \in 1..Len(s) : s[Len(s) - i + 1] = t[Len(t) - i + 1])
        <=> \A i \in 1..Len(s) : s[i] = t[Len(t) - Len(s) + i]
  <2>1. ASSUME \A i \in 1..Len(s) : s[Len(s) - i + 1] = t[Len(t) - i + 1],
               NEW i \in 1..Len(s)
        PROVE  s[i] = t[Len(t) - Len(s) + i]
    <3> DEFINE j == Len(s) - i + 1
    <3>1. j \in 1..Len(s) /\ Len(s) - j + 1 = i /\ Len(t) - j + 1 = Len(t) - Len(s) + i
      BY <1>3
    <3> HIDE DEF j
    <3>2. s[Len(s) - j + 1] = t[Len(t) - j + 1]
      BY <2>1, <3>1
    <3> QED
      BY <3>1, <3>2
  <2>2. ASSUME \A i \in 1..Len(s) : s[i] = t[Len(t) - Len(s) + i],
               NEW i \in 1..Len(s)
        PROVE  s[Len(s) - i + 1] = t[Len(t) - i + 1]
    <3> DEFINE j == Len(s) - i + 1
    <3>1. j \in 1..Len(s) /\ Len(t) - Len(s) + j = Len(t) - i + 1
      BY <1>3
    <3> HIDE DEF j
    <3>2. s[j] = t[Len(t) - Len(s) + j]
      BY <2>2, <3>1
    <3> QED
      BY <3>1, <3>2 DEF j
  <2> QED
    BY <2>1, <2>2
<1> QED
  BY <1>2, <1>4

\* What reading is: the state before the first element, and behind each
\* element what its step makes of the state before it.
Reads(read, step, start, seq, n) ==
    /\ DOMAIN read = 0..n /\ read = [i \in 0..n |-> read[i]]
    /\ read[0] = start
    /\ \A i \in 1..n : read[i] = step[seq[i]][read[i - 1]]

\* The recursive function of Reading, as the CHOOSE that defines it.
LEMMA ReadingIsChosen ==
    ASSUME NEW step, NEW start, NEW seq
    PROVE  Reading(step, start, seq) =
              CHOOSE read : read = [i \in 0..Len(seq) |->
                  IF i = 0 THEN start ELSE step[seq[i]][read[i - 1]]]
BY DEF Reading

\* A least position up to which no such function exists cannot be: the one
\* up to the position before it can be extended.
LEMMA ReadingExists ==
    ASSUME NEW step, NEW start, NEW seq, NEW n \in Nat
    PROVE  \E read : Reads(read, step, start, seq, n)
<1> DEFINE T == {m \in Nat : \E read : Reads(read, step, start, seq, m)}
<1>1. 0 \in T
  <2>1. Reads([i \in {0} |-> start], step, start, seq, 0)
    BY DEF Reads
  <2> QED
    BY <2>1
<1>2. ASSUME NEW m \in 1..n, m - 1 \in T PROVE m \in T
  <2>1. PICK read : Reads(read, step, start, seq, m - 1)
    BY <1>2
  <2> DEFINE more == [i \in 0..m |-> IF i = m THEN step[seq[m]][read[m - 1]] ELSE read[i]]
  <2>2. DOMAIN more = 0..m /\ more = [i \in 0..m |-> more[i]]
    OBVIOUS
  <2>3. more[0] = start
    BY <2>1 DEF Reads
  <2>4. ASSUME NEW i \in 1..m PROVE more[i] = step[seq[i]][more[i - 1]]
    <3>1. CASE i = m
      <4>1. more[i] = step[seq[m]][read[m - 1]] /\ more[i - 1] = read[m - 1]
        BY <3>1
      <4> QED
        BY <3>1, <4>1
    <3>2. CASE i # m
      <4>1. i \in 1..(m - 1)
        BY <3>2
      <4>2. read[i] = step[seq[i]][read[i - 1]]
        BY <2>1, <4>1 DEF Reads
      <4>3. more[i] = read[i] /\ more[i - 1] = read[i - 1]
        BY <4>1
      <4> QED
        BY <4>2, <4>3
    <3> QED
      BY <3>1, <3>2
  <2>5. Reads(more, step, start, seq, m)
    <3> HIDE DEF more
    <3> QED
      BY <2>2, <2>3, <2>4 DEF Reads
  <2> QED
    BY <2>5
<1> HIDE DEF T
<1>3. 0..n \subseteq T
    BY <1>1, <1>2, Induction
<1> QED
    BY <1>3 DEF T

\* There is such a function, and Reading is one.
LEMMA ReadingReads ==
    ASSUME NEW step, NEW start, NEW seq, Len(seq) \in Nat
    PROVE  Reads(Reading(step, start, seq), step, start, seq, Len(seq))
<1> DEFINE Body(read) == [i \in 0..Len(seq) |->
                  IF i = 0 THEN start ELSE step[seq[i]][read[i - 1]]]
           Chosen == CHOOSE read : read = Body(read)
<1>1. PICK f : Reads(f, step, start, seq, Len(seq))
    BY ReadingExists
<1>2. f = Body(f)
  <2>1. f = [i \in 0..Len(seq) |-> f[i]]
    BY <1>1 DEF Reads
  <2>2. ASSUME NEW i \in 0..Len(seq) PROVE f[i] = Body(f)[i]
    <3>1. CASE i = 0
      BY <1>1, <3>1 DEF Reads
    <3>2. CASE i # 0
      <4>1. i \in 1..Len(seq)
        BY <3>2
      <4> QED
        BY <1>1, <4>1 DEF Reads
    <3> QED
      BY <3>1, <3>2
  <2> QED
    BY <2>1, <2>2
<1>3. Chosen = Body(Chosen)
    BY <1>2
<1>4. Reading(step, start, seq) = Chosen
    BY ReadingIsChosen
<1> HIDE DEF Chosen
<1>5. Reads(Chosen, step, start, seq, Len(seq))
  <2>1. DOMAIN Chosen = 0..Len(seq)
    BY <1>3
  <2>2. \A i \in 0..Len(seq) :
            Chosen[i] = IF i = 0 THEN start ELSE step[seq[i]][Chosen[i - 1]]
    BY <1>3
  <2>3. Chosen = [i \in 0..Len(seq) |-> Chosen[i]]
    BY <1>3
  <2> HIDE DEF Body
  <2> QED
    BY <2>1, <2>2, <2>3 DEF Reads
<1> QED
    BY <1>4, <1>5

\* The same for FlattenSeq: what the sequences up to each position make.
Flattens(flat, seqs, S, n) ==
    /\ flat \in [1..n -> Seq(S)]
    /\ \A i \in 1..n : flat[i] = IF i = 1 THEN seqs[i] ELSE flat[i - 1] \o seqs[i]

\* Sequences joined are a sequence over the same elements; one or two of them
\* are that one, or both in turn.
LEMMA FlatIsTyped ==
    ASSUME NEW S, NEW seqs \in Seq(Seq(S))
    PROVE  /\ FlattenSeq(seqs) \in Seq(S)
           /\ Len(seqs) = 0 => FlattenSeq(seqs) = <<>>
           /\ Len(seqs) = 1 => FlattenSeq(seqs) = seqs[1]
           /\ Len(seqs) = 2 => FlattenSeq(seqs) = seqs[1] \o seqs[2]
<1>1. CASE Len(seqs) = 0
  <2>1. seqs = <<>>
    BY <1>1, EmptySeq
  <2>2. FlattenSeq(seqs) = <<>>
    BY <2>1 DEF FlattenSeq
  <2> QED
    BY <1>1, <2>2, EmptySeq
<1>2. CASE Len(seqs) # 0
  <2> DEFINE n == Len(seqs)
             Body(flat) == [i \in 1..n |-> IF i = 1 THEN seqs[i] ELSE flat[i - 1] \o seqs[i]]
             Chosen == CHOOSE flat : flat = Body(flat)
             T == {m \in Nat : \E flat : Flattens(flat, seqs, S, m)}
  <2>0. n \in Nat /\ n >= 1 /\ \A i \in 1..n : seqs[i] \in Seq(S)
    BY <1>2, LenProperties, ElementOfSeq
  <2>1. FlattenSeq(seqs) = Chosen[n]
    BY <1>2 DEF FlattenSeq
  <2>2. 0 \in T
    <3>1. Flattens([i \in 1..0 |-> <<>>], seqs, S, 0)
      BY DEF Flattens
    <3> QED
      BY <3>1
  <2>3. ASSUME NEW m \in 1..n, m - 1 \in T PROVE m \in T
    <3>1. PICK flat : Flattens(flat, seqs, S, m - 1)
      BY <2>3
    <3> DEFINE last == IF m = 1 THEN seqs[m] ELSE flat[m - 1] \o seqs[m]
               more == [i \in 1..m |-> IF i = m THEN last ELSE flat[i]]
    <3>2. last \in Seq(S)
      <4>1. seqs[m] \in Seq(S)
        BY <2>0
      <4>2. CASE m # 1
        <5>1. flat[m - 1] \in Seq(S)
          BY <3>1, <4>2 DEF Flattens
        <5> QED
          BY <4>1, <5>1, <4>2, ConcatProperties
      <4> QED
        BY <4>1, <4>2
    <3>3. more \in [1..m -> Seq(S)]
      <4> HIDE DEF last
      <4> QED
        BY <3>1, <3>2 DEF Flattens
    <3>4. ASSUME NEW i \in 1..m
          PROVE  more[i] = IF i = 1 THEN seqs[i] ELSE more[i - 1] \o seqs[i]
      <4>1. CASE i = m
        <5>1. m # 1 => m - 1 \in 1..m /\ more[m - 1] = flat[m - 1]
          OBVIOUS
        <5>2. more[i] = last
          BY <4>1
        <5> HIDE DEF more
        <5> QED
          BY <4>1, <5>1, <5>2
      <4>2. CASE i # m
        <5>1. i \in 1..(m - 1)
          BY <4>2
        <5>2. flat[i] = IF i = 1 THEN seqs[i] ELSE flat[i - 1] \o seqs[i]
          BY <3>1, <5>1 DEF Flattens
        <5>3. more[i] = flat[i] /\ (i # 1 => more[i - 1] = flat[i - 1])
          BY <5>1
        <5> HIDE DEF more
        <5> QED
          BY <5>2, <5>3
      <4> QED
        BY <4>1, <4>2
    <3>5. Flattens(more, seqs, S, m)
      <4> HIDE DEF more
      <4> QED
        BY <3>3, <3>4 DEF Flattens
    <3> QED
      BY <3>5
  <2>4. n \in T
    <3> HIDE DEF T
    <3>1. 0..n \subseteq T
      BY <2>0, <2>2, <2>3, Induction
    <3> QED
      BY <2>0, <3>1
  <2>5. PICK flat : Flattens(flat, seqs, S, n)
    BY <2>4
  <2>6. flat = Body(flat)
    <3>1. flat = [i \in 1..n |-> flat[i]]
      BY <2>5 DEF Flattens
    <3>2. \A i \in 1..n : flat[i] = Body(flat)[i]
      BY <2>5 DEF Flattens
    <3> QED
      BY <3>1, <3>2
  <2>7. Chosen = Body(Chosen)
    BY <2>6
  <2> HIDE DEF Chosen
  <2>8. \A i \in 1..n : Chosen[i] = IF i = 1 THEN seqs[i] ELSE Chosen[i - 1] \o seqs[i]
    BY <2>7
  <2> DEFINE U == {0} \cup {i \in 1..n : Chosen[i] \in Seq(S)}
  <2>9. ASSUME NEW i \in 1..n, i - 1 \in U PROVE i \in U
    <3>1. CASE i = 1
      BY <2>0, <2>8, <3>1
    <3>2. CASE i # 1
      <4>1. Chosen[i - 1] \in Seq(S) /\ seqs[i] \in Seq(S)
        BY <2>0, <2>9, <3>2
      <4>2. Chosen[i] = Chosen[i - 1] \o seqs[i]
        BY <2>8, <3>2
      <4> QED
        BY <4>1, <4>2, ConcatProperties
    <3> QED
      BY <3>1, <3>2
  <2>10. n \in U
    <3>1. 0 \in U
      OBVIOUS
    <3> HIDE DEF U
    <3>2. 0..n \subseteq U
      BY <2>0, <2>9, <3>1, Induction
    <3> QED
      BY <2>0, <3>2
  <2>11. n = 1 => Chosen[n] = seqs[1]
    BY <2>8
  <2>12. n = 2 => Chosen[n] = seqs[1] \o seqs[2]
    <3> SUFFICES ASSUME n = 2 PROVE Chosen[2] = seqs[1] \o seqs[2]
      OBVIOUS
    <3> HIDE DEF n
    <3>1. 1 \in 1..n /\ 2 \in 1..n /\ 2 - 1 = 1
      OBVIOUS
    <3>2. Chosen[2] = IF 2 = 1 THEN seqs[2] ELSE Chosen[2 - 1] \o seqs[2]
      BY <2>8, <3>1
    <3>3. Chosen[1] = seqs[1]
      BY <2>8, <3>1
    <3>4. Chosen[2] = Chosen[2 - 1] \o seqs[2]
      BY <3>2, 2 # 1
    <3>5. Chosen[2 - 1] = seqs[1]
      BY <3>1, <3>3
    <3> QED
      BY <3>4, <3>5
  <2> QED
    BY <1>2, <2>0, <2>1, <2>10, <2>11, <2>12
<1> QED
  BY <1>1, <1>2, LenProperties

\* A script put on one line is a sequence of words, and one of two lines is
\* not longer than the array of tokens.
LEMMA JoinedLines ==
    ASSUME NEW w \in Seq(Word)
    PROVE  /\ JoinLines(w) \in Seq(Word)
           /\ Len(w) <= 2 => Len(JoinLines(w)) <= TokenLimit
<1> DEFINE lines == [i \in DOMAIN w |-> Append(Script(w[i]), Newline)]
<1>1. \A i \in 1..Len(w) : Append(Script(w[i]), Newline) \in Seq(Word)
  <2> TAKE i \in 1..Len(w)
  <2>1. w[i] \in Word /\ Newline \in Word
    BY ElementOfSeq, NewlineAssumption
  <2>2. Script(w[i]) \in Seq(Word)
    BY <2>1, LexiconAssumption DEF Script
  <2> QED
    BY <2>1, <2>2, AppendProperties
<1>2. DOMAIN w = 1..Len(w) /\ Len(w) \in Nat
  BY LenProperties
<1>3. lines \in Seq(Seq(Word)) /\ Len(lines) = Len(w)
  BY <1>1, <1>2
<1>4. ASSUME NEW i \in 1..Len(w)
      PROVE  /\ lines[i] \in Seq(Word) /\ Len(lines[i]) \in Nat
             /\ 2 * Len(lines[i]) <= TokenLimit
  <2>1. w[i] \in Word
    BY ElementOfSeq
  <2>2. Script(w[i]) \in Seq(Word) /\ 2 * Len(Script(w[i])) + 2 <= TokenLimit
    BY <2>1, LexiconAssumption, LimitAssumption DEF Script
  <2>3. Len(lines[i]) = Len(Script(w[i])) + 1 /\ Len(Script(w[i])) \in Nat
    BY <1>2, <2>2, AppendProperties, LenProperties, NewlineAssumption
  <2>4. TokenLimit \in Nat
    BY LimitAssumption
  <2>5. lines[i] \in Seq(Word)
    BY <1>1, <1>2
  <2> HIDE DEF lines
  <2> QED
    BY <2>2, <2>3, <2>4, <2>5
<1>5. JoinLines(w) = FlattenSeq(lines)
  BY DEF JoinLines
<1> HIDE DEF lines
<1>6. CASE Len(w) = 0
  <2>1. JoinLines(w) = <<>>
    BY <1>3, <1>5, <1>6, FlatIsTyped
  <2>2. Len(JoinLines(w)) = 0 /\ JoinLines(w) \in Seq(Word)
    BY <2>1, EmptySeq
  <2>3. TokenLimit \in Nat
    BY LimitAssumption
  <2> QED
    BY <2>2, <2>3
<1>7. CASE Len(w) = 1
  <2>1. JoinLines(w) = lines[1] /\ JoinLines(w) \in Seq(Word)
    BY <1>3, <1>5, <1>7, FlatIsTyped
  <2>2. 2 * Len(lines[1]) <= TokenLimit /\ Len(lines[1]) \in Nat
    BY <1>4, <1>7
  <2> QED
    BY <2>1, <2>2, LimitAssumption
<1>8. CASE Len(w) = 2
  <2>1. JoinLines(w) = lines[1] \o lines[2] /\ JoinLines(w) \in Seq(Word)
    BY <1>3, <1>5, <1>8, FlatIsTyped
  <2>2. PICK a \in Nat : a = Len(lines[1]) /\ 2 * a <= TokenLimit
    BY <1>4, <1>8
  <2>3. PICK b \in Nat : b = Len(lines[2]) /\ 2 * b <= TokenLimit
    BY <1>4, <1>8
  <2>4. lines[1] \in Seq(Word) /\ lines[2] \in Seq(Word)
    BY <1>4, <1>8
  <2>5. Len(JoinLines(w)) = a + b
    BY <2>1, <2>2, <2>3, <2>4, ConcatProperties
  <2>6. a + b <= TokenLimit
    <3>1. TokenLimit \in Nat
      BY LimitAssumption
    <3>2. 2 * a <= TokenLimit /\ 2 * b <= TokenLimit
      BY <2>2, <2>3
    <3> QED
      BY <3>1, <3>2
  <2> QED
    BY <2>1, <2>5, <2>6
<1>9. CASE Len(w) > 2
  <2>1. JoinLines(w) \in Seq(Word)
    BY <1>3, <1>5, FlatIsTyped
  <2>2. ~(Len(w) <= 2)
    BY <1>2, <1>9
  <2> QED
    BY <2>1, <2>2
<1> QED
  BY <1>2, <1>6, <1>7, <1>8, <1>9

-----------------------------------------------------------------------------

\* What an invocation is made of.
InvocationInv ==
    /\ tool \in Tools /\ input \in Inputs
    /\ words \subseteq Word /\ command \in Seq(Word)
    /\ Len(command) <= IF Plainly THEN MaxWords ELSE 2
    /\ DOMAIN reply \subseteq Places \X Keys
    /\ \A f \in DOMAIN reply : reply[f] \in Values

\* Words and fields are added one at a time and from their sets, and a command
\* and a reply never grow in one invocation.
LEMMA InvocationIsTyped == Spec => []InvocationInv
<1>1. Init => InvocationInv
  <2> SUFFICES ASSUME Init PROVE InvocationInv
    OBVIOUS
  <2>1. words \subseteq Word
    BY WordAssumption DEF Init
  <2>2. DOMAIN reply = {}
    BY DEF Init
  <2>3. command \in Seq(Word) /\ Len(command) <= IF Plainly THEN MaxWords ELSE 2
    BY EmptySeq, LimitAssumption DEF Init
  <2> QED
    BY <2>1, <2>2, <2>3 DEF Init, InvocationInv
<1>2. InvocationInv /\ [Next]_vars => InvocationInv'
  <2> SUFFICES ASSUME InvocationInv, [Next]_vars PROVE InvocationInv'
    OBVIOUS
  <2>1. ASSUME NEW w \in Word, AddWord(w) PROVE InvocationInv'
    <3>1. UNCHANGED <<tool, input, words, reply, Plainly>>
      BY <2>1 DEF AddWord, Plainly
    <3>2. command' \in Seq(Word) /\ Len(command') = Len(command) + 1
      BY <2>1, AppendProperties DEF AddWord, InvocationInv
    <3>3. Len(command) < IF Plainly THEN MaxWords ELSE 2
      BY <2>1 DEF AddWord
    <3>4. Len(command') <= IF Plainly THEN MaxWords ELSE 2
      <4>1. Len(command) \in Nat /\ MaxWords \in Nat
        BY LimitAssumption, LenProperties DEF InvocationInv
      <4> QED
        BY <3>2, <3>3, <4>1
    <3> QED
      BY <3>1, <3>2, <3>4 DEF InvocationInv
  <2>2. ASSUME NEW p \in Places, NEW k \in Keys, NEW v \in Values, AddField(p, k, v)
        PROVE  InvocationInv'
    <3>1. DOMAIN reply' = DOMAIN reply \cup {<<p, k>>}
      BY <2>2 DEF AddField
    <3>2. \A f \in DOMAIN reply' :
              reply'[f] = IF f = <<p, k>> THEN v ELSE reply[f]
      BY <2>2, <3>1 DEF AddField
    <3>3. UNCHANGED <<tool, input, words, command, Plainly>>
      BY <2>2 DEF AddField, Plainly
    <3> QED
      BY <3>1, <3>2, <3>3 DEF InvocationInv
  <2>3. CASE UNCHANGED vars
    BY <2>3 DEF vars, InvocationInv, Plainly
  <2> QED
    BY <2>1, <2>2, <2>3 DEF Next
<1> QED
  BY <1>1, <1>2, PTL DEF Spec

-----------------------------------------------------------------------------

\* One object of a reply fails for the native hook if and only if it does for
\* the reference, unless it has is_error under both its names.
LEMMA SameFailuresInPlace ==
    ASSUME InvocationInv, NEW p \in Places,
           ~({<<p, "is_error">>, <<p, "isError">>} \subseteq DOMAIN reply)
    PROVE  ObjectFailed(reply, p) <=> SaysFailed(reply, p)
<1>1. \A f \in DOMAIN reply : reply[f] # "fraction"
  BY CallAssumption DEF InvocationInv
<1> DEFINE Has(k, values) == <<p, k>> \in DOMAIN reply /\ reply[<<p, k>>] \in values
<1>2. \A k : \A values : /\ Holds(reply, p, k, values) <=> Has(k, values)
                         /\ FindsAny(reply, p, k, values) <=> Has(k, values)
  BY DEF Holds, FindsAny, Finds, Value
<1>3. \A k : /\ Has(k, {"number", "fraction", "numeral"}) <=> Has(k, NonZero)
             /\ Has(k, {"true", "number", "fraction", "numeral", "text", "failed"})
                    <=> Has(k, Meaningful)
  BY <1>1 DEF NonZero, Meaningful
<1>4. (IF Finds(reply, p, "is_error") THEN Value(reply, p, "is_error") = "true"
       ELSE Has("isError", {"true"}))
         <=> Has("is_error", {"true"}) \/ Has("isError", {"true"})
  BY DEF Finds, Value
<1>5. ObjectFailed(reply, p) <=>
          \/ \E k \in CodeKeys : Has(k, NonZero)
          \/ Has("status", {"failed"}) \/ Has("success", {"false"})
          \/ Has("is_error", {"true"}) \/ Has("isError", {"true"})
          \/ \E k \in ErrorKeys : Has(k, Meaningful)
  <2> HIDE DEF Has
  <2> QED
    BY <1>2, <1>4 DEF ObjectFailed, CodeKeys, ErrorKeys
<1>6. SaysFailed(reply, p) <=>
          \/ \E k \in CodeKeys : Has(k, NonZero)
          \/ Has("status", {"failed"}) \/ Has("success", {"false"})
          \/ Has("is_error", {"true"}) \/ Has("isError", {"true"})
          \/ \E k \in ErrorKeys : Has(k, Meaningful)
  <2> HIDE DEF Has
  <2> QED
    BY <1>2, <1>3 DEF SaysFailed
<1> QED
  BY <1>5, <1>6

\* A place without fields says nothing.
LEMMA NothingFails ==
    ASSUME InvocationInv, NEW p, p \notin Places
    PROVE  ~ObjectFailed(reply, p) /\ ~SaysFailed(reply, p)
<1>1. \A k : <<p, k>> \notin DOMAIN reply
  BY DEF InvocationInv
<1> QED
  BY <1>1 DEF ObjectFailed, SaysFailed, Holds, FindsAny, Finds

\* A reply is a failure for the native hook (explicit_failure, hook.c) if and
\* only if it is one for the reference (explicit_failure, classify.py), for
\* every reply that does not have the flag is_error under both its names: both
\* programs look at the same fields of the same objects, whatever is in them.
THEOREM FailuresAlwaysMatch == Spec => []FailuresMatch
<1>1. InvocationInv => FailuresMatch
  <2> SUFFICES ASSUME InvocationInv,
                      \A p \in Places :
                          ~({<<p, "is_error">>, <<p, "isError">>} \subseteq DOMAIN reply)
               PROVE  Failed(reply) <=> ExplicitFailure(reply)
    BY DEF FailuresMatch
  <2>1. \A p : ObjectFailed(reply, p) <=> SaysFailed(reply, p)
    BY SameFailuresInPlace, NothingFails
  <2>2. ~ObjectFailed(reply, "root.metadata")
    BY NothingFails, CallAssumption
  <2> QED
    BY <2>1, <2>2 DEF Failed, ExplicitFailure
<1> QED
  BY <1>1, InvocationIsTyped, PTL

-----------------------------------------------------------------------------

\* A name is known by a part in both programs: as the part or behind others.
LEMMA NameOrEnd ==
    ASSUME NEW name \in Tools, NEW S, NEW part \in Seq(S)
    PROVE  IsSuffix(part, name) <=> name = part \/ EndsWith(name, part)
<1> DEFINE T == STRING \cup S
<1>1. name \in Seq(T) /\ part \in Seq(T)
  BY CallAssumption, SeqMonotonic
<1> HIDE DEF T
<1>2. IsSuffix(part, part)
  BY <1>1, SuffixIs
<1> QED
  BY <1>2 DEF EndsWith, IsStrictSuffix

\* A name that the native hook knows only as a whole is not the last part of a
\* longer one.
LEMMA WholeName ==
    ASSUME NEW name \in Tools, NEW x, <<x>> \in WholeNames
    PROVE  IsSuffix(<<x>>, name) <=> name = <<x>>
<1>1. <<x>> \in Seq({x})
  BY OneOrTwo
<1>2. ~EndsWith(name, <<x>>)
  BY CallAssumption
<1> QED
  BY <1>1, <1>2, NameOrEnd

\* A name of two parts is a whole name or the end of one.
LEMMA TwoParts ==
    ASSUME NEW name \in Tools, NEW x, NEW y
    PROVE  IsSuffix(<<x, y>>, name) <=> name = <<x, y>> \/ EndsWith(name, <<x, y>>)
<1>1. <<x, y>> \in Seq({x, y})
  BY OneOrTwo
<1> QED
  BY <1>1, NameOrEnd

\* A name of one part is the last part of a name.
LEMMA OnePart ==
    ASSUME NEW name \in Tools, NEW x
    PROVE  /\ IsSuffix(<<x>>, name) <=> Last(name) = x
           /\ name = <<x>> => Last(name) = x
<1> DEFINE T == STRING \cup {x}
<1>1. name \in Seq(T) /\ name # <<>>
  BY CallAssumption, SeqMonotonic
<1>2. x \in T
  OBVIOUS
<1> HIDE DEF T
<1>3. Len(name) \in Nat /\ Len(name) >= 1
  BY <1>1, EmptySeq
<1>4. <<x>> \in Seq(T) /\ Len(<<x>>) = 1 /\ <<x>>[1] = x
  BY <1>2, OneOrTwo
<1>5. IsSuffix(<<x>>, name) <=> \A i \in 1..1 : <<x>>[i] = name[Len(name) - 1 + i]
  BY <1>1, <1>3, <1>4, SuffixIs
<1>6. Len(name) - 1 + 1 = Len(name)
  BY <1>3
<1>7. IsSuffix(<<x>>, name) <=> x = name[Len(name)]
  BY <1>4, <1>5, <1>6
<1> QED
  BY <1>4, <1>7 DEF Last

\* The four kinds of tools: the names hook.c lists are those of classify.py.
LEMMA SameShellTools ==
    ASSUME NEW name \in Tools
    PROVE  NameOrSuffix(name, {<<"bash">>, <<"shell">>, <<"exec", "command">>,
                               <<"run", "command">>}) <=> IsShellTool(name)
<1>1. /\ IsSuffix(<<"bash">>, name) <=> name = <<"bash">>
      /\ IsSuffix(<<"shell">>, name) <=> name = <<"shell">>
  BY WholeName DEF WholeNames
<1>2. IsSuffix(<<"exec", "command">>, name) <=>
          name = <<"exec", "command">> \/ EndsWith(name, <<"exec", "command">>)
  BY TwoParts
<1>3. IsSuffix(<<"run", "command">>, name) <=>
          name = <<"run", "command">> \/ EndsWith(name, <<"run", "command">>)
  BY TwoParts
<1> QED
  BY <1>1, <1>2, <1>3 DEF NameOrSuffix, IsShellTool

\* The tools that write,
LEMMA SameWritingTools ==
    ASSUME NEW name \in Tools
    PROVE  NameOrSuffix(name, {<<"apply", "patch">>, <<"edit">>, <<"multiedit">>,
               <<"notebookedit">>, <<"write">>, <<"write", "file">>,
               <<"create", "file">>}) <=> IsWritingTool(name)
<1>1. /\ IsSuffix(<<"multiedit">>, name) <=> name = <<"multiedit">>
      /\ IsSuffix(<<"notebookedit">>, name) <=> name = <<"notebookedit">>
  BY WholeName DEF WholeNames
<1>2. /\ IsSuffix(<<"edit">>, name) <=> Last(name) = "edit"
      /\ name = <<"edit">> => Last(name) = "edit"
  BY OnePart
<1>3. /\ IsSuffix(<<"write">>, name) <=> Last(name) = "write"
      /\ name = <<"write">> => Last(name) = "write"
  BY OnePart
<1>4. IsSuffix(<<"apply", "patch">>, name) <=>
          name = <<"apply", "patch">> \/ EndsWith(name, <<"apply", "patch">>)
  BY TwoParts
<1>5. IsSuffix(<<"write", "file">>, name) <=>
          name = <<"write", "file">> \/ EndsWith(name, <<"write", "file">>)
  BY TwoParts
<1>6. IsSuffix(<<"create", "file">>, name) <=>
          name = <<"create", "file">> \/ EndsWith(name, <<"create", "file">>)
  BY TwoParts
<1> QED
  BY <1>1, <1>2, <1>3, <1>4, <1>5, <1>6 DEF NameOrSuffix, IsWritingTool

\* those that read,
LEMMA SameReadingTools ==
    ASSUME NEW name \in Tools
    PROVE  NameOrSuffix(name, {<<"read">>, <<"read", "file">>, <<"grep">>, <<"glob">>,
               <<"search">>, <<"find">>, <<"list", "directory">>, <<"list", "files">>,
               <<"search", "query">>}) <=> IsReadingTool(name)
<1>1. \A x \in {"read", "grep", "glob", "search", "find"} :
          /\ IsSuffix(<<x>>, name) <=> Last(name) = x
          /\ name = <<x>> => Last(name) = x
  BY OnePart
<1>2. IsSuffix(<<"read", "file">>, name) <=>
          name = <<"read", "file">> \/ EndsWith(name, <<"read", "file">>)
  BY TwoParts
<1>3. IsSuffix(<<"list", "directory">>, name) <=>
          name = <<"list", "directory">> \/ EndsWith(name, <<"list", "directory">>)
  BY TwoParts
<1>4. IsSuffix(<<"list", "files">>, name) <=>
          name = <<"list", "files">> \/ EndsWith(name, <<"list", "files">>)
  BY TwoParts
<1>5. IsSuffix(<<"search", "query">>, name) <=>
          name = <<"search", "query">> \/ EndsWith(name, <<"search", "query">>)
  BY TwoParts
<1> QED
  BY <1>1, <1>2, <1>3, <1>4, <1>5 DEF NameOrSuffix, IsReadingTool

\* and those that start an agent.
LEMMA SameAgentTools ==
    ASSUME NEW name \in Tools
    PROVE  NameOrSuffix(name, {<<"agent">>, <<"spawn", "agent">>,
               <<"subagent", "start">>}) <=> IsAgentTool(name)
<1>1. IsSuffix(<<"agent">>, name) <=>
          name = <<"agent">> \/ EndsWith(name, <<"agent">>)
  <2>1. <<"agent">> \in Seq({"agent"})
    BY OneOrTwo
  <2> QED
    BY <2>1, NameOrEnd
<1>2. IsSuffix(<<"spawn", "agent">>, name) <=>
          name = <<"spawn", "agent">> \/ EndsWith(name, <<"spawn", "agent">>)
  BY TwoParts
<1>3. IsSuffix(<<"subagent", "start">>, name) <=>
          name = <<"subagent", "start">> \/ EndsWith(name, <<"subagent", "start">>)
  BY TwoParts
<1>4. EndsWith(name, <<"agent">>) => IsSuffix(<<"spawn", "agent">>, name)
  BY CallAssumption
<1> QED
  BY <1>1, <1>2, <1>3, <1>4 DEF NameOrSuffix, IsAgentTool

\* Both find the command under the same key of an input.
LEMMA SameInput ==
    ASSUME NEW i \in Inputs
    PROVE  /\ CommandValue(i) = "text" <=> CommandForm(i) = "text"
           /\ CommandValue(i) = "list" <=> CommandForm(i) = "list"
<1>1. CASE i \in [form : {"none", "other", "text"}]
  BY <1>1 DEF CommandValue, CommandForm
<1>2. CASE i \in [form : {"object"}, fields : [{"command", "cmd", "script"} -> Field]]
  <2> DEFINE keys == <<"command", "cmd", "script">>
             k == SelectInSeq(keys, LAMBDA key : IsText(i.fields[key]))
             I == {j \in 1..3 : IsText(i.fields[keys[j]])}
             usable == {key \in DOMAIN i.fields : i.fields[key] \in {"text", "list"}}
  <2>1. /\ i.form = "object" /\ i.fields \in [{"command", "cmd", "script"} -> Field]
        /\ DOMAIN i.fields = {"command", "cmd", "script"}
    BY <1>2
  <2>2. CommandForm(i) = IF k = 0 THEN "none" ELSE i.fields[keys[k]]
    BY <2>1 DEF CommandForm
  <2>3. k = IF I # {} THEN Min(I) ELSE 0
    BY DEF SelectInSeq
  <2>4. I \subseteq Nat
    OBVIOUS
  <2>5. CASE "command" \in usable
    <3>1. 1 \in I
      BY <2>5 DEF IsText
    <3>2. k = 1
      <4>1. Min(I) \in I /\ Min(I) <= 1
        BY <2>4, <3>1, MinIs
      <4> QED
        BY <2>3, <3>1, <4>1
    <3>3. CommandForm(i) = i.fields.command
      <4> HIDE DEF k
      <4> QED
        BY <2>2, <3>2
    <3> QED
      BY <2>1, <2>5, <3>3 DEF CommandValue
  <2>6. CASE "command" \notin usable /\ "cmd" \in usable
    <3>1. 1 \notin I /\ 2 \in I
      BY <2>1, <2>6 DEF IsText
    <3>2. k = 2
      <4>1. Min(I) \in I /\ Min(I) <= 2
        BY <2>4, <3>1, MinIs
      <4> QED
        BY <2>3, <3>1, <4>1
    <3>3. CommandForm(i) = i.fields.cmd
      <4> HIDE DEF k
      <4> QED
        BY <2>2, <3>2
    <3> QED
      BY <2>1, <2>6, <3>3 DEF CommandValue
  <2>7. CASE usable = {"script"}
    <3>1. 1 \notin I /\ 2 \notin I /\ 3 \in I
      BY <2>1, <2>7 DEF IsText
    <3>2. k = 3
      <4>1. Min(I) \in I
        BY <2>4, <3>1, MinIs
      <4> QED
        BY <2>3, <3>1, <4>1
    <3>3. CommandForm(i) = i.fields.script
      <4> HIDE DEF k
      <4> QED
        BY <2>2, <3>2
    <3> QED
      BY <2>1, <2>7, <3>3 DEF CommandValue
  <2>8. CASE usable = {}
    <3>1. I = {}
      BY <2>1, <2>8 DEF IsText
    <3>2. CommandForm(i) = "none"
      BY <2>2, <2>3, <3>1
    <3> QED
      BY <2>1, <2>8, <3>2 DEF CommandValue
  <2> QED
    BY <2>1, <2>5, <2>6, <2>7, <2>8
<1> QED
  BY <1>1, <1>2, CallAssumption

-----------------------------------------------------------------------------

\* One word: the loop of the native hook goes from each mode to the mode the
\* reference's goes to.
LEMMA SameStep ==
    ASSUME NEW w \in Word, NEW mode \in Modes
    PROVE  Skip[w][mode] = Unwrap[w][mode] /\ Skip[w][mode] \in Modes
<1>1. File(w) = Stem(w)
  BY WordAssumption
<1>2. AfterSudoOption(w) = IF w \in SudoWithValue THEN "value" ELSE "sudo"
  BY WordAssumption DEF AfterSudoOption, Is
<1>3. (IF IsFile(w, {"sudo"}) THEN "sudo"
       ELSE IF IsFile(w, {"env"}) THEN "env"
       ELSE IF IsFile(w, {"command", "exec", "nohup", "time"})
       THEN "options" ELSE "program") = Behind(Stem(w))
  BY <1>1 DEF IsFile, Behind
<1>4. Behind(Stem(w)) \in Modes
  BY DEF Behind, Modes
<1>5. Skip[w][mode] =
        CASE mode = "program" -> "program"
          [] mode = "value" -> "sudo"
          [] mode = "sudo" /\ IsOption(w) -> AfterSudoOption(w)
          [] mode = "assignments" /\ Assigns(w) -> mode
          [] mode = "env" /\ (IsOption(w) \/ Assigns(w)) -> mode
          [] mode = "options" /\ IsOption(w) -> mode
          [] OTHER -> Behind(Stem(w))
  BY <1>3 DEF Skip
<1>6. Unwrap[w][mode] =
        CASE mode = "program" -> "program"
          [] mode = "value" -> "sudo"
          [] mode = "sudo" /\ IsOption(w) ->
                IF w \in SudoWithValue THEN "value" ELSE "sudo"
          [] mode = "assignments" /\ Assigns(w) -> mode
          [] mode = "env" /\ (IsOption(w) \/ Assigns(w)) -> mode
          [] mode = "options" /\ IsOption(w) -> mode
          [] OTHER -> Behind(Stem(w))
  BY DEF Unwrap
<1>7. Skip[w][mode] = Unwrap[w][mode]
  BY <1>2, <1>5, <1>6
<1>8. Skip[w][mode] \in Modes
  BY <1>2, <1>4, <1>5 DEF Modes
<1> QED
  BY <1>7, <1>8

\* So the two scans for the program of a segment are one function,
LEMMA SameScan == Skip = Unwrap
<1>1. /\ DOMAIN Skip = Word /\ DOMAIN Unwrap = Word
      /\ Skip = [w \in Word |-> Skip[w]] /\ Unwrap = [w \in Word |-> Unwrap[w]]
  BY DEF Skip, Unwrap
<1>2. \A w \in Word : /\ Skip[w] = [mode \in Modes |-> Skip[w][mode]]
                      /\ Unwrap[w] = [mode \in Modes |-> Unwrap[w][mode]]
  BY DEF Skip, Unwrap
<1>3. \A w \in Word : \A mode \in Modes : Skip[w][mode] = Unwrap[w][mode]
  BY SameStep
<1>4. \A w \in Word : Skip[w] = Unwrap[w]
  BY <1>2, <1>3
<1> QED
  BY <1>1, <1>4

\* and find the same program.
LEMMA SameProgram ==
    ASSUME NEW segment
    PROVE  SkipWrappers(segment) = Unwrapped(segment)
BY SameScan DEF SkipWrappers, Unwrapped

\* The arguments of an executable, as the reference takes them.
LEMMA ArgumentsAre ==
    ASSUME NEW c \in Seq(Word), c # <<>>
    PROVE  /\ Len(c) \in Nat /\ Len(c) >= 1 /\ DOMAIN c = 1..Len(c)
           /\ Tail(c) \in Seq(Word) /\ Len(Tail(c)) = Len(c) - 1
           /\ DOMAIN Tail(c) = 1..(Len(c) - 1)
           /\ \A i \in 1..(Len(c) - 1) : Tail(c)[i] = c[i + 1]
           /\ Len(LowerAll(Tail(c))) = Len(c) - 1
           /\ \A i \in 1..(Len(c) - 1) : LowerAll(Tail(c))[i] = Lower(c[i + 1])
           /\ \A S : (\A w \in Word : Lower(w) \in S) => LowerAll(Tail(c)) \in Seq(S)
<1>1. /\ Len(c) \in Nat /\ Len(c) >= 1 /\ DOMAIN c = 1..Len(c)
  BY EmptySeq, LenProperties
<1>2. /\ Tail(c) \in Seq(Word) /\ Len(Tail(c)) = Len(c) - 1
      /\ \A i \in 1..(Len(c) - 1) : Tail(c)[i] = c[i + 1]
  BY HeadTailProperties
<1>3. DOMAIN Tail(c) = 1..(Len(c) - 1)
  BY <1>2, LenProperties
<1>4. LowerAll(Tail(c)) = [i \in 1..(Len(c) - 1) |-> Lower(Tail(c)[i])]
  BY <1>3 DEF LowerAll
<1>5. \A i \in 1..(Len(c) - 1) : Tail(c)[i] \in Word
  BY <1>2, ElementOfSeq
<1>6. Len(LowerAll(Tail(c))) = Len(c) - 1
  <2> DEFINE args == LowerAll(Tail(c))
  <2>1. args \in [1..(Len(c) - 1) -> {Lower(w) : w \in Word}]
    BY <1>4, <1>5
  <2> HIDE DEF args
  <2>2. Len(c) - 1 \in Nat
    BY <1>1
  <2> QED
    BY <2>1, <2>2 DEF args
<1>7. \A i \in 1..(Len(c) - 1) : LowerAll(Tail(c))[i] = Lower(c[i + 1])
  BY <1>2, <1>4
<1>8. ASSUME NEW S, \A w \in Word : Lower(w) \in S
      PROVE  LowerAll(Tail(c)) \in Seq(S)
  BY <1>1, <1>4, <1>5, <1>8
<1> QED
  BY <1>1, <1>2, <1>3, <1>6, <1>7, <1>8

\* `make flash' and its like: an argument is one of the targets.
LEMMA SameTargets ==
    ASSUME NEW c \in Seq(Word), c # <<>>, NEW name
    PROVE  HasArgument(c, name) <=> name \in Targets(Tail(c))
<1>1. ASSUME NEW i \in 2..Len(c), ~IsOption(c[i]), Lower(c[i]) = name
      PROVE  name \in Targets(Tail(c))
  <2>1. i - 1 \in DOMAIN Tail(c) /\ Tail(c)[i - 1] = c[i]
    BY ArgumentsAre
  <2> QED
    BY <1>1, <2>1 DEF Targets
<1>2. ASSUME name \in Targets(Tail(c)) PROVE HasArgument(c, name)
  <2>1. PICK j \in DOMAIN Tail(c) : ~IsOption(Tail(c)[j]) /\ name = Lower(Tail(c)[j])
    BY <1>2 DEF Targets
  <2>2. j + 1 \in 2..Len(c) /\ Tail(c)[j] = c[j + 1]
    BY ArgumentsAre
  <2> QED
    BY <2>1, <2>2 DEF HasArgument, Is
<1> QED
  BY <1>1, <1>2 DEF HasArgument, Is

\* The argument at a position, compared without its case.
LEMMA SameArgument ==
    ASSUME NEW c \in Seq(Word), c # <<>>, NEW i \in Nat \ {0}, NEW name
    PROVE  Argument(c, i, {name}) <=>
               i <= Len(LowerAll(Tail(c))) /\ LowerAll(Tail(c))[i] = name
<1>1. i < Len(c) <=> i \in 1..(Len(c) - 1)
  BY ArgumentsAre
<1> QED
  BY <1>1, ArgumentsAre DEF Argument, Is

\* The arguments an executable begins with.
LEMMA SameBeginning ==
    ASSUME NEW c \in Seq(Word), c # <<>>, NEW x, NEW y
    PROVE  /\ IsPrefix(<<x>>, LowerAll(Tail(c))) <=> Argument(c, 1, {x})
           /\ IsPrefix(<<x, y>>, LowerAll(Tail(c))) <=>
                  Argument(c, 1, {x}) /\ Argument(c, 2, {y})
<1> DEFINE S == {Lower(w) : w \in Word} \cup {x, y}
           args == LowerAll(Tail(c))
<1>1. args \in Seq(S)
  BY ArgumentsAre
<1>2. x \in S /\ y \in S
  OBVIOUS
<1> HIDE DEF S
<1>3. /\ <<x>> \in Seq(S) /\ Len(<<x>>) = 1 /\ <<x>>[1] = x
      /\ <<x, y>> \in Seq(S) /\ Len(<<x, y>>) = 2
      /\ <<x, y>>[1] = x /\ <<x, y>>[2] = y
  BY <1>2, OneOrTwo
<1>4. Len(args) \in Nat
  BY <1>1, LenProperties
<1>5. /\ Argument(c, 1, {x}) <=> 1 <= Len(args) /\ args[1] = x
      /\ Argument(c, 2, {y}) <=> 2 <= Len(args) /\ args[2] = y
  <2>1. 1 \in Nat \ {0} /\ 2 \in Nat \ {0}
    OBVIOUS
  <2> QED
    BY <2>1, SameArgument, Zenon
<1> HIDE DEF args
<1>7. ASSUME NEW s \in Seq(S)
      PROVE  IsPrefix(s, args) <=>
                 Len(s) <= Len(args) /\ \A i \in 1..Len(s) : s[i] = args[i]
  BY <1>1, PrefixIs
<1>8. IsPrefix(<<x>>, args) <=> 1 <= Len(args) /\ args[1] = x
  <2>1. PICK s \in Seq(S) : s = <<x>>
    BY <1>3
  <2>2. Len(s) = 1 /\ s[1] = x
    BY <1>3, <2>1
  <2>3. IsPrefix(s, args) <=> 1 <= Len(args) /\ s[1] = args[1]
    <3>1. IsPrefix(s, args) <=> 1 <= Len(args) /\ \A i \in 1..1 : s[i] = args[i]
      BY <1>7, <2>2
    <3>2. 1..1 = {1}
      OBVIOUS
    <3> QED
      BY <3>1, <3>2
  <2> QED
    BY <2>1, <2>2, <2>3
<1>9. IsPrefix(<<x, y>>, args) <=> 2 <= Len(args) /\ args[1] = x /\ args[2] = y
  <2>1. PICK s \in Seq(S) : s = <<x, y>>
    BY <1>3
  <2>2. Len(s) = 2 /\ s[1] = x /\ s[2] = y
    BY <1>3, <2>1
  <2>3. IsPrefix(s, args) <=> 2 <= Len(args) /\ s[1] = args[1] /\ s[2] = args[2]
    <3>1. IsPrefix(s, args) <=> 2 <= Len(args) /\ \A i \in 1..2 : s[i] = args[i]
      BY <1>7, <2>2
    <3>2. 1..2 = {1, 2}
      OBVIOUS
    <3> QED
      BY <3>1, <3>2
  <2> QED
    BY <2>1, <2>2, <2>3
<1>10. 2 <= Len(args) => 1 <= Len(args)
  BY <1>4
<1> QED
  BY <1>5, <1>8, <1>9, <1>10 DEF args

\* An argument at any position.
LEMMA SameContents ==
    ASSUME NEW c \in Seq(Word), c # <<>>, NEW name
    PROVE  HasAnyArgument(c, name) <=> Contains(LowerAll(Tail(c)), name)
<1>1. ASSUME NEW i \in 2..Len(c), Lower(c[i]) = name
      PROVE  Contains(LowerAll(Tail(c)), name)
  <2>1. /\ i - 1 \in 1..(Len(c) - 1) /\ Len(LowerAll(Tail(c))) = Len(c) - 1
        /\ LowerAll(Tail(c))[i - 1] = Lower(c[i])
    BY ArgumentsAre
  <2> QED
    BY <1>1, <2>1 DEF Contains
<1>2. ASSUME Contains(LowerAll(Tail(c)), name) PROVE HasAnyArgument(c, name)
  <2>1. PICK j \in 1..(Len(c) - 1) : LowerAll(Tail(c))[j] = name
    BY <1>2, ArgumentsAre DEF Contains
  <2>2. j + 1 \in 2..Len(c) /\ LowerAll(Tail(c))[j] = Lower(c[j + 1])
    BY ArgumentsAre
  <2> QED
    BY <2>1, <2>2 DEF HasAnyArgument, Is
<1> QED
  BY <1>1, <1>2 DEF HasAnyArgument, Is

\* `python -m pytest'
LEMMA SameModule ==
    ASSUME NEW c \in Seq(Word), c # <<>>
    PROVE  LET args == LowerAll(Tail(c))
           IN  (\E i \in 1..(Len(args) - 1) : args[i] = "-m" /\ args[i + 1] = "pytest")
                   <=> \E i \in 1..Len(c) :
                           Argument(c, i, {"-m"}) /\ Argument(c, i + 1, {"pytest"})
<1> DEFINE args == LowerAll(Tail(c))
<1>1. Len(c) \in Nat /\ Len(args) = Len(c) - 1
  BY ArgumentsAre
<1>2. ASSUME NEW i \in Nat \ {0}
      PROVE  /\ Argument(c, i, {"-m"}) <=> i <= Len(args) /\ args[i] = "-m"
             /\ Argument(c, i + 1, {"pytest"}) <=>
                    i + 1 <= Len(args) /\ args[i + 1] = "pytest"
  <2>1. i + 1 \in Nat \ {0}
    OBVIOUS
  <2> QED
    BY <2>1, SameArgument, Zenon
<1> HIDE DEF args
<1>3. \A i : i \in 1..(Len(args) - 1) <=> i \in 1..Len(c) /\ i + 1 <= Len(args)
  BY <1>1
<1>4. \A i \in 1..Len(c) : i \in Nat \ {0} /\ (i + 1 <= Len(args) => i <= Len(args))
  BY <1>1
<1>5. (\E i \in 1..(Len(args) - 1) : args[i] = "-m" /\ args[i + 1] = "pytest")
          <=> \E i \in 1..Len(c) :
                  Argument(c, i, {"-m"}) /\ Argument(c, i + 1, {"pytest"})
  BY <1>2, <1>3, <1>4
<1> QED
  BY <1>5 DEF args

\* `npx jest' and `npx vitest'.
LEMMA SameRunner ==
    ASSUME NEW c \in Seq(Word), c # <<>>
    PROVE  (Len(c) > 1 /\ IsFile(c[2], {"jest", "vitest"})) <=>
               (Tail(c) # <<>> /\ Stem(Head(Tail(c))) \in {"jest", "vitest"})
<1>1. Len(c) > 1 <=> Tail(c) # <<>>
  <2>1. Tail(c) \in Seq(Word) /\ Len(Tail(c)) = Len(c) - 1 /\ Len(c) \in Nat
    BY ArgumentsAre
  <2>2. Tail(c) # <<>> <=> Len(Tail(c)) # 0
    BY <2>1, EmptySeq
  <2> QED
    BY <2>1, <2>2, ArgumentsAre
<1>2. ASSUME Len(c) > 1 PROVE Head(Tail(c)) = c[2] /\ File(c[2]) = Stem(c[2])
  <2>1. 1 \in 1..(Len(c) - 1) /\ 2 \in 1..Len(c)
    BY <1>2, ArgumentsAre
  <2>2. Tail(c)[1] = c[1 + 1]
    BY <2>1, ArgumentsAre
  <2>3. Head(Tail(c)) = Tail(c)[1]
    BY <1>1, <1>2, ArgumentsAre
  <2>4. c[2] \in Word
    BY <2>1, ElementOfSeq
  <2> QED
    BY <2>2, <2>3, <2>4, WordAssumption, 1 + 1 = 2
<1> QED
  BY <1>1, <1>2 DEF IsFile

\* An executable is known by the end of its path.
LEMMA SameExecutable ==
    ASSUME NEW c \in Seq(Word), c # <<>>, NEW names
    PROVE  IsFile(Head(c), names) <=> Stem(Head(c)) \in names
<1>1. Head(c) \in Word
  BY HeadTailProperties
<1> QED
  BY <1>1, WordAssumption DEF IsFile

\* The table of programs that write to a board,
LEMMA SameFlashing ==
    ASSUME NEW c \in Seq(Word), c # <<>>
    PROVE  IsFlashing(c) <=> Flashes(Stem(Head(c)), Tail(c))
BY SameExecutable, SameTargets DEF IsFlashing, Flashes

\* of those that test,
LEMMA SameTesting ==
    ASSUME NEW c \in Seq(Word), c # <<>>
    PROVE  IsTesting(c) <=> Tests(Stem(Head(c)), Tail(c))
BY SameExecutable, SameTargets, SameModule, SameBeginning, SameRunner
   DEF IsTesting, Tests

\* and of those that build.
LEMMA SameBuilding ==
    ASSUME NEW c \in Seq(Word), c # <<>>
    PROVE  IsBuilding(c) <=> Builds(Stem(Head(c)), Tail(c))
BY SameExecutable, SameTargets, SameContents, SameBeginning DEF IsBuilding, Builds

\* The two tables of programs are the same.
LEMMA SameState ==
    ASSUME NEW c \in Seq(Word)
    PROVE  /\ ProgramState(c) = IF c = <<>> THEN "COMMAND" ELSE StateOf(c)
           /\ ProgramState(c) \in CommandStates
<1>1. CASE c = <<>>
  BY <1>1 DEF ProgramState, CommandStates
<1>2. CASE c # <<>>
  <2>1. ProgramState(c) = IF IsFlashing(c) THEN "FLASHING"
                          ELSE IF IsTesting(c) THEN "TESTING"
                          ELSE IF IsBuilding(c) THEN "BUILDING" ELSE "COMMAND"
    BY <1>2 DEF ProgramState
  <2>2. StateOf(c) = IF IsFlashing(c) THEN "FLASHING"
                     ELSE IF IsTesting(c) THEN "TESTING"
                     ELSE IF IsBuilding(c) THEN "BUILDING" ELSE "COMMAND"
    BY <1>2, SameFlashing, SameTesting, SameBuilding DEF StateOf, CommandState
  <2> QED
    BY <1>2, <2>1, <2>2 DEF CommandStates
<1> QED
  BY <1>1, <1>2

-----------------------------------------------------------------------------

\* What Max chooses, from a set of numbers with a bound.
LEMMA MaxIs ==
    ASSUME NEW n \in Nat, NEW T, T \subseteq 0..n, T # {}
    PROVE  Max(T) \in T /\ \A x \in T : x <= Max(T)
<1> DEFINE U == {n - x : x \in T}
<1>1. U \subseteq Nat /\ U # {}
  <2>1. \A x \in T : n - x \in Nat
    OBVIOUS
  <2> QED
    BY <2>1
<1>2. PICK u \in U : \A v \in U : u <= v
  BY <1>1, LeastNumber
<1>3. PICK m \in T : u = n - m
  BY <1>2
<1>4. \A x \in T : n - m <= n - x
  BY <1>2, <1>3
<1>5. \A x \in T : m >= x
  BY <1>4
<1>6. Max(T) \in T /\ \A x \in T : Max(T) >= x
  BY <1>3, <1>5 DEF Max
<1> QED
  BY <1>6

\* A segment lies between two cuts.
Start(j, cuts) == 1 + Max({0} \cup {c \in cuts : c < j})

\* It starts at 1 or right behind a cut, and no cut is in it.
LEMMA StartsBehindCut ==
    ASSUME NEW n \in Nat, NEW cuts \in SUBSET (1..n), NEW j \in 1..(n + 1)
    PROVE  /\ Start(j, cuts) \in 1..j
           /\ Start(j, cuts) = 1 \/ Start(j, cuts) - 1 \in cuts
           /\ \A c \in cuts : c < j => c < Start(j, cuts)
<1> DEFINE T == {0} \cup {c \in cuts : c < j}
<1>1. T \subseteq 0..n /\ T # {}
  <2>1. 0 \in 0..n /\ 0 \in T /\ \A c \in cuts : c \in 0..n
    OBVIOUS
  <2>2. \A x \in T : x = 0 \/ x \in cuts
    OBVIOUS
  <2> QED
    BY <2>1, <2>2
<1>2. Max(T) \in T /\ \A x \in T : x <= Max(T)
  BY <1>1, MaxIs
<1>3. Start(j, cuts) = 1 + Max(T)
  BY DEF Start
<1> QED
  BY <1>1, <1>2, <1>3

\* It is a part of the command.
LEMMA SegmentIs ==
    ASSUME NEW w, NEW cuts, NEW j
    PROVE  SegmentTo(j, w, cuts) = SubSeq(w, Start(j, cuts), j - 1)
BY DEF SegmentTo, Start

\* Both programs cut a command at the same words.
LEMMA CutsAre ==
    ASSUME NEW w \in Seq(Word)
    PROVE  /\ Len(w) \in Nat /\ DOMAIN w = 1..Len(w)
           /\ BareBoundaries(w) \in SUBSET (1..Len(w))
           /\ Boundaries(w) = BareBoundaries(w)
           /\ Ends(w, BareBoundaries(w)) \subseteq 1..(Len(w) + 1)
<1>1. Len(w) \in Nat /\ DOMAIN w = 1..Len(w)
  BY LenProperties
<1>2. BareBoundaries(w) \in SUBSET (1..Len(w))
  BY <1>1 DEF BareBoundaries
<1>3. \A i \in 1..Len(w) : Boundary(w[i]) <=> Bare(w[i])
  <2> TAKE i \in 1..Len(w)
  <2>1. w[i] \in Word
    BY ElementOfSeq
  <2>2. Bare(w[i]) => Boundary(w[i])
    BY DEF Bare, Boundary
  <2> QED
    BY <2>1, <2>2, WordAssumption
<1>4. Boundaries(w) = BareBoundaries(w)
  BY <1>1, <1>3 DEF Boundaries, BareBoundaries
<1>5. Ends(w, BareBoundaries(w)) \subseteq 1..(Len(w) + 1)
  BY <1>1, <1>2 DEF Ends
<1> QED
  BY <1>1, <1>2, <1>4, <1>5

\* A segment is a sequence of words, and so is
LEMMA SegmentTyped ==
    ASSUME NEW w \in Seq(Word), NEW j \in Ends(w, BareBoundaries(w))
    PROVE  SegmentTo(j, w, BareBoundaries(w)) \in Seq(Word)
<1> DEFINE cuts == BareBoundaries(w)
           s == Start(j, cuts)
<1>1. Len(w) \in Nat /\ cuts \in SUBSET (1..Len(w)) /\ j \in 1..(Len(w) + 1)
  BY CutsAre
<1> HIDE DEF cuts
<1>2. s \in 1..j
  BY <1>1, StartsBehindCut
<1> HIDE DEF s
<1>3. s \in Int /\ j - 1 \in Int /\ \A i \in s..(j - 1) : w[i] \in Word
  BY <1>1, <1>2, ElementOfSeq
<1>4. SubSeq(w, s, j - 1) \in Seq(Word)
  BY <1>3, SubSeqProperties
<1> QED
  BY <1>4, SegmentIs DEF s, cuts

\* what is left of it from its program on.
LEMMA ProgramTyped ==
    ASSUME NEW scan, NEW w \in Seq(Word)
    PROVE  FromProgram(scan, w) \in Seq(Word)
<1> DEFINE mode == Reading(scan, "assignments", w)
           reached == {i \in DOMAIN w : mode[i] = "program"}
<1>1. FromProgram(scan, w) =
          IF reached = {} THEN <<>> ELSE SubSeq(w, Min(reached), Len(w))
  BY DEF FromProgram
<1>2. reached \subseteq 1..Len(w) /\ Len(w) \in Nat /\ reached \subseteq Nat
  BY LenProperties
<1> HIDE DEF reached
<1>3. CASE reached = {}
  BY <1>1, <1>3, EmptySeq
<1>4. CASE reached # {}
  <2>1. Min(reached) \in 1..Len(w)
    BY <1>2, <1>4, MinIs
  <2>2. \A i \in Min(reached)..Len(w) : w[i] \in Word
    BY <1>2, <2>1, ElementOfSeq
  <2>3. SubSeq(w, Min(reached), Len(w)) \in Seq(Word)
    BY <1>2, <2>1, <2>2, SubSeqProperties
  <2> QED
    BY <1>1, <1>4, <2>3
<1> QED
  BY <1>3, <1>4

\* The most important of some states.
MostImportant(observed) ==
    IF "FLASHING" \in observed THEN "FLASHING"
    ELSE IF "TESTING" \in observed THEN "TESTING"
    ELSE IF "BUILDING" \in observed THEN "BUILDING" ELSE "COMMAND"

\* What the reference concludes from the states of the commands.
LEMMA VerdictIs ==
    ASSUME NEW w, NEW observed
    PROVE  Verdict(w, observed) =
               IF \E i \in DOMAIN w : Unclosed(w[i]) THEN "COMMAND"
               ELSE MostImportant(observed)
BY DEF Verdict, MostImportant

\* One turn of the loop over the segments: the state kept is the most important
\* one of those observed and the new one.
LEMMA ObservingIs ==
    ASSUME NEW A, NEW state \in CommandStates
    PROVE  /\ Observing[state][MostImportant(A)] = MostImportant(A \cup {state})
           /\ MostImportant(A) \in CommandStates
<1>1. MostImportant(A) \in CommandStates
  BY DEF MostImportant, CommandStates
<1>2. Observing[state][MostImportant(A)] = Observe(MostImportant(A), state)
  BY <1>1 DEF Observing
<1>3. Observe(MostImportant(A), state) = MostImportant(A \cup {state})
  BY DEF Observe, MostImportant, CommandStates
<1> QED
  BY <1>1, <1>2, <1>3

\* What a COMMAND does not change.
LEMMA CommandIsLeast ==
    ASSUME NEW A, NEW B, A \ {"COMMAND"} = B \ {"COMMAND"}
    PROVE  MostImportant(A) = MostImportant(B)
<1>1. \A x \in {"FLASHING", "TESTING", "BUILDING"} : x \in A <=> x \in B
  OBVIOUS
<1> QED
  BY <1>1 DEF MostImportant

\* The loop of classify_shell keeps the most important state of the segments.
LEMMA LoopKeepsMostImportant ==
    ASSUME NEW n \in Nat, NEW states \in [1..n -> CommandStates]
    PROVE  Reading(Observing, "COMMAND", states)[n] =
               MostImportant({states[i] : i \in 1..n})
<1> DEFINE read == Reading(Observing, "COMMAND", states)
           T == {m \in 0..n : read[m] = MostImportant({states[i] : i \in 1..m})}
<1>1. Len(states) = n
  OBVIOUS
<1>2. /\ read[0] = "COMMAND"
      /\ \A i \in 1..n : read[i] = Observing[states[i]][read[i - 1]]
  BY <1>1, ReadingReads DEF Reads
<1> HIDE DEF read
<1>3. 0 \in T
  <2>1. {states[i] : i \in 1..0} = {}
    OBVIOUS
  <2> QED
    BY <1>2, <2>1 DEF MostImportant
<1>4. ASSUME NEW m \in 1..n, m - 1 \in T PROVE m \in T
  <2> DEFINE A == {states[i] : i \in 1..(m - 1)}
  <2>1. read[m - 1] = MostImportant(A)
    BY <1>4
  <2>2. {states[i] : i \in 1..m} = A \cup {states[m]}
    <3>1. \A i \in 1..m : i \in 1..(m - 1) \/ i = m
      OBVIOUS
    <3>2. \A i \in 1..(m - 1) : i \in 1..m
      OBVIOUS
    <3> QED
      BY <3>1, <3>2
  <2>3. states[m] \in CommandStates
    OBVIOUS
  <2> HIDE DEF A
  <2>4. read[m] = MostImportant(A \cup {states[m]})
    BY <1>2, <2>1, <2>3, ObservingIs
  <2>5. read[m] = MostImportant({states[i] : i \in 1..m})
    BY <2>2, <2>4
  <2> QED
    BY <2>5
<1> HIDE DEF T
<1>5. 0..n \subseteq T
  BY <1>3, <1>4, Induction
<1> QED
  BY <1>5 DEF T, read

\* The same with the states of the segments at the positions where they end.
LEMMA LoopOverEnds ==
    ASSUME NEW n \in Nat, NEW states \in [1..n -> CommandStates],
           NEW E \in SUBSET (1..n), \A j \in (1..n) \ E : states[j] = "COMMAND"
    PROVE  Reading(Observing, "COMMAND", states)[n] =
               MostImportant({states[j] : j \in E})
<1>1. {states[j] : j \in 1..n} \ {"COMMAND"} = {states[j] : j \in E} \ {"COMMAND"}
  OBVIOUS
<1> QED
  BY <1>1, LoopKeepsMostImportant, CommandIsLeast

-----------------------------------------------------------------------------

\* What ClassifyBash makes of one command.
FlagAt(c) == SelectInSeq(Tail(c), LAMBDA w : w \in {"-c", "-lc"})

\* One command behind its wrappers: a shell's script, or a program.
OfCommand(c) ==
    IF Stem(Head(c)) \in Shells /\ FlagAt(c) \in 1..(Len(c) - 2)
    THEN ClassifyScript(Script(c[FlagAt(c) + 2])) ELSE StateOf(c)

\* classify_bash as the most important state of its commands.
LEMMA BashIs ==
    ASSUME NEW w
    PROVE  ClassifyBash(w) = Verdict(w, {OfCommand(c) : c \in Commands(w)})
BY DEF ClassifyBash, OfCommand, FlagAt

\* Both programs take the same word for the script.
LEMMA SameScript ==
    ASSUME NEW c \in Seq(Word), c # <<>>
    PROVE  ScriptAt(c) = IF Stem(Head(c)) \in Shells /\ FlagAt(c) \in 1..(Len(c) - 2)
                         THEN FlagAt(c) + 2 ELSE 0
<1> DEFINE F == {"-c", "-lc"}
           I == {i \in 1..Len(Tail(c)) : Tail(c)[i] \in F}
           flags == {i \in 2..(Len(c) - 1) : Is(c[i], F)}
<1>1. FlagAt(c) = IF I # {} THEN Min(I) ELSE 0
  BY DEF FlagAt, SelectInSeq
<1>2. ScriptAt(c) = IF flags # {} /\ Stem(Head(c)) \in Shells THEN 1 + Min(flags) ELSE 0
  BY SameExecutable DEF ScriptAt, ShellNames, Shells
<1>3. Len(c) \in Nat /\ Len(Tail(c)) = Len(c) - 1
  BY ArgumentsAre
<1>4. ASSUME NEW i \in 1..(Len(c) - 1)
      PROVE  i \in I <=> Is(c[i + 1], F)
  <2>1. Tail(c)[i] = c[i + 1]
    BY ArgumentsAre
  <2>2. c[i + 1] \in Word
    BY <1>3, ElementOfSeq
  <2>3. Lower(c[i + 1]) \in F <=> c[i + 1] \in F
    BY <2>2, WordAssumption
  <2> QED
    BY <1>3, <2>1, <2>3 DEF Is
<1>5. I \subseteq 1..(Len(c) - 1) /\ I \subseteq Nat
  BY <1>3
<1>6. flags \subseteq 2..(Len(c) - 1) /\ flags \subseteq Nat
  BY <1>3
<1>7. ASSUME NEW i \in Nat
      PROVE  i + 1 \in flags <=> i \in I /\ i <= Len(c) - 2
  <2>1. i + 1 \in 2..(Len(c) - 1) <=> i \in 1..(Len(c) - 1) /\ i <= Len(c) - 2
    BY <1>3
  <2>2. i + 1 \in flags <=> i + 1 \in 2..(Len(c) - 1) /\ Is(c[i + 1], F)
    OBVIOUS
  <2> QED
    BY <1>4, <1>5, <2>1, <2>2
<1> HIDE DEF I, flags
<1>8. CASE flags # {}
  <2>1. Min(flags) \in flags /\ \A j \in flags : Min(flags) <= j
    BY <1>6, <1>8, MinIs
  <2>2. PICK m \in Nat : Min(flags) = m + 1
    <3>1. PICK k \in 2..(Len(c) - 1) : Min(flags) = k
      BY <1>6, <2>1
    <3>2. k - 1 \in Nat /\ k = (k - 1) + 1
      BY <1>3
    <3> QED
      BY <3>1, <3>2
  <2>3. m \in I /\ m <= Len(c) - 2
    BY <1>7, <2>1, <2>2
  <2>4. Min(I) \in I /\ Min(I) <= m
    BY <1>5, <2>3, MinIs
  <2>5. Min(I) \in Nat /\ Min(I) <= Len(c) - 2
    <3>1. Min(I) \in Nat
      BY <1>5, <2>4
    <3>2. m <= Len(c) - 2 /\ Min(I) <= m
      BY <2>3, <2>4
    <3> QED
      BY <1>3, <3>1, <3>2
  <2>6. Min(I) = m
    <3>1. Min(I) + 1 \in flags
      BY <1>7, <2>4, <2>5
    <3>2. m + 1 <= Min(I) + 1
      BY <2>1, <2>2, <3>1
    <3> QED
      BY <2>4, <2>5, <3>2
  <2>7. FlagAt(c) = m /\ FlagAt(c) \in 1..(Len(c) - 2)
    BY <1>1, <1>3, <1>5, <2>3, <2>6
  <2> QED
    BY <1>2, <1>8, <2>2, <2>7
<1>9. CASE flags = {}
  <2>1. ASSUME FlagAt(c) \in 1..(Len(c) - 2) PROVE FALSE
    <3>1. I # {} /\ FlagAt(c) = Min(I)
      BY <1>1, <2>1
    <3>2. FlagAt(c) \in I
      BY <1>5, <3>1, MinIs
    <3>3. FlagAt(c) \in Nat /\ FlagAt(c) <= Len(c) - 2
      BY <1>3, <2>1
    <3> QED
      BY <1>7, <1>9, <3>2, <3>3
  <2> QED
    BY <1>2, <1>9, <2>1
<1> QED
  BY <1>8, <1>9

\* The segments of the native hook are those of the reference.
LEMMA SegmentsAre ==
    ASSUME NEW w \in Seq(Word)
    PROVE  /\ Segments(w) = {SegmentTo(j, w, BareBoundaries(w)) :
                                j \in Ends(w, BareBoundaries(w))}
           /\ Segments(w) \subseteq Seq(Word)
           /\ \A s \in Segments(w) : Unwrapped(s) \in Seq(Word)
<1>1. Segments(w) = {SegmentTo(j, w, BareBoundaries(w)) :
                         j \in Ends(w, BareBoundaries(w))}
  BY CutsAre DEF Segments
<1>2. Segments(w) \subseteq Seq(Word)
  BY <1>1, SegmentTyped
<1>3. \A s \in Segments(w) : Unwrapped(s) \in Seq(Word)
  BY <1>2, ProgramTyped DEF Unwrapped
<1> QED
  BY <1>1, <1>2, <1>3

\* A command that the array of tokens can hold is given up for its quotes only.
LEMMA ShortEnough ==
    ASSUME NEW w \in Seq(Word), Len(w) <= TokenLimit
    PROVE  GivesUp(w) <=> \E i \in DOMAIN w : Unclosed(w[i])
<1>1. Len(w) \in Nat /\ TokenLimit \in Nat
  BY LenProperties, LimitAssumption
<1> QED
  BY <1>1 DEF GivesUp

\* Both programs read the same words.
LEMMA TokensAre ==
    ASSUME NEW w \in Seq(Word)
    PROVE  Tokens(w) = w
<1>1. \A i \in DOMAIN w : Lexicon[w[i]].token = w[i]
  BY ElementOfSeq, LenProperties, WordAssumption
<1>2. w = [i \in DOMAIN w |-> w[i]]
  BY LenProperties
<1> QED
  BY <1>1, <1>2 DEF Tokens

\* The native hook inside a script: its loop, as a set of states.
LEMMA NestedIs ==
    ASSUME NEW w \in Seq(Word)
    PROVE  NestedShell(w) =
               IF GivesUp(w) THEN "COMMAND"
               ELSE MostImportant({NestedSegment(s) : s \in Segments(w)})
<1> DEFINE n == Len(w) + 1
           E == Ends(w, BareBoundaries(w))
           states == [j \in 1..n |->
               IF j \in E THEN NestedSegment(SegmentTo(j, w, BareBoundaries(w)))
               ELSE "COMMAND"]
<1>1. NestedShell(w) = IF GivesUp(w) THEN "COMMAND"
                       ELSE Reading(Observing, "COMMAND", states)[n]
  BY TokensAre DEF NestedShell, ShellState
<1>2. n \in Nat /\ E \in SUBSET (1..n)
  BY CutsAre
<1>3. \A s \in Segments(w) : NestedSegment(s) \in CommandStates
  BY SegmentsAre, SameProgram, SameState DEF NestedSegment
<1>4. \A j \in E : SegmentTo(j, w, BareBoundaries(w)) \in Segments(w)
  BY SegmentsAre
<1>5. states \in [1..n -> CommandStates] /\ \A j \in (1..n) \ E : states[j] = "COMMAND"
  BY <1>3, <1>4 DEF CommandStates
<1>6. {states[j] : j \in E} = {NestedSegment(s) : s \in Segments(w)}
  <2>1. \A j \in E : states[j] = NestedSegment(SegmentTo(j, w, BareBoundaries(w)))
    BY <1>2
  <2> HIDE DEF states
  <2> QED
    BY <2>1, SegmentsAre
<1> HIDE DEF n, E, states
<1>7. Reading(Observing, "COMMAND", states)[n] = MostImportant({states[j] : j \in E})
  BY <1>2, <1>5, LoopOverEnds
<1> QED
  BY <1>1, <1>6, <1>7

\* A script is classified by both programs alike.
LEMMA SameNested ==
    ASSUME NEW w \in Seq(Word), Len(w) <= TokenLimit
    PROVE  NestedShell(w) = ClassifyScript(w) /\ NestedShell(w) \in CommandStates
<1> DEFINE A == {NestedSegment(s) : s \in Segments(w)}
           C == {StateOf(c) : c \in Commands(w)}
<1>1. ASSUME NEW s \in Segments(w)
      PROVE  NestedSegment(s) =
                 IF Unwrapped(s) = <<>> THEN "COMMAND" ELSE StateOf(Unwrapped(s))
  BY SegmentsAre, SameProgram, SameState DEF NestedSegment
<1>2. A \ {"COMMAND"} = C \ {"COMMAND"}
  <2>1. ASSUME NEW x \in A, x # "COMMAND" PROVE x \in C
    <3>1. PICK s \in Segments(w) : x = NestedSegment(s)
      OBVIOUS
    <3>2. Unwrapped(s) # <<>> /\ x = StateOf(Unwrapped(s))
      BY <1>1, <2>1, <3>1
    <3>3. Unwrapped(s) \in Commands(w)
      BY <3>2 DEF Commands
    <3> QED
      BY <3>2, <3>3
  <2>2. ASSUME NEW x \in C PROVE x \in A
    <3>1. PICK c \in Commands(w) : x = StateOf(c)
      OBVIOUS
    <3>2. PICK s \in Segments(w) : c = Unwrapped(s) /\ c # <<>>
      BY DEF Commands
    <3>3. x = NestedSegment(s)
      BY <1>1, <3>1, <3>2
    <3> QED
      BY <3>3
  <2> HIDE DEF A, C
  <2> QED
    BY <2>1, <2>2
<1> HIDE DEF A, C
<1>3. MostImportant(A) = MostImportant(C)
  BY <1>2, CommandIsLeast
<1>4. NestedShell(w) = IF GivesUp(w) THEN "COMMAND"
                       ELSE MostImportant(A)
  BY NestedIs DEF A
<1>5. ClassifyScript(w) = IF \E i \in DOMAIN w : Unclosed(w[i]) THEN "COMMAND"
                          ELSE MostImportant(C)
  BY VerdictIs DEF ClassifyScript, C
<1>6. MostImportant(A) \in CommandStates /\ "COMMAND" \in CommandStates
  BY DEF MostImportant, CommandStates
<1> QED
  BY <1>3, <1>4, <1>5, <1>6, ShortEnough

\* A segment of the native hook is a command of the reference, except that one
\* with nothing but wrappers counts as a command of its own.
LEMMA SameSegment ==
    ASSUME NEW s \in Seq(Word)
    PROVE  /\ ClassifySegment(s) =
                  IF Unwrapped(s) = <<>> THEN "COMMAND" ELSE OfCommand(Unwrapped(s))
           /\ ClassifySegment(s) \in CommandStates
<1> DEFINE c == Unwrapped(s)
<1>1. c \in Seq(Word)
  BY ProgramTyped DEF Unwrapped
<1>2. ClassifySegment(s) =
          IF ScriptAt(c) # 0 THEN NestedShell(Script(c[ScriptAt(c)]))
          ELSE ProgramState(c)
  BY SameProgram DEF ClassifySegment
<1> HIDE DEF c
<1>3. CASE c = <<>>
  <2>1. ScriptAt(c) = 0
    <3>1. {i \in 2..(Len(c) - 1) : Is(c[i], {"-c", "-lc"})} = {}
      BY <1>3
    <3> QED
      BY <3>1 DEF ScriptAt
  <2>2. ProgramState(c) = "COMMAND"
    BY <1>3 DEF ProgramState
  <2> QED
    BY <1>2, <1>3, <2>1, <2>2 DEF c, CommandStates
<1>4. CASE c # <<>> /\ Stem(Head(c)) \in Shells /\ FlagAt(c) \in 1..(Len(c) - 2)
  <2>1. ScriptAt(c) = FlagAt(c) + 2 /\ FlagAt(c) + 2 # 0 /\ FlagAt(c) + 2 \in 1..Len(c)
    BY <1>1, <1>4, SameScript, LenProperties
  <2>2. Script(c[FlagAt(c) + 2]) \in Seq(Word) /\ Len(Script(c[FlagAt(c) + 2])) <= TokenLimit
    <3>1. PICK v \in Word : v = c[FlagAt(c) + 2]
      BY <1>1, <2>1, ElementOfSeq
    <3>2. Script(v) \in Seq(Word) /\ 2 * Len(Script(v)) + 2 <= TokenLimit
      BY LexiconAssumption, LimitAssumption DEF Script
    <3>3. Len(Script(v)) \in Nat /\ TokenLimit \in Nat
      BY <3>2, LenProperties, LimitAssumption
    <3>4. Len(Script(v)) <= TokenLimit
      BY <3>2, <3>3
    <3> QED
      BY <3>1, <3>2, <3>4
  <2>3. ClassifySegment(s) = ClassifyScript(Script(c[FlagAt(c) + 2]))
    BY <1>2, <2>1, <2>2, SameNested
  <2>4. ClassifySegment(s) \in CommandStates
    BY <2>2, <2>3, SameNested
  <2> QED
    BY <1>4, <2>3, <2>4 DEF OfCommand, c
<1>5. CASE c # <<>> /\ ~(Stem(Head(c)) \in Shells /\ FlagAt(c) \in 1..(Len(c) - 2))
  <2>1. ScriptAt(c) = 0
    BY <1>1, <1>5, SameScript
  <2>2. ProgramState(c) = StateOf(c) /\ ProgramState(c) \in CommandStates
    BY <1>1, <1>5, SameState
  <2> QED
    BY <1>2, <1>5, <2>1, <2>2 DEF OfCommand, c
<1> QED
  BY <1>3, <1>4, <1>5

\* What classify_shell shows: the most important state of a segment.
LEMMA ShellIs ==
    ASSUME NEW w \in Seq(Word)
    PROVE  ClassifyShell(w) =
               IF GivesUp(w) THEN "COMMAND"
               ELSE MostImportant({ClassifySegment(s) : s \in Segments(w)})
<1> DEFINE n == Len(w) + 1
           E == Ends(w, BareBoundaries(w))
           states == [j \in 1..n |->
               IF j \in E THEN ClassifySegment(SegmentTo(j, w, BareBoundaries(w)))
               ELSE "COMMAND"]
<1>1. ClassifyShell(w) = IF GivesUp(w) THEN "COMMAND"
                         ELSE Reading(Observing, "COMMAND", states)[n]
  BY TokensAre DEF ClassifyShell, ShellState
<1>2. n \in Nat /\ E \in SUBSET (1..n)
  BY CutsAre
<1>3. \A s \in Segments(w) : ClassifySegment(s) \in CommandStates
  BY SegmentsAre, SameSegment
<1>4. \A j \in E : SegmentTo(j, w, BareBoundaries(w)) \in Segments(w)
  BY SegmentsAre
<1>5. states \in [1..n -> CommandStates] /\ \A j \in (1..n) \ E : states[j] = "COMMAND"
  BY <1>3, <1>4 DEF CommandStates
<1>6. {states[j] : j \in E} = {ClassifySegment(s) : s \in Segments(w)}
  <2>1. \A j \in E : states[j] = ClassifySegment(SegmentTo(j, w, BareBoundaries(w)))
    BY <1>2
  <2> HIDE DEF states
  <2> QED
    BY <2>1, SegmentsAre
<1> HIDE DEF n, E, states
<1>7. Reading(Observing, "COMMAND", states)[n] = MostImportant({states[j] : j \in E})
  BY <1>2, <1>5, LoopOverEnds
<1> QED
  BY <1>1, <1>6, <1>7

\* Both programs classify every command alike,
LEMMA SameCommand ==
    ASSUME NEW w \in Seq(Word), Len(w) <= TokenLimit
    PROVE  ClassifyShell(w) = ClassifyBash(w)
<1> DEFINE A == {ClassifySegment(s) : s \in Segments(w)}
           C == {OfCommand(c) : c \in Commands(w)}
<1>1. ASSUME NEW s \in Segments(w)
      PROVE  ClassifySegment(s) =
                 IF Unwrapped(s) = <<>> THEN "COMMAND" ELSE OfCommand(Unwrapped(s))
  BY SegmentsAre, SameSegment
<1>2. A \ {"COMMAND"} = C \ {"COMMAND"}
  <2>1. ASSUME NEW x \in A, x # "COMMAND" PROVE x \in C
    <3>1. PICK s \in Segments(w) : x = ClassifySegment(s)
      OBVIOUS
    <3>2. Unwrapped(s) # <<>> /\ x = OfCommand(Unwrapped(s))
      BY <1>1, <2>1, <3>1
    <3>3. Unwrapped(s) \in Commands(w)
      BY <3>2 DEF Commands
    <3> QED
      BY <3>2, <3>3
  <2>2. ASSUME NEW x \in C PROVE x \in A
    <3>1. PICK c \in Commands(w) : x = OfCommand(c)
      OBVIOUS
    <3>2. PICK s \in Segments(w) : c = Unwrapped(s) /\ c # <<>>
      BY DEF Commands
    <3>3. x = ClassifySegment(s)
      BY <1>1, <3>1, <3>2
    <3> QED
      BY <3>3
  <2> HIDE DEF A, C
  <2> QED
    BY <2>1, <2>2
<1> HIDE DEF A, C
<1>3. MostImportant(A) = MostImportant(C)
  BY <1>2, CommandIsLeast
<1>4. ClassifyShell(w) = IF GivesUp(w) THEN "COMMAND"
                         ELSE MostImportant(A)
  BY ShellIs DEF A
<1>5. ClassifyBash(w) = IF \E i \in DOMAIN w : Unclosed(w[i]) THEN "COMMAND"
                        ELSE MostImportant(C)
  BY BashIs, VerdictIs DEF C
<1> QED
  BY <1>3, <1>4, <1>5, ShortEnough

\* and one without a word is a COMMAND.
LEMMA NothingIsCommand == ClassifyBash(<<>>) = "COMMAND"
<1>1. <<>> \in Seq(Word) /\ Len(<<>>) = 0
  BY EmptySeq
<1>2. Boundaries(<<>>) = {}
  BY <1>1 DEF Boundaries
<1>3. Ends(<<>>, {}) = {1}
  BY <1>1 DEF Ends
<1>4. Segments(<<>>) = {SegmentTo(1, <<>>, {})}
  <2>1. Ends(<<>>, Boundaries(<<>>)) = {1}
    BY <1>2, <1>3
  <2>2. Segments(<<>>) = {SegmentTo(j, <<>>, {}) : j \in {1}}
    BY <1>2, <2>1 DEF Segments
  <2> QED
    BY <2>2
<1>5. SegmentTo(1, <<>>, {}) = <<>>
  <2>1. Start(1, {}) \in 1..1
    BY StartsBehindCut
  <2>2. SubSeq(<<>>, Start(1, {}), 0) = <<>>
    BY <2>1, SubSeqEmpty
  <2> QED
    BY <2>2, SegmentIs, 1 - 1 = 0
<1>6. Unwrapped(<<>>) = <<>>
  BY DEF Unwrapped, FromProgram
<1>7. Commands(<<>>) = {}
  BY <1>4, <1>5, <1>6 DEF Commands
<1> QED
  BY <1>7, BashIs DEF Verdict

\* The command of an invocation fits into the array of tokens, and so does a
\* whole one behind a wrapper.
LEMMA CommandFits ==
    ASSUME InvocationInv
    PROVE  /\ Len(command) \in Nat /\ Len(command) <= TokenLimit
           /\ Plainly => Len(command) + 3 <= TokenLimit
<1>1. Len(command) <= IF Plainly THEN MaxWords ELSE 2
  BY DEF InvocationInv
<1>2. /\ Len(command) \in Nat /\ MaxWords \in Nat /\ TokenLimit \in Nat
      /\ MaxWords + 3 <= TokenLimit
  BY LenProperties, LimitAssumption DEF InvocationInv
<1>3. 2 <= TokenLimit
  <2>1. 2 * Len(Script(Newline)) + 2 <= TokenLimit /\ Len(Script(Newline)) \in Nat
    BY NewlineAssumption, LexiconAssumption, LimitAssumption, LenProperties DEF Script
  <2> QED
    BY <1>2, <2>1
<1> QED
  BY <1>1, <1>2, <1>3

\* The native hook classifies a tool call as the reference does: for every tool
\* name, form of input and sequence of words that the assumptions of
\* HookClassifiers allow, classify_tool of hook.c gives the state that
\* classify_tool of classify.py gives.  They allow no separator that is quoted
\* or escaped, no backslash in double quotes and no command with more words and
\* separating characters than fit into the array of tokens.
THEOREM NativeAlwaysMatches == Spec => []NativeMatchesReference
<1>1. InvocationInv => NativeMatchesReference
  <2> SUFFICES ASSUME InvocationInv PROVE NativeMatchesReference
    OBVIOUS
  <2>1. tool \in Tools /\ input \in Inputs /\ command \in Seq(Word)
    BY DEF InvocationInv
  <2>2. ClassifyShell(command) = ClassifyBash(command)
    BY <2>1, CommandFits, SameCommand
  <2>3. CommandValue(input) = "list" =>
            ClassifyShell(JoinLines(command)) = ClassifyBash(JoinLines(command))
    <3> SUFFICES ASSUME CommandValue(input) = "list"
                 PROVE  ClassifyShell(JoinLines(command)) = ClassifyBash(JoinLines(command))
      OBVIOUS
    <3>1. ~Plainly
      <4>1. input = [form |-> "text"] => CommandValue(input) = "text"
        BY DEF CommandValue
      <4> QED
        BY <4>1 DEF Plainly
    <3>2. Len(command) <= 2
      BY <3>1 DEF InvocationInv
    <3> QED
      BY <2>1, <3>2, JoinedLines, SameCommand
  <2>4. (CASE CommandValue(input) = "text" -> ClassifyShell(command)
           [] CommandValue(input) = "list" -> ClassifyShell(JoinLines(command))
           [] OTHER -> "COMMAND")
        = ClassifyBash(CommandOf(CommandForm(input), command))
    BY <2>1, <2>2, <2>3, SameInput, NothingIsCommand DEF CommandOf
  <2>5. ClassifyNamed(tool, input, command) =
            IF IsShellTool(tool) THEN ClassifyBash(CommandOf(CommandForm(input), command))
            ELSE IF IsWritingTool(tool) THEN "WRITING"
            ELSE IF IsReadingTool(tool) THEN "READING"
            ELSE IF IsAgentTool(tool) THEN "SUBAGENT" ELSE "COMMAND"
    BY <2>1, <2>4, SameShellTools, SameWritingTools, SameReadingTools, SameAgentTools
       DEF ClassifyNamed
  <2>6. ClassifyTool(tool, input, command) =
            IF IsShellTool(tool) THEN ClassifyBash(CommandOf(CommandForm(input), command))
            ELSE IF IsWritingTool(tool) THEN "WRITING"
            ELSE IF IsReadingTool(tool) THEN "READING"
            ELSE IF IsAgentTool(tool) THEN "SUBAGENT" ELSE "COMMAND"
    BY DEF ClassifyTool
  <2> QED
    BY <2>5, <2>6 DEF NativeMatchesReference, shown
<1> QED
  BY <1>1, InvocationIsTyped, PTL

-----------------------------------------------------------------------------

\* The start of a segment is the only position with these properties.
LEMMA StartIsUnique ==
    ASSUME NEW n \in Nat, NEW cuts \in SUBSET (1..n), NEW j \in 1..(n + 1), NEW s \in 1..j,
           s = 1 \/ s - 1 \in cuts, \A c \in cuts : c < j => c < s
    PROVE  s = Start(j, cuts)
<1>1. PICK t \in 1..j : t = Start(j, cuts)
  BY StartsBehindCut
<1>2. (t = 1 \/ t - 1 \in cuts) /\ \A c \in cuts : c < j => c < t
  BY <1>1, StartsBehindCut
<1>3. ~(s < t)
  <2>1. s < t => t - 1 \in cuts /\ t - 1 < j /\ ~(t - 1 < s)
    BY <1>2
  <2> QED
    BY <2>1
<1>4. ~(t < s)
  <2>1. t < s => s - 1 \in cuts /\ s - 1 < j /\ ~(s - 1 < t)
    OBVIOUS
  <2> QED
    BY <1>2, <2>1
<1> QED
  BY <1>1, <1>3, <1>4

\* Parts of two sequences that are the same, d positions apart.
LEMMA SamePart ==
    ASSUME NEW S, NEW v \in Seq(S), NEW w \in Seq(S), NEW d \in Nat,
           NEW a \in Nat \ {0}, NEW b \in Nat, b <= Len(v), d + b <= Len(w),
           \A k \in a..b : v[k] = w[d + k]
    PROVE  SubSeq(v, a, b) = SubSeq(w, d + a, d + b)
<1> DEFINE p == SubSeq(v, a, b)
           q == SubSeq(w, d + a, d + b)
<1>1. \A k \in a..b : v[k] \in S
  BY ElementOfSeq
<1>2. \A k \in (d + a)..(d + b) : w[k] \in S
  BY ElementOfSeq
<1>3. /\ p \in Seq(S) /\ Len(p) = (IF a <= b THEN b - a + 1 ELSE 0)
      /\ \A k \in 1..(b - a + 1) : p[k] = v[a + k - 1]
  BY <1>1, SubSeqProperties
<1>4. /\ q \in Seq(S)
      /\ Len(q) = (IF d + a <= d + b THEN (d + b) - (d + a) + 1 ELSE 0)
      /\ \A k \in 1..((d + b) - (d + a) + 1) : q[k] = w[(d + a) + k - 1]
  <2>1. d + a \in Int /\ d + b \in Int
    OBVIOUS
  <2> QED
    BY <1>2, <2>1, SubSeqProperties
<1> HIDE DEF p, q
<1>5. Len(p) = Len(q)
  BY <1>3, <1>4
<1>6. ASSUME NEW k \in 1..Len(p) PROVE p[k] = q[k]
  <2>1. k \in 1..(b - a + 1) /\ a <= b
    BY <1>3
  <2>2. k \in 1..((d + b) - (d + a) + 1) /\ (d + a) + k - 1 = d + (a + k - 1)
    BY <2>1
  <2>3. a + k - 1 \in a..b
    BY <2>1
  <2>4. p[k] = v[a + k - 1]
    BY <1>3, <2>1
  <2>5. q[k] = w[d + (a + k - 1)]
    BY <1>4, <2>2
  <2> QED
    BY <2>3, <2>4, <2>5
<1>7. p = q
  BY <1>3, <1>4, <1>5, <1>6, SeqEqual
<1> QED
  BY <1>7 DEF p, q

\* A separator divides the segments of a command in those before it and those
\* behind it.
LEMMA CutInTwo ==
    ASSUME NEW w \in Seq(Word), NEW i \in 1..Len(w), Bare(w[i])
    PROVE  LET before == SubSeq(w, 1, i - 1)
               after == SubSeq(w, i + 1, Len(w))
           IN  /\ before \in Seq(Word) /\ after \in Seq(Word)
               /\ \A k \in DOMAIN before : before[k] = w[k] /\ k \in DOMAIN w
               /\ \A k \in DOMAIN after : after[k] = w[i + k] /\ i + k \in DOMAIN w
               /\ Segments(w) = Segments(before) \cup Segments(after)
<1> DEFINE n == Len(w)
           before == SubSeq(w, 1, i - 1)
           after == SubSeq(w, i + 1, n)
           cuts == BareBoundaries(w)
           cb == BareBoundaries(before)
           ca == BareBoundaries(after)
<1>1. n \in Nat /\ DOMAIN w = 1..n /\ i \in 1..n /\ \A k \in 1..n : w[k] \in Word
  BY LenProperties, ElementOfSeq
<1>2. /\ before \in Seq(Word) /\ Len(before) = i - 1 /\ DOMAIN before = 1..(i - 1)
      /\ \A k \in 1..(i - 1) : before[k] = w[k]
  <2>1. /\ before \in Seq(Word) /\ Len(before) = (IF 1 <= i - 1 THEN i - 1 - 1 + 1 ELSE 0)
        /\ \A k \in 1..(i - 1 - 1 + 1) : before[k] = w[1 + k - 1]
    BY <1>1, SubSeqProperties
  <2>2. Len(before) = i - 1
    BY <1>1, <2>1
  <2>3. \A k \in 1..(i - 1) : k \in 1..(i - 1 - 1 + 1) /\ 1 + k - 1 = k
    BY <1>1
  <2>4. DOMAIN before = 1..(i - 1)
    BY <2>1, <2>2, LenProperties
  <2> HIDE DEF before
  <2> QED
    BY <2>1, <2>2, <2>3, <2>4
<1>3. /\ after \in Seq(Word) /\ Len(after) = n - i /\ DOMAIN after = 1..(n - i)
      /\ \A k \in 1..(n - i) : after[k] = w[i + k]
  <2>1. /\ after \in Seq(Word) /\ Len(after) = (IF i + 1 <= n THEN n - (i + 1) + 1 ELSE 0)
        /\ \A k \in 1..(n - (i + 1) + 1) : after[k] = w[i + 1 + k - 1]
    <3>1. i + 1 \in Int /\ n \in Int /\ \A k \in (i + 1)..n : w[k] \in Word
      BY <1>1
    <3> QED
      BY <3>1, SubSeqProperties
  <2> HIDE DEF after
  <2>2. Len(after) = n - i
    <3>1. CASE i + 1 <= n
      BY <1>1, <2>1, <3>1
    <3>2. CASE i = n
      BY <1>1, <2>1, <3>2
    <3>3. i + 1 <= n \/ i = n
      <4> HIDE DEF n
      <4> QED
        BY <1>1
    <3> QED
      BY <3>1, <3>2, <3>3
  <2>3. \A k \in 1..(n - i) : k \in 1..(n - (i + 1) + 1) /\ i + 1 + k - 1 = i + k
    BY <1>1
  <2>4. DOMAIN after = 1..(n - i)
    BY <2>1, <2>2, LenProperties
  <2> QED
    BY <2>1, <2>2, <2>3, <2>4
<1> HIDE DEF before, after
<1>4. i \in cuts /\ cuts \in SUBSET (1..n)
  BY <1>1 DEF BareBoundaries
<1>5. \A c : c \in cb <=> c \in cuts /\ c < i
  BY <1>1, <1>2 DEF BareBoundaries
<1>6. \A c \in Int : c \in ca <=> c >= 1 /\ i + c \in cuts
  BY <1>1, <1>3 DEF BareBoundaries
<1>7. /\ cb \in SUBSET (1..(i - 1)) /\ ca \in SUBSET (1..(n - i))
  BY <1>2, <1>3 DEF BareBoundaries
<1>8. /\ Segments(w) = {SegmentTo(j, w, cuts) : j \in cuts \cup {n + 1}}
      /\ Segments(before) = {SegmentTo(j, before, cb) : j \in cb \cup {i}}
      /\ Segments(after) = {SegmentTo(j, after, ca) : j \in ca \cup {n - i + 1}}
  <2>1. i - 1 + 1 = i
    BY <1>1
  <2> QED
    BY <1>2, <1>3, <2>1, SegmentsAre DEF Ends
<1> HIDE DEF cuts, cb, ca
<1>9. ASSUME NEW j \in cb \cup {i}
      PROVE  SegmentTo(j, before, cb) = SegmentTo(j, w, cuts)
  <2>1. j \in 1..i /\ i - 1 \in Nat /\ j \in 1..(i - 1 + 1) /\ j \in 1..(n + 1)
    BY <1>1, <1>7
  <2>2. PICK s \in 1..j : s = Start(j, cb)
    BY <1>7, <2>1, StartsBehindCut
  <2>3. (s = 1 \/ s - 1 \in cb) /\ \A c \in cb : c < j => c < s
    BY <1>7, <2>1, <2>2, StartsBehindCut
  <2>4. (s = 1 \/ s - 1 \in cuts) /\ \A c \in cuts : c < j => c < s
    BY <1>4, <1>5, <2>1, <2>3
  <2>5. s = Start(j, cuts)
    BY <1>1, <1>4, <2>1, <2>4, StartIsUnique
  <2>6. SubSeq(before, s, j - 1) = SubSeq(w, 0 + s, 0 + (j - 1))
    <3>1. s \in Nat \ {0} /\ j - 1 \in Nat /\ j - 1 <= i - 1 /\ 0 + (j - 1) <= n
      BY <1>1, <2>1
    <3>2. \A k \in s..(j - 1) : before[k] = w[0 + k]
      BY <1>1, <1>2, <2>1
    <3> QED
      BY <1>2, <3>1, <3>2, SamePart
  <2>7. 0 + s = s /\ 0 + (j - 1) = j - 1
    BY <2>1
  <2> QED
    BY <2>2, <2>5, <2>6, <2>7, SegmentIs
<1>10. ASSUME NEW j \in ca \cup {n - i + 1}
       PROVE  SegmentTo(j, after, ca) = SegmentTo(i + j, w, cuts)
  <2>1. j \in 1..(n - i + 1) /\ n - i \in Nat /\ i + j \in 1..(n + 1)
    BY <1>1, <1>7
  <2>2. PICK s \in 1..j : s = Start(j, ca)
    BY <1>7, <2>1, StartsBehindCut
  <2>3. (s = 1 \/ s - 1 \in ca) /\ \A c \in ca : c < j => c < s
    BY <1>7, <2>1, <2>2, StartsBehindCut
  <2>4. i + s \in 1..(i + j)
    BY <1>1, <2>1
  <2>5. i + s = 1 \/ (i + s) - 1 \in cuts
    <3>1. CASE s = 1
      <4>1. (i + s) - 1 = i
        BY <1>1, <3>1
      <4> QED
        BY <1>4, <4>1
    <3>2. CASE s # 1
      <4>1. s - 1 \in Int /\ i + (s - 1) = (i + s) - 1
        BY <1>1, <2>1
      <4>2. i + (s - 1) \in cuts
        BY <1>6, <2>3, <3>2, <4>1
      <4> QED
        BY <4>1, <4>2
    <3> QED
      BY <3>1, <3>2
  <2>6. ASSUME NEW c \in cuts, c < i + j PROVE c < i + s
    <3>1. c \in 1..n
      BY <1>4
    <3>2. CASE c <= i
      BY <1>1, <2>1, <3>1, <3>2
    <3>3. CASE c > i
      <4>1. c - i \in Int /\ c - i >= 1 /\ i + (c - i) = c /\ c - i < j
        BY <1>1, <2>1, <2>6, <3>1, <3>3
      <4>2. c - i \in ca
        BY <1>6, <4>1
      <4>3. c - i < s
        BY <2>3, <4>1, <4>2
      <4> QED
        BY <1>1, <2>1, <3>1, <4>3
    <3> QED
      BY <1>1, <3>1, <3>2, <3>3
  <2>7. i + s = Start(i + j, cuts)
    BY <1>1, <1>4, <2>1, <2>4, <2>5, <2>6, StartIsUnique
  <2>8. SubSeq(after, s, j - 1) = SubSeq(w, i + s, i + (j - 1))
    <3>1. /\ s \in Nat \ {0} /\ j - 1 \in Nat /\ j - 1 <= n - i /\ i + (j - 1) <= n
          /\ i \in Nat
      BY <1>1, <2>1
    <3>2. \A k \in s..(j - 1) : after[k] = w[i + k]
      BY <1>1, <1>3, <2>1
    <3> QED
      BY <1>3, <3>1, <3>2, SamePart
  <2>9. i + (j - 1) = (i + j) - 1
    BY <1>1, <2>1
  <2> QED
    BY <2>2, <2>7, <2>8, <2>9, SegmentIs
<1>11. ASSUME NEW j \in cuts \cup {n + 1}
       PROVE  j \in cb \cup {i} \/ (j - i \in ca \cup {n - i + 1} /\ i + (j - i) = j)
  <2>1. j \in 1..(n + 1)
    BY <1>1, <1>4
  <2>2. i + (j - i) = j /\ j - i \in Int /\ (j = n + 1 => j - i = n - i + 1)
    BY <1>1, <2>1
  <2>3. j < i \/ j = i \/ j - i >= 1
    BY <1>1, <2>1
  <2>4. CASE j = n + 1
    BY <2>2, <2>4
  <2>5. CASE j \in cuts
    BY <1>5, <1>6, <2>2, <2>3, <2>5
  <2> QED
    BY <2>4, <2>5
<1>12. \A j \in cb \cup {i} : j \in cuts \cup {n + 1}
  BY <1>4, <1>5
<1>13. \A j \in ca \cup {n - i + 1} : i + j \in cuts \cup {n + 1}
  <2>1. \A j \in ca : j \in Int
    BY <1>7
  <2>2. i + (n - i + 1) = n + 1
    BY <1>1
  <2> QED
    BY <1>6, <2>1, <2>2
<1>14. Segments(w) \subseteq Segments(before) \cup Segments(after)
  <2> SUFFICES ASSUME NEW j \in cuts \cup {n + 1}
               PROVE  SegmentTo(j, w, cuts) \in Segments(before) \cup Segments(after)
    BY <1>8
  <2>1. CASE j \in cb \cup {i}
    BY <1>8, <1>9, <2>1
  <2>2. CASE j - i \in ca \cup {n - i + 1} /\ i + (j - i) = j
    <3>1. SegmentTo(j - i, after, ca) = SegmentTo(j, w, cuts)
      BY <1>10, <2>2
    <3> QED
      BY <1>8, <2>2, <3>1
  <2> QED
    BY <1>11, <2>1, <2>2
<1>15. Segments(before) \cup Segments(after) \subseteq Segments(w)
  BY <1>8, <1>9, <1>10, <1>12, <1>13
<1>16. /\ \A k \in DOMAIN before : before[k] = w[k] /\ k \in DOMAIN w
       /\ \A k \in DOMAIN after : after[k] = w[i + k] /\ i + k \in DOMAIN w
  BY <1>1, <1>2, <1>3
<1> QED
  BY <1>2, <1>3, <1>14, <1>15, <1>16 DEF before, after

\* The most important state of two sets is that of one of them.
LEMMA ImportanceOfBoth ==
    ASSUME NEW A, NEW B
    PROVE  Importance[MostImportant(A \cup B)] =
               IF Importance[MostImportant(A)] > Importance[MostImportant(B)]
               THEN Importance[MostImportant(A)] ELSE Importance[MostImportant(B)]
BY DEF MostImportant, Importance

\* What `bash' with a command in a string is shown as.
LEMMA PlainlyShown ==
    ASSUME InvocationInv, Plainly
    PROVE  shown = ClassifyShell(command) /\ command \in Seq(Word)
<1>1. tool \in Tools /\ command \in Seq(Word)
  BY DEF InvocationInv
<1>2. IsShellTool(tool)
  BY DEF IsShellTool, Plainly
<1>3. CommandValue(input) = "text"
  BY DEF CommandValue, Plainly
<1>4. shown = ClassifyShell(command)
  BY <1>1, <1>2, <1>3, SameShellTools DEF shown, ClassifyNamed
<1> QED
  BY <1>1, <1>4

\* A compound command shows the most important activity of its parts, wherever
\* it is cut: at every separator, classify_shell of the whole is the more
\* important of classify_shell of what is before and of what is behind it, as
\* long as words and separating characters fit into the array of tokens.
THEOREM MostImportantAlwaysWins == Spec => []MostImportantWins
<1>1. InvocationInv => MostImportantWins
  <2> SUFFICES ASSUME InvocationInv, Plainly,
                      \A i \in DOMAIN command : ~Unclosed(command[i]),
                      NEW i \in DOMAIN command, Bare(command[i])
               PROVE  LET before == ClassifyShell(SubSeq(command, 1, i - 1))
                          after == ClassifyShell(SubSeq(command, i + 1, Len(command)))
                      IN  Importance[shown] =
                              IF Importance[before] > Importance[after]
                              THEN Importance[before] ELSE Importance[after]
    BY DEF MostImportantWins
  <2> DEFINE first == SubSeq(command, 1, i - 1)
             rest == SubSeq(command, i + 1, Len(command))
             States(segments) == {ClassifySegment(s) : s \in segments}
  <2>1. command \in Seq(Word) /\ shown = ClassifyShell(command) /\ i \in 1..Len(command)
    BY PlainlyShown, LenProperties
  <2>2. /\ first \in Seq(Word) /\ rest \in Seq(Word)
        /\ \A k \in DOMAIN first : first[k] = command[k] /\ k \in DOMAIN command
        /\ \A k \in DOMAIN rest : rest[k] = command[i + k] /\ i + k \in DOMAIN command
        /\ Segments(command) = Segments(first) \cup Segments(rest)
    BY <2>1, CutInTwo
  <2> HIDE DEF first, rest
  <2>3. /\ ClassifyShell(command) = MostImportant(States(Segments(command)))
        /\ ClassifyShell(first) = MostImportant(States(Segments(first)))
        /\ ClassifyShell(rest) = MostImportant(States(Segments(rest)))
    <3>1. \A k \in DOMAIN first : ~Unclosed(first[k])
      BY <2>2
    <3>2. \A k \in DOMAIN rest : ~Unclosed(rest[k])
      BY <2>2
    <3>3. Len(command) \in Nat /\ Len(command) <= TokenLimit /\ TokenLimit \in Nat
      BY CommandFits, LimitAssumption
    <3>4. Len(first) \in Nat /\ Len(first) <= Len(command)
      <4>1. Len(first) \in Nat /\ DOMAIN first = 1..Len(first) /\ DOMAIN command = 1..Len(command)
        BY <2>1, <2>2, LenProperties
      <4>2. Len(first) >= 1 => Len(first) \in 1..Len(command)
        BY <2>2, <4>1
      <4> QED
        BY <3>3, <4>1, <4>2
    <3>5. Len(rest) \in Nat /\ Len(rest) <= Len(command)
      <4>1. Len(rest) \in Nat /\ DOMAIN rest = 1..Len(rest) /\ DOMAIN command = 1..Len(command)
        BY <2>1, <2>2, LenProperties
      <4>2. Len(rest) >= 1 => i + Len(rest) \in 1..Len(command)
        BY <2>2, <4>1
      <4> QED
        BY <2>1, <3>3, <4>1, <4>2
    <3>6. Len(first) <= TokenLimit /\ Len(rest) <= TokenLimit
      BY <3>3, <3>4, <3>5
    <3>7. ~GivesUp(command) /\ ~GivesUp(first) /\ ~GivesUp(rest)
      BY <2>1, <2>2, <3>1, <3>2, <3>3, <3>6, ShortEnough
    <3> QED
      BY <2>1, <2>2, <3>7, ShellIs
  <2>4. States(Segments(command)) = States(Segments(first)) \cup States(Segments(rest))
    BY <2>2
  <2> HIDE DEF States
  <2>5. Importance[shown] =
            IF Importance[ClassifyShell(first)] > Importance[ClassifyShell(rest)]
            THEN Importance[ClassifyShell(first)] ELSE Importance[ClassifyShell(rest)]
    BY <2>1, <2>3, <2>4, ImportanceOfBoth
  <2> QED
    BY <2>5 DEF first, rest
<1> QED
  BY <1>1, InvocationIsTyped, PTL

-----------------------------------------------------------------------------

\* A reading of two sequences one behind the other goes on, in the second,
\* from the state it has reached, once both agree.
LEMMA ReadingGoesOn ==
    ASSUME NEW step, NEW start, NEW p \in Seq(Word), NEW s \in Seq(Word),
           LET long == Reading(step, start, p \o s)
               short == Reading(step, start, s)
           IN  Len(s) >= 1 => long[Len(p) + 1] = short[1]
    PROVE  \A i \in 1..Len(s) :
               Reading(step, start, p \o s)[Len(p) + i] = Reading(step, start, s)[i]
<1> DEFINE n == Len(p)
           m == Len(s)
           long == Reading(step, start, p \o s)
           short == Reading(step, start, s)
           T == {0} \cup {i \in 1..m : long[n + i] = short[i]}
<1>1. n \in Nat /\ m \in Nat /\ p \o s \in Seq(Word) /\ Len(p \o s) = n + m
  BY ConcatProperties, LenProperties
<1>2. \A i \in 1..m : (p \o s)[n + i] = s[i]
  <2> TAKE i \in 1..m
  <2>1. n + i \in 1..(n + m) /\ ~(n + i <= n) /\ (n + i) - n = i
    BY <1>1
  <2> QED
    BY <2>1, ConcatProperties
<1>3. \A i \in 1..(n + m) : long[i] = step[(p \o s)[i]][long[i - 1]]
  <2>1. Len(p \o s) \in Nat
    BY <1>1, LenProperties
  <2>2. Reads(long, step, start, p \o s, Len(p \o s))
    BY <2>1, ReadingReads
  <2> HIDE DEF long, n, m
  <2> QED
    BY <1>1, <2>2 DEF Reads
<1>4. \A i \in 1..m : short[i] = step[s[i]][short[i - 1]]
  BY <1>1, ReadingReads DEF Reads
<1> HIDE DEF long, short, n, m
<1>5. ASSUME NEW i \in 1..m, i - 1 \in T PROVE i \in T
  <2>1. CASE i = 1
    BY <1>1, <2>1 DEF long, short, n, m
  <2>2. CASE i # 1
    <3>1. i - 1 \in 1..m /\ n + i \in 1..(n + m) /\ (n + i) - 1 = n + (i - 1)
      BY <1>1, <2>2
    <3>2. long[n + (i - 1)] = short[i - 1]
      BY <1>5, <3>1
    <3>3. long[n + i] = step[s[i]][long[n + (i - 1)]]
      BY <1>2, <1>3, <3>1
    <3> QED
      BY <1>4, <3>2, <3>3
  <2> QED
    BY <2>1, <2>2
<1>6. 0 \in T
  OBVIOUS
<1> HIDE DEF T
<1>7. 0..m \subseteq T
  BY <1>1, <1>5, <1>6, Induction
<1>8. \A i \in 1..m : long[n + i] = short[i]
  BY <1>1, <1>7 DEF T
<1> QED
  BY <1>8 DEF long, short, n, m

\* The words before the program that are only about how it is run.
Wrappers ==
    {<<"sudo">>, <<"env">>, <<"time">>, <<"sudo", "-u", "run">>, <<"env", "A=1">>}

\* What the scan does with the words of the wrappers, whatever else they are
\* assumed to be.
LEMMA StepsOfWrappers ==
    ASSUME NEW w \in Word
    PROVE  /\ w \in {"sudo", "env", "time", "-u", "run", "A=1"} => ~Bare(w) /\ ~Unclosed(w)
           /\ w = "sudo" => Skip[w]["assignments"] = "sudo"
           /\ w = "env" => Skip[w]["assignments"] = "env"
           /\ w = "time" => Skip[w]["assignments"] = "options"
           /\ w = "-u" => Skip[w]["sudo"] = "value"
           /\ Skip[w]["value"] = "sudo"
           /\ w = "A=1" => Skip[w]["env"] = "env"
<1>1. w \in {"sudo", "env", "time", "-u", "run", "A=1"} => ~Bare(w) /\ ~Unclosed(w)
  BY WrapperAssumption
<1>2. w \in {"sudo", "env", "time"} => File(w) = w /\ ~Assigns(w)
  BY WrapperAssumption
<1>3. w = "-u" => IsOption(w) /\ Lower(w) = w
  BY WrapperAssumption
<1>4. w = "A=1" => Assigns(w)
  BY WrapperAssumption
<1>5. w \in {"sudo", "env", "time"} =>
          Skip[w]["assignments"] = IF w = "sudo" THEN "sudo" ELSE IF w = "env" THEN "env"
                                   ELSE "options"
  BY <1>2 DEF Skip, Modes, IsFile
<1>6. w = "-u" => Skip[w]["sudo"] = "value"
  BY <1>3 DEF Skip, Modes, AfterSudoOption, Is, SudoValueOptions
<1>7. Skip[w]["value"] = "sudo"
  BY DEF Skip, Modes
<1>8. w = "A=1" => Skip[w]["env"] = "env"
  BY <1>4 DEF Skip, Modes
<1> QED
  BY <1>1, <1>5, <1>6, <1>7, <1>8

\* A scan ends a wrapper where it would go on with another.
LEMMA WrappersAre ==
    ASSUME NEW p \in Wrappers, ToSet(p) \subseteq Word
    PROVE  /\ p \in Seq(Word) /\ Len(p) \in 1..3
           /\ \A i \in 1..Len(p) : ~Bare(p[i]) /\ ~Unclosed(p[i])
           /\ \A s \in Seq(Word) :
                  /\ \A i \in 1..Len(p) :
                         Reading(Skip, "assignments", p \o s)[i] # "program"
                  /\ Reading(Skip, "assignments", p \o s)[Len(p)]
                         \in {"sudo", "env", "options"}
<1>1. \A i \in DOMAIN p : p[i] \in Word
  BY DEF ToSet
<1>2. /\ p \in Seq(Word) /\ Len(p) \in 1..3
      /\ \A i \in 1..Len(p) : p[i] \in {"sudo", "env", "time", "-u", "run", "A=1"}
  <2>1. CASE p \in {<<"sudo">>, <<"env">>, <<"time">>}
    BY <1>1, <2>1
  <2>2. CASE p = <<"env", "A=1">>
    BY <1>1, <2>2
  <2>3. CASE p = <<"sudo", "-u", "run">>
    BY <1>1, <2>3
  <2> QED
    BY <2>1, <2>2, <2>3 DEF Wrappers
<1>3. \A i \in 1..Len(p) : ~Bare(p[i]) /\ ~Unclosed(p[i])
  BY <1>1, <1>2, StepsOfWrappers, LenProperties
<1>4. ASSUME NEW s \in Seq(Word)
      PROVE  /\ \A i \in 1..Len(p) :
                    Reading(Skip, "assignments", p \o s)[i] # "program"
             /\ Reading(Skip, "assignments", p \o s)[Len(p)]
                    \in {"sudo", "env", "options"}
  <2> DEFINE mode == Reading(Skip, "assignments", p \o s)
  <2>1. /\ p \o s \in Seq(Word) /\ Len(p \o s) \in Nat /\ Len(p) <= Len(p \o s)
        /\ \A i \in 1..Len(p) : (p \o s)[i] = p[i]
    BY <1>2, ConcatProperties, LenProperties
  <2>2. /\ mode[0] = "assignments"
        /\ \A i \in 1..Len(p \o s) : mode[i] = Skip[(p \o s)[i]][mode[i - 1]]
    <3>1. Reads(mode, Skip, "assignments", p \o s, Len(p \o s))
      BY <2>1, ReadingReads
    <3> HIDE DEF mode
    <3> QED
      BY <3>1 DEF Reads
  <2> HIDE DEF mode
  <2>3. \A i \in 1..Len(p) : mode[i] = Skip[p[i]][mode[i - 1]] /\ p[i] \in Word
    BY <1>2, <2>1, <2>2, ElementOfSeq
  <2>4. CASE p \in {<<"sudo">>, <<"env">>, <<"time">>}
    <3>1. Len(p) = 1 /\ 1 \in 1..1 /\ 1 - 1 = 0 /\ p[1] \in {"sudo", "env", "time"}
      BY <2>4
    <3>2. p[1] \in Word /\ mode[1] = Skip[p[1]]["assignments"]
      BY <2>2, <2>3, <3>1
    <3>3. mode[1] \in {"sudo", "env", "options"}
      BY <3>1, <3>2, StepsOfWrappers
    <3>4. \A i \in 1..1 : mode[i] # "program"
      BY <3>3
    <3> QED
      BY <3>1, <3>3, <3>4 DEF mode
  <2>5. CASE p = <<"env", "A=1">>
    <3>1. Len(p) = 2 /\ 1 \in 1..2 /\ 2 \in 1..2 /\ 1 - 1 = 0 /\ 2 - 1 = 1
          /\ p[1] = "env" /\ p[2] = "A=1"
      BY <2>5
    <3>2. p[1] \in Word /\ p[2] \in Word /\ mode[1] = Skip[p[1]]["assignments"]
          /\ mode[2] = Skip[p[2]][mode[1]]
      BY <2>2, <2>3, <3>1
    <3>3. mode[1] = "env" /\ mode[2] = "env"
      BY <3>1, <3>2, StepsOfWrappers
    <3>4. \A i \in 1..2 : mode[i] # "program"
      <4>1. 1..2 = {1, 2}
        OBVIOUS
      <4> QED
        BY <3>3, <4>1
    <3> QED
      BY <3>1, <3>3, <3>4 DEF mode
  <2>6. CASE p = <<"sudo", "-u", "run">>
    <3>1. Len(p) = 3 /\ 1 \in 1..3 /\ 2 \in 1..3 /\ 3 \in 1..3
          /\ 1 - 1 = 0 /\ 2 - 1 = 1 /\ 3 - 1 = 2
          /\ p[1] = "sudo" /\ p[2] = "-u" /\ p[3] = "run"
      BY <2>6
    <3>2. p[1] \in Word /\ p[2] \in Word /\ p[3] \in Word
          /\ mode[1] = Skip[p[1]]["assignments"]
          /\ mode[2] = Skip[p[2]][mode[1]] /\ mode[3] = Skip[p[3]][mode[2]]
      BY <2>2, <2>3, <3>1
    <3>3. mode[1] = "sudo" /\ mode[2] = "value" /\ mode[3] = "sudo"
      BY <3>1, <3>2, StepsOfWrappers
    <3>4. \A i \in 1..3 : mode[i] # "program"
      <4>1. 1..3 = {1, 2, 3}
        OBVIOUS
      <4> QED
        BY <3>3, <4>1
    <3> QED
      BY <3>1, <3>3, <3>4 DEF mode
  <2> QED
    BY <2>4, <2>5, <2>6 DEF Wrappers
<1> QED
  BY <1>2, <1>3, <1>4

\* A word that is neither an option nor an assignment is read behind a wrapper
\* as at the beginning.
LEMMA StepAfterWrapper ==
    ASSUME NEW w \in Word, ~IsOption(w), ~Assigns(w), NEW mode \in {"sudo", "env", "options"}
    PROVE  Skip[w][mode] = Skip[w]["assignments"]
BY DEF Skip, Modes

\* Behind a wrapper the scan finds the same program.
LEMMA WrapperIsSkipped ==
    ASSUME NEW p \in Wrappers, ToSet(p) \subseteq Word, NEW s \in Seq(Word),
           s # <<>> => ~IsOption(s[1]) /\ ~Assigns(s[1])
    PROVE  SkipWrappers(p \o s) = SkipWrappers(s)
<1> DEFINE n == Len(p)
           m == Len(s)
           v == p \o s
           long == Reading(Skip, "assignments", v)
           short == Reading(Skip, "assignments", s)
           reached == {i \in 1..m : short[i] = "program"}
           reachedLong == {i \in 1..(n + m) : long[i] = "program"}
<1>1. /\ n \in Nat /\ n >= 1 /\ m \in Nat /\ v \in Seq(Word) /\ Len(v) = n + m
      /\ p \in Seq(Word)
      /\ DOMAIN s = 1..m /\ DOMAIN v = 1..(n + m)
  <2>1. p \in Seq(Word) /\ Len(p) \in 1..3
    BY WrappersAre
  <2>2. v \in Seq(Word) /\ Len(v) = n + m
    BY <2>1, ConcatProperties
  <2>3. DOMAIN s = 1..m /\ m \in Nat
    BY LenProperties
  <2>4. n \in Nat /\ n >= 1
    <3>1. PICK k \in 1..3 : k = n
      BY <2>1
    <3> QED
      BY <3>1
  <2> HIDE DEF v, n, m
  <2>5. DOMAIN v = 1..(n + m)
    BY <2>2, LenProperties
  <2> QED
    BY <2>1, <2>2, <2>3, <2>4, <2>5
<1>2. (\A i \in 1..n : long[i] # "program") /\ long[n] \in {"sudo", "env", "options"}
  BY WrappersAre
<1>3. \A i \in 1..m : v[n + i] = s[i]
  <2> TAKE i \in 1..m
  <2>1. n + i \in 1..(n + m) /\ ~(n + i <= n) /\ (n + i) - n = i
    BY <1>1
  <2> QED
    BY <1>1, <2>1, ConcatProperties
<1>4. ASSUME m >= 1 PROVE long[n + 1] = short[1]
  <2>1. 1 \in 1..m /\ n + 1 \in 1..(n + m) /\ (n + 1) - 1 = n /\ 1 - 1 = 0
    BY <1>1, <1>4
  <2>2. s[1] \in Word /\ ~IsOption(s[1]) /\ ~Assigns(s[1])
    BY <2>1, ElementOfSeq, EmptySeq
  <2>3. long[n + 1] = Skip[v[n + 1]][long[n]]
    <3>1. Len(v) \in Nat
      BY <1>1, LenProperties
    <3>2. Reads(long, Skip, "assignments", v, Len(v))
      BY <3>1, ReadingReads
    <3> HIDE DEF long, v, n, m
    <3> QED
      BY <1>1, <2>1, <3>2 DEF Reads
  <2>4. short[1] = Skip[s[1]]["assignments"]
    BY <1>1, <2>1, ReadingReads DEF Reads
  <2>5. v[n + 1] = s[1]
    BY <1>3, <2>1
  <2> HIDE DEF long, short, v, n
  <2> QED
    BY <1>2, <2>2, <2>3, <2>4, <2>5, StepAfterWrapper
<1>5. \A i \in 1..m : long[n + i] = short[i]
  BY <1>1, <1>4, ReadingGoesOn
<1>6. /\ SkipWrappers(s) =
             IF reached = {} THEN <<>> ELSE SubSeq(s, Min(reached), m)
      /\ SkipWrappers(v) =
             IF reachedLong = {} THEN <<>> ELSE SubSeq(v, Min(reachedLong), n + m)
  BY <1>1 DEF SkipWrappers, FromProgram
<1> HIDE DEF long, short, v, n, m
<1>7. \A i \in reached : n + i \in reachedLong
  BY <1>1, <1>5
<1>8. ASSUME NEW k \in reachedLong
      PROVE  k - n \in reached /\ k = n + (k - n)
  <2>1. k \in 1..(n + m) /\ long[k] = "program"
    OBVIOUS
  <2>2. ~(k <= n)
    BY <1>1, <1>2, <2>1
  <2>3. k - n \in 1..m /\ k = n + (k - n)
    BY <1>1, <2>1, <2>2
  <2> QED
    BY <1>5, <2>1, <2>3
<1>9. reached \subseteq 1..m /\ reachedLong \subseteq 1..(n + m)
  OBVIOUS
<1> HIDE DEF reached, reachedLong
<1>10. CASE reached = {}
  <2>1. reachedLong = {}
    BY <1>8, <1>10
  <2> QED
    BY <1>6, <1>10, <2>1 DEF v
<1>11. CASE reached # {}
  <2>1. reachedLong # {} /\ reached \subseteq Nat /\ reachedLong \subseteq Nat
    <3>1. 1..m \subseteq Nat /\ 1..(n + m) \subseteq Nat
      BY <1>1
    <3> QED
      BY <1>7, <1>9, <1>11, <3>1
  <2>2. PICK a \in reached : a = Min(reached) /\ \A i \in reached : a <= i
    BY <1>11, <2>1, MinIs
  <2>3. PICK b \in reachedLong : b = Min(reachedLong) /\ \A i \in reachedLong : b <= i
    BY <2>1, MinIs
  <2>4. a \in 1..m /\ b \in 1..(n + m)
    BY <1>9
  <2>5. b <= n + a /\ a <= b - n
    BY <1>7, <1>8, <2>2, <2>3
  <2>6. b = n + a
    BY <1>1, <2>4, <2>5
  <2>7. SubSeq(s, a, m) = SubSeq(v, n + a, n + m)
    <3>1. /\ a \in Nat \ {0} /\ m \in Nat /\ m <= Len(s) /\ n + m <= Len(v)
          /\ \A i \in a..m : s[i] = v[n + i]
      BY <1>1, <1>3, <2>4 DEF m
    <3> QED
      BY <1>1, <3>1, SamePart
  <2> QED
    BY <1>6, <1>11, <2>1, <2>2, <2>3, <2>6, <2>7 DEF v
<1> QED
  BY <1>10, <1>11

\* The first words of a command are those of the command.
LEMMA Beginning ==
    ASSUME NEW s \in Seq(Word), NEW b \in Nat, b <= Len(s)
    PROVE  /\ SubSeq(s, 1, b) \in Seq(Word) /\ Len(SubSeq(s, 1, b)) = b
           /\ \A i \in 1..b : SubSeq(s, 1, b)[i] = s[i]
<1>1. \A i \in 1..b : s[i] \in Word
  BY ElementOfSeq
<1>2. b \in Int /\ b - 1 + 1 = b /\ (1 <= b \/ b = 0)
  OBVIOUS
<1>3. /\ SubSeq(s, 1, b) \in Seq(Word)
      /\ Len(SubSeq(s, 1, b)) = (IF 1 <= b THEN b - 1 + 1 ELSE 0)
      /\ \A i \in 1..(b - 1 + 1) : SubSeq(s, 1, b)[i] = s[1 + i - 1]
  BY <1>1, <1>2, SubSeqProperties
<1>4. \A i \in 1..b : 1 + i - 1 = i
  OBVIOUS
<1> DEFINE t == SubSeq(s, 1, b)
<1>5. Len(t) = b
  BY <1>2, <1>3
<1> HIDE DEF t
<1>6. \A i \in 1..b : t[i] = s[i]
  BY <1>2, <1>3, <1>4 DEF t
<1> QED
  BY <1>3, <1>5, <1>6 DEF t

\* The segments of the command behind a wrapper: the first has the wrapper
\* before it.
LEMMA WrappedSegments ==
    ASSUME NEW p \in Wrappers, ToSet(p) \subseteq Word, NEW w \in Seq(Word)
    PROVE  LET n == Len(p)
               v == p \o w
               cuts == BareBoundaries(w)
           IN  /\ v \in Seq(Word)
               /\ (\E i \in DOMAIN v : Unclosed(v[i])) <=> \E i \in DOMAIN w : Unclosed(w[i])
               /\ Ends(v, BareBoundaries(v)) = {n + j : j \in Ends(w, cuts)}
               /\ \A j \in Ends(w, cuts) :
                      SegmentTo(n + j, v, BareBoundaries(v)) =
                          IF Start(j, cuts) = 1 THEN p \o SegmentTo(j, w, cuts)
                          ELSE SegmentTo(j, w, cuts)
<1> DEFINE n == Len(p)
           m == Len(w)
           v == p \o w
           cuts == BareBoundaries(w)
           cv == BareBoundaries(v)
<1>1. /\ n \in Nat /\ n >= 1 /\ m \in Nat /\ v \in Seq(Word) /\ Len(v) = n + m
      /\ p \in Seq(Word)
      /\ DOMAIN w = 1..m /\ DOMAIN v = 1..(n + m)
  <2>1. p \in Seq(Word) /\ Len(p) \in 1..3
    BY WrappersAre
  <2>2. v \in Seq(Word) /\ Len(v) = n + m
    BY <2>1, ConcatProperties
  <2>3. DOMAIN w = 1..m /\ m \in Nat
    BY LenProperties
  <2>4. n \in Nat /\ n >= 1
    <3>1. PICK k \in 1..3 : k = n
      BY <2>1
    <3> QED
      BY <3>1
  <2> HIDE DEF v, n, m
  <2>5. DOMAIN v = 1..(n + m)
    BY <2>2, LenProperties
  <2> QED
    BY <2>1, <2>2, <2>3, <2>4, <2>5
<1>2. (\A i \in 1..n : v[i] = p[i]) /\ \A i \in 1..m : v[n + i] = w[i]
  <2>1. \A i \in 1..n : i \in 1..(n + m) /\ i <= n
    BY <1>1
  <2>2. \A i \in 1..m : n + i \in 1..(n + m) /\ ~(n + i <= n) /\ (n + i) - n = i
    BY <1>1
  <2>3. \A i \in 1..(n + m) : v[i] = IF i <= n THEN p[i] ELSE w[i - n]
    BY <1>1, ConcatProperties
  <2> HIDE DEF v
  <2> QED
    BY <2>1, <2>2, <2>3
<1>3. \A i \in 1..n : ~Bare(p[i]) /\ ~Unclosed(p[i])
  BY WrappersAre
<1> HIDE DEF v, n, m
<1>4. ASSUME NEW k \in 1..(n + m)
      PROVE  k \in 1..n \/ (k - n \in 1..m /\ k = n + (k - n))
  BY <1>1
<1>5. \A i \in 1..m : n + i \in 1..(n + m)
  BY <1>1
<1>6. (\E i \in DOMAIN v : Unclosed(v[i])) <=> \E i \in DOMAIN w : Unclosed(w[i])
  <2>1. ASSUME NEW k \in 1..(n + m), Unclosed(v[k])
        PROVE  \E i \in 1..m : Unclosed(w[i])
    <3>1. k - n \in 1..m /\ k = n + (k - n)
      BY <1>2, <1>3, <1>4, <2>1
    <3>2. v[k] = w[k - n]
      BY <1>2, <3>1
    <3> QED
      BY <2>1, <3>1, <3>2
  <2>2. ASSUME NEW i \in 1..m, Unclosed(w[i])
        PROVE  \E k \in 1..(n + m) : Unclosed(v[k])
    BY <1>2, <1>5, <2>2
  <2> QED
    BY <1>1, <2>1, <2>2
<1>7. \A k \in cv : k - n \in cuts /\ k = n + (k - n) /\ k \in 1..(n + m)
  <2> SUFFICES ASSUME NEW k \in cv
               PROVE  k - n \in cuts /\ k = n + (k - n) /\ k \in 1..(n + m)
    OBVIOUS
  <2>1. k \in 1..(n + m) /\ Bare(v[k])
    BY <1>1 DEF BareBoundaries
  <2>2. k - n \in 1..m /\ k = n + (k - n)
    BY <1>2, <1>3, <1>4, <2>1
  <2>3. v[k] = w[k - n]
    BY <1>2, <2>2
  <2> QED
    BY <1>1, <2>1, <2>2, <2>3 DEF BareBoundaries
<1>8. \A c \in cuts : c \in 1..m /\ n + c \in cv
  BY <1>1, <1>2, <1>5 DEF BareBoundaries
<1>9. Ends(v, cv) = cv \cup {n + m + 1} /\ Ends(w, cuts) = cuts \cup {m + 1}
  BY <1>1 DEF Ends, m
<1> HIDE DEF cuts, cv
<1>10. Ends(v, cv) = {n + j : j \in Ends(w, cuts)}
  <2>1. n + m + 1 = n + (m + 1)
    BY <1>1
  <2> QED
    BY <1>7, <1>8, <1>9, <2>1
<1>11. ASSUME NEW j \in Ends(w, cuts)
       PROVE  SegmentTo(n + j, v, cv) =
                  IF Start(j, cuts) = 1 THEN p \o SegmentTo(j, w, cuts)
                  ELSE SegmentTo(j, w, cuts)
  <2>1. j \in 1..(m + 1) /\ n + j \in 1..(n + m + 1) /\ n + m \in Nat
    BY <1>1, <1>8, <1>9
  <2>2. cuts \in SUBSET (1..m) /\ cv \in SUBSET (1..(n + m))
    BY <1>7, <1>8
  <2>3. PICK s \in 1..j : s = Start(j, cuts)
    BY <1>1, <2>1, <2>2, StartsBehindCut
  <2>4. (s = 1 \/ s - 1 \in cuts) /\ \A c \in cuts : c < j => c < s
    BY <1>1, <2>1, <2>2, <2>3, StartsBehindCut
  <2>5. \A k \in cv : k < n + j => k - n < s
    <3> SUFFICES ASSUME NEW k \in cv, k < n + j PROVE k - n < s
      OBVIOUS
    <3>1. k - n \in cuts /\ k \in 1..(n + m)
      BY <1>7
    <3>2. k - n < j
      BY <1>1, <2>1, <3>1
    <3> QED
      BY <2>4, <3>1, <3>2
  <2>6. CASE s = 1
    <3>1. \A k \in cv : k < n + j => k < 1
      <4> SUFFICES ASSUME NEW k \in cv, k < n + j PROVE FALSE
        OBVIOUS
      <4>1. k - n \in 1..m /\ k - n < 1
        BY <1>7, <1>8, <2>5, <2>6
      <4> QED
        BY <4>1
    <3>2. 1 = Start(n + j, cv)
      <4>1. 1 \in 1..(n + j)
        BY <2>1
      <4> QED
        BY <2>1, <2>2, <3>1, <4>1, StartIsUnique
    <3>3. SegmentTo(n + j, v, cv) = SubSeq(v, 1, (n + j) - 1)
      BY <3>2, SegmentIs
    <3>4. SegmentTo(j, w, cuts) = SubSeq(w, 1, j - 1)
      BY <2>3, <2>6, SegmentIs
    <3> DEFINE t == SubSeq(w, 1, j - 1)
               u == SubSeq(v, 1, (n + j) - 1)
    <3>5. t \in Seq(Word) /\ Len(t) = j - 1 /\ \A i \in 1..(j - 1) : t[i] = w[i]
      <4>1. j - 1 \in Nat /\ j - 1 <= Len(w)
        BY <1>1, <2>1 DEF m
      <4> QED
        BY <4>1, Beginning
    <3>6. /\ u \in Seq(Word) /\ Len(u) = n + j - 1
          /\ \A i \in 1..(n + j - 1) : u[i] = v[i]
      <4>1. PICK b \in Nat : b = n + j - 1 /\ b <= Len(v)
        BY <1>1, <2>1
      <4>2. /\ SubSeq(v, 1, b) \in Seq(Word) /\ Len(SubSeq(v, 1, b)) = b
            /\ \A i \in 1..b : SubSeq(v, 1, b)[i] = v[i]
        BY <1>1, <4>1, Beginning
      <4>3. u = SubSeq(v, 1, b)
        <5>1. (n + j) - 1 = b
          BY <1>1, <2>1, <4>1
        <5> QED
          BY ONLY <5>1, Zenon
      <4> HIDE DEF u
      <4>4. u \in Seq(Word) /\ Len(u) = b /\ \A i \in 1..b : u[i] = v[i]
        BY <4>2, <4>3
      <4> QED
        BY <4>1, <4>4
    <3> HIDE DEF t, u
    <3>7. /\ p \o t \in Seq(Word) /\ Len(p \o t) = n + (j - 1)
          /\ \A i \in 1..(n + (j - 1)) : (p \o t)[i] = IF i <= n THEN p[i] ELSE t[i - n]
      <4>1. /\ p \o t \in Seq(Word) /\ Len(p \o t) = Len(p) + Len(t)
            /\ \A i \in 1..(Len(p) + Len(t)) :
                   (p \o t)[i] = IF i <= Len(p) THEN p[i] ELSE t[i - Len(p)]
        BY <1>1, <3>5, ConcatProperties
      <4>2. Len(p) = n /\ Len(t) = j - 1
        BY <3>5 DEF n
      <4> QED
        BY <4>1, <4>2
    <3>8. ASSUME NEW i \in 1..Len(u) PROVE u[i] = (p \o t)[i]
      <4>1. i \in 1..(n + j - 1) /\ i \in 1..(n + (j - 1))
        BY <1>1, <2>1, <3>6
      <4>2. CASE i <= n
        <5>1. i \in 1..n
          BY <1>1, <4>1, <4>2
        <5> QED
          BY <1>2, <3>6, <3>7, <4>1, <4>2, <5>1
      <4>3. CASE ~(i <= n)
        <5>1. i - n \in 1..(j - 1) /\ i - n \in 1..m /\ n + (i - n) = i
          BY <1>1, <2>1, <4>1, <4>3
        <5>2. v[i] = w[i - n] /\ t[i - n] = w[i - n]
          BY <1>2, <3>5, <5>1
        <5> QED
          BY <3>6, <3>7, <4>1, <4>3, <5>2
      <4> QED
        BY <4>2, <4>3
    <3>9. Len(u) = Len(p \o t)
      BY <1>1, <2>1, <3>6, <3>7
    <3>10. u = p \o t
      BY <3>6, <3>7, <3>8, <3>9, SeqEqual
    <3> QED
      BY <2>3, <2>6, <3>3, <3>4, <3>10 DEF t, u
  <2>7. CASE s # 1
    <3>1. s - 1 \in cuts /\ n + (s - 1) = (n + s) - 1 /\ n + s \in 1..(n + j)
      BY <1>1, <2>1, <2>4, <2>7
    <3>2. (n + s) - 1 \in cv
      BY <1>8, <3>1
    <3>3. \A k \in cv : k < n + j => k < n + s
      <4> SUFFICES ASSUME NEW k \in cv, k < n + j PROVE k < n + s
        OBVIOUS
      <4>1. k - n < s /\ k \in 1..(n + m)
        BY <1>7, <2>5
      <4> QED
        BY <1>1, <2>1, <4>1
    <3>4. n + s = Start(n + j, cv)
      BY <2>1, <2>2, <3>1, <3>2, <3>3, StartIsUnique
    <3>5. SubSeq(w, s, j - 1) = SubSeq(v, n + s, n + (j - 1))
      <4>1. /\ s \in Nat \ {0} /\ j - 1 \in Nat /\ j - 1 <= Len(w) /\ n + (j - 1) <= Len(v)
            /\ \A k \in s..(j - 1) : w[k] = v[n + k]
        BY <1>1, <1>2, <2>1 DEF m
      <4> QED
        BY <1>1, <4>1, SamePart
    <3>6. n + (j - 1) = (n + j) - 1
      BY <1>1, <2>1
    <3> QED
      BY <2>3, <2>7, <3>4, <3>5, <3>6, SegmentIs
  <2> QED
    BY <2>6, <2>7
<1> QED
  BY <1>1, <1>6, <1>10, <1>11 DEF v, n, cuts, cv

\* The same program is found in the segments, so the same states are shown.
LEMMA WrapperShowsSame ==
    ASSUME NEW p \in Wrappers, ToSet(p) \subseteq Word,
           NEW w \in Seq(Word), w # <<>>, ~IsOption(w[1]), ~Assigns(w[1]),
           Len(w) + 3 <= TokenLimit
    PROVE  ClassifyShell(p \o w) = ClassifyShell(w)
<1> DEFINE n == Len(p)
           v == p \o w
           cuts == BareBoundaries(w)
           cv == BareBoundaries(v)
<1>1. /\ v \in Seq(Word)
      /\ (\E i \in DOMAIN v : Unclosed(v[i])) <=> \E i \in DOMAIN w : Unclosed(w[i])
      /\ Ends(v, cv) = {n + j : j \in Ends(w, cuts)}
      /\ \A j \in Ends(w, cuts) :
             SegmentTo(n + j, v, cv) =
                 IF Start(j, cuts) = 1 THEN p \o SegmentTo(j, w, cuts)
                 ELSE SegmentTo(j, w, cuts)
  BY WrappedSegments
<1>2. /\ Segments(w) = {SegmentTo(j, w, cuts) : j \in Ends(w, cuts)}
      /\ Segments(v) = {SegmentTo(j, v, cv) : j \in Ends(v, cv)}
  BY <1>1, SegmentsAre
<1>3. ASSUME NEW j \in Ends(w, cuts)
      PROVE  ClassifySegment(SegmentTo(n + j, v, cv)) = ClassifySegment(SegmentTo(j, w, cuts))
  <2> DEFINE s == SegmentTo(j, w, cuts)
  <2>1. s \in Seq(Word)
    BY SegmentTyped
  <2>2. CASE Start(j, cuts) = 1
    <3>1. s = SubSeq(w, 1, j - 1)
      BY <2>2, SegmentIs
    <3>2. j \in 1..(Len(w) + 1) /\ Len(w) \in Nat
      BY CutsAre
    <3>3. ASSUME s # <<>> PROVE s[1] = w[1]
      <4>1. j - 1 \in Int /\ \A i \in 1..(j - 1) : w[i] \in Word
        BY <3>2, ElementOfSeq
      <4>2. ~(j - 1 < 1)
        BY <3>1, <3>3, <4>1, SubSeqEmpty
      <4>3. \A i \in 1..(j - 1 - 1 + 1) : s[i] = w[1 + i - 1]
        BY <3>1, <4>1, SubSeqProperties
      <4>4. 1 \in 1..(j - 1 - 1 + 1) /\ 1 + 1 - 1 = 1
        BY <4>1, <4>2
      <4> QED
        BY <4>3, <4>4
    <3> HIDE DEF s
    <3>4. SkipWrappers(p \o s) = SkipWrappers(s)
      BY <2>1, <3>3, WrapperIsSkipped
    <3>5. SegmentTo(n + j, v, cv) = p \o s
      BY <1>1, <2>2 DEF s
    <3> QED
      BY <3>4, <3>5 DEF ClassifySegment, s
  <2>3. CASE Start(j, cuts) # 1
    BY <1>1, <2>3
  <2> QED
    BY <2>2, <2>3
<1> DEFINE A == {ClassifySegment(s) : s \in Segments(v)}
           B == {ClassifySegment(s) : s \in Segments(w)}
<1> HIDE DEF n, v, cuts, cv
<1>4. A = B
  <2>1. ASSUME NEW s \in Segments(v)
        PROVE  \E t \in Segments(w) : ClassifySegment(s) = ClassifySegment(t)
    <3>1. PICK j \in Ends(w, cuts) : s = SegmentTo(n + j, v, cv)
      BY <1>1, <1>2
    <3> QED
      BY <1>2, <1>3, <3>1
  <2>2. ASSUME NEW t \in Segments(w)
        PROVE  \E s \in Segments(v) : ClassifySegment(s) = ClassifySegment(t)
    <3>1. PICK j \in Ends(w, cuts) : t = SegmentTo(j, w, cuts)
      BY <1>2
    <3>2. SegmentTo(n + j, v, cv) \in Segments(v)
      BY <1>1, <1>2
    <3> QED
      BY <1>3, <3>1, <3>2
  <2> QED
    BY <2>1, <2>2
<1>5. /\ ClassifyShell(v) = IF GivesUp(v) THEN "COMMAND" ELSE MostImportant(A)
      /\ ClassifyShell(w) = IF GivesUp(w) THEN "COMMAND" ELSE MostImportant(B)
  BY <1>1, ShellIs
<1>6. GivesUp(v) <=> GivesUp(w)
  <2>1. p \in Seq(Word) /\ Len(p) \in 1..3
    BY WrappersAre
  <2>2. Len(v) = Len(p) + Len(w) /\ Len(w) \in Nat
    BY <2>1, ConcatProperties, LenProperties DEF v
  <2>3. PICK k \in 1..3 : k = Len(p)
    BY <2>1
  <2>4. PICK l \in Nat : l = Len(w) /\ l + 3 <= TokenLimit /\ Len(v) = k + l
    BY <2>2, <2>3
  <2>5. k + l <= TokenLimit /\ l <= TokenLimit
    BY <2>4, LimitAssumption
  <2>6. Len(v) <= TokenLimit /\ Len(w) <= TokenLimit
    BY <2>4, <2>5
  <2> QED
    BY <1>1, <2>6, ShortEnough
<1> HIDE DEF A, B
<1>7. ClassifyShell(v) = ClassifyShell(w)
  BY <1>1, <1>4, <1>5, <1>6
<1> QED
  BY <1>7 DEF v

\* `sudo', `sudo -u user', `env', `env A=1' and `time' before a command, whatever
\* its segments, do not change what it is shown as if it still fits into the
\* array of tokens: SkipWrappers of the first segment ends at the same program,
\* and the other segments keep theirs.
THEOREM WrappersAlwaysTransparent == Spec => []WrappersAreTransparent
<1>1. InvocationInv => WrappersAreTransparent
  <2> SUFFICES ASSUME InvocationInv, Plainly, command # <<>>,
                      ~IsOption(command[1]), ~Assigns(command[1]),
                      NEW p \in Wrappers, ToSet(p) \subseteq words
               PROVE  ClassifyShell(p \o command) = shown
    BY DEF WrappersAreTransparent, Wrappers
  <2>1. ToSet(p) \subseteq Word
    BY DEF InvocationInv
  <2> QED
    BY <2>1, CommandFits, PlainlyShown, WrapperShowsSame
<1> QED
  BY <1>1, InvocationIsTyped, PTL
=============================================================================
