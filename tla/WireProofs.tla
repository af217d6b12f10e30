----------------------------- MODULE WireProofs ------------------------------
(***************************************************************************)
(* What holds of Wire for messages, lines and numbers of every size.       *)
(*                                                                         *)
(* The functions of Wire go through sequences from the first element to    *)
(* the last, so that what they compute is shown by induction on sequences. *)
(* Induction and SeqInduction have sets where the library's theorems have  *)
(* operators, and rest on its WFMin.  StepsHaveResults says that a fold is *)
(* what its step makes of each beginning of the sequence; it has a step    *)
(* that is a function, and for each fold of Wire a lemma (SplitLaws,       *)
(* ReadLaws, TopLaws, FlattenLaws) leads over from its operator.           *)
(*                                                                         *)
(* LinesAreRead (a client reads the lines that were sent), CutShort (what  *)
(* a cut leaves of them), LinesJoinToTheMessage (str::lines loses nothing  *)
(* but carriage returns) and TopIsTheStartOf are proved so.  The rest is   *)
(* the invariant WireInv, with a lemma for each action, and the theorems.  *)
(***************************************************************************)
EXTENDS Wire, SequenceTheorems, WellFoundedInduction, TLAPS

(* Induction, and what a fold computes *)

\* A set that holds zero and the successor of each of its numbers holds them all.
LEMMA Induction ==
  ASSUME NEW S, 0 \in S, \A n \in Nat : n \in S => n + 1 \in S
  PROVE  Nat \subseteq S
<1> SUFFICES ASSUME Nat \ S # {} PROVE FALSE
  OBVIOUS
<1>1. PICK x \in Nat \ S : \A y \in Nat \ S : ~ (<<y, x>> \in OpToRel(<, Nat))
  <2>1. Nat \ S \subseteq Nat
    OBVIOUS
  <2> HIDE DEF OpToRel
  <2> QED BY <2>1, WFMin, NatLessThanWellFounded
<1>2. x \in Nat /\ x # 0
  BY <1>1
<1>3. x - 1 \in Nat /\ x = (x - 1) + 1
  BY <1>2
<1>4. x - 1 \notin S
  BY <1>1, <1>3
<1>5. <<x - 1, x>> \in OpToRel(<, Nat)
  BY <1>2, <1>3 DEF OpToRel
<1> QED BY <1>1, <1>3, <1>4, <1>5

\* A set of sequences that holds the empty one and the longer ones of each of its
\* sequences holds them all.
LEMMA SeqInduction ==
  ASSUME NEW X, NEW S, <<>> \in S,
         \A s \in Seq(X), x \in X : s \in S => Append(s, x) \in S
  PROVE  Seq(X) \subseteq S
<1> DEFINE T == {n \in Nat : \A s \in Seq(X) : Len(s) = n => s \in S}
<1>1. 0 \in T
  BY EmptySeq
<1>2. ASSUME NEW n \in Nat, n \in T PROVE n + 1 \in T
  <2> SUFFICES ASSUME NEW s \in Seq(X), Len(s) = n + 1 PROVE s \in S
    OBVIOUS
  <2>1. s # <<>>
    OBVIOUS
  <2>2. PICK t \in Seq(X), x \in X : s = Append(t, x)
    BY <2>1, SequenceEmptyOrAppend
  <2>3. Len(t) = n
    BY <2>2
  <2> QED BY <1>2, <2>2, <2>3
<1>3. Nat \subseteq T
  <2> HIDE DEF T
  <2> QED BY <1>1, <1>2, Induction
<1> QED BY <1>3

\* The function g holds what the step F makes of start and each beginning of s.
Run(g, A, start, F, s) ==
  /\ g \in [0..Len(s) -> A]
  /\ g[0] = start
  /\ \A i \in 1..Len(s) : g[i] = F[<<g[i - 1], s[i]>>]

\* The function h goes on as a run does, as long as it is one.
Follows(h, A, start, F, s) ==
  /\ h[0] = start
  /\ \A i \in 1..Len(s) : h[i - 1] \in A => h[i] = F[<<h[i - 1], s[i]>>]

\* Only the run itself does.
LEMMA RunIsUnique ==
  ASSUME NEW A, NEW start, NEW F, NEW s, NEW g, NEW h, Len(s) \in Nat,
         Run(g, A, start, F, s), Follows(h, A, start, F, s)
  PROVE  h[Len(s)] = g[Len(s)]
<1> DEFINE n == Len(s)
           T == {i \in Nat : i <= n => h[i] = g[i]}
<1>1. 0 \in T
  BY DEF Run, Follows
<1>2. ASSUME NEW i \in Nat, i \in T PROVE i + 1 \in T
  <2>1. CASE i + 1 <= n
    <3>1. i + 1 \in 1..n /\ i \in 0..n /\ (i + 1) - 1 = i /\ h[i] = g[i]
      BY <1>2, <2>1
    <3>2. h[i] \in A
      BY <3>1 DEF Run
    <3>3. g[i + 1] = F[<<g[i], s[i + 1]>>] /\ h[i + 1] = F[<<h[i], s[i + 1]>>]
      BY <3>1, <3>2 DEF Run, Follows
    <3> QED BY <3>1, <3>3
  <2> QED BY <2>1
<1>3. Nat \subseteq T
  <2> HIDE DEF T
  <2> QED BY <1>1, <1>2, Induction
<1> QED BY <1>3

\* The function R holds what the step F makes of each sequence.
Results(R, A, start, X, F) ==
  /\ R \in [Seq(X) -> A]
  /\ R[<<>>] = start
  /\ \A s \in Seq(X), x \in X : R[Append(s, x)] = F[<<R[s], x>>]
  /\ \A s \in Seq(X) : \E g : Run(g, A, start, F, s) /\ g[Len(s)] = R[s]

\* There is such a function, whatever the step.
LEMMA StepsHaveResults ==
  ASSUME NEW A, NEW start \in A, NEW X, NEW F \in [A \X X -> A]
  PROVE  \E R : Results(R, A, start, X, F)
<1> DEFINE S == {s \in Seq(X) : \E g : Run(g, A, start, F, s)}
<1>a. <<>> \in S
  <2>1. Run([i \in 0..0 |-> start], A, start, F, <<>>)
    BY DEF Run
  <2> QED BY <2>1
<1>b. ASSUME NEW s \in Seq(X), NEW x \in X, s \in S PROVE Append(s, x) \in S
  <2> DEFINE t == Append(s, x)
             n == Len(s)
  <2>1. /\ t \in Seq(X) /\ Len(t) = n + 1 /\ n \in Nat
        /\ t[n + 1] = x /\ \A i \in 1..n : t[i] = s[i]
    BY AppendProperties
  <2> HIDE DEF t, n
  <2>2. PICK g : Run(g, A, start, F, s)
    BY <1>b
  <2>3. g \in [0..n -> A] /\ g[0] = start /\ \A i \in 1..n : g[i] = F[<<g[i - 1], s[i]>>]
    BY <2>2 DEF Run, n
  <2> DEFINE h == [i \in 0..(n + 1) |-> IF i = n + 1 THEN F[<<g[n], x>>] ELSE g[i]]
  <2>4. h \in [0..(n + 1) -> A]
    BY <2>1, <2>3
  <2>5. h[n + 1] = F[<<g[n], x>>] /\ \A i \in 0..n : h[i] = g[i]
    BY <2>1
  <2> HIDE DEF h
  <2>6. ASSUME NEW i \in 1..(n + 1) PROVE h[i] = F[<<h[i - 1], t[i]>>]
    <3>1. CASE i = n + 1
      <4>1. i - 1 = n /\ n \in 0..n
        BY <2>1, <3>1
      <4>2. h[i - 1] = g[n] /\ h[i] = F[<<g[n], x>>] /\ t[i] = x
        BY <2>1, <2>5, <3>1, <4>1
      <4> QED BY <4>2
    <3>2. CASE i \in 1..n
      BY <2>1, <2>3, <2>5, <3>2
    <3> QED BY <2>1, <3>1, <3>2
  <2>7. Run(h, A, start, F, t)
    BY <2>1, <2>3, <2>4, <2>5, <2>6 DEF Run
  <2> QED BY <2>1, <2>7 DEF t
<1>1. ASSUME NEW s \in Seq(X) PROVE \E g : Run(g, A, start, F, s)
  <2>1. Seq(X) \subseteq S
    <3> HIDE DEF S
    <3> QED BY <1>a, <1>b, SeqInduction
  <2> QED BY <2>1
<1> DEFINE Of(s) == CHOOSE g : Run(g, A, start, F, s)
           R == [s \in Seq(X) |-> Of(s)[Len(s)]]
<1>2. ASSUME NEW s \in Seq(X) PROVE Run(Of(s), A, start, F, s)
  BY <1>1
<1> HIDE DEF Of
<1>3. R \in [Seq(X) -> A]
  BY <1>2 DEF Run
<1>4. R[<<>>] = start
  BY <1>2, EmptySeq DEF Run
<1>5. ASSUME NEW s \in Seq(X), NEW x \in X PROVE R[Append(s, x)] = F[<<R[s], x>>]
  <2>1. /\ Append(s, x) \in Seq(X) /\ Len(Append(s, x)) = Len(s) + 1
        /\ Append(s, x)[Len(s) + 1] = x
        /\ \A i \in 1..Len(s) : Append(s, x)[i] = s[i]
    BY AppendProperties
  <2>2. Run(Of(s), A, start, F, s) /\ Run(Of(Append(s, x)), A, start, F, Append(s, x))
    BY <1>2, <2>1
  <2>3. Of(Append(s, x))[Len(s)] = Of(s)[Len(s)]
    <3>1. Follows(Of(Append(s, x)), A, start, F, s)
      BY <2>1, <2>2 DEF Run, Follows
    <3> QED BY <2>1, <2>2, <3>1, RunIsUnique
  <2>4. Of(Append(s, x))[Len(s) + 1] = F[<<Of(Append(s, x))[Len(s)], x>>]
    BY <2>1, <2>2 DEF Run
  <2> QED BY <2>1, <2>3, <2>4
<1>6. ASSUME NEW s \in Seq(X) PROVE Run(Of(s), A, start, F, s) /\ Of(s)[Len(s)] = R[s]
  BY <1>2
<1> HIDE DEF R
<1>7. Results(R, A, start, X, F)
  BY <1>3, <1>4, <1>5, <1>6 DEF Results
<1> QED BY <1>7

-----------------------------------------------------------------------------
(* The folds of Wire *)

\* Lines that were read, and the start of the next.
Partial == [done : Seq(Seq(Symbols)), line : Seq(Symbols)]

\* One character more taken by str::lines.
LEMMA SplitLaws ==
  /\ Split(<<>>) = NoLine
  /\ \A s \in Seq(Symbols) : Split(s) \in Partial
  /\ \A s \in Seq(Symbols), c \in Symbols : Split(Append(s, c)) = SplitAt(Split(s), c)
<1> DEFINE F == [p \in Partial \X Symbols |-> SplitAt(p[1], p[2])]
<1>1. NoLine \in Partial /\ F \in [Partial \X Symbols -> Partial]
  <2>1. NoLine \in Partial
    BY DEF NoLine, Partial
  <2>2. ASSUME NEW acc \in Partial, NEW c \in Symbols PROVE SplitAt(acc, c) \in Partial
    <3>1. WithoutCR(acc.line) \in Seq(Symbols)
      BY DEF Partial, WithoutCR, Front
    <3>2. NextLine(acc, WithoutCR(acc.line)) \in Partial
      BY <3>1 DEF Partial, NextLine
    <3>3. LongerLine(acc, c) \in Partial
      <4>1. Append(acc.line, c) \in Seq(Symbols)
        BY DEF Partial
      <4> QED BY <4>1 DEF Partial, LongerLine
    <3> QED BY <3>2, <3>3 DEF SplitAt
  <2> QED BY <2>1, <2>2
<1> HIDE DEF F
<1>2. PICK R : Results(R, Partial, NoLine, Symbols, F)
  BY <1>1, StepsHaveResults
<1>3. ASSUME NEW s \in Seq(Symbols) PROVE Split(s) = R[s]
  <2>1. PICK g : Run(g, Partial, NoLine, F, s) /\ g[Len(s)] = R[s]
    BY <1>2 DEF Results
  <2> DEFINE Defines(f) ==
               f = [n \in 0..Len(s) |-> IF n = 0 THEN NoLine
                     ELSE SplitAt(f[n - 1], s[n])]
             acc == CHOOSE f : Defines(f)
  <2>2. Defines(g)
    <3> DEFINE h == [n \in 0..Len(s) |-> IF n = 0 THEN NoLine ELSE SplitAt(g[n - 1], s[n])]
    <3>1. g \in [0..Len(s) -> Partial]
      BY <2>1 DEF Run
    <3>2. ASSUME NEW n \in 1..Len(s) PROVE g[n] = SplitAt(g[n - 1], s[n])
      <4>1. <<g[n - 1], s[n]>> \in Partial \X Symbols
        BY <3>1
      <4> QED BY <2>1, <4>1 DEF Run, F
    <3>3. ASSUME NEW n \in 0..Len(s) PROVE g[n] = h[n]
      BY <2>1, <3>2 DEF Run
    <3> QED BY <3>1, <3>3
  <2>3. Defines(acc)
    <3> HIDE DEF Defines
    <3> QED BY <2>2
  <2>4. Follows(acc, Partial, NoLine, F, s)
    <3> HIDE DEF acc
    <3>1. acc[0] = NoLine
      BY <2>3
    <3>2. ASSUME NEW i \in 1..Len(s), acc[i - 1] \in Partial PROVE acc[i] = F[<<acc[i - 1], s[i]>>]
      <4>1. acc[i] = SplitAt(acc[i - 1], s[i])
        BY <2>3
      <4>2. <<acc[i - 1], s[i]>> \in Partial \X Symbols
        BY <3>2
      <4> QED BY <4>1, <4>2 DEF F
    <3> QED BY <3>1, <3>2 DEF Follows
  <2>5. Split(s) = acc[Len(s)]
    BY DEF Split, Fold
  <2> HIDE DEF acc
  <2> QED BY <2>1, <2>4, <2>5, RunIsUnique
<1>4. ASSUME NEW s \in Seq(Symbols), NEW c \in Symbols
      PROVE  Split(Append(s, c)) = SplitAt(Split(s), c)
  <2>1. Append(s, c) \in Seq(Symbols) /\ R[s] \in Partial
    BY <1>2 DEF Results
  <2>2. R[Append(s, c)] = F[<<R[s], c>>]
    BY <1>2 DEF Results
  <2> QED BY <1>3, <2>1, <2>2 DEF F
<1>5. Split(<<>>) = NoLine
  BY <1>2, <1>3, EmptySeq DEF Results
<1>6. ASSUME NEW s \in Seq(Symbols) PROVE Split(s) \in Partial
  BY <1>2, <1>3 DEF Results
<1> QED BY <1>4, <1>5, <1>6

\* One character more read by the client.
LEMMA ReadLaws ==
  /\ Reading(<<>>) = NoLine
  /\ \A s \in Seq(Symbols) : Reading(s) \in Partial
  /\ \A s \in Seq(Symbols), c \in Symbols : Reading(Append(s, c)) = ReadOn(Reading(s), c)
<1> DEFINE F == [p \in Partial \X Symbols |-> ReadOn(p[1], p[2])]
<1>1. NoLine \in Partial /\ F \in [Partial \X Symbols -> Partial]
  <2>1. NoLine \in Partial
    BY DEF NoLine, Partial
  <2>2. ASSUME NEW acc \in Partial, NEW c \in Symbols PROVE ReadOn(acc, c) \in Partial
    <3>1. Front(acc.line) \in Seq(Symbols)
      BY DEF Partial, Front
    <3>2. NextLine(acc, Front(acc.line)) \in Partial
      BY <3>1 DEF Partial, NextLine
    <3>3. LongerLine(acc, c) \in Partial
      <4>1. Append(acc.line, c) \in Seq(Symbols)
        BY DEF Partial
      <4> QED BY <4>1 DEF Partial, LongerLine
    <3> QED BY <3>2, <3>3 DEF ReadOn
  <2> QED BY <2>1, <2>2
<1> HIDE DEF F
<1>2. PICK R : Results(R, Partial, NoLine, Symbols, F)
  BY <1>1, StepsHaveResults
<1>3. ASSUME NEW s \in Seq(Symbols) PROVE Reading(s) = R[s]
  <2>1. PICK g : Run(g, Partial, NoLine, F, s) /\ g[Len(s)] = R[s]
    BY <1>2 DEF Results
  <2> DEFINE Defines(f) ==
               f = [n \in 0..Len(s) |-> IF n = 0 THEN NoLine
                     ELSE ReadOn(f[n - 1], s[n])]
             acc == CHOOSE f : Defines(f)
  <2>2. Defines(g)
    <3> DEFINE h == [n \in 0..Len(s) |-> IF n = 0 THEN NoLine ELSE ReadOn(g[n - 1], s[n])]
    <3>1. g \in [0..Len(s) -> Partial]
      BY <2>1 DEF Run
    <3>2. ASSUME NEW n \in 1..Len(s) PROVE g[n] = ReadOn(g[n - 1], s[n])
      <4>1. <<g[n - 1], s[n]>> \in Partial \X Symbols
        BY <3>1
      <4> QED BY <2>1, <4>1 DEF Run, F
    <3>3. ASSUME NEW n \in 0..Len(s) PROVE g[n] = h[n]
      BY <2>1, <3>2 DEF Run
    <3> QED BY <3>1, <3>3
  <2>3. Defines(acc)
    <3> HIDE DEF Defines
    <3> QED BY <2>2
  <2>4. Follows(acc, Partial, NoLine, F, s)
    <3> HIDE DEF acc
    <3>1. acc[0] = NoLine
      BY <2>3
    <3>2. ASSUME NEW i \in 1..Len(s), acc[i - 1] \in Partial PROVE acc[i] = F[<<acc[i - 1], s[i]>>]
      <4>1. acc[i] = ReadOn(acc[i - 1], s[i])
        BY <2>3
      <4>2. <<acc[i - 1], s[i]>> \in Partial \X Symbols
        BY <3>2
      <4> QED BY <4>1, <4>2 DEF F
    <3> QED BY <3>1, <3>2 DEF Follows
  <2>5. Reading(s) = acc[Len(s)]
    BY DEF Reading, Fold
  <2> HIDE DEF acc
  <2> QED BY <2>1, <2>4, <2>5, RunIsUnique
<1>4. ASSUME NEW s \in Seq(Symbols), NEW c \in Symbols
      PROVE  Reading(Append(s, c)) = ReadOn(Reading(s), c)
  <2>1. Append(s, c) \in Seq(Symbols) /\ R[s] \in Partial
    BY <1>2 DEF Results
  <2>2. R[Append(s, c)] = F[<<R[s], c>>]
    BY <1>2 DEF Results
  <2> QED BY <1>3, <2>1, <2>2 DEF F
<1>5. Reading(<<>>) = NoLine
  BY <1>2, <1>3, EmptySeq DEF Results
<1>6. ASSUME NEW s \in Seq(Symbols) PROVE Reading(s) \in Partial
  BY <1>2, <1>3 DEF Results
<1> QED BY <1>4, <1>5, <1>6

\* What handle_top has taken of some lines.
Top == [result : Seq(Seq(Symbols)), inBody : BOOLEAN, taken : Nat]

\* One line more taken by the loop of handle_top.
LEMMA TopLaws ==
  ASSUME NEW lines \in Nat
  PROVE  /\ TopFrom(<<>>, lines) = NoTop
         /\ \A s \in Seq(Seq(Symbols)) : TopFrom(s, lines) \in Top
         /\ \A s \in Seq(Seq(Symbols)), l \in Seq(Symbols) :
              TopFrom(Append(s, l), lines) = TopStep(TopFrom(s, lines), l, lines)
<1> DEFINE X == Seq(Symbols)
           F == [p \in Top \X X |-> TopStep(p[1], p[2], lines)]
<1>1. NoTop \in Top /\ F \in [Top \X X -> Top]
  <2>1. NoTop \in Top
    BY DEF NoTop, Top
  <2>2. ASSUME NEW acc \in Top, NEW l \in X PROVE TopStep(acc, l, lines) \in Top
    <3>1. Append(acc.result, l) \in Seq(Seq(Symbols)) /\ acc.taken + 1 \in Nat
      BY DEF Top
    <3> QED BY <3>1 DEF Top, TopStep, Enough
  <2> QED BY <2>1, <2>2
<1> HIDE DEF F, X
<1>2. PICK R : Results(R, Top, NoTop, X, F)
  BY <1>1, StepsHaveResults
<1>3. ASSUME NEW s \in Seq(X) PROVE TopFrom(s, lines) = R[s]
  <2>1. PICK g : Run(g, Top, NoTop, F, s) /\ g[Len(s)] = R[s]
    BY <1>2 DEF Results
  <2> DEFINE Defines(f) ==
               f = [n \in 0..Len(s) |-> IF n = 0 THEN NoTop
                     ELSE TopStep(f[n - 1], s[n], lines)]
             acc == CHOOSE f : Defines(f)
  <2>2. Defines(g)
    <3> DEFINE h == [n \in 0..Len(s) |-> IF n = 0 THEN NoTop ELSE TopStep(g[n - 1], s[n], lines)]
    <3>1. g \in [0..Len(s) -> Top]
      BY <2>1 DEF Run
    <3>2. ASSUME NEW n \in 1..Len(s) PROVE g[n] = TopStep(g[n - 1], s[n], lines)
      <4>1. <<g[n - 1], s[n]>> \in Top \X X
        BY <3>1
      <4> QED BY <2>1, <4>1 DEF Run, F
    <3>3. ASSUME NEW n \in 0..Len(s) PROVE g[n] = h[n]
      BY <2>1, <3>2 DEF Run
    <3> QED BY <3>1, <3>3
  <2>3. Defines(acc)
    <3> HIDE DEF Defines
    <3> QED BY <2>2
  <2>4. Follows(acc, Top, NoTop, F, s)
    <3> HIDE DEF acc
    <3>1. acc[0] = NoTop
      BY <2>3
    <3>2. ASSUME NEW i \in 1..Len(s), acc[i - 1] \in Top PROVE acc[i] = F[<<acc[i - 1], s[i]>>]
      <4>1. acc[i] = TopStep(acc[i - 1], s[i], lines)
        BY <2>3
      <4>2. <<acc[i - 1], s[i]>> \in Top \X X
        BY <3>2
      <4> QED BY <4>1, <4>2 DEF F
    <3> QED BY <3>1, <3>2 DEF Follows
  <2>5. TopFrom(s, lines) = acc[Len(s)]
    BY DEF TopFrom, Fold
  <2> HIDE DEF acc
  <2> QED BY <2>1, <2>4, <2>5, RunIsUnique
<1>4. ASSUME NEW s \in Seq(X), NEW l \in X
      PROVE  TopFrom(Append(s, l), lines) = TopStep(TopFrom(s, lines), l, lines)
  <2>1. Append(s, l) \in Seq(X) /\ R[s] \in Top
    BY <1>2 DEF Results
  <2>2. R[Append(s, l)] = F[<<R[s], l>>]
    BY <1>2 DEF Results
  <2> QED BY <1>3, <2>1, <2>2 DEF F
<1>5. TopFrom(<<>>, lines) = NoTop
  BY <1>2, <1>3, EmptySeq DEF Results
<1>6. ASSUME NEW s \in Seq(X) PROVE TopFrom(s, lines) \in Top
  BY <1>2, <1>3 DEF Results
<1> QED BY <1>4, <1>5, <1>6 DEF X

\* One sequence more put at the end of others.
LEMMA FlattenLaws ==
  ASSUME NEW C
  PROVE  /\ FlattenSeq(<<>>) = <<>>
         /\ \A s \in Seq(Seq(C)) : FlattenSeq(s) \in Seq(C)
         /\ \A s \in Seq(Seq(C)), l \in Seq(C) : FlattenSeq(Append(s, l)) = FlattenSeq(s) \o l
<1> DEFINE A == Seq(C)
           F == [p \in A \X A |-> p[1] \o p[2]]
<1>1. <<>> \in A /\ F \in [A \X A -> A]
  BY EmptySeq
<1> HIDE DEF F
<1>2. PICK R : Results(R, A, <<>>, A, F)
  <2> HIDE DEF A
  <2> QED BY <1>1, StepsHaveResults
<1>3. ASSUME NEW s \in Seq(A) PROVE FlattenSeq(s) = R[s]
  <2>1. PICK g : Run(g, A, <<>>, F, s) /\ g[Len(s)] = R[s]
    BY <1>2 DEF Results
  <2>2. CASE s = <<>>
    BY <1>2, <2>2 DEF Results, FlattenSeq
  <2>3. CASE s # <<>>
    <3> HIDE DEF A
    <3> DEFINE Defines(f) == f = [n \in 1..Len(s) |-> IF n = 1 THEN s[n] ELSE f[n - 1] \o s[n]]
               flat == CHOOSE f : Defines(f)
               k == [n \in 1..Len(s) |-> g[n]]
               h == [n \in 0..Len(s) |-> IF n = 0 THEN <<>> ELSE flat[n]]
    <3>1. g \in [0..Len(s) -> A] /\ g[0] = <<>>
      BY <2>1 DEF Run
    <3>2. ASSUME NEW n \in 1..Len(s) PROVE g[n] = g[n - 1] \o s[n] /\ s[n] \in A
      <4>1. n - 1 \in 0..Len(s)
        OBVIOUS
      <4>2. g[n - 1] \in A /\ s[n] \in A
        BY <3>1, <4>1
      <4> QED BY <2>1, <4>2 DEF Run, F
    <3>3. ASSUME NEW x \in A PROVE <<>> \o x = x
      BY ConcatEmptySeq DEF A
    <3>4. Defines(k)
      <4> DEFINE m == [n \in 1..Len(s) |-> IF n = 1 THEN s[n] ELSE k[n - 1] \o s[n]]
      <4>1. ASSUME NEW n \in 1..Len(s) PROVE k[n] = m[n]
        <5>1. CASE n = 1
          <6>1. k[n] = g[n] /\ g[n - 1] = <<>>
            BY <3>1, <5>1
          <6> HIDE DEF k
          <6> QED BY <3>2, <3>3, <5>1, <6>1
        <5>2. CASE n # 1
          <6>1. n - 1 \in 1..Len(s) /\ k[n - 1] = g[n - 1] /\ k[n] = g[n]
            BY <5>2
          <6> HIDE DEF k
          <6> QED BY <3>2, <5>2, <6>1
        <5> QED BY <5>1, <5>2
      <4> QED BY <4>1
    <3>5. Defines(flat)
      <4> HIDE DEF Defines, k
      <4> QED BY <3>4
    <3>6. Follows(h, A, <<>>, F, s)
      <4> HIDE DEF flat
      <4>1. h[0] = <<>>
        OBVIOUS
      <4>2. ASSUME NEW i \in 1..Len(s), h[i - 1] \in A PROVE h[i] = F[<<h[i - 1], s[i]>>]
        <5>1. <<h[i - 1], s[i]>> \in A \X A
          BY <3>2, <4>2
        <5>2. h[i] = h[i - 1] \o s[i]
          <6>1. CASE i = 1
            BY <3>2, <3>3, <3>5, <6>1
          <6>2. CASE i # 1
            <7>1. i - 1 \in 1..Len(s) /\ i - 1 \in 0..Len(s) /\ i \in 0..Len(s) /\ i # 0 /\ i - 1 # 0
              BY <6>2
            <7>2. flat[i] = flat[i - 1] \o s[i]
              BY <3>5, <6>2
            <7>3. h[i] = flat[i] /\ h[i - 1] = flat[i - 1]
              BY <7>1
            <7> QED BY <7>2, <7>3
          <6> QED BY <6>1, <6>2
        <5> HIDE DEF h
        <5> QED BY <5>1, <5>2 DEF F
      <4> QED BY <4>1, <4>2 DEF Follows
    <3>7. FlattenSeq(s) = flat[Len(s)]
      BY <2>3 DEF FlattenSeq
    <3>8. h[Len(s)] = flat[Len(s)]
      <4> HIDE DEF flat
      <4> QED BY <2>3
    <3> HIDE DEF flat, h
    <3> QED BY <2>1, <3>6, <3>7, <3>8, RunIsUnique
  <2> QED BY <2>2, <2>3
<1>4. ASSUME NEW s \in Seq(A), NEW l \in A PROVE FlattenSeq(Append(s, l)) = FlattenSeq(s) \o l
  <2>1. Append(s, l) \in Seq(A) /\ R[s] \in A
    BY <1>2 DEF Results
  <2>2. R[Append(s, l)] = F[<<R[s], l>>]
    BY <1>2 DEF Results
  <2> QED BY <1>3, <2>1, <2>2 DEF F
<1>5. ASSUME NEW s \in Seq(A) PROVE FlattenSeq(s) \in A
  BY <1>2, <1>3 DEF Results
<1>6. FlattenSeq(<<>>) = <<>>
  BY <1>2, <1>3, EmptySeq DEF Results
<1> QED BY <1>4, <1>5, <1>6

-----------------------------------------------------------------------------
(* Lines on the wire *)

\* A line is a sequence of symbols.
LEMMA LineIsSymbols ==
  /\ \A l \in Line : l \in Seq(Symbols)
  /\ \A ls \in Seq(Line) : ls \in Seq(Seq(Symbols))
<1>1. Symbols \ {"LF"} \subseteq Symbols
  OBVIOUS
<1>2. ASSUME NEW l \in Line PROVE l \in Seq(Symbols)
  BY <1>1, SeqMonotonic DEF Line
<1>3. Line \subseteq Seq(Symbols)
  BY <1>2
<1>4. ASSUME NEW ls \in Seq(Line) PROVE ls \in Seq(Seq(Symbols))
  BY <1>3, SeqMonotonic
<1> QED BY <1>2, <1>4

\* Sequences put one after the other need no parentheses.
LEMMA Associative ==
  \A a, b, c \in Seq(Symbols) : (a \o b) \o c = a \o (b \o c)
OBVIOUS

\* One element more at the end of two sequences.
LEMMA ConcatAppend ==
  ASSUME NEW X, NEW a \in Seq(X), NEW b \in Seq(X), NEW x \in X
  PROVE  a \o Append(b, x) = Append(a \o b, x)
OBVIOUS

\* The end of a line.
LEMMA LineEnd ==
  /\ CRLF \in Seq(Symbols)
  /\ \A l \in Seq(Symbols) : /\ l \o CRLF \in Seq(Symbols)
                             /\ l \o CRLF = Append(l, "CR") \o <<"LF">>
  /\ \A s, l \in Seq(Symbols) : s \o (l \o CRLF) = Append(Append(s \o l, "CR"), "LF")
  /\ \A l \in Seq(Symbols) : /\ Append(l, "CR") \in Seq(Symbols) /\ Append(l, "CR") # <<>>
                             /\ Last(Append(l, "CR")) = "CR" /\ Front(Append(l, "CR")) = l
<1>1. CRLF \in Seq(Symbols) /\ "CR" \in Symbols /\ "LF" \in Symbols
  BY DEF CRLF, Symbols, Characters
<1>2. ASSUME NEW l \in Seq(Symbols)
      PROVE  l \o CRLF \in Seq(Symbols) /\ l \o CRLF = Append(l, "CR") \o <<"LF">>
  <2>1. l \o <<"CR", "LF">> = Append(l, "CR") \o <<"LF">>
    BY <1>1
  <2> QED BY <1>1, <2>1 DEF CRLF
<1>3. ASSUME NEW s \in Seq(Symbols), NEW l \in Seq(Symbols)
      PROVE  s \o (l \o CRLF) = Append(Append(s \o l, "CR"), "LF")
  <2>1. s \o l \in Seq(Symbols) /\ s \o (l \o CRLF) = (s \o l) \o CRLF
    BY <1>1, ConcatAssociative
  <2>2. \A t \in Seq(Symbols) : t \o CRLF = Append(Append(t, "CR"), "LF")
    <3> SUFFICES ASSUME NEW t \in Seq(Symbols)
                 PROVE  t \o <<"CR", "LF">> = Append(Append(t, "CR"), "LF")
      BY DEF CRLF
    <3> QED BY <1>1
  <2> QED BY <2>1, <2>2
<1>4. ASSUME NEW l \in Seq(Symbols)
      PROVE  /\ Append(l, "CR") \in Seq(Symbols) /\ Append(l, "CR") # <<>>
             /\ Last(Append(l, "CR")) = "CR" /\ Front(Append(l, "CR")) = l
  <2> DEFINE t == Append(l, "CR")
  <2>1. t \in Seq(Symbols) /\ t # <<>> /\ Len(t) = Len(l) + 1 /\ t[Len(l) + 1] = "CR"
        /\ \A i \in 1..Len(l) : t[i] = l[i]
    BY <1>1, AppendProperties
  <2>2. Len(l) \in Nat
    OBVIOUS
  <2> HIDE DEF t
  <2>3. Last(t) = "CR"
    BY <2>1 DEF Last
  <2>4. Front(t) = SubSeq(t, 1, Len(l))
    BY <2>1, <2>2 DEF Front
  <2>5. \A i \in 1..Len(l) : t[i] \in Symbols
    BY <2>1
  <2>6. Front(t) \in Seq(Symbols) /\ Len(Front(t)) = Len(l)
        /\ \A i \in 1..Len(l) : Front(t)[i] = t[i]
    BY <2>2, <2>4, <2>5
  <2>7. Front(t) = l
    BY <2>1, <2>6, SeqEqual
  <2> QED BY <2>1, <2>3, <2>7 DEF t
<1> QED BY <1>1, <1>2, <1>3, <1>4

\* One line more put at the end of others.
LEMMA JoinedLaws ==
  /\ Joined(<<>>) = <<>>
  /\ \A ls \in Seq(Seq(Symbols)) : Joined(ls) \in Seq(Symbols)
  /\ \A ls \in Seq(Seq(Symbols)), l \in Seq(Symbols) :
       Joined(Append(ls, l)) = Joined(ls) \o (l \o CRLF)
<1> DEFINE L == Seq(Symbols)
           Ended(ls) == [i \in 1..Len(ls) |-> ls[i] \o CRLF]
<1>1. \A l \in L : l \o CRLF \in L
  BY LineEnd
<1> HIDE DEF L
<1>2. ASSUME NEW ls \in Seq(L) PROVE Ended(ls) \in Seq(L)
  BY <1>1
<1>3. ASSUME NEW ls \in Seq(L), NEW l \in L
      PROVE  Ended(Append(ls, l)) = Append(Ended(ls), l \o CRLF)
  <2> DEFINE a == Ended(Append(ls, l))
             b == Append(Ended(ls), l \o CRLF)
  <2>1. /\ Append(ls, l) \in Seq(L) /\ Len(Append(ls, l)) = Len(ls) + 1
        /\ Append(ls, l)[Len(ls) + 1] = l /\ \A i \in 1..Len(ls) : Append(ls, l)[i] = ls[i]
    BY AppendProperties
  <2>2. a \in Seq(L) /\ Len(a) = Len(ls) + 1 /\ a[Len(ls) + 1] = l \o CRLF
        /\ \A i \in 1..Len(ls) : a[i] = ls[i] \o CRLF
    <3>1. a \in Seq(L)
      <4> HIDE DEF Ended
      <4> QED BY <1>2, <2>1
    <3>2. \A i \in 1..(Len(ls) + 1) : a[i] = Append(ls, l)[i] \o CRLF
      BY <2>1
    <3>3. Len(a) = Len(ls) + 1
      BY <2>1
    <3>4. Len(ls) \in Nat
      OBVIOUS
    <3> HIDE DEF a
    <3>5. a[Len(ls) + 1] = l \o CRLF
      <4>1. Len(ls) + 1 \in 1..(Len(ls) + 1)
        BY <3>4
      <4>2. Append(ls, l)[Len(ls) + 1] = l
        BY <2>1
      <4> QED BY ONLY <3>2, <4>1, <4>2
    <3>6. ASSUME NEW i \in 1..Len(ls) PROVE a[i] = ls[i] \o CRLF
      <4>1. i \in 1..(Len(ls) + 1) /\ Append(ls, l)[i] = ls[i]
        BY <2>1, <3>4
      <4> QED BY <3>2, <4>1
    <3> QED BY <3>1, <3>3, <3>5, <3>6
  <2>3. Ended(ls) \in Seq(L) /\ Len(Ended(ls)) = Len(ls) /\ l \o CRLF \in L
        /\ \A i \in 1..Len(ls) : Ended(ls)[i] = ls[i] \o CRLF
    BY <1>1, <1>2
  <2> HIDE DEF Ended
  <2>4. b \in Seq(L) /\ Len(b) = Len(ls) + 1 /\ b[Len(ls) + 1] = l \o CRLF
        /\ \A i \in 1..Len(ls) : b[i] = ls[i] \o CRLF
    BY <2>3, AppendProperties
  <2> HIDE DEF a, b
  <2>5. ASSUME NEW i \in 1..(Len(ls) + 1) PROVE a[i] = b[i]
    <3>1. i \in 1..Len(ls) \/ i = Len(ls) + 1
      OBVIOUS
    <3> QED BY <2>2, <2>4, <3>1
  <2>6. a = b
    BY <2>2, <2>4, <2>5, SeqEqual
  <2> QED BY <2>6 DEF a, b
<1>4. Ended(<<>>) = <<>>
  OBVIOUS
<1>5. FlattenSeq(<<>>) = <<>>
  BY FlattenLaws
<1>6. ASSUME NEW s \in Seq(L), NEW l \in L
      PROVE  FlattenSeq(s) \in L /\ FlattenSeq(Append(s, l)) = FlattenSeq(s) \o l
  BY FlattenLaws DEF L
<1>7. \A ls : Joined(ls) = FlattenSeq(Ended(ls))
  BY DEF Joined
<1> HIDE DEF Ended
<1>8. Joined(<<>>) = <<>>
  BY <1>4, <1>5, <1>7
<1>9. ASSUME NEW ls \in Seq(L) PROVE Joined(ls) \in L
  <2>1. \A s \in Seq(L) : FlattenSeq(s) \in L
    BY FlattenLaws DEF L
  <2> QED BY <1>2, <1>7, <2>1
<1>10. ASSUME NEW ls \in Seq(L), NEW l \in L PROVE Joined(Append(ls, l)) = Joined(ls) \o (l \o CRLF)
  BY <1>1, <1>2, <1>3, <1>6, <1>7
<1> QED BY <1>8, <1>9, <1>10 DEF L

\* The lines of two replies are the lines of the first and those of the second.
LEMMA JoinedOfTwo ==
  ASSUME NEW ls \in Seq(Seq(Symbols)), NEW ms \in Seq(Seq(Symbols))
  PROVE  Joined(ls \o ms) = Joined(ls) \o Joined(ms)
<1> DEFINE L == Seq(Symbols)
           S == {t \in Seq(L) : Joined(ls \o t) = Joined(ls) \o Joined(t)}
<1>1. \A t \in Seq(L) : Joined(t) \in L
  BY JoinedLaws
<1>2. \A t \in Seq(L), l \in L : Joined(Append(t, l)) = Joined(t) \o (l \o CRLF)
  BY JoinedLaws
<1>3. \A l \in L : l \o CRLF \in L
  BY LineEnd
<1>4. ASSUME NEW a \in L, NEW b \in L, NEW c \in L PROVE (a \o b) \o c = a \o (b \o c)
  <2>1. a \in Seq(Symbols) /\ b \in Seq(Symbols) /\ c \in Seq(Symbols)
    BY DEF L
  <2> HIDE DEF S
  <2> QED BY <2>1
<1>5. \A a \in L : a \o <<>> = a
  BY ConcatEmptySeq
<1> HIDE DEF L
<1>6. <<>> \in S
  BY <1>1, <1>5, JoinedLaws DEF L
<1>7. ASSUME NEW t \in Seq(L), NEW l \in L, t \in S PROVE Append(t, l) \in S
  <2>1. ls \o Append(t, l) = Append(ls \o t, l) /\ ls \o t \in Seq(L) /\ Append(t, l) \in Seq(L)
    BY DEF L
  <2>2. Joined(ls \o Append(t, l)) = Joined(ls \o t) \o (l \o CRLF)
    BY <1>2, <2>1
  <2>3. Joined(ls \o t) = Joined(ls) \o Joined(t)
    BY <1>7
  <2>4. (Joined(ls) \o Joined(t)) \o (l \o CRLF) = Joined(ls) \o (Joined(t) \o (l \o CRLF))
    <3>1. Joined(ls) \in L /\ Joined(t) \in L /\ l \o CRLF \in L
      BY <1>1, <1>3 DEF L
    <3> QED BY <1>4, <3>1
  <2>5. Joined(Append(t, l)) = Joined(t) \o (l \o CRLF)
    BY <1>2
  <2> QED BY <2>1, <2>2, <2>3, <2>4, <2>5
<1>8. Seq(L) \subseteq S
  <2> HIDE DEF S
  <2> QED BY <1>6, <1>7, SeqInduction
<1> QED BY <1>8 DEF L

\* What holds no line feed is read into the line.
LEMMA ReadOnALine ==
  ASSUME NEW s \in Seq(Symbols), NEW l \in Line
  PROVE  Reading(s \o l) = [done |-> Reading(s).done, line |-> Reading(s).line \o l]
<1> DEFINE acc == Reading(s)
           S == {t \in Line : Reading(s \o t) = [done |-> acc.done, line |-> acc.line \o t]}
<1>1. acc \in Partial
  BY ReadLaws
<1> HIDE DEF acc
<1>2. <<>> \in S
  <2>1. s \o <<>> = s /\ acc.line \o <<>> = acc.line /\ <<>> \in Line
    BY <1>1, ConcatEmptySeq DEF Partial, Line
  <2> QED BY <1>1, <2>1 DEF acc, Partial
<1>3. ASSUME NEW t \in Line, NEW c \in Symbols \ {"LF"}, t \in S PROVE Append(t, c) \in S
  <2>1. t \in Seq(Symbols) /\ s \o t \in Seq(Symbols) /\ Append(t, c) \in Line
    BY LineIsSymbols DEF Line
  <2>2. s \o Append(t, c) = Append(s \o t, c) /\ acc.line \o Append(t, c) = Append(acc.line \o t, c)
    BY <1>1, <2>1 DEF Partial
  <2>3. Reading(Append(s \o t, c)) = ReadOn(Reading(s \o t), c)
    BY <2>1, ReadLaws
  <2>4. ReadOn(Reading(s \o t), c) = [done |-> acc.done, line |-> Append(acc.line \o t, c)]
    <3>1. Reading(s \o t) = [done |-> acc.done, line |-> acc.line \o t]
      BY <1>3
    <3>2. ReadOn(Reading(s \o t), c) = LongerLine(Reading(s \o t), c)
      BY DEF ReadOn
    <3> DEFINE r == Reading(s \o t)
    <3>3. r \in Partial
      BY <2>1, ReadLaws
    <3>4. r.done = acc.done /\ r.line = acc.line \o t
      BY <3>1
    <3> HIDE DEF r
    <3>5. LongerLine(r, c) = [done |-> r.done, line |-> Append(r.line, c)]
      <4> DEFINE y == Append(r.line, c)
      <4> HIDE DEF y
      <4>1. [r EXCEPT !.line = y] = [done |-> r.done, line |-> y]
        BY ONLY <3>3 DEF Partial
      <4> QED BY <4>1 DEF LongerLine, y
    <3> QED BY <3>2, <3>4, <3>5 DEF r
  <2> QED BY <2>1, <2>2, <2>3, <2>4
<1>4. Seq(Symbols \ {"LF"}) \subseteq S
  <2> HIDE DEF S
  <2> QED BY <1>2, <1>3, SeqInduction DEF Line
<1> QED BY <1>4 DEF Line, acc

\* A client reads the lines that were sent, whatever they hold but line feeds.
LEMMA LinesAreRead ==
  ASSUME NEW ls \in Seq(Line)
  PROVE  Reading(Joined(ls)) = [done |-> ls, line |-> <<>>]
<1> DEFINE S == {t \in Seq(Line) : Reading(Joined(t)) = [done |-> t, line |-> <<>>]}
<1>1. <<>> \in S
  BY ReadLaws, JoinedLaws DEF NoLine
<1>2. ASSUME NEW t \in Seq(Line), NEW l \in Line, t \in S PROVE Append(t, l) \in S
  <2>1. t \in Seq(Seq(Symbols)) /\ l \in Seq(Symbols) /\ Append(t, l) \in Seq(Line)
    BY LineIsSymbols
  <2>2. Joined(t) \in Seq(Symbols)
    BY <2>1, JoinedLaws
  <2> DEFINE s == Joined(t) \o l
  <2>3. s \in Seq(Symbols) /\ Append(s, "CR") \in Seq(Symbols)
    BY <2>1, <2>2, LineEnd
  <2>4. Joined(Append(t, l)) = Append(Append(s, "CR"), "LF")
    <3>1. Joined(Append(t, l)) = Joined(t) \o (l \o CRLF)
      BY <2>1, JoinedLaws
    <3>2. Joined(t) \o (l \o CRLF) = Append(Append(s, "CR"), "LF")
      BY <2>1, <2>2, LineEnd
    <3> QED BY <3>1, <3>2
  <2>5. Reading(s) = [done |-> t, line |-> l]
    <3>1. <<>> \o l = l
      BY <2>1, ConcatEmptySeq
    <3>2. Reading(Joined(t) \o l) = [done |-> Reading(Joined(t)).done, line |-> Reading(Joined(t)).line \o l]
      BY <2>2, ReadOnALine
    <3>3. Reading(Joined(t)) = [done |-> t, line |-> <<>>]
      BY <1>2
    <3> QED BY <3>1, <3>2, <3>3
  <2> HIDE DEF s
  <2>6. "CR" \in Symbols /\ "LF" \in Symbols /\ "CR" # "LF"
    BY DEF Symbols, Characters
  <2>7. Reading(Append(s, "CR")) = [done |-> t, line |-> Append(l, "CR")]
    <3>1. Reading(Append(s, "CR")) = ReadOn(Reading(s), "CR")
      BY <2>3, <2>6, ReadLaws
    <3>2. ReadOn(Reading(s), "CR") = LongerLine(Reading(s), "CR")
      BY <2>6 DEF ReadOn
    <3> QED BY <2>5, <3>1, <3>2 DEF LongerLine
  <2>8. Reading(Append(Append(s, "CR"), "LF")) = [done |-> Append(t, l), line |-> <<>>]
    <3> DEFINE acc == Reading(Append(s, "CR"))
    <3>1. Reading(Append(Append(s, "CR"), "LF")) = ReadOn(acc, "LF")
      BY <2>3, <2>6, ReadLaws
    <3>2. acc.line # <<>> /\ Last(acc.line) = "CR" /\ Front(acc.line) = l /\ acc.done = t
      <4>1. acc.line = Append(l, "CR") /\ acc.done = t
        BY <2>7
      <4> HIDE DEF acc
      <4> QED BY <2>1, <4>1, LineEnd
    <3> HIDE DEF acc
    <3> QED BY <3>1, <3>2 DEF ReadOn, NextLine
  <2> QED BY <2>1, <2>4, <2>8
<1>3. Seq(Line) \subseteq S
  <2> HIDE DEF S
  <2> QED BY <1>1, <1>2, SeqInduction
<1> QED BY <1>3

\* The start of two sequences one after the other is that of the first.
LEMMA PrefixInFirst ==
  ASSUME NEW X, NEW a \in Seq(X), NEW b \in Seq(X), NEW n \in 0..Len(a)
  PROVE  SubSeq(a \o b, 1, n) = SubSeq(a, 1, n)
BY ConcatProperties

\* Or it is the first and the start of the second.
LEMMA PrefixInSecond ==
  ASSUME NEW X, NEW a \in Seq(X), NEW b \in Seq(X), NEW m \in 0..Len(b)
  PROVE  SubSeq(a \o b, 1, Len(a) + m) = a \o SubSeq(b, 1, m)
<1>1. a \o b \in Seq(X) /\ Len(a \o b) = Len(a) + Len(b) /\ Len(a) \in Nat /\ Len(b) \in Nat
      /\ \A i \in 1..(Len(a) + Len(b)) : (a \o b)[i] = IF i <= Len(a) THEN a[i] ELSE b[i - Len(a)]
  BY ConcatProperties
<1> DEFINE u == SubSeq(a \o b, 1, Len(a) + m)
           v == a \o SubSeq(b, 1, m)
<1>2. u \in Seq(X) /\ Len(u) = Len(a) + m
      /\ \A i \in 1..(Len(a) + m) : u[i] = IF i <= Len(a) THEN a[i] ELSE b[i - Len(a)]
  BY <1>1
<1>3. v \in Seq(X) /\ Len(v) = Len(a) + m
      /\ \A i \in 1..(Len(a) + m) : v[i] = IF i <= Len(a) THEN a[i] ELSE b[i - Len(a)]
  BY <1>1
<1> HIDE DEF u, v
<1>4. u = v
  BY <1>2, <1>3, SeqEqual
<1> QED BY <1>4 DEF u, v

\* What a cut leaves of some lines: the first of them, and a part of the next.
LEMMA CutShort ==
  ASSUME NEW ls \in Seq(Line), NEW n \in 0..(Len(Joined(ls)) - 1)
  PROVE  \E k \in 0..(Len(ls) - 1), p \in Line :
           SubSeq(Joined(ls), 1, n) = Joined(SubSeq(ls, 1, k)) \o p
<1> DEFINE Left(t, m) == \E k \in 0..(Len(t) - 1), p \in Line :
                           SubSeq(Joined(t), 1, m) = Joined(SubSeq(t, 1, k)) \o p
           S == {t \in Seq(Line) : \A m \in 0..(Len(Joined(t)) - 1) : Left(t, m)}
<1>1. <<>> \in S
  BY JoinedLaws
<1>2. ASSUME NEW t \in Seq(Line), NEW l \in Line, t \in S PROVE Append(t, l) \in S
  <2> DEFINE u == Append(t, l)
             j == Joined(t)
             e == l \o CRLF
  <2>1. u \in Seq(Line) /\ Len(u) = Len(t) + 1 /\ Len(t) \in Nat
        /\ \A k \in 0..Len(t) : SubSeq(u, 1, k) = SubSeq(t, 1, k)
    <3>1. u = t \o <<l>> /\ <<l>> \in Seq(Line)
      BY AppendIsConcat
    <3> HIDE DEF u
    <3>2. \A k \in 0..Len(t) : SubSeq(u, 1, k) = SubSeq(t, 1, k)
      BY <3>1, PrefixInFirst
    <3> QED BY <3>1, <3>2
  <2>2. SubSeq(t, 1, Len(t)) = t
    BY SubSeqFull
  <2>3. j \in Seq(Symbols) /\ e \in Seq(Symbols) /\ Joined(u) = j \o e
    BY LineIsSymbols, LineEnd, JoinedLaws
  <2>4. Len(e) = Len(l) + 2 /\ Len(l) \in Nat
        /\ \A i \in 1..(Len(l) + 1) : e[i] \in Symbols \ {"LF"}
    BY DEF CRLF, Line, Symbols, Characters
  <2> HIDE DEF u, j, e
  <2>5. ASSUME NEW m \in 0..(Len(Joined(u)) - 1) PROVE Left(u, m)
    <3>1. CASE m < Len(j)
      <4>1. PICK k \in 0..(Len(t) - 1), p \in Line :
              SubSeq(j, 1, m) = Joined(SubSeq(t, 1, k)) \o p
        <5>1. m \in 0..(Len(Joined(t)) - 1)
          BY <2>3, <3>1 DEF j
        <5>2. Left(t, m)
          BY <1>2, <5>1
        <5> QED BY <5>2 DEF j
      <4>2. SubSeq(Joined(u), 1, m) = SubSeq(j, 1, m)
        <5>1. j \in Seq(Symbols) /\ e \in Seq(Symbols)
          BY <2>3
        <5>2. m \in 0..Len(j)
          BY <2>3, <3>1
        <5>3. SubSeq(j \o e, 1, m) = SubSeq(j, 1, m)
          BY ONLY <5>1, <5>2, PrefixInFirst
        <5> QED BY <2>3, <5>3
      <4>3. SubSeq(u, 1, k) = SubSeq(t, 1, k) /\ k \in 0..(Len(u) - 1)
        BY <2>1
      <4> QED BY <4>1, <4>2, <4>3
    <3>2. CASE ~ (m < Len(j))
      <4> DEFINE r == m - Len(j)
                 p == SubSeq(e, 1, r)
      <4>1. r \in 0..Len(e) /\ r \in 0..(Len(l) + 1) /\ m = Len(j) + r
        BY <2>3, <2>4, <3>2
      <4>2. SubSeq(Joined(u), 1, m) = j \o p
        <5>1. j \in Seq(Symbols) /\ e \in Seq(Symbols)
          BY <2>3
        <5> HIDE DEF r
        <5>2. SubSeq(j \o e, 1, Len(j) + r) = j \o SubSeq(e, 1, r)
          BY ONLY <4>1, <5>1, PrefixInSecond
        <5> QED BY <2>3, <4>1, <5>2
      <4>3. p \in Line
        BY <2>4, <4>1, SubSeqProperties DEF Line
      <4>4. Len(t) \in 0..(Len(u) - 1) /\ SubSeq(u, 1, Len(t)) = t
        BY <2>1, <2>2
      <4> HIDE DEF p, r
      <4>5. SubSeq(Joined(u), 1, m) = Joined(SubSeq(u, 1, Len(t))) \o p
        BY <4>2, <4>4 DEF j
      <4> QED BY <4>3, <4>4, <4>5
    <3> QED BY <3>1, <3>2
  <2> QED BY <2>1, <2>5 DEF u
<1>3. Seq(Line) \subseteq S
  <2> HIDE DEF S
  <2> QED BY <1>1, <1>2, SeqInduction
<1> QED BY <1>3

-----------------------------------------------------------------------------
(* The lines of a message *)

\* What a line of a message may hold.
Text == Seq(Characters \ {"LF"})

\* What the character at i is in the canonical form.
Piece(s, i) == IF s[i] = "LF" /\ (i = 1 \/ s[i - 1] # "CR") THEN CRLF ELSE <<s[i]>>
Pieces(s) == [i \in 1..Len(s) |-> Piece(s, i)]

\* One character more of the canonical form.
LEMMA OnePieceMore ==
  ASSUME NEW s \in Seq(Characters), NEW c \in Characters
  PROVE  LET p == IF c = "LF" /\ (s = <<>> \/ Last(s) # "CR") THEN CRLF ELSE <<c>>
         IN  FlattenSeq(Pieces(Append(s, c))) = FlattenSeq(Pieces(s)) \o p
<1> DEFINE t == Append(s, c)
           n == Len(s)
           p == IF c = "LF" /\ (s = <<>> \/ Last(s) # "CR") THEN CRLF ELSE <<c>>
<1>1. /\ t \in Seq(Characters) /\ Len(t) = n + 1 /\ n \in Nat
      /\ t[n + 1] = c /\ \A i \in 1..n : t[i] = s[i]
  BY AppendProperties
<1>2. ASSUME NEW u \in Seq(Characters), NEW i \in 1..Len(u) PROVE Piece(u, i) \in Seq(Symbols)
  <2>1. u[i] \in Symbols
    BY DEF Symbols
  <2> QED BY <2>1, LineEnd DEF Piece
<1>3. p \in Seq(Symbols)
  <2>1. CRLF \in Seq(Symbols) /\ <<c>> \in Seq(Symbols)
    BY LineEnd DEF Symbols
  <2> QED BY <2>1
<1>4. ASSUME NEW u \in Seq(Characters)
      PROVE  /\ Pieces(u) \in Seq(Seq(Symbols)) /\ Len(Pieces(u)) = Len(u)
             /\ \A i \in 1..Len(u) : Pieces(u)[i] = Piece(u, i)
  <2> DEFINE L == Seq(Symbols)
  <2>1. \A i \in 1..Len(u) : Piece(u, i) \in L
    BY <1>2
  <2> HIDE DEF L
  <2>2. Pieces(u) \in Seq(L) /\ Len(Pieces(u)) = Len(u)
    BY <2>1 DEF Pieces
  <2>3. \A i \in 1..Len(u) : Pieces(u)[i] = Piece(u, i)
    BY DEF Pieces
  <2> QED BY <2>2, <2>3 DEF L
<1> HIDE DEF t, p
<1>5. Piece(t, n + 1) = p
  <2>1. n + 1 = 1 <=> s = <<>>
    OBVIOUS
  <2>2. n + 1 # 1 => t[(n + 1) - 1] = Last(s)
    BY <1>1 DEF Last
  <2> QED BY <1>1, <2>1, <2>2 DEF Piece, p
<1>6. ASSUME NEW i \in 1..n PROVE Piece(t, i) = Piece(s, i)
  BY <1>1 DEF Piece
<1>7. Pieces(t) = Append(Pieces(s), p)
  <2>1. Append(Pieces(s), p) \in Seq(Seq(Symbols)) /\ Len(Append(Pieces(s), p)) = n + 1
        /\ Append(Pieces(s), p)[n + 1] = p
        /\ \A i \in 1..n : Append(Pieces(s), p)[i] = Piece(s, i)
    BY <1>1, <1>3, <1>4, AppendProperties
  <2>2. Pieces(t) \in Seq(Seq(Symbols)) /\ Len(Pieces(t)) = n + 1
        /\ \A i \in 1..(n + 1) : Pieces(t)[i] = Piece(t, i)
    BY <1>1, <1>4
  <2>3. ASSUME NEW i \in 1..(n + 1) PROVE Pieces(t)[i] = Append(Pieces(s), p)[i]
    <3>1. i \in 1..n \/ i = n + 1
      BY <1>1
    <3> QED BY <1>5, <1>6, <2>1, <2>2, <3>1
  <2> QED BY <2>1, <2>2, <2>3, SeqEqual
<1>8. FlattenSeq(Append(Pieces(s), p)) = FlattenSeq(Pieces(s)) \o p
  BY <1>3, <1>4, FlattenLaws
<1> QED BY <1>7, <1>8 DEF t, p

\* The parts of a message that str::lines has taken are its canonical form so far.
Right(s, acc) ==
  /\ acc.done \in Seq(Text) /\ acc.line \in Text
  /\ Joined(acc.done) \o acc.line = FlattenSeq(Pieces(s))
  /\ acc.line = <<>> <=> (s = <<>> \/ Last(s) = "LF")
  /\ acc.line # <<>> => Last(acc.line) = Last(s)

\* A line of a message is a line of symbols.
LEMMA TextIsLine ==
  /\ \A l \in Text : l \in Line /\ l \in Seq(Symbols)
  /\ \A ls \in Seq(Text) : ls \in Seq(Line) /\ ls \in Seq(Seq(Symbols))
<1>1. Characters \ {"LF"} \subseteq Symbols \ {"LF"}
  BY DEF Symbols
<1>2. ASSUME NEW l \in Text PROVE l \in Line
  BY <1>1, SeqMonotonic DEF Text, Line
<1>3. Text \subseteq Line
  BY <1>2
<1>4. ASSUME NEW ls \in Seq(Text) PROVE ls \in Seq(Line)
  BY <1>3, SeqMonotonic
<1> QED BY <1>2, <1>4, LineIsSymbols

\* str::lines takes one character more, not a line feed.
LEMMA RightInALine ==
  ASSUME NEW s \in Seq(Characters), NEW acc \in Partial, Right(s, acc),
         NEW c \in Characters \ {"LF"}
  PROVE  Right(Append(s, c), LongerLine(acc, c))
<1> DEFINE l == Append(acc.line, c)
<1>1. acc.done \in Seq(Text) /\ acc.line \in Text /\ Joined(acc.done) \in Seq(Symbols)
      /\ acc.line \in Seq(Symbols) /\ acc.done \in Seq(Seq(Symbols)) /\ c \in Symbols
  BY TextIsLine, JoinedLaws DEF Right, Symbols
<1>2. l \in Text /\ l # <<>> /\ Last(l) = c
  <2> DEFINE X == Characters \ {"LF"}
             b == acc.line
  <2>1. b \in Seq(X) /\ c \in X
    BY <1>1 DEF Text
  <2> HIDE DEF X, b
  <2>2. /\ Append(b, c) \in Seq(X) /\ Len(b) \in Nat
        /\ Len(Append(b, c)) = Len(b) + 1 /\ Append(b, c)[Len(b) + 1] = c
    BY ONLY <2>1
  <2>3. Append(b, c) # <<>> /\ Last(Append(b, c)) = c
    BY ONLY <2>2 DEF Last
  <2> QED BY <2>2, <2>3 DEF X, b, Text
<1>3. LongerLine(acc, c).done = acc.done /\ LongerLine(acc, c).line = l
  BY DEF LongerLine, Partial
<1>4. Append(s, c) # <<>> /\ Last(Append(s, c)) = c
  <2>1. Len(s) \in Nat /\ Len(Append(s, c)) = Len(s) + 1 /\ Append(s, c)[Len(s) + 1] = c
    OBVIOUS
  <2> QED BY ONLY <2>1 DEF Last
<1>5. Joined(acc.done) \o l = FlattenSeq(Pieces(s)) \o <<c>>
  <2>1. Joined(acc.done) \o l = Append(Joined(acc.done) \o acc.line, c)
    <3> DEFINE a == Joined(acc.done)
               b == acc.line
    <3>1. a \in Seq(Symbols) /\ b \in Seq(Symbols)
      BY <1>1
    <3> HIDE DEF a, b
    <3>2. a \o Append(b, c) = Append(a \o b, c)
      BY <1>1, <3>1, ConcatAppend
    <3> QED BY <3>2 DEF a, b
  <2>2. Append(Joined(acc.done) \o acc.line, c) = (Joined(acc.done) \o acc.line) \o <<c>>
    <3> DEFINE a == Joined(acc.done) \o acc.line
    <3>1. a \in Seq(Symbols) /\ c \in Symbols
      BY <1>1
    <3> HIDE DEF a
    <3>2. Append(a, c) = a \o <<c>>
      BY ONLY <3>1
    <3> QED BY <3>2 DEF a
  <2> QED BY <2>1, <2>2 DEF Right
<1>6. FlattenSeq(Pieces(Append(s, c))) = FlattenSeq(Pieces(s)) \o <<c>>
  BY OnePieceMore
<1> HIDE DEF l
<1> QED BY <1>1, <1>2, <1>3, <1>4, <1>5, <1>6 DEF Right

\* str::lines takes a line feed.
LEMMA RightAtItsEnd ==
  ASSUME NEW s \in Seq(Characters), NEW acc \in Partial, Right(s, acc)
  PROVE  Right(Append(s, "LF"), NextLine(acc, WithoutCR(acc.line)))
<1> DEFINE line == acc.line
           l == WithoutCR(line)
           p == IF s = <<>> \/ Last(s) # "CR" THEN CRLF ELSE <<"LF">>
           next == NextLine(acc, l)
<1>1. acc.done \in Seq(Text) /\ line \in Text /\ Joined(acc.done) \in Seq(Symbols)
      /\ line \in Seq(Symbols) /\ acc.done \in Seq(Seq(Symbols)) /\ "LF" \in Symbols /\ "CR" \in Symbols
  BY TextIsLine, JoinedLaws DEF Right, Symbols, Characters
<1>2. next.done = Append(acc.done, l) /\ next.line = <<>>
  BY DEF NextLine
<1>3. l \in Text /\ l \o CRLF = line \o p
  <2>1. CASE line # <<>> /\ Last(line) = "CR"
    <3>1. l = Front(line) /\ p = <<"LF">>
      BY <2>1 DEF WithoutCR, Right
    <3>2. PICK f \in Text, e \in Characters \ {"LF"} : line = Append(f, e)
      BY <1>1, <2>1, SequenceEmptyOrAppend DEF Text
    <3>3. e = "CR" /\ f \in Seq(Symbols)
      BY <2>1, <3>2, TextIsLine DEF Last, Text
    <3>4. l = f
      BY <3>1, <3>2, <3>3, LineEnd
    <3>5. f \o CRLF = Append(f, "CR") \o <<"LF">>
      BY <3>3, LineEnd
    <3> QED BY <3>1, <3>2, <3>3, <3>4, <3>5
  <2>2. CASE ~ (line # <<>> /\ Last(line) = "CR")
    <3>1. l = line
      BY <2>2 DEF WithoutCR
    <3>2. s = <<>> \/ Last(s) # "CR"
      BY <2>2 DEF Right
    <3> QED BY <1>1, <3>1, <3>2
  <2> QED BY <2>1, <2>2
<1> HIDE DEF l, line, next, p
<1>4. Append(acc.done, l) \in Seq(Text) /\ <<>> \in Text
  BY <1>1, <1>3 DEF Text
<1>5. Joined(next.done) \o <<>> = FlattenSeq(Pieces(s)) \o p
  <2>1. l \in Seq(Symbols) /\ p \in Seq(Symbols) /\ l \o CRLF \in Seq(Symbols)
    BY <1>1, <1>3, TextIsLine, LineEnd DEF p
  <2>2. Joined(next.done) = Joined(acc.done) \o (line \o p)
    BY <1>1, <1>2, <1>3, <2>1, JoinedLaws
  <2>3. Joined(acc.done) \o (line \o p) = (Joined(acc.done) \o line) \o p
    BY <1>1, <2>1, Associative
  <2>4. Joined(acc.done) \o line = FlattenSeq(Pieces(s))
    BY DEF Right, line
  <2>5. Joined(next.done) \in Seq(Symbols)
    BY <1>1, <2>1, <2>2
  <2> QED BY <2>2, <2>3, <2>4, <2>5, ConcatEmptySeq
<1>6. FlattenSeq(Pieces(Append(s, "LF"))) = FlattenSeq(Pieces(s)) \o p
  BY OnePieceMore DEF p, Characters
<1>7. Last(Append(s, "LF")) = "LF"
  BY DEF Last, Characters
<1>8. Right(Append(s, "LF"), next)
  BY <1>2, <1>4, <1>5, <1>6, <1>7 DEF Right
<1> QED BY <1>8 DEF next, l, line

\* The lines of a message hold no line feed, and joined they are the message in its
\* canonical form.
LEMMA LinesJoinToTheMessage ==
  ASSUME NEW content \in Seq(Characters)
  PROVE  LinesOf(content) \in Seq(Text) /\ Joined(LinesOf(content)) = Canonical(content)
<1> DEFINE S == {s \in Seq(Characters) : Right(s, Split(s))}
<1>1. ASSUME NEW s \in Seq(Characters) PROVE s \in Seq(Symbols) /\ Split(s) \in Partial
  <2>1. Characters \subseteq Symbols
    BY DEF Symbols
  <2>2. s \in Seq(Symbols)
    BY <2>1, SeqMonotonic
  <2> QED BY <2>2, SplitLaws
<1>2. <<>> \in S
  <2>1. Split(<<>>) = NoLine /\ FlattenSeq(<<>>) = <<>> /\ Joined(<<>>) = <<>>
    BY SplitLaws, FlattenLaws, JoinedLaws
  <2>2. Pieces(<<>>) = <<>> /\ <<>> \o <<>> = <<>>
    BY DEF Pieces
  <2>3. NoLine.done \in Seq(Text) /\ NoLine.line \in Text /\ NoLine.done = <<>> /\ NoLine.line = <<>>
    BY DEF NoLine, Text
  <2>4. Right(<<>>, NoLine)
    BY <2>1, <2>2, <2>3 DEF Right
  <2> QED BY <2>1, <2>4
<1>3. ASSUME NEW s \in Seq(Characters), NEW c \in Characters, s \in S PROVE Append(s, c) \in S
  <2>1. Split(Append(s, c)) = SplitAt(Split(s), c)
    BY <1>1, SplitLaws DEF Symbols
  <2>2. Right(s, Split(s)) /\ Split(s) \in Partial
    BY <1>1, <1>3
  <2>3. CASE c = "LF"
    BY <2>1, <2>2, <2>3, RightAtItsEnd DEF SplitAt
  <2>4. CASE c # "LF"
    BY <2>1, <2>2, <2>4, RightInALine DEF SplitAt
  <2> QED BY <2>3, <2>4
<1>4. Seq(Characters) \subseteq S
  <2> HIDE DEF S
  <2> QED BY <1>2, <1>3, SeqInduction
<1> DEFINE acc == Split(content)
<1>5. Right(content, acc) /\ acc \in Partial
  BY <1>1, <1>4
<1>6. LinesOf(content) = IF acc.line = <<>> THEN acc.done ELSE Append(acc.done, acc.line)
  BY DEF LinesOf
<1>7. Canonical(content) = FlattenSeq(Pieces(content))
                             \o (IF content = <<>> \/ Last(content) = "LF" THEN <<>> ELSE CRLF)
  BY DEF Canonical, Pieces, Piece
<1> HIDE DEF acc
<1>8. acc.done \in Seq(Text) /\ acc.line \in Text /\ acc.done \in Seq(Seq(Symbols))
      /\ acc.line \in Seq(Symbols) /\ Joined(acc.done) \in Seq(Symbols)
  BY <1>5, TextIsLine, JoinedLaws DEF Right
<1>9. CASE acc.line = <<>>
  <2>1. LinesOf(content) = acc.done
    BY <1>6, <1>9
  <2>2. Canonical(content) = (Joined(acc.done) \o <<>>) \o <<>>
    BY <1>5, <1>7, <1>9 DEF Right
  <2> QED BY <1>8, <2>1, <2>2, ConcatEmptySeq
<1>10. CASE acc.line # <<>>
  <2>1. LinesOf(content) = Append(acc.done, acc.line)
    BY <1>6, <1>10
  <2>2. Canonical(content) = (Joined(acc.done) \o acc.line) \o CRLF
    BY <1>5, <1>7, <1>10 DEF Right
  <2>3. Joined(Append(acc.done, acc.line)) = Joined(acc.done) \o (acc.line \o CRLF)
    BY <1>8, JoinedLaws
  <2>4. (Joined(acc.done) \o acc.line) \o CRLF = Joined(acc.done) \o (acc.line \o CRLF)
    <3> DEFINE a == Joined(acc.done)
               b == acc.line
    <3>1. CRLF \in Seq(Symbols) /\ a \in Seq(Symbols) /\ b \in Seq(Symbols)
      BY <1>8, LineEnd
    <3> HIDE DEF a, b
    <3>2. (a \o b) \o CRLF = a \o (b \o CRLF)
      BY ONLY <3>1
    <3> QED BY <3>2 DEF a, b
  <2> QED BY <1>8, <2>1, <2>2, <2>3, <2>4
<1> QED BY <1>9, <1>10

-----------------------------------------------------------------------------
(* The start of a message *)

\* What handle_top has taken of the lines s is their start: all of them as long as no
\* line was empty, and then as many as it may.
TopIsRight(s, a, lines) ==
  /\ Len(a.result) <= Len(s)
  /\ \A i \in 1..Len(a.result) : a.result[i] = s[i]
  /\ ~ a.inBody => a.result = s /\ a.taken = 0 /\ \A i \in 1..Len(s) : s[i] # <<>>
  /\ a.inBody => /\ a.taken <= lines /\ (a.taken < lines => a.result = s)
                 /\ \E h \in 1..Len(s) :
                      /\ s[h] = <<>> /\ \A i \in 1..(h - 1) : s[i] # <<>>
                      /\ Len(a.result) = h + a.taken

\* One line more taken.
LEMMA TopStaysRight ==
  ASSUME NEW X, NEW s \in Seq(X), NEW l \in X, NEW lines \in Nat,
         NEW a, a.result \in Seq(X), a.inBody \in BOOLEAN, a.taken \in Nat,
         a = [result |-> a.result, inBody |-> a.inBody, taken |-> a.taken],
         TopIsRight(s, a, lines)
  PROVE  TopIsRight(Append(s, l), TopStep(a, l, lines), lines)
<1> DEFINE t == Append(s, l)
           n == Len(s)
           b == TopStep(a, l, lines)
<1>1. /\ t \in Seq(X) /\ Len(t) = n + 1 /\ n \in Nat
      /\ t[n + 1] = l /\ \A i \in 1..n : t[i] = s[i]
  BY AppendProperties
<1> HIDE DEF n
<1>2. CASE a.inBody /\ Enough(a.taken, lines)
  <2>1. b = a
    BY <1>2 DEF TopStep
  <2>2. a.taken <= lines /\ ~ (a.taken < lines)
    BY <1>2 DEF Enough, TopIsRight
  <2>3. PICK h \in 1..n : /\ s[h] = <<>> /\ \A i \in 1..(h - 1) : s[i] # <<>>
                          /\ Len(a.result) = h + a.taken
    BY <1>2 DEF TopIsRight, n
  <2>4. h \in 1..(n + 1) /\ t[h] = <<>> /\ \A i \in 1..(h - 1) : t[i] # <<>>
    BY <1>1, <2>3
  <2>5. Len(a.result) <= n + 1 /\ Len(a.result) \in Nat /\ Len(a.result) <= n
    BY <1>1 DEF TopIsRight, n
  <2>6. \A i \in 1..Len(a.result) : a.result[i] = t[i]
    BY <1>1, <2>5 DEF TopIsRight
  <2> HIDE DEF t, b
  <2>7. TopIsRight(t, a, lines)
    BY <1>1, <1>2, <2>2, <2>3, <2>4, <2>5, <2>6 DEF TopIsRight
  <2> QED BY <2>1, <2>7 DEF t, b
<1>3. CASE a.inBody /\ ~ Enough(a.taken, lines)
  <2>1. a.taken < lines /\ a.result = s
    BY <1>3 DEF Enough, TopIsRight
  <2>2. b.result = t /\ b.inBody /\ b.taken = a.taken + 1
    BY <1>3, <2>1 DEF TopStep
  <2>3. PICK h \in 1..n : /\ s[h] = <<>> /\ \A i \in 1..(h - 1) : s[i] # <<>>
                          /\ Len(a.result) = h + a.taken
    BY <1>3 DEF TopIsRight, n
  <2>4. h \in 1..(n + 1) /\ t[h] = <<>> /\ \A i \in 1..(h - 1) : t[i] # <<>>
    BY <1>1, <2>3
  <2>5. Len(t) = h + (a.taken + 1)
    BY <1>1, <2>1, <2>3 DEF n
  <2> HIDE DEF t, b
  <2>6. TopIsRight(t, b, lines)
    <3>1. Len(b.result) <= Len(t) /\ \A i \in 1..Len(b.result) : b.result[i] = t[i]
      BY <1>1, <2>2
    <3>2. \E j \in 1..Len(t) : /\ t[j] = <<>> /\ \A i \in 1..(j - 1) : t[i] # <<>>
                               /\ Len(b.result) = j + b.taken
      BY <1>1, <2>2, <2>4, <2>5
    <3>3. b.taken <= lines
      BY <2>1, <2>2
    <3> QED BY <2>2, <3>1, <3>2, <3>3 DEF TopIsRight
  <2> QED BY <2>6 DEF t, b
<1>4. CASE ~ a.inBody
  <2>1. a.result = s /\ a.taken = 0 /\ \A i \in 1..n : s[i] # <<>>
    BY <1>4 DEF TopIsRight, n
  <2>2. b.result = t /\ b.inBody = (l = <<>>) /\ b.taken = 0
    BY <1>4, <2>1 DEF TopStep
  <2>3. \A i \in 1..n : t[i] # <<>>
    BY <1>1, <2>1
  <2> HIDE DEF t, b
  <2>4. CASE l = <<>>
    <3>1. n + 1 \in 1..Len(t) /\ t[n + 1] = <<>> /\ (\A i \in 1..((n + 1) - 1) : t[i] # <<>>)
          /\ Len(t) = (n + 1) + 0
      BY <1>1, <2>3, <2>4
    <3>2. Len(b.result) <= Len(t) /\ \A i \in 1..Len(b.result) : b.result[i] = t[i]
      BY <1>1, <2>2
    <3>3. \E j \in 1..Len(t) : /\ t[j] = <<>> /\ \A i \in 1..(j - 1) : t[i] # <<>>
                               /\ Len(b.result) = j + b.taken
      BY <2>2, <3>1
    <3>4. b.taken <= lines
      BY <2>2
    <3>5. TopIsRight(t, b, lines)
      BY <2>2, <2>4, <3>2, <3>3, <3>4 DEF TopIsRight
    <3> QED BY <3>5 DEF t, b
  <2>5. CASE l # <<>>
    <3>1. ASSUME NEW i \in 1..(n + 1) PROVE t[i] # <<>>
      <4>1. i \in 1..n \/ i = n + 1
        BY <1>1
      <4> QED BY <1>1, <2>3, <2>5, <4>1
    <3>2. Len(b.result) <= Len(t) /\ \A i \in 1..Len(b.result) : b.result[i] = t[i]
      BY <1>1, <2>2
    <3>3. TopIsRight(t, b, lines)
      BY <1>1, <2>2, <2>5, <3>1, <3>2 DEF TopIsRight
    <3> QED BY <3>3 DEF t, b
  <2> QED BY <2>4, <2>5
<1> QED BY <1>2, <1>3, <1>4

\* The start of a message is lines of it.
LEMMA TopIsTheStartOf ==
  ASSUME NEW text \in Seq(Seq(Symbols)), NEW lines \in Nat
  PROVE  TopFrom(text, lines) \in Top /\ TopIsRight(text, TopFrom(text, lines), lines)
<1> DEFINE X == Seq(Symbols)
           S == {s \in Seq(X) : TopIsRight(s, TopFrom(s, lines), lines)}
<1>1. <<>> \in S
  <2>1. TopFrom(<<>>, lines) = NoTop
    BY TopLaws
  <2>2. TopIsRight(<<>>, NoTop, lines)
    BY DEF TopIsRight, NoTop
  <2> QED BY <2>1, <2>2
<1>2. ASSUME NEW s \in Seq(X), NEW l \in X, s \in S PROVE Append(s, l) \in S
  <2> DEFINE a == TopFrom(s, lines)
  <2>1. a \in Top /\ TopFrom(Append(s, l), lines) = TopStep(a, l, lines) /\ TopIsRight(s, a, lines)
    BY <1>2, TopLaws
  <2>2. Append(s, l) \in Seq(X)
    OBVIOUS
  <2> HIDE DEF a
  <2>3. /\ a.result \in Seq(X) /\ a.inBody \in BOOLEAN /\ a.taken \in Nat
        /\ a = [result |-> a.result, inBody |-> a.inBody, taken |-> a.taken]
    BY <2>1 DEF Top
  <2> HIDE DEF X
  <2>4. TopIsRight(Append(s, l), TopStep(a, l, lines), lines)
    BY <2>1, <2>3, TopStaysRight
  <2> QED BY <2>1, <2>2, <2>4
<1>3. Seq(X) \subseteq S
  <2> HIDE DEF S, X
  <2> QED BY <1>1, <1>2, SeqInduction
<1> QED BY <1>3, TopLaws

\* What TOP brings are lines of the message.
LEMMA TopIsText ==
  ASSUME NEW content \in Seq(Characters), NEW lines \in Nat
  PROVE  TopOf(content, lines) \in Seq(Text)
<1> DEFINE s == LinesOf(content)
           a == TopFrom(s, lines)
           X == Text
<1>1. s \in Seq(X) /\ s \in Seq(Seq(Symbols))
  BY LinesJoinToTheMessage, TextIsLine
<1>2. TopIsRight(s, a, lines) /\ a.result \in Seq(Seq(Symbols)) /\ TopOf(content, lines) = a.result
  BY <1>1, TopIsTheStartOf DEF TopOf, Top
<1> HIDE DEF s, a, X
<1>3. \A i \in 1..Len(a.result) : a.result[i] \in X
  <2> DEFINE r == a.result
  <2>1. Len(r) \in Nat /\ Len(r) <= Len(s) /\ \A i \in 1..Len(r) : r[i] = s[i]
    BY <1>2 DEF TopIsRight
  <2> HIDE DEF r
  <2>2. ASSUME NEW i \in 1..Len(r) PROVE r[i] \in X
    <3>1. i \in 1..Len(s)
      BY <1>1, <2>1
    <3> QED BY <1>1, <2>1, <3>1
  <2> QED BY <2>2 DEF r
<1>4. a.result \in Seq(X)
  <2> DEFINE L == Seq(Symbols)
             r == a.result
  <2>1. r \in Seq(L) /\ \A i \in 1..Len(r) : r[i] \in X
    BY <1>2, <1>3
  <2> HIDE DEF L, r
  <2>2. Len(r) \in Nat /\ r = [i \in 1..Len(r) |-> r[i]]
    BY <2>1
  <2>3. r \in Seq(X)
    BY <2>1, <2>2
  <2> QED BY <2>3 DEF r
<1> QED BY <1>2, <1>4 DEF X

-----------------------------------------------------------------------------
(* Replies *)

\* The period put before a line is put before those that start with one: no line looks
\* like the end, and what the client takes away is what was put.
LEMMA StuffedLine ==
  ASSUME NEW l \in Text
  PROVE  /\ Stuffed(l) \in Line /\ Stuffed(l) # <<".">>
         /\ l = IF Head(Stuffed(l) \o <<"x">>) = "." THEN Tail(Stuffed(l)) ELSE Stuffed(l)
<1> DEFINE X == Characters \ {"LF"}
           Y == Symbols \ {"LF"}
<1>0. "." \in Y /\ "x" \in Y /\ "." # "x" /\ l \in Seq(X) /\ l \in Seq(Y)
  BY TextIsLine DEF Text, Line, Symbols, Characters
<1> HIDE DEF X, Y
<1>1. CASE l = <<>>
  <2>1. Stuffed(l) = <<>> /\ <<>> \o <<"x">> = <<"x">> /\ Head(<<"x">>) = "x"
    BY <1>1 DEF Stuffed
  <2>2. <<>> # <<".">>
    OBVIOUS
  <2>3. Head(Stuffed(l) \o <<"x">>) # "."
    BY <1>0, <2>1
  <2>4. Stuffed(l) \in Line
    BY <1>0, <1>1, <2>1 DEF Line, Y
  <2> QED BY <1>1, <2>1, <2>2, <2>3, <2>4
<1>2. CASE l # <<>> /\ Head(l) = "."
  <2>1. Stuffed(l) = <<".">> \o l
    BY <1>2 DEF Stuffed
  <2>2. <<".">> \o l \in Seq(Y) /\ Len(<<".">> \o l) > 1 /\ Tail(<<".">> \o l) = l
    BY <1>0, <1>2
  <2>3. Head((<<".">> \o l) \o <<"x">>) = "."
    BY <1>0, <1>2
  <2>4. Len(<<".">>) = 1
    OBVIOUS
  <2> QED BY <2>1, <2>2, <2>3, <2>4 DEF Line, Y
<1>3. CASE l # <<>> /\ Head(l) # "."
  <2>1. Stuffed(l) = l
    BY <1>3 DEF Stuffed
  <2>2. Head(l \o <<"x">>) = Head(l)
    BY <1>0, <1>3
  <2>3. l # <<".">>
    BY <1>3
  <2> QED BY <1>0, <1>3, <2>1, <2>2, <2>3 DEF Line, Y
<1> QED BY <1>1, <1>2, <1>3

\* The lines of a reply of several lines: the last is the first to look like the end.
LEMMA FramedLines ==
  ASSUME NEW text \in Seq(Text)
  PROVE  /\ Inside(text) \in Seq(Line) /\ Framed(text) \in Seq(Line) /\ Len(text) \in Nat
         /\ Len(Framed(text)) = Len(text) + 2
         /\ Framed(text)[1] = <<"+OK">> /\ Framed(text)[Len(text) + 2] = <<".">>
         /\ \A i \in 1..Len(text) : Framed(text)[i + 1] = Stuffed(text[i])
<1> DEFINE X == Line
           n == Len(text)
           m == Inside(text)
<1>1. n \in Nat /\ \A i \in 1..n : Stuffed(text[i]) \in X
  <2>1. \A i \in 1..n : text[i] \in Text
    <3> DEFINE L == Text
    <3>1. text \in Seq(L)
      OBVIOUS
    <3> HIDE DEF L
    <3>2. \A i \in 1..n : text[i] \in L
      BY <3>1
    <3> QED BY <3>2 DEF L
  <2> QED BY <2>1, StuffedLine
<1>2. <<"+OK">> \in X /\ <<"-ERR">> \in X /\ <<".">> \in X
  BY DEF Line, Symbols, Characters
<1> HIDE DEF X, n
<1>3. m \in Seq(X) /\ Len(m) = n /\ \A i \in 1..n : m[i] = Stuffed(text[i])
  BY <1>1 DEF Inside, n
<1> HIDE DEF m
<1> DEFINE f == Fine \o m
<1>4. f \in Seq(X) /\ Len(f) = n + 1 /\ f[1] = <<"+OK">> /\ \A i \in 1..n : f[i + 1] = m[i]
  <2> DEFINE a == <<"+OK">>
  <2> HIDE DEF a
  <2>1. <<a>> \o m \in Seq(X) /\ Len(<<a>> \o m) = n + 1 /\ (<<a>> \o m)[1] = a
        /\ \A i \in 1..n : (<<a>> \o m)[i + 1] = m[i]
    BY <1>1, <1>2, <1>3 DEF a
  <2> QED BY <2>1 DEF a, Fine
<1> HIDE DEF f
<1>5. f \o End \in Seq(X) /\ Len(f \o End) = n + 2 /\ (f \o End)[n + 2] = <<".">>
      /\ \A i \in 1..(n + 1) : (f \o End)[i] = f[i]
  <2> DEFINE a == <<".">>
  <2> HIDE DEF a
  <2>1. f \o <<a>> \in Seq(X) /\ Len(f \o <<a>>) = n + 2 /\ (f \o <<a>>)[n + 2] = a
        /\ \A i \in 1..(n + 1) : (f \o <<a>>)[i] = f[i]
    BY <1>1, <1>2, <1>4 DEF a
  <2> QED BY <2>1 DEF a, End
<1>6. Framed(text) = f \o End
  BY DEF Framed, f, m
<1>7. \A i \in 1..n : i + 1 \in 1..(n + 1)
  BY <1>1
<1> QED BY <1>1, <1>3, <1>4, <1>5, <1>6, <1>7 DEF X, n, m

\* The replies of one line, and their lines.
LEMMA ShortReplies ==
  /\ Fine \in Seq(Line) /\ Wrong \in Seq(Line) /\ End \in Seq(Line)
  /\ Joined(Fine) = Single("+OK") /\ Joined(Wrong) = Single("-ERR") /\ Joined(End) = <<".">> \o CRLF
<1>1. ASSUME NEW c \in Symbols \ {"LF"}
      PROVE  <<<<c>>>> \in Seq(Line) /\ Joined(<<<<c>>>>) = <<c>> \o CRLF
  <2> DEFINE l == <<c>>
             L == Seq(Symbols)
  <2>1. l \in Line /\ l \in L /\ l \o CRLF \in Seq(Symbols) /\ <<>> \in Seq(L)
    BY LineEnd DEF Line
  <2>2. \A ls \in Seq(L), k \in L : Joined(Append(ls, k)) = Joined(ls) \o (k \o CRLF)
    BY JoinedLaws
  <2> HIDE DEF l, L
  <2>3. Joined(Append(<<>>, l)) = Joined(<<>>) \o (l \o CRLF)
    BY <2>1, <2>2
  <2>4. Append(<<>>, l) = <<l>> /\ <<l>> \in Seq(Line)
    BY <2>1
  <2>5. Joined(<<l>>) = l \o CRLF
    BY <2>1, <2>3, <2>4, JoinedLaws, ConcatEmptySeq
  <2> QED BY <2>4, <2>5 DEF l
<1>2. "+OK" \in Symbols \ {"LF"} /\ "-ERR" \in Symbols \ {"LF"} /\ "." \in Symbols \ {"LF"}
  BY DEF Symbols, Characters
<1> QED BY <1>1, <1>2 DEF Fine, Wrong, End, Single

\* A reply of several lines is its lines.
LEMMA FramedIsMultiLine ==
  ASSUME NEW text \in Seq(Text)
  PROVE  MultiLine(text) = Joined(Framed(text))
<1> DEFINE L == Seq(Symbols)
           m == Inside(text)
<1>1. Fine \in Seq(L) /\ m \in Seq(L) /\ End \in Seq(L)
  BY ShortReplies, FramedLines, LineIsSymbols
<1>2. \A a, b \in Seq(L) : Joined(a \o b) = Joined(a) \o Joined(b)
  BY JoinedOfTwo
<1>3. Joined(Fine) \in Seq(Symbols) /\ Joined(m) \in Seq(Symbols) /\ Joined(End) \in Seq(Symbols)
  BY <1>1, JoinedLaws
<1>4. MultiLine(text) = Joined(Fine) \o Joined(m) \o <<".">> \o CRLF
  BY ShortReplies DEF MultiLine, Inside
<1>5. Joined(Fine) \o Joined(m) \o <<".">> \o CRLF = Joined(Fine) \o Joined(m) \o (<<".">> \o CRLF)
  <2> DEFINE a == Joined(Fine) \o Joined(m)
  <2>1. a \in Seq(Symbols) /\ <<".">> \in Seq(Symbols) /\ CRLF \in Seq(Symbols)
    BY <1>3, LineEnd DEF Symbols, Characters
  <2> HIDE DEF a
  <2>2. (a \o <<".">>) \o CRLF = a \o (<<".">> \o CRLF)
    BY <2>1, ConcatAssociative
  <2> QED BY <2>2 DEF a
<1> HIDE DEF L, m
<1>6. Joined((Fine \o m) \o End) = (Joined(Fine) \o Joined(m)) \o Joined(End)
  <2>1. Fine \o m \in Seq(L)
    BY <1>1
  <2> QED BY <1>1, <1>2, <2>1
<1>7. Framed(text) = (Fine \o m) \o End
  BY DEF Framed, m
<1> QED BY <1>4, <1>5, <1>6, <1>7, ShortReplies

\* The texts that a reply brings hold lines without a line feed.
LEMMA TextsAreText ==
  ASSUME mail \in Seq(Characters), NEW cmd, cmd.lines \in Nat
  PROVE  Texts(cmd) \subseteq Seq(Text)
<1>1. LinesOf(mail) \in Seq(Text) /\ TopOf(mail, cmd.lines) \in Seq(Text)
  BY LinesJoinToTheMessage, TopIsText
<1>2. <<"x">> \in Text
  BY DEF Text, Characters
<1>3. Capabilities \in Seq(Text) /\ <<>> \in Seq(Text) /\ << <<"x">> >> \in Seq(Text)
  <2> DEFINE a == <<"x">>
             X == Text
  <2> HIDE DEF a, X
  <2>1. a \in X
    BY <1>2 DEF a, X
  <2>2. [i \in 1..4 |-> a] \in Seq(X) /\ <<>> \in Seq(X) /\ <<a>> \in Seq(X)
    BY <2>1
  <2> QED BY <2>2 DEF a, X, Capabilities
<1>4. ASSUME NEW t \in Texts(cmd) PROVE t \in Seq(Text)
  <2>1. t \in {LinesOf(mail), TopOf(mail, cmd.lines), Capabilities, <<>>, << <<"x">> >>}
    BY DEF Texts
  <2> HIDE DEF Text, Texts
  <2> QED BY <1>1, <1>3, <2>1
<1> QED BY <1>4

\* A whole reply is lines, and not empty.
LEMMA RepliesAreLines ==
  ASSUME mail \in Seq(Characters), NEW cmd, cmd.lines \in Nat, NEW reply \in Replies(cmd)
  PROVE  reply \in Seq(Line) /\ Len(reply) \in Nat \ {0}
<1>1. CASE reply \in {Wrong, Fine}
  <2>1. Len(Wrong) = 1 /\ Len(Fine) = 1
    BY DEF Wrong, Fine
  <2>2. Fine \in Seq(Line) /\ Wrong \in Seq(Line)
    BY ShortReplies
  <2>3. 1 \in Nat \ {0}
    OBVIOUS
  <2> HIDE DEF Line
  <2> QED BY <1>1, <2>1, <2>2, <2>3
<1>2. CASE reply \notin {Wrong, Fine}
  <2>1. PICK text \in Texts(cmd) : reply = Framed(text)
    BY <1>2 DEF Replies
  <2>2. text \in Seq(Text)
    BY TextsAreText
  <2> QED BY <2>1, <2>2, FramedLines
<1> QED BY <1>1, <1>2

-----------------------------------------------------------------------------
(* What the client takes for a reply *)

\* What may follow a whole reply: nothing, or an error, the notice of the idle timeout,
\* or both.
Rests == {<<>>, Wrong, Wrong \o Wrong}

\* What may follow is lines.
LEMMA RestsAreErrors ==
  ASSUME NEW rest \in Rests
  PROVE  rest \in Seq(Line) /\ Len(rest) \in Nat
<1> DEFINE X == Line
           a == <<"-ERR">>
<1>1. a \in X
  BY DEF Line, Symbols
<1>2. rest \in {<<>>, <<a>>, <<a>> \o <<a>>}
  BY DEF Rests, Wrong
<1> HIDE DEF X, a
<1>3. <<a>> \in Seq(X) /\ <<a>> \o <<a>> \in Seq(X)
  BY <1>1
<1>4. rest \in Seq(X) /\ Len(rest) \in Nat
  <2>1. <<>> \in Seq(X) /\ \A s \in Seq(X) : Len(s) \in Nat
    OBVIOUS
  <2> QED BY <1>2, <1>3, <2>1, Zenon
<1> QED BY <1>4 DEF X

\* The first line of what is on the wire tells a positive reply.
LEMMA FirstLine == Positive(<<"+OK">>) /\ ~ Positive(<<"-ERR">>)
<1>1. Head(<<"+OK">>) = "+OK" /\ Head(<<"-ERR">>) = "-ERR"
  OBVIOUS
<1> QED BY <1>1 DEF Positive

\* What a client takes for a reply is among the lines.
LEMMA ExtentIsWithin ==
  ASSUME NEW cmd, NEW lines \in Seq(Line), Extent(cmd, lines) > 0
  PROVE  Extent(cmd, lines) \in 1..Len(lines)
<1> DEFINE X == Line
           T == Terminators(lines)
<1>1. Len(lines) \in Nat /\ (lines # <<>> => Len(lines) >= 1)
  <2> HIDE DEF X
  <2>1. lines \in Seq(X)
    BY DEF X
  <2> QED BY <2>1
<1>2. CASE lines = <<>>
  <2>1. Extent(cmd, lines) = 0
    BY <1>2 DEF Extent
  <2> QED BY <2>1
<1>3. CASE lines # <<>> /\ ~ (IsMulti(cmd) /\ Positive(lines[1]))
  <2>1. Extent(cmd, lines) = 1
    BY <1>3 DEF Extent
  <2> QED BY <1>1, <1>3, <2>1
<1>4. CASE lines # <<>> /\ IsMulti(cmd) /\ Positive(lines[1])
  <2>1. Extent(cmd, lines) = IF T = {} THEN 0 ELSE CHOOSE i \in T : \A j \in T : i <= j
    BY <1>4 DEF Extent
  <2>2. T # {}
    BY <2>1
  <2>3. T \subseteq 2..Len(lines) /\ T \subseteq Nat
    BY <1>1 DEF Terminators
  <2> HIDE DEF T
  <2>4. PICK x \in T : \A y \in T : ~ (<<y, x>> \in OpToRel(<, Nat))
    <3> HIDE DEF OpToRel
    <3> QED BY <2>2, <2>3, WFMin, NatLessThanWellFounded
  <2>5. \A y \in T : x <= y
    <3> SUFFICES ASSUME NEW y \in T, ~ (x <= y) PROVE FALSE
      OBVIOUS
    <3>1. x \in Nat /\ y \in Nat /\ y < x
      BY <2>3
    <3>2. <<y, x>> \in OpToRel(<, Nat)
      BY <3>1 DEF OpToRel
    <3> QED BY <2>4, <3>2
  <2> DEFINE e == CHOOSE i \in T : \A j \in T : i <= j
  <2>6. e \in T
    BY <2>5
  <2>7. Extent(cmd, lines) = e
    BY <2>1, <2>2
  <2> HIDE DEF e
  <2> QED BY <1>1, <2>3, <2>6, <2>7
<1> QED BY <1>2, <1>3, <1>4

\* Of a reply of several lines the client takes all, and what it finds inside are the
\* lines that went out.
LEMMA FramedIsTaken ==
  ASSUME NEW text \in Seq(Text), NEW cmd, IsMulti(cmd), NEW rest \in Rests
  PROVE  LET lines == Framed(text) \o rest
         IN  /\ Extent(cmd, lines) = Len(text) + 2
             /\ lines # <<>> /\ Positive(lines[1])
             /\ \A i \in 1..Len(text) : lines[i + 1] = Stuffed(text[i])
<1> DEFINE X == Line
           f == Framed(text)
           n == Len(text)
           lines == f \o rest
           T == Terminators(lines)
<1>1. /\ f \in Seq(X) /\ n \in Nat /\ Len(f) = n + 2 /\ f[1] = <<"+OK">> /\ f[n + 2] = <<".">>
      /\ \A i \in 1..n : f[i + 1] = Stuffed(text[i])
  BY FramedLines
<1>2. \A i \in 1..n : Stuffed(text[i]) # <<".">>
  <2> DEFINE L == Text
  <2>1. text \in Seq(L) /\ \A l \in L : Stuffed(l) # <<".">>
    BY StuffedLine
  <2> HIDE DEF L
  <2> QED BY <2>1
<1>3. rest \in Seq(X) /\ Len(rest) \in Nat
  BY RestsAreErrors
<1> HIDE DEF X, f, n
<1>4. /\ lines \in Seq(X) /\ Len(lines) \in Nat /\ Len(lines) >= n + 2
      /\ \A i \in 1..(n + 2) : lines[i] = f[i]
  BY <1>1, <1>3
<1> HIDE DEF lines
<1>5. n + 2 \in T
  BY <1>1, <1>4 DEF Terminators
<1>6. ASSUME NEW i \in T PROVE n + 2 <= i
  <2> SUFFICES ASSUME i < n + 2 PROVE FALSE
    BY <1>1, <1>4 DEF Terminators
  <2>1. i \in 2..(n + 1) /\ lines[i] = <<".">>
    BY <1>1, <1>4 DEF Terminators
  <2>2. PICK k \in 1..n : i = k + 1
    <3>1. i - 1 \in 1..n /\ i = (i - 1) + 1
      BY <1>1, <2>1
    <3> QED BY <3>1
  <2>3. lines[i] = f[i] /\ f[k + 1] = Stuffed(text[k])
    BY <1>1, <1>4, <2>1
  <2> QED BY <1>2, <2>1, <2>2, <2>3
<1>7. (CHOOSE i \in T : \A j \in T : i <= j) = n + 2
  <2>1. \A i \in T : i \in Nat
    BY DEF Terminators
  <2> HIDE DEF T
  <2> QED BY <1>1, <1>5, <1>6, <2>1
<1>8. lines # <<>> /\ lines[1] = <<"+OK">>
  BY <1>1, <1>4
<1>9. Extent(cmd, lines) = n + 2
  <2>1. Positive(lines[1])
    BY <1>8, FirstLine
  <2>2. T # {}
    BY <1>5
  <2> QED BY <1>7, <1>8, <2>1, <2>2 DEF Extent
<1>10. \A i \in 1..n : lines[i + 1] = Stuffed(text[i])
  BY <1>1, <1>4
<1> QED BY <1>8, <1>9, <1>10, FirstLine DEF lines, f, n

\* Of a whole reply the client takes all and nothing more.
LEMMA ReplyIsTaken ==
  ASSUME mail \in Seq(Characters), NEW cmd, cmd.lines \in Nat,
         NEW reply \in Replies(cmd), NEW rest \in Rests
  PROVE  Extent(cmd, reply \o rest) = Len(reply)
<1> DEFINE lines == reply \o rest
<1>1. ASSUME reply \in {Wrong, Fine}, reply = Fine => ~ IsMulti(cmd)
      PROVE  Extent(cmd, lines) = Len(reply)
  <2>1. PICK c \in {"+OK", "-ERR"} : reply = <<<<c>>>> /\ (c = "+OK" => reply = Fine)
    BY <1>1 DEF Fine, Wrong
  <2>2. Len(reply) = 1 /\ lines # <<>> /\ lines[1] = <<c>>
    <3> DEFINE a == <<c>>
               b == <<"-ERR">>
    <3> HIDE DEF a, b
    <3>1. (<<a>> \o <<>>)[1] = a /\ (<<a>> \o <<b>>)[1] = a /\ Len(<<a>>) = 1
          /\ <<a>> \o <<>> # <<>> /\ <<a>> \o <<b>> # <<>>
          /\ (<<a>> \o (<<b>> \o <<b>>))[1] = a /\ <<a>> \o (<<b>> \o <<b>>) # <<>>
      OBVIOUS
    <3> QED BY <2>1, <3>1 DEF a, b, Rests, Wrong
  <2> HIDE DEF lines
  <2>3. ~ (IsMulti(cmd) /\ Positive(lines[1]))
    BY <1>1, <2>1, <2>2, FirstLine
  <2> QED BY <2>2, <2>3 DEF Extent
<1>2. CASE reply = Wrong
  <2>1. Wrong # Fine
    BY DEF Wrong, Fine
  <2> QED BY <1>1, <1>2, <2>1
<1>3. CASE reply # Wrong /\ ~ IsMulti(cmd)
  BY <1>1, <1>3 DEF Replies
<1>4. CASE reply # Wrong /\ IsMulti(cmd)
  <2>1. PICK text \in Texts(cmd) : reply = Framed(text)
    BY <1>4 DEF Replies
  <2>2. text \in Seq(Text)
    BY TextsAreText
  <2>3. Len(reply) = Len(text) + 2
    BY <2>1, <2>2, FramedLines
  <2>4. Extent(cmd, Framed(text) \o rest) = Len(text) + 2
    BY <1>4, <2>2, FramedIsTaken
  <2> QED BY <2>1, <2>3, <2>4
<1> QED BY <1>2, <1>3, <1>4

\* What a cut and the error after it leave of a reply: a part of the reply without its
\* end, and a last line that does not look like the end either.
LEMMA CutReply ==
  ASSUME mail \in Seq(Characters), NEW cmd, cmd.lines \in Nat,
         NEW reply \in Replies(cmd), NEW n \in 0..(Len(Joined(reply)) - 1)
  PROVE  \E lines \in Seq(Line) :
           /\ SubSeq(Joined(reply), 1, n) \o Single("-ERR") = Joined(lines)
           /\ Terminators(lines) = {}
           /\ Len(lines) = 1 \/ (IsMulti(cmd) /\ Positive(lines[1]))
<1> DEFINE X == Line
<1>1. reply \in Seq(X) /\ Len(reply) \in Nat \ {0}
  BY RepliesAreLines
<1>2. PICK k \in 0..(Len(reply) - 1), p \in X :
        SubSeq(Joined(reply), 1, n) = Joined(SubSeq(reply, 1, k)) \o p
  BY <1>1, CutShort
<1> DEFINE first == SubSeq(reply, 1, k)
           q == p \o <<"-ERR">>
           lines == Append(first, q)
<1>3. q \in X /\ q # <<".">>
  <2> DEFINE Y == Symbols \ {"LF"}
             s == "-ERR"
  <2>1. p \in Seq(Y) /\ s \in Y /\ s # "."
    BY DEF Line, Symbols, Characters
  <2> HIDE DEF Y, s
  <2>2. p \o <<s>> \in Seq(Y)
    BY <2>1
  <2>3. p \o <<s>> # <<".">>
    <3>1. Len(p) \in Nat /\ Len(p \o <<s>>) = Len(p) + 1 /\ (p \o <<s>>)[Len(p) + 1] = s
      BY <2>1
    <3>2. Len(<<".">>) = 1 /\ <<".">>[1] = "."
      OBVIOUS
    <3> HIDE DEF X, q, lines
    <3> QED BY <2>1, <3>1, <3>2
  <2> QED BY <2>2, <2>3 DEF Line, Y, s
<1>4. first \o <<>> = first /\ first \in Seq(Seq(Symbols)) /\ p \in Seq(Symbols) /\ q \in Seq(Symbols)
      /\ Joined(first) \in Seq(Symbols) /\ first \in Seq(X)
  <2>1. first \in Seq(X)
    <3> HIDE DEF X
    <3> QED BY <1>1, <1>2
  <2>2. first \in Seq(Seq(Symbols)) /\ p \in Seq(Symbols) /\ q \in Seq(Symbols)
    BY <1>3, <2>1, LineIsSymbols
  <2> HIDE DEF first
  <2> QED BY <2>1, <2>2, JoinedLaws, ConcatEmptySeq
<1> HIDE DEF first, lines, X
<1>5. SubSeq(Joined(reply), 1, n) \o Single("-ERR") = Joined(lines)
  <2>1. Joined(lines) = Joined(first) \o (q \o CRLF)
    BY <1>4, JoinedLaws DEF lines
  <2> DEFINE a == Joined(first)
             e == <<"-ERR">>
  <2>2. /\ a \in Seq(Symbols) /\ e \in Seq(Symbols) /\ CRLF \in Seq(Symbols)
        /\ p \in Seq(Symbols)
    BY <1>4, LineEnd DEF Symbols
  <2> HIDE DEF a, e, q
  <2>3. (a \o p) \o (e \o CRLF) = a \o ((p \o e) \o CRLF)
    <3>1. p \o e \in Seq(Symbols) /\ e \o CRLF \in Seq(Symbols)
      BY ONLY <2>2
    <3>2. (p \o e) \o CRLF = p \o (e \o CRLF)
      BY ONLY <2>2, Associative
    <3>3. (a \o p) \o (e \o CRLF) = a \o (p \o (e \o CRLF))
      <4> DEFINE f == e \o CRLF
      <4>1. f \in Seq(Symbols)
        BY <3>1
      <4> HIDE DEF f
      <4>2. (a \o p) \o f = a \o (p \o f)
        BY ONLY <2>2, <4>1, ZenonT(30), Associative
      <4> QED BY <4>2 DEF f
    <3> QED BY <3>2, <3>3
  <2> QED BY <1>2, <2>1, <2>3 DEF a, e, q, Single, first
<1>6. /\ lines \in Seq(X) /\ Len(lines) = k + 1 /\ k \in Nat /\ k < Len(reply)
      /\ lines[k + 1] = q /\ \A i \in 1..k : lines[i] = reply[i]
  <2>1. first \in Seq(X) /\ Len(first) = k /\ \A i \in 1..k : first[i] = reply[i]
    BY <1>1, <1>2 DEF first
  <2> HIDE DEF q
  <2>2. lines \in Seq(X) /\ Len(lines) = k + 1 /\ lines[k + 1] = q
        /\ \A i \in 1..k : lines[i] = first[i]
    BY <1>3, <2>1, AppendProperties DEF lines
  <2> QED BY <1>1, <1>2, <2>1, <2>2
<1>7. CASE k = 0
  <2>1. Terminators(lines) = {} /\ Len(lines) = 1
    BY <1>6, <1>7 DEF Terminators
  <2> QED BY <1>5, <1>6, <2>1 DEF X
<1>8. CASE k # 0
  <2>1. PICK text \in Texts(cmd) : IsMulti(cmd) /\ reply = Framed(text)
    <3>1. Len(Wrong) = 1 /\ Len(Fine) = 1
      BY DEF Wrong, Fine
    <3>2. reply # Wrong /\ reply # Fine
      <4> DEFINE m == Len(reply)
      <4>1. m \in Nat /\ k \in Nat /\ k < m
        BY <1>1, <1>6
      <4> HIDE DEF m
      <4>2. m # 1
        BY <1>8, <4>1
      <4> QED BY <3>1, <4>2 DEF m
    <3> QED BY <3>2 DEF Replies
  <2>2. text \in Seq(Text)
    BY TextsAreText
  <2>3. /\ Len(text) \in Nat /\ Len(reply) = Len(text) + 2 /\ reply[1] = <<"+OK">>
        /\ \A i \in 1..Len(text) : reply[i + 1] = Stuffed(text[i])
    BY <2>1, <2>2, FramedLines
  <2>4. \A i \in 1..Len(text) : Stuffed(text[i]) # <<".">>
    <3> DEFINE L == Text
    <3>1. text \in Seq(L) /\ \A l \in L : Stuffed(l) # <<".">>
      BY <2>2, StuffedLine
    <3> HIDE DEF L
    <3> QED BY <3>1
  <2>5. lines[1] = <<"+OK">>
    BY <1>6, <1>8, <2>3
  <2>6. ASSUME NEW i \in Terminators(lines) PROVE FALSE
    <3>1. i \in 2..(k + 1) /\ lines[i] = <<".">>
      BY <1>6 DEF Terminators
    <3>2. i # k + 1
      BY <1>3, <1>6, <3>1
    <3>3. PICK j \in 1..Len(text) : i = j + 1
      <4>1. i - 1 \in 1..Len(text) /\ i = (i - 1) + 1
        BY <1>6, <2>3, <3>1, <3>2
      <4> QED BY <4>1
    <3>4. lines[i] = reply[i] /\ reply[j + 1] = Stuffed(text[j])
      BY <1>6, <2>3, <3>1, <3>2
    <3> QED BY <2>4, <3>1, <3>3, <3>4
  <2>7. Terminators(lines) = {}
    BY <2>6
  <2> QED BY <1>5, <1>6, <2>1, <2>5, <2>7, FirstLine DEF X
<1> QED BY <1>6, <1>7, <1>8

-----------------------------------------------------------------------------
(* Commands *)

\* The commands a handler may get.
IsCommand(cmd) ==
  /\ cmd.verb \in Verbs /\ cmd.cut \in BOOLEAN
  /\ cmd.num \in {<<>>} \cup {<<n>> : n \in 1..MaxU32}
  /\ cmd.lines \in 0..MaxU32

\* What the parser makes of a line: the verbs that name a message have its number.
IsParsed(cmd) ==
  /\ IsCommand(cmd) /\ ~ cmd.cut /\ cmd.verb # "OTHER"
  /\ cmd.verb \in {"RETR", "DELE", "TOP"} => cmd.num # <<>>
  /\ cmd.verb \notin {"LIST", "UIDL", "RETR", "DELE", "TOP"} => cmd.num = <<>>

\* A line that parses is a command: its numbers are u32 and that of a message is not 0.
LEMMA ParsedLine ==
  ASSUME NEW verb \in Verbs, NEW words \in SeqOf(Words, MaxWords), Parses(verb, words)
  PROVE  IsParsed(Command(verb, words)) /\ Command(verb, words).verb = verb
<1> DEFINE cmd == Command(verb, words)
<1>1. /\ MaxU32 \in Nat /\ words \in Seq(Words)
      /\ \A w \in Words : IsU32(w) => w \in 0..MaxU32
  <2>1. MaxU32 \in Nat /\ MaxWords \in Nat
    BY WireConstants
  <2>2. words \in Seq(Words)
    BY <2>1 DEF SeqOf
  <2>3. ASSUME NEW w \in Words, IsU32(w) PROVE w \in 0..MaxU32
    BY <2>1, <2>3 DEF Words, IsU32
  <2> QED BY <2>1, <2>2, <2>3
<1>2. cmd.verb = verb /\ cmd.cut = FALSE
  BY DEF Command
<1>3. cmd.num = IF verb \in {"LIST", "UIDL", "RETR", "DELE", "TOP"} /\ words # <<>>
                  THEN <<Head(words)>> ELSE <<>>
  BY DEF Command
<1>4. cmd.lines = IF verb = "TOP" THEN words[2] ELSE 0
  BY DEF Command
<1> HIDE DEF cmd
<1>5. verb # "OTHER"
  BY DEF Parses, Bare
<1>6. ASSUME verb \in {"LIST", "UIDL", "RETR", "DELE", "TOP"}, words # <<>>
      PROVE  Head(words) \in 1..MaxU32
  <2>1. Len(words) \in Nat /\ Len(words) >= 1 /\ words[1] \in Words /\ Head(words) = words[1]
    BY <1>1, <1>6
  <2>2. IsU32(words[1]) /\ words[1] # 0
    BY <1>6 DEF Parses, IsNumber, Bare
  <2> QED BY <1>1, <2>1, <2>2
<1>7. cmd.num \in {<<>>} \cup {<<n>> : n \in 1..MaxU32}
  BY <1>3, <1>6
<1>8. verb \in {"RETR", "DELE", "TOP"} => words # <<>> /\ cmd.num # <<>>
  <2>1. verb \in {"RETR", "DELE", "TOP"} => Len(words) >= 1
    BY <1>1 DEF Parses, IsNumber, Bare
  <2>2. verb \in {"RETR", "DELE", "TOP"} => words # <<>>
    BY <1>1, <2>1
  <2>3. <<Head(words)>> # <<>>
    OBVIOUS
  <2> QED BY <1>3, <2>2, <2>3
<1>9. cmd.lines \in 0..MaxU32
  <2>1. CASE verb = "TOP"
    <3>1. Len(words) >= 2 /\ IsU32(words[2])
      BY <2>1 DEF Parses, Bare
    <3>2. words[2] \in Words
      BY <1>1, <3>1
    <3> QED BY <1>1, <1>4, <2>1, <3>1, <3>2
  <2>2. CASE verb # "TOP"
    BY <1>1, <1>4, <2>2
  <2> QED BY <2>1, <2>2
<1>10. IsCommand(cmd)
  BY <1>2, <1>7, <1>9 DEF IsCommand
<1> QED BY <1>2, <1>3, <1>5, <1>8, <1>10 DEF IsParsed, cmd

\* What the handler of a command sends is a whole reply.
LEMMA HandlersReply ==
  ASSUME mail \in Seq(Characters), NEW cmd, IsParsed(cmd)
  PROVE  \E reply \in Replies(cmd) : Reply(cmd) = Joined(reply)
<1>1. cmd.lines \in Nat /\ cmd.verb \in Verbs
  BY WireConstants DEF IsParsed, IsCommand
<1>2. Texts(cmd) \subseteq Seq(Text)
  BY <1>1, TextsAreText
<1>3. cmd.num # <<0>>
  <2>1. \A n \in 1..MaxU32 : <<n>>[1] # <<0>>[1]
    BY WireConstants
  <2>2. <<>> # <<0>>
    OBVIOUS
  <2> QED BY <2>1, <2>2 DEF IsParsed, IsCommand
<1>a. cmd.num = <<>> => ~ Names(cmd)
  <2>1. <<>> # <<1>>
    OBVIOUS
  <2> QED BY <2>1 DEF Names
<1>b. cmd.verb \notin {"LIST", "UIDL", "RETR", "DELE", "TOP"} => cmd.num = <<>> /\ ~ Names(cmd)
  BY <1>a DEF IsParsed
<1>4. ASSUME Reply(cmd) = Single("-ERR") PROVE \E reply \in Replies(cmd) : Reply(cmd) = Joined(reply)
  BY <1>4, ShortReplies DEF Replies
<1>5. ASSUME Reply(cmd) = Single("+OK"), ~ IsMulti(cmd)
      PROVE  \E reply \in Replies(cmd) : Reply(cmd) = Joined(reply)
  BY <1>5, ShortReplies DEF Replies
<1>6. ASSUME NEW text \in Texts(cmd), Reply(cmd) = MultiLine(text), IsMulti(cmd)
      PROVE  \E reply \in Replies(cmd) : Reply(cmd) = Joined(reply)
  <2>1. MultiLine(text) = Joined(Framed(text))
    BY <1>2, FramedIsMultiLine
  <2>2. Framed(text) \in Replies(cmd)
    BY <1>6 DEF Replies
  <2> QED BY <1>6, <2>1, <2>2
<1>7. CASE cmd.verb \in {"USER", "PASS", "APOP"}
  <2>1. Reply(cmd) = Single("-ERR")
    BY <1>3, <1>b, <1>7 DEF Reply, Bare
  <2> QED BY <1>4, <2>1
<1>8. CASE cmd.verb \in Bare \ {"CAPA"}
  <2>1. Reply(cmd) = Single("+OK") /\ ~ IsMulti(cmd)
    <3>1. Reply(cmd) = Single("+OK")
      BY <1>3, <1>a, <1>b, <1>8 DEF Reply, Bare
    <3>2. ~ IsMulti(cmd)
      BY <1>8 DEF Bare, IsMulti
    <3> QED BY <3>1, <3>2
  <2> QED BY <1>5, <2>1
<1>9. CASE cmd.verb = "CAPA"
  <2>1. Reply(cmd) = MultiLine(Capabilities) /\ IsMulti(cmd)
    <3>1. Reply(cmd) = MultiLine(Capabilities)
      BY <1>3, <1>a, <1>b, <1>9 DEF Reply, Bare
    <3>2. IsMulti(cmd)
      BY <1>9 DEF Bare, IsMulti
    <3> QED BY <3>1, <3>2
  <2>2. Capabilities \in Texts(cmd)
    BY <1>9 DEF Texts
  <2> QED BY <1>6, <2>1, <2>2
<1>10. CASE cmd.verb \in {"LIST", "UIDL"} /\ cmd.num = <<>>
  <2>1. Reply(cmd) = MultiLine(Listing) /\ IsMulti(cmd)
    <3>1. Reply(cmd) = MultiLine(Listing)
      BY <1>3, <1>a, <1>b, <1>10 DEF Reply, Bare
    <3>2. IsMulti(cmd)
      BY <1>10 DEF Bare, IsMulti
    <3> QED BY <3>1, <3>2
  <2>2. Listing \in Texts(cmd)
    BY <1>10 DEF Texts, Listing
  <2> QED BY <1>6, <2>1, <2>2
<1>11. CASE cmd.verb \in {"LIST", "UIDL", "RETR", "DELE", "TOP"} /\ cmd.num # <<>>
  <2>1. CASE ~ Names(cmd)
    <3>1. Reply(cmd) = Single("-ERR")
      BY <1>3, <1>11, <2>1 DEF Reply, Bare
    <3> QED BY <1>4, <3>1
  <2>2. CASE Names(cmd) /\ cmd.verb \in {"LIST", "UIDL", "DELE"}
    <3>1. Reply(cmd) = Single("+OK") /\ ~ IsMulti(cmd)
      BY <1>3, <1>11, <2>2 DEF Reply, Bare, IsMulti
    <3> QED BY <1>5, <3>1
  <2>3. CASE Names(cmd) /\ cmd.verb = "RETR"
    <3>1. Reply(cmd) = MultiLine(LinesOf(mail)) /\ IsMulti(cmd)
      BY <1>3, <1>11, <2>3 DEF Reply, Bare, IsMulti
    <3>2. LinesOf(mail) \in Texts(cmd)
      BY <2>3 DEF Texts
    <3> QED BY <1>6, <3>1, <3>2
  <2>4. CASE Names(cmd) /\ cmd.verb = "TOP"
    <3>1. Reply(cmd) = MultiLine(TopOf(mail, cmd.lines)) /\ IsMulti(cmd)
      BY <1>3, <1>11, <2>4 DEF Reply, Bare, IsMulti
    <3>2. TopOf(mail, cmd.lines) \in Texts(cmd)
      BY <2>4 DEF Texts
    <3> QED BY <1>6, <3>1, <3>2
  <2> QED BY <1>11, <2>1, <2>2, <2>3, <2>4
<1> QED BY <1>1, <1>7, <1>8, <1>9, <1>10, <1>11 DEF Verbs, Bare, IsParsed

-----------------------------------------------------------------------------
(* The invariant *)

\* The lines that were put on the wire are those that are read from it.
LEMMA LinesOnTheWire ==
  ASSUME NEW ls \in Seq(Line)
  PROVE  WireLines(Joined(ls)) = ls
<1>1. Reading(Joined(ls)) = [done |-> ls, line |-> <<>>]
  BY LinesAreRead
<1> QED BY <1>1 DEF WireLines

\* What is on the wire after lines more were sent.
LEMMA SendLines ==
  ASSUME WireInv, NEW cmd, NEW ls \in Seq(Line), NEW symbols, symbols = Joined(ls),
         NEW twice, Send(cmd, symbols, twice)
  PROVE  /\ Lines' = Lines \o ls /\ Lines' \in Seq(Line)
         /\ wire' = Joined(Lines') /\ wire' \in Seq(Symbols)
<1> DEFINE X == Line
           all == Lines \o ls
<1>1. Lines \in Seq(X) /\ ls \in Seq(X) /\ wire = Joined(Lines)
  BY DEF WireInv
<1>2. all \in Seq(X)
  <2> HIDE DEF X
  <2> QED BY <1>1
<1>3. Joined(all) = Joined(Lines) \o Joined(ls) /\ Joined(all) \in Seq(Symbols)
  BY <1>1, <1>2, LineIsSymbols, JoinedOfTwo, JoinedLaws
<1>4. wire' = Joined(all)
  BY <1>1, <1>3 DEF Send
<1> HIDE DEF all
<1>5. Lines' = WireLines(wire')
  BY DEF Lines
<1>6. Lines' = all
  BY <1>2, <1>4, <1>5, LinesOnTheWire
<1> QED BY <1>2, <1>3, <1>4, <1>6 DEF all

\* In step, it is these lines.
LEMMA SendInStep ==
  ASSUME WireInv, MayAsk, stray = 0, NEW cmd, NEW ls \in Seq(Line), NEW symbols,
         symbols = Joined(ls), NEW twice, Send(cmd, symbols, twice)
  PROVE  Lines' = ls /\ wire' = Joined(Lines') /\ wire' \in Seq(Symbols)
<1> DEFINE X == Line
<1>1. Lines = <<>>
  BY DEF WireInv, MayAsk
<1>2. Lines' = Lines \o ls /\ wire' = Joined(Lines') /\ wire' \in Seq(Symbols)
  BY SendLines
<1>3. <<>> \o ls = ls
  <2>1. ls \in Seq(X)
    OBVIOUS
  <2> HIDE DEF X
  <2> QED BY <2>1, ConcatEmptySeq
<1> HIDE DEF X
<1> QED BY <1>1, <1>2, <1>3

\* The initial states.
LEMMA WireInit == Init => WireInv
<1> SUFFICES ASSUME Init PROVE WireInv
  OBVIOUS
<1>1. mail \in Seq(Characters)
  BY WireConstants DEF Init, SeqOf
<1>2. wire = <<>> /\ Lines = <<>> /\ wire = Joined(Lines) /\ <<>> \in Seq(Line) /\ wire \in Seq(Symbols)
  <2>1. <<>> \in Seq(Line) /\ Joined(<<>>) = <<>>
    BY JoinedLaws, EmptySeq
  <2>2. WireLines(Joined(<<>>)) = <<>>
    BY <2>1, LinesOnTheWire
  <2> QED BY <2>1, <2>2, EmptySeq DEF Init, Lines
<1>3. TypeOK
  <2>1. IsCommand(NoCommand)
    BY WireConstants DEF IsCommand, NoCommand, Verbs
  <2>2. /\ asked = NoCommand /\ marked = FALSE /\ ended = FALSE /\ turn = "client"
        /\ stray \in 0..(MaxStray + 1)
    BY WireConstants DEF Init
  <2> QED BY <1>1, <1>2, <2>1, <2>2 DEF TypeOK, IsCommand
<1> QED BY <1>2, <1>3 DEF WireInv, Init

\* The types after a step that answers a line.
LEMMA SendTypes ==
  ASSUME TypeOK, MayAsk, NEW cmd, IsCommand(cmd), NEW symbols, NEW twice \in BOOLEAN,
         Send(cmd, symbols, twice),
         wire' \in Seq(Symbols), marked' \in BOOLEAN, ended' \in BOOLEAN
  PROVE  TypeOK'
<1>1. stray' \in 0..(MaxStray + 1)
  <2>1. MaxStray \in Nat /\ stray \in Nat /\ stray <= MaxStray
    BY WireConstants DEF TypeOK, MayAsk
  <2>2. stray' = stray + 1 \/ stray' = 0
    BY DEF Send
  <2> QED BY <2>1, <2>2
<1> QED BY <1>1 DEF TypeOK, Send, IsCommand

\* Out of step, lines are sent.
LEMMA SentOutOfStep ==
  ASSUME WireInv, MayAsk, stray # 0, NEW cmd, IsCommand(cmd), NEW ls \in Seq(Line),
         NEW symbols, symbols = Joined(ls), NEW twice \in BOOLEAN, Send(cmd, symbols, twice),
         marked' \in BOOLEAN, ended' \in BOOLEAN
  PROVE  WireInv'
<1>1. Lines' \in Seq(Line) /\ wire' = Joined(Lines') /\ wire' \in Seq(Symbols)
  BY SendLines
<1>2. TypeOK'
  BY <1>1, SendTypes DEF WireInv
<1>3. stray' # 0 /\ stray' # 1
  <2>1. stray \in Nat /\ stray # 0
    BY WireConstants DEF WireInv, TypeOK
  <2>2. stray' = stray + 1
    BY <2>1 DEF Send
  <2> QED BY <2>1, <2>2
<1> HIDE DEF Line
<1> QED BY <1>1, <1>2, <1>3 DEF WireInv

\* A whole reply is sent.
LEMMA WholeReplySent ==
  ASSUME WireInv, MayAsk, NEW cmd, IsCommand(cmd), ~ cmd.cut,
         NEW reply \in Replies(cmd), NEW symbols, symbols = Joined(reply),
         Send(cmd, symbols, FALSE), marked' \in BOOLEAN, ended' \in BOOLEAN
  PROVE  WireInv'
<1>1. mail \in Seq(Characters) /\ cmd.lines \in Nat
  BY WireConstants DEF WireInv, TypeOK, IsCommand
<1>2. reply \in Seq(Line)
  BY <1>1, RepliesAreLines
<1>3. CASE stray = 0
  <2>1. Lines' = reply /\ wire' = Joined(Lines') /\ wire' \in Seq(Symbols)
    BY <1>2, <1>3, SendInStep
  <2>2. turn' = "server" /\ asked' = cmd /\ mail' = mail /\ stray' = 0
    BY <1>3 DEF Send
  <2>3. Replies(asked)' = Replies(cmd)
    BY <2>2 DEF Replies, Texts
  <2>4. TypeOK'
    BY <2>1, SendTypes DEF WireInv
  <2> HIDE DEF Line
  <2> QED BY <1>2, <2>1, <2>2, <2>3, <2>4 DEF WireInv
<1>4. CASE stray # 0
  BY <1>2, <1>4, SentOutOfStep
<1> QED BY <1>3, <1>4

\* A part of a reply is sent, and the error after it.
LEMMA CutReplySent ==
  ASSUME WireInv, MayAsk, NEW cmd, IsCommand(cmd),
         NEW c, IsCommand(c), c.cut, c.verb = cmd.verb, c.num = cmd.num,
         NEW reply \in Replies(cmd), NEW n \in 0..(Len(Joined(reply)) - 1),
         NEW symbols, symbols = SubSeq(Joined(reply), 1, n) \o Single("-ERR"),
         Send(c, symbols, FALSE), marked' \in BOOLEAN, ended' \in BOOLEAN
  PROVE  WireInv'
<1>1. mail \in Seq(Characters) /\ cmd.lines \in Nat
  BY WireConstants DEF WireInv, TypeOK, IsCommand
<1>2. PICK lines \in Seq(Line) :
        /\ SubSeq(Joined(reply), 1, n) \o Single("-ERR") = Joined(lines)
        /\ Terminators(lines) = {}
        /\ Len(lines) = 1 \/ (IsMulti(cmd) /\ Positive(lines[1]))
  BY <1>1, CutReply
<1>3. CASE stray = 0
  <2>1. Lines' = lines /\ wire' = Joined(Lines') /\ wire' \in Seq(Symbols)
    BY <1>2, <1>3, SendInStep
  <2>2. turn' = "server" /\ asked' = c /\ IsMulti(asked)' = IsMulti(cmd) /\ stray' = 0
    BY <1>3 DEF Send, IsMulti
  <2>3. TypeOK'
    BY <2>1, SendTypes DEF WireInv
  <2>4. Terminators(Lines)' = Terminators(lines) /\ Positive(Lines[1])' = Positive(lines[1])
    BY <2>1 DEF Terminators, Positive
  <2> HIDE DEF Line
  <2> QED BY <1>2, <2>1, <2>2, <2>3, <2>4 DEF WireInv
<1>4. CASE stray # 0
  BY <1>2, <1>4, SentOutOfStep
<1> QED BY <1>3, <1>4

\* A whole reply is sent, and an error after it.
LEMMA LateErrorSent ==
  ASSUME WireInv, MayAsk, NEW cmd, IsCommand(cmd), NEW c, IsCommand(c), c.cut,
         Replies(c) = Replies(cmd), NEW reply \in Replies(cmd),
         NEW symbols, symbols = Joined(reply) \o Single("-ERR"),
         Send(c, symbols, TRUE), marked' \in BOOLEAN, ended' \in BOOLEAN
  PROVE  WireInv'
<1> DEFINE X == Line
           both == reply \o Wrong
<1>1. mail \in Seq(Characters) /\ cmd.lines \in Nat
  BY WireConstants DEF WireInv, TypeOK, IsCommand
<1>2. reply \in Seq(X) /\ Wrong \in Seq(X)
  BY <1>1, RepliesAreLines, ShortReplies
<1>3. both \in Seq(X)
  <2> HIDE DEF X
  <2> QED BY <1>2
<1>4. symbols = Joined(both)
  BY <1>2, LineIsSymbols, JoinedOfTwo, ShortReplies
<1> HIDE DEF both
<1>5. CASE stray = 0
  <2>1. Lines' = both /\ wire' = Joined(Lines') /\ wire' \in Seq(Symbols)
    BY <1>3, <1>4, <1>5, SendInStep
  <2>2. turn' = "server" /\ asked' = c /\ mail' = mail /\ stray' = 1
    BY <1>5 DEF Send
  <2>3. Replies(asked)' = Replies(cmd)
    <3>1. Replies(asked)' = Replies(c)
      BY <2>2 DEF Replies, Texts
    <3> QED BY <3>1
  <2>4. TypeOK'
    BY <2>1, SendTypes DEF WireInv
  <2>5. \E r \in Replies(cmd) : Lines' = r \o Wrong
    BY <2>1 DEF both
  <2>6. Lines' \in Seq(Line)
    BY <1>3, <2>1
  <2>7. \E r \in Replies(asked)' :
          Lines' = r \o Wrong \/ (ended' /\ Lines' = (r \o Wrong) \o Wrong)
    BY <2>3, <2>5
  <2>8. stray' # 0
    BY <2>2
  <2> HIDE DEF X, Line
  <2> QED BY ONLY <2>1, <2>4, <2>6, <2>7, <2>8, Zenon DEF WireInv
<1>6. CASE stray # 0
  BY <1>3, <1>4, <1>6, SentOutOfStep
<1> QED BY <1>5, <1>6

\* Refuse leaves the invariant as it is.
LEMMA RefuseKeepsIt ==
  ASSUME WireInv, NEW verb \in Verbs, NEW words \in SeqOf(Words, MaxWords), Refuse(verb, words)
  PROVE  WireInv'
<1>1. IsCommand(NoCommand) /\ ~ NoCommand.cut
  BY WireConstants DEF IsCommand, NoCommand, Verbs
<1>2. Wrong \in Replies(NoCommand) /\ Single("-ERR") = Joined(Wrong)
  BY ShortReplies DEF Replies
<1>3. MayAsk /\ Send(NoCommand, Single("-ERR"), FALSE)
  BY DEF Refuse
<1>4. marked' \in BOOLEAN /\ ended' \in BOOLEAN
  BY DEF Refuse, WireInv, TypeOK
<1> QED BY <1>1, <1>2, <1>3, <1>4, WholeReplySent

\* So does Answer.
LEMMA AnswerKeepsIt ==
  ASSUME WireInv, NEW verb \in Verbs, NEW words \in SeqOf(Words, MaxWords), Answer(verb, words)
  PROVE  WireInv'
<1> DEFINE cmd == Command(verb, words)
<1>1. IsParsed(cmd)
  BY ParsedLine DEF Answer
<1>2. MayAsk /\ Send(cmd, Reply(cmd), FALSE)
  BY DEF Answer
<1>3. marked' \in BOOLEAN /\ ended' \in BOOLEAN
  BY DEF Answer
<1>4. PICK reply \in Replies(cmd) : Reply(cmd) = Joined(reply)
  <2>1. mail \in Seq(Characters)
    BY DEF WireInv, TypeOK
  <2> QED BY <1>1, <2>1, HandlersReply
<1> HIDE DEF cmd
<1>5. IsCommand(cmd) /\ ~ cmd.cut
  BY <1>1 DEF IsParsed
<1> QED BY <1>2, <1>3, <1>4, <1>5, WholeReplySent

\* So does Fail.
LEMMA FailKeepsIt ==
  ASSUME WireInv, NEW verb \in Verbs, NEW words \in SeqOf(Words, MaxWords), Fail(verb, words)
  PROVE  WireInv'
<1> DEFINE cmd == Command(verb, words)
<1>1. IsParsed(cmd)
  BY ParsedLine DEF Fail
<1>2. MayAsk /\ Send(cmd, Single("-ERR"), FALSE)
  BY DEF Fail
<1>3. marked' \in BOOLEAN /\ ended' \in BOOLEAN
  BY DEF Fail, WireInv, TypeOK
<1>4. Wrong \in Replies(cmd) /\ Single("-ERR") = Joined(Wrong)
  BY ShortReplies DEF Replies
<1> HIDE DEF cmd
<1>5. IsCommand(cmd) /\ ~ cmd.cut
  BY <1>1 DEF IsParsed
<1> QED BY <1>2, <1>3, <1>4, <1>5, WholeReplySent

\* So does Cut.
LEMMA CutKeepsIt ==
  ASSUME WireInv, NEW verb \in Verbs, NEW words \in SeqOf(Words, MaxWords), Cut(verb, words)
  PROVE  WireInv'
<1> DEFINE cmd == Command(verb, words)
           c == [cmd EXCEPT !.cut = TRUE]
<1>1. IsParsed(cmd)
  BY ParsedLine DEF Cut
<1>2. /\ IsCommand(cmd) /\ IsCommand(c) /\ c.cut /\ c.verb = cmd.verb /\ c.num = cmd.num
      /\ c.lines = cmd.lines
  <2>1. c.cut = TRUE /\ c.verb = cmd.verb /\ c.num = cmd.num /\ c.lines = cmd.lines
    BY DEF Command
  <2> HIDE DEF c, cmd
  <2> QED BY <1>1, <2>1 DEF IsParsed, IsCommand
<1>3. MayAsk
  BY DEF Cut
<1>4. marked' \in BOOLEAN /\ ended' \in BOOLEAN
  BY DEF Cut
<1>5. PICK n \in 0..Len(Reply(cmd)) :
        Send(c, SubSeq(Reply(cmd), 1, n) \o Single("-ERR"), n = Len(Reply(cmd)))
  BY DEF Cut
<1>6. mail \in Seq(Characters)
  BY DEF WireInv, TypeOK
<1>7. PICK reply \in Replies(cmd) : Reply(cmd) = Joined(reply)
  BY <1>1, <1>6, HandlersReply
<1> HIDE DEF cmd, c
<1>8. Joined(reply) \in Seq(Symbols)
  <2>1. cmd.lines \in Nat
    BY <1>2, WireConstants DEF IsCommand
  <2> QED BY <1>6, <2>1, RepliesAreLines, LineIsSymbols, JoinedLaws
<1> DEFINE all == Joined(reply)
           m == Len(all)
<1>9. m \in Nat /\ SubSeq(all, 1, m) = all
  <2> HIDE DEF all
  <2> QED BY <1>8 DEF all
<1>10. n \in 0..m /\ Send(c, SubSeq(all, 1, n) \o Single("-ERR"), n = m)
  BY <1>5, <1>7
<1> HIDE DEF m
<1>11. CASE n = m
  <2>1. Send(c, all \o Single("-ERR"), TRUE)
    <3>1. (n = m) = TRUE
      BY <1>11
    <3> QED BY <1>9, <1>10, <1>11, <3>1
  <2>2. Replies(c) = Replies(cmd)
    BY <1>2 DEF Replies, Texts, IsMulti
  <2> QED BY <1>2, <1>3, <1>4, <2>1, <2>2, LateErrorSent
<1>12. CASE n # m
  <2>1. Send(c, SubSeq(all, 1, n) \o Single("-ERR"), FALSE)
    <3>1. (n = m) = FALSE
      BY <1>12
    <3> QED BY <1>10, <3>1
  <2>2. n \in 0..(m - 1)
    BY <1>9, <1>10, <1>12
  <2> QED BY <1>2, <1>3, <1>4, <2>1, <2>2, CutReplySent DEF m
<1> QED BY <1>11, <1>12

\* What the client takes in step is all there is while the server goes on.
LEMMA TakenLines ==
  ASSUME WireInv, stray = 0, turn = "server", Complete
  PROVE  ~ ended => Extent(asked, Lines) = Len(Lines)
<1> DEFINE X == Line
<1>1. Lines \in Seq(X) /\ mail \in Seq(Characters) /\ asked.lines \in Nat /\ asked.cut \in BOOLEAN
  BY WireConstants DEF WireInv, TypeOK
<1> HIDE DEF X
<1>2. CASE ~ asked.cut
  <2>1. PICK reply \in Replies(asked) : Lines = reply \/ (ended /\ Lines = reply \o Wrong)
    BY <1>2 DEF WireInv
  <2>2. reply \in Seq(Line) /\ Len(reply) \in Nat \ {0} /\ reply \o <<>> = reply
    BY <1>1, RepliesAreLines, ConcatEmptySeq
  <2>3. Extent(asked, reply \o <<>>) = Len(reply) /\ Extent(asked, reply \o Wrong) = Len(reply)
    BY <1>1, ReplyIsTaken DEF Rests
  <2>4. Wrong \in Seq(Line) /\ Len(Wrong) = 1
    BY ShortReplies DEF Wrong
  <2>5. Len(reply \o Wrong) = Len(reply) + 1
    <3> HIDE DEF Line
    <3> QED BY <2>2, <2>4, ConcatProperties
  <2>6. Extent(asked, Lines) = Len(reply)
    BY <2>1, <2>2, <2>3
  <2> QED BY <2>1, <2>2, <2>5, <2>6
<1>3. CASE asked.cut
  <2>1. Terminators(Lines) = {} /\ (ended \/ Len(Lines) = 1 \/ (IsMulti(asked) /\ Positive(Lines[1])))
    BY <1>3 DEF WireInv
  <2>2. Extent(asked, Lines) > 0
    BY DEF Complete, Lines
  <2>3. Lines # <<>> /\ ~ (IsMulti(asked) /\ Positive(Lines[1]))
    BY <2>1, <2>2 DEF Extent
  <2>4. Extent(asked, Lines) = 1
    BY <2>3 DEF Extent
  <2>5. Len(Lines) \in Nat /\ Len(Lines) >= 1
    BY <1>1, <2>3
  <2> QED BY <2>1, <2>3, <2>4, <2>5
<1> QED BY <1>1, <1>2, <1>3

\* So does Take.
LEMMA TakeKeepsIt ==
  ASSUME WireInv, Take
  PROVE  WireInv'
<1> DEFINE e == Extent(asked, Lines)
           rest == SubSeq(Lines, e + 1, Len(Lines))
           X == Line
<1>1. e \in 1..Len(Lines) /\ (stray = 0 /\ ~ ended => e = Len(Lines))
  <2>1. Lines \in Seq(Line) /\ e > 0 /\ turn = "server" /\ Complete
    BY DEF Take, Complete, Lines, WireInv
  <2> HIDE DEF e
  <2>2. e \in 1..Len(Lines)
    BY <2>1, ExtentIsWithin DEF e
  <2> QED BY <2>1, <2>2, TakenLines DEF e
<1>2. Lines \in Seq(X) /\ Len(Lines) \in Nat
  BY DEF WireInv
<1>3. rest \in Seq(X) /\ (stray = 0 /\ ~ ended => rest = <<>>)
  <2> HIDE DEF X, e
  <2> QED BY <1>1, <1>2
<1>4. wire' = Joined(rest) /\ turn' = "client" /\ asked' = NoCommand
      /\ mail' = mail /\ marked' = marked /\ ended' = ended /\ stray' = stray
  BY DEF Take, Lines
<1> HIDE DEF rest
<1>5. Lines' = rest /\ wire' = Joined(Lines') /\ wire' \in Seq(Symbols)
  <2>1. Lines' = WireLines(wire')
    BY DEF Lines
  <2>2. Joined(rest) \in Seq(Symbols)
    BY <1>3, LineIsSymbols, JoinedLaws
  <2> QED BY <1>3, <1>4, <2>1, <2>2, LinesOnTheWire
<1>6. TypeOK'
  <2>1. IsCommand(NoCommand)
    BY WireConstants DEF IsCommand, NoCommand, Verbs
  <2> QED BY <1>4, <1>5, <2>1 DEF WireInv, TypeOK, IsCommand
<1> QED BY <1>3, <1>4, <1>5, <1>6 DEF WireInv

\* So does IdleTimeout.
LEMMA IdleTimeoutKeepsIt ==
  ASSUME WireInv, IdleTimeout
  PROVE  WireInv'
<1> DEFINE X == Line
           more == Lines \o Wrong
<1>1. Lines \in Seq(X) /\ Wrong \in Seq(X) /\ wire = Joined(Lines)
  BY ShortReplies DEF WireInv
<1>2. wire' = Joined(more) /\ more \in Seq(X)
  <2>1. Joined(more) = Joined(Lines) \o Joined(Wrong)
    BY <1>1, LineIsSymbols, JoinedOfTwo
  <2>2. more \in Seq(X)
    <3> HIDE DEF X
    <3> QED BY <1>1
  <2> QED BY <1>1, <2>1, <2>2, ShortReplies DEF IdleTimeout
<1>3. /\ ended' /\ ended' \in BOOLEAN /\ ~ ended /\ mail' = mail /\ marked' = marked
      /\ turn' = turn /\ asked' = asked /\ stray' = stray
  BY DEF IdleTimeout
<1>4. Lines' = more /\ wire' = Joined(Lines') /\ wire' \in Seq(Symbols)
  <2>1. Lines' = WireLines(wire')
    BY DEF Lines
  <2>2. Joined(more) \in Seq(Symbols)
    BY <1>2, LineIsSymbols, JoinedLaws
  <2> HIDE DEF more
  <2> QED BY <1>2, <2>1, <2>2, LinesOnTheWire
<1>5. TypeOK'
  BY <1>3, <1>4 DEF WireInv, TypeOK
<1>6. ASSUME stray = 0, turn = "server", ~ asked.cut
      PROVE  \E reply \in Replies(asked) : more = reply \o Wrong
  <2>1. PICK reply \in Replies(asked) : Lines = reply
    BY <1>3, <1>6 DEF WireInv
  <2> QED BY <2>1
<1>7. ASSUME Terminators(Lines) = {} PROVE Terminators(more) = {}
  <2> DEFINE L == Lines
             n == Len(L)
             a == <<"-ERR">>
  <2>1. L \in Seq(X) /\ a \in X /\ a # <<".">>
    BY <1>1 DEF Line, Symbols
  <2>2. ASSUME NEW i \in 2..Len(more), more[i] = <<".">> PROVE FALSE
    <3> HIDE DEF L, a, X
    <3>1. Len(L \o <<a>>) = n + 1 /\ (L \o <<a>>)[n + 1] = a /\ n \in Nat
          /\ \A j \in 1..n : (L \o <<a>>)[j] = L[j]
      BY <2>1
    <3>2. more = L \o <<a>>
      BY DEF L, a, Wrong
    <3> HIDE DEF more, n
    <3>3. i # n + 1
      BY <2>1, <2>2, <3>1, <3>2
    <3>4. i \in 2..n /\ L[i] = <<".">>
      BY <2>2, <3>1, <3>2, <3>3
    <3> QED BY <1>7, <3>4 DEF Terminators, L, n
  <2> QED BY <2>2 DEF Terminators
<1>8. Replies(asked)' = Replies(asked)
  BY <1>3 DEF Replies, Texts
<1>10. ASSUME stray = 1, turn = "server"
       PROVE  \E reply \in Replies(asked) : more = (reply \o Wrong) \o Wrong
  <2>1. PICK reply \in Replies(asked) : Lines = reply \o Wrong
    BY <1>3, <1>10 DEF WireInv
  <2> QED BY <2>1
<1>9. Terminators(Lines)' = Terminators(more)
  BY <1>4 DEF Terminators
<1> HIDE DEF more, X
<1> QED BY <1>2, <1>3, <1>4, <1>5, <1>6, <1>7, <1>8, <1>9, <1>10 DEF WireInv, X

\* Every step does.
LEMMA WireStep == WireInv /\ [Next]_vars => WireInv'
<1> SUFFICES ASSUME WireInv, [Next]_vars PROVE WireInv'
  OBVIOUS
<1>1. ASSUME NEW verb \in Verbs, NEW words \in SeqOf(Words, MaxWords),
             Refuse(verb, words) \/ Answer(verb, words) \/ Fail(verb, words) \/ Cut(verb, words)
      PROVE  WireInv'
  BY <1>1, RefuseKeepsIt, AnswerKeepsIt, FailKeepsIt, CutKeepsIt
<1>2. CASE Take
  BY <1>2, TakeKeepsIt
<1>3. CASE IdleTimeout
  BY <1>3, IdleTimeoutKeepsIt
<1>4. CASE UNCHANGED vars
  <2>1. Lines' = Lines /\ Replies(asked)' = Replies(asked) /\ Terminators(Lines)' = Terminators(Lines)
    BY <1>4 DEF vars, Lines, Replies, Texts, Terminators
  <2> QED BY <1>4, <2>1 DEF vars, WireInv, TypeOK
<1> QED BY <1>1, <1>2, <1>3, <1>4 DEF Next

\* In every state that is reached nothing but whole lines is on the wire, and as long as
\* client and server are in step they are a whole reply, a cut one or nothing; when the
\* timeout came after a whole reply they are it and the error.  From this the properties
\* of Wire follow.
THEOREM WireInvariant == Spec => []WireInv
<1> QED BY WireInit, WireStep, PTL DEF Spec

\* Every variable holds a value of its kind; the number a handler gets is a u32 and never
\* 0, whatever the client typed (command.rs).
THEOREM WireTypes == Spec => []TypeOK
<1>1. WireInv => TypeOK
  BY DEF WireInv
<1> QED BY <1>1, WireInvariant, PTL

\* Of any message, of any length, the client finds exactly one reply to its line: the
\* framing of response.rs keeps the two in step until an error follows a whole reply.
THEOREM RepliesInStep == Spec => []InStep
<1>1. WireInv => InStep
  <2> SUFFICES ASSUME WireInv, ~ ended, stray = 0 PROVE InStep
    BY DEF InStep
  <2>1. CASE turn = "client"
    <3>1. wire = <<>>
      BY <2>1, JoinedLaws DEF WireInv
    <3> QED BY <2>1, <3>1 DEF InStep
  <2>2. CASE turn = "server" /\ ~ asked.cut
    <3>1. PICK reply \in Replies(asked) : Lines = reply
      BY <2>2 DEF WireInv
    <3>2. mail \in Seq(Characters) /\ asked.lines \in Nat
      BY WireConstants DEF WireInv, TypeOK
    <3>3. reply \in Seq(Line) /\ Len(reply) \in Nat \ {0} /\ reply \o <<>> = reply
      BY <3>2, RepliesAreLines, ConcatEmptySeq
    <3>4. Extent(asked, reply \o <<>>) = Len(reply)
      BY <3>2, ReplyIsTaken DEF Rests
    <3>5. Complete /\ Extent(asked, WireLines(wire)) = Len(WireLines(wire))
      BY <3>1, <3>3, <3>4 DEF Complete, Lines
    <3> QED BY <2>2, <3>5 DEF InStep
  <2> QED BY <2>1, <2>2 DEF InStep
<1> QED BY <1>1, WireInvariant, PTL

\* A reply of several lines that was cut short is never taken for a whole one, wherever
\* it was cut: nothing of it, nor of the error and the notice after it, looks like its end.
THEOREM TruncationSeen == Spec => []TruncationIsSeen
<1>1. WireInv => TruncationIsSeen
  <2> SUFFICES ASSUME WireInv, turn = "server", stray = 0, asked.cut, IsMulti(asked), Complete,
                      Positive(Lines[1])
               PROVE  FALSE
    BY DEF TruncationIsSeen, Lines
  <2>1. Terminators(Lines) = {}
    BY DEF WireInv
  <2>2. Extent(asked, Lines) = 0
    BY <2>1 DEF Extent
  <2> QED BY <2>2 DEF Complete, Lines
<1> QED BY <1>1, WireInvariant, PTL

\* A complete and positive reply of several lines is the lines that went out, and its body
\* is the text that was meant, whatever the lines of the text start with, and also if the
\* timeout came once all of it was out.
LEMMA BodyIsTheText ==
  ASSUME WireInv, NEW verb \in {"RETR", "TOP"}, Served(verb)
  PROVE  \E text \in Texts(asked) : text \in Seq(Text) /\ Body = text
<1>1. /\ turn = "server" /\ asked.verb = verb /\ Positive(Lines[1]) /\ Complete
      /\ stray \in {0, 1} /\ asked.cut \in BOOLEAN
  BY WireConstants DEF Served, Taken, Lines, WireInv, TypeOK
<1>2. mail \in Seq(Characters) /\ asked.lines \in Nat /\ IsMulti(asked)
  BY <1>1, WireConstants DEF WireInv, TypeOK, IsMulti
<1>3. PICK reply \in Replies(asked), rest \in Rests : Lines = reply \o rest
  <2>1. \A reply \in Replies(asked) :
          reply \o <<>> = reply /\ (reply \o Wrong) \o Wrong = reply \o (Wrong \o Wrong)
    <3> SUFFICES ASSUME NEW reply \in Replies(asked)
                 PROVE  reply \o <<>> = reply
                        /\ (reply \o Wrong) \o Wrong = reply \o (Wrong \o Wrong)
      OBVIOUS
    <3> DEFINE X == Line
    <3>1. reply \in Seq(X) /\ Wrong \in Seq(X)
      BY <1>2, RepliesAreLines, ShortReplies
    <3> HIDE DEF X
    <3> QED BY <3>1, ConcatEmptySeq, ConcatAssociative
  <2>2. CASE stray = 0 /\ ~ asked.cut
    <3>1. PICK reply \in Replies(asked) : Lines = reply \/ Lines = reply \o Wrong
      BY <1>1, <2>2 DEF WireInv
    <3> QED BY <2>1, <3>1 DEF Rests
  <2>3. CASE stray = 0 /\ asked.cut
    <3>1. Terminators(Lines) = {}
      BY <1>1, <2>3 DEF WireInv
    <3>2. Extent(asked, Lines) = 0
      BY <1>1, <1>2, <3>1 DEF Extent
    <3> QED BY <1>1, <3>2 DEF Complete, Lines
  <2>4. CASE stray = 1
    <3>1. PICK reply \in Replies(asked) :
            Lines = reply \o Wrong \/ Lines = (reply \o Wrong) \o Wrong
      BY <1>1, <2>4 DEF WireInv
    <3> QED BY <2>1, <3>1 DEF Rests
  <2> QED BY <1>1, <2>2, <2>3, <2>4
<1>4. reply # Wrong
  <2> SUFFICES ASSUME reply = Wrong PROVE FALSE
    OBVIOUS
  <2> DEFINE a == <<"-ERR">>
  <2>1. ~ Positive(a)
    BY FirstLine
  <2> HIDE DEF a
  <2>2. (<<a>> \o <<>>)[1] = a /\ (<<a>> \o <<a>>)[1] = a /\ (<<a>> \o (<<a>> \o <<a>>))[1] = a
    OBVIOUS
  <2>3. Lines[1] = a
    BY <1>3, <2>2 DEF Rests, Wrong, a
  <2> QED BY <1>1, <2>1, <2>3
<1>5. PICK text \in Texts(asked) : reply = Framed(text)
  BY <1>2, <1>3, <1>4 DEF Replies
<1>6. text \in Seq(Text) /\ Len(text) \in Nat
  BY <1>2, <1>5, TextsAreText
<1>7. Extent(asked, Lines) = Len(text) + 2 /\ \A i \in 1..Len(text) : Lines[i + 1] = Stuffed(text[i])
  BY <1>2, <1>3, <1>5, <1>6, FramedIsTaken
<1>8. Body = [i \in 1..Len(text) |->
                IF Head(Lines[i + 1] \o <<"x">>) = "." THEN Tail(Lines[i + 1]) ELSE Lines[i + 1]]
  <2>1. Body = [i \in 1..(Extent(asked, Lines) - 2) |->
                  IF Head(Lines[i + 1] \o <<"x">>) = "." THEN Tail(Lines[i + 1]) ELSE Lines[i + 1]]
    BY DEF Body, Lines
  <2>2. Extent(asked, Lines) - 2 = Len(text)
    BY <1>6, <1>7
  <2> QED BY <2>1, <2>2
<1>9. ASSUME NEW i \in 1..Len(text)
      PROVE  (IF Head(Lines[i + 1] \o <<"x">>) = "." THEN Tail(Lines[i + 1]) ELSE Lines[i + 1]) = text[i]
  <2>1. text[i] \in Text
    <3> DEFINE L == Text
    <3>1. text \in Seq(L)
      BY <1>6
    <3> HIDE DEF L
    <3>2. text[i] \in L
      BY <3>1
    <3> QED BY <3>2 DEF L
  <2>2. Lines[i + 1] = Stuffed(text[i])
    BY <1>7
  <2> DEFINE l == text[i]
  <2>3. l = IF Head(Stuffed(l) \o <<"x">>) = "." THEN Tail(Stuffed(l)) ELSE Stuffed(l)
    BY <2>1, StuffedLine
  <2> QED BY <2>2, <2>3
<1>10. Body = text
  <2>1. text = [i \in 1..Len(text) |-> text[i]]
    <3> DEFINE L == Text
    <3>1. text \in Seq(L)
      BY <1>6
    <3> HIDE DEF L
    <3> QED BY <3>1
  <2>2. Body = [i \in 1..Len(text) |-> text[i]]
    BY <1>8, <1>9, Zenon
  <2> QED BY <2>1, <2>2
<1> QED BY <1>5, <1>6, <1>10

\* RETR brings a message of any length and any content character by character: str::lines,
\* the stuffing, the framing and the client's reading are each undone.
THEOREM MessagesArriveWhole == Spec => []MessageArrivesWhole
<1>1. WireInv => MessageArrivesWhole
  <2> SUFFICES ASSUME WireInv, Served("RETR") PROVE Joined(Body) = Canonical(mail)
    BY DEF MessageArrivesWhole
  <2>1. PICK text \in Texts(asked) : Body = text
    BY BodyIsTheText
  <2>2. text = LinesOf(mail)
    BY <2>1 DEF Served, Taken, Texts
  <2>3. mail \in Seq(Characters)
    BY DEF WireInv, TypeOK
  <2> QED BY <2>1, <2>2, <2>3, LinesJoinToTheMessage
<1> QED BY <1>1, WireInvariant, PTL

\* TOP brings the start of what RETR brings, as far as it was asked to.
THEOREM TopIsTheStart == Spec => []TopIsAStart
<1>1. WireInv => TopIsAStart
  <2> SUFFICES ASSUME WireInv, Served("TOP") PROVE TopIsAStart
    BY DEF TopIsAStart
  <2> DEFINE lines == LinesOf(mail)
             blank == {i \in 1..Len(lines) : lines[i] = <<>>}
             n == asked.lines
             a == TopFrom(lines, n)
             b == Body
             X == Seq(Symbols)
  <2>1. mail \in Seq(Characters) /\ n \in Nat
    BY WireConstants DEF WireInv, TypeOK
  <2>2. lines \in Seq(X)
    BY <2>1, LinesJoinToTheMessage, TextIsLine
  <2>3. a \in Top /\ TopIsRight(lines, a, n)
    BY <2>1, <2>2, TopIsTheStartOf
  <2>4. b = a.result
    <3>1. PICK text \in Texts(asked) : b = text
      BY BodyIsTheText
    <3>2. text = TopOf(mail, n)
      BY <3>1 DEF Served, Taken, Texts
    <3> QED BY <3>1, <3>2 DEF TopOf
  <2>5. b \in Seq(X) /\ a.inBody \in BOOLEAN /\ a.taken \in Nat
    BY <2>3, <2>4 DEF Top
  <2> HIDE DEF lines, n, a, b, X
  <2>6. Len(b) \in Nat /\ Len(lines) \in Nat /\ Len(b) <= Len(lines)
        /\ \A i \in 1..Len(b) : b[i] = lines[i]
    BY <2>2, <2>3, <2>4, <2>5 DEF TopIsRight
  <2>7. IsPrefix(b, lines)
    <3>1. SubSeq(b, 1, Len(b)) = SubSeq(lines, 1, Len(b))
      BY <2>2, <2>5, <2>6
    <3> QED BY <2>6, <3>1 DEF IsPrefix
  <2>8. CASE ~ a.inBody
    <3>1. b = lines /\ blank = {}
      BY <2>3, <2>4, <2>8 DEF TopIsRight
    <3> QED BY <2>7, <3>1 DEF TopIsAStart, lines, b
  <2>9. CASE a.inBody
    <3>1. PICK k \in 1..Len(lines) : /\ lines[k] = <<>> /\ \A i \in 1..(k - 1) : lines[i] # <<>>
                                     /\ Len(b) = k + a.taken
      BY <2>3, <2>4, <2>9 DEF TopIsRight
    <3>2. a.taken <= n /\ (a.taken < n => b = lines)
      BY <2>3, <2>4, <2>9 DEF TopIsRight
    <3>3. k \in blank
      BY <3>1
    <3>4. ASSUME NEW h \in blank, \A i \in blank : h <= i
          PROVE  Len(b) = h + n \/ (b = lines /\ Len(b) < h + n)
      <4>1. h = k
        <5>1. h <= k /\ h \in 1..Len(lines) /\ lines[h] = <<>>
          BY <3>3, <3>4
        <5>2. ~ (h \in 1..(k - 1))
          BY <3>1, <5>1
        <5> QED BY <2>6, <5>1, <5>2
      <4>2. k \in Nat
        BY <2>6
      <4> QED BY <2>1, <2>5, <3>1, <3>2, <4>1, <4>2
    <3> QED BY <2>7, <3>3, <3>4 DEF TopIsAStart, lines, b, n
  <2> QED BY <2>5, <2>8, <2>9
<1> QED BY <1>1, WireInvariant, PTL
===============================================================================
