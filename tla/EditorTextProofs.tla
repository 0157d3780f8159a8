-------------------------- MODULE EditorTextProofs --------------------------
(***************************************************************************)
(* What is written to the two editors of the form is read back, for lists  *)
(* of any length and arguments, names and values of any length.  The       *)
(* readers go over their text character by character: they are folds, and  *)
(* the proofs are inductions over the text.                                *)
(*                                                                         *)
(* Induction is used in a form that names no operator: the claim is the    *)
(* set of the numbers it holds for, and the least number outside that set  *)
(* exists because < is well-founded on Nat (WellFoundedInduction).         *)
(***************************************************************************)
EXTENDS EditorText, SequenceTheorems, WellFoundedInduction, TLAPS

-----------------------------------------------------------------------------
(* Induction.                                                              *)

LEMMA LeastNatural ==
  ASSUME NEW T, T \subseteq Nat, T # {}
  PROVE  \E x \in T : \A y \in T : x <= y
<1> DEFINE R == OpToRel(<, Nat)
<1>1. IsWellFoundedOn(R, Nat)
  BY NatLessThanWellFounded
<1>2. \E x \in T : \A y \in T : <<y, x>> \notin R
  <2> HIDE DEF R
  <2> QED BY <1>1, WFMin
<1>3. ASSUME NEW x \in T, NEW y \in T, <<y, x>> \notin R PROVE x <= y
  BY <1>3 DEF OpToRel
<1> QED BY <1>2, <1>3

(* The numbers up to N are in every set that has 0 and, with each number,  *)
(* the next one.                                                           *)
LEMMA Induction ==
  ASSUME NEW N \in Nat, NEW G, 0 \in G, \A n \in 1 .. N : n - 1 \in G => n \in G
  PROVE  0 .. N \subseteq G
<1> DEFINE Bad == {n \in 0 .. N : n \notin G}
<1> SUFFICES ASSUME Bad # {} PROVE FALSE
  OBVIOUS
<1>1. Bad \subseteq Nat /\ \A n \in Bad : n \in 1 .. N /\ n \notin G
  OBVIOUS
<1>2. PICK n \in Bad : \A m \in Bad : n <= m
  <2> HIDE DEF Bad
  <2> QED BY <1>1, LeastNatural
<1>3. n - 1 \in 0 .. N /\ n - 1 < n /\ n \in Nat
  BY <1>1
<1>4. n - 1 \notin Bad
  <2> HIDE DEF Bad
  <2> QED BY <1>1, <1>2, <1>3
<1> QED BY <1>1, <1>3, <1>4

LEMMA MaxIsThere ==
  ASSUME NEW N \in Nat, NEW s \in SUBSET (1 .. N), s # {}
  PROVE  Max(s) \in s /\ \A y \in s : Max(s) >= y
<1> DEFINE Above == {k \in 0 .. N : \A y \in s : y <= k}
<1>1. Above \subseteq Nat /\ N \in Above
  OBVIOUS
<1>2. PICK k \in Above : \A m \in Above : k <= m
  <2> HIDE DEF Above
  <2> QED BY <1>1, LeastNatural
<1>3. k \in 0 .. N /\ \A y \in s : y <= k
  OBVIOUS
<1>4. k \in s
  <2> SUFFICES ASSUME k \notin s PROVE FALSE
    OBVIOUS
  <2>1. k - 1 \in Above
    <3>1. \A y \in s : y <= k - 1 /\ y >= 1
      BY <1>3
    <3>2. k - 1 \in 0 .. N
      <4>1. PICK y \in s : TRUE
        OBVIOUS
      <4> QED BY <4>1, <1>3, <3>1
    <3> QED BY <3>1, <3>2
  <2> HIDE DEF Above
  <2> QED BY <1>2, <1>3, <2>1
<1> QED BY <1>3, <1>4 DEF Max

LEMMA MaxOfUpTo ==
  ASSUME NEW n \in Nat, NEW s \in SUBSET (1 .. n), n \in s
  PROVE  Max(s) = n
<1>1. n \in s /\ \A y \in s : n >= y
  OBVIOUS
<1>2. \A x \in s : (\A y \in s : x >= y) => x = n
  OBVIOUS
<1> QED BY <1>1, <1>2 DEF Max

LEMMA UpTo ==
  ASSUME NEW N \in Nat, NEW n \in 1 .. N
  PROVE  /\ 1 .. n \in SUBSET (1 .. N) /\ 1 .. n # {} /\ Max(1 .. n) = n
         /\ (1 .. n) \ {n} = 1 .. (n - 1)
<1>1. n \in Nat /\ n \in 1 .. n /\ 1 .. n \in SUBSET (1 .. n) /\ 1 .. n \in SUBSET (1 .. N)
  OBVIOUS
<1>2. Max(1 .. n) = n
  BY <1>1, MaxOfUpTo
<1> QED BY <1>1, <1>2

-----------------------------------------------------------------------------
(* Folds.  FoldLeft is defined by recursion over the sets of the indices   *)
(* that are left; a run is what it has after each of N elements, where     *)
(* F[n] is what the n-th element does.                                     *)

Iterates(N, b, F, it) ==
  \A s \in SUBSET (1 .. N) : it[s] = IF s = {} THEN b ELSE F[Max(s)][it[s \ {Max(s)}]]

LEMMA IterExists ==
  ASSUME NEW N \in Nat, NEW S, NEW b \in S, NEW F \in [1 .. N -> [S -> S]]
  PROVE  \E it \in [SUBSET (1 .. N) -> S] : Iterates(N, b, F, it)
<1> DEFINE Good(n) == \E it \in [SUBSET (1 .. n) -> S] : Iterates(n, b, F, it)
           G == {n \in 0 .. N : Good(n)}
<1>1. Good(0)
  <2>1. [s \in SUBSET (1 .. 0) |-> b] \in [SUBSET (1 .. 0) -> S]
    OBVIOUS
  <2>2. Iterates(0, b, F, [s \in SUBSET (1 .. 0) |-> b])
    <3>1. \A s \in SUBSET (1 .. 0) : s = {}
      OBVIOUS
    <3> QED BY <3>1 DEF Iterates
  <2> QED BY <2>1, <2>2
<1>2. ASSUME NEW n \in 1 .. N, Good(n - 1) PROVE Good(n)
  <2>1. PICK it \in [SUBSET (1 .. n - 1) -> S] : Iterates(n - 1, b, F, it)
    BY <1>2
  <2> DEFINE next == [s \in SUBSET (1 .. n) |-> IF n \in s THEN F[n][it[s \ {n}]] ELSE it[s]]
  <2>2. \A s \in SUBSET (1 .. n) : s \ {n} \in SUBSET (1 .. n - 1) /\ (n \notin s => s \in SUBSET (1 .. n - 1))
    OBVIOUS
  <2>3. next \in [SUBSET (1 .. n) -> S]
    <3>1. ASSUME NEW s \in SUBSET (1 .. n) PROVE (IF n \in s THEN F[n][it[s \ {n}]] ELSE it[s]) \in S
      BY <2>2
    <3> QED BY <3>1
  <2>4. ASSUME NEW s \in SUBSET (1 .. n), s # {} PROVE next[s] = F[Max(s)][next[s \ {Max(s)}]]
    <3>1. CASE n \in s
      <4>1. Max(s) = n
        BY <3>1, MaxOfUpTo
      <4>2. next[s \ {n}] = it[s \ {n}]
        BY <2>2
      <4> QED BY <3>1, <4>1, <4>2
    <3>2. CASE n \notin s
      <4>1. s \in SUBSET (1 .. n - 1)
        BY <3>2, <2>2
      <4>2. s \ {Max(s)} \in SUBSET (1 .. n - 1) /\ s \ {Max(s)} \in SUBSET (1 .. n)
        BY <4>1, <2>2
      <4>3. it[s] = F[Max(s)][it[s \ {Max(s)}]]
        BY <2>1, <2>4, <4>1 DEF Iterates
      <4> QED BY <3>2, <4>2, <4>3
    <3> QED BY <3>1, <3>2
  <2>5. next[{}] = b
    <3>1. {} \in SUBSET (1 .. n) /\ {} \in SUBSET (1 .. n - 1) /\ n \notin {}
      OBVIOUS
    <3> QED BY <2>1, <3>1 DEF Iterates
  <2>6. Iterates(n, b, F, next)
    BY <2>4, <2>5 DEF Iterates
  <2> QED BY <2>3, <2>6
<1> HIDE DEF Good
<1>3. 0 \in G /\ \A n \in 1 .. N : n - 1 \in G => n \in G
  BY <1>1, <1>2
<1>4. 0 .. N \subseteq G
  <2> HIDE DEF G
  <2> QED BY <1>3, Induction
<1>5. Good(N)
  BY <1>4
<1> QED BY <1>5 DEF Good

Run(N, S, b, F, r) ==
  r \in [0 .. N -> S] /\ r[0] = b /\ \A n \in 1 .. N : r[n] = F[n][r[n - 1]]

LEMMA RunsAgree ==
  ASSUME NEW N \in Nat, NEW M \in Nat, N <= M, NEW S, NEW b, NEW F, NEW H, NEW r, NEW q,
         Run(N, S, b, F, r), Run(M, S, b, H, q), \A n \in 1 .. N : F[n] = H[n]
  PROVE  r[N] = q[N]
<1> DEFINE G == {n \in 0 .. N : r[n] = q[n]}
<1>1. 0 \in G /\ \A n \in 1 .. N : n - 1 \in G => n \in G
  BY DEF Run
<1>2. N \in G
  <2> HIDE DEF G
  <2> QED BY <1>1, Induction
<1> QED BY <1>2

LEMMA RunStep ==
  ASSUME NEW N \in Nat, NEW S, NEW b, NEW F, NEW r, Run(N, S, b, F, r), NEW n \in 1 .. N
  PROVE  n - 1 \in 0 .. N /\ r[n - 1] \in S /\ r[n] \in S /\ r[n] = F[n][r[n - 1]]
  BY DEF Run

LEMMA RunOfSteps ==
  ASSUME NEW N \in Nat, NEW S, NEW b \in S, NEW F \in [1 .. N -> [S -> S]], NEW r,
         r[0] = b, \A n \in 1 .. N : r[n - 1] \in S => r[n] = F[n][r[n - 1]]
  PROVE  Run(N, S, b, F, [n \in 0 .. N |-> r[n]])
<1> DEFINE G == {n \in 0 .. N : r[n] \in S}
<1>1. 0 \in G /\ \A n \in 1 .. N : n - 1 \in G => n \in G
  OBVIOUS
<1>2. 0 .. N \subseteq G
  <2> HIDE DEF G
  <2> QED BY <1>1, Induction
<1> QED BY <1>2 DEF Run

LEMMA RunExists ==
  ASSUME NEW N \in Nat, NEW S, NEW b \in S, NEW F \in [1 .. N -> [S -> S]]
  PROVE  \E r : Run(N, S, b, F, r)
<1>1. PICK it \in [SUBSET (1 .. N) -> S] : Iterates(N, b, F, it)
  BY IterExists
<1> DEFINE r == [n \in 0 .. N |-> it[1 .. n]]
<1>2. r[0] = b
  <2>1. it[{}] = b
    BY <1>1 DEF Iterates
  <2>2. 1 .. 0 = {} /\ r[0] = it[1 .. 0]
    OBVIOUS
  <2> HIDE DEF r
  <2> QED BY <2>1, <2>2
<1>3. ASSUME NEW n \in 1 .. N PROVE r[n] = F[n][r[n - 1]]
  <2>1. /\ 1 .. n \in SUBSET (1 .. N) /\ 1 .. n # {} /\ Max(1 .. n) = n
        /\ (1 .. n) \ {n} = 1 .. (n - 1)
    BY UpTo
  <2>2. it[1 .. n] = F[Max(1 .. n)][it[(1 .. n) \ {Max(1 .. n)}]]
    BY <1>1, <2>1 DEF Iterates
  <2>3. it[1 .. n] = F[n][it[1 .. (n - 1)]]
    BY <2>1, <2>2
  <2> QED BY <2>3
<1> HIDE DEF r
<1>4. Run(N, S, b, F, [n \in 0 .. N |-> r[n]])
  BY <1>2, <1>3, RunOfSteps
<1> QED BY <1>4

(* What a fold has after one element more.                                 *)
LEMMA RunOneMore ==
  ASSUME NEW N \in Nat, NEW S, NEW b, NEW F, NEW H, NEW r, NEW q,
         Run(N, S, b, F, r), Run(N + 1, S, b, H, q), \A n \in 1 .. N : F[n] = H[n]
  PROVE  r[N] \in S /\ q[N + 1] = H[N + 1][r[N]]
<1>1. /\ N \in 0 .. N /\ N + 1 \in 1 .. N + 1 /\ N + 1 - 1 = N /\ N <= N + 1 /\ N + 1 \in Nat
      /\ \A n \in 0 .. N : n \in 0 .. N + 1
  OBVIOUS
<1>2. r[N] = q[N]
  BY <1>1, RunsAgree
<1>3. q[N + 1] = H[N + 1][q[N]]
  BY <1>1 DEF Run
<1>4. r[N] \in S
  BY <1>1 DEF Run
<1> QED BY <1>2, <1>3, <1>4

Grows(N, S, b, F, iter) ==
  /\ iter[{}] = b
  /\ \A n \in 1 .. N : iter[1 .. (n - 1)] \in S => iter[1 .. n] = F[n][iter[1 .. (n - 1)]]

LEMMA FoldRun ==
  ASSUME NEW N \in Nat, NEW S, NEW b \in S, NEW F \in [1 .. N -> [S -> S]], NEW iter,
         Grows(N, S, b, F, iter)
  PROVE  \E r : Run(N, S, b, F, r) /\ r[N] = iter[1 .. N]
<1> DEFINE r == [n \in 0 .. N |-> iter[1 .. n]]
<1>1. r[0] = b
  <2>1. 1 .. 0 = {}
    OBVIOUS
  <2> QED BY <2>1 DEF Grows
<1>2. ASSUME NEW n \in 1 .. N, r[n - 1] \in S PROVE r[n] = F[n][r[n - 1]]
  BY <1>2 DEF Grows
<1>3. r[N] = iter[1 .. N] /\ r = [n \in 0 .. N |-> r[n]]
  OBVIOUS
<1> HIDE DEF r
<1>4. Run(N, S, b, F, [n \in 0 .. N |-> r[n]])
  BY <1>1, <1>2, RunOfSteps
<1> QED BY <1>3, <1>4

-----------------------------------------------------------------------------
(* Sequences and lines.                                                    *)

FirstOf(s, n) == SubSeq(s, 1, n)
OneLine(text) == \A n \in DOMAIN text : text[n] # Newline

LEMMA FunctionIsSeq ==
  ASSUME NEW N \in Nat, NEW T, NEW s \in [1 .. N -> T]
  PROVE  s \in Seq(T) /\ Len(s) = N
  OBVIOUS

(* The first characters of a text, and a text after another.               *)
LEMMA UpToLength ==
  ASSUME NEW T, NEW s \in Seq(T)
  PROVE  /\ Len(s) \in Nat /\ FirstOf(s, 0) = <<>> /\ FirstOf(s, Len(s)) = s
         /\ \A n \in 0 .. Len(s) : FirstOf(s, n) \in Seq(T)
         /\ \A n \in 1 .. Len(s) : /\ n \in Nat /\ n # 0 /\ n \in 0 .. Len(s) /\ n - 1 \in 0 .. Len(s) /\ s[n] \in T
                                   /\ FirstOf(s, n) = Append(FirstOf(s, n - 1), s[n])
                                   /\ n = 1 => FirstOf(s, n) = <<s[n]>>
<1>1. Len(s) \in Nat /\ FirstOf(s, 0) = <<>> /\ FirstOf(s, Len(s)) = s
  BY DEF FirstOf
<1>2. \A n \in 0 .. Len(s) : FirstOf(s, n) \in Seq(T)
  BY DEF FirstOf
<1>3. ASSUME NEW n \in 1 .. Len(s)
      PROVE  /\ n \in Nat /\ n # 0 /\ n \in 0 .. Len(s) /\ n - 1 \in 0 .. Len(s) /\ s[n] \in T
             /\ FirstOf(s, n) = Append(FirstOf(s, n - 1), s[n])
  BY DEF FirstOf
<1>4. ASSUME NEW n \in 1 .. Len(s), n = 1 PROVE FirstOf(s, n) = <<s[n]>>
  <2>1. Append(<<>>, s[n]) = <<s[n]>> /\ n - 1 = 0
    BY <1>4
  <2>2. FirstOf(s, n) = Append(FirstOf(s, n - 1), s[n]) /\ FirstOf(s, 0) = <<>>
    BY <1>1, <1>3
  <2> HIDE DEF FirstOf
  <2> QED BY <2>1, <2>2
<1> QED BY <1>1, <1>2, <1>3, <1>4

LEMMA FirstAfter ==
  ASSUME NEW T, NEW s \in Seq(T), NEW t \in Seq(T), NEW n \in 1 .. Len(t)
  PROVE  s \o FirstOf(t, n) = Append(s \o FirstOf(t, n - 1), t[n])
  BY DEF FirstOf

LEMMA Appended ==
  ASSUME NEW T, NEW s \in Seq(T), NEW t \in Seq(T), NEW c \in T
  PROVE  /\ s \o t \in Seq(T) /\ Append(s, c) \in Seq(T)
         /\ s \o (t \o <<c>>) = Append(s \o t, c)
<1>1. s \o t \in Seq(T) /\ Append(s, c) \in Seq(T)
  OBVIOUS
<1>2. s \o (t \o <<c>>) = Append(s \o t, c)
  OBVIOUS
<1> QED BY <1>1, <1>2

(* Sequences written one after the other.                                  *)
LEMMA FlattenRun ==
  ASSUME NEW T, NEW seqs \in Seq(Seq(T))
  PROVE  \E f \in [0 .. Len(seqs) -> Seq(T)] :
           f[0] = <<>> /\ (\A n \in 1 .. Len(seqs) : f[n] = f[n - 1] \o seqs[n]) /\ FlattenSeq(seqs) = f[Len(seqs)]
<1> DEFINE N == Len(seqs)
           F == [n \in 1 .. N |-> [s \in Seq(T) |-> s \o seqs[n]]]
           Is(g) == g = [n \in 1 .. N |-> IF n = 1 THEN seqs[n] ELSE g[n - 1] \o seqs[n]]
           flatten == CHOOSE g : Is(g)
<1>1. N \in Nat /\ <<>> \in Seq(T) /\ \A n \in 1 .. N : seqs[n] \in Seq(T)
  OBVIOUS
<1>2. F \in [1 .. N -> [Seq(T) -> Seq(T)]]
  BY <1>1
<1>3. CASE N = 0
  <2>1. seqs = <<>> /\ FlattenSeq(seqs) = <<>>
    BY <1>3 DEF FlattenSeq
  <2>2. [n \in 0 .. N |-> <<>>] \in [0 .. N -> Seq(T)]
    BY <1>1
  <2>3. \A n \in 1 .. N : FALSE
    BY <1>3
  <2> DEFINE f == [n \in 0 .. N |-> <<>>]
  <2>4. f[0] = <<>> /\ f[N] = <<>>
    BY <1>3
  <2> QED BY <2>1, <2>2, <2>3, <2>4
<1>4. CASE N # 0
  <2>1. FlattenSeq(seqs) = flatten[N]
    BY <1>4 DEF FlattenSeq
  <2>2. \E g : Is(g)
    <3>1. PICK r : Run(N, Seq(T), <<>>, F, r)
      BY <1>1, <1>2, RunExists
    <3> DEFINE g == [n \in 1 .. N |-> r[n]]
    <3>2. ASSUME NEW n \in 1 .. N PROVE g[n] = IF n = 1 THEN seqs[n] ELSE g[n - 1] \o seqs[n]
      <4>1. r[n] = F[n][r[n - 1]] /\ r[n - 1] \in Seq(T)
        <5> HIDE DEF F
        <5> QED BY <1>1, <3>1, RunStep
      <4> HIDE DEF g
      <4>4. r[n] = r[n - 1] \o seqs[n]
        BY <4>1
      <4> USE DEF g
      <4>2. n = 1 => r[n - 1] = <<>>
        BY <3>1 DEF Run
      <4>3. n # 1 => n - 1 \in 1 .. N
        OBVIOUS
      <4> QED BY <4>2, <4>3, <4>4, <1>1, ConcatEmptySeq
    <3> HIDE DEF g
    <3>3. g = [n \in 1 .. N |-> g[n]]
      BY DEF g
    <3>4. Is(g)
      BY <3>2, <3>3
    <3> QED BY <3>4
  <2>3. Is(flatten)
    BY <2>2, Zenon
  <2> HIDE DEF flatten
  <2> DEFINE f == [n \in 0 .. N |-> IF n = 0 THEN <<>> ELSE flatten[n]]
  <2>4. ASSUME NEW n \in 1 .. N, f[n - 1] \in Seq(T) PROVE f[n] = F[n][f[n - 1]]
    <3>1. f[n] = flatten[n] /\ n - 1 \in 0 .. N /\ (n # 1 => n - 1 \in 1 .. N /\ f[n - 1] = flatten[n - 1])
      BY <1>1
    <3>2. F[n][f[n - 1]] = f[n - 1] \o seqs[n]
      BY <2>4
    <3>3. flatten[n] = IF n = 1 THEN seqs[n] ELSE flatten[n - 1] \o seqs[n]
      BY <2>3
    <3>4. n = 1 => f[n - 1] = <<>>
      OBVIOUS
    <3> HIDE DEF f
    <3> QED BY <1>1, <3>1, <3>2, <3>3, <3>4, ConcatEmptySeq
  <2>5. f[0] = <<>> /\ f[N] = flatten[N] /\ f = [n \in 0 .. N |-> f[n]]
    BY <1>1, <1>4
  <2> HIDE DEF f
  <2>6. Run(N, Seq(T), <<>>, F, f)
    BY <1>1, <1>2, <2>4, <2>5, RunOfSteps
  <2>7. ASSUME NEW n \in 1 .. N PROVE f[n] = f[n - 1] \o seqs[n]
    <3>1. f[n] = F[n][f[n - 1]] /\ f[n - 1] \in Seq(T)
      <4> HIDE DEF F
      <4> QED BY <1>1, <2>6, RunStep
    <3> QED BY <3>1
  <2>8. f \in [0 .. N -> Seq(T)]
    BY <2>6 DEF Run
  <2> QED BY <2>1, <2>5, <2>7, <2>8
<1> QED BY <1>3, <1>4

LEMMA NextLine ==
  ASSUME NEW T, Newline \in T, NEW s \in Seq(T), NEW t \in Seq(T)
  PROVE  s \o (<<Newline>> \o t) = Append(s, Newline) \o t
OBVIOUS

(* Lines grows by one text on a line of its own at a time.                 *)
LEMMA LinesRun ==
  ASSUME NEW T, Newline \in T, NEW texts \in Seq(Seq(T))
  PROVE  \E f \in [0 .. Len(texts) -> Seq(T)] :
           /\ f[0] = <<>>
           /\ \A n \in 1 .. Len(texts) :
                 f[n] = (IF n = 1 THEN <<>> ELSE Append(f[n - 1], Newline)) \o texts[n]
           /\ Lines(texts) = f[Len(texts)]
<1> DEFINE N == Len(texts)
           pieces == [n \in DOMAIN texts |-> IF n = 1 THEN texts[n] ELSE <<Newline>> \o texts[n]]
<1>1. N \in Nat /\ \A n \in 1 .. N : n - 1 \in 0 .. N /\ texts[n] \in Seq(T)
  OBVIOUS
<1>2. /\ pieces \in Seq(Seq(T)) /\ Len(pieces) = N
      /\ \A n \in 1 .. N : pieces[n] = IF n = 1 THEN texts[n] ELSE <<Newline>> \o texts[n]
  <2>1. <<Newline>> \in Seq(T)
    OBVIOUS
  <2>2. \A n \in 1 .. N : <<Newline>> \o texts[n] \in Seq(T)
    BY <1>1, <2>1
  <2>3. /\ pieces \in [1 .. N -> Seq(T)]
        /\ \A n \in 1 .. N : pieces[n] = IF n = 1 THEN texts[n] ELSE <<Newline>> \o texts[n]
    BY <1>1, <2>2
  <2> HIDE DEF pieces
  <2> QED BY <1>1, <2>3, FunctionIsSeq
<1>3. Lines(texts) = FlattenSeq(pieces)
  BY Zenon DEF Lines
<1> HIDE DEF pieces
<1>4. PICK f \in [0 .. N -> Seq(T)] :
        f[0] = <<>> /\ (\A n \in 1 .. N : f[n] = f[n - 1] \o pieces[n]) /\ Lines(texts) = f[N]
  <2>1. PICK f \in [0 .. Len(pieces) -> Seq(T)] :
          /\ f[0] = <<>> /\ \A n \in 1 .. Len(pieces) : f[n] = f[n - 1] \o pieces[n]
          /\ FlattenSeq(pieces) = f[Len(pieces)]
    BY <1>2, FlattenRun
  <2> QED BY <1>2, <1>3, <2>1
<1>5. ASSUME NEW n \in 1 .. N
      PROVE  f[n] = (IF n = 1 THEN <<>> ELSE Append(f[n - 1], Newline)) \o texts[n]
  <2> DEFINE before == f[n - 1]
  <2>1. before \in Seq(T) /\ texts[n] \in Seq(T)
    BY <1>1
  <2>2. n = 1 => before = <<>>
    BY <1>4
  <2>3. f[n] = before \o pieces[n]
    BY <1>4
  <2>4. pieces[n] = IF n = 1 THEN texts[n] ELSE <<Newline>> \o texts[n]
    BY <1>2
  <2> HIDE DEF before
  <2>5. before \o (<<Newline>> \o texts[n]) = Append(before, Newline) \o texts[n]
    BY <2>1, NextLine
  <2>6. CASE n = 1
    BY <2>2, <2>3, <2>4, <2>6, Zenon DEF before
  <2>7. CASE n # 1
    BY <2>3, <2>4, <2>5, <2>7, Zenon DEF before
  <2> QED BY <2>6, <2>7
<1> QED BY <1>4, <1>5

-----------------------------------------------------------------------------
(* Arguments.                                                              *)

LEMMA CharsDiffer ==
  /\ Space # Newline /\ Newline # Hash /\ Newline # Single /\ Newline # Double /\ Newline # Backslash
  /\ Double # Backslash /\ Single # Double /\ Single # Backslash /\ Hash # Backslash
  /\ Space \notin {Hash, Single, Double, Backslash} /\ Hash # Double /\ Hash # Single /\ "none" \notin {Single, Double, Newline, Backslash}
  /\ {Newline, Hash, Single, Double, Backslash} \subseteq Chars /\ "none" \notin Chars
  BY DEF Space, Newline, Hash, Single, Double, Backslash, Chars

Parsers == [args : Seq(Seq(Chars)), current : Seq(Chars), hasToken : BOOLEAN,
            quote : {"none", Single, Double}, start : BOOLEAN, comment : BOOLEAN, escaped : BOOLEAN]

LEMMA BeginType == Begin \in Parsers
<1>1. <<>> \in Seq(Chars) /\ <<>> \in Seq(Seq(Chars))
  OBVIOUS
<1> QED BY <1>1 DEF Begin, Parsers

LEMMA ReadCharType ==
  ASSUME NEW p \in Parsers, NEW ch \in Chars
  PROVE  ReadChar(p, ch) \in Parsers
<1>1. ASSUME NEW q \in Parsers, NEW c \in Chars PROVE Add(q, c) \in Parsers
  <2>1. Append(q.current, c) \in Seq(Chars)
    BY DEF Parsers
  <2> QED BY <2>1 DEF Add, Parsers
<1>2. ASSUME NEW q \in Parsers PROVE Flush(q) \in Parsers
  <2>1. <<>> \in Seq(Chars) /\ Append(q.args, q.current) \in Seq(Seq(Chars))
    BY DEF Parsers
  <2> QED BY <2>1 DEF Flush, Parsers
<1>3. Settle(p) \in Parsers
  BY <1>1 DEF Settle, Chars
<1>4. EndLine(p) \in Parsers
  <2>1. Add(Settle(p), Newline) \in Parsers
    BY <1>1, <1>3 DEF Chars
  <2>2. [Flush(Settle(p)) EXCEPT !.start = TRUE, !.comment = FALSE] \in Parsers
    <3>1. Flush(Settle(p)) \in Parsers
      BY <1>2, <1>3
    <3> QED BY <3>1 DEF Parsers
  <2> QED BY <2>1, <2>2 DEF EndLine
<1>5. /\ Flush(p) \in Parsers /\ Add(p, ch) \in Parsers
      /\ [p EXCEPT !.comment = TRUE] \in Parsers /\ [p EXCEPT !.quote = "none"] \in Parsers
      /\ [p EXCEPT !.escaped = TRUE, !.start = FALSE] \in Parsers
      /\ ch \in {Single, Double} => OpenQuote(p, ch) \in Parsers
  BY <1>1, <1>2 DEF OpenQuote, Parsers
<1> QED BY <1>4, <1>5 DEF ReadChar

Reads(text) == [n \in 1 .. Len(text) |-> [p \in Parsers |-> ReadChar(p, text[n])]]
Read(text) == FoldLeft(ReadChar, Begin, text)

LEMMA ReadRun ==
  ASSUME NEW text \in Seq(Chars)
  PROVE  \E r : Run(Len(text), Parsers, Begin, Reads(text), r) /\ Read(text) = r[Len(text)]
<1> DEFINE N == Len(text)
           F == Reads(text)
           start == Begin
           Is(it) == it = [s \in SUBSET (1 .. N) |->
                             IF s = {} THEN start ELSE ReadChar(it[s \ {Max(s)}], text[Max(s)])]
           iter == CHOOSE it : Is(it)
<1>1. N \in Nat /\ DOMAIN text = 1 .. N /\ F \in [1 .. N -> [Parsers -> Parsers]]
  BY ReadCharType DEF Reads
<1>2. start \in Parsers
  BY BeginType
<1>3. Read(text) = iter[1 .. N]
  BY <1>1 DEF Read, FoldLeft, MapThenFoldSet
<1> HIDE DEF start
<1>4. \E it : Is(it)
  <2>1. PICK it \in [SUBSET (1 .. N) -> Parsers] : Iterates(N, start, F, it)
    BY <1>1, <1>2, IterExists
  <2>2. ASSUME NEW s \in SUBSET (1 .. N), s # {} PROVE it[s] = ReadChar(it[s \ {Max(s)}], text[Max(s)])
    <3>1. Max(s) \in 1 .. N /\ s \ {Max(s)} \in SUBSET (1 .. N)
      BY <1>1, <2>2, MaxIsThere
    <3> QED BY <2>1, <2>2, <3>1 DEF Iterates, Reads
  <2> QED BY <2>1, <2>2 DEF Iterates
<1>5. Is(iter)
  BY <1>4, Zenon
<1> HIDE DEF iter
<1>6. ASSUME NEW n \in 1 .. N, iter[1 .. (n - 1)] \in Parsers PROVE iter[1 .. n] = F[n][iter[1 .. (n - 1)]]
  <2>1. /\ 1 .. n \in SUBSET (1 .. N) /\ 1 .. n # {} /\ Max(1 .. n) = n
        /\ (1 .. n) \ {n} = 1 .. (n - 1)
    BY <1>1, UpTo
  <2>2. iter[1 .. n] = ReadChar(iter[(1 .. n) \ {Max(1 .. n)}], text[Max(1 .. n)])
    BY <1>5, <2>1
  <2> QED BY <1>6, <2>1, <2>2 DEF Reads
<1>7. Grows(N, Parsers, start, F, iter)
  BY <1>5, <1>6 DEF Grows
<1> HIDE DEF F, N
<1>8. \E r : Run(N, Parsers, start, F, r) /\ r[N] = iter[1 .. N]
  BY <1>1, <1>2, <1>7, FoldRun
<1> QED BY <1>3, <1>8 DEF F, N, start

LEMMA ReadStep ==
  ASSUME NEW text \in Seq(Chars), NEW ch \in Chars
  PROVE  Read(Append(text, ch)) = ReadChar(Read(text), ch) /\ Read(text) \in Parsers
<1> DEFINE N == Len(text)
           all == Append(text, ch)
           start == Begin
<1>1. /\ all \in Seq(Chars) /\ N \in Nat /\ Len(all) = N + 1 /\ N + 1 \in 1 .. N + 1
      /\ all[N + 1] = ch /\ \A n \in 1 .. N : all[n] = text[n] /\ n \in 1 .. N + 1
  OBVIOUS
<1>2. PICK r : Run(N, Parsers, start, Reads(text), r) /\ Read(text) = r[N]
  BY ReadRun
<1> HIDE DEF all
<1>3. PICK q : Run(N + 1, Parsers, start, Reads(all), q) /\ Read(all) = q[N + 1]
  BY <1>1, ReadRun
<1> HIDE DEF start
<1>4. \A n \in 1 .. N : Reads(text)[n] = Reads(all)[n]
  BY <1>1 DEF Reads
<1>5. r[N] \in Parsers /\ q[N + 1] = Reads(all)[N + 1][r[N]]
  <2> HIDE DEF N
  <2> QED BY <1>1, <1>2, <1>3, <1>4, RunOneMore
<1>6. Reads(all)[N + 1] = [state \in Parsers |-> ReadChar(state, ch)]
  BY <1>1 DEF Reads
<1> QED BY <1>2, <1>3, <1>5, <1>6 DEF all

LEMMA ReadNothing == Read(<<>>) = Begin
<1> DEFINE start == Begin
<1>1. <<>> \in Seq(Chars) /\ Len(<<>>) = 0
  OBVIOUS
<1>2. PICK r : Run(0, Parsers, start, Reads(<<>>), r) /\ Read(<<>>) = r[0]
  BY <1>1, ReadRun
<1> HIDE DEF start
<1>3. Read(<<>>) = start
  BY <1>2 DEF Run
<1> QED BY <1>3 DEF start

(* A parser that begins a line after these arguments, and one that has     *)
(* read this much of the next.                                             *)
Fresh(p, args) ==
  /\ p \in Parsers /\ p.args = args /\ p.current = <<>> /\ p.quote = "none"
  /\ ~p.hasToken /\ p.start /\ ~p.comment /\ ~p.escaped
Within(p, args, current, quote) ==
  /\ p \in Parsers /\ p.args = args /\ p.current = current /\ p.quote = quote
  /\ p.hasToken /\ ~p.start /\ ~p.comment /\ ~p.escaped

LEMMA AddReads ==
  ASSUME NEW p \in Parsers, ~p.comment, NEW ch \in Chars
  PROVE  Within(Add(p, ch), p.args, Append(p.current, ch), p.quote)
<1>1. Append(p.current, ch) \in Seq(Chars)
  BY DEF Parsers
<1> QED BY <1>1 DEF Within, Add, Parsers

LEMMA BareReads ==
  ASSUME NEW p \in Parsers, NEW args, NEW current, NEW ch \in Chars,
         ch \notin Whitespace \cup {Single, Double, Backslash}
  PROVE  /\ Within(p, args, current, "none") => Within(ReadChar(p, ch), args, Append(current, ch), "none")
         /\ ch # Hash /\ Fresh(p, args) => Within(ReadChar(p, ch), args, <<ch>>, "none")
<1>1. Within(p, args, current, "none") => ReadChar(p, ch) = Add(p, ch)
  BY CharsDiffer DEF Within, ReadChar, Whitespace
<1>2. ch # Hash /\ Fresh(p, args) => ReadChar(p, ch) = Add(p, ch)
  BY CharsDiffer DEF Fresh, ReadChar, Whitespace
<1>3. Append(<<>>, ch) = <<ch>>
  OBVIOUS
<1> QED BY <1>1, <1>2, <1>3, AddReads DEF Within, Fresh

LEMMA QuotedReads ==
  ASSUME NEW p \in Parsers, NEW args, NEW current, Within(p, args, current, Double), NEW ch \in Chars
  PROVE  /\ ch \notin {Double, Backslash} =>
              Within(ReadChar(p, ch), args, Append(current, ch), Double)
         /\ ch \in {Double, Backslash} =>
              Within(ReadChar(ReadChar(p, Backslash), ch), args, Append(current, ch), Double)
         /\ Within(ReadChar(p, Double), args, current, "none")
<1> DEFINE q == [p EXCEPT !.escaped = TRUE, !.start = FALSE]
<1>1. ch \notin {Double, Backslash, Newline} => ReadChar(p, ch) = Add(p, ch)
  BY CharsDiffer DEF Within, ReadChar
<1>2. ReadChar(p, Newline) = Add(p, Newline)
  BY CharsDiffer DEF Within, ReadChar, EndLine, Settle
<1>3. ReadChar(p, Backslash) = q
  BY CharsDiffer DEF Within, ReadChar
<1>4. /\ q \in Parsers /\ q.args = args /\ q.current = current /\ q.quote = Double
      /\ ~q.start /\ ~q.comment /\ q.escaped
  BY DEF Within, Parsers
<1>5. ch \in {Double, Backslash} => ReadChar(q, ch) = Add(q, ch)
  <2> HIDE DEF q
  <2> QED BY <1>4, CharsDiffer DEF ReadChar
<1>6. Within(Add(p, ch), args, Append(current, ch), Double) /\ Within(Add(q, ch), args, Append(current, ch), Double)
  <2> HIDE DEF q
  <2> QED BY <1>4, AddReads DEF Within
<1>7. Within(ReadChar(p, Double), args, current, "none")
  <2>1. ReadChar(p, Double) = [p EXCEPT !.quote = "none"]
    BY CharsDiffer DEF Within, ReadChar
  <2> QED BY <2>1 DEF Within, Parsers
<1> HIDE DEF q
<1> QED BY <1>1, <1>2, <1>3, <1>5, <1>6, <1>7

LEMMA QuoteOpens ==
  ASSUME NEW p \in Parsers, NEW args, Fresh(p, args)
  PROVE  Within(ReadChar(p, Double), args, <<>>, Double)
<1>1. ReadChar(p, Double) = OpenQuote(p, Double)
  BY CharsDiffer DEF Fresh, ReadChar
<1> QED BY <1>1 DEF OpenQuote, Fresh, Within, Parsers

LEMMA LineEnds ==
  ASSUME NEW p \in Parsers, NEW args, NEW current, Within(p, args, current, "none")
  PROVE  Fresh(ReadChar(p, Newline), Append(args, current)) /\ Flush(Settle(p)).args = Append(args, current)
<1> DEFINE q == [p EXCEPT !.args = Append(@, p.current), !.current = <<>>, !.hasToken = FALSE]
<1>1. Flush(Settle(p)) = q
  BY DEF Within, Settle, Flush
<1>2. Append(args, current) \in Seq(Seq(Chars)) /\ <<>> \in Seq(Chars)
  BY DEF Within, Parsers
<1>3. /\ q \in Parsers /\ q.args = Append(args, current) /\ q.current = <<>> /\ q.quote = "none"
      /\ ~q.hasToken /\ ~q.escaped
  BY <1>2 DEF Within, Parsers
<1>4. ReadChar(p, Newline) = [q EXCEPT !.start = TRUE, !.comment = FALSE]
  BY <1>1 DEF Within, ReadChar, EndLine
<1> HIDE DEF q
<1> QED BY <1>1, <1>3, <1>4 DEF Fresh, Parsers

LEMMA Escapes ==
  ASSUME NEW s \in Seq(Chars), NEW t \in Seq(Chars), NEW ch \in Chars
  PROVE  /\ EscapeChar(ch) \in Seq(Chars)
         /\ ch \in {Backslash, Double} => s \o (t \o EscapeChar(ch)) = Append(Append(s \o t, Backslash), ch)
         /\ ch \notin {Backslash, Double} => s \o (t \o EscapeChar(ch)) = Append(s \o t, ch)
<1>1. Backslash \in Chars
  BY CharsDiffer
<1>2. <<ch>> \in Seq(Chars) /\ <<Backslash, ch>> \in Seq(Chars)
  BY <1>1
<1>3. s \o (t \o <<Backslash, ch>>) = Append(Append(s \o t, Backslash), ch)
  BY <1>1
<1>4. s \o (t \o <<ch>>) = Append(s \o t, ch)
  OBVIOUS
<1> QED BY <1>2, <1>3, <1>4, Zenon DEF EscapeChar

LEMMA Enclosed ==
  ASSUME NEW s \in Seq(Chars), NEW t \in Seq(Chars)
  PROVE  s \o (<<Double>> \o t \o <<Double>>) = Append(Append(s, Double) \o t, Double)
<1>1. Double \in Chars
  BY CharsDiffer
<1> QED BY <1>1

(* An argument that needs no quotes, and one between quotes.               *)
LEMMA ReadBare ==
  ASSUME NEW text \in Seq(Chars), NEW args, Fresh(Read(text), args),
         NEW arg \in Seq(Chars), ~NeedsQuotes(arg)
  PROVE  Within(Read(text \o arg), args, arg, "none")
<1> DEFINE N == Len(arg)
           State(p, n) == IF n = 0 THEN Fresh(p, args) ELSE Within(p, args, FirstOf(arg, n), "none")
           G == {n \in 0 .. N : State(Read(text \o FirstOf(arg, n)), n)}
<1>1. 0 \in G
  <2>1. text \o FirstOf(arg, 0) = text /\ 0 \in 0 .. N
    BY UpToLength, ConcatEmptySeq
  <2> QED BY <2>1
<1>2. ASSUME NEW n \in 1 .. N, n - 1 \in G PROVE n \in G
  <2> DEFINE ch == arg[n]
             before == text \o FirstOf(arg, n - 1)
  <2>1. ch \in Chars /\ ch \notin Whitespace \cup {Single, Double, Backslash} /\ (n = 1 => ch # Hash)
    BY DEF NeedsQuotes
  <2>2. n - 1 \in 0 .. N /\ n \in 0 .. N /\ n # 0 /\ FirstOf(arg, n - 1) \in Seq(Chars) /\ N > 0
    BY UpToLength
  <2>3. text \o FirstOf(arg, n) = Append(before, ch) /\ before \in Seq(Chars)
    BY <2>1, <2>2, FirstAfter, Appended
  <2>4. Read(Append(before, ch)) = ReadChar(Read(before), ch) /\ Read(before) \in Parsers
    BY <2>1, <2>3, ReadStep
  <2>5. State(Read(before), n - 1)
    BY <1>2
  <2>6. State(ReadChar(Read(before), ch), n)
    <3>1. FirstOf(arg, n) = Append(FirstOf(arg, n - 1), ch) /\ (n = 1 => FirstOf(arg, n) = <<ch>>)
      BY UpToLength
    <3>2. CASE n = 1
      <4>1. FirstOf(arg, n) = <<ch>> /\ Fresh(Read(before), args)
        BY <2>5, <3>1, <3>2
      <4> HIDE DEF ch, before
      <4> QED BY <2>1, <2>2, <2>4, <3>2, <4>1, BareReads
    <3>3. CASE n # 1
      <4>1. Within(Read(before), args, FirstOf(arg, n - 1), "none")
        BY <2>5, <3>3
      <4> HIDE DEF ch, before
      <4> QED BY <2>1, <2>2, <2>4, <3>1, <4>1, BareReads
    <3> QED BY <3>2, <3>3
  <2> QED BY <2>2, <2>3, <2>4, <2>5, <2>6
<1>3. 0 .. N \subseteq G /\ N \in Nat
  <2>1. N \in Nat
    OBVIOUS
  <2> HIDE DEF G
  <2> QED BY <1>1, <1>2, <2>1, Induction
<1>4. N # 0
  BY DEF NeedsQuotes
<1>5. N \in G
  BY <1>3
<1> QED BY <1>4, <1>5, UpToLength

LEMMA ReadQuoted ==
  ASSUME NEW text \in Seq(Chars), NEW args, Fresh(Read(text), args), NEW arg \in Seq(Chars)
  PROVE  Within(Read(text \o (<<Double>> \o Escape(arg) \o <<Double>>)), args, arg, "none")
<1> DEFINE N == Len(arg)
           pieces == [n \in DOMAIN arg |-> EscapeChar(arg[n])]
           open == Append(text, Double)
<1>1. open \in Seq(Chars) /\ Within(Read(open), args, <<>>, Double) /\ Double \in Chars /\ Backslash \in Chars
  BY CharsDiffer, ReadStep, QuoteOpens
<1>2. /\ pieces \in Seq(Seq(Chars)) /\ Len(pieces) = N /\ N \in Nat
      /\ \A n \in 1 .. N : arg[n] \in Chars /\ pieces[n] = EscapeChar(arg[n])
  <2>1. \A n \in 1 .. N : EscapeChar(arg[n]) \in Seq(Chars)
    BY Escapes
  <2>2. pieces \in [1 .. N -> Seq(Chars)] /\ N \in Nat /\ \A n \in 1 .. N : arg[n] \in Chars /\ pieces[n] = EscapeChar(arg[n])
    BY <2>1
  <2> HIDE DEF pieces
  <2> QED BY <2>2, FunctionIsSeq
<1>3. Escape(arg) = FlattenSeq(pieces)
  BY Zenon DEF Escape
<1> HIDE DEF pieces
<1>4. PICK f \in [0 .. N -> Seq(Chars)] :
        f[0] = <<>> /\ (\A n \in 1 .. N : f[n] = f[n - 1] \o pieces[n]) /\ Escape(arg) = f[N]
  <2>1. PICK f \in [0 .. Len(pieces) -> Seq(Chars)] :
          /\ f[0] = <<>> /\ \A n \in 1 .. Len(pieces) : f[n] = f[n - 1] \o pieces[n]
          /\ FlattenSeq(pieces) = f[Len(pieces)]
    BY <1>2, FlattenRun
  <2> QED BY <1>2, <1>3, <2>1
<1> DEFINE G == {n \in 0 .. N : Within(Read(open \o f[n]), args, FirstOf(arg, n), Double)}
<1>5. 0 \in G
  <2>1. FirstOf(arg, 0) = <<>> /\ open \o f[0] = open /\ 0 \in 0 .. N
    BY <1>1, <1>2, <1>4, UpToLength, ConcatEmptySeq
  <2> HIDE DEF open
  <2> QED BY <2>1, <1>1
<1>6. ASSUME NEW n \in 1 .. N, n - 1 \in G PROVE n \in G
  <2> DEFINE ch == arg[n]
             before == open \o f[n - 1]
  <2>1. /\ ch \in Chars /\ n - 1 \in 0 .. N /\ n \in 0 .. N
        /\ FirstOf(arg, n) = Append(FirstOf(arg, n - 1), ch)
    BY UpToLength
  <2>2. f[n - 1] \in Seq(Chars) /\ open \o f[n] = open \o (f[n - 1] \o EscapeChar(ch))
    BY <1>2, <1>4, <2>1
  <2>3. before \in Seq(Chars)
    BY <1>1, <2>2
  <2>4. Within(Read(before), args, FirstOf(arg, n - 1), Double)
    BY <1>6
  <2>5. /\ ch \in {Backslash, Double} => open \o f[n] = Append(Append(before, Backslash), ch)
        /\ ch \notin {Backslash, Double} => open \o f[n] = Append(before, ch)
    <3>1. open \in Seq(Chars)
      BY <1>1
    <3> HIDE DEF ch, open
    <3> QED BY <2>1, <2>2, <3>1, Escapes
  <2>6. Append(before, Backslash) \in Seq(Chars)
    BY <1>1, <2>3
  <2> HIDE DEF ch, before
  <2>7. /\ Read(before) \in Parsers
        /\ Read(Append(before, ch)) = ReadChar(Read(before), ch)
        /\ Read(Append(Append(before, Backslash), ch)) = ReadChar(ReadChar(Read(before), Backslash), ch)
    BY <1>1, <2>1, <2>3, <2>6, ReadStep
  <2>8. Within(Read(open \o f[n]), args, FirstOf(arg, n), Double)
    BY <2>1, <2>4, <2>5, <2>7, QuotedReads
  <2> QED BY <2>1, <2>8
<1>7. Within(Read(open \o f[N]), args, arg, Double)
  <2>1. 0 .. N \subseteq G
    <3> HIDE DEF G
    <3> QED BY <1>2, <1>5, <1>6, Induction
  <2>2. N \in G
    BY <1>2, <2>1
  <2> QED BY <2>2, UpToLength
<1>8. Escape(arg) \in Seq(Chars) /\ open \o Escape(arg) \in Seq(Chars)
  <2>1. N \in 0 .. N
    BY <1>2
  <2>2. Escape(arg) \in Seq(Chars)
    BY <1>4, <2>1
  <2> QED BY <1>1, <2>2
<1>9. Read(open \o Escape(arg)) \in Parsers /\ Read(Append(open \o Escape(arg), Double)) = ReadChar(Read(open \o Escape(arg)), Double)
  BY <1>1, <1>8, ReadStep
<1>10. Within(ReadChar(Read(open \o Escape(arg)), Double), args, arg, "none")
  BY <1>1, <1>4, <1>7, <1>9, QuotedReads
<1>11. text \o (<<Double>> \o Escape(arg) \o <<Double>>) = Append(open \o Escape(arg), Double)
  BY <1>8, Enclosed
<1> QED BY <1>9, <1>10, <1>11

LEMMA ReadArg ==
  ASSUME NEW text \in Seq(Chars), NEW args, Fresh(Read(text), args), NEW arg \in Seq(Chars)
  PROVE  Within(Read(text \o ArgToText(arg)), args, arg, "none")
BY ReadBare, ReadQuoted, Zenon DEF ArgToText

LEMMA ArgTextType ==
  ASSUME NEW arg \in Seq(Chars)
  PROVE  ArgToText(arg) \in Seq(Chars)
<1> DEFINE pieces == [n \in DOMAIN arg |-> EscapeChar(arg[n])]
<1>1. pieces \in Seq(Seq(Chars))
  <2>1. \A n \in 1 .. Len(arg) : EscapeChar(arg[n]) \in Seq(Chars)
    BY Escapes
  <2>2. pieces \in [1 .. Len(arg) -> Seq(Chars)] /\ Len(arg) \in Nat
    BY <2>1
  <2> HIDE DEF pieces
  <2> QED BY <2>2, FunctionIsSeq
<1>2. Escape(arg) = FlattenSeq(pieces)
  BY Zenon DEF Escape
<1> HIDE DEF pieces
<1>3. Escape(arg) \in Seq(Chars)
  <2>1. PICK f \in [0 .. Len(pieces) -> Seq(Chars)] : FlattenSeq(pieces) = f[Len(pieces)]
    BY <1>1, FlattenRun
  <2>2. Len(pieces) \in 0 .. Len(pieces)
    BY <1>1
  <2> QED BY <1>2, <2>1, <2>2
<1>4. <<Double>> \o Escape(arg) \o <<Double>> \in Seq(Chars)
  <2>1. <<Double>> \in Seq(Chars)
    BY CharsDiffer
  <2> QED BY <1>3, <2>1
<1> QED BY <1>4 DEF ArgToText

(* Arguments are read back as they were written.                           *)
LEMMA ArgsAreRead ==
  ASSUME NEW args \in Seq(Seq(Chars))
  PROVE  ParseArgsText(ArgsToText(args)) = args
<1> DEFINE N == Len(args)
           texts == [n \in DOMAIN args |-> ArgToText(args[n])]
<1>1. N \in Nat /\ \A n \in 1 .. N : n - 1 \in 0 .. N /\ n \in 0 .. N /\ args[n] \in Seq(Chars)
  OBVIOUS
<1>2. /\ texts \in Seq(Seq(Chars)) /\ Len(texts) = N
      /\ \A n \in 1 .. N : texts[n] = ArgToText(args[n]) /\ texts[n] \in Seq(Chars)
  <2>1. /\ texts \in [1 .. N -> Seq(Chars)]
        /\ \A n \in 1 .. N : texts[n] = ArgToText(args[n]) /\ texts[n] \in Seq(Chars)
    BY <1>1, ArgTextType
  <2> HIDE DEF texts
  <2> QED BY <1>1, <2>1, FunctionIsSeq
<1>3. ArgsToText(args) = Lines(texts)
  BY Zenon DEF ArgsToText
<1> HIDE DEF texts
<1>4. PICK f \in [0 .. N -> Seq(Chars)] :
        /\ f[0] = <<>> /\ ArgsToText(args) = f[N]
        /\ \A n \in 1 .. N : f[n] = (IF n = 1 THEN <<>> ELSE Append(f[n - 1], Newline)) \o texts[n]
  <2>1. PICK f \in [0 .. Len(texts) -> Seq(Chars)] :
          /\ f[0] = <<>> /\ Lines(texts) = f[Len(texts)]
          /\ \A n \in 1 .. Len(texts) :
                f[n] = (IF n = 1 THEN <<>> ELSE Append(f[n - 1], Newline)) \o texts[n]
    <3>1. Newline \in Chars
      BY CharsDiffer
    <3> QED BY <1>2, <3>1, LinesRun
  <2> QED BY <1>2, <1>3, <2>1
<1> DEFINE State(p, n) == n # 0 => Within(p, FirstOf(args, n - 1), args[n], "none")
           G == {n \in 0 .. N : State(Read(f[n]), n)}
<1>5. Fresh(Read(<<>>), <<>>)
  BY ReadNothing, BeginType DEF Begin, Fresh
<1>6. 0 \in G
  BY <1>1
<1>7. ASSUME NEW n \in 1 .. N, n - 1 \in G PROVE n \in G
  <2> DEFINE start == IF n = 1 THEN <<>> ELSE Append(f[n - 1], Newline)
  <2>1. f[n] = start \o ArgToText(args[n]) /\ args[n] \in Seq(Chars) /\ n \in 0 .. N
    BY <1>1, <1>2, <1>4
  <2>2. start \in Seq(Chars) /\ Fresh(Read(start), FirstOf(args, n - 1))
    <3>1. CASE n = 1
      <4>1. start = <<>> /\ <<>> \in Seq(Chars) /\ FirstOf(args, n - 1) = <<>>
        BY <3>1, UpToLength
      <4> HIDE DEF start
      <4> QED BY <1>5, <4>1
    <3>2. CASE n # 1
      <4>1. /\ start = Append(f[n - 1], Newline) /\ f[n - 1] \in Seq(Chars) /\ Newline \in Chars
            /\ n - 1 \in 1 .. N /\ n - 1 # 0
        <5>1. start = Append(f[n - 1], Newline)
          BY <3>2
        <5>2. n - 1 \in 1 .. N /\ n - 1 # 0 /\ n - 1 \in 0 .. N
          BY <1>1, <3>2
        <5> HIDE DEF start
        <5> QED BY <5>1, <5>2, CharsDiffer
      <4>2. Within(Read(f[n - 1]), FirstOf(args, n - 2), args[n - 1], "none")
        BY <1>7, <4>1
      <4>3. FirstOf(args, n - 1) = Append(FirstOf(args, n - 2), args[n - 1])
        <5>1. FirstOf(args, n - 1) = Append(FirstOf(args, n - 1 - 1), args[n - 1])
          BY <4>1, UpToLength
        <5>2. n - 1 - 1 = n - 2
          OBVIOUS
        <5> QED BY <5>1, <5>2
      <4>4. Read(start) = ReadChar(Read(f[n - 1]), Newline) /\ Read(f[n - 1]) \in Parsers /\ start \in Seq(Chars)
        <5>1. start \in Seq(Chars)
          BY <4>1
        <5> HIDE DEF start
        <5> QED BY <4>1, <5>1, ReadStep
      <4> HIDE DEF start
      <4> QED BY <4>2, <4>3, <4>4, LineEnds
    <3> QED BY <3>1, <3>2
  <2> HIDE DEF start
  <2>3. Within(Read(f[n]), FirstOf(args, n - 1), args[n], "none")
    BY <2>1, <2>2, ReadArg
  <2> QED BY <2>1, <2>3
<1>8. N \in G
  <2>1. 0 .. N \subseteq G
    <3> HIDE DEF G
    <3> QED BY <1>1, <1>6, <1>7, Induction
  <2>2. N \in 0 .. N
    BY <1>1
  <2> HIDE DEF G
  <2> QED BY <2>1, <2>2
<1>9. CASE N = 0
  <2>1. args = <<>> /\ ArgsToText(args) = <<>>
    BY <1>4, <1>9
  <2>2. Read(<<>>) = Begin /\ Flush(Settle(Begin)).args = <<>>
    BY ReadNothing DEF Begin, Settle, Flush
  <2> QED BY <2>1, <2>2 DEF ParseArgsText, Read
<1>10. CASE N # 0
  <2>1. Within(Read(f[N]), FirstOf(args, N - 1), args[N], "none") /\ N \in 1 .. N /\ f[N] \in Seq(Chars)
    BY <1>1, <1>8, <1>10
  <2>2. FirstOf(args, N) = Append(FirstOf(args, N - 1), args[N]) /\ FirstOf(args, N) = args
    BY <2>1, UpToLength
  <2>3. Read(f[N]) \in Parsers
    BY <2>1 DEF Within
  <2>4. Flush(Settle(Read(f[N]))).args = args
    BY <2>1, <2>2, <2>3, LineEnds
  <2> QED BY <1>4, <2>4 DEF ParseArgsText, Read
<1> QED BY <1>9, <1>10

-----------------------------------------------------------------------------
(* Variables.                                                              *)

LEMMA EnvCharsDiffer ==
  /\ Equals \notin Whitespace /\ Newline \in Whitespace /\ Space \in Whitespace /\ Hash \notin Whitespace
  /\ Equals # Newline /\ Equals # Hash
  BY DEF Space, Newline, Equals, Hash, Whitespace

SplitText(text) == FoldLeft(Split, <<<<>>>>, text)
Pieces(T) == Seq(Seq(T)) \ {<<>>}

LEMMA SplitType ==
  ASSUME NEW T, NEW lines \in Pieces(T), NEW ch \in T
  PROVE  Split(lines, ch) \in Pieces(T)
<1>1. lines[Len(lines)] \in Seq(T) /\ Len(lines) \in 1 .. Len(lines)
  BY DEF Pieces
<1>2. Append(lines, <<>>) \in Pieces(T)
  BY DEF Pieces
<1>3. [lines EXCEPT ![Len(lines)] = Append(@, ch)] \in Pieces(T)
  BY <1>1 DEF Pieces
<1> QED BY <1>2, <1>3 DEF Split

Splits(T, text) == [n \in 1 .. Len(text) |-> [lines \in Pieces(T) |-> Split(lines, text[n])]]

LEMMA SplitRun ==
  ASSUME NEW T, NEW text \in Seq(T)
  PROVE  \E r : Run(Len(text), Pieces(T), <<<<>>>>, Splits(T, text), r) /\ SplitText(text) = r[Len(text)]
<1> DEFINE N == Len(text)
           F == Splits(T, text)
           start == <<<<>>>>
           Is(it) == it = [s \in SUBSET (1 .. N) |->
                             IF s = {} THEN start ELSE Split(it[s \ {Max(s)}], text[Max(s)])]
           iter == CHOOSE it : Is(it)
<1>1. N \in Nat /\ DOMAIN text = 1 .. N /\ F \in [1 .. N -> [Pieces(T) -> Pieces(T)]]
  BY SplitType DEF Splits
<1>2. start \in Pieces(T)
  BY DEF Pieces
<1>3. SplitText(text) = iter[1 .. N]
  BY <1>1 DEF SplitText, FoldLeft, MapThenFoldSet
<1> HIDE DEF start
<1>4. \E it : Is(it)
  <2>1. PICK it \in [SUBSET (1 .. N) -> Pieces(T)] : Iterates(N, start, F, it)
    BY <1>1, <1>2, IterExists
  <2>2. ASSUME NEW s \in SUBSET (1 .. N), s # {} PROVE it[s] = Split(it[s \ {Max(s)}], text[Max(s)])
    <3>1. Max(s) \in 1 .. N /\ s \ {Max(s)} \in SUBSET (1 .. N)
      BY <1>1, <2>2, MaxIsThere
    <3> QED BY <2>1, <2>2, <3>1 DEF Iterates, Splits
  <2> QED BY <2>1, <2>2 DEF Iterates
<1>5. Is(iter)
  BY <1>4, Zenon
<1> HIDE DEF iter
<1>6. ASSUME NEW n \in 1 .. N, iter[1 .. (n - 1)] \in Pieces(T) PROVE iter[1 .. n] = F[n][iter[1 .. (n - 1)]]
  <2>1. /\ 1 .. n \in SUBSET (1 .. N) /\ 1 .. n # {} /\ Max(1 .. n) = n
        /\ (1 .. n) \ {n} = 1 .. (n - 1)
    BY <1>1, UpTo
  <2>2. iter[1 .. n] = Split(iter[(1 .. n) \ {Max(1 .. n)}], text[Max(1 .. n)])
    BY <1>5, <2>1
  <2> QED BY <1>6, <2>1, <2>2 DEF Splits
<1>7. Grows(N, Pieces(T), start, F, iter)
  BY <1>5, <1>6 DEF Grows
<1> HIDE DEF F, N
<1>8. \E r : Run(N, Pieces(T), start, F, r) /\ r[N] = iter[1 .. N]
  BY <1>1, <1>2, <1>7, FoldRun
<1> QED BY <1>3, <1>8 DEF F, N, start

LEMMA SplitStep ==
  ASSUME NEW T, NEW text \in Seq(T), NEW ch \in T
  PROVE  SplitText(Append(text, ch)) = Split(SplitText(text), ch) /\ SplitText(text) \in Pieces(T)
<1> DEFINE N == Len(text)
           all == Append(text, ch)
           start == <<<<>>>>
<1>1. /\ all \in Seq(T) /\ N \in Nat /\ Len(all) = N + 1 /\ N + 1 \in 1 .. N + 1
      /\ all[N + 1] = ch /\ \A n \in 1 .. N : all[n] = text[n] /\ n \in 1 .. N + 1
  OBVIOUS
<1>2. PICK r : Run(N, Pieces(T), start, Splits(T, text), r) /\ SplitText(text) = r[N]
  BY SplitRun
<1> HIDE DEF all
<1>3. PICK q : Run(N + 1, Pieces(T), start, Splits(T, all), q) /\ SplitText(all) = q[N + 1]
  BY <1>1, SplitRun
<1> HIDE DEF start
<1>4. \A n \in 1 .. N : Splits(T, text)[n] = Splits(T, all)[n]
  BY <1>1 DEF Splits
<1>5. r[N] \in Pieces(T) /\ q[N + 1] = Splits(T, all)[N + 1][r[N]]
  <2> HIDE DEF N
  <2> QED BY <1>1, <1>2, <1>3, <1>4, RunOneMore
<1>6. Splits(T, all)[N + 1] = [state \in Pieces(T) |-> Split(state, ch)]
  BY <1>1 DEF Splits
<1> QED BY <1>2, <1>3, <1>5, <1>6 DEF all

LEMMA SplitNothing == SplitText(<<>>) = <<<<>>>>
<1> DEFINE start == <<<<>>>>
<1>1. <<>> \in Seq(Chars) /\ Len(<<>>) = 0
  OBVIOUS
<1>2. PICK r : Run(0, Pieces(Chars), start, Splits(Chars, <<>>), r) /\ SplitText(<<>>) = r[0]
  BY <1>1, SplitRun
<1> HIDE DEF start
<1>3. SplitText(<<>>) = start
  BY <1>2 DEF Run
<1> QED BY <1>3 DEF start

LEMMA SplitAdds ==
  ASSUME NEW T, NEW done \in Seq(Seq(T)), NEW line \in Seq(T), NEW ch \in T, ch # Newline
  PROVE  Split(Append(done, line), ch) = Append(done, Append(line, ch))
<1> DEFINE lines == Append(done, line)
           next == [lines EXCEPT ![Len(lines)] = Append(@, ch)]
<1>1. lines \in Seq(Seq(T)) /\ Len(lines) = Len(done) + 1 /\ Append(line, ch) \in Seq(T) /\ Len(done) \in Nat
  OBVIOUS
<1>2. next \in Seq(Seq(T)) /\ Len(next) = Len(done) + 1
  OBVIOUS
<1>3. ASSUME NEW n \in 1 .. Len(done) + 1 PROVE next[n] = Append(done, Append(line, ch))[n]
  <2>1. lines[Len(done) + 1] = line /\ DOMAIN lines = 1 .. Len(done) + 1
    OBVIOUS
  <2>2. next[n] = IF n = Len(done) + 1 THEN Append(line, ch) ELSE lines[n]
    <3>1. n \in DOMAIN lines
      BY <2>1
    <3> HIDE DEF lines
    <3> QED BY <1>1, <2>1, <3>1
  <2>3. n # Len(done) + 1 => lines[n] = done[n] /\ Append(done, Append(line, ch))[n] = done[n]
    BY <1>1
  <2>4. Append(done, Append(line, ch))[Len(done) + 1] = Append(line, ch)
    BY <1>1
  <2> HIDE DEF next, lines
  <2> QED BY <2>2, <2>3, <2>4, Zenon
<1>4. next = Append(done, Append(line, ch))
  <2>1. Append(done, Append(line, ch)) \in Seq(Seq(T)) /\ Len(Append(done, Append(line, ch))) = Len(done) + 1
    BY <1>1
  <2> HIDE DEF next
  <2> QED BY <1>2, <1>3, <2>1, SeqEqual
<1> QED BY <1>4 DEF Split

LEMMA SplitLine ==
  ASSUME NEW T, NEW text \in Seq(T), NEW done \in Seq(Seq(T)),
         SplitText(text) = Append(done, <<>>), NEW line \in Seq(T), OneLine(line)
  PROVE  SplitText(text \o line) = Append(done, line)
<1> DEFINE N == Len(line)
           G == {n \in 0 .. N : SplitText(text \o FirstOf(line, n)) = Append(done, FirstOf(line, n))}
<1>1. 0 \in G
  <2>1. text \o FirstOf(line, 0) = text /\ 0 \in 0 .. N /\ FirstOf(line, 0) = <<>>
    BY UpToLength, ConcatEmptySeq
  <2> QED BY <2>1
<1>2. ASSUME NEW n \in 1 .. N, n - 1 \in G PROVE n \in G
  <2> DEFINE ch == line[n]
             read == FirstOf(line, n - 1)
             before == text \o read
  <2>1. ch \in T /\ ch # Newline
    BY DEF OneLine
  <2>2. n - 1 \in 0 .. N /\ n \in 0 .. N /\ read \in Seq(T) /\ FirstOf(line, n) = Append(read, ch)
    <3>1. n - 1 \in 0 .. N /\ n \in 0 .. N /\ FirstOf(line, n) = Append(read, ch)
      BY UpToLength
    <3>2. FirstOf(line, n - 1) \in Seq(T)
      BY <3>1, UpToLength
    <3> QED BY <3>1, <3>2
  <2>3. text \o FirstOf(line, n) = Append(before, ch) /\ before \in Seq(T)
    BY <2>1, <2>2, FirstAfter, Appended
  <2>4. SplitText(before) = Append(done, read)
    BY <1>2
  <2> HIDE DEF ch, read, before
  <2>5. SplitText(Append(before, ch)) = Append(done, Append(read, ch))
    <3>1. SplitText(Append(before, ch)) = Split(SplitText(before), ch)
      BY <2>1, <2>3, SplitStep
    <3>2. Split(Append(done, read), ch) = Append(done, Append(read, ch))
      BY <2>1, <2>2, SplitAdds
    <3> QED BY <2>4, <3>1, <3>2
  <2> QED BY <2>2, <2>3, <2>5
<1>3. N \in G
  <2>1. N \in Nat /\ N \in 0 .. N
    OBVIOUS
  <2> HIDE DEF G
  <2> QED BY <1>1, <1>2, <2>1, Induction
<1> QED BY <1>3, UpToLength

LEMMA LinesAreSplit ==
  ASSUME NEW T, Newline \in T, NEW texts \in Seq(Seq(T)), texts # <<>>,
         \A n \in DOMAIN texts : OneLine(texts[n])
  PROVE  SplitText(Lines(texts)) = texts
<1> DEFINE N == Len(texts)
<1>1. N \in Nat /\ N \in 0 .. N /\ N # 0 /\ \A n \in 1 .. N : texts[n] \in Seq(T) /\ OneLine(texts[n])
  OBVIOUS
<1>2. PICK f \in [0 .. N -> Seq(T)] :
        /\ f[0] = <<>>
        /\ \A n \in 1 .. N : f[n] = (IF n = 1 THEN <<>> ELSE Append(f[n - 1], Newline)) \o texts[n]
        /\ Lines(texts) = f[N]
  BY LinesRun
<1> DEFINE G == {n \in 0 .. N : n # 0 => SplitText(f[n]) = FirstOf(texts, n)}
<1>3. 0 \in G
  BY <1>1
<1>4. ASSUME NEW n \in 1 .. N, n - 1 \in G PROVE n \in G
  <2> DEFINE start == IF n = 1 THEN <<>> ELSE Append(f[n - 1], Newline)
  <2>1. f[n] = start \o texts[n]
    BY <1>2
  <2>5. n \in 0 .. N /\ n - 1 \in 0 .. N
    BY <1>1
  <2>2. FirstOf(texts, n - 1) \in Seq(Seq(T)) /\ FirstOf(texts, n) = Append(FirstOf(texts, n - 1), texts[n])
    BY UpToLength
  <2>3. start \in Seq(T) /\ SplitText(start) = Append(FirstOf(texts, n - 1), <<>>)
    <3>1. CASE n = 1
      <4>1. start = <<>> /\ <<>> \in Seq(T) /\ FirstOf(texts, n - 1) = <<>>
        BY <3>1, UpToLength
      <4>2. Append(<<>>, <<>>) = <<<<>>>>
        OBVIOUS
      <4> HIDE DEF start
      <4> QED BY <4>1, <4>2, SplitNothing, Zenon
    <3>2. CASE n # 1
      <4>1. start = Append(f[n - 1], Newline)
        BY <3>2
      <4>2. n - 1 # 0 /\ f[n - 1] \in Seq(T)
        <5>1. f[n - 1] \in Seq(T)
          BY <2>5
        <5>2. n - 1 # 0
          BY <1>1, <3>2
        <5> QED BY <5>1, <5>2
      <4>3. SplitText(f[n - 1]) = FirstOf(texts, n - 1)
        BY <1>4, <4>2
      <4>4. start \in Seq(T)
        BY <4>1, <4>2
      <4> HIDE DEF start
      <4>5. SplitText(start) = Split(SplitText(f[n - 1]), Newline)
        BY <4>1, <4>2, SplitStep
      <4> QED BY <4>3, <4>4, <4>5, Zenon DEF Split
    <3> QED BY <3>1, <3>2
  <2> HIDE DEF start
  <2>4. SplitText(start \o texts[n]) = Append(FirstOf(texts, n - 1), texts[n])
    BY <1>1, <2>2, <2>3, SplitLine
  <2> QED BY <2>1, <2>2, <2>4, <2>5
<1>5. N \in G
  <2>1. 0 .. N \subseteq G
    <3> HIDE DEF G
    <3> QED BY <1>1, <1>3, <1>4, Induction
  <2> HIDE DEF G
  <2> QED BY <1>1, <2>1
<1> QED BY <1>1, <1>2, <1>5, UpToLength

VarsOf(lines) == FoldLeft(PushVar, <<>>, lines)
Variables(T) == Seq([name : Seq(T), value : Seq(T)])

LEMMA TrimType ==
  ASSUME NEW T, NEW line \in Seq(T)
  PROVE  Trim(line) \in Seq(T)
<1> DEFINE inked == {n \in DOMAIN line : line[n] \notin Whitespace}
           first == CHOOSE n \in inked : \A m \in inked : n <= m
           last == CHOOSE n \in inked : \A m \in inked : n >= m
<1>1. <<>> \in Seq(T) /\ inked \in SUBSET (1 .. Len(line)) /\ Len(line) \in Nat
  OBVIOUS
<1>2. CASE inked # {}
  <2>1. \E n \in inked : \A m \in inked : n <= m
    <3>1. inked \subseteq Nat
      BY <1>1
    <3> HIDE DEF inked
    <3> QED BY <1>2, <3>1, LeastNatural
  <2>2. first \in inked
    <3> HIDE DEF inked
    <3> QED BY <2>1
  <2>3. \E n \in inked : \A m \in inked : n >= m
    <3> HIDE DEF inked
    <3> QED BY <1>1, <1>2, MaxIsThere
  <2>4. last \in inked
    <3> HIDE DEF inked
    <3> QED BY <2>3
  <2>5. first \in 1 .. Len(line) /\ last \in 1 .. Len(line)
    BY <1>1, <2>2, <2>4
  <2>6. SubSeq(line, first, last) \in Seq(T)
    <3> HIDE DEF first, last
    <3> QED BY <2>5
  <2> QED BY <1>2, <2>6 DEF Trim
<1>3. CASE inked = {}
  BY <1>1, <1>3 DEF Trim
<1> QED BY <1>2, <1>3

LEMMA NameEndsType ==
  ASSUME NEW T, NEW line \in Seq(T)
  PROVE  NameEnds(line) \in 1 .. Len(line) + 1
<1> DEFINE at == {n \in DOMAIN line : line[n] = Equals}
<1>1. at \subseteq 1 .. Len(line) /\ at \subseteq Nat /\ Len(line) \in Nat
  OBVIOUS
<1>2. CASE at # {}
  <2>1. \E n \in at : \A m \in at : n <= m
    <3> HIDE DEF at
    <3> QED BY <1>1, <1>2, LeastNatural
  <2>2. (CHOOSE n \in at : \A m \in at : n <= m) \in at
    <3> HIDE DEF at
    <3> QED BY <2>1
  <2>3. NameEnds(line) \in at
    BY <1>2, <2>2 DEF NameEnds
  <2>4. NameEnds(line) \in 1 .. Len(line)
    <3> HIDE DEF at
    <3> QED BY <1>1, <2>3
  <2> QED BY <1>1, <2>4
<1>3. CASE at = {}
  <2>1. NameEnds(line) = Len(line) + 1
    BY <1>3, Zenon DEF NameEnds
  <2> HIDE DEF at
  <2> QED BY <1>1, <2>1
<1> QED BY <1>2, <1>3

LEMMA PushVarType ==
  ASSUME NEW T, NEW vars \in Variables(T), NEW line \in Seq(T)
  PROVE  PushVar(vars, line) \in Variables(T)
<1> DEFINE trimmed == Trim(line)
           at == NameEnds(trimmed)
<1>1. trimmed \in Seq(T)
  BY TrimType
<1>2. at \in 1 .. Len(trimmed) + 1 /\ Len(trimmed) \in Nat
  BY <1>1, NameEndsType
<1>3. SubSeq(trimmed, 1, at - 1) \in Seq(T) /\ SubSeq(trimmed, at + 1, Len(trimmed)) \in Seq(T)
  <2> HIDE DEF trimmed, at
  <2> QED BY <1>1, <1>2
<1>4. Trim(SubSeq(trimmed, 1, at - 1)) \in Seq(T)
  BY <1>3, TrimType
<1>5. ParseEnvLine(trimmed) \in [name : Seq(T), value : Seq(T)]
  BY <1>3, <1>4 DEF ParseEnvLine
<1>6. Append(vars, ParseEnvLine(trimmed)) \in Variables(T)
  <2> HIDE DEF trimmed
  <2> QED BY <1>5 DEF Variables
<1> QED BY <1>6, Zenon DEF PushVar

Pushes(T, lines) == [n \in 1 .. Len(lines) |-> [vars \in Variables(T) |-> PushVar(vars, lines[n])]]

LEMMA PushRun ==
  ASSUME NEW T, NEW lines \in Seq(Seq(T))
  PROVE  \E r : Run(Len(lines), Variables(T), <<>>, Pushes(T, lines), r) /\ VarsOf(lines) = r[Len(lines)]
<1> DEFINE N == Len(lines)
           F == Pushes(T, lines)
           start == <<>>
           Is(it) == it = [s \in SUBSET (1 .. N) |->
                             IF s = {} THEN start ELSE PushVar(it[s \ {Max(s)}], lines[Max(s)])]
           iter == CHOOSE it : Is(it)
<1>1. N \in Nat /\ DOMAIN lines = 1 .. N /\ F \in [1 .. N -> [Variables(T) -> Variables(T)]]
  BY PushVarType DEF Pushes
<1>2. start \in Variables(T)
  BY DEF Variables
<1>3. VarsOf(lines) = iter[1 .. N]
  BY <1>1 DEF VarsOf, FoldLeft, MapThenFoldSet
<1> HIDE DEF start
<1>4. \E it : Is(it)
  <2>1. PICK it \in [SUBSET (1 .. N) -> Variables(T)] : Iterates(N, start, F, it)
    BY <1>1, <1>2, IterExists
  <2>2. ASSUME NEW s \in SUBSET (1 .. N), s # {} PROVE it[s] = PushVar(it[s \ {Max(s)}], lines[Max(s)])
    <3>1. Max(s) \in 1 .. N /\ s \ {Max(s)} \in SUBSET (1 .. N)
      BY <1>1, <2>2, MaxIsThere
    <3> QED BY <2>1, <2>2, <3>1 DEF Iterates, Pushes
  <2> QED BY <2>1, <2>2 DEF Iterates
<1>5. Is(iter)
  BY <1>4, Zenon
<1> HIDE DEF iter
<1>6. ASSUME NEW n \in 1 .. N, iter[1 .. (n - 1)] \in Variables(T) PROVE iter[1 .. n] = F[n][iter[1 .. (n - 1)]]
  <2>1. /\ 1 .. n \in SUBSET (1 .. N) /\ 1 .. n # {} /\ Max(1 .. n) = n
        /\ (1 .. n) \ {n} = 1 .. (n - 1)
    BY <1>1, UpTo
  <2>2. iter[1 .. n] = PushVar(iter[(1 .. n) \ {Max(1 .. n)}], lines[Max(1 .. n)])
    BY <1>5, <2>1
  <2> QED BY <1>6, <2>1, <2>2 DEF Pushes
<1>7. Grows(N, Variables(T), start, F, iter)
  BY <1>5, <1>6 DEF Grows
<1> HIDE DEF F, N
<1>8. \E r : Run(N, Variables(T), start, F, r) /\ r[N] = iter[1 .. N]
  BY <1>1, <1>2, <1>7, FoldRun
<1> QED BY <1>3, <1>8 DEF F, N, start

LEMMA PushStep ==
  ASSUME NEW T, NEW lines \in Seq(Seq(T)), NEW line \in Seq(T)
  PROVE  VarsOf(Append(lines, line)) = PushVar(VarsOf(lines), line) /\ VarsOf(lines) \in Variables(T)
<1> DEFINE N == Len(lines)
           all == Append(lines, line)
           start == <<>>
<1>1. /\ all \in Seq(Seq(T)) /\ N \in Nat /\ Len(all) = N + 1 /\ N + 1 \in 1 .. N + 1
      /\ all[N + 1] = line /\ \A n \in 1 .. N : all[n] = lines[n] /\ n \in 1 .. N + 1
  OBVIOUS
<1>2. PICK r : Run(N, Variables(T), start, Pushes(T, lines), r) /\ VarsOf(lines) = r[N]
  BY PushRun
<1> HIDE DEF all
<1>3. PICK q : Run(N + 1, Variables(T), start, Pushes(T, all), q) /\ VarsOf(all) = q[N + 1]
  BY <1>1, PushRun
<1> HIDE DEF start
<1>4. \A n \in 1 .. N : Pushes(T, lines)[n] = Pushes(T, all)[n]
  BY <1>1 DEF Pushes
<1>5. r[N] \in Variables(T) /\ q[N + 1] = Pushes(T, all)[N + 1][r[N]]
  <2> HIDE DEF N
  <2> QED BY <1>1, <1>2, <1>3, <1>4, RunOneMore
<1>6. Pushes(T, all)[N + 1] = [state \in Variables(T) |-> PushVar(state, line)]
  BY <1>1 DEF Pushes
<1> QED BY <1>2, <1>3, <1>5, <1>6 DEF all

LEMMA VarsOfNothing == VarsOf(<<>>) = <<>>
<1> DEFINE start == <<>>
<1>1. <<>> \in Seq(Seq(Chars)) /\ Len(<<>>) = 0
  OBVIOUS
<1>2. PICK r : Run(0, Variables(Chars), start, Pushes(Chars, <<>>), r) /\ VarsOf(<<>>) = r[0]
  BY <1>1, PushRun
<1> HIDE DEF start
<1>3. VarsOf(<<>>) = start
  BY <1>2 DEF Run
<1> QED BY <1>3 DEF start

(* A name as ValidateEnvVarName admits it, and a value the editor holds.   *)
IsName(name) == name # <<>> /\ \A n \in DOMAIN name : name[n] \notin Whitespace \cup {Hash, Equals}
IsValue(value) == OneLine(value) /\ (value # <<>> => value[Len(value)] \notin Whitespace)
EnvVar(name, value) == [name |-> name, value |-> value]
EnvLine(name, value) == name \o <<Equals>> \o value

LEMMA TrimKeeps ==
  ASSUME NEW T, NEW line \in Seq(T), line # <<>>,
         line[1] \notin Whitespace, line[Len(line)] \notin Whitespace
  PROVE  Trim(line) = line
<1> DEFINE inked == {n \in DOMAIN line : line[n] \notin Whitespace}
           first == CHOOSE n \in inked : \A m \in inked : n <= m
           last == CHOOSE n \in inked : \A m \in inked : n >= m
<1>1. 1 \in inked /\ Len(line) \in inked /\ inked \subseteq 1 .. Len(line) /\ Len(line) \in Nat
  OBVIOUS
<1>2. first = 1
  <2>1. \A m \in inked : 1 <= m
    BY <1>1
  <2>2. \A n \in inked : (\A m \in inked : n <= m) => n = 1
    <3> HIDE DEF inked
    <3> QED BY <1>1
  <2> HIDE DEF inked
  <2> QED BY <1>1, <2>1, <2>2
<1>3. last = Len(line)
  <2>1. \A m \in inked : Len(line) >= m
    BY <1>1
  <2>2. \A n \in inked : (\A m \in inked : n >= m) => n = Len(line)
    <3> HIDE DEF inked
    <3> QED BY <1>1
  <2> HIDE DEF inked
  <2> QED BY <1>1, <2>1, <2>2
<1>4. Trim(line) = SubSeq(line, first, last)
  BY <1>1, Zenon DEF Trim
<1>5. SubSeq(line, 1, Len(line)) = line
  OBVIOUS
<1> HIDE DEF first, last
<1> QED BY <1>2, <1>3, <1>4, <1>5

LEMMA EnvLineIsRead ==
  ASSUME NEW T, Equals \in T, NEW name \in Seq(T), NEW value \in Seq(T), IsName(name), IsValue(value),
         NEW vars, NEW line, line = EnvLine(name, value)
  PROVE  /\ line \in Seq(T) /\ OneLine(line)
         /\ PushVar(vars, line) = Append(vars, EnvVar(name, value))
<1>21. /\ line \in Seq(T) /\ Len(line) = Len(name) + 1 + Len(value) /\ Len(name) \in Nat /\ Len(value) \in Nat
       /\ \A n \in 1 .. Len(name) : line[n] = name[n]
       /\ line[Len(name) + 1] = Equals
  BY DEF EnvLine
<1>22. \A n \in 1 .. Len(value) : line[Len(name) + 1 + n] = value[n]
  BY DEF EnvLine
<1>23. SubSeq(line, 1, Len(name)) = name
  <2>1. SubSeq(line, 1, Len(name)) \in Seq(T) /\ Len(SubSeq(line, 1, Len(name))) = Len(name)
    BY <1>21
  <2>2. \A n \in 1 .. Len(name) : SubSeq(line, 1, Len(name))[n] = name[n]
    BY <1>21
  <2> QED BY <2>1, <2>2, SeqEqual
<1>24. SubSeq(line, Len(name) + 2, Len(line)) = value
  <2> DEFINE rest == SubSeq(line, Len(name) + 2, Len(line))
  <2>1. rest \in Seq(T) /\ Len(rest) = Len(value)
    BY <1>21
  <2>2. \A n \in 1 .. Len(value) : rest[n] = line[Len(name) + 1 + n]
    BY <1>21
  <2>3. \A n \in 1 .. Len(value) : rest[n] = value[n]
    BY <1>22, <2>2
  <2>4. rest = value
    <3> HIDE DEF rest
    <3> QED BY <2>1, <2>3, SeqEqual
  <2> QED BY <2>4
<1>1. /\ line \in Seq(T) /\ Len(line) = Len(name) + 1 + Len(value) /\ Len(name) \in Nat /\ Len(value) \in Nat
      /\ \A n \in 1 .. Len(name) : line[n] = name[n]
      /\ line[Len(name) + 1] = Equals
      /\ \A n \in 1 .. Len(value) : line[Len(name) + 1 + n] = value[n]
      /\ SubSeq(line, 1, Len(name)) = name
      /\ SubSeq(line, Len(name) + 2, Len(line)) = value
  BY <1>21, <1>22, <1>23, <1>24
<1>2. Len(name) \in 1 .. Len(name) /\ 1 \in 1 .. Len(name) /\ name # <<>>
  BY DEF IsName
<1>3. \A n \in 1 .. Len(name) : name[n] \notin Whitespace \cup {Hash, Equals}
  BY DEF IsName
<1>4. OneLine(line)
  <2>1. ASSUME NEW n \in 1 .. Len(line) PROVE line[n] # Newline
    <3>1. CASE n \in 1 .. Len(name)
      BY <1>1, <1>3, <3>1, EnvCharsDiffer
    <3>2. CASE n = Len(name) + 1
      BY <1>1, <3>2, EnvCharsDiffer
    <3>3. CASE n > Len(name) + 1
      <4> DEFINE m == n - (Len(name) + 1)
      <4>1. m \in 1 .. Len(value) /\ n = Len(name) + 1 + m
        BY <1>1, <3>3
      <4>2. value[m] # Newline
        BY <4>1 DEF IsValue, OneLine
      <4>3. line[Len(name) + 1 + m] = value[m]
        BY <1>1, <4>1
      <4> HIDE DEF m
      <4> QED BY <4>1, <4>2, <4>3
    <3> QED BY <1>1, <3>1, <3>2, <3>3
  <2>2. DOMAIN line = 1 .. Len(line)
    BY <1>1
  <2> QED BY <2>1, <2>2 DEF OneLine
<1>5. line # <<>> /\ line[1] \notin Whitespace \cup {Hash}
  BY <1>1, <1>2, <1>3
<1>6. line[Len(line)] \notin Whitespace
  <2>1. CASE value = <<>>
    <3>1. Len(line) = Len(name) + 1
      BY <1>1, <2>1
    <3> QED BY <1>1, <3>1, EnvCharsDiffer
  <2>2. CASE value # <<>>
    <3>1. Len(value) \in 1 .. Len(value) /\ Len(line) = Len(name) + 1 + Len(value)
      BY <1>1, <2>2
    <3> QED BY <1>1, <2>2, <3>1 DEF IsValue
  <2> QED BY <2>1, <2>2
<1>7. Trim(line) = line
  BY <1>1, <1>5, <1>6, TrimKeeps
<1>8. NameEnds(line) = Len(name) + 1
  <2> DEFINE at == {n \in DOMAIN line : line[n] = Equals}
  <2>1. Len(name) + 1 \in at /\ at \subseteq 1 .. Len(line)
    BY <1>1
  <2>2. \A m \in at : Len(name) + 1 <= m
    <3>1. \A m \in at : m \in Nat /\ m \notin 1 .. Len(name)
      BY <1>1, <1>3
    <3> HIDE DEF at
    <3> QED BY <1>1, <2>1, <3>1
  <2>3. \A n \in at : (\A m \in at : n <= m) => n = Len(name) + 1
    <3>1. at \subseteq Nat /\ Len(name) + 1 \in Nat
      BY <1>1
    <3> HIDE DEF at
    <3> QED BY <2>1, <2>2, <3>1
  <2>4. NameEnds(line) = CHOOSE n \in at : \A m \in at : n <= m
    BY <2>1, Zenon DEF NameEnds
  <2> HIDE DEF at
  <2> QED BY <2>1, <2>2, <2>3, <2>4
<1>9. Trim(name) = name
  BY <1>2, <1>3, TrimKeeps
<1>10. ParseEnvLine(line) = EnvVar(name, value)
  <2>1. SubSeq(line, 1, NameEnds(line) - 1) = name
    <3>1. Len(name) + 1 - 1 = Len(name)
      BY <1>1
    <3> QED BY <1>1, <1>8, <3>1
  <2>2. SubSeq(line, NameEnds(line) + 1, Len(line)) = value
    <3>1. Len(name) + 1 + 1 = Len(name) + 2
      BY <1>1
    <3> QED BY <1>1, <1>8, <3>1
  <2> QED BY <1>9, <2>1, <2>2, Zenon DEF ParseEnvLine, EnvVar
<1>11. Head(line) # Hash
  BY <1>1, <1>5
<1>12. PushVar(vars, line) = Append(vars, EnvVar(name, value))
  BY <1>5, <1>7, <1>10, <1>11, Zenon DEF PushVar
<1> QED BY <1>1, <1>4, <1>12

EnvPushed(name, value) ==
  \A vars : PushVar(vars, EnvLine(name, value)) = Append(vars, EnvVar(name, value))

LEMMA EnvLineIsPushed ==
  ASSUME NEW T, Equals \in T, NEW name \in Seq(T), NEW value \in Seq(T), IsName(name), IsValue(value)
  PROVE  EnvPushed(name, value)
<1>1. ASSUME NEW vars PROVE PushVar(vars, EnvLine(name, value)) = Append(vars, EnvVar(name, value))
  <2> DEFINE line == EnvLine(name, value)
  <2>1. line = EnvLine(name, value)
    OBVIOUS
  <2> HIDE DEF line
  <2>2. PushVar(vars, line) = Append(vars, EnvVar(name, value))
    BY <2>1, EnvLineIsRead
  <2> QED BY <2>1, <2>2
<1> QED BY <1>1 DEF EnvPushed

(* Variables are read back as they were written.                           *)
LEMMA EnvIsRead ==
  ASSUME NEW T, {Equals, Newline} \subseteq T, NEW vars \in Variables(T),
         \A n \in DOMAIN vars : IsName(vars[n].name) /\ IsValue(vars[n].value)
  PROVE  ParseEnvText(EnvVarsToText(vars)) = vars
<1> DEFINE N == Len(vars)
           texts == [n \in DOMAIN vars |-> vars[n].name \o <<Equals>> \o vars[n].value]
<1>1. N \in Nat /\ N \in 0 .. N /\ DOMAIN vars = 1 .. N
  BY DEF Variables
<1>2. ASSUME NEW n \in 1 .. N
      PROVE  /\ vars[n].name \in Seq(T) /\ vars[n].value \in Seq(T)
             /\ IsName(vars[n].name) /\ IsValue(vars[n].value)
             /\ vars[n] = EnvVar(vars[n].name, vars[n].value)
             /\ n - 1 \in 0 .. N /\ n \in 0 .. N
  <2>1. vars[n] \in [name : Seq(T), value : Seq(T)]
    BY ElementOfSeq DEF Variables
  <2>2. n - 1 \in 0 .. N /\ n \in 0 .. N
    BY <1>1
  <2>3. vars[n] = EnvVar(vars[n].name, vars[n].value) /\ vars[n].name \in Seq(T) /\ vars[n].value \in Seq(T)
    BY <2>1 DEF EnvVar
  <2> QED BY <1>1, <2>2, <2>3
<1>10. /\ texts \in Seq(Seq(T)) /\ Len(texts) = N /\ DOMAIN texts = 1 .. N
       /\ \A n \in 1 .. N : texts[n] = EnvLine(vars[n].name, vars[n].value)
  <2>1. /\ texts \in [1 .. N -> Seq(T)]
        /\ \A n \in 1 .. N : texts[n] = EnvLine(vars[n].name, vars[n].value)
    <3>1. \A n \in 1 .. N : EnvLine(vars[n].name, vars[n].value) \in Seq(T)
      BY <1>2, EnvLineIsRead
    <3> QED BY <1>1, <3>1 DEF EnvLine
  <2> HIDE DEF texts
  <2> QED BY <1>1, <2>1, FunctionIsSeq
<1>3. EnvVarsToText(vars) = Lines(texts)
  BY Zenon DEF EnvVarsToText
<1> HIDE DEF texts
<1>4. \A n \in 1 .. N : OneLine(texts[n]) /\ texts[n] \in Seq(T)
  BY <1>2, <1>10, EnvLineIsRead
<1>11. ASSUME NEW n \in 1 .. N, NEW before PROVE PushVar(before, texts[n]) = Append(before, vars[n])
  <2> DEFINE name == vars[n].name
             value == vars[n].value
  <2>1. name \in Seq(T) /\ value \in Seq(T) /\ IsName(name) /\ IsValue(value)
    BY <1>2
  <2>2. texts[n] = EnvLine(name, value) /\ vars[n] = EnvVar(name, value)
    BY <1>2, <1>10
  <2>4. Equals \in T
    OBVIOUS
  <2> HIDE DEF name, value
  <2>3. PushVar(before, EnvLine(name, value)) = Append(before, EnvVar(name, value))
    BY <2>1, <2>4, EnvLineIsPushed DEF EnvPushed
  <2> QED BY <2>2, <2>3
<1> DEFINE G == {n \in 0 .. N : VarsOf(FirstOf(texts, n)) = FirstOf(vars, n)}
<1>5. 0 \in G
  <2>1. FirstOf(texts, 0) = <<>> /\ FirstOf(vars, 0) = <<>> /\ 0 \in 0 .. N
    BY <1>1, <1>10, UpToLength DEF Variables
  <2> QED BY <2>1, VarsOfNothing
<1>6. ASSUME NEW n \in 1 .. N, n - 1 \in G PROVE n \in G
  <2>1. FirstOf(texts, n) = Append(FirstOf(texts, n - 1), texts[n]) /\ n - 1 \in 0 .. N /\ n \in 0 .. N
    <3> HIDE DEF N
    <3> QED BY <1>2, <1>10, UpToLength
  <2>2. FirstOf(vars, n) = Append(FirstOf(vars, n - 1), vars[n])
    BY UpToLength DEF Variables
  <2>3. FirstOf(texts, n - 1) \in Seq(Seq(T))
    BY <1>10, <2>1, UpToLength
  <2>4. VarsOf(FirstOf(texts, n)) = PushVar(VarsOf(FirstOf(texts, n - 1)), texts[n])
    BY <1>4, <2>1, <2>3, PushStep
  <2>5. VarsOf(FirstOf(texts, n - 1)) = FirstOf(vars, n - 1)
    BY <1>6
  <2>6. PushVar(FirstOf(vars, n - 1), texts[n]) = Append(FirstOf(vars, n - 1), vars[n])
    BY <1>2, <1>11
  <2> QED BY <2>1, <2>2, <2>4, <2>5, <2>6
<1>7. VarsOf(texts) = vars
  <2>1. 0 .. N \subseteq G
    <3> HIDE DEF G
    <3> QED BY <1>1, <1>5, <1>6, Induction
  <2>2. N \in G
    <3> HIDE DEF G
    <3> QED BY <1>1, <2>1
  <2> QED BY <1>10, <2>2, UpToLength DEF Variables
<1>8. CASE texts # <<>>
  <2>1. SplitText(Lines(texts)) = texts
    BY <1>4, <1>8, <1>10, LinesAreSplit
  <2> QED BY <1>3, <1>7, <2>1, Zenon DEF ParseEnvText, SplitText, VarsOf
<1>9. CASE texts = <<>>
  <2>1. Lines(texts) = <<>> /\ vars = <<>>
    <3>1. N = 0
      BY <1>9, <1>10
    <3>2. vars = <<>>
      BY <3>1 DEF Variables
    <3>3. PICK f \in [0 .. Len(texts) -> Seq(T)] : f[0] = <<>> /\ Lines(texts) = f[Len(texts)]
      BY <1>10, LinesRun
    <3> QED BY <1>10, <3>1, <3>2, <3>3
  <2>2. VarsOf(<<<<>>>>) = <<>>
    <3>1. <<>> \in Seq(Seq(T)) /\ <<>> \in Seq(T) /\ Append(<<>>, <<>>) = <<<<>>>>
      OBVIOUS
    <3>2. VarsOf(Append(<<>>, <<>>)) = PushVar(VarsOf(<<>>), <<>>)
      BY <3>1, PushStep
    <3>3. PushVar(<<>>, <<>>) = <<>>
      BY DEF PushVar, Trim
    <3> QED BY <3>1, <3>2, <3>3, VarsOfNothing, Zenon
  <2> QED BY <1>3, <2>1, <2>2, SplitNothing, Zenon DEF ParseEnvText, SplitText, VarsOf
<1> QED BY <1>8, <1>9

-----------------------------------------------------------------------------
(* The editors of the form, whatever the bounds.                           *)

LEMMA TextsAreSeqs == ASSUME NEW S, NEW k \in Nat PROVE Texts(S, k) \subseteq Seq(S)
<1>1. ASSUME NEW m \in 0 .. k, NEW text \in [1 .. m -> S] PROVE text \in Seq(S)
  BY <1>1, FunctionIsSeq
<1> QED BY <1>1 DEF Texts

LEMMA TextsAreRead == TextTypeOK => TextsRoundTrip
<1> SUFFICES ASSUME TextTypeOK PROVE ArgsRead /\ EnvRead
  BY DEF TextsRoundTrip
<1>1. MaxArgs \in Nat /\ MaxLength \in Nat /\ MaxSole \in Nat
  BY TextAssumption
<1>2. written.args \in Seq(Seq(Chars))
  <2>1. ASSUME NEW m \in 0 .. MaxArgs, NEW args \in [1 .. m -> Texts(Chars, MaxLength)]
        PROVE  args \in Seq(Seq(Chars))
    <3>1. Texts(Chars, MaxLength) \subseteq Seq(Chars) /\ m \in Nat
      BY <1>1, TextsAreSeqs
    <3>2. args \in [1 .. m -> Seq(Chars)]
      BY <3>1
    <3> QED BY <3>1, <3>2, FunctionIsSeq
  <2>2. ASSUME NEW arg \in Texts(Chars, MaxSole) PROVE <<arg>> \in Seq(Seq(Chars))
    <3>1. arg \in Seq(Chars)
      BY <1>1, TextsAreSeqs
    <3> QED BY <3>1
  <2> QED BY <2>1, <2>2 DEF TextTypeOK, ArgLists
<1>3. ArgsRead
  BY <1>2, ArgsAreRead DEF ArgsRead
<1> DEFINE T == EnvChars \cup {"b", Newline}
<1>4. ASSUME NEW var \in [name : {<<"a">>, <<"b">>}, value : EnvValues]
      PROVE  /\ var \in [name : Seq(T), value : Seq(T)]
             /\ IsName(var.name) /\ IsValue(var.value)
  <2>1. {<<"a">>, <<"b">>} \subseteq Seq(T) /\ "a" \in T /\ "b" \in T
    BY DEF EnvChars
  <2>2. IsName(<<"a">>) /\ IsName(<<"b">>)
    <3>1. ASSUME NEW ch \in {"a", "b"} PROVE IsName(<<ch>>)
      <4>1. ch \notin Whitespace \cup {Hash, Equals}
        BY DEF Whitespace, Space, Newline, Hash, Equals
      <4> QED BY <4>1 DEF IsName
    <3> QED BY <3>1
  <2>3. var.value \in Seq(EnvChars) /\ (var.value # <<>> => Last(var.value) # Space)
    BY <1>1, TextsAreSeqs DEF EnvValues
  <2>4. IsValue(var.value)
    <3>1. \A ch \in EnvChars : ch # Newline /\ (ch \in Whitespace => ch = Space)
      BY DEF EnvChars, Whitespace, Space, Newline, Hash, Equals
    <3>2. OneLine(var.value)
      BY <2>3, <3>1 DEF OneLine
    <3>3. var.value # <<>> => var.value[Len(var.value)] \notin Whitespace
      <4>1. var.value # <<>> => var.value[Len(var.value)] \in EnvChars
        BY <2>3
      <4> QED BY <2>3, <3>1, <4>1 DEF Last
    <3> QED BY <3>2, <3>3 DEF IsValue
  <2>5. var.value \in Seq(T)
    BY <2>3
  <2> HIDE DEF T
  <2> QED BY <2>1, <2>2, <2>4, <2>5
<1>5. /\ written.env \in Variables(T)
      /\ \A n \in DOMAIN written.env : IsName(written.env[n].name) /\ IsValue(written.env[n].value)
  <2> DEFINE Vars == [name : {<<"a">>, <<"b">>}, value : EnvValues]
  <2>1. PICK m \in 0 .. MaxArgs : written.env \in [1 .. m -> Vars]
    BY DEF TextTypeOK, EnvLists
  <2>2. \A n \in 1 .. m : written.env[n] \in Vars
    BY <2>1
  <2> HIDE DEF T
  <2>3. written.env \in [1 .. m -> [name : Seq(T), value : Seq(T)]] /\ m \in Nat
    BY <1>1, <1>4, <2>1, <2>2
  <2>4. written.env \in Variables(T)
    BY <2>3, FunctionIsSeq DEF Variables
  <2> QED BY <1>4, <2>1, <2>2, <2>4
<1>6. {Equals, Newline} \subseteq T
  BY DEF EnvChars
<1>7. EnvRead
  <2> HIDE DEF T
  <2> QED BY <1>5, <1>6, EnvIsRead DEF EnvRead
<1> QED BY <1>3, <1>7

=============================================================================
