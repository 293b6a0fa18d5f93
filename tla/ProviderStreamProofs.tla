------------------------ MODULE ProviderStreamProofs ------------------------
(***************************************************************************)
(* Proofs about ProviderStream, for every credential, also one that can    *)
(* overlap itself, every text and every way the provider cuts it into      *)
(* frames and chunks: what is shown is redacted and without the            *)
(* credential, the tool calls of a stream are told all or not at all, and  *)
(* the record says how the response ended.                                 *)
(***************************************************************************)
EXTENDS ProviderStream, FiniteSetTheorems, WellFoundedInduction, SequenceTheorems,
        TLAPS

----------------------------------------------------------------------------
(* Numbers, and texts put together. *)

\* A set of numbers that is not empty has a least one.
LEMMA LeastNumber ==
    ASSUME NEW T, T \subseteq Nat, T # {}
    PROVE  \E x \in T : \A y \in T : x <= y
  <1> DEFINE R == OpToRel(<, Nat)
  <1>1. IsWellFoundedOn(R, Nat) BY NatLessThanWellFounded
  <1>2. \A x, y \in Nat : y < x => <<y, x>> \in R BY DEF OpToRel
  <1> HIDE DEF R
  <1>3. PICK x \in T : \A y \in T : ~(<<y, x>> \in R) BY <1>1, WFMin
  <1>4. \A y \in T : ~(y < x) BY <1>2, <1>3
  <1>5. \A y \in T : y \in Nat OBVIOUS
  <1> QED BY <1>4, <1>5

\* What holds of zero and goes from each number to the next, as far as n,
\* holds of all of them.
LEMMA UpTo ==
    ASSUME NEW n \in Nat, NEW T, 0 \in T,
           \A k \in 1 .. n : k - 1 \in T => k \in T
    PROVE  \A k \in 0 .. n : k \in T
  <1> DEFINE U == {k \in 0 .. n : k \notin T}
  <1> SUFFICES ASSUME U # {} PROVE FALSE OBVIOUS
  <1>1. PICK x \in U : \A y \in U : x <= y
    <2>1. U \subseteq Nat OBVIOUS
    <2> HIDE DEF U
    <2> QED BY <2>1, LeastNumber
  <1>2. x \in 1 .. n OBVIOUS
  <1>3. x - 1 \in 0 .. n /\ x - 1 \notin U BY <1>1, <1>2
  <1>4. x - 1 \in T BY <1>3
  <1> QED BY <1>2, <1>4

\* The greatest of some numbers up to n.
LEMMA Greatest ==
    ASSUME NEW n \in Nat, NEW s \in SUBSET (1 .. n), s # {}
    PROVE  Max(s) \in s /\ \A y \in s : Max(s) >= y
  <1> DEFINE T == {n - y : y \in s}
  <1>1. T \subseteq Nat /\ T # {}
    <2>1. \A y \in s : n - y \in Nat OBVIOUS
    <2>2. PICK y \in s : TRUE OBVIOUS
    <2>3. n - y \in T BY <2>2
    <2> QED BY <2>1, <2>3
  <1>2. PICK x \in T : \A y \in T : x <= y
    <2> HIDE DEF T
    <2> QED BY <1>1, LeastNumber
  <1>3. PICK m \in s : x = n - m OBVIOUS
  <1>4. \A y \in s : m >= y
    <2> TAKE y \in s
    <2>1. n - y \in T OBVIOUS
    <2>2. n - m <= n - y BY <1>2, <1>3, <2>1
    <2>3. m \in 1 .. n /\ y \in 1 .. n OBVIOUS
    <2> QED BY <2>2, <2>3
  <1> QED BY <1>4 DEF Max

\* What FlattenSeq comes to, one text after the other.
FlatRun(h, F, X) ==
    /\ h \in [0 .. Len(F) -> Seq(X)]
    /\ h[0] = << >> /\ h[Len(F)] = FlattenSeq(F)
    /\ \A k \in 1 .. Len(F) : h[k] = h[k - 1] \o F[k]

\* FlattenSeq of any sequence has such a run.
LEMMA FlatRuns ==
    ASSUME NEW X, NEW F \in Seq(Seq(X))
    PROVE  \E h : FlatRun(h, F, X)
  <1> DEFINE n == Len(F)
             G(f) == [i \in 1 .. n |-> IF i = 1 THEN F[i] ELSE f[i - 1] \o F[i]]
             g == CHOOSE f : f = G(f)
             T == {k \in 0 .. n : \E f \in [1 .. n -> Seq(X)] :
                      \A i \in 1 .. k : f[i] = IF i = 1 THEN F[i] ELSE f[i - 1] \o F[i]}
  <1>1. n \in Nat /\ \A k \in 1 .. n : F[k] \in Seq(X)
    BY LenProperties, ElementOfSeq
  <1>2. << >> \in Seq(X) /\ \A s \in Seq(X) : << >> \o s = s
    BY EmptySeq, ConcatEmptySeq
  <1>3. \A s, t \in Seq(X) : s \o t \in Seq(X) BY ConcatProperties
  <1>4. CASE n = 0
    <2>1. F = << >> BY <1>4, EmptySeq
    <2>2. FlattenSeq(F) = << >> BY <1>4, <2>1 DEF FlattenSeq
    <2> DEFINE h == [k \in 0 .. n |-> << >>]
    <2>3. h \in [0 .. n -> Seq(X)] /\ h[0] = << >> /\ h[n] = << >>
      BY <1>2, <1>4
    <2>4. \A k \in 1 .. n : FALSE BY <1>4
    <2>5. FlatRun(h, F, X)
      <3> HIDE DEF h
      <3> QED BY <2>2, <2>3, <2>4 DEF FlatRun
    <2> QED BY <2>5
  <1>5. CASE n # 0
    <2>1. 0 \in T
      <3> DEFINE f == [i \in 1 .. n |-> << >>]
      <3>1. f \in [1 .. n -> Seq(X)] BY <1>2
      <3>2. 0 \in 0 .. n /\ \A i \in 1 .. 0 : FALSE BY <1>1
      <3> HIDE DEF f
      <3> QED BY <3>1, <3>2
    <2>2. ASSUME NEW k \in 1 .. n, k - 1 \in T PROVE k \in T
      <3>1. PICK f \in [1 .. n -> Seq(X)] :
                \A i \in 1 .. k - 1 : f[i] = IF i = 1 THEN F[i] ELSE f[i - 1] \o F[i]
        BY <2>2
      <3> DEFINE v == IF k = 1 THEN F[1] ELSE f[k - 1] \o F[k]
                 e == [i \in 1 .. n |-> IF i = k THEN v ELSE f[i]]
      <3>2. v \in Seq(X)
        <4>1. CASE k = 1 BY <1>1, <1>5, <4>1
        <4>2. CASE k # 1
          <5>1. k - 1 \in 1 .. n BY <4>2
          <5> QED BY <1>1, <1>3, <5>1, <4>2
        <4> QED BY <4>1, <4>2
      <3>3. e \in [1 .. n -> Seq(X)]
        <4> HIDE DEF v
        <4> QED BY <3>2
      <3>4. \A i \in 1 .. k : e[i] = IF i = 1 THEN F[i] ELSE e[i - 1] \o F[i]
        <4> TAKE i \in 1 .. k
        <4>1. CASE i = k BY <1>1, <4>1
        <4>2. CASE i # k
          <5>1. i \in 1 .. k - 1 /\ i # k /\ i - 1 # k /\ i \in 1 .. n
            BY <4>2
          <5>2. i # 1 => i - 1 \in 1 .. n BY <5>1
          <5> HIDE DEF v
          <5> QED BY <3>1, <5>1, <5>2
        <4> QED BY <4>1, <4>2
      <3>5. k \in 0 .. n OBVIOUS
      <3> HIDE DEF e, v
      <3> QED BY <3>3, <3>4, <3>5
    <2>3. n \in T
      <3>1. \A k \in 0 .. n : k \in T
        <4> HIDE DEF T
        <4> QED BY <1>1, <2>1, <2>2, UpTo
      <3>2. n \in 0 .. n BY <1>1
      <3> HIDE DEF T
      <3> QED BY <3>1, <3>2
    <2>4. PICK f \in [1 .. n -> Seq(X)] :
              \A i \in 1 .. n : f[i] = IF i = 1 THEN F[i] ELSE f[i - 1] \o F[i]
      BY <2>3
    <2>5. f = G(f)
      <3>1. \A i \in 1 .. n : f[i] = G(f)[i] BY <2>4
      <3>2. f = [i \in 1 .. n |-> f[i]] OBVIOUS
      <3>3. G(f) = [i \in 1 .. n |-> G(f)[i]] OBVIOUS
      <3> HIDE DEF G
      <3> QED BY <3>1, <3>2, <3>3
    <2>6. g = G(g)
      <3> HIDE DEF G
      <3> QED BY <2>5
    <2>7. FlattenSeq(F) = g[n] BY <1>5 DEF FlattenSeq
    <2>8. \A i \in 1 .. n : g[i] = IF i = 1 THEN F[i] ELSE g[i - 1] \o F[i]
      <3> HIDE DEF g
      <3>1. \A i \in 1 .. n : g[i] = G(g)[i] BY <2>6
      <3> QED BY <3>1
    <2> HIDE DEF g
    <2> DEFINE U == {k \in 0 .. n : k = 0 \/ g[k] \in Seq(X)}
    <2>9. \A k \in 1 .. n : g[k] \in Seq(X)
      <3>1. 0 \in U BY <1>1
      <3>2. ASSUME NEW k \in 1 .. n, k - 1 \in U PROVE k \in U
        <4>1. k \in 0 .. n /\ F[k] \in Seq(X) BY <1>1
        <4>2. CASE k = 1 BY <1>1, <2>8, <4>1, <4>2
        <4>3. CASE k # 1
          <5>1. g[k - 1] \in Seq(X) BY <3>2, <4>3
          <5>2. g[k] = g[k - 1] \o F[k] BY <2>8, <4>3
          <5>3. g[k] \in Seq(X) BY <1>3, <4>1, <5>1, <5>2
          <5> QED BY <4>1, <5>3
        <4> QED BY <4>2, <4>3
      <3>3. \A k \in 0 .. n : k \in U
        <4> HIDE DEF U
        <4> QED BY <1>1, <3>1, <3>2, UpTo
      <3> QED BY <3>3
    <2> DEFINE h == [k \in 0 .. n |-> IF k = 0 THEN << >> ELSE g[k]]
    <2>10. h \in [0 .. n -> Seq(X)] BY <1>2, <2>9
    <2>11. h[0] = << >> /\ h[n] = g[n] BY <1>1, <1>5
    <2>12. \A k \in 1 .. n : h[k] = h[k - 1] \o F[k]
      <3> TAKE k \in 1 .. n
      <3>1. k \in 0 .. n /\ k - 1 \in 0 .. n /\ k # 0 OBVIOUS
      <3>2. CASE k = 1 BY <1>1, <1>2, <2>8, <3>1, <3>2
      <3>3. CASE k # 1
        <4>1. k - 1 # 0 BY <3>1, <3>3
        <4> QED BY <2>8, <3>1, <3>3, <4>1
      <3> QED BY <3>2, <3>3
    <2>13. FlatRun(h, F, X)
      <3> HIDE DEF h
      <3> QED BY <2>7, <2>10, <2>11, <2>12 DEF FlatRun
    <2> QED BY <2>13
  <1> QED BY <1>4, <1>5

\* What FlattenSeq gives is a sequence of the same elements.
LEMMA FlatType ==
    ASSUME NEW X, NEW F \in Seq(Seq(X))
    PROVE  FlattenSeq(F) \in Seq(X)
  <1>1. PICK h : FlatRun(h, F, X) BY FlatRuns
  <1>2. Len(F) \in 0 .. Len(F) BY LenProperties
  <1> QED BY <1>1, <1>2 DEF FlatRun

\* No texts give the empty text.
LEMMA FlatEmpty == FlattenSeq(<< >>) = << >>
  <1>1. Len(<< >>) = 0 BY EmptySeq
  <1> QED BY <1>1 DEF FlattenSeq

\* The texts of two sequences, one after the other.
LEMMA FlatConcat ==
    ASSUME NEW X, NEW F \in Seq(Seq(X)), NEW G \in Seq(Seq(X))
    PROVE  FlattenSeq(F \o G) = FlattenSeq(F) \o FlattenSeq(G)
  <1>e. \A p, q, r \in Seq(X) : (p \o q) \o r = p \o (q \o r)
    BY ConcatAssociative
  <1> DEFINE FG == F \o G  m == Len(F)  n == Len(G)
  <1>1. /\ FG \in Seq(Seq(X)) /\ m \in Nat /\ n \in Nat /\ Len(FG) = m + n
        /\ \A i \in 1 .. m : FG[i] = F[i]
        /\ \A i \in 1 .. n : FG[m + i] = G[i] /\ G[i] \in Seq(X)
    BY ConcatProperties, LenProperties, ElementOfSeq
  <1>2. PICK f : FlatRun(f, F, X) BY FlatRuns
  <1>3. PICK g : FlatRun(g, G, X) BY FlatRuns
  <1>4. PICK h : FlatRun(h, FG, X) BY <1>1, FlatRuns
  <1>f. /\ f \in [0 .. m -> Seq(X)] /\ f[0] = << >> /\ f[m] = FlattenSeq(F)
        /\ \A k \in 1 .. m : f[k] = f[k - 1] \o F[k]
    BY <1>2 DEF FlatRun
  <1>g. /\ g \in [0 .. n -> Seq(X)] /\ g[0] = << >> /\ g[n] = FlattenSeq(G)
        /\ \A k \in 1 .. n : g[k] = g[k - 1] \o G[k]
    BY <1>3 DEF FlatRun
  <1>h. /\ h[0] = << >> /\ h[m + n] = FlattenSeq(FG)
        /\ \A k \in 1 .. m + n : h[k] = h[k - 1] \o FG[k]
    BY <1>1, <1>4 DEF FlatRun
  <1>a. m \in Nat /\ n \in Nat BY <1>1
  <1>b. \A k \in 1 .. m : h[k] = h[k - 1] \o F[k]
    <2> TAKE k \in 1 .. m
    <2>1. k \in 1 .. m + n BY <1>a
    <2>2. FG[k] = F[k] BY <1>1
    <2>3. h[k] = h[k - 1] \o FG[k]
      <3> HIDE DEF FG, m, n
      <3> QED BY <1>h, <2>1
    <2> HIDE DEF FG, m, n
    <2> QED BY <2>2, <2>3
  <1>c. \A k \in 1 .. n : h[m + k] = h[m + k - 1] \o G[k]
    <2> TAKE k \in 1 .. n
    <2>1. PICK j \in 1 .. m + n : j = m + k BY <1>a
    <2>2. FG[m + k] = G[k] BY <1>1
    <2>3. h[j] = h[j - 1] \o FG[j]
      <3> HIDE DEF FG, m, n
      <3> HIDE <2>1
      <3> QED BY <1>h
    <2>4. j - 1 = m + k - 1 BY <2>1
    <2> HIDE DEF FG, m, n
    <2>5. h[m + k] = h[m + k - 1] \o FG[m + k] BY <2>1, <2>3, <2>4
    <2> QED BY <2>2, <2>5
  <1>d. \A k \in 1 .. n : G[k] \in Seq(X) BY <1>1
  <1> HIDE DEF FG, m, n
  <1> DEFINE T == {k \in 0 .. m : h[k] = f[k]}
             U == {k \in 0 .. n : h[m + k] = f[m] \o g[k]}
  <1>5. h[m] = f[m]
    <2>1. 0 \in T BY <1>a, <1>f, <1>h
    <2>2. ASSUME NEW k \in 1 .. m, k - 1 \in T PROVE k \in T
      <3>1. h[k] = h[k - 1] \o F[k] /\ f[k] = f[k - 1] \o F[k] BY <1>b, <1>f
      <3>2. h[k - 1] = f[k - 1] /\ k \in 0 .. m BY <2>2
      <3> QED BY <3>1, <3>2
    <2>3. \A k \in 0 .. m : k \in T
      <3> HIDE DEF T
      <3> QED BY <1>a, <2>1, <2>2, UpTo
    <2>4. m \in 0 .. m BY <1>a
    <2> QED BY <2>3, <2>4
  <1>6. f[m] \in Seq(X) /\ \A k \in 0 .. n : g[k] \in Seq(X)
    <2>1. m \in 0 .. m BY <1>a
    <2> QED BY <1>f, <1>g, <2>1
  <1>7. h[m + n] = f[m] \o g[n]
    <2>1. 0 \in U
      <3>1. f[m] \o << >> = f[m] BY <1>6, ConcatEmptySeq
      <3>2. m + 0 = m /\ 0 \in 0 .. n BY <1>a
      <3> QED BY <1>g, <1>5, <3>1, <3>2
    <2>2. ASSUME NEW k \in 1 .. n, k - 1 \in U PROVE k \in U
      <3>1. k \in 0 .. n /\ k - 1 \in 0 .. n /\ m + (k - 1) = m + k - 1 BY <1>a
      <3>2. h[m + k] = h[m + k - 1] \o G[k] /\ g[k] = g[k - 1] \o G[k]
        BY <1>c, <1>g
      <3>3. h[m + k - 1] = f[m] \o g[k - 1] BY <2>2, <3>1
      <3>4. (f[m] \o g[k - 1]) \o G[k] = f[m] \o (g[k - 1] \o G[k])
        <4>1. /\ f[m] \in Seq(X) /\ g[k - 1] \in Seq(X) /\ G[k] \in Seq(X)
          BY <1>d, <1>6, <3>1
        <4> QED BY <1>e, <4>1, Zenon
      <3>5. h[m + k] = f[m] \o g[k] BY <3>2, <3>3, <3>4
      <3> QED BY <3>1, <3>5
    <2>3. \A k \in 0 .. n : k \in U
      <3> HIDE DEF U
      <3> QED BY <1>a, <2>1, <2>2, UpTo
    <2>4. n \in 0 .. n BY <1>a
    <2> QED BY <2>3, <2>4
  <1>8. FlattenSeq(FG) = FlattenSeq(F) \o FlattenSeq(G)
    BY <1>f, <1>g, <1>h, <1>7
  <1> QED BY <1>8 DEF FG

\* One text gives itself.
LEMMA FlatOne ==
    ASSUME NEW X, NEW s \in Seq(X)
    PROVE  FlattenSeq(<<s>>) = s
  <1> DEFINE F == <<s>>
  <1>1. F \in Seq(Seq(X)) /\ Len(F) = 1 /\ F[1] = s OBVIOUS
  <1> HIDE DEF F
  <1>2. PICK h : FlatRun(h, F, X) BY <1>1, FlatRuns
  <1>3. h[0] = << >> /\ h[1] = FlattenSeq(F)
    BY <1>1, <1>2 DEF FlatRun
  <1>4. \A k \in 1 .. 1 : h[k] = h[k - 1] \o F[k] BY <1>1, <1>2 DEF FlatRun
  <1>5. 1 \in 1 .. 1 /\ 1 - 1 = 0 OBVIOUS
  <1>6. h[1] = << >> \o s BY <1>1, <1>3, <1>4, <1>5
  <1>7. FlattenSeq(F) = s BY <1>3, <1>6, ConcatEmptySeq
  <1> QED BY <1>7 DEF F

\* A text of its own characters.
LEMMA FlatPlain ==
    ASSUME NEW X, NEW s \in Seq(X)
    PROVE  FlattenSeq([i \in 1 .. Len(s) |-> <<s[i]>>]) = s
  <1> DEFINE F == [i \in 1 .. Len(s) |-> <<s[i]>>]  n == Len(s)
  <1>1. n \in Nat /\ \A i \in 1 .. n : s[i] \in X BY LenProperties, ElementOfSeq
  <1>2. F \in Seq(Seq(X)) /\ Len(F) = n
    <2>1. \A i \in 1 .. n : F[i] \in Seq(X) BY <1>1
    <2>2. F \in [1 .. n -> Seq(X)] BY <2>1
    <2> QED BY <1>1, <2>2
  <1>3. PICK h : FlatRun(h, F, X) BY <1>2, FlatRuns
  <1> DEFINE U == {k \in 0 .. n : Len(h[k]) = k /\ \A i \in 1 .. k : h[k][i] = s[i]}
  <1>4. 0 \in U
    <2>1. h[0] = << >> BY <1>3 DEF FlatRun
    <2> QED BY <1>1, <2>1
  <1>5. ASSUME NEW k \in 1 .. n, k - 1 \in U PROVE k \in U
    <2>1. k \in 0 .. n /\ k - 1 \in 0 .. n /\ k - 1 \in Nat BY <1>1
    <2>2. h[k] = h[k - 1] \o <<s[k]>> /\ h[k - 1] \in Seq(X)
      <3>1. F[k] = <<s[k]>> OBVIOUS
      <3> HIDE DEF F, n, U
      <3>2. h \in [0 .. n -> Seq(X)] /\ \A i \in 1 .. n : h[i] = h[i - 1] \o F[i]
        BY <1>2, <1>3 DEF FlatRun
      <3> QED BY <2>1, <3>1, <3>2
    <2>3. Len(h[k - 1]) = k - 1 /\ \A i \in 1 .. k - 1 : h[k - 1][i] = s[i]
      BY <1>5
    <2>4. s[k] \in X BY <1>1
    <2>5. h[k] = Append(h[k - 1], s[k]) BY <2>2, <2>4, AppendIsConcat
    <2>6. Len(h[k]) = k /\ \A i \in 1 .. k : h[k][i] = s[i]
      <3> HIDE DEF U, F, n
      <3>1. \A i \in 1 .. k : i \in 1 .. k - 1 \/ i = k BY <2>1
      <3> QED BY <2>1, <2>2, <2>3, <2>4, <2>5, <3>1, AppendProperties
    <2> HIDE DEF F
    <2> QED BY <2>1, <2>6
  <1>6. n \in U
    <2>1. \A k \in 0 .. n : k \in U
      <3> HIDE DEF U, F
      <3> QED BY <1>1, <1>4, <1>5, UpTo
    <2> HIDE DEF U
    <2> QED BY <1>1, <2>1
  <1>7. h[n] = s
    <2>1. h[n] \in Seq(X) BY <1>1, <1>2, <1>3 DEF FlatRun
    <2>2. Len(h[n]) = n /\ \A i \in 1 .. n : h[n][i] = s[i] BY <1>6
    <2> HIDE DEF U, F
    <2> QED BY <2>1, <2>2, SeqEqual
  <1> QED BY <1>2, <1>3, <1>7 DEF FlatRun

\* A part of a sequence.
LEMMA Part ==
    ASSUME NEW X, NEW s \in Seq(X), NEW i \in 1 .. Len(s) + 1,
           NEW j \in i - 1 .. Len(s)
    PROVE  /\ SubSeq(s, i, j) \in Seq(X) /\ Len(SubSeq(s, i, j)) = j - i + 1
           /\ \A k \in 1 .. j - i + 1 : SubSeq(s, i, j)[k] = s[i + k - 1]
  <1>1. Len(s) \in Nat /\ i \in Int /\ j \in Int BY LenProperties
  <1>2. \A k \in i .. j : s[k] \in X
    <2>1. \A k \in i .. j : k \in 1 .. Len(s) BY <1>1
    <2> QED BY <2>1, ElementOfSeq
  <1> QED BY <1>1, <1>2, SubSeqProperties

\* A sequence cut in two ways.
Cut(x, a, b) == x = a \o b

\* Of two cuts of one text, the later one cuts the rest of the earlier.
LEMMA TwoCuts ==
    ASSUME NEW X, NEW a \in Seq(X), NEW b \in Seq(X), NEW c \in Seq(X),
           NEW d \in Seq(X), NEW x, Cut(x, a, b), Cut(x, c, d), Len(d) <= Len(b)
    PROVE  \E w \in Seq(X) : Cut(b, w, d) /\ Cut(c, a, w)
  <1> USE DEF Cut
  <1> DEFINE k == Len(b) - Len(d)  w == SubSeq(b, 1, k)
  <1>1. /\ Len(a) \in Nat /\ Len(b) \in Nat /\ Len(c) \in Nat /\ Len(d) \in Nat
    BY LenProperties
  <1>2. k \in 0 .. Len(b) BY <1>1
  <1>3. w \in Seq(X) /\ Len(w) = k /\ \A i \in 1 .. k : w[i] = b[i]
    <2>1. 1 \in 1 .. Len(b) + 1 /\ k \in 1 - 1 .. Len(b) BY <1>1, <1>2
    <2> HIDE DEF k
    <2>2. k - 1 + 1 = k /\ \A i \in 1 .. k : 1 + i - 1 = i BY <1>2
    <2> QED BY <2>1, <2>2, Part
  <1> HIDE DEF w
  <1>4. /\ Len(a \o b) = Len(a) + Len(b) /\ Len(c \o d) = Len(c) + Len(d)
        /\ \A i \in 1 .. Len(a) + Len(b) :
              (a \o b)[i] = IF i <= Len(a) THEN a[i] ELSE b[i - Len(a)]
        /\ \A i \in 1 .. Len(c) + Len(d) :
              (c \o d)[i] = IF i <= Len(c) THEN c[i] ELSE d[i - Len(c)]
    BY ConcatProperties
  <1>5. Len(c) = Len(a) + k BY <1>1, <1>4
  <1>6. \A i \in 1 .. Len(a) : c[i] = a[i]
    <2> TAKE i \in 1 .. Len(a)
    <2>1. /\ i \in 1 .. Len(a) + Len(b) /\ i \in 1 .. Len(c) + Len(d)
          /\ i <= Len(a) /\ i <= Len(c)
      BY <1>1, <1>2, <1>5
    <2> QED BY <1>4, <2>1
  <1>7. \A i \in 1 .. k : c[Len(a) + i] = w[i]
    <2> TAKE i \in 1 .. k
    <2> DEFINE n == Len(a) + i
    <2>1. /\ n \in 1 .. Len(a) + Len(b) /\ n \in 1 .. Len(c) + Len(d)
          /\ ~(n <= Len(a)) /\ n <= Len(c) /\ n - Len(a) = i
      BY <1>1, <1>2, <1>5
    <2> HIDE DEF n
    <2>2. c[n] = b[i] BY <1>4, <2>1
    <2> QED BY <1>3, <2>2 DEF n
  <1>8. \A i \in 1 .. Len(d) : d[i] = b[k + i]
    <2> TAKE i \in 1 .. Len(d)
    <2> DEFINE n == Len(c) + i
    <2>1. /\ n \in 1 .. Len(a) + Len(b) /\ n \in 1 .. Len(c) + Len(d)
          /\ ~(n <= Len(a)) /\ ~(n <= Len(c)) /\ n - Len(a) = k + i
          /\ n - Len(c) = i
      BY <1>1, <1>2, <1>4, <1>5
    <2> HIDE DEF n, k
    <2> QED BY <1>4, <2>1
  <1>9. /\ w \o d \in Seq(X) /\ Len(w \o d) = k + Len(d)
        /\ \A i \in 1 .. k + Len(d) :
              (w \o d)[i] = IF i <= k THEN w[i] ELSE d[i - k]
    <2> HIDE DEF k
    <2> QED BY <1>3, ConcatProperties
  <1>10. /\ a \o w \in Seq(X) /\ Len(a \o w) = Len(a) + k
         /\ \A i \in 1 .. Len(a) + k :
              (a \o w)[i] = IF i <= Len(a) THEN a[i] ELSE w[i - Len(a)]
    <2> HIDE DEF k
    <2> QED BY <1>3, ConcatProperties
  <1>11. b = w \o d
    <2>1. Len(b) = Len(w \o d) BY <1>1, <1>9
    <2>2. \A i \in 1 .. Len(b) : b[i] = (w \o d)[i]
      <3> TAKE i \in 1 .. Len(b)
      <3>1. i \in 1 .. k + Len(d) BY <1>1
      <3>2. CASE i <= k
        <4>1. i \in 1 .. k BY <1>1, <3>2
        <4> HIDE DEF k
        <4> QED BY <1>3, <1>9, <3>1, <3>2, <4>1
      <3>3. CASE ~(i <= k)
        <4> DEFINE j == i - k
        <4>1. j \in 1 .. Len(d) /\ k + j = i BY <1>1, <1>2, <3>3
        <4>2. (w \o d)[i] = d[j]
          <5> HIDE DEF k
          <5> QED BY <1>9, <3>1, <3>3
        <4> HIDE DEF j, k
        <4>3. d[j] = b[k + j] BY <1>8, <4>1
        <4> QED BY <4>1, <4>2, <4>3
      <3> QED BY <3>2, <3>3
    <2> HIDE DEF k
    <2> QED BY <1>9, <2>1, <2>2, SeqEqual
  <1>12. c = a \o w
    <2>1. Len(c) = Len(a \o w) BY <1>5, <1>10
    <2>2. \A i \in 1 .. Len(c) : c[i] = (a \o w)[i]
      <3> TAKE i \in 1 .. Len(c)
      <3>1. i \in 1 .. Len(a) + k BY <1>5
      <3>2. CASE i <= Len(a)
        <4>1. i \in 1 .. Len(a) BY <1>1, <3>2
        <4> HIDE DEF k
        <4> QED BY <1>6, <1>10, <3>1, <3>2, <4>1
      <3>3. CASE ~(i <= Len(a))
        <4> DEFINE j == i - Len(a)
        <4>1. j \in 1 .. k /\ Len(a) + j = i BY <1>1, <1>2, <3>1, <3>3
        <4>2. (a \o w)[i] = w[j]
          <5> HIDE DEF k
          <5> QED BY <1>10, <3>1, <3>3
        <4> HIDE DEF j, k
        <4>3. c[Len(a) + j] = w[j] BY <1>7, <4>1
        <4> QED BY <4>1, <4>2, <4>3
      <3> QED BY <3>2, <3>3
    <2> HIDE DEF k
    <2> QED BY <1>10, <2>1, <2>2, SeqEqual
  <1> QED BY <1>3, <1>11, <1>12

----------------------------------------------------------------------------
(* Where the credential is, and what is put in its place. *)

\* What is shown: the provider's characters, and markers.
Texts == Seq(Chars \cup {Marker})

\* The credential is a text that is not empty, without a marker.
LEMMA SecretFacts ==
    /\ Secret \in Seq(Chars) /\ Secret \in Texts
    /\ Len(Secret) \in Nat /\ Len(Secret) > 0
    /\ \A j \in 1 .. Len(Secret) : Secret[j] \in Chars /\ Secret[j] # Marker
    /\ Seq(Chars) \subseteq Texts /\ Marker \notin Chars
  <1>1. Secret \in Seq(Chars) /\ Len(Secret) > 0 /\ Marker \notin Chars
    BY StreamAssumption
  <1>2. \A s \in Seq(Chars) : s \in Texts BY SeqMonotonic DEF Texts
  <1>3. \A j \in 1 .. Len(Secret) : Secret[j] \in Chars BY <1>1, ElementOfSeq
  <1> QED BY <1>1, <1>2, <1>3, LenProperties

\* Texts and their concatenation.
LEMMA TextsConcat ==
    /\ << >> \in Texts /\ Len(<< >>) = 0
    /\ \A a, b \in Texts : a \o b \in Texts /\ Len(a \o b) = Len(a) + Len(b)
    /\ \A a, b, c \in Texts : (a \o b) \o c = a \o (b \o c)
    /\ \A a \in Texts : Len(a) \in Nat /\ a \o << >> = a /\ << >> \o a = a
  <1> DEFINE X == Chars \cup {Marker}
  <1> HIDE DEF X
  <1>1. << >> \in Seq(X) /\ Len(<< >>) = 0 BY EmptySeq
  <1>2. \A a, b \in Seq(X) : a \o b \in Seq(X) /\ Len(a \o b) = Len(a) + Len(b)
    BY ConcatProperties
  <1>3. \A a, b, c \in Seq(X) : (a \o b) \o c = a \o (b \o c)
    BY ConcatAssociative
  <1>4. \A a \in Seq(X) : Len(a) \in Nat /\ a \o << >> = a /\ << >> \o a = a
    BY LenProperties, ConcatEmptySeq
  <1>5. Texts = Seq(X) BY DEF Texts, X
  <1> QED BY <1>1, <1>2, <1>3, <1>4, <1>5

\* Concatenation is associative.
LEMMA TextsAssoc ==
    ASSUME NEW a \in Texts, NEW b \in Texts, NEW c \in Texts
    PROVE  (a \o b) \o c = a \o (b \o c)
  BY TextsConcat

\* A marker is a text.
LEMMA MarkerText == <<Marker>> \in Texts /\ Len(<<Marker>>) = 1
  <1>1. Marker \in Chars \cup {Marker} OBVIOUS
  <1> HIDE DEF Texts
  <1> QED BY <1>1 DEF Texts

\* What comes before a marker, and after it.
LEMMA MarkerThen ==
    ASSUME NEW r \in Texts, NEW q \in Texts
    PROVE  (r \o <<Marker>>) \o q = r \o (<<Marker>> \o q)
  BY MarkerText, TextsAssoc

\* Where the credential ends, character by character.
LEMMA EndsAt ==
    ASSUME NEW t \in Texts, NEW i \in Len(Secret) .. Len(t)
    PROVE  i \in Ends(t) <=>
               \A j \in 1 .. Len(Secret) : t[i - Len(Secret) + j] = Secret[j]
  <1> DEFINE m == Len(Secret)  p == SubSeq(t, i - m + 1, i)
  <1>1. m \in Nat /\ Len(t) \in Nat /\ Secret \in Texts
    BY SecretFacts, LenProperties DEF Texts
  <1>2. i - m + 1 \in 1 .. Len(t) + 1 /\ i \in (i - m + 1) - 1 .. Len(t)
    BY <1>1
  <1>3. /\ p \in Texts /\ Len(p) = i - (i - m + 1) + 1
        /\ \A k \in 1 .. i - (i - m + 1) + 1 : p[k] = t[(i - m + 1) + k - 1]
    BY <1>2, Part DEF Texts
  <1>4. i - (i - m + 1) + 1 = m /\ \A k \in 1 .. m : (i - m + 1) + k - 1 = i - m + k
    BY <1>1
  <1>5. Len(p) = m /\ \A k \in 1 .. m : p[k] = t[i - m + k] BY <1>3, <1>4
  <1>6. i \in Ends(t) <=> p = Secret BY DEF Ends
  <1> HIDE DEF p
  <1>7. p = Secret <=> \A k \in 1 .. m : p[k] = Secret[k]
    BY <1>1, <1>3, <1>5, SeqEqual DEF Texts
  <1> QED BY <1>5, <1>6, <1>7

\* An occurrence ends where it fits.
LEMMA EndsIn ==
    ASSUME NEW t, NEW i \in Ends(t)
    PROVE  i \in Len(Secret) .. Len(t)
  BY DEF Ends

\* A place is covered by an occurrence that ends near enough.
LEMMA CoveredAt ==
    ASSUME NEW E, NEW j
    PROVE  j \in Covered(E) <=> \E i \in E : j \in i - Len(Secret) + 1 .. i
  BY DEF Covered

\* What stands for one place is a text.
LEMMA MaskedType ==
    ASSUME NEW E, NEW t \in Texts, NEW i \in 1 .. Len(t)
    PROVE  Masked(E, t, i) \in Texts
  <1>1. t[i] \in Chars \cup {Marker} BY ElementOfSeq DEF Texts
  <1>2. \A c \in Chars \cup {Marker} : <<c>> \in Texts BY DEF Texts
  <1>3. << >> \in Texts BY EmptySeq DEF Texts
  <1>4. <<Marker>> \in Texts /\ <<t[i]>> \in Texts BY <1>1, <1>2
  <1> QED BY <1>3, <1>4 DEF Masked

\* Sequences of texts.
LEMMA FlatTexts ==
    ASSUME NEW F \in Seq(Texts), NEW G \in Seq(Texts)
    PROVE  /\ FlattenSeq(F) \in Texts
           /\ FlattenSeq(F \o G) = FlattenSeq(F) \o FlattenSeq(G)
  BY FlatType, FlatConcat DEF Texts

\* What stands for each place of t.
Masks(E, t) == [i \in 1 .. Len(t) |-> Masked(E, t, i)]

\* MaskedBy puts them together.
LEMMA MasksType ==
    ASSUME NEW E, NEW t \in Texts
    PROVE  /\ Masks(E, t) \in Seq(Texts) /\ Len(Masks(E, t)) = Len(t)
           /\ MaskedBy(E, t) = FlattenSeq(Masks(E, t))
  <1>1. Len(t) \in Nat BY LenProperties DEF Texts
  <1>2. Masks(E, t) \in [1 .. Len(t) -> Texts] BY MaskedType DEF Masks
  <1>3. Masks(E, t) \in Seq(Texts) /\ Len(Masks(E, t)) = Len(t)
    <2> DEFINE M == Masks(E, t)  n == Len(t)
    <2> HIDE DEF M, n
    <2>1. M \in [1 .. n -> Texts] /\ n \in Nat BY <1>1, <1>2 DEF M, n
    <2>2. M \in Seq(Texts) /\ Len(M) = n BY <2>1
    <2> QED BY <2>2 DEF M, n
  <1> QED BY <1>3 DEF MaskedBy, Masks

\* Masking a text gives a text.
LEMMA MaskedByType ==
    ASSUME NEW E, NEW t \in Texts PROVE MaskedBy(E, t) \in Texts
  BY MasksType, FlatType DEF Texts

\* Redacting a text gives a text.
LEMMA ReplaceType ==
    ASSUME NEW t \in Texts PROVE Replace(t) \in Texts
  BY MaskedByType DEF Replace

\* Where it ends in a text of two parts.
LEMMA EndsConcat ==
    ASSUME NEW a \in Texts, NEW b \in Texts
    PROVE  /\ \A i \in Nat : i \in Ends(a) <=> i \in Ends(a \o b) /\ i <= Len(a)
           /\ \A i \in 1 .. Len(b) :
                 i \in Ends(b) <=> Len(a) + i \in Ends(a \o b) /\ i >= Len(Secret)
  <1> DEFINE x == a \o b  p == Len(a)  n == Len(b)  m == Len(Secret)
  <1>1. /\ x \in Texts /\ p \in Nat /\ n \in Nat /\ m \in Nat /\ m > 0
        /\ Len(x) = p + n
        /\ \A j \in 1 .. p : x[j] = a[j]
        /\ \A j \in 1 .. n : x[p + j] = b[j]
    <2>1. /\ x \in Texts /\ p \in Nat /\ n \in Nat /\ Len(x) = p + n
          /\ \A i \in 1 .. p + n : x[i] = IF i <= p THEN a[i] ELSE b[i - p]
      BY ConcatProperties, LenProperties DEF Texts
    <2> HIDE DEF x, p, n
    <2>2. \A j \in 1 .. p : j \in 1 .. p + n /\ j <= p BY <2>1
    <2>3. \A j \in 1 .. n : p + j \in 1 .. p + n /\ ~(p + j <= p) /\ p + j - p = j
      BY <2>1
    <2> QED BY <2>1, <2>2, <2>3, SecretFacts
  <1> HIDE DEF x
  <1>3. \A i \in Nat : i \in Ends(a) <=> i \in Ends(x) /\ i <= p
    <2> TAKE i \in Nat
    <2>1. CASE i \in m .. p
      <3>1. i \in m .. Len(x) BY <1>1, <2>1
      <3>2. \A j \in 1 .. m : i - m + j \in 1 .. p BY <1>1, <2>1
      <3>3. \A j \in 1 .. m : x[i - m + j] = a[i - m + j] BY <1>1, <3>2
      <3>4. i \in Ends(a) <=> \A j \in 1 .. m : a[i - m + j] = Secret[j]
        BY <2>1, EndsAt
      <3>5. i \in Ends(x) <=> \A j \in 1 .. m : x[i - m + j] = Secret[j]
        BY <1>1, <3>1, EndsAt
      <3> HIDE DEF m, p
      <3> QED BY <1>1, <2>1, <3>3, <3>4, <3>5
    <2>2. CASE i \notin m .. p BY <1>1, <2>2, EndsIn
    <2> QED BY <2>1, <2>2
  <1>4. \A i \in 1 .. n : i \in Ends(b) <=> p + i \in Ends(x) /\ i >= m
    <2> TAKE i \in 1 .. n
    <2>1. CASE i \in m .. n
      <3>1. p + i \in m .. Len(x) BY <1>1, <2>1
      <3>2. \A j \in 1 .. m : /\ i - m + j \in 1 .. n
                              /\ p + i - m + j = p + (i - m + j)
        BY <1>1, <2>1
      <3>3. \A j \in 1 .. m : x[p + i - m + j] = b[i - m + j] BY <1>1, <3>2
      <3>4. i \in Ends(b) <=> \A j \in 1 .. m : b[i - m + j] = Secret[j]
        BY <2>1, EndsAt
      <3>5. p + i \in Ends(x) <=> \A j \in 1 .. m : x[p + i - m + j] = Secret[j]
        <4> DEFINE k == p + i
        <4>1. k \in m .. Len(x) BY <3>1
        <4> HIDE DEF k
        <4>2. k \in Ends(x) <=> \A j \in 1 .. m : x[k - m + j] = Secret[j]
          BY <1>1, <4>1, EndsAt
        <4> QED BY <4>2 DEF k
      <3>6. i >= m BY <1>1, <2>1
      <3> HIDE DEF m, n, p
      <3> QED BY <3>3, <3>4, <3>5, <3>6
    <2>2. CASE i \notin m .. n
      <3>1. i \notin Ends(b) BY <2>2, EndsIn
      <3>2. ~(i >= m) BY <1>1, <2>2
      <3> QED BY <3>1, <3>2
    <2> QED BY <2>1, <2>2
  <1> QED BY <1>3, <1>4 DEF x

\* The occurrences that end in E in a text, and behind it those of F.
Joined(E, p, F) == E \cup {p + i : i \in F}

\* Two texts that are masked make one text that is.
LEMMA MaskParts ==
    ASSUME NEW a \in Texts, NEW b \in Texts,
           NEW E \in SUBSET Ends(a), NEW F \in SUBSET Ends(b)
    PROVE  /\ Joined(E, Len(a), F) \in SUBSET Ends(a \o b)
           /\ MaskedBy(Joined(E, Len(a), F), a \o b) = MaskedBy(E, a) \o MaskedBy(F, b)
  <1> DEFINE x == a \o b  p == Len(a)  n == Len(b)  m == Len(Secret)
             G == Joined(E, p, F)
  <1>1. /\ x \in Texts /\ p \in Nat /\ n \in Nat /\ m \in Nat /\ m > 0
        /\ Len(x) = p + n
        /\ \A j \in 1 .. p : x[j] = a[j]
        /\ \A j \in 1 .. n : x[p + j] = b[j]
    <2>1. /\ x \in Texts /\ p \in Nat /\ n \in Nat /\ Len(x) = p + n
          /\ \A i \in 1 .. p + n : x[i] = IF i <= p THEN a[i] ELSE b[i - p]
      BY ConcatProperties, LenProperties DEF Texts
    <2> HIDE DEF x, p, n
    <2>2. \A j \in 1 .. p : j \in 1 .. p + n /\ j <= p BY <2>1
    <2>3. \A j \in 1 .. n : p + j \in 1 .. p + n /\ ~(p + j <= p) /\ p + j - p = j
      BY <2>1
    <2> QED BY <2>1, <2>2, <2>3, SecretFacts
  <1>a. /\ \A i \in Nat : i \in Ends(a) <=> i \in Ends(x) /\ i <= p
        /\ \A i \in 1 .. n : i \in Ends(b) <=> p + i \in Ends(x) /\ i >= m
    BY EndsConcat
  <1> HIDE DEF x
  <1>b. \A i \in E : i \in Nat /\ i <= p /\ i >= m BY <1>1, EndsIn
  <1>c. \A i \in F : i \in 1 .. n /\ i >= m BY <1>1, EndsIn
  <1>d. \A i : i \in G <=> i \in E \/ \E k \in F : i = p + k BY DEF Joined
  <1> HIDE DEF G
  <1>2. G \in SUBSET Ends(x)
    <2>1. \A i \in E : i \in Ends(x) BY <1>a, <1>b
    <2>2. \A i \in F : p + i \in Ends(x) BY <1>a, <1>c
    <2> QED BY <1>d, <2>1, <2>2
  <1>3. \A i \in 1 .. p : i \in E <=> i \in G
    <2> TAKE i \in 1 .. p
    <2>1. \A k \in F : i # p + k BY <1>1, <1>c
    <2> QED BY <1>d, <2>1
  <1>4. \A i \in 1 .. n : i \in F <=> p + i \in G
    <2> TAKE i \in 1 .. n
    <2>1. p + i \notin E BY <1>1, <1>b
    <2>2. \A k \in F : p + i = p + k => k = i BY <1>1, <1>c
    <2> QED BY <1>d, <2>1, <2>2
  <1>5. \A j \in 1 .. p : j \in Covered(E) <=> j \in Covered(G)
    <2> TAKE j \in 1 .. p
    <2>1. \A k \in F : j \notin (p + k) - m + 1 .. p + k BY <1>1, <1>c
    <2>2. j \in Covered(E) <=> \E i \in E : j \in i - m + 1 .. i
      BY CoveredAt
    <2>3. j \in Covered(G) <=> \E i \in G : j \in i - m + 1 .. i
      BY CoveredAt
    <2> HIDE DEF m, p, n
    <2> QED BY <1>d, <2>1, <2>2, <2>3
  <1>6. \A j \in 1 .. n : j \in Covered(F) <=> p + j \in Covered(G)
    <2> TAKE j \in 1 .. n
    <2>1. j \in Covered(F) <=> \E i \in F : j \in i - m + 1 .. i
      BY CoveredAt
    <2>2. p + j \in Covered(G) <=> \E i \in G : p + j \in i - m + 1 .. i
      BY CoveredAt
    <2>3. \A i \in E : p + j \notin i - m + 1 .. i BY <1>1, <1>b
    <2>4. \A i \in F : p + j \in (p + i) - m + 1 .. p + i <=> j \in i - m + 1 .. i
      BY <1>1, <1>c
    <2> HIDE DEF m, p, n
    <2> QED BY <1>d, <2>1, <2>2, <2>3, <2>4
  <1>7. \A j \in 1 .. p : Masks(G, x)[j] = Masks(E, a)[j]
    <2> TAKE j \in 1 .. p
    <2>1. j \in 1 .. Len(x) /\ j \in Nat /\ x[j] = a[j] BY <1>1
    <2>2. Masks(G, x)[j] = Masked(G, x, j) /\ Masks(E, a)[j] = Masked(E, a, j)
      BY <2>1 DEF Masks
    <2>3. /\ j \in E <=> j \in G
          /\ j \in Covered(E) <=> j \in Covered(G)
      BY <1>3, <1>5, <2>1
    <2> QED BY <2>1, <2>2, <2>3 DEF Masked
  <1>8. \A j \in 1 .. n : Masks(G, x)[p + j] = Masks(F, b)[j]
    <2> TAKE j \in 1 .. n
    <2>1. p + j \in 1 .. Len(x) /\ x[p + j] = b[j] BY <1>1
    <2>2. Masks(G, x)[p + j] = Masked(G, x, p + j) /\ Masks(F, b)[j] = Masked(F, b, j)
      BY <2>1 DEF Masks
    <2>3. /\ j \in F <=> p + j \in G
          /\ j \in Covered(F) <=> p + j \in Covered(G)
      BY <1>4, <1>6
    <2> QED BY <2>1, <2>2, <2>3 DEF Masked
  <1>9. Masks(G, x) = Masks(E, a) \o Masks(F, b)
    <2> DEFINE A == Masks(E, a)  B == Masks(F, b)  M == Masks(G, x)
    <2>1. /\ A \in Seq(Texts) /\ B \in Seq(Texts) /\ M \in Seq(Texts)
          /\ Len(A) = p /\ Len(B) = n /\ Len(M) = p + n
      BY <1>1, MasksType
    <2> HIDE DEF A, B, M
    <2>2. /\ A \o B \in Seq(Texts) /\ Len(A \o B) = p + n
          /\ \A i \in 1 .. p + n : (A \o B)[i] = IF i <= p THEN A[i] ELSE B[i - p]
      <3> HIDE DEF p, n
      <3>1. /\ A \o B \in Seq(Texts) /\ Len(A \o B) = Len(A) + Len(B)
            /\ \A i \in 1 .. Len(A) + Len(B) :
                   (A \o B)[i] = IF i <= Len(A) THEN A[i] ELSE B[i - Len(A)]
        BY <2>1, ConcatProperties
      <3> QED BY <2>1, <3>1
    <2>3. \A i \in 1 .. p + n : M[i] = (A \o B)[i]
      <3> TAKE i \in 1 .. p + n
      <3>1. CASE i <= p
        <4>1. i \in 1 .. p BY <3>1
        <4> QED BY <1>7, <2>2, <3>1, <4>1 DEF M, A
      <3>2. CASE ~(i <= p)
        <4>1. i - p \in 1 .. n /\ p + (i - p) = i BY <1>1, <3>2
        <4> QED BY <1>8, <2>2, <3>2, <4>1 DEF M, B
      <3> QED BY <3>1, <3>2
    <2>4. M = A \o B BY <2>1, <2>2, <2>3, SeqEqual
    <2> QED BY <2>4 DEF M, A, B
  <1>10. MaskedBy(G, x) = MaskedBy(E, a) \o MaskedBy(F, b)
    <2>1. /\ Masks(E, a) \in Seq(Texts) /\ MaskedBy(E, a) = FlattenSeq(Masks(E, a))
          /\ Masks(F, b) \in Seq(Texts) /\ MaskedBy(F, b) = FlattenSeq(Masks(F, b))
          /\ MaskedBy(G, x) = FlattenSeq(Masks(G, x))
      BY <1>1, MasksType
    <2>2. FlattenSeq(Masks(E, a) \o Masks(F, b)) = MaskedBy(E, a) \o MaskedBy(F, b)
      BY <2>1, FlatTexts
    <2> QED BY <1>9, <2>1, <2>2
  <1> QED BY <1>2, <1>10 DEF x, G

\* A text in two parts that no occurrence of the credential is in both of.
LEMMA ReplaceSplit ==
    ASSUME NEW a \in Texts, NEW b \in Texts,
           \A i \in Ends(a \o b) : i <= Len(a) \/ i >= Len(a) + Len(Secret)
    PROVE  Replace(a \o b) = Replace(a) \o Replace(b)
  <1> DEFINE x == a \o b  p == Len(a)  n == Len(b)  m == Len(Secret)
             G == Joined(Ends(a), p, Ends(b))
  <1>1. /\ p \in Nat /\ n \in Nat /\ m \in Nat /\ m > 0 /\ Len(x) = p + n
    BY TextsConcat, SecretFacts
  <1>2. /\ G \in SUBSET Ends(x)
        /\ MaskedBy(G, x) = MaskedBy(Ends(a), a) \o MaskedBy(Ends(b), b)
    BY MaskParts
  <1>3. ASSUME NEW i \in Ends(x) PROVE i \in G
    <2>1. i \in m .. p + n BY <1>1, EndsIn
    <2>2. CASE i <= p
      <3>1. i \in Nat BY <1>1, <2>1
      <3>2. i \in Ends(a) BY <2>2, <3>1, EndsConcat
      <3> QED BY <3>2 DEF Joined
    <2>3. CASE ~(i <= p)
      <3>1. i >= p + m BY <2>3
      <3>2. i - p \in 1 .. n /\ i - p >= m /\ p + (i - p) = i
        BY <1>1, <2>1, <3>1
      <3>3. i - p \in Ends(b) BY <3>2, EndsConcat
      <3> QED BY <3>2, <3>3 DEF Joined
    <2> QED BY <2>2, <2>3
  <1>4. G = Ends(x) BY <1>2, <1>3
  <1> QED BY <1>2, <1>4 DEF Replace

\* Where nothing is masked, a text is left as it is,
LEMMA MaskedNone ==
    ASSUME NEW t \in Texts
    PROVE  MaskedBy({}, t) = t
  <1>1. \A i : i \notin Covered({}) BY CoveredAt
  <1>2. \A i \in 1 .. Len(t) : Masked({}, t, i) = <<t[i]>> BY <1>1 DEF Masked
  <1>3. MaskedBy({}, t) = FlattenSeq([i \in 1 .. Len(t) |-> <<t[i]>>])
    BY <1>2 DEF MaskedBy
  <1> QED BY <1>3, FlatPlain DEF Texts

\* as is one without the credential,
LEMMA ReplaceNone ==
    ASSUME NEW t \in Texts, Ends(t) = {}
    PROVE  Replace(t) = t
  BY MaskedNone DEF Replace

\* which every text is that is too short for it,
LEMMA ShortHasNoEnd ==
    ASSUME NEW t \in Texts, Len(t) < Len(Secret)
    PROVE  Ends(t) = {}
  <1>1. Len(t) \in Nat /\ Len(Secret) \in Nat
    BY SecretFacts, LenProperties DEF Texts
  <1> QED BY <1>1 DEF Ends

\* and so the empty one.
LEMMA ReplaceEmpty == Replace(<< >>) = << >>
  <1>1. << >> \in Texts /\ Len(<< >>) = 0 BY EmptySeq DEF Texts
  <1> QED BY <1>1, SecretFacts, ShortHasNoEnd, ReplaceNone

\* A text that ends with the credential gives one that ends with a marker.
LEMMA ReplaceEnd ==
    ASSUME NEW t \in Texts, Len(t) \in Ends(t)
    PROVE  \E y \in Texts : Replace(t) = y \o <<Marker>>
  <1>1. Len(t) \in Nat /\ Len(t) > 0
    BY SecretFacts, EndsIn, LenProperties DEF Texts
  <1> DEFINE M == Masks(Ends(t), t)
  <1>2. /\ M \in Seq(Texts) /\ Len(M) = Len(t)
        /\ Replace(t) = FlattenSeq(M)
    BY MasksType DEF Replace
  <1>3. M[Len(t)] = <<Marker>> BY <1>1 DEF Masks, Masked
  <1> HIDE DEF M
  <1>4. PICK F \in Seq(Texts), e \in Texts : M = Append(F, e)
    <2>1. M # << >> BY <1>1, <1>2, EmptySeq
    <2> QED BY <1>2, <2>1, SequenceEmptyOrAppend
  <1>5. e = <<Marker>>
    <2>1. Len(M) = Len(F) + 1 /\ M[Len(F) + 1] = e BY <1>4, AppendProperties
    <2> QED BY <1>2, <1>3, <2>1
  <1>6. M = F \o <<e>> BY <1>4, AppendIsConcat
  <1>7. <<e>> \in Seq(Texts) OBVIOUS
  <1>8. FlattenSeq(M) = FlattenSeq(F) \o FlattenSeq(<<e>>)
    BY <1>6, <1>7, FlatConcat DEF Texts
  <1>9. FlattenSeq(<<e>>) = e BY FlatOne DEF Texts
  <1>10. FlattenSeq(F) \in Texts BY FlatType DEF Texts
  <1> QED BY <1>2, <1>5, <1>8, <1>9, <1>10

\* The maskings of a text: what Replace gives, and the text itself,
LEMMA MaskingsHave ==
    ASSUME NEW t \in Texts
    PROVE  /\ Maskings(t) \in SUBSET Texts
           /\ Replace(t) \in Maskings(t) /\ t \in Maskings(t)
  <1>1. \A E \in SUBSET Ends(t) : MaskedBy(E, t) \in Texts BY MaskedByType
  <1>2. {} \in SUBSET Ends(t) /\ Ends(t) \in SUBSET Ends(t) OBVIOUS
  <1>3. MaskedBy({}, t) = t BY MaskedNone
  <1>4. \A y \in Maskings(t) : y \in Texts BY <1>1 DEF Maskings
  <1>5. \A E \in SUBSET Ends(t) : MaskedBy(E, t) \in Maskings(t) BY DEF Maskings
  <1>6. Replace(t) \in Maskings(t) BY <1>2, <1>5 DEF Replace
  <1>7. t \in Maskings(t) BY <1>2, <1>3, <1>5
  <1> QED BY <1>4, <1>6, <1>7

\* and those of its parts put together.
LEMMA MaskingsConcat ==
    ASSUME NEW a \in Texts, NEW b \in Texts,
           NEW r \in Maskings(a), NEW q \in Maskings(b)
    PROVE  r \o q \in Maskings(a \o b)
  <1>1. PICK E \in SUBSET Ends(a) : r = MaskedBy(E, a) BY DEF Maskings
  <1>2. PICK F \in SUBSET Ends(b) : q = MaskedBy(F, b) BY DEF Maskings
  <1> DEFINE G == Joined(E, Len(a), F)
  <1>3. G \in SUBSET Ends(a \o b) /\ MaskedBy(G, a \o b) = r \o q
    BY <1>1, <1>2, MaskParts
  <1> HIDE DEF G
  <1> QED BY <1>3 DEF Maskings

----------------------------------------------------------------------------
(* What may be held back: redacting a text in two parts. *)

\* Where a suffix begins the credential, place by place.
LEMMA BeginsAt ==
    ASSUME NEW t \in Texts, NEW k \in Nat
    PROVE  k \in Beginnings(t) <=>
               /\ k \in 1 .. Len(Secret) - 1 /\ k <= Len(t)
               /\ \A j \in 1 .. k : t[Len(t) - k + j] = Secret[j]
  <1> DEFINE n == Len(t)  m == Len(Secret)
             p == SubSeq(t, n - k + 1, n)  b == SubSeq(Secret, 1, k)
  <1>1. n \in Nat /\ m \in Nat /\ m > 0 /\ Secret \in Texts
    BY SecretFacts, LenProperties DEF Texts
  <1> SUFFICES ASSUME k \in 1 .. m - 1, k <= n
               PROVE  p = b <=> \A j \in 1 .. k : t[n - k + j] = Secret[j]
    BY DEF Beginnings
  <1>2. p \in Texts /\ Len(p) = k /\ \A j \in 1 .. k : p[j] = t[n - k + j]
    <2>1. n - k + 1 \in 1 .. n + 1 /\ n \in (n - k + 1) - 1 .. n BY <1>1
    <2>2. /\ p \in Texts /\ Len(p) = n - (n - k + 1) + 1
          /\ \A j \in 1 .. n - (n - k + 1) + 1 : p[j] = t[(n - k + 1) + j - 1]
      BY <2>1, Part DEF Texts
    <2>3. n - (n - k + 1) + 1 = k /\ \A j \in 1 .. k : (n - k + 1) + j - 1 = n - k + j
      BY <1>1
    <2> QED BY <2>2, <2>3
  <1>3. b \in Texts /\ Len(b) = k /\ \A j \in 1 .. k : b[j] = Secret[j]
    <2>1. 1 \in 1 .. m + 1 /\ k \in 1 - 1 .. m BY <1>1
    <2>2. /\ b \in Texts /\ Len(b) = k - 1 + 1
          /\ \A j \in 1 .. k - 1 + 1 : b[j] = Secret[1 + j - 1]
      BY <1>1, <2>1, Part DEF Texts
    <2>3. k - 1 + 1 = k /\ \A j \in 1 .. k : 1 + j - 1 = j OBVIOUS
    <2> QED BY <2>2, <2>3
  <1> HIDE DEF p, b
  <1> QED BY <1>2, <1>3, SeqEqual DEF Texts

\* What the redactor holds: the longest of the beginnings.
LEMMA HoldFacts ==
    ASSUME NEW t \in Texts
    PROVE  /\ Hold(t) \in Nat /\ Hold(t) <= Len(t) /\ Hold(t) < Len(Secret)
           /\ Hold(t) = 0 \/ Hold(t) \in Beginnings(t)
           /\ \A k \in Beginnings(t) : k <= Hold(t)
  <1>1. Len(t) \in Nat /\ Len(Secret) \in Nat /\ Len(Secret) > 0
    BY SecretFacts, LenProperties DEF Texts
  <1> DEFINE B == Beginnings(t)
  <1>2. \A k \in B : k \in 1 .. Len(Secret) - 1 /\ k <= Len(t) BY DEF Beginnings
  <1>3. CASE B = {} BY <1>1, <1>3 DEF Hold
  <1>4. CASE B # {}
    <2> HIDE DEF B
    <2>1. PICK n \in Nat : n = Len(Secret) - 1 BY <1>1
    <2>2. B \in SUBSET (1 .. n) BY <1>2, <2>1
    <2>3. Max(B) \in B /\ \A y \in B : Max(B) >= y BY <1>4, <2>2, Greatest
    <2>4. Hold(t) = CHOOSE k \in B : \A j \in B : k >= j BY <1>4 DEF Hold, B
    <2>5. Hold(t) \in B /\ \A j \in B : Hold(t) >= j BY <2>3, <2>4
    <2>6. \A j \in B : j \in Int BY <1>2
    <2> QED BY <1>1, <1>2, <2>5, <2>6 DEF B
  <1> QED BY <1>3, <1>4

\* A text up to the last end of the credential, and what follows.
LEMMA LastEnd ==
    ASSUME NEW u \in Texts
    PROVE  \E p, q \in Texts :
               /\ u = p \o q /\ Replace(u) = Replace(p) \o q
               /\ p = << >> \/ Len(p) \in Ends(p)
               /\ \A i \in Ends(u) : i <= Len(p)
               /\ Ends(q) = {}
  <1>1. Len(u) \in Nat /\ Len(Secret) \in Nat /\ Len(Secret) > 0
    BY SecretFacts, LenProperties DEF Texts
  <1>2. \A i \in Ends(u) : i \in 1 .. Len(u) /\ i >= Len(Secret) BY <1>1, EndsIn
  <1>3. PICK n \in 0 .. Len(u) :
            /\ n = 0 \/ n \in Ends(u)
            /\ \A i \in Ends(u) : i <= n
    <2>1. CASE Ends(u) = {}
      <3>1. 0 \in 0 .. Len(u) BY <1>1
      <3> QED BY <2>1, <3>1
    <2>2. CASE Ends(u) # {}
      <3> DEFINE B == Ends(u)  N == Len(u)
      <3>1. B \in SUBSET (1 .. N) /\ N \in Nat /\ B # {} BY <1>1, <1>2, <2>2
      <3>a. \A y \in B : y \in 1 .. N /\ y \in 0 .. N /\ y \in Int BY <1>1, <1>2
      <3> HIDE DEF B, N
      <3>2. Max(B) \in B /\ \A y \in B : Max(B) >= y BY <3>1, Greatest
      <3>3. Max(B) \in 0 .. N /\ \A y \in B : y \in Int
        BY <3>a, <3>2
      <3>4. \A y \in B : y <= Max(B) BY <3>2, <3>3
      <3> QED BY <3>2, <3>3, <3>4 DEF B, N
    <2> QED BY <2>1, <2>2
  <1> DEFINE p == SubSeq(u, 1, n)  q == SubSeq(u, n + 1, Len(u))
  <1>4. p \in Texts /\ Len(p) = n
    <2>1. 1 \in 1 .. Len(u) + 1 /\ n \in 1 - 1 .. Len(u) /\ n - 1 + 1 = n
      BY <1>1
    <2> QED BY <2>1, Part DEF Texts
  <1>5. q \in Texts /\ Len(q) = Len(u) - n
    <2>1. /\ n + 1 \in 1 .. Len(u) + 1 /\ Len(u) \in (n + 1) - 1 .. Len(u)
          /\ Len(u) - (n + 1) + 1 = Len(u) - n
      BY <1>1
    <2> QED BY <2>1, Part DEF Texts
  <1>6. u = p \o q
    <2>1. 1 \in 1 .. Len(u) + 1 /\ n \in 1 - 1 .. Len(u) /\ Len(u) \in n .. Len(u)
      BY <1>1
    <2>2. p \o q = SubSeq(u, 1, Len(u)) BY <2>1, ConcatAdjacentSubSeq DEF Texts
    <2> QED BY <2>2, SubSeqFull DEF Texts
  <1> HIDE DEF p, q
  <1>7. /\ \A i \in Nat : i \in Ends(p) <=> i \in Ends(u) /\ i <= n
        /\ \A i \in 1 .. Len(q) :
              i \in Ends(q) <=> n + i \in Ends(u) /\ i >= Len(Secret)
    BY <1>4, <1>5, <1>6, EndsConcat
  <1>8. Ends(q) = {}
    <2>1. \A i \in Ends(q) : i \in 1 .. Len(q) BY <1>1, EndsIn
    <2>2. \A i \in 1 .. Len(q) : n + i \notin Ends(u) BY <1>3
    <2> QED BY <1>7, <2>1, <2>2
  <1>9. Replace(u) = Replace(p) \o q
    <2>1. \A i \in Ends(p \o q) : i <= Len(p) \/ i >= Len(p) + Len(Secret)
      BY <1>3, <1>4, <1>6
    <2>2. Replace(p \o q) = Replace(p) \o Replace(q)
      BY <1>4, <1>5, <2>1, ReplaceSplit
    <2>3. Replace(q) = q BY <1>5, <1>8, ReplaceNone
    <2> QED BY <1>6, <2>2, <2>3
  <1>10. p = << >> \/ Len(p) \in Ends(p)
    <2>1. CASE n = 0 BY <1>4, <2>1, EmptySeq DEF Texts
    <2>2. CASE n # 0
      <3>1. n \in Nat /\ n <= n /\ n \in Ends(u) BY <1>3, <2>2
      <3> QED BY <1>4, <1>7, <3>1
    <2> QED BY <2>1, <2>2
  <1> QED BY <1>3, <1>4, <1>5, <1>6, <1>8, <1>9, <1>10

\* Texts that say nothing.
LEMMA FlatNothing ==
    ASSUME NEW F \in Seq(Texts), \A i \in 1 .. Len(F) : F[i] = << >>
    PROVE  FlattenSeq(F) = << >>
  <1>1. PICK h : FlatRun(h, F, Chars \cup {Marker}) BY FlatRuns DEF Texts
  <1>2. /\ h[0] = << >> /\ h[Len(F)] = FlattenSeq(F)
        /\ \A k \in 1 .. Len(F) : h[k] = h[k - 1] \o F[k]
    BY <1>1 DEF FlatRun
  <1> DEFINE n == Len(F)  T == {k \in 0 .. n : h[k] = << >>}
  <1>3. n \in Nat BY LenProperties
  <1>4. 0 \in T BY <1>2, <1>3
  <1>5. \A k \in 1 .. n : k - 1 \in T => k \in T
    <2> SUFFICES ASSUME NEW k \in 1 .. n, k - 1 \in T PROVE k \in T
      OBVIOUS
    <2>1. h[k] = << >> \o << >> BY <1>2
    <2>2. h[k] = << >> BY <2>1, TextsConcat
    <2>3. k \in 0 .. n BY <1>3
    <2> QED BY <2>2, <2>3
  <1> HIDE DEF T
  <1>6. \A k \in 0 .. n : k \in T BY <1>3, <1>4, <1>5, UpTo
  <1>7. n \in T BY <1>3, <1>6
  <1> QED BY <1>2, <1>7 DEF T

\* Texts that say nothing, and a marker behind them.
LEMMA FlatMarker ==
    ASSUME NEW M \in Seq(Texts), Len(M) > 0, M[Len(M)] = <<Marker>>,
           \A i \in 1 .. Len(M) : i # Len(M) => M[i] = << >>
    PROVE  FlattenSeq(M) = <<Marker>>
  <1>1. Len(M) \in Nat BY LenProperties
  <1>2. PICK F \in Seq(Texts), e \in Texts : M = Append(F, e)
    <2>1. M # << >> BY EmptySeq
    <2> QED BY <2>1, SequenceEmptyOrAppend
  <1>3. /\ Len(M) = Len(F) + 1 /\ M[Len(F) + 1] = e /\ Len(F) \in Nat
        /\ \A i \in 1 .. Len(F) : M[i] = F[i]
    BY <1>2, AppendProperties, LenProperties
  <1>4. e = <<Marker>> BY <1>3
  <1>5. \A i \in 1 .. Len(F) : F[i] = << >>
    <2>1. \A i \in 1 .. Len(F) : i \in 1 .. Len(M) /\ i # Len(M) BY <1>3
    <2> QED BY <1>3, <2>1
  <1>6. FlattenSeq(F) = << >> BY <1>5, FlatNothing
  <1>7. M = F \o <<e>> /\ <<e>> \in Seq(Texts) BY <1>2, AppendIsConcat
  <1>8. FlattenSeq(M) = FlattenSeq(F) \o FlattenSeq(<<e>>) BY <1>7, FlatTexts
  <1>9. FlattenSeq(<<e>>) = e BY FlatOne DEF Texts
  <1> QED BY <1>4, <1>6, <1>8, <1>9, TextsConcat

\* A text that ends with the credential: up to where the occurrence before
\* the last ends, or where the last begins, it is masked as if nothing came
\* after, and what follows is a marker.
LEMMA SecretLast ==
    ASSUME NEW p \in Texts, Len(p) \in Ends(p)
    PROVE  \E a, w \in Texts : /\ p = a \o w /\ Len(a) < Len(p)
                               /\ Replace(p) = Replace(a) \o <<Marker>>
  <1> DEFINE m == Len(Secret)  N == Len(p)  G == Ends(p)
  <1>1. m \in Nat /\ m > 0 /\ N \in Nat BY SecretFacts, TextsConcat
  <1>2. N \in G /\ \A i \in G : i \in m .. N
    <2> HIDE DEF m, N
    <2> QED BY EndsIn DEF m, N
  <1>3. N >= m /\ \A i \in G : i \in Nat /\ i <= N
    <2> HIDE DEF m, N, G
    <2> QED BY <1>1, <1>2
  <1> HIDE DEF G
  <1>4. PICK n \in 0 .. N - 1 :
            /\ n >= N - m
            /\ n = N - m \/ n \in G
            /\ \A i \in G : i # N => i <= n
    <2> DEFINE B == {i \in 1 .. N : i - 1 = N - m \/ i - 1 \in G}
    <2> HIDE DEF m, N
    <2>1. N - m + 1 \in B BY <1>1, <1>3 DEF B
    <2>2. B \in SUBSET (1 .. N) /\ B # {} BY <2>1 DEF B
    <2>3. \A i \in G : i # N => i + 1 \in B
      BY <1>1, <1>3 DEF B
    <2>4. \A i \in B : i \in 1 .. N /\ (i - 1 = N - m \/ i - 1 \in G) BY DEF B
    <2> HIDE DEF B
    <2>5. Max(B) \in B /\ \A y \in B : Max(B) >= y BY <1>1, <2>2, Greatest
    <2>6. PICK n \in 0 .. N - 1 : n = Max(B) - 1 BY <1>1, <2>4, <2>5
    <2>7. n = N - m \/ n \in G BY <2>4, <2>5, <2>6
    <2>8. Max(B) \in 1 .. N BY <2>4, <2>5
    <2>9. n >= N - m
      <3>1. Max(B) >= N - m + 1 BY <2>1, <2>5
      <3> QED BY <1>1, <2>6, <2>8, <3>1
    <2>10. \A i \in G : i # N => i <= n
      <3> TAKE i \in G
      <3> HAVE i # N
      <3>1. Max(B) >= i + 1 BY <2>3, <2>5
      <3>2. i \in Nat BY <1>3
      <3> QED BY <1>1, <2>6, <2>8, <3>1, <3>2
    <2> QED BY <2>7, <2>9, <2>10
  <1> DEFINE a == SubSeq(p, 1, n)  w == SubSeq(p, n + 1, N)  l == N - n
  <1>5. a \in Texts /\ Len(a) = n
    <2>1. 1 \in 1 .. N + 1 /\ n \in 1 - 1 .. N /\ n - 1 + 1 = n
      BY <1>1
    <2> QED BY <2>1, Part DEF Texts
  <1>6. w \in Texts
    <2>1. n + 1 \in 1 .. N + 1 /\ N \in (n + 1) - 1 .. N BY <1>1
    <2> QED BY <2>1, Part DEF Texts
  <1>7. p = a \o w
    <2>1. 1 \in 1 .. N + 1 /\ n \in 1 - 1 .. N /\ N \in n .. N BY <1>1
    <2>2. a \o w = SubSeq(p, 1, N) BY <2>1, ConcatAdjacentSubSeq DEF Texts
    <2> QED BY <2>2, SubSeqFull DEF Texts
  <1>8. \A i \in 1 .. n : p[i] = a[i]
    BY <1>5, <1>6, <1>7, ConcatProperties DEF Texts
  <1> HIDE DEF a, w
  <1>9. \A i \in Nat : i \in Ends(a) <=> i \in G /\ i <= n
    BY <1>5, <1>6, <1>7, EndsConcat DEF G
  <1>10. l \in 1 .. m /\ n + l = N /\ l \in Nat
    <2> HIDE DEF m, N
    <2> QED BY <1>1, <1>4
  <1> DEFINE A == Masks(Ends(a), a)  M == Masks(G, p)
             B == [i \in 1 .. l |-> M[n + i]]
  <1>11. /\ A \in Seq(Texts) /\ Len(A) = n /\ Replace(a) = FlattenSeq(A)
         /\ M \in Seq(Texts) /\ Len(M) = N /\ Replace(p) = FlattenSeq(M)
    BY <1>5, MasksType DEF Replace, G
  <1>12. \A i \in 1 .. n : M[i] = A[i]
    <2> TAKE i \in 1 .. n
    <2>1. i \in 1 .. N /\ i \in Nat /\ i <= n BY <1>1
    <2>2. M[i] = Masked(G, p, i) /\ A[i] = Masked(Ends(a), a, i)
      BY <1>5, <2>1 DEF Masks
    <2>3. i \in Ends(a) <=> i \in G BY <1>9, <2>1
    <2>4. i \in Covered(Ends(a)) <=> i \in Covered(G)
      <3>1. i \in Covered(Ends(a)) <=> \E j \in Ends(a) : i \in j - m + 1 .. j
        BY CoveredAt
      <3>2. i \in Covered(G) <=> \E j \in G : i \in j - m + 1 .. j
        BY CoveredAt
      <3>3. \A j \in Ends(a) : j \in G
        <4>1. \A j \in Ends(a) : j \in m .. n BY <1>5, EndsIn
        <4>2. \A j \in Ends(a) : j \in Nat BY <1>1, <4>1
        <4> QED BY <1>9, <4>2
      <3>4. ASSUME NEW j \in G, i \in j - m + 1 .. j
            PROVE  \E k \in Ends(a) : i \in k - m + 1 .. k
        <4>0. j \in Nat BY <1>3
        <4>1. CASE j # N
          <5>1. j \in Ends(a) BY <1>4, <1>9, <4>0, <4>1
          <5> QED BY <3>4, <5>1
        <4>2. CASE j = N
          <5> HIDE DEF m, N
          <5>1. n # N - m BY <1>1, <2>1, <3>4, <4>2
          <5>2. n \in Ends(a) BY <1>4, <1>9, <5>1
          <5>3. i \in n - m + 1 .. n BY <1>1, <2>1, <3>4, <4>2
          <5> QED BY <5>2, <5>3
        <4> QED BY <4>1, <4>2
      <3> HIDE DEF m, N
      <3> QED BY <3>1, <3>2, <3>3, <3>4
    <2> QED BY <1>8, <2>2, <2>3, <2>4 DEF Masked
  <1>13. /\ B \in Seq(Texts) /\ Len(B) = l /\ Len(B) > 0 /\ B[Len(B)] = <<Marker>>
         /\ \A i \in 1 .. Len(B) : i # Len(B) => B[i] = << >>
    <2>1. \A i \in 1 .. l : n + i \in 1 .. N
      <3> HIDE DEF m, N, l
      <3> QED BY <1>1, <1>10
    <2>2. \A i \in 1 .. l : M[n + i] \in Texts BY <1>11, <2>1, ElementOfSeq
    <2>3. B \in Seq(Texts) /\ Len(B) = l
      <3> HIDE DEF M, l
      <3>1. B \in [1 .. l -> Texts] BY <2>2
      <3> HIDE DEF B
      <3> QED BY <1>10, <3>1
    <2>4. M[N] = <<Marker>>
      <3>1. N \in 1 .. N BY <1>1, <1>3
      <3> QED BY <1>2, <3>1 DEF Masks, Masked
    <2>5. B[l] = <<Marker>>
      <3>1. l \in 1 .. l /\ n + l = N
        <4> HIDE DEF m, N, l
        <4> QED BY <1>10
      <3> HIDE DEF M, l
      <3> QED BY <2>4, <3>1
    <2>6. ASSUME NEW i \in 1 .. l, i # l PROVE B[i] = << >>
      <3>0. n + i \in 1 .. N BY <2>1
      <3>1. n + i \notin G
        <4>1. n + i # N /\ ~(n + i <= n)
          <5> HIDE DEF m, N, l
          <5> QED BY <1>10, <2>6
        <4> QED BY <1>4, <4>1
      <3>2. n + i \in Covered(G)
        <4>1. n + i \in N - m + 1 .. N
          <5> HIDE DEF m, N, l
          <5> QED BY <1>1, <1>4, <1>10, <2>6
        <4> QED BY <1>2, <4>1, CoveredAt
      <3>3. M[n + i] = Masked(G, p, n + i) BY <3>0 DEF Masks
      <3>4. M[n + i] = << >> BY <3>1, <3>2, <3>3 DEF Masked
      <3> HIDE DEF M, l
      <3> QED BY <3>4
    <2> HIDE DEF B, l
    <2> QED BY <1>10, <2>3, <2>5, <2>6
  <1>14. \A i \in 1 .. l : M[n + i] = B[i]
    <2> HIDE DEF M, l
    <2> QED OBVIOUS
  <1> HIDE DEF A, B, M
  <1>15. M = A \o B
    <2> HIDE DEF N, l, m
    <2>1. /\ A \o B \in Seq(Texts) /\ Len(A \o B) = n + l
          /\ \A i \in 1 .. n + l : (A \o B)[i] = IF i <= n THEN A[i] ELSE B[i - n]
      BY <1>11, <1>13, ConcatProperties
    <2>2. \A i \in 1 .. N : M[i] = (A \o B)[i]
      <3> TAKE i \in 1 .. N
      <3>1. CASE i <= n
        <4>1. i \in 1 .. n /\ i \in 1 .. n + l BY <1>10, <3>1
        <4> QED BY <1>12, <2>1, <4>1
      <3>2. CASE ~(i <= n)
        <4>1. i - n \in 1 .. l /\ n + (i - n) = i /\ i \in 1 .. n + l
          BY <1>1, <1>10, <3>2
        <4> QED BY <1>14, <2>1, <3>2, <4>1
      <3> QED BY <3>1, <3>2
    <2> QED BY <1>10, <1>11, <2>1, <2>2, SeqEqual
  <1>16. Replace(p) = Replace(a) \o <<Marker>>
    <2>1. FlattenSeq(B) = <<Marker>> BY <1>13, FlatMarker
    <2>2. FlattenSeq(A \o B) = FlattenSeq(A) \o FlattenSeq(B)
      BY <1>11, <1>13, FlatTexts
    <2> QED BY <1>11, <1>15, <2>1, <2>2
  <1>17. Len(a) < Len(p) BY <1>1, <1>5
  <1> QED BY <1>5, <1>6, <1>7, <1>16, <1>17

\* A marker ends every occurrence of the credential.
LEMMA EndsMarked ==
    ASSUME NEW y \in Texts, NEW q \in Texts, Ends(y) = {}, Ends(q) = {}
    PROVE  Ends((y \o <<Marker>>) \o q) = {}
  <1> DEFINE x == y \o <<Marker>>  z == <<Marker>> \o q  t == x \o q
             n == Len(y) + 1  m == Len(Secret)
  <1>1. <<Marker>> \in Texts /\ Len(<<Marker>>) = 1 BY MarkerText
  <1>2. /\ x \in Texts /\ z \in Texts /\ t \in Texts /\ t = y \o z
        /\ Len(x) = n /\ Len(t) = n + Len(q) /\ Len(q) \in Nat /\ Len(y) \in Nat
    <2>1. x \in Texts /\ Len(x) = Len(y) + 1 BY <1>1, TextsConcat
    <2>2. z \in Texts BY <1>1, TextsConcat
    <2>3. t \in Texts /\ Len(t) = Len(x) + Len(q)
      <3> HIDE DEF x
      <3> QED BY <2>1, TextsConcat
    <2>4. (y \o <<Marker>>) \o q = y \o (<<Marker>> \o q)
      BY <1>1, TextsConcat
    <2>5. Len(q) \in Nat /\ Len(y) \in Nat BY TextsConcat
    <2>6. t = y \o z BY <2>4
    <2>7. Len(x) = n BY <2>1
    <2> HIDE DEF x, z, t, n
    <2> QED BY <2>1, <2>2, <2>3, <2>5, <2>6, <2>7
  <1>3. m \in Nat /\ m > 0 /\ \A j \in 1 .. m : Secret[j] # Marker BY SecretFacts
  <1>4. t[n] = Marker
    <2>1. x[n] = Marker
      <3>1. x = Append(y, Marker) BY AppendIsConcat DEF Texts
      <3>2. Marker \in Chars \cup {Marker} OBVIOUS
      <3> QED BY <3>1, <3>2, AppendProperties DEF Texts
    <2>2. n \in 1 .. Len(x) BY <1>2
    <2> HIDE DEF x, n
    <2> QED BY <1>2, <2>1, <2>2, ConcatProperties DEF Texts
  <1>5. SUFFICES ASSUME NEW i \in Ends(t) PROVE FALSE
    OBVIOUS
  <1> HIDE DEF x, z, t, n, m
  <1>6. i \in m .. Len(t) BY EndsIn DEF m
  <1>7. \A j \in 1 .. m : t[i - m + j] = Secret[j]
    BY <1>2, <1>6, EndsAt DEF m
  <1>8. i < n \/ i - m >= n
    <2> SUFFICES ASSUME ~(i < n), ~(i - m >= n) PROVE FALSE
      OBVIOUS
    <2>0. n \in Nat BY <1>2 DEF n
    <2>1. PICK j \in 1 .. m : i - m + j = n
      <3>1. n - (i - m) \in 1 .. m /\ i - m + (n - (i - m)) = n
        BY <1>3, <1>6, <2>0
      <3> QED BY <3>1
    <2> QED BY <1>3, <1>4, <1>7, <2>1
  <1>9. CASE i < n
    <2>1. i \in Nat /\ i <= Len(y) BY <1>2, <1>3, <1>6, <1>9 DEF n
    <2>2. i \in Ends(y \o z) BY <1>2
    <2>3. i \in Ends(y) BY <1>2, <2>1, <2>2, EndsConcat
    <2> QED BY <2>3
  <1>10. CASE i - m >= n
    <2>0. n \in Nat BY <1>2 DEF n
    <2>1. PICK j \in 1 .. Len(q) : n + j = i /\ j >= m
      <3>1. i - n \in 1 .. Len(q) /\ n + (i - n) = i /\ i - n >= m
        BY <1>2, <1>3, <1>6, <1>10, <2>0
      <3> QED BY <3>1
    <2>2. Len(x) + j \in Ends(x \o q) BY <1>2, <2>1 DEF t
    <2>3. j \in Ends(q) BY <1>2, <2>1, <2>2, EndsConcat DEF m
    <2> QED BY <2>3
  <1> QED BY <1>8, <1>9, <1>10

\* Nothing of the credential is left in what it has been replaced in.
LEMMA CredentialGone ==
    ASSUME NEW u \in Texts
    PROVE  Ends(Replace(u)) = {}
  <1> DEFINE N == Len(u)
             T == {k \in 0 .. N : \A t \in Texts : Len(t) <= k => Ends(Replace(t)) = {}}
  <1>1. N \in Nat /\ \A t \in Texts : Len(t) \in Nat BY TextsConcat
  <1> HIDE DEF N
  <1>2. ASSUME NEW t \in Texts, Ends(t) = {} PROVE Ends(Replace(t)) = {}
    BY <1>2, ReplaceNone
  <1>3. 0 \in T
    <2>1. ASSUME NEW t \in Texts, Len(t) <= 0 PROVE Ends(Replace(t)) = {}
      <3>1. Len(t) < Len(Secret) BY <1>1, <2>1, SecretFacts
      <3> QED BY <1>2, <3>1, ShortHasNoEnd
    <2> QED BY <1>1, <2>1
  <1>4. \A k \in 1 .. N : k - 1 \in T => k \in T
    <2> SUFFICES ASSUME NEW k \in 1 .. N, k - 1 \in T,
                        NEW t \in Texts, Len(t) <= k
                 PROVE  Ends(Replace(t)) = {}
      BY <1>1
    <2>1. PICK p \in Texts, q \in Texts :
              /\ t = p \o q /\ Replace(t) = Replace(p) \o q
              /\ p = << >> \/ Len(p) \in Ends(p)
              /\ \A i \in Ends(t) : i <= Len(p)
              /\ Ends(q) = {}
      BY LastEnd
    <2>2. Len(p) \in Nat /\ Len(q) \in Nat /\ Len(t) = Len(p) + Len(q)
      BY <2>1, TextsConcat
    <2>3. Ends(q) = {} BY <2>1
    <2>4. CASE p = << >>
      <3>1. Replace(t) = q BY <2>1, <2>4, ReplaceEmpty, TextsConcat
      <3> QED BY <2>3, <3>1
    <2>5. CASE Len(p) \in Ends(p)
      <3>1. PICK a \in Texts : /\ Replace(p) = Replace(a) \o <<Marker>>
                              /\ Len(a) < Len(p)
        BY <2>5, SecretLast
      <3>2. Len(a) <= k - 1 BY <1>1, <2>2, <3>1
      <3>3. Ends(Replace(a)) = {} BY <3>2
      <3>4. Replace(a) \in Texts BY ReplaceType
      <3> QED BY <2>1, <2>3, <3>1, <3>3, <3>4, EndsMarked
    <2> QED BY <2>1, <2>4, <2>5
  <1>5. \A k \in 0 .. N : k \in T
    <2> HIDE DEF T
    <2> QED BY <1>1, <1>3, <1>4, UpTo
  <1>6. N \in T /\ Len(u) <= N BY <1>1, <1>5 DEF N
  <1> QED BY <1>6

\* A text in two parts that is without the credential: so is the first.
LEMMA FirstPartHides ==
    ASSUME NEW p \in Texts, NEW z \in Texts, Ends(p \o z) = {}
    PROVE  Ends(p) = {}
  <1> SUFFICES ASSUME NEW i \in Ends(p) PROVE FALSE
    OBVIOUS
  <1>1. i \in Nat
    <2>1. i \in Len(Secret) .. Len(p) BY EndsIn
    <2> QED BY <2>1, SecretFacts
  <1>2. i \in Ends(p \o z) BY <1>1, EndsConcat
  <1> QED BY <1>2

\* What is before the first marker has not been changed.
LEMMA RawPrefix ==
    ASSUME NEW u \in Texts, NEW n \in 0 .. Len(Replace(u)),
           \A i \in 1 .. n : Replace(u)[i] # Marker
    PROVE  n <= Len(u) /\ \A i \in 1 .. n : Replace(u)[i] = u[i]
  <1> DEFINE N == Len(u)
             Raw(t, j) == j <= Len(t) /\ \A i \in 1 .. j : Replace(t)[i] = t[i]
             Plain(t, j) == \A i \in 1 .. j : Replace(t)[i] # Marker
             T == {k \in 0 .. N : \A t \in Texts : Len(t) <= k =>
                      \A j \in 0 .. Len(Replace(t)) : Plain(t, j) => Raw(t, j)}
  <1>1. N \in Nat /\ \A t \in Texts : Len(t) \in Nat BY TextsConcat
  <1> HIDE DEF N
  <1>2. ASSUME NEW t \in Texts, Replace(t) = t, NEW j \in 0 .. Len(Replace(t))
        PROVE  Raw(t, j)
    BY <1>1, <1>2
  <1>3. 0 \in T
    <2>1. ASSUME NEW t \in Texts, Len(t) <= 0 PROVE Replace(t) = t
      <3>1. Len(t) < Len(Secret) BY <1>1, <2>1, SecretFacts
      <3> QED BY <3>1, ShortHasNoEnd, ReplaceNone
    <2> HIDE DEF Raw, Plain
    <2> QED BY <1>1, <1>2, <2>1
  <1>4. \A k \in 1 .. N : k - 1 \in T => k \in T
    <2> SUFFICES ASSUME NEW k \in 1 .. N, k - 1 \in T,
                        NEW t \in Texts, Len(t) <= k,
                        NEW j \in 0 .. Len(Replace(t)), Plain(t, j)
                 PROVE  Raw(t, j)
      BY <1>1
    <2>1. PICK p \in Texts, q \in Texts :
              /\ t = p \o q /\ Replace(t) = Replace(p) \o q
              /\ p = << >> \/ Len(p) \in Ends(p)
              /\ \A i \in Ends(t) : i <= Len(p)
              /\ Ends(q) = {}
      BY LastEnd
    <2>2. Len(p) \in Nat /\ Len(q) \in Nat /\ Len(t) = Len(p) + Len(q)
      BY <2>1, TextsConcat
    <2>3. CASE p = << >>
      <3>1. Replace(t) = t BY <2>1, <2>3, ReplaceEmpty, TextsConcat
      <3> HIDE DEF Raw, Plain
      <3> QED BY <1>2, <3>1
    <2>4. CASE Len(p) \in Ends(p)
      <3>1. PICK a \in Texts, w \in Texts :
                /\ p = a \o w /\ Len(a) < Len(p)
                /\ Replace(p) = Replace(a) \o <<Marker>>
        BY <2>4, SecretLast
      <3> DEFINE r == Replace(a)  z == <<Marker>> \o q  y == w \o q
      <3>2. r \in Texts /\ z \in Texts /\ y \in Texts /\ <<Marker>> \in Texts
        BY MarkerText, ReplaceType, TextsConcat
      <3>3. Replace(t) = r \o z /\ t = a \o y
        <4>1. (r \o <<Marker>>) \o q = r \o (<<Marker>> \o q)
          BY ONLY <3>2, MarkerThen
        <4>2. (a \o w) \o q = a \o (w \o q) BY TextsAssoc
        <4> QED BY <2>1, <3>1, <4>1, <4>2
      <3>4. Len(a) \in Nat /\ Len(a) <= k - 1 /\ Len(a) <= Len(t)
        BY <1>1, <2>2, <3>1
      <3>5. z[1] = Marker /\ Len(z) \in Nat /\ Len(z) > 0
        <4>1. /\ Len(<<Marker>>) = 1 /\ <<Marker>>[1] = Marker
              /\ <<Marker>> \in Seq(Chars \cup {Marker})
              /\ q \in Seq(Chars \cup {Marker})
          BY <3>2 DEF Texts
        <4>2. /\ Len(z) = 1 + Len(q)
              /\ \A i \in 1 .. 1 + Len(q) :
                    z[i] = IF i <= 1 THEN <<Marker>>[i] ELSE q[i - 1]
          BY <4>1, ConcatProperties
        <4>3. 1 \in 1 .. 1 + Len(q) /\ 1 <= 1 BY <2>2
        <4> HIDE DEF z
        <4> QED BY <2>2, <4>1, <4>2, <4>3
      <3> HIDE DEF r, z, y
      <3>6. /\ Len(r) \in Nat /\ Len(Replace(t)) = Len(r) + Len(z)
            /\ \A i \in 1 .. Len(r) + Len(z) :
                  Replace(t)[i] = IF i <= Len(r) THEN r[i] ELSE z[i - Len(r)]
        BY <3>2, <3>3, ConcatProperties, TextsConcat DEF Texts
      <3>7. j <= Len(r)
        <4> SUFFICES ASSUME ~(j <= Len(r)) PROVE FALSE
          OBVIOUS
        <4> DEFINE i == Len(r) + 1
        <4>1. /\ i \in 1 .. Len(r) + Len(z) /\ ~(i <= Len(r)) /\ i - Len(r) = 1
              /\ i \in 1 .. j
          BY <3>5, <3>6
        <4> HIDE DEF i
        <4>2. Replace(t)[i] = Marker BY <3>5, <3>6, <4>1
        <4> QED BY <4>1, <4>2
      <3>8. j \in 0 .. Len(Replace(a)) BY <3>6, <3>7 DEF r
      <3>9. \A i \in 1 .. j : Replace(t)[i] = Replace(a)[i]
        <4> TAKE i \in 1 .. j
        <4>1. i \in 1 .. Len(r) + Len(z) /\ i <= Len(r) BY <3>5, <3>6, <3>7
        <4> QED BY <3>6, <4>1 DEF r
      <3>10. Plain(a, j) BY <3>9
      <3>11. Raw(a, j)
        <4> HIDE DEF Raw, Plain
        <4> QED BY <3>4, <3>8, <3>10
      <3>12. \A i \in 1 .. j : t[i] = a[i]
        <4>1. \A i \in 1 .. Len(a) : t[i] = a[i]
          BY <3>2, <3>3, ConcatProperties DEF Texts
        <4> QED BY <3>4, <3>11, <4>1
      <3> QED BY <1>1, <3>4, <3>9, <3>11, <3>12
    <2> QED BY <2>1, <2>3, <2>4
  <1>5. \A k \in 0 .. N : k \in T
    <2> HIDE DEF T
    <2> QED BY <1>1, <1>3, <1>4, UpTo
  <1>6. N \in T /\ Len(u) <= N BY <1>1, <1>5 DEF N
  <1>7. Plain(u, n) => Raw(u, n)
    <2> HIDE DEF Raw, Plain
    <2> QED BY <1>6
  <1> QED BY <1>7

\* A suffix of a redacted text without a marker has not been changed, and
\* what is before it is redacted as if it did not come.
LEMMA HeldRaw ==
    ASSUME NEW u \in Texts, NEW d \in Texts, NEW h \in Seq(Chars),
           Cut(Replace(u), d, h)
    PROVE  \E a \in Texts : Cut(u, a, h) /\ Replace(a) = d
  <1>0. Len(Secret) \in Nat /\ Len(Secret) > 0 BY SecretFacts
  <1>1. /\ h \in Texts /\ Len(u) \in Nat /\ Len(h) \in Nat /\ Len(d) \in Nat
        /\ Replace(u) = d \o h
    BY SecretFacts, TextsConcat DEF Cut
  <1>h. \A j \in 1 .. Len(h) : h[j] # Marker BY SecretFacts, ElementOfSeq
  <1>2. PICK p \in Texts, q \in Texts :
            /\ u = p \o q /\ Replace(u) = Replace(p) \o q
            /\ p = << >> \/ Len(p) \in Ends(p)
            /\ \A i \in Ends(u) : i <= Len(p)
    BY <1>1, LastEnd
  <1> DEFINE r == Replace(p)
  <1>3. /\ r \in Texts /\ Len(r) \in Nat /\ Len(p) \in Nat /\ Len(q) \in Nat
    BY <1>2, ReplaceType, LenProperties DEF Texts
  <1>4. r \o q = d \o h BY <1>1, <1>2
  <1> HIDE DEF r
  <1>5. Len(h) <= Len(q)
    <2>1. /\ Len(r \o q) = Len(r) + Len(q) /\ Len(d \o h) = Len(d) + Len(h)
          /\ \A i \in 1 .. Len(r) + Len(q) :
                (r \o q)[i] = IF i <= Len(r) THEN r[i] ELSE q[i - Len(r)]
          /\ \A i \in 1 .. Len(d) + Len(h) :
                (d \o h)[i] = IF i <= Len(d) THEN d[i] ELSE h[i - Len(d)]
      BY <1>1, <1>3, ConcatProperties DEF Texts
    <2>2. CASE p = << >>
      <3>1. Len(r) = 0 BY <2>2, ReplaceEmpty, EmptySeq DEF r
      <3> QED BY <1>1, <1>3, <1>4, <2>1, <3>1
    <2>3. CASE Len(p) \in Ends(p)
      <3>1. PICK y \in Texts : r = y \o <<Marker>>
        BY <2>3, ReplaceEnd DEF r
      <3>2. r = Append(y, Marker) BY <3>1, AppendIsConcat DEF Texts
      <3>3. Len(r) > 0 /\ r[Len(r)] = Marker
        <4>1. Len(r) = Len(y) + 1 /\ r[Len(y) + 1] = Marker /\ Len(y) \in Nat
          BY <3>2, AppendProperties, LenProperties DEF Texts
        <4> QED BY <4>1
      <3> SUFFICES ASSUME Len(h) > Len(q) PROVE FALSE BY <1>1, <1>3
      <3>4. PICK n \in 1 .. Len(r) + Len(q) : n = Len(r) BY <1>3, <3>3
      <3>5. n \in 1 .. Len(d) + Len(h) /\ ~(n <= Len(d)) /\ n - Len(d) \in 1 .. Len(h)
        BY <1>1, <1>3, <1>4, <2>1, <3>4
      <3>6. (r \o q)[n] = Marker BY <1>3, <2>1, <3>3, <3>4
      <3>7. (d \o h)[n] = h[n - Len(d)] BY <2>1, <3>5
      <3> QED BY <1>4, <1>h, <3>5, <3>6, <3>7
    <2> QED BY <1>2, <2>2, <2>3
  <1>6. PICK w \in Texts : q = w \o h /\ d = r \o w
    <2> DEFINE x == r \o q
    <2>1. Cut(x, r, q) /\ Cut(x, d, h) BY <1>4 DEF Cut
    <2> HIDE DEF x
    <2>2. \E w \in Texts : Cut(q, w, h) /\ Cut(d, r, w)
      BY <1>1, <1>3, <1>5, <2>1, TwoCuts DEF Texts
    <2> QED BY <2>2 DEF Cut
  <1> DEFINE a == p \o w
  <1>7. /\ a \in Texts /\ Len(a) = Len(p) + Len(w) /\ Len(w) \in Nat
        /\ Len(q) = Len(w) + Len(h) /\ Len(u) = Len(p) + Len(q)
    BY <1>1, <1>2, <1>6, ConcatProperties, LenProperties DEF Texts
  <1>8. u = a \o h
    <2>1. (p \o w) \o h = p \o (w \o h) BY <1>1, TextsConcat
    <2> QED BY <1>2, <1>6, <2>1
  <1>n. /\ Len(p) \in Nat /\ Len(q) \in Nat /\ Len(r) \in Nat /\ Len(h) \in Nat
        /\ Len(w) \in Nat /\ Len(a) = Len(p) + Len(w) /\ Len(u) = Len(a) + Len(h)
        /\ Len(u) = Len(p) + Len(q)
    <2> HIDE DEF a
    <2> QED BY <1>1, <1>3, <1>7
  <1>9. Replace(a) = d
    <2>1. \A i \in Ends(a) : i \in Nat /\ i <= Len(p)
      <3>1. \A i \in Ends(a) : i \in Nat BY <1>0, EndsIn
      <3>2. \A i \in Ends(a) : i \in Ends(u)
        BY <1>1, <1>7, <1>8, <3>1, EndsConcat
      <3> QED BY <1>2, <3>1, <3>2
    <2>2. \A i \in Ends(p \o w) : i <= Len(p) \/ i >= Len(p) + Len(Secret)
      BY <2>1
    <2>3. Ends(w) = {}
      <3> SUFFICES ASSUME NEW i \in Ends(w) PROVE FALSE OBVIOUS
      <3>1. i \in 1 .. Len(w) BY <1>0, <1>7, EndsIn
      <3>2. Len(p) + i \in Ends(a) BY <3>1, EndsConcat
      <3> QED BY <1>3, <2>1, <3>1, <3>2
    <2>4. Replace(p \o w) = Replace(p) \o Replace(w) BY <2>2, ReplaceSplit
    <2>5. Replace(w) = w BY <2>3, ReplaceNone
    <2> QED BY <1>6, <2>4, <2>5 DEF r
  <1> HIDE DEF a
  <1> QED BY <1>7, <1>8, <1>9 DEF Cut

\* u is redacted as d, and h is what the redactor holds: the end of u, which
\* may begin the credential, and all that may.
Redacted(u, d, h) ==
    /\ u \in Seq(Chars) /\ d \in Texts /\ h \in Seq(Chars)
    /\ \E x \in Texts : u = x \o h /\ d \in Maskings(x)
    /\ Len(h) = Hold(d \o h) /\ Ends(d \o h) = {}

\* The types of what has been redacted, and of what comes next.
LEMMA RedactedFacts ==
    ASSUME NEW u, NEW d, NEW h, Redacted(u, d, h), NEW v \in Seq(Chars)
    PROVE  /\ u \in Texts /\ d \in Texts /\ h \in Texts /\ v \in Texts
           /\ u \o v \in Seq(Chars) /\ h \o v \in Texts /\ d \o h \in Texts
           /\ Replace(h \o v) \in Texts
           /\ Len(h) = Hold(d \o h) /\ Ends(d \o h) = {} /\ Ends(d) = {}
  <1>1. u \in Seq(Chars) /\ d \in Texts /\ h \in Seq(Chars)
        /\ Len(h) = Hold(d \o h) /\ Ends(d \o h) = {}
    BY DEF Redacted
  <1>2. u \in Texts /\ h \in Texts /\ v \in Texts BY <1>1, SecretFacts
  <1>3. u \o v \in Seq(Chars) BY <1>1, ConcatProperties
  <1>4. h \o v \in Texts /\ d \o h \in Texts BY <1>1, <1>2, TextsConcat
  <1>5. Ends(d) = {} BY <1>1, <1>2, FirstPartHides
  <1> QED BY <1>1, <1>2, <1>3, <1>4, <1>5, ReplaceType

\* What has been shown stays, whatever comes.
LEMMA RedactedMore ==
    ASSUME NEW u, NEW d, NEW h, Redacted(u, d, h), NEW v \in Seq(Chars)
    PROVE  d \o (h \o v) \in Maskings(u \o v)
  <1>1. /\ d \in Texts /\ h \in Texts /\ v \in Texts /\ h \o v \in Texts
    BY RedactedFacts
  <1>2. PICK x \in Texts : u = x \o h /\ d \in Maskings(x) BY DEF Redacted
  <1>3. u \o v = x \o (h \o v) BY <1>1, <1>2, TextsConcat
  <1>4. h \o v \in Maskings(h \o v) BY <1>1, MaskingsHave
  <1> QED BY <1>1, <1>2, <1>3, <1>4, MaskingsConcat

\* A credential leaves a marker.
LEMMA MarkerSeen ==
    ASSUME NEW y \in Texts, Ends(y) # {}
    PROVE  \E i \in 1 .. Len(Replace(y)) : Replace(y)[i] = Marker
  <1>1. PICK p \in Texts, q \in Texts :
            /\ y = p \o q /\ Replace(y) = Replace(p) \o q
            /\ p = << >> \/ Len(p) \in Ends(p)
            /\ \A i \in Ends(y) : i <= Len(p)
    BY LastEnd
  <1>2. p # << >>
    <2>1. PICK i \in Ends(y) : TRUE OBVIOUS
    <2>2. i \in Nat /\ i > 0 /\ Len(y) \in Nat BY SecretFacts, EndsIn, TextsConcat
    <2> QED BY <1>1, <2>1, <2>2, TextsConcat
  <1>3. PICK z \in Texts : Replace(p) = z \o <<Marker>> BY <1>1, <1>2, ReplaceEnd
  <1> DEFINE r == Append(z, Marker)  n == Len(z) + 1
  <1>4. /\ r \in Texts /\ Len(r) = n /\ r[n] = Marker
        /\ n \in Nat /\ n > 0
    BY AppendProperties, TextsConcat DEF Texts
  <1>5. Replace(p) = r BY <1>3, AppendIsConcat DEF Texts
  <1> HIDE DEF r, n
  <1>6. /\ Len(r \o q) = Len(r) + Len(q) /\ Len(q) \in Nat
        /\ \A i \in 1 .. Len(r) + Len(q) :
              (r \o q)[i] = IF i <= Len(r) THEN r[i] ELSE q[i - Len(r)]
    <2>1. r \in Texts BY <1>4
    <2> QED BY <2>1, TextsConcat, ConcatProperties DEF Texts
  <1>7. n \in 1 .. Len(r \o q) /\ (r \o q)[n] = Marker BY <1>4, <1>6
  <1>8. Replace(y) = r \o q BY <1>1, <1>5
  <1> QED BY <1>7, <1>8

\* What is held does not depend on what was shown.
LEMMA SameHold ==
    ASSUME NEW u, NEW d, NEW h, Redacted(u, d, h), NEW v \in Seq(Chars)
    PROVE  Hold(d \o Replace(h \o v)) = Hold(Replace(h \o v))
  <1> DEFINE t == Replace(h \o v)  R == d \o t  m == Len(Secret)
  <1>1. /\ d \in Texts /\ h \in Texts /\ v \in Texts /\ t \in Texts
        /\ h \o v \in Texts
        /\ Len(h) = Hold(d \o h)
    BY RedactedFacts
  <1>2. /\ m \in Nat /\ m > 0 /\ \A j \in 1 .. m : Secret[j] # Marker
    BY SecretFacts
  <1>3. t = Replace(h \o v) OBVIOUS
  <1> HIDE DEF t
  <1>4. /\ R \in Texts /\ Len(R) = Len(d) + Len(t)
        /\ Len(d) \in Nat /\ Len(t) \in Nat /\ Len(h) \in Nat /\ Len(v) \in Nat
    BY <1>1, TextsConcat
  <1>5. \A j \in 1 .. Len(t) : R[Len(d) + j] = t[j]
    <2> TAKE j \in 1 .. Len(t)
    <2> DEFINE i == Len(d) + j
    <2>1. i \in 1 .. Len(d) + Len(t) /\ ~(i <= Len(d)) /\ i - Len(d) = j BY <1>4
    <2> HIDE DEF i
    <2>2. R[i] = t[j] BY <1>1, <2>1, ConcatProperties DEF Texts
    <2> QED BY <2>2 DEF i
  <1> DEFINE k == Hold(t)  K == Hold(R)
  <1>6. /\ k \in Nat /\ k <= Len(t) /\ k < m
        /\ k = 0 \/ k \in Beginnings(t)
        /\ \A i \in Beginnings(t) : i <= k
    BY <1>1, HoldFacts
  <1>7. /\ K \in Nat /\ K <= Len(R) /\ K < m
        /\ K = 0 \/ K \in Beginnings(R)
        /\ \A i \in Beginnings(R) : i <= K
    <2> HIDE DEF R
    <2> QED BY <1>4, HoldFacts
  <1> HIDE DEF R, k, K
  <1>8. \A i \in Nat : i \in 1 .. Len(t) =>
            (i \in Beginnings(t) <=> i \in Beginnings(R))
    <2> SUFFICES ASSUME NEW i \in Nat, i \in 1 .. Len(t)
                 PROVE  i \in Beginnings(t) <=> i \in Beginnings(R)
      OBVIOUS
    <2>1. \A j \in 1 .. i : R[Len(R) - i + j] = t[Len(t) - i + j]
      <3> TAKE j \in 1 .. i
      <3>1. PICK l \in 1 .. Len(t) : l = Len(t) - i + j
        <4>1. Len(t) - i + j \in 1 .. Len(t) BY <1>4
        <4> QED BY <4>1
      <3>2. Len(d) + l = Len(R) - i + j BY <1>4, <3>1
      <3>3. R[Len(d) + l] = t[l] BY <1>5
      <3> QED BY <3>1, <3>2, <3>3
    <2>2. i <= Len(t) /\ i <= Len(R) BY <1>4
    <2>3. i \in Beginnings(t) <=>
              /\ i \in 1 .. m - 1 /\ i <= Len(t)
              /\ \A j \in 1 .. i : t[Len(t) - i + j] = Secret[j]
      BY <1>1, BeginsAt
    <2>4. i \in Beginnings(R) <=>
              /\ i \in 1 .. m - 1 /\ i <= Len(R)
              /\ \A j \in 1 .. i : R[Len(R) - i + j] = Secret[j]
      BY <1>4, BeginsAt
    <2> QED BY <2>1, <2>2, <2>3, <2>4
  <1>9. k <= K
    <2>1. CASE k = 0 BY <1>7, <2>1
    <2>2. CASE k # 0
      <3>1. k \in 1 .. Len(t) /\ k \in Beginnings(t) BY <1>6, <2>2
      <3>2. k \in Beginnings(R) BY <1>6, <1>8, <3>1
      <3> QED BY <1>7, <3>2
    <2> QED BY <2>1, <2>2
  <1>10. K <= Len(t)
    <2> SUFFICES ASSUME K > Len(t) PROVE FALSE BY <1>4, <1>7
    <2>1. K \in Beginnings(R) BY <1>4, <1>7
    <2>2. \A j \in 1 .. K : R[Len(R) - K + j] = Secret[j]
      BY <1>4, <1>7, <2>1, BeginsAt
    <2>3. \A l \in 1 .. Len(t) : t[l] # Marker
      <3> TAKE l \in 1 .. Len(t)
      <3>1. PICK j \in 1 .. K : j = K - Len(t) + l
        <4>1. K - Len(t) + l \in 1 .. K BY <1>4, <1>7
        <4> QED BY <4>1
      <3>2. Len(d) + l = Len(R) - K + j BY <1>4, <1>7, <3>1
      <3>3. R[Len(d) + l] = t[l] BY <1>5
      <3>4. R[Len(R) - K + j] = Secret[j] BY <2>2
      <3>5. j \in 1 .. m BY <1>2, <1>7
      <3>6. t[l] = Secret[j] BY <3>2, <3>3, <3>4
      <3> QED BY <1>2, <3>5, <3>6
    <2>4. Ends(h \o v) = {} BY <1>1, <1>3, <2>3, MarkerSeen
    <2>5. t = h \o v BY <1>1, <1>3, <2>4, ReplaceNone
    <2> DEFINE U == d \o h  l == K - Len(v)
    <2>6. /\ U \in Texts /\ Len(U) = Len(d) + Len(h)
          /\ Len(t) = Len(h) + Len(v)
          /\ R = U \o v
      BY <1>1, <2>5, TextsConcat DEF R
    <2> HIDE DEF U
    <2>7. \A j \in 1 .. Len(U) : R[j] = U[j]
      <3> TAKE j \in 1 .. Len(U)
      <3>0. Len(U) \in Nat BY <1>4, <2>6
      <3>1. j \in 1 .. Len(U) + Len(v) /\ j <= Len(U) BY <1>4, <3>0
      <3> QED BY <1>1, <2>6, <3>1, ConcatProperties DEF Texts
    <2>8. /\ l \in 1 .. m - 1 /\ l \in Nat /\ l > Len(h) /\ l <= Len(U) /\ l <= K
          /\ Len(R) = Len(U) + Len(v)
      BY <1>2, <1>4, <1>7, <2>6
    <2>9. \A j \in 1 .. l : U[Len(U) - l + j] = Secret[j]
      <3> TAKE j \in 1 .. l
      <3>0. Len(U) \in Nat BY <1>4, <2>6
      <3>1. PICK c \in 1 .. Len(U) : c = Len(U) - l + j
        <4>1. Len(U) - l + j \in 1 .. Len(U)
          <5> HIDE DEF l
          <5> QED BY <2>8, <3>0
        <4> QED BY <4>1
      <3>2. j \in 1 .. K /\ c = Len(R) - K + j
        <4>1. l = K - Len(v) OBVIOUS
        <4> HIDE DEF l
        <4>2. l <= K /\ l \in Nat /\ Len(R) = Len(U) + Len(v) BY <2>8
        <4>3. K \in Nat /\ Len(v) \in Nat BY <1>4, <1>7
        <4>4. j \in 1 .. K BY <4>2, <4>3
        <4>5. Len(U) - l + j = Len(R) - K + j BY <3>0, <4>1, <4>2, <4>3
        <4> QED BY <3>1, <4>4, <4>5
      <3>3. R[c] = U[c] BY <2>7
      <3>4. R[Len(R) - K + j] = Secret[j] BY <2>2, <3>2
      <3> HIDE DEF l
      <3> QED BY <3>1, <3>2, <3>3, <3>4
    <2>10. l \in Beginnings(U)
      <3> HIDE DEF l
      <3> QED BY <2>6, <2>8, <2>9, BeginsAt
    <2>11. l <= Hold(U)
      <3> HIDE DEF l
      <3> QED BY <2>6, <2>10, HoldFacts
    <2>12. Hold(U) = Len(h) BY <1>1 DEF U
    <2> HIDE DEF l
    <2> QED BY <1>4, <2>8, <2>11, <2>12
  <1>11. K <= k
    <2>1. CASE K = 0 BY <1>6, <2>1
    <2>2. CASE K # 0
      <3>1. K \in 1 .. Len(t) /\ K \in Beginnings(R) BY <1>7, <1>10, <2>2
      <3>2. K \in Beginnings(t) BY <1>7, <1>8, <3>1
      <3> QED BY <1>6, <3>2
    <2> QED BY <2>1, <2>2
  <1>12. K = k BY <1>6, <1>7, <1>9, <1>11
  <1> QED BY <1>1, <1>12 DEF K, k, R, t

\* The part of a text that is shown, and the part that is held.
LEMMA HoldParts ==
    ASSUME NEW t \in Texts, NEW k, k = Hold(t)
    PROVE  /\ SubSeq(t, 1, Len(t) - k) \in Texts
           /\ SubSeq(t, Len(t) - k + 1, Len(t)) \in Seq(Chars)
           /\ Len(SubSeq(t, Len(t) - k + 1, Len(t))) = k
           /\ SubSeq(t, 1, Len(t) - k) \o SubSeq(t, Len(t) - k + 1, Len(t)) = t
  <1> DEFINE x == SubSeq(t, 1, Len(t) - k)
             g == SubSeq(t, Len(t) - k + 1, Len(t))
  <1>1. Len(t) \in Nat BY TextsConcat
  <1>2. /\ k \in Nat /\ k <= Len(t) /\ k < Len(Secret)
        /\ k = 0 \/ k \in Beginnings(t)
    BY <1>1, HoldFacts
  <1>3. x \in Texts
    <2>1. 1 \in 1 .. Len(t) + 1 /\ Len(t) - k \in 1 - 1 .. Len(t) BY <1>1, <1>2
    <2> QED BY <2>1, Part DEF Texts
  <1>4. g \in Texts /\ Len(g) = k
    <2>1. /\ Len(t) - k + 1 \in 1 .. Len(t) + 1
          /\ Len(t) \in (Len(t) - k + 1) - 1 .. Len(t)
          /\ Len(t) - (Len(t) - k + 1) + 1 = k
      BY <1>1, <1>2
    <2> QED BY <2>1, Part DEF Texts
  <1>5. x \o g = t
    <2>1. /\ 1 \in 1 .. Len(t) + 1 /\ Len(t) - k \in 1 - 1 .. Len(t)
          /\ Len(t) \in Len(t) - k .. Len(t)
      BY <1>1, <1>2
    <2>2. x \o g = SubSeq(t, 1, Len(t)) BY <2>1, ConcatAdjacentSubSeq DEF Texts
    <2> QED BY <2>2, SubSeqFull DEF Texts
  <1>6. g \in Seq(Chars)
    <2>1. CASE k = 0
      <3>1. g = << >> BY <1>4, <2>1, EmptySeq DEF Texts
      <3> QED BY <3>1, EmptySeq
    <2>2. CASE k # 0
      <3>1. g = SubSeq(Secret, 1, k) BY <1>2, <2>2 DEF Beginnings
      <3>2. 1 \in 1 .. Len(Secret) + 1 /\ k \in 1 - 1 .. Len(Secret)
        BY <1>2, SecretFacts
      <3>3. SubSeq(Secret, 1, k) \in Seq(Chars) BY <3>2, SecretFacts, Part
      <3> QED BY <3>1, <3>3
    <2> QED BY <2>1, <2>2
  <1> HIDE DEF x, g
  <1>7. x \in Texts /\ g \in Seq(Chars) /\ Len(g) = k /\ x \o g = t
    BY <1>3, <1>4, <1>5, <1>6
  <1> QED BY <1>7 DEF x, g

\* Nor does the credential come back where the two meet: it would have been
\* in both what was shown and what has come, and all of it would be held.
LEMMA Hides ==
    ASSUME NEW u, NEW d, NEW h, Redacted(u, d, h), NEW v \in Seq(Chars)
    PROVE  Ends(d \o Replace(h \o v)) = {}
  <1> DEFINE y == h \o v  t == Replace(y)  R == d \o t  U == d \o h  z == U \o v
             m == Len(Secret)  D == Len(d)
  <1>1. /\ d \in Texts /\ h \in Texts /\ v \in Texts /\ y \in Texts /\ t \in Texts
        /\ U \in Texts /\ Len(h) = Hold(U) /\ Ends(U) = {} /\ Ends(d) = {}
    BY RedactedFacts
  <1>2. /\ m \in Nat /\ m > 0 /\ \A j \in 1 .. m : Secret[j] # Marker
    BY SecretFacts
  <1>3. z = d \o y BY <1>1, TextsConcat
  <1>4. Ends(t) = {} BY <1>1, CredentialGone
  <1>t. t = Replace(y) OBVIOUS
  <1> HIDE DEF y, t
  <1>5. /\ R \in Texts /\ Len(R) = D + Len(t) /\ D \in Nat /\ Len(t) \in Nat
        /\ Len(y) \in Nat /\ Len(h) \in Nat /\ Len(v) \in Nat
        /\ Len(U) = D + Len(h)
    BY <1>1, TextsConcat
  <1>6. z \in Texts /\ Len(z) = D + Len(y) /\ Len(z) = Len(U) + Len(v)
    <2> HIDE DEF U
    <2>1. z \in Texts /\ Len(z) = Len(U) + Len(v) BY <1>1, TextsConcat
    <2>2. Len(d \o y) = D + Len(y) BY <1>1, TextsConcat
    <2> QED BY <1>3, <2>1, <2>2
  <1>7. /\ \A j \in 1 .. D : R[j] = d[j] /\ z[j] = d[j]
        /\ \A j \in 1 .. Len(t) : R[D + j] = t[j]
        /\ \A j \in 1 .. Len(y) : z[D + j] = y[j]
    <2> HIDE DEF z, U
    <2>1. /\ \A j \in 1 .. D + Len(t) : R[j] = IF j <= D THEN d[j] ELSE t[j - D]
          /\ \A j \in 1 .. D + Len(y) : z[j] = IF j <= D THEN d[j] ELSE y[j - D]
      BY <1>1, <1>3, ConcatProperties DEF Texts
    <2> HIDE DEF R, D
    <2>2. \A j \in 1 .. D : /\ j \in 1 .. D + Len(t) /\ j \in 1 .. D + Len(y)
                           /\ j <= D
      BY <1>5
    <2>3. \A j \in 1 .. Len(t) : /\ D + j \in 1 .. D + Len(t) /\ ~(D + j <= D)
                                /\ (D + j) - D = j
      BY <1>5
    <2>4. \A j \in 1 .. Len(y) : /\ D + j \in 1 .. D + Len(y) /\ ~(D + j <= D)
                                /\ (D + j) - D = j
      BY <1>5
    <2> QED BY <2>1, <2>2, <2>3, <2>4
  <1>8. SUFFICES ASSUME NEW i \in Ends(R) PROVE FALSE
    BY DEF t, y
  <1>9. i \in m .. Len(R) /\ i \in Nat /\ i >= m /\ i <= Len(R)
    <2>1. i \in m .. Len(R) BY EndsIn
    <2> HIDE DEF m, R
    <2> QED BY <1>2, <1>5, <2>1
  <1>10. \A j \in 1 .. m : R[i - m + j] = Secret[j]
    <2> HIDE DEF R
    <2> QED BY <1>5, <1>9, EndsAt
  <1>11. i > D
    <2>1. \A l \in Nat : l \in Ends(d) <=> l \in Ends(R) /\ l <= D
      BY <1>1, EndsConcat
    <2> HIDE DEF R
    <2>2. ~(i <= D) BY <1>1, <1>9, <2>1
    <2> QED BY <1>5, <1>9, <2>2
  <1>12. i < D + m
    <2> SUFFICES ASSUME ~(i < D + m) PROVE FALSE
      OBVIOUS
    <2>1. \A l \in 1 .. Len(t) : l \in Ends(t) <=> D + l \in Ends(R) /\ l >= m
      BY <1>1, EndsConcat
    <2> HIDE DEF R, m, D
    <2>2. i - D \in 1 .. Len(t) /\ D + (i - D) = i /\ i - D >= m
      BY <1>2, <1>5, <1>9, <1>11
    <2> QED BY <1>4, <2>1, <2>2
  <1> DEFINE n == i - D
  <1>13. n \in 0 .. Len(t) /\ n \in 1 .. m - 1 /\ n \in Nat
    <2> HIDE DEF R, m, D
    <2> QED BY <1>2, <1>5, <1>9, <1>11, <1>12
  <1>14. \A l \in 1 .. n : t[l] # Marker
    <2> TAKE l \in 1 .. n
    <2> HIDE DEF R, m, D
    <2>1. PICK j \in 1 .. m : i - m + j = D + l
      <3>1. D + l - (i - m) \in 1 .. m /\ i - m + (D + l - (i - m)) = D + l
        BY <1>2, <1>5, <1>9, <1>12
      <3> QED BY <3>1
    <2>2. l \in 1 .. Len(t) BY <1>5, <1>13
    <2>3. t[l] = Secret[j] BY <1>7, <1>10, <2>1, <2>2
    <2> QED BY <1>2, <2>3
  <1> HIDE DEF R, m, D, z, U, n
  <1>15. n <= Len(y) /\ \A l \in 1 .. n : t[l] = y[l]
    BY <1>1, <1>t, <1>13, <1>14, RawPrefix
  <1>16. \A l \in 1 .. i : R[l] = z[l]
    <2> TAKE l \in 1 .. i
    <2>1. CASE l <= D
      <3>1. l \in 1 .. D BY <1>5, <2>1
      <3> QED BY <1>7, <3>1
    <2>2. CASE ~(l <= D)
      <3>1. PICK j \in 1 .. n : D + j = l
        <4>1. l - D \in 1 .. n /\ D + (l - D) = l BY <1>5, <1>9, <2>2 DEF n
        <4> QED BY <4>1
      <3>2. j \in 1 .. Len(t) /\ j \in 1 .. Len(y) BY <1>5, <1>13, <1>15
      <3> QED BY <1>7, <1>15, <3>1, <3>2
    <2> QED BY <2>1, <2>2
  <1>17. i <= Len(z) /\ i \in m .. Len(z)
    BY <1>2, <1>5, <1>6, <1>9, <1>13, <1>15 DEF n
  <1>18. \A j \in 1 .. m : z[i - m + j] = Secret[j]
    <2> TAKE j \in 1 .. m
    <2>1. i - m + j \in 1 .. i BY <1>2, <1>9
    <2> QED BY <1>10, <1>16, <2>1
  <1>19. i \in Ends(z) BY <1>6, <1>17, <1>18, EndsAt DEF m
  <1>20. i > Len(U)
    <2>1. \A l \in Nat : l \in Ends(U) <=> l \in Ends(z) /\ l <= Len(U)
      BY <1>1, EndsConcat DEF z
    <2>2. ~(i <= Len(U)) BY <1>1, <1>9, <1>19, <2>1
    <2> QED BY <1>5, <1>9, <2>2
  <1> DEFINE k == Len(U) - i + m
  <1>21. k \in 1 .. m - 1 /\ k \in Nat /\ k <= Len(U) /\ k > Len(h)
    BY <1>2, <1>5, <1>9, <1>12, <1>20
  <1>22. \A j \in 1 .. k : U[Len(U) - k + j] = Secret[j]
    <2> TAKE j \in 1 .. k
    <2>1. PICK l \in 1 .. Len(U) : l = i - m + j
      <3>1. i - m + j \in 1 .. Len(U) BY <1>2, <1>5, <1>9, <1>21
      <3> QED BY <3>1
    <2>2. Len(U) - k + j = l BY <1>2, <1>5, <1>9, <2>1
    <2>3. j \in 1 .. m BY <1>2, <1>21
    <2>4. z[l] = U[l]
      BY <1>1, ConcatProperties DEF Texts, z
    <2>5. z[l] = Secret[j] BY <1>18, <2>1, <2>3
    <2> HIDE DEF k
    <2> QED BY <2>2, <2>4, <2>5
  <1> HIDE DEF k
  <1>23. k \in Beginnings(U) BY <1>1, <1>21, <1>22, BeginsAt DEF m
  <1>24. k <= Hold(U) BY <1>1, <1>23, HoldFacts
  <1> QED BY <1>1, <1>5, <1>21, <1>24

\* A step of the redactor: it shows one part of what it makes of what it held
\* and of what has come, and holds the other.
LEMMA RedactedStep ==
    ASSUME NEW u, NEW d, NEW h, Redacted(u, d, h), NEW v \in Seq(Chars),
           NEW t, t = Replace(h \o v), NEW k, k = Hold(t)
    PROVE  Redacted(u \o v, d \o SubSeq(t, 1, Len(t) - k),
                    SubSeq(t, Len(t) - k + 1, Len(t)))
  <1> DEFINE x == SubSeq(t, 1, Len(t) - k)
             g == SubSeq(t, Len(t) - k + 1, Len(t))
  <1>1. /\ d \in Texts /\ h \in Texts /\ v \in Texts /\ t \in Texts
        /\ h \o v \in Texts /\ u \o v \in Seq(Chars)
    BY RedactedFacts
  <1>2. /\ x \in Texts /\ g \in Seq(Chars) /\ g \in Texts /\ Len(g) = k /\ x \o g = t
    BY <1>1, HoldParts, SecretFacts
  <1> HIDE DEF x, g
  <1>3. PICK a \in Texts : h \o v = a \o g /\ Replace(a) = x
    <2> DEFINE y == h \o v
    <2>1. y \in Texts /\ Cut(Replace(y), x, g) BY <1>1, <1>2 DEF Cut
    <2> HIDE DEF y
    <2>2. \E a \in Texts : Cut(y, a, g) /\ Replace(a) = x
      BY <1>2, <2>1, HeldRaw
    <2> QED BY <2>2 DEF Cut, y
  <1>4. PICK b \in Texts : u = b \o h /\ d \in Maskings(b) BY DEF Redacted
  <1>5. u \o v = (b \o a) \o g
    <2>0. h \in Texts /\ v \in Texts BY <1>1
    <2>1. (b \o h) \o v = b \o (h \o v) BY <2>0, TextsAssoc
    <2>2. (b \o a) \o g = b \o (a \o g) BY <1>2, TextsConcat
    <2> QED BY <1>3, <1>4, <2>1, <2>2
  <1>6. b \o a \in Texts BY TextsConcat
  <1>7. d \o x \in Maskings(b \o a)
    <2>1. x \in Maskings(a) BY <1>3, MaskingsHave
    <2> QED BY <1>4, <2>1, MaskingsConcat
  <1>8. (d \o x) \o g = d \o t
    <2>1. d \in Texts /\ x \in Texts /\ g \in Texts BY <1>1, <1>2
    <2>2. (d \o x) \o g = d \o (x \o g) BY <2>1, TextsAssoc
    <2> QED BY <1>2, <2>2
  <1>9. Len(g) = Hold((d \o x) \o g) BY <1>2, <1>8, SameHold
  <1>10. Ends((d \o x) \o g) = {} BY <1>8, Hides
  <1>11. d \o x \in Texts BY <1>1, <1>2, TextsConcat
  <1>12. Redacted(u \o v, d \o x, g)
    BY <1>1, <1>2, <1>5, <1>6, <1>7, <1>9, <1>10, <1>11 DEF Redacted
  <1> QED BY <1>12 DEF x, g

----------------------------------------------------------------------------
(* The folds, step by step. *)

\* The folds take the places of a sequence from the last to the first.
LEMMA GreatestOfInterval ==
    ASSUME NEW k \in Nat, k > 0
    PROVE  Max(1 .. k) = k /\ (1 .. k) \ {k} = 1 .. k - 1
  <1>1. Max(1 .. k) \in 1 .. k /\ \A y \in 1 .. k : Max(1 .. k) >= y
    <2>1. 1 .. k \in SUBSET (1 .. k) /\ k \in 1 .. k OBVIOUS
    <2>2. 1 .. k # {} BY <2>1
    <2> QED BY <2>1, <2>2, Greatest
  <1> QED BY <1>1

\* o gives a step for each place up to n and each value in P.
Closed(o, n, P) == \A k \in 1 .. n, x \in P : o[<<k, x>>] \in P

\* f takes the steps of o from b,
Takes(f, o, n, P, b) ==
    /\ f \in [SUBSET (1 .. n) -> P]
    /\ \A s \in SUBSET (1 .. n) :
          f[s] = IF s = {} THEN b ELSE o[<<Max(s), f[s \ {Max(s)}]>>]

\* and so does g as far as it stays in P.
Follows(g, o, n, P, b) ==
    /\ g[{}] = b
    /\ \A s \in SUBSET (1 .. n) :
          s # {} /\ g[s \ {Max(s)}] \in P => g[s] = o[<<Max(s), g[s \ {Max(s)}]>>]

\* h is what they come to, place after place, and v is the last.
Runs(h, o, n, P, b, v) ==
    /\ h \in [0 .. n -> P] /\ h[0] = b /\ h[n] = v
    /\ \A k \in 1 .. n : h[k] = o[<<k, h[k - 1]>>]

\* A step is defined on what is left when the greatest is taken away: there
\* is a function that takes the steps.
LEMMA StepsExist ==
    ASSUME NEW n \in Nat, NEW P, NEW b \in P, NEW o, Closed(o, n, P)
    PROVE  \E f : Takes(f, o, n, P, b)
  <1> USE DEF Closed
  <1> DEFINE Step(f, s) == IF s = {} THEN b ELSE o[<<Max(s), f[s \ {Max(s)}]>>]
             F == [SUBSET (1 .. n) -> P]
             T == {k \in 0 .. n :
                      \E f \in F : \A s \in SUBSET (1 .. k) : f[s] = Step(f, s)}
  <1>1. 0 \in T
    <2> DEFINE f == [s \in SUBSET (1 .. n) |-> b]
    <2>1. f \in F OBVIOUS
    <2>2. \A s \in SUBSET (1 .. 0) : s = {} /\ s \in SUBSET (1 .. n) OBVIOUS
    <2>3. \A s \in SUBSET (1 .. 0) : f[s] = Step(f, s) BY <2>2
    <2>4. 0 \in 0 .. n OBVIOUS
    <2> HIDE DEF f, F, Step
    <2> QED BY <2>1, <2>3, <2>4
  <1>2. ASSUME NEW j \in 1 .. n, j - 1 \in T PROVE j \in T
    <2> DEFINE k == j - 1
    <2>0. k \in 0 .. n - 1 /\ j = k + 1 OBVIOUS
    <2>1. PICK f \in F : \A s \in SUBSET (1 .. k) : f[s] = Step(f, s)
      BY <1>2
    <2> HIDE DEF k
    <2> DEFINE g == [s \in SUBSET (1 .. n) |->
                        IF s \subseteq 1 .. k THEN f[s] ELSE Step(f, s)]
    <2>2. \A s \in SUBSET (1 .. n) : s # {} =>
             /\ Max(s) \in s /\ \A y \in s : Max(s) >= y
             /\ Max(s) \in 1 .. n
             /\ s \ {Max(s)} \in SUBSET (1 .. n)
      BY Greatest
    <2>3. \A s \in SUBSET (1 .. n) : Step(f, s) \in P
      BY <2>2
    <2>4. g \in F BY <2>3
    <2>5. ASSUME NEW s \in SUBSET (1 .. k + 1) PROVE g[s] = Step(g, s)
      <3>0. s \in SUBSET (1 .. n) BY <2>0
      <3>1. CASE s = {}
        <4>1. g[s] = f[s] /\ f[s] = b BY <2>1, <3>0, <3>1
        <4> QED BY <4>1, <3>1
      <3>2. CASE s # {}
        <4> DEFINE t == s \ {Max(s)}
        <4>1. t \in SUBSET (1 .. k)
          BY <2>0, <2>2, <3>0, <3>2
        <4>2. t \in SUBSET (1 .. n) /\ g[t] = f[t] BY <2>0, <4>1
        <4>3. g[s] = Step(f, s)
          <5>1. CASE s \subseteq 1 .. k BY <2>1, <3>0, <5>1
          <5>2. CASE ~(s \subseteq 1 .. k) BY <3>0, <5>2
          <5> QED BY <5>1, <5>2
        <4> QED BY <3>2, <4>2, <4>3
      <3> QED BY <3>1, <3>2
    <2>6. j \in 0 .. n /\ j = k + 1 BY <2>0
    <2> HIDE DEF g, F, Step
    <2> QED BY <2>4, <2>5, <2>6
  <1>3. \A k \in 0 .. n : k \in T
    <2> HIDE DEF T
    <2> QED BY <1>1, <1>2, UpTo
  <1>4. n \in T
    <2>1. n \in 0 .. n OBVIOUS
    <2> HIDE DEF T
    <2> QED BY <1>3, <2>1
  <1>5. PICK f \in F : \A s \in SUBSET (1 .. n) : f[s] = Step(f, s)
    <2> HIDE DEF F, Step
    <2> QED BY <1>4
  <1> QED BY <1>5 DEF Takes

\* A function that takes them goes through the intervals from one.
LEMMA StepsOf ==
    ASSUME NEW n \in Nat, NEW P, NEW b \in P, NEW o, Closed(o, n, P),
           NEW g, Follows(g, o, n, P, b)
    PROVE  \E h : Runs(h, o, n, P, b, g[1 .. n])
  <1> USE DEF Closed, Follows
  <1> DEFINE T == {k \in 0 .. n : g[1 .. k] \in P}
             h == [k \in 0 .. n |-> g[1 .. k]]
  <1>1. \A k \in 1 .. n : g[1 .. k - 1] \in P =>
                              g[1 .. k] = o[<<k, g[1 .. k - 1]>>]
    <2> TAKE k \in 1 .. n
    <2>1. 1 .. k \in SUBSET (1 .. n) /\ k \in 1 .. k /\ k \in Nat /\ k > 0
      OBVIOUS
    <2>2. 1 .. k # {} BY <2>1
    <2>3. Max(1 .. k) = k /\ (1 .. k) \ {k} = 1 .. k - 1
      BY <2>1, GreatestOfInterval
    <2> QED BY <2>1, <2>2, <2>3
  <1>2. 1 .. 0 = {} OBVIOUS
  <1>3. 0 \in T BY <1>2
  <1>4. \A k \in 1 .. n : k - 1 \in T => k \in T
    <2> TAKE k \in 1 .. n
    <2> HAVE k - 1 \in T
    <2>1. k \in 0 .. n OBVIOUS
    <2>2. g[1 .. k] = o[<<k, g[1 .. k - 1]>>] BY <1>1
    <2> QED BY <2>1, <2>2
  <1>5. \A k \in 0 .. n : g[1 .. k] \in P
    <2>1. \A k \in 0 .. n : k \in T
      <3> HIDE DEF T
      <3> QED BY <1>3, <1>4, UpTo
    <2> QED BY <2>1
  <1>6. \A k \in 1 .. n : k - 1 \in 0 .. n /\ k \in 0 .. n OBVIOUS
  <1>7. h \in [0 .. n -> P] BY <1>5
  <1>8. \A k \in 1 .. n : h[k] = o[<<k, h[k - 1]>>] BY <1>1, <1>5, <1>6
  <1>9. h[0] = b /\ h[n] = g[1 .. n] BY <1>2
  <1> HIDE DEF h
  <1> QED BY <1>7, <1>8, <1>9 DEF Runs

\* The folds of the model, from any start.
Redacting(b, events) == FoldLeft(RedactEvent, b, events)
Committing(s, b, indexes) == FoldLeft(LAMBDA t, i : CommitCall(s, t, i), b, indexes)

\* What each of them comes to, step by step.
LEMMA RedactRuns ==
    ASSUME NEW P, NEW E, NEW b \in P, NEW seq \in Seq(E),
           \A x \in P, e \in E : RedactEvent(x, e) \in P
    PROVE  \E h \in [0 .. Len(seq) -> P] :
               /\ h[0] = b /\ h[Len(seq)] = Redacting(b, seq)
               /\ \A k \in 1 .. Len(seq) : h[k] = RedactEvent(h[k - 1], seq[k])
  <1> DEFINE n == Len(seq)
             o == [q \in (1 .. n) \X P |-> RedactEvent(q[2], seq[q[1]])]
             G(g) == [s \in SUBSET DOMAIN seq |->
                         IF s = {} THEN b
                         ELSE RedactEvent(g[s \ {Max(s)}], seq[Max(s)])]
             g == CHOOSE f : f = G(f)
  <1>1. n \in Nat /\ DOMAIN seq = 1 .. n /\ \A k \in 1 .. n : seq[k] \in E
    BY LenProperties, ElementOfSeq
  <1>2. \A k \in 1 .. n, x \in P :
            /\ o[<<k, x>>] = RedactEvent(x, seq[k]) /\ o[<<k, x>>] \in P
    BY <1>1
  <1>c. Closed(o, n, P) BY <1>2 DEF Closed
  <1>3. \A s \in SUBSET (1 .. n) : s # {} =>
            Max(s) \in 1 .. n /\ s \ {Max(s)} \in SUBSET (1 .. n)
    BY <1>1, Greatest
  <1>4. \E f : f = G(f)
    <2>1. PICK f : Takes(f, o, n, P, b)
      <3> HIDE DEF o, n
      <3> QED BY <1>1, <1>c, StepsExist
    <2>2. \A s \in SUBSET (1 .. n) : s # {} =>
              f[s] = RedactEvent(f[s \ {Max(s)}], seq[Max(s)])
      <3> HIDE DEF o, n
      <3> QED BY <1>2, <1>3, <2>1 DEF Takes
    <2>3. \A s \in SUBSET (1 .. n) : f[s] = G(f)[s]
      <3> HIDE DEF o, n
      <3> QED BY <1>1, <2>1, <2>2 DEF Takes
    <2>4. f = [s \in SUBSET (1 .. n) |-> f[s]] BY <2>1 DEF Takes
    <2>5. G(f) = [s \in SUBSET (1 .. n) |-> G(f)[s]] BY <1>1
    <2>6. f = G(f)
      <3> HIDE DEF G, o, n
      <3> QED BY <2>3, <2>4, <2>5
    <2> QED BY <2>6
  <1>5. g = G(g)
    <2> HIDE DEF G
    <2> QED BY <1>4
  <1>6. Redacting(b, seq) = g[1 .. n]
    BY <1>1 DEF Redacting, FoldLeft, MapThenFoldSet
  <1>7. g[{}] = b /\ \A s \in SUBSET (1 .. n) : s # {} =>
            g[s] = RedactEvent(g[s \ {Max(s)}], seq[Max(s)])
    <2> HIDE DEF g
    <2>1. \A s \in SUBSET (1 .. n) : g[s] = G(g)[s] BY <1>5
    <2>2. {} \in SUBSET (1 .. n) OBVIOUS
    <2> HIDE DEF n, o
    <2> QED BY <1>1, <2>1, <2>2
  <1>8. Follows(g, o, n, P, b)
    <2> HIDE DEF g, o, n
    <2> QED BY <1>2, <1>3, <1>7 DEF Follows
  <1>9. PICK h : Runs(h, o, n, P, b, g[1 .. n])
    <2> HIDE DEF g, o, n
    <2> QED BY <1>1, <1>c, <1>8, StepsOf
  <1>10. \A k \in 1 .. n : h[k] = RedactEvent(h[k - 1], seq[k])
    <2>1. \A k \in 1 .. n : h[k - 1] \in P
      <3>1. \A k \in 1 .. n : k - 1 \in 0 .. n BY <1>1
      <3> HIDE DEF n, o, g
      <3> QED BY <1>9, <3>1 DEF Runs
    <2> HIDE DEF g, o, n
    <2> QED BY <1>2, <1>9, <2>1 DEF Runs
  <1> HIDE DEF g, o
  <1> QED BY <1>6, <1>9, <1>10 DEF Runs

\* The calls are committed one by one.
LEMMA CommitRuns ==
    ASSUME NEW S0, NEW P, NEW E, NEW b \in P, NEW seq \in Seq(E),
           \A x \in P, e \in E : CommitCall(S0, x, e) \in P
    PROVE  \E h \in [0 .. Len(seq) -> P] :
               /\ h[0] = b /\ h[Len(seq)] = Committing(S0, b, seq)
               /\ \A k \in 1 .. Len(seq) : h[k] = CommitCall(S0, h[k - 1], seq[k])
  <1> DEFINE n == Len(seq)
             o == [q \in (1 .. n) \X P |-> CommitCall(S0, q[2], seq[q[1]])]
             G(g) == [s \in SUBSET DOMAIN seq |->
                         IF s = {} THEN b
                         ELSE CommitCall(S0, g[s \ {Max(s)}], seq[Max(s)])]
             g == CHOOSE f : f = G(f)
  <1>1. n \in Nat /\ DOMAIN seq = 1 .. n /\ \A k \in 1 .. n : seq[k] \in E
    BY LenProperties, ElementOfSeq
  <1>2. \A k \in 1 .. n, x \in P :
            /\ o[<<k, x>>] = CommitCall(S0, x, seq[k]) /\ o[<<k, x>>] \in P
    BY <1>1
  <1>c. Closed(o, n, P) BY <1>2 DEF Closed
  <1>3. \A s \in SUBSET (1 .. n) : s # {} =>
            Max(s) \in 1 .. n /\ s \ {Max(s)} \in SUBSET (1 .. n)
    BY <1>1, Greatest
  <1>4. \E f : f = G(f)
    <2>1. PICK f : Takes(f, o, n, P, b)
      <3> HIDE DEF o, n
      <3> QED BY <1>1, <1>c, StepsExist
    <2>2. \A s \in SUBSET (1 .. n) : s # {} =>
              f[s] = CommitCall(S0, f[s \ {Max(s)}], seq[Max(s)])
      <3> HIDE DEF o, n
      <3> QED BY <1>2, <1>3, <2>1 DEF Takes
    <2>3. \A s \in SUBSET (1 .. n) : f[s] = G(f)[s]
      <3> HIDE DEF o, n
      <3> QED BY <1>1, <2>1, <2>2 DEF Takes
    <2>4. f = [s \in SUBSET (1 .. n) |-> f[s]] BY <2>1 DEF Takes
    <2>5. G(f) = [s \in SUBSET (1 .. n) |-> G(f)[s]] BY <1>1
    <2>6. f = G(f)
      <3> HIDE DEF G, o, n
      <3> QED BY <2>3, <2>4, <2>5
    <2> QED BY <2>6
  <1>5. g = G(g)
    <2> HIDE DEF G
    <2> QED BY <1>4
  <1>6. Committing(S0, b, seq) = g[1 .. n]
    BY <1>1 DEF Committing, FoldLeft, MapThenFoldSet
  <1>7. g[{}] = b /\ \A s \in SUBSET (1 .. n) : s # {} =>
            g[s] = CommitCall(S0, g[s \ {Max(s)}], seq[Max(s)])
    <2> HIDE DEF g
    <2>1. \A s \in SUBSET (1 .. n) : g[s] = G(g)[s] BY <1>5
    <2>2. {} \in SUBSET (1 .. n) OBVIOUS
    <2> HIDE DEF n, o
    <2> QED BY <1>1, <2>1, <2>2
  <1>8. Follows(g, o, n, P, b)
    <2> HIDE DEF g, o, n
    <2> QED BY <1>2, <1>3, <1>7 DEF Follows
  <1>9. PICK h : Runs(h, o, n, P, b, g[1 .. n])
    <2> HIDE DEF g, o, n
    <2> QED BY <1>1, <1>c, <1>8, StepsOf
  <1>10. \A k \in 1 .. n : h[k] = CommitCall(S0, h[k - 1], seq[k])
    <2>1. \A k \in 1 .. n : h[k - 1] \in P
      <3>1. \A k \in 1 .. n : k - 1 \in 0 .. n BY <1>1
      <3> HIDE DEF n, o, g
      <3> QED BY <1>9, <3>1 DEF Runs
    <2> HIDE DEF g, o, n
    <2> QED BY <1>2, <1>9, <2>1 DEF Runs
  <1> HIDE DEF g, o
  <1> QED BY <1>6, <1>9, <1>10 DEF Runs

\* The lines are consumed one by one.
LEMMA ConsumeRuns ==
    ASSUME NEW P, NEW E, NEW b \in P, NEW seq \in Seq(E),
           \A x \in P, e \in E : ConsumeLine(x, e) \in P
    PROVE  \E h \in [0 .. Len(seq) -> P] :
               /\ h[0] = b /\ h[Len(seq)] = Consume(b, seq)
               /\ \A k \in 1 .. Len(seq) : h[k] = ConsumeLine(h[k - 1], seq[k])
  <1> DEFINE n == Len(seq)
             o == [q \in (1 .. n) \X P |-> ConsumeLine(q[2], seq[q[1]])]
             G(g) == [s \in SUBSET DOMAIN seq |->
                         IF s = {} THEN b
                         ELSE ConsumeLine(g[s \ {Max(s)}], seq[Max(s)])]
             g == CHOOSE f : f = G(f)
  <1>1. n \in Nat /\ DOMAIN seq = 1 .. n /\ \A k \in 1 .. n : seq[k] \in E
    BY LenProperties, ElementOfSeq
  <1>2. \A k \in 1 .. n, x \in P :
            /\ o[<<k, x>>] = ConsumeLine(x, seq[k]) /\ o[<<k, x>>] \in P
    BY <1>1
  <1>c. Closed(o, n, P) BY <1>2 DEF Closed
  <1>3. \A s \in SUBSET (1 .. n) : s # {} =>
            Max(s) \in 1 .. n /\ s \ {Max(s)} \in SUBSET (1 .. n)
    BY <1>1, Greatest
  <1>4. \E f : f = G(f)
    <2>1. PICK f : Takes(f, o, n, P, b)
      <3> HIDE DEF o, n
      <3> QED BY <1>1, <1>c, StepsExist
    <2>2. \A s \in SUBSET (1 .. n) : s # {} =>
              f[s] = ConsumeLine(f[s \ {Max(s)}], seq[Max(s)])
      <3> HIDE DEF o, n
      <3> QED BY <1>2, <1>3, <2>1 DEF Takes
    <2>3. \A s \in SUBSET (1 .. n) : f[s] = G(f)[s]
      <3> HIDE DEF o, n
      <3> QED BY <1>1, <2>1, <2>2 DEF Takes
    <2>4. f = [s \in SUBSET (1 .. n) |-> f[s]] BY <2>1 DEF Takes
    <2>5. G(f) = [s \in SUBSET (1 .. n) |-> G(f)[s]] BY <1>1
    <2>6. f = G(f)
      <3> HIDE DEF G, o, n
      <3> QED BY <2>3, <2>4, <2>5
    <2> QED BY <2>6
  <1>5. g = G(g)
    <2> HIDE DEF G
    <2> QED BY <1>4
  <1>6. Consume(b, seq) = g[1 .. n]
    BY <1>1 DEF Consume, FoldLeft, MapThenFoldSet
  <1>7. g[{}] = b /\ \A s \in SUBSET (1 .. n) : s # {} =>
            g[s] = ConsumeLine(g[s \ {Max(s)}], seq[Max(s)])
    <2> HIDE DEF g
    <2>1. \A s \in SUBSET (1 .. n) : g[s] = G(g)[s] BY <1>5
    <2>2. {} \in SUBSET (1 .. n) OBVIOUS
    <2> HIDE DEF n, o
    <2> QED BY <1>1, <2>1, <2>2
  <1>8. Follows(g, o, n, P, b)
    <2> HIDE DEF g, o, n
    <2> QED BY <1>2, <1>3, <1>7 DEF Follows
  <1>9. PICK h : Runs(h, o, n, P, b, g[1 .. n])
    <2> HIDE DEF g, o, n
    <2> QED BY <1>1, <1>c, <1>8, StepsOf
  <1>10. \A k \in 1 .. n : h[k] = ConsumeLine(h[k - 1], seq[k])
    <2>1. \A k \in 1 .. n : h[k - 1] \in P
      <3>1. \A k \in 1 .. n : k - 1 \in 0 .. n BY <1>1
      <3> HIDE DEF n, o, g
      <3> QED BY <1>9, <3>1 DEF Runs
    <2> HIDE DEF g, o, n
    <2> QED BY <1>2, <1>9, <2>1 DEF Runs
  <1> HIDE DEF g, o
  <1> QED BY <1>6, <1>9, <1>10 DEF Runs

----------------------------------------------------------------------------
(* Events, and the text of a queue. *)

Calls == [kind : {"call"}, index : Indexes]

Channels == {"answer", "reasoning"}

\* The events the adapter queues, and those it makes of the provider's.
Events == [kind : {"text"}, on : Channels, s : Texts] \cup Calls
              \cup {Completed, Failed, Cancelled}

\* Events before they are redacted.
Incoming ==
    [kind : {"text"}, on : Channels, s : Seq(Chars)] \cup Calls
        \cup {Completed, Failed, Cancelled}

\* The kind of an event tells which event it is.
LEMMA EventKinds ==
    ASSUME NEW e \in Events
    PROVE  /\ e.kind \in {"text", "call", "completed", "failed", "cancelled"}
           /\ e.kind = "text" => e.s \in Texts
           /\ e.kind = "call" => e \in Calls /\ e.index \in Indexes /\ e = Call(e.index)
           /\ e.kind = "completed" <=> e = Completed
           /\ e.kind = "failed" <=> e = Failed
           /\ e.kind = "cancelled" <=> e = Cancelled
  <1>1. CASE e \in [kind : {"text"}, on : Channels, s : Texts]
    BY <1>1 DEF Completed, Failed, Cancelled
  <1>2. CASE e \in Calls
    BY <1>2 DEF Calls, Call, Completed, Failed, Cancelled
  <1>3. CASE e \in {Completed, Failed, Cancelled}
    BY <1>3 DEF Completed, Failed, Cancelled
  <1> QED BY <1>1, <1>2, <1>3 DEF Events

\* The events of the assembler are events of the queue.
LEMMA IncomingEvents ==
    /\ Incoming \subseteq Events
    /\ \A e \in Incoming : e.kind = "text" => e.s \in Seq(Chars) /\ e.on \in Channels
    /\ \A c \in Channels, s \in Texts :
          Text(c, s) \in Events /\ Text(c, s).kind = "text" /\ Text(c, s).s = s
    /\ Deltas \subseteq Incoming /\ \A e \in Deltas : e.kind = "text"
    /\ \A i \in Indexes : /\ Call(i) \in Incoming /\ Call(i).kind = "call"
                          /\ Call(i).index = i
    /\ {Completed, Failed, Cancelled} \subseteq Incoming
    /\ Completed.kind = "completed" /\ Failed.kind = "failed"
    /\ Cancelled.kind = "cancelled"
  <1>1. \A e \in [kind : {"text"}, on : Channels, s : Seq(Chars)] :
            e \in [kind : {"text"}, on : Channels, s : Texts]
    BY SecretFacts
  <1>2. Incoming \subseteq Events BY <1>1 DEF Incoming, Events
  <1>3. \A e \in Incoming : e.kind = "text" => e.s \in Seq(Chars) /\ e.on \in Channels
    BY DEF Incoming, Calls, Completed, Failed, Cancelled
  <1>4. \A c \in Channels, s \in Texts :
            Text(c, s) \in Events /\ Text(c, s).kind = "text" /\ Text(c, s).s = s
    BY DEF Events, Text
  <1>5. Deltas \subseteq Incoming /\ \A e \in Deltas : e.kind = "text"
    BY StreamAssumption DEF Incoming, Channels
  <1>6. \A i \in Indexes : /\ Call(i) \in Incoming /\ Call(i).kind = "call"
                           /\ Call(i).index = i
    BY DEF Incoming, Calls, Call
  <1>7. /\ {Completed, Failed, Cancelled} \subseteq Incoming
        /\ Completed.kind = "completed" /\ Failed.kind = "failed"
        /\ Cancelled.kind = "cancelled"
    BY DEF Incoming, Completed, Failed, Cancelled
  <1> QED BY <1>2, <1>3, <1>4, <1>5, <1>6, <1>7

\* What an event says is a text.
LEMMA SaidType ==
    /\ \A e \in Events : Said(e) \in Texts /\ (e.kind # "text" => Said(e) = << >>)
    /\ \A e \in Incoming : Said(e) \in Seq(Chars)
  BY EventKinds, IncomingEvents, TextsConcat, EmptySeq DEF Said

\* What each event of q says.
Sayings(q) == [i \in 1 .. Len(q) |-> Said(q[i])]

\* TextOf puts together what the events say.
LEMMA SayingsType ==
    ASSUME NEW q \in Seq(Events)
    PROVE  /\ Sayings(q) \in Seq(Texts) /\ Len(Sayings(q)) = Len(q)
           /\ \A i \in 1 .. Len(q) : Sayings(q)[i] = Said(q[i])
           /\ TextOf(q) = FlattenSeq(Sayings(q))
  <1>1. Len(q) \in Nat /\ \A i \in 1 .. Len(q) : q[i] \in Events
    BY LenProperties, ElementOfSeq
  <1>2. Sayings(q) \in [1 .. Len(q) -> Texts] BY <1>1, SaidType DEF Sayings
  <1>3. Sayings(q) \in Seq(Texts) /\ Len(Sayings(q)) = Len(q)
    <2> DEFINE M == Sayings(q)  n == Len(q)
    <2>1. M \in [1 .. n -> Texts] /\ n \in Nat BY <1>1, <1>2
    <2> HIDE DEF M, n
    <2>2. M \in Seq(Texts) /\ Len(M) = n BY <2>1
    <2> QED BY <2>2 DEF M, n
  <1>4. \A i \in 1 .. Len(q) : Sayings(q)[i] = Said(q[i]) BY DEF Sayings
  <1> QED BY <1>3, <1>4 DEF TextOf, Sayings

\* What a sequence of events says, piece by piece.
LEMMA TextOfConcat ==
    ASSUME NEW q \in Seq(Events), NEW r \in Seq(Events)
    PROVE  TextOf(q \o r) = TextOf(q) \o TextOf(r)
  <1> DEFINE A == Sayings(q)  B == Sayings(r)  M == Sayings(q \o r)
             m == Len(q)  n == Len(r)
  <1>1. /\ q \o r \in Seq(Events) /\ Len(q \o r) = m + n /\ m \in Nat /\ n \in Nat
        /\ \A i \in 1 .. m + n : (q \o r)[i] = IF i <= m THEN q[i] ELSE r[i - m]
    BY ConcatProperties, LenProperties
  <1>2. /\ A \in Seq(Texts) /\ Len(A) = m /\ \A i \in 1 .. m : A[i] = Said(q[i])
        /\ B \in Seq(Texts) /\ Len(B) = n /\ \A i \in 1 .. n : B[i] = Said(r[i])
        /\ TextOf(q) = FlattenSeq(A) /\ TextOf(r) = FlattenSeq(B)
    BY SayingsType
  <1>3. /\ M \in Seq(Texts) /\ Len(M) = m + n
        /\ \A i \in 1 .. m + n : M[i] = Said((q \o r)[i])
        /\ TextOf(q \o r) = FlattenSeq(M)
    BY <1>1, SayingsType
  <1> HIDE DEF A, B, M, m, n
  <1>4. /\ A \o B \in Seq(Texts) /\ Len(A \o B) = m + n
        /\ \A i \in 1 .. m + n : (A \o B)[i] = IF i <= m THEN A[i] ELSE B[i - m]
    <2>1. /\ A \o B \in Seq(Texts) /\ Len(A \o B) = Len(A) + Len(B)
          /\ \A i \in 1 .. Len(A) + Len(B) :
                 (A \o B)[i] = IF i <= Len(A) THEN A[i] ELSE B[i - Len(A)]
      BY <1>2, ConcatProperties
    <2> QED BY <1>2, <2>1
  <1>5. \A i \in 1 .. m + n : M[i] = (A \o B)[i]
    <2> TAKE i \in 1 .. m + n
    <2>1. CASE i <= m
      <3>1. i \in 1 .. m BY <1>1, <2>1
      <3> QED BY <1>1, <1>2, <1>3, <1>4, <2>1, <3>1
    <2>2. CASE ~(i <= m)
      <3>1. i - m \in 1 .. n BY <1>1, <2>2
      <3> QED BY <1>1, <1>2, <1>3, <1>4, <2>2, <3>1
    <2> QED BY <2>1, <2>2
  <1>6. M = A \o B BY <1>3, <1>4, <1>5, SeqEqual
  <1> QED BY <1>2, <1>3, <1>6, FlatTexts

\* A queue says a text,
LEMMA TextOfType ==
    ASSUME NEW q \in Seq(Events) PROVE TextOf(q) \in Texts
  BY SayingsType, FlatTexts, EmptySeq

\* without a marker before it is redacted;
LEMMA TextOfIncoming ==
    ASSUME NEW q \in Seq(Incoming)
    PROVE  TextOf(q) \in Seq(Chars) /\ q \in Seq(Events)
  <1>1. Len(q) \in Nat /\ \A i \in 1 .. Len(q) : q[i] \in Incoming
    BY LenProperties, ElementOfSeq
  <1> DEFINE M == Sayings(q)  n == Len(q)  S == Seq(Chars)
  <1>2. M \in [1 .. n -> S] /\ n \in Nat BY <1>1, SaidType DEF Sayings
  <1>3. TextOf(q) = FlattenSeq(M) BY DEF TextOf, Sayings
  <1>4. M \in Seq(S)
    <2> HIDE DEF M, n, S
    <2> QED BY <1>2
  <1>5. FlattenSeq(M) \in S
    <2> HIDE DEF M
    <2> QED BY <1>4, FlatType
  <1>6. q \in Seq(Events) BY IncomingEvents, SeqMonotonic
  <1> QED BY <1>3, <1>5, <1>6

\* an empty one nothing,
LEMMA TextOfEmpty == TextOf(<< >>) = << >>
  <1>1. << >> \in Seq(Events) /\ Len(<< >>) = 0 BY EmptySeq
  <1>2. Sayings(<< >>) \in Seq(Texts) /\ Len(Sayings(<< >>)) = 0
    BY <1>1, SayingsType
  <1>3. Sayings(<< >>) = << >>
    <2> DEFINE M == Sayings(<< >>)
    <2> HIDE DEF M
    <2>1. M \in Seq(Texts) /\ Len(M) = 0 BY <1>2 DEF M
    <2>2. M = << >> BY <2>1, EmptySeq
    <2> QED BY <2>2 DEF M
  <1> QED BY <1>1, <1>3, SayingsType, FlatEmpty

\* and one more event what it says at the end.
LEMMA TextOfAppend ==
    ASSUME NEW q \in Seq(Events), NEW e \in Events
    PROVE  /\ TextOf(Append(q, e)) = TextOf(q) \o Said(e)
           /\ TextOf(<<e>>) = Said(e)
  <1>1. <<e>> \in Seq(Events) /\ Len(<<e>>) = 1 /\ <<e>>[1] = e OBVIOUS
  <1>2. TextOf(<<e>>) = Said(e)
    <2> DEFINE M == Sayings(<<e>>)  s == Said(e)
    <2>1. M \in Seq(Texts) /\ Len(M) = 1 /\ M[1] = s /\ TextOf(<<e>>) = FlattenSeq(M)
      <3> DEFINE p == <<e>>
      <3>1. p \in Seq(Events) /\ Len(p) = 1 /\ p[1] = e BY <1>1
      <3> HIDE DEF p
      <3>2. /\ Sayings(p) \in Seq(Texts) /\ Len(Sayings(p)) = 1
            /\ Sayings(p)[1] = s /\ TextOf(p) = FlattenSeq(Sayings(p))
        BY <3>1, SayingsType
      <3> QED BY <3>2 DEF p
    <2>2. s \in Texts BY SaidType
    <2> HIDE DEF M, s
    <2>3. M = <<s>>
      <3>1. <<s>> \in Seq(Texts) /\ Len(<<s>>) = 1 /\ <<s>>[1] = s BY <2>2
      <3>2. Len(M) = Len(<<s>>) /\ \A i \in 1 .. Len(M) : M[i] = <<s>>[i]
        BY <2>1, <3>1
      <3> QED BY <2>1, <3>1, <3>2, SeqEqual
    <2>4. FlattenSeq(<<s>>) = s BY <2>2, FlatOne DEF Texts
    <2> QED BY <2>1, <2>3, <2>4 DEF s
  <1>3. TextOf(q \o <<e>>) = TextOf(q) \o TextOf(<<e>>) BY <1>1, TextOfConcat
  <1>4. Append(q, e) = q \o <<e>> BY AppendIsConcat
  <1> QED BY <1>2, <1>3, <1>4

\* What its first k say.
TextTo(q, k) == TextOf(SubSeq(q, 1, k))

\* The first k of a sequence.
LEMMA FirstOnes ==
    ASSUME NEW X, NEW q \in Seq(X), NEW k \in 0 .. Len(q)
    PROVE  /\ SubSeq(q, 1, k) \in Seq(X) /\ Len(SubSeq(q, 1, k)) = k
           /\ \A i \in 1 .. k : SubSeq(q, 1, k)[i] = q[i]
  <1>1. 1 \in 1 .. Len(q) + 1 /\ k \in 1 - 1 .. Len(q) /\ k - 1 + 1 = k
    BY LenProperties
  <1>2. \A i \in 1 .. k : 1 + i - 1 = i OBVIOUS
  <1> QED BY <1>1, <1>2, Part

\* Two sequences whose first events are the same.
LEMMA SameFirstOnes ==
    ASSUME NEW X, NEW q \in Seq(X), NEW r \in Seq(X), NEW k \in 0 .. Len(q),
           k <= Len(r), \A i \in 1 .. k : q[i] = r[i]
    PROVE  SubSeq(q, 1, k) = SubSeq(r, 1, k)
  <1> DEFINE a == SubSeq(q, 1, k)  b == SubSeq(r, 1, k)
  <1>1. k \in 0 .. Len(r) BY LenProperties
  <1>2. a \in Seq(X) /\ Len(a) = k /\ \A i \in 1 .. k : a[i] = q[i] BY FirstOnes
  <1>3. b \in Seq(X) /\ Len(b) = k /\ \A i \in 1 .. k : b[i] = r[i]
    BY <1>1, FirstOnes
  <1> HIDE DEF a, b
  <1>4. a = b BY <1>2, <1>3, SeqEqual
  <1> QED BY <1>4 DEF a, b

\* The text of the first k events grows by what the next one says.
LEMMA TextToFacts ==
    ASSUME NEW q \in Seq(Events)
    PROVE  /\ TextTo(q, 0) = << >> /\ TextTo(q, Len(q)) = TextOf(q)
           /\ \A k \in 0 .. Len(q) : TextTo(q, k) \in Texts
           /\ \A k \in 1 .. Len(q) : TextTo(q, k) = TextTo(q, k - 1) \o Said(q[k])
  <1>1. Len(q) \in Nat /\ \A k \in 1 .. Len(q) : q[k] \in Events
    BY LenProperties, ElementOfSeq
  <1>2. TextTo(q, 0) = << >>
    <2>1. SubSeq(q, 1, 0) = << >> BY SubSeqEmpty
    <2> QED BY <2>1, TextOfEmpty DEF TextTo
  <1>3. TextTo(q, Len(q)) = TextOf(q) BY SubSeqFull DEF TextTo
  <1>4. \A k \in 0 .. Len(q) : TextTo(q, k) \in Texts
    BY FirstOnes, TextOfType DEF TextTo
  <1>5. \A k \in 1 .. Len(q) : TextTo(q, k) = TextTo(q, k - 1) \o Said(q[k])
    <2> TAKE k \in 1 .. Len(q)
    <2> DEFINE p == SubSeq(q, 1, k - 1)  r == SubSeq(q, 1, k)
    <2>1. k - 1 \in 0 .. Len(q) /\ k \in 0 .. Len(q) BY <1>1
    <2>2. p \in Seq(Events) /\ r \in Seq(Events) BY <2>1, FirstOnes
    <2>3. r = p \o <<q[k]>>
      <3>1. 1 \in 1 .. Len(q) /\ k \in 1 .. Len(q) BY <1>1
      <3> QED BY <3>1, SubSeqRecursiveSecond
    <2> HIDE DEF p, r
    <2>4. r = Append(p, q[k]) BY <1>1, <2>2, <2>3, AppendIsConcat
    <2>5. TextOf(r) = TextOf(p) \o Said(q[k]) BY <1>1, <2>2, <2>4, TextOfAppend
    <2> QED BY <2>5 DEF TextTo, p, r
  <1> QED BY <1>2, <1>3, <1>4, <1>5

\* An event that is appended leaves the text of those before it.
LEMMA TextToAppend ==
    ASSUME NEW q \in Seq(Events), NEW e \in Events
    PROVE  /\ \A k \in 0 .. Len(q) : TextTo(Append(q, e), k) = TextTo(q, k)
           /\ TextTo(Append(q, e), Len(q) + 1) = TextOf(q) \o Said(e)
  <1> DEFINE a == Append(q, e)
  <1>1. /\ a \in Seq(Events) /\ Len(a) = Len(q) + 1 /\ Len(q) \in Nat
        /\ \A i \in 1 .. Len(q) : a[i] = q[i]
    BY AppendProperties, LenProperties
  <1> HIDE DEF a
  <1>2. \A k \in 0 .. Len(q) : TextTo(a, k) = TextTo(q, k)
    <2> TAKE k \in 0 .. Len(q)
    <2>1. k <= Len(a) /\ \A i \in 1 .. k : q[i] = a[i] BY <1>1
    <2>2. SubSeq(q, 1, k) = SubSeq(a, 1, k) BY <1>1, <2>1, SameFirstOnes
    <2> QED BY <2>2 DEF TextTo
  <1>3. TextTo(a, Len(q) + 1) = TextOf(a) BY <1>1, TextToFacts
  <1> QED BY <1>2, <1>3, TextOfAppend DEF a

\* What the rest says when the first event has been taken.
LEMMA TextToTail ==
    ASSUME NEW q \in Seq(Events), q # << >>
    PROVE  /\ Head(q) \in Events /\ Tail(q) \in Seq(Events) /\ Head(q) = q[1]
           /\ Len(q) \in Nat /\ Len(q) > 0 /\ Len(Tail(q)) = Len(q) - 1
           /\ \A i \in 1 .. Len(q) - 1 : Tail(q)[i] = q[i + 1]
           /\ \A k \in 0 .. Len(q) - 1 :
                 TextTo(q, k + 1) = Said(Head(q)) \o TextTo(Tail(q), k)
           /\ TextOf(q) = Said(Head(q)) \o TextOf(Tail(q))
  <1> DEFINE h == Head(q)  t == Tail(q)  n == Len(q) - 1
  <1>1. /\ h \in Events /\ t \in Seq(Events) /\ Len(t) = n
        /\ \A i \in 1 .. Len(t) : t[i] = q[i + 1]
    BY HeadTailProperties
  <1>2. Len(q) \in Nat /\ Len(q) > 0 /\ n \in Nat /\ \A i \in 1 .. n : i + 1 \in 1 .. Len(q)
    BY EmptySeq
  <1>3. h = q[1] OBVIOUS
  <1> HIDE DEF h, t
  <1> DEFINE T == {k \in 0 .. n : TextTo(q, k + 1) = Said(h) \o TextTo(t, k)}
  <1>4. Said(h) \in Texts BY <1>1, SaidType
  <1>5. 0 \in T
    <2>1. 1 \in 1 .. Len(q) BY <1>2
    <2>2. TextTo(q, 1) = TextTo(q, 1 - 1) \o Said(q[1]) BY <2>1, TextToFacts
    <2>3. TextTo(q, 0) = << >> /\ TextTo(t, 0) = << >> BY <1>1, TextToFacts
    <2>4. TextTo(q, 0 + 1) = Said(h) \o TextTo(t, 0)
      <3>1. 1 - 1 = 0 /\ 0 + 1 = 1 OBVIOUS
      <3>2. TextTo(q, 1 - 1) = << >> BY <2>3, <3>1
      <3>3. TextTo(q, 1) = << >> \o Said(q[1]) BY <2>2, <3>2
      <3>4. TextTo(q, 1) = << >> \o Said(h) BY <1>3, <3>3
      <3>5. << >> \o Said(h) = Said(h) /\ Said(h) \o << >> = Said(h)
        BY <1>4, TextsConcat
      <3> QED BY <2>3, <3>1, <3>4, <3>5
    <2> QED BY <1>2, <2>4
  <1>6. ASSUME NEW k \in 1 .. n, k - 1 \in T PROVE k \in T
    <2>1. TextTo(q, (k - 1) + 1) = Said(h) \o TextTo(t, k - 1) BY <1>6
    <2>2. PICK c \in 1 .. Len(q) : c = k + 1 BY <1>2
    <2>3. TextTo(q, c) = TextTo(q, c - 1) \o Said(q[c]) BY TextToFacts
    <2>4. k \in 1 .. Len(t) /\ q[c] = t[k] BY <1>1, <2>2
    <2>5. TextTo(t, k) = TextTo(t, k - 1) \o Said(t[k]) BY <1>1, <2>4, TextToFacts
    <2>6. c - 1 = (k - 1) + 1 BY <2>2
    <2>7. TextTo(q, c) = (Said(h) \o TextTo(t, k - 1)) \o Said(t[k])
      BY <2>1, <2>3, <2>4, <2>6
    <2>8. TextTo(t, k - 1) \in Texts /\ Said(t[k]) \in Texts
      <3>1. k - 1 \in 0 .. Len(t) /\ t[k] \in Events BY <1>1, <2>4, ElementOfSeq
      <3> QED BY <1>1, <3>1, TextToFacts, SaidType
    <2>9. TextTo(q, c) = Said(h) \o (TextTo(t, k - 1) \o Said(t[k]))
      BY <1>4, <2>7, <2>8, TextsConcat
    <2>10. TextTo(q, k + 1) = Said(h) \o TextTo(t, k) BY <2>2, <2>5, <2>9
    <2>11. k \in 0 .. n OBVIOUS
    <2> QED BY <2>10, <2>11
  <1>7. \A k \in 0 .. n : k \in T
    <2> HIDE DEF T
    <2> QED BY <1>2, <1>5, <1>6, UpTo
  <1>8. \A k \in 0 .. n : TextTo(q, k + 1) = Said(h) \o TextTo(t, k) BY <1>7
  <1>9. TextOf(q) = Said(h) \o TextOf(t)
    <2>1. n \in 0 .. n /\ n + 1 = Len(q) BY <1>2
    <2>2. TextTo(q, Len(q)) = Said(h) \o TextTo(t, n) BY <1>8, <2>1
    <2> QED BY <1>1, <2>2, TextToFacts
  <1> QED BY <1>1, <1>2, <1>3, <1>8, <1>9 DEF h, t

----------------------------------------------------------------------------
(* The redactor over the events of a read. *)

\* What RedactEvents carries along.
Redactions == [held : Seq(Chars), queue : Seq(Events)]

\* One event goes through the redactor.
LEMMA RedactOne ==
    ASSUME NEW r \in Redactions, NEW e \in Incoming
    PROVE  /\ RedactEvent(r, e) \in Redactions
           /\ e.kind # "text" =>
                 RedactEvent(r, e) = [held |-> r.held, queue |-> Append(r.queue, e)]
           /\ e.kind = "text" =>
                 \E t \in Texts, k \in Nat :
                    /\ t = Replace(r.held \o e.s) /\ k = Hold(t)
                    /\ SubSeq(t, 1, Len(t) - k) \in Texts
                    /\ RedactEvent(r, e) =
                          [held |-> SubSeq(t, Len(t) - k + 1, Len(t)),
                           queue |-> Append(r.queue, Text(e.on, SubSeq(t, 1, Len(t) - k)))]
  <1>1. r.held \in Seq(Chars) /\ r.queue \in Seq(Events) /\ e \in Events
    BY IncomingEvents DEF Redactions
  <1>2. CASE e.kind # "text"
    <2>1. r = [held |-> r.held, queue |-> r.queue] BY DEF Redactions
    <2>2. RedactEvent(r, e) = [held |-> r.held, queue |-> Append(r.queue, e)]
      BY <1>2, <2>1 DEF RedactEvent
    <2>3. Append(r.queue, e) \in Seq(Events) BY <1>1, AppendProperties
    <2> QED BY <1>1, <1>2, <2>2, <2>3 DEF Redactions
  <1>3. CASE e.kind = "text"
    <2>1. e.s \in Seq(Chars) /\ e.on \in Channels BY <1>3, IncomingEvents
    <2>2. r.held \o e.s \in Texts BY <1>1, <2>1, SecretFacts, TextsConcat
    <2> DEFINE t == Replace(r.held \o e.s)  k == Hold(t)
               x == SubSeq(t, 1, Len(t) - k)
               g == SubSeq(t, Len(t) - k + 1, Len(t))
    <2>3. t \in Texts BY <2>2, ReplaceType
    <2>4. x \in Texts /\ g \in Seq(Chars)
      <3> HIDE DEF t
      <3> QED BY <2>3, HoldParts
    <2>5. RedactEvent(r, e) = [held |-> g, queue |-> Append(r.queue, Text(e.on, x))]
      BY <1>3 DEF RedactEvent
    <2> HIDE DEF x, g
    <2>6. Append(r.queue, Text(e.on, x)) \in Seq(Events)
      BY <1>1, <2>1, <2>4, IncomingEvents, AppendProperties
    <2>7. RedactEvent(r, e) \in Redactions
      BY <2>4, <2>5, <2>6 DEF Redactions
    <2> HIDE DEF t, k
    <2>8. t = Replace(r.held \o e.s) /\ k = Hold(t) BY DEF t, k
    <2>9. k \in Nat BY <2>3, <2>8, HoldFacts
    <2> QED BY <1>3, <2>3, <2>4, <2>5, <2>7, <2>8, <2>9 DEF x, g
  <1> QED BY <1>2, <1>3

\* Event by event, q is E but for its texts.
Alike(q, E) ==
    /\ Len(q) = Len(E)
    /\ \A i \in 1 .. Len(E) : /\ q[i].kind = E[i].kind
                              /\ E[i].kind # "text" => q[i] = E[i]

\* r is what the redactor has made of the first k of the events E, after it
\* had shown d of u.
RedactedTo(u, d, E, r, k) ==
    /\ r \in Redactions /\ Alike(r.queue, SubSeq(E, 1, k))
    /\ \A j \in 0 .. k :
          \E g : Redacted(u \o TextTo(E, j), d \o TextTo(r.queue, j), g)
    /\ Redacted(u \o TextTo(E, k), d \o TextTo(r.queue, k), r.held)

\* One more event goes through the redactor.
LEMMA RedactedNext ==
    ASSUME NEW u, NEW d, NEW E \in Seq(Incoming), NEW k \in 1 .. Len(E), NEW r,
           u \in Seq(Chars), d \in Texts,
           RedactedTo(u, d, E, r, k - 1)
    PROVE  RedactedTo(u, d, E, RedactEvent(r, E[k]), k)
  <1> DEFINE e == E[k]  R == RedactEvent(r, e)
  <1>1. /\ e \in Incoming /\ e \in Events /\ E \in Seq(Events) /\ Len(E) \in Nat
        /\ k - 1 \in 0 .. Len(E) /\ k \in 0 .. Len(E)
    BY ElementOfSeq, LenProperties, IncomingEvents, TextOfIncoming
  <1>2. /\ r \in Redactions /\ r.queue \in Seq(Events) /\ r.held \in Seq(Chars)
        /\ R \in Redactions
    BY <1>1, RedactOne DEF RedactedTo, Redactions
  <1> DEFINE F == SubSeq(E, 1, k - 1)  G == SubSeq(E, 1, k)
  <1>3. /\ Len(F) = k - 1 /\ \A i \in 1 .. k - 1 : F[i] = E[i]
        /\ Len(G) = k /\ \A i \in 1 .. k : G[i] = E[i]
    BY <1>1, FirstOnes
  <1>4. Alike(r.queue, F) BY DEF RedactedTo
  <1>5. Len(r.queue) = k - 1 BY <1>3, <1>4 DEF Alike
  <1>6. TextTo(E, k) = TextTo(E, k - 1) \o Said(e) BY <1>1, TextToFacts
  <1>7. TextTo(E, k - 1) \in Seq(Chars) /\ Said(e) \in Seq(Chars)
    <2>1. SubSeq(E, 1, k - 1) \in Seq(Incoming) BY <1>1, FirstOnes
    <2> QED BY <1>1, <2>1, TextOfIncoming, SaidType DEF TextTo
  <1>8. Redacted(u \o TextTo(E, k - 1), d \o TextOf(r.queue), r.held)
    <2>1. TextTo(r.queue, k - 1) = TextOf(r.queue) BY <1>2, <1>5, TextToFacts
    <2> QED BY <2>1 DEF RedactedTo
  <1>9. u \o TextTo(E, k) = (u \o TextTo(E, k - 1)) \o Said(e)
    <2>1. u \in Texts /\ TextTo(E, k - 1) \in Texts /\ Said(e) \in Texts
      BY <1>7, SecretFacts
    <2>2. (u \o TextTo(E, k - 1)) \o Said(e) = u \o (TextTo(E, k - 1) \o Said(e))
      BY <2>1, TextsConcat
    <2> QED BY <1>6, <2>2
  <1>10. PICK x \in Events :
            /\ R.queue = Append(r.queue, x)
            /\ x.kind = e.kind /\ (e.kind # "text" => x = e)
            /\ Redacted(u \o TextTo(E, k), d \o (TextOf(r.queue) \o Said(x)), R.held)
    <2>0. TextOf(r.queue) \in Texts /\ r.held \in Texts
      BY <1>2, TextOfType, SecretFacts
    <2>1. CASE e.kind # "text"
      <3>1. R.queue = Append(r.queue, e) /\ R.held = r.held
        <4>1. R = [held |-> r.held, queue |-> Append(r.queue, e)]
          BY <1>1, <1>2, <2>1, RedactOne
        <4> HIDE DEF R
        <4> QED BY <4>1
      <3>2. Said(e) = << >> BY <1>1, <2>1, SaidType
      <3>3. TextOf(r.queue) \o Said(e) = TextOf(r.queue)
        BY <2>0, <3>2, TextsConcat
      <3>4. (u \o TextTo(E, k - 1)) \o Said(e) = u \o TextTo(E, k - 1)
        BY <1>7, <3>2, SecretFacts, TextsConcat
      <3> QED BY <1>1, <1>8, <1>9, <2>1, <3>1, <3>3, <3>4
    <2>2. CASE e.kind = "text"
      <3>1. PICK t \in Texts, h \in Nat :
                /\ t = Replace(r.held \o e.s) /\ h = Hold(t)
                /\ SubSeq(t, 1, Len(t) - h) \in Texts
                /\ R = [held |-> SubSeq(t, Len(t) - h + 1, Len(t)),
                        queue |-> Append(r.queue, Text(e.on, SubSeq(t, 1, Len(t) - h)))]
        BY <1>1, <1>2, <2>2, RedactOne
      <3> DEFINE y == SubSeq(t, 1, Len(t) - h)  g == SubSeq(t, Len(t) - h + 1, Len(t))
      <3> HIDE DEF R
      <3>2. R.queue = Append(r.queue, Text(e.on, y)) /\ R.held = g BY <3>1
      <3>3. Text(e.on, y) \in Events /\ Text(e.on, y).kind = "text" /\ Said(Text(e.on, y)) = y
        <4>1. e.on \in Channels BY <1>1, <2>2, IncomingEvents
        <4>2. /\ Text(e.on, y) \in Events /\ Text(e.on, y).kind = "text"
              /\ Text(e.on, y).s = y
          BY <3>1, <4>1, IncomingEvents
        <4> QED BY <4>2 DEF Said
      <3>4. Said(e) = e.s BY <2>2 DEF Said
      <3>5. Redacted((u \o TextTo(E, k - 1)) \o Said(e),
                     (d \o TextOf(r.queue)) \o y, g)
        BY <1>7, <1>8, <3>1, <3>4, RedactedStep
      <3> HIDE DEF y, g
      <3>6. (d \o TextOf(r.queue)) \o y = d \o (TextOf(r.queue) \o Said(Text(e.on, y)))
        <4>1. y \in Texts BY <3>1 DEF y
        <4>2. (d \o TextOf(r.queue)) \o y = d \o (TextOf(r.queue) \o y)
          BY <2>0, <4>1, TextsConcat
        <4> QED BY <3>3, <4>2
      <3>7. Redacted(u \o TextTo(E, k), d \o (TextOf(r.queue) \o Said(Text(e.on, y))), R.held)
        BY <1>9, <3>2, <3>5, <3>6
      <3> QED BY <2>2, <3>2, <3>3, <3>7
    <2> QED BY <2>1, <2>2
  <1>11. /\ Len(R.queue) = k /\ R.queue \in Seq(Events)
         /\ \A i \in 1 .. k - 1 : R.queue[i] = r.queue[i]
         /\ R.queue[k] = x
    <2>1. /\ Append(r.queue, x) \in Seq(Events)
          /\ Len(Append(r.queue, x)) = Len(r.queue) + 1
          /\ \A i \in 1 .. Len(r.queue) : Append(r.queue, x)[i] = r.queue[i]
          /\ Append(r.queue, x)[Len(r.queue) + 1] = x
      BY <1>2, AppendProperties
    <2> QED BY <1>5, <1>10, <2>1
  <1>12. Alike(R.queue, G)
    <2>1. \A i \in 1 .. k : /\ R.queue[i].kind = E[i].kind
                            /\ E[i].kind # "text" => R.queue[i] = E[i]
      <3> TAKE i \in 1 .. k
      <3>1. CASE i = k BY <1>10, <1>11, <3>1
      <3>2. CASE i # k
        <4>1. i \in 1 .. k - 1 BY <3>2
        <4>2. r.queue[i].kind = F[i].kind /\ (F[i].kind # "text" => r.queue[i] = F[i])
          BY <1>3, <1>4, <4>1 DEF Alike
        <4> QED BY <1>3, <1>11, <4>1, <4>2
      <3> QED BY <3>1, <3>2
    <2> QED BY <1>3, <1>11, <2>1 DEF Alike
  <1>13. /\ \A j \in 0 .. k - 1 : TextTo(R.queue, j) = TextTo(r.queue, j)
         /\ TextTo(R.queue, k) = TextOf(r.queue) \o Said(x)
    <2>1. Len(r.queue) + 1 = k BY <1>5
    <2> HIDE DEF R
    <2> QED BY <1>2, <1>5, <1>10, <2>1, TextToAppend
  <1>14. Redacted(u \o TextTo(E, k), d \o TextTo(R.queue, k), R.held)
    BY <1>10, <1>13
  <1>15. ASSUME NEW j \in 0 .. k
         PROVE  \E g : Redacted(u \o TextTo(E, j), d \o TextTo(R.queue, j), g)
    <2>1. CASE j = k BY <1>14, <2>1
    <2>2. CASE j # k
      <3>1. j \in 0 .. k - 1 BY <2>2
      <3> QED BY <1>13, <3>1 DEF RedactedTo
    <2> QED BY <2>1, <2>2
  <1> HIDE DEF R
  <1>16. RedactedTo(u, d, E, R, k)
    BY <1>2, <1>12, <1>14, <1>15 DEF RedactedTo
  <1> QED BY <1>16 DEF R

\* All of the events go through it.
LEMMA RedactedAll ==
    ASSUME NEW u, NEW d, NEW h, Redacted(u, d, h), NEW E \in Seq(Incoming),
           NEW r, r = Redacting([held |-> h, queue |-> << >>], E)
    PROVE  RedactedTo(u, d, E, r, Len(E))
  <1> DEFINE b == [held |-> h, queue |-> << >>]
  <1>1. b \in Redactions /\ b.held = h /\ b.queue = << >>
    <2>1. h \in Seq(Chars) /\ << >> \in Seq(Events) BY EmptySeq DEF Redacted
    <2> QED BY <2>1 DEF Redactions
  <1>2. \A x \in Redactions, e \in Incoming : RedactEvent(x, e) \in Redactions
    BY RedactOne
  <1> HIDE DEF b
  <1>3. PICK g \in [0 .. Len(E) -> Redactions] :
            /\ g[0] = b /\ g[Len(E)] = Redacting(b, E)
            /\ \A k \in 1 .. Len(E) : g[k] = RedactEvent(g[k - 1], E[k])
    BY <1>1, <1>2, RedactRuns
  <1>4. Len(E) \in Nat /\ E \in Seq(Events) BY LenProperties, TextOfIncoming
  <1>5. u \in Seq(Chars) /\ d \in Texts /\ u \in Texts BY SecretFacts DEF Redacted
  <1>6. RedactedTo(u, d, E, g[0], 0)
    <2>1. /\ TextTo(E, 0) = << >> /\ TextTo(b.queue, 0) = << >>
          /\ Len(b.queue) = 0 /\ SubSeq(E, 1, 0) = << >>
      <3>1. << >> \in Seq(Events) /\ Len(<< >>) = 0 BY EmptySeq
      <3>2. b.queue \in Seq(Events) BY <1>1, <3>1
      <3>3. SubSeq(E, 1, 0) = << >> BY SubSeqEmpty
      <3>4. TextTo(E, 0) = << >> /\ TextTo(b.queue, 0) = << >>
        BY <1>4, <3>2, TextToFacts
      <3> QED BY <1>1, <3>1, <3>3, <3>4
    <2>2. u \o << >> = u /\ d \o << >> = d BY <1>5, TextsConcat
    <2>3. Redacted(u \o TextTo(E, 0), d \o TextTo(b.queue, 0), b.held)
      BY <1>1, <2>1, <2>2
    <2>4. Alike(b.queue, SubSeq(E, 1, 0))
      <3>1. Len(SubSeq(E, 1, 0)) = 0 BY <2>1, EmptySeq
      <3> QED BY <2>1, <3>1 DEF Alike
    <2>5. \A j \in 0 .. 0 : j = 0 OBVIOUS
    <2>6. RedactedTo(u, d, E, b, 0) BY <1>1, <2>3, <2>4, <2>5 DEF RedactedTo
    <2> QED BY <1>3, <2>6
  <1> DEFINE T == {k \in 0 .. Len(E) : RedactedTo(u, d, E, g[k], k)}
  <1>7. 0 \in T BY <1>4, <1>6
  <1>8. ASSUME NEW k \in 1 .. Len(E), k - 1 \in T PROVE k \in T
    <2>1. RedactedTo(u, d, E, g[k - 1], k - 1) BY <1>8
    <2>2. RedactedTo(u, d, E, RedactEvent(g[k - 1], E[k]), k)
      BY <1>5, <2>1, RedactedNext
    <2>3. k \in 0 .. Len(E) BY <1>4
    <2> QED BY <1>3, <2>2, <2>3
  <1>9. \A k \in 0 .. Len(E) : k \in T
    <2> HIDE DEF T
    <2> QED BY <1>4, <1>7, <1>8, UpTo
  <1>10. RedactedTo(u, d, E, g[Len(E)], Len(E)) BY <1>4, <1>9
  <1> QED BY <1>3, <1>10 DEF b

----------------------------------------------------------------------------
(* The assembler. *)

\* The assembler, and with the events and the text of a read.
Assemblies ==
    [bytes : Nat, count : Nat, failed : BOOLEAN, completed : BOOLEAN,
     plain : BOOLEAN, calls : [Indexes -> [head : BOOLEAN, args : Nat]]]

Stages ==
    [events : Seq(Incoming), text : Seq(Chars), spoken : Seq(Chars),
     bytes : Nat, count : Nat, failed : BOOLEAN, completed : BOOLEAN,
     plain : BOOLEAN, calls : [Indexes -> [head : BOOLEAN, args : Nat]]]

\* The assembler at the start of a read, without events.
LEMMA AssemblingIs ==
    ASSUME asm \in Assemblies
    PROVE  /\ Assembling \in Stages
           /\ Assembling = [events |-> << >>, text |-> << >>, spoken |-> << >>,
                            bytes |-> asm.bytes, count |-> asm.count, failed |-> asm.failed,
                            completed |-> asm.completed, plain |-> asm.plain,
                            calls |-> asm.calls]
  <1>1. DOMAIN asm = {"bytes", "count", "failed", "completed", "plain", "calls"}
    BY DEF Assemblies
  <1>2. Assembling = [events |-> << >>, text |-> << >>, spoken |-> << >>,
                      bytes |-> asm.bytes, count |-> asm.count, failed |-> asm.failed,
                      completed |-> asm.completed, plain |-> asm.plain,
                      calls |-> asm.calls]
    BY <1>1 DEF Assembling
  <1>3. << >> \in Seq(Incoming) /\ << >> \in Seq(Chars) BY EmptySeq
  <1> QED BY <1>2, <1>3 DEF Stages, Assemblies

\* The assembler after a read.
LEMMA AssembledIs ==
    ASSUME asm \in Assemblies, NEW s \in Stages
    PROVE  /\ [f \in DOMAIN asm |-> s[f]] \in Assemblies
           /\ [f \in DOMAIN asm |-> s[f]] =
                 [bytes |-> s.bytes, count |-> s.count, failed |-> s.failed,
                  completed |-> s.completed, plain |-> s.plain, calls |-> s.calls]
  <1>1. DOMAIN asm = {"bytes", "count", "failed", "completed", "plain", "calls"}
    BY DEF Assemblies
  <1>2. [f \in DOMAIN asm |-> s[f]] =
           [bytes |-> s.bytes, count |-> s.count, failed |-> s.failed,
            completed |-> s.completed, plain |-> s.plain, calls |-> s.calls]
    BY <1>1
  <1> QED BY <1>2 DEF Stages, Assemblies

\* e is in q; a tool call is in q.
Has(q, e) == \E i \in 1 .. Len(q) : q[i] = e

HasCall(q) == \E i \in 1 .. Len(q) : q[i].kind = "call"

\* Its calls are in their order.
Ordered(q) ==
    \A i, j \in 1 .. Len(q) :
        q[i].kind = "call" /\ q[j].kind = "call" /\ i < j => q[i].index < q[j].index

\* What a queue has with one more event.
LEMMA HasAppend ==
    ASSUME NEW q \in Seq(Events), NEW e \in Events
    PROVE  /\ \A x : Has(Append(q, e), x) <=> Has(q, x) \/ x = e
           /\ HasCall(Append(q, e)) <=> HasCall(q) \/ e.kind = "call"
  <1> DEFINE a == Append(q, e)  n == Len(q)
  <1>1. /\ Len(a) = n + 1 /\ n \in Nat
        /\ \A i \in 1 .. n : a[i] = q[i]
        /\ a[n + 1] = e
    BY AppendProperties, LenProperties
  <1> HIDE DEF a, n
  <1>2. \A i : i \in 1 .. n + 1 <=> i \in 1 .. n \/ i = n + 1 BY <1>1
  <1>3. \A x : Has(a, x) <=> Has(q, x) \/ x = e
    BY <1>1, <1>2 DEF Has, n
  <1>4. HasCall(a) <=> HasCall(q) \/ e.kind = "call"
    BY <1>1, <1>2 DEF HasCall, n
  <1> QED BY <1>3, <1>4 DEF a

\* t is s but for its events, their number and its failure.
Like(s, t) ==
    /\ t \in Stages /\ t.text = s.text /\ t.bytes = s.bytes /\ t.plain = s.plain
    /\ t.calls = s.calls /\ t.completed = s.completed

\* A failure is told behind what has been said.
LEMMA FailIs ==
    ASSUME NEW s \in Stages
    PROVE  /\ Like(s, Fail(s)) /\ Fail(s).failed
           /\ Fail(s).events = Append(s.events, Failed)
  <1>1. Failed \in Incoming BY IncomingEvents
  <1>2. Append(s.events, Failed) \in Seq(Incoming)
    BY <1>1, AppendProperties DEF Stages
  <1> QED BY <1>2 DEF Fail, Like, Stages

\* An emission tells the event, or a failure past the bound.
LEMMA EmitIs ==
    ASSUME NEW s \in Stages, NEW e \in Incoming
    PROVE  /\ Like(s, Emit(s, e))
           /\ \/ Emit(s, e).failed /\ Emit(s, e).events = Append(s.events, Failed)
              \/ /\ Emit(s, e).failed = s.failed
                 /\ Emit(s, e).events = Append(s.events, e)
  <1>1. CASE s.count >= MaxEvents BY <1>1, FailIs DEF Emit
  <1>2. CASE ~(s.count >= MaxEvents)
    <2>1. Append(s.events, e) \in Seq(Incoming)
      BY AppendProperties DEF Stages
    <2>2. s.count + 1 \in Nat BY DEF Stages
    <2>3. Emit(s, e) = [s EXCEPT !.count = s.count + 1, !.events = Append(s.events, e)]
      BY <1>2 DEF Emit
    <2> QED BY <2>1, <2>2, <2>3 DEF Like, Stages
  <1> QED BY <1>1, <1>2

\* Taking back the events of a commit changes nothing else.
LEMMA WithEvents ==
    ASSUME NEW s \in Stages, NEW E \in Seq(Incoming)
    PROVE  /\ Like(s, [s EXCEPT !.events = E])
           /\ [s EXCEPT !.events = E].failed = s.failed
           /\ [s EXCEPT !.events = E].events = E
  BY DEF Like, Stages

\* What the events of a stage say, and what its text is.
Telling(s) ==
    /\ \E y \in Seq(Chars) : s.text = TextOf(s.events) \o y
    /\ ~Has(s.events, Failed) => s.text = TextOf(s.events)
    /\ Has(s.events, Failed) => s.failed
    /\ ~Has(s.events, Cancelled)
    /\ \A i \in 1 .. Len(s.events) : s.events[i] = Completed => i = Len(s.events)

\* Its calls are told all together, with the completion.
TellsAll(s) ==
    IF s.completed /\ ~s.failed
    THEN /\ Has(s.events, Completed) /\ Ordered(s.events)
         /\ \A x \in Indexes : x \in Used(s) <=> Has(s.events, Call(x))
    ELSE ~HasCall(s.events) /\ ~Has(s.events, Completed)

\* What the assembler is between two lines.
Good(s) == s \in Stages /\ Telling(s) /\ TellsAll(s)

\* A stage whose events end with a failure.
LEMMA GoodFail ==
    ASSUME NEW s, Good(s), ~s.failed, ~s.completed, NEW t, Like(s, t), t.failed,
           t.events = Append(s.events, Failed)
    PROVE  Good(t)
  <1>1. /\ s.events \in Seq(Events) /\ Failed \in Events /\ t \in Stages
        /\ s.events \in Seq(Incoming) /\ t.text = s.text
    BY IncomingEvents, TextOfIncoming DEF Good, Stages, Like
  <1>2. /\ Failed # Completed /\ Failed # Cancelled /\ Failed.kind # "call"
        /\ Failed.kind # "text"
    BY DEF Failed, Completed, Cancelled
  <1>3. TextOf(t.events) = TextOf(s.events)
    <2>1. TextOf(t.events) = TextOf(s.events) \o Said(Failed)
      BY <1>1, TextOfAppend
    <2>2. Said(Failed) = << >> BY <1>1, <1>2, SaidType
    <2> QED BY <1>1, <2>1, <2>2, TextOfType, TextsConcat
  <1>4. /\ \A x : Has(t.events, x) <=> Has(s.events, x) \/ x = Failed
        /\ HasCall(t.events) <=> HasCall(s.events)
    BY <1>1, <1>2, HasAppend
  <1>5. ~HasCall(t.events) /\ ~Has(t.events, Completed)
    BY <1>2, <1>4 DEF Good, TellsAll
  <1>6. Telling(t)
    BY <1>1, <1>2, <1>3, <1>4, <1>5 DEF Good, Telling, Has
  <1> QED BY <1>1, <1>5, <1>6 DEF Good, TellsAll

\* The text of a frame keeps the assembler good.
LEMMA GoodEmitText ==
    ASSUME NEW s, Good(s), ~s.failed, ~s.completed, NEW d \in Deltas
    PROVE  LET t == Emit([s EXCEPT !.text = @ \o d.s,
                                   !.spoken = @ \o OnAnswer(d)], d)
           IN  Good(t) /\ t.bytes = s.bytes /\ t.plain = s.plain
  <1> DEFINE r == [s EXCEPT !.text = @ \o d.s, !.spoken = @ \o OnAnswer(d)]
             t == Emit(r, d)
  <1>0. /\ d \in Incoming /\ d \in Events /\ d.kind = "text" /\ d.s \in Seq(Chars)
        /\ OnAnswer(d) \in Seq(Chars)
    BY IncomingEvents, EmptySeq DEF OnAnswer
  <1>1. /\ s \in Stages /\ s.events \in Seq(Incoming) /\ s.events \in Seq(Events)
        /\ s.text \in Seq(Chars) /\ s.spoken \in Seq(Chars)
    BY TextOfIncoming DEF Good, Stages
  <1>2. s.text \o d.s \in Seq(Chars) /\ s.spoken \o OnAnswer(d) \in Seq(Chars)
    BY <1>0, <1>1, ConcatProperties
  <1>3. /\ r \in Stages /\ r.events = s.events /\ r.text = s.text \o d.s
        /\ r.bytes = s.bytes /\ r.plain = s.plain /\ r.failed = s.failed
        /\ r.completed = s.completed
    BY <1>1, <1>2 DEF Stages
  <1> HIDE DEF r
  <1>4. d \in Incoming /\ d \in Events BY <1>0
  <1>5. /\ Like(r, t)
        /\ \/ t.failed /\ t.events = Append(r.events, Failed)
           \/ t.failed = r.failed /\ t.events = Append(r.events, d)
    BY <1>3, <1>4, EmitIs
  <1> HIDE DEF t
  <1>6. /\ t \in Stages /\ t.text = s.text \o d.s /\ t.bytes = s.bytes
        /\ t.plain = s.plain /\ ~t.completed
    BY <1>3, <1>5 DEF Like
  <1>7. /\ s.text = TextOf(s.events) /\ ~Has(s.events, Failed)
        /\ ~Has(s.events, Cancelled) /\ ~HasCall(s.events)
        /\ ~Has(s.events, Completed)
    BY DEF Good, Telling, TellsAll
  <1>8. ASSUME t.failed, t.events = Append(r.events, Failed) PROVE Good(t)
    <2>1. Failed \in Events /\ Said(Failed) = << >> /\ Failed.kind # "call"
          /\ Failed # Completed /\ Failed # Cancelled
      BY IncomingEvents, SaidType DEF Failed, Completed, Cancelled
    <2>2. TextOf(t.events) = TextOf(s.events)
      <3>1. TextOf(t.events) = TextOf(s.events) \o Said(Failed)
        BY <1>1, <1>3, <1>8, <2>1, TextOfAppend
      <3> QED BY <1>1, <2>1, <3>1, TextOfType, TextsConcat
    <2>3. /\ \A x : Has(t.events, x) <=> Has(s.events, x) \/ x = Failed
          /\ HasCall(t.events) <=> HasCall(s.events)
      BY <1>1, <1>3, <1>8, <2>1, HasAppend
    <2>4. ~HasCall(t.events) /\ ~Has(t.events, Completed)
      BY <1>7, <2>1, <2>3
    <2>5. \E y \in Seq(Chars) : t.text = TextOf(t.events) \o y
      BY <1>0, <1>6, <1>7, <2>2
    <2>6. Has(t.events, Failed) /\ ~Has(t.events, Cancelled)
      BY <1>7, <2>1, <2>3
    <2>7. \A i \in 1 .. Len(t.events) : t.events[i] # Completed
      BY <2>4 DEF Has
    <2>8. Telling(t) BY <1>8, <2>5, <2>6, <2>7 DEF Telling
    <2>9. TellsAll(t) BY <1>6, <2>4 DEF TellsAll
    <2> QED BY <1>6, <2>8, <2>9 DEF Good
  <1>9. ASSUME t.failed = r.failed, t.events = Append(r.events, d)
        PROVE  Good(t)
    <2>1. /\ Said(d) = d.s /\ d.kind # "call" /\ d # Failed
          /\ d # Completed /\ d # Cancelled
      BY <1>0 DEF Said, Failed, Completed, Cancelled
    <2>2. TextOf(t.events) = TextOf(s.events) \o d.s
      BY <1>1, <1>3, <1>4, <1>9, <2>1, TextOfAppend
    <2>3. /\ \A x : Has(t.events, x) <=> Has(s.events, x) \/ x = d
          /\ HasCall(t.events) <=> HasCall(s.events)
      BY <1>1, <1>3, <1>4, <1>9, <2>1, HasAppend
    <2>4. /\ ~HasCall(t.events) /\ ~Has(t.events, Completed)
          /\ ~Has(t.events, Failed) /\ ~Has(t.events, Cancelled)
      BY <1>7, <2>1, <2>3
    <2>5. t.text = TextOf(t.events) BY <1>6, <1>7, <2>2
    <2>6. << >> \in Seq(Chars) /\ TextOf(t.events) \o << >> = TextOf(t.events)
      <3>1. t.text \in Texts BY <1>6, SecretFacts DEF Stages
      <3> QED BY <2>5, <3>1, EmptySeq, TextsConcat
    <2>7. \A i \in 1 .. Len(t.events) : t.events[i] # Completed
      BY <2>4 DEF Has
    <2>8. Telling(t)
      BY <2>4, <2>5, <2>6, <2>7 DEF Telling
    <2>9. TellsAll(t) BY <1>6, <2>4 DEF TellsAll
    <2> QED BY <1>6, <2>8, <2>9 DEF Good
  <1>10. Good(t) BY <1>5, <1>8, <1>9
  <1> QED BY <1>6, <1>10 DEF t, r

----------------------------------------------------------------------------
(* A commit. *)

\* t is what a commit of s has come to when it has told the calls up to k.
Told(s, t, k) ==
    /\ \/ t.events = s.events
       \/ t.events = Append(s.events, Failed)
       \/ ~t.failed
    /\ ~t.failed =>
          /\ TextOf(t.events) = TextOf(s.events)
          /\ ~Has(t.events, Failed) /\ ~Has(t.events, Completed)
          /\ ~Has(t.events, Cancelled)
          /\ Ordered(t.events)
          /\ \A i \in 1 .. Len(t.events) :
                t.events[i].kind = "call" => t.events[i].index <= k
          /\ \A x \in Indexes : Has(t.events, Call(x)) <=> x \in Used(s) /\ x <= k

\* What one call of a commit makes of its stage.
LEMMA CommitCallIs ==
    ASSUME NEW s \in Stages, NEW t \in Stages, NEW i \in Indexes,
           NEW u, u = CommitCall(s, t, i)
    PROVE  /\ Like(t, u)
           /\ \/ (i \notin Used(t) \/ t.failed) /\ u = t
              \/ u.failed /\ u.events = Append(s.events, Failed)
              \/ u.failed /\ u.events = s.events
              \/ i \in Used(t) /\ ~u.failed /\ u.events = Append(t.events, Call(i))
  <1>1. s.events \in Seq(Incoming) BY DEF Stages
  <1>2. Call(i) \in Incoming BY IncomingEvents
  <1>3. CASE i \notin Used(t) \/ t.failed
    <2>1. u = t BY <1>3 DEF CommitCall
    <2> QED BY <1>3, <2>1 DEF Like
  <1>4. CASE i \in Used(t) /\ ~t.failed /\ ~Whole(t, i)
    <2> DEFINE v == [t EXCEPT !.events = s.events]
    <2>1. u = Fail(v) BY <1>4 DEF CommitCall
    <2>2. Like(t, v) /\ v.failed = t.failed /\ v.events = s.events
      BY <1>1, WithEvents
    <2> HIDE DEF v
    <2>3. Like(v, u) /\ u.failed /\ u.events = Append(v.events, Failed)
      BY <2>1, <2>2, FailIs DEF Like
    <2> QED BY <2>2, <2>3 DEF Like
  <1>5. CASE i \in Used(t) /\ ~t.failed /\ Whole(t, i)
    <2> DEFINE v == Emit(t, Call(i))
    <2>1. u = Unless(s.events, v) BY <1>5 DEF CommitCall
    <2>2. /\ Like(t, v)
          /\ \/ v.failed /\ v.events = Append(t.events, Failed)
             \/ v.failed = t.failed /\ v.events = Append(t.events, Call(i))
      BY <1>2, EmitIs
    <2> HIDE DEF v
    <2>3. CASE v.failed
      <3>1. u = [v EXCEPT !.events = s.events] BY <2>1, <2>3 DEF Unless
      <3>2. Like(v, u) /\ u.failed = v.failed /\ u.events = s.events
        BY <1>1, <2>2, <3>1, WithEvents DEF Like
      <3> QED BY <2>2, <2>3, <3>2 DEF Like
    <2>4. CASE ~v.failed
      <3>1. u = v BY <2>1, <2>4 DEF Unless
      <3> QED BY <1>5, <2>2, <2>4, <3>1
    <2> QED BY <2>3, <2>4
  <1> QED BY <1>3, <1>4, <1>5

\* The calls of a sequence of events that one more is appended to.
LEMMA OrderedAppend ==
    ASSUME NEW q \in Seq(Events), NEW e \in Events, Ordered(q),
           e.kind = "call" =>
               \A i \in 1 .. Len(q) : q[i].kind = "call" => q[i].index < e.index
    PROVE  Ordered(Append(q, e))
  <1> DEFINE a == Append(q, e)  n == Len(q)
  <1>1. /\ Len(a) = n + 1 /\ n \in Nat
        /\ \A i \in 1 .. n : a[i] = q[i]
        /\ a[n + 1] = e
    BY AppendProperties, LenProperties
  <1>2. /\ \A i, j \in 1 .. n :
              q[i].kind = "call" /\ q[j].kind = "call" /\ i < j => q[i].index < q[j].index
        /\ e.kind = "call" =>
              \A i \in 1 .. n : q[i].kind = "call" => q[i].index < e.index
    BY DEF Ordered
  <1> HIDE DEF a, n
  <1>3. \A i, j \in 1 .. Len(a) :
            a[i].kind = "call" /\ a[j].kind = "call" /\ i < j => a[i].index < a[j].index
    <2> SUFFICES ASSUME NEW i \in 1 .. Len(a), NEW j \in 1 .. Len(a),
                        a[i].kind = "call", a[j].kind = "call", i < j
                 PROVE  a[i].index < a[j].index
      OBVIOUS
    <2>1. i \in 1 .. n BY <1>1
    <2>2. j \in 1 .. n \/ j = n + 1 BY <1>1
    <2> QED BY <1>1, <1>2, <2>1, <2>2
  <1> QED BY <1>3 DEF Ordered, a

\* One call more is told, or the commit has failed.
LEMMA ToldNext ==
    ASSUME NEW s \in Stages, NEW t \in Stages, Like(s, t), NEW k \in Indexes,
           Told(s, t, k - 1)
    PROVE  Like(s, CommitCall(s, t, k)) /\ Told(s, CommitCall(s, t, k), k)
  <1> DEFINE u == CommitCall(s, t, k)
  <1>1. /\ Like(t, u)
        /\ \/ (k \notin Used(t) \/ t.failed) /\ u = t
           \/ u.failed /\ u.events = Append(s.events, Failed)
           \/ u.failed /\ u.events = s.events
           \/ k \in Used(t) /\ ~u.failed /\ u.events = Append(t.events, Call(k))
    BY CommitCallIs
  <1> HIDE DEF u
  <1>2. Like(s, u) BY <1>1 DEF Like
  <1>3. Used(t) = Used(s) BY DEF Like, Used
  <1>4. k \in Nat /\ k - 1 \in Nat /\ \A x \in Indexes : x \in Nat
    BY StreamAssumption DEF Indexes
  <1>5. \A x \in Indexes : x <= k <=> x <= k - 1 \/ x = k BY <1>4
  <1>6. ASSUME t.failed, u = t PROVE Told(s, u, k)
    BY <1>6 DEF Told
  <1>7. ASSUME ~t.failed, k \notin Used(s), u = t PROVE Told(s, u, k)
    <2>1. \A i \in 1 .. Len(t.events) :
              t.events[i].kind = "call" => t.events[i].index <= k
      <3> SUFFICES ASSUME NEW i \in 1 .. Len(t.events), t.events[i].kind = "call"
                   PROVE  t.events[i].index <= k
        OBVIOUS
      <3>1. t.events[i] \in Events BY ElementOfSeq, TextOfIncoming DEF Stages
      <3>2. t.events[i].index \in Indexes BY <3>1, EventKinds
      <3>3. t.events[i].index <= k - 1 BY <1>7 DEF Told
      <3> QED BY <1>5, <3>2, <3>3
    <2>2. \A x \in Indexes : Has(t.events, Call(x)) <=> x \in Used(s) /\ x <= k
      BY <1>5, <1>7 DEF Told
    <2> QED BY <1>7, <2>1, <2>2 DEF Told
  <1>8. ASSUME ~t.failed, ~u.failed, k \in Used(s), u.events = Append(t.events, Call(k))
        PROVE  Told(s, u, k)
    <2> DEFINE q == t.events
    <2>1. q \in Seq(Events) /\ Call(k) \in Events /\ Call(k).kind = "call"
          /\ Call(k).index = k
      BY TextOfIncoming, IncomingEvents DEF Stages
    <2>2. /\ TextOf(q) = TextOf(s.events)
          /\ ~Has(q, Failed) /\ ~Has(q, Completed) /\ ~Has(q, Cancelled)
          /\ Ordered(q)
          /\ \A i \in 1 .. Len(q) : q[i].kind = "call" => q[i].index <= k - 1
          /\ \A x \in Indexes : Has(q, Call(x)) <=> x \in Used(s) /\ x <= k - 1
      BY <1>8 DEF Told
    <2>3. \A i \in 1 .. Len(q) : q[i].kind = "call" => q[i].index \in Indexes
      BY <2>1, ElementOfSeq, EventKinds
    <2> HIDE DEF q
    <2>4. u.events = Append(q, Call(k)) BY <1>8 DEF q
    <2>5. TextOf(u.events) = TextOf(s.events)
      <3>1. TextOf(u.events) = TextOf(q) \o Said(Call(k)) BY <2>1, <2>4, TextOfAppend
      <3>2. Said(Call(k)) = << >> BY <2>1, SaidType
      <3> QED BY <2>1, <2>2, <3>1, <3>2, TextOfType, TextsConcat
    <2>6. \A x : Has(u.events, x) <=> Has(q, x) \/ x = Call(k)
      BY <2>1, <2>4, HasAppend
    <2>7. ~Has(u.events, Failed) /\ ~Has(u.events, Completed) /\ ~Has(u.events, Cancelled)
      BY <2>2, <2>6 DEF Failed, Completed, Cancelled, Call
    <2>8. \A i \in 1 .. Len(q) : q[i].kind = "call" => q[i].index < k /\ q[i].index <= k
      <3>1. \A y \in Indexes : y <= k - 1 => y < k /\ y <= k BY <1>4
      <3> QED BY <2>2, <2>3, <3>1
    <2>9. Ordered(u.events)
      BY <2>1, <2>2, <2>4, <2>8, OrderedAppend
    <2>10. \A i \in 1 .. Len(u.events) :
               u.events[i].kind = "call" => u.events[i].index <= k
      <3>1. /\ Len(u.events) = Len(q) + 1 /\ Len(q) \in Nat
            /\ \A i \in 1 .. Len(q) : u.events[i] = q[i]
            /\ u.events[Len(q) + 1] = Call(k)
        BY <2>1, <2>4, AppendProperties, LenProperties
      <3>2. \A i \in 1 .. Len(u.events) : i \in 1 .. Len(q) \/ i = Len(q) + 1
        BY <3>1
      <3>3. k <= k BY <1>4
      <3> QED BY <2>1, <2>8, <3>1, <3>2, <3>3
    <2>11. \A x \in Indexes : Has(u.events, Call(x)) <=> x \in Used(s) /\ x <= k
      <3>1. \A x : Call(x) = Call(k) => x = k BY DEF Call
      <3> QED BY <1>5, <1>8, <2>2, <2>6, <3>1
    <2> QED BY <1>8, <2>5, <2>7, <2>9, <2>10, <2>11 DEF Told
  <1>9. ASSUME u.failed, u.events = Append(s.events, Failed) \/ u.events = s.events
        PROVE  Told(s, u, k)
    BY <1>9 DEF Told
  <1>10. ~t.failed \/ t.failed OBVIOUS
  <1>11. Told(s, u, k)
    <2>1. CASE (k \notin Used(t) \/ t.failed) /\ u = t
      BY <1>3, <1>6, <1>7, <2>1
    <2>2. CASE u.failed /\ u.events = Append(s.events, Failed) BY <1>9, <2>2
    <2>3. CASE u.failed /\ u.events = s.events BY <1>9, <2>3
    <2>4. CASE k \in Used(t) /\ ~u.failed /\ u.events = Append(t.events, Call(k))
      <3>1. CASE t.failed
        \* A stage that failed is left as it is.
        <4>1. u = t BY <3>1 DEF u, CommitCall
        <4> QED BY <1>6, <3>1, <4>1
      <3>2. CASE ~t.failed BY <1>3, <1>8, <2>4, <3>2
      <3> QED BY <3>1, <3>2
    <2> QED BY <1>1, <2>1, <2>2, <2>3, <2>4
  <1> QED BY <1>2, <1>11 DEF u

\* A commit goes through the calls by their index.
LEMMA InOrderIs ==
    /\ InOrder \in Seq(Indexes) /\ Len(InOrder) = MaxCalls /\ MaxCalls \in Nat
    /\ \A k \in 1 .. MaxCalls : InOrder[k] = k /\ k \in Indexes
  <1>1. MaxCalls \in Nat BY StreamAssumption
  <1>2. InOrder = [k \in 1 .. MaxCalls |-> k] /\ Indexes = 1 .. MaxCalls
    BY DEF InOrder, Indexes
  <1>3. InOrder \in Seq(Indexes) BY <1>1, <1>2, IsASeq
  <1>4. DOMAIN InOrder = 1 .. MaxCalls BY <1>2
  <1>5. Len(InOrder) = MaxCalls BY <1>1, <1>3, <1>4, LenProperties
  <1> QED BY <1>1, <1>2, <1>3, <1>5

\* What a commit has told when it has gone through the calls.
LEMMA CommitTold ==
    ASSUME NEW s, Good(s), ~s.failed, ~s.completed,
           NEW told, told = Committing(s, s, InOrder)
    PROVE  Like(s, told) /\ Told(s, told, MaxCalls)
  <1>1. s \in Stages BY DEF Good
  <1>2. \A x \in Stages, i \in Indexes : CommitCall(s, x, i) \in Stages
    BY <1>1, CommitCallIs DEF Like
  <1>3. PICK h \in [0 .. MaxCalls -> Stages] :
            /\ h[0] = s /\ h[MaxCalls] = told
            /\ \A k \in 1 .. MaxCalls : h[k] = CommitCall(s, h[k - 1], InOrder[k])
    <2> DEFINE n == Len(InOrder)
    <2>1. InOrder \in Seq(Indexes) /\ n = MaxCalls BY InOrderIs
    <2>2. \E h \in [0 .. n -> Stages] :
             /\ h[0] = s /\ h[n] = Committing(s, s, InOrder)
             /\ \A k \in 1 .. n : h[k] = CommitCall(s, h[k - 1], InOrder[k])
      BY <1>1, <1>2, <2>1, CommitRuns
    <2> HIDE DEF n
    <2> QED BY <2>1, <2>2
  <1> DEFINE T == {k \in 0 .. MaxCalls : Like(s, h[k]) /\ Told(s, h[k], k)}
  <1>4. 0 \in T
    <2>1. /\ ~HasCall(s.events) /\ ~Has(s.events, Completed)
          /\ ~Has(s.events, Cancelled) /\ ~Has(s.events, Failed)
      BY DEF Good, Telling, TellsAll
    <2>2. Ordered(s.events) BY <2>1 DEF Ordered, HasCall
    <2>3. \A i \in 1 .. Len(s.events) : s.events[i].kind # "call"
      BY <2>1 DEF HasCall
    <2>4. \A x \in Indexes : ~Has(s.events, Call(x)) /\ ~(x <= 0)
      <3>1. \A x \in Indexes : Call(x).kind = "call" BY IncomingEvents
      <3>2. \A x \in Indexes : ~(x <= 0) BY InOrderIs DEF Indexes
      <3> QED BY <2>3, <3>1, <3>2 DEF Has
    <2>5. Told(s, s, 0) BY <2>1, <2>2, <2>3, <2>4 DEF Told
    <2>6. Like(s, s) BY <1>1 DEF Like
    <2>7. 0 \in 0 .. MaxCalls BY InOrderIs
    <2> QED BY <1>3, <2>5, <2>6, <2>7
  <1>5. \A k \in 1 .. MaxCalls : k - 1 \in T => k \in T
    <2> SUFFICES ASSUME NEW k \in 1 .. MaxCalls, k - 1 \in T
                 PROVE  k \in T
      OBVIOUS
    <2>1. /\ k - 1 \in 0 .. MaxCalls /\ k \in 0 .. MaxCalls /\ k \in Indexes
          /\ InOrder[k] = k
      BY InOrderIs
    <2>2. Like(s, h[k - 1]) /\ Told(s, h[k - 1], k - 1) OBVIOUS
    <2>3. h[k - 1] \in Stages BY <1>3, <2>1
    <2>4. h[k] = CommitCall(s, h[k - 1], k) BY <1>3, <2>1
    <2>5. Like(s, h[k]) /\ Told(s, h[k], k)
      BY <1>1, <2>1, <2>2, <2>3, <2>4, ToldNext
    <2> QED BY <2>1, <2>5
  <1>6. \A k \in 0 .. MaxCalls : k \in T
    <2> HIDE DEF T
    <2> QED BY <1>4, <1>5, InOrderIs, UpTo
  <1>7. MaxCalls \in 0 .. MaxCalls BY InOrderIs
  <1> QED BY <1>3, <1>6, <1>7

\* A stage that fails without a word.
LEMMA GoodQuiet ==
    ASSUME NEW s, Good(s), ~s.failed, ~s.completed, NEW t \in Stages,
           t.text = s.text, t.events = s.events, t.failed
    PROVE  Good(t)
  <1>1. Telling(t) BY DEF Good, Telling
  <1>2. TellsAll(t) BY DEF Good, TellsAll
  <1> QED BY <1>1, <1>2 DEF Good

\* A stage that tells its completion after all of its calls.
LEMMA GoodCompleted ==
    ASSUME NEW s, Good(s), ~s.failed, ~s.completed,
           NEW told \in Stages, Like(s, told), ~told.failed, Told(s, told, MaxCalls),
           NEW t \in Stages, t.text = s.text, t.calls = s.calls,
           t.events = Append(told.events, Completed), ~t.failed, t.completed
    PROVE  Good(t)
  <1> DEFINE q == told.events
  <1>1. /\ q \in Seq(Events) /\ Completed \in Events /\ Completed.kind = "completed"
        /\ t.events = Append(q, Completed) /\ Failed.kind = "failed"
        /\ Cancelled.kind = "cancelled"
    BY TextOfIncoming, IncomingEvents DEF Stages
  <1>2. /\ TextOf(q) = TextOf(s.events)
        /\ ~Has(q, Failed) /\ ~Has(q, Completed) /\ ~Has(q, Cancelled)
        /\ Ordered(q)
        /\ \A x \in Indexes : Has(q, Call(x)) <=> x \in Used(s) /\ x <= MaxCalls
    BY DEF Told
  <1>3. s.text = TextOf(s.events) BY DEF Good, Telling
  <1> HIDE DEF q
  <1>4. TextOf(t.events) = s.text
    <2>1. TextOf(t.events) = TextOf(q) \o Said(Completed) BY <1>1, TextOfAppend
    <2>2. Said(Completed) = << >> BY <1>1, SaidType
    <2> QED BY <1>1, <1>2, <1>3, <2>1, <2>2, TextOfType, TextsConcat
  <1>5. \A x : Has(t.events, x) <=> Has(q, x) \/ x = Completed
    BY <1>1, HasAppend
  <1>6. ~Has(t.events, Failed) /\ ~Has(t.events, Cancelled) /\ Has(t.events, Completed)
    BY <1>1, <1>2, <1>5
  <1>7. \A i \in 1 .. Len(t.events) : t.events[i] = Completed => i = Len(t.events)
    <2>1. /\ Len(t.events) = Len(q) + 1 /\ Len(q) \in Nat
          /\ \A i \in 1 .. Len(q) : t.events[i] = q[i]
      BY <1>1, AppendProperties, LenProperties
    <2>2. \A i \in 1 .. Len(t.events) : i \in 1 .. Len(q) \/ i = Len(t.events)
      BY <2>1
    <2>3. \A i \in 1 .. Len(q) : q[i] # Completed BY <1>2 DEF Has
    <2> QED BY <2>1, <2>2, <2>3
  <1>8. \E y \in Seq(Chars) : t.text = TextOf(t.events) \o y
    <2>1. t.text \in Texts /\ << >> \in Seq(Chars)
      BY SecretFacts, EmptySeq DEF Stages
    <2>2. t.text = TextOf(t.events) \o << >> BY <1>4, <2>1, TextsConcat
    <2> QED BY <2>1, <2>2
  <1>9. Telling(t) BY <1>4, <1>6, <1>7, <1>8 DEF Telling
  <1>10. Ordered(t.events) BY <1>1, <1>2, OrderedAppend
  <1>11. \A x \in Indexes : x \in Used(t) <=> Has(t.events, Call(x))
    <2>1. Used(t) = Used(s) BY DEF Used
    <2>2. \A x \in Indexes : x <= MaxCalls BY InOrderIs DEF Indexes
    <2>3. \A x : Call(x) # Completed BY DEF Call, Completed
    <2> QED BY <1>2, <1>5, <2>1, <2>2, <2>3
  <1>12. TellsAll(t) BY <1>6, <1>10, <1>11 DEF TellsAll
  <1> QED BY <1>9, <1>12 DEF Good

\* It goes on with the same body.
Same(s, t) == t.bytes = s.bytes /\ t.plain = s.plain

\* A commit tells every call and the completion, or fails.
LEMMA GoodCommit ==
    ASSUME NEW s, Good(s), ~s.failed, ~s.completed
    PROVE  Good(Commit(s)) /\ Same(s, Commit(s))
  <1> DEFINE told == Committing(s, s, InOrder)
             c == Commit(s)
             v == Unless(s.events, Emit(told, Completed))
             w == [v EXCEPT !.completed = TRUE]
  <1>1. \/ told.failed /\ c = told
        \/ ~told.failed /\ c = Fail(s)
        \/ ~told.failed /\ c = w
    BY DEF Commit, Committing
  <1>2. Like(s, told) /\ Told(s, told, MaxCalls) BY CommitTold
  <1>3. s \in Stages /\ told \in Stages /\ Same(s, told)
    BY <1>2 DEF Good, Like, Same
  <1>4. s.events \in Seq(Incoming) BY <1>3 DEF Stages
  <1> HIDE DEF told, c
  <1>5. ASSUME told.failed, c = told PROVE Good(c) /\ Same(s, c)
    <2>1. CASE c.events = s.events
      BY <1>2, <1>3, <1>5, <2>1, GoodQuiet DEF Like
    <2>2. CASE c.events = Append(s.events, Failed)
      BY <1>2, <1>3, <1>5, <2>2, GoodFail
    <2> QED BY <1>2, <1>5, <2>1, <2>2 DEF Told
  <1>6. ASSUME c = Fail(s) PROVE Good(c) /\ Same(s, c)
    BY <1>3, <1>6, FailIs, GoodFail DEF Like, Same
  <1>7. ASSUME ~told.failed, c = w PROVE Good(c) /\ Same(s, c)
    <2> DEFINE e == Emit(told, Completed)
    <2>1. Completed \in Incoming BY IncomingEvents
    <2>2. /\ Like(told, e)
          /\ \/ e.failed
             \/ ~e.failed /\ e.events = Append(told.events, Completed)
      BY <1>3, <1>7, <2>1, EmitIs
    <2>3. v = Unless(s.events, e) OBVIOUS
    <2> HIDE DEF e, v
    <2>4. e \in Stages /\ e.text = s.text /\ Same(s, e) /\ e.calls = s.calls
      BY <1>2, <1>3, <2>2 DEF Like, Same
    <2>5. CASE e.failed
      <3>1. v = [e EXCEPT !.events = s.events] BY <2>3, <2>5 DEF Unless
      <3>2. /\ v \in Stages /\ v.text = s.text /\ Same(s, v) /\ v.failed
            /\ v.events = s.events
        BY <1>4, <2>4, <2>5, <3>1, WithEvents DEF Like, Same
      <3>3. /\ c \in Stages /\ c.text = s.text /\ Same(s, c) /\ c.failed
            /\ c.events = s.events
        BY <1>7, <3>2 DEF Stages, Same
      <3> QED BY <3>3, GoodQuiet
    <2>6. CASE ~e.failed
      <3>1. v = e BY <2>3, <2>6 DEF Unless
      <3>2. /\ c \in Stages /\ c.text = s.text /\ Same(s, c) /\ ~c.failed
            /\ c.events = e.events /\ c.calls = s.calls /\ c.completed
        BY <1>7, <2>4, <2>6, <3>1 DEF Stages, Same
      <3> QED BY <1>2, <1>3, <1>7, <2>2, <2>6, <3>2, GoodCompleted
    <2> QED BY <2>5, <2>6
  <1> QED BY <1>1, <1>5, <1>6, <1>7 DEF c

----------------------------------------------------------------------------
(* Lines. *)

\* The parts of a line.
LEMMA FrameKinds ==
    ASSUME NEW line \in Frames
    PROVE  /\ line.kind \in {"text", "call", "done", "comment", "bad"}
           /\ line.kind = "text" => line \in Deltas
           /\ line.kind = "call" => line.index \in Indexes
  BY IncomingEvents DEF Frames

\* A line keeps the assembler good,
LEMMA GoodLine ==
    ASSUME NEW s, Good(s), NEW line \in Frames
    PROVE  Good(ConsumeLine(s, line)) /\ Same(s, ConsumeLine(s, line))
  <1> DEFINE c == ConsumeLine(s, line)
  <1>1. CASE s.failed \/ s.completed \/ line.kind = "comment"
    <2>1. c = s BY <1>1 DEF ConsumeLine
    <2> QED BY <2>1 DEF Same
  <1>2. CASE ~s.failed /\ ~s.completed /\ line.kind = "bad"
    <2>1. c = Fail(s) BY <1>2 DEF ConsumeLine
    <2>2. s \in Stages BY DEF Good
    <2> HIDE DEF c
    <2>3. Good(c) /\ Same(s, c)
      BY <1>2, <2>1, <2>2, FailIs, GoodFail DEF Like, Same
    <2> QED BY <2>3 DEF c
  <1>3. CASE ~s.failed /\ ~s.completed /\ line.kind = "done"
    <2>1. c = Commit(s) BY <1>3 DEF ConsumeLine
    <2> QED BY <1>3, <2>1, GoodCommit
  <1>4. CASE ~s.failed /\ ~s.completed /\ line.kind = "text"
    <2>1. c = Emit([s EXCEPT !.text = @ \o line.s,
                             !.spoken = @ \o OnAnswer(line)], line)
      BY <1>4 DEF ConsumeLine
    <2>2. line \in Deltas BY <1>4, FrameKinds
    <2> QED BY <1>4, <2>1, <2>2, GoodEmitText DEF Same
  <1>5. CASE ~s.failed /\ ~s.completed /\ line.kind = "call"
    <2> DEFINE i == line.index
               call == [head |-> s.calls[i].head \/ "head" \in line.parts,
                        args |-> IF "args" \in line.parts /\ s.calls[i].args <= Pieces
                                 THEN s.calls[i].args + 1 ELSE s.calls[i].args]
    <2>1. c = [s EXCEPT !.calls[i] = call] BY <1>5 DEF ConsumeLine
    <2>2. i \in Indexes BY <1>5, FrameKinds
    <2>3. s \in Stages BY DEF Good
    <2>4. s.calls[i] \in [head : BOOLEAN, args : Nat] BY <2>2, <2>3 DEF Stages
    <2>5. call.args \in Nat
      BY <2>4
    <2>6. call.head \in BOOLEAN
      BY <2>4
    <2>7. call \in [head : BOOLEAN, args : Nat]
      BY <2>5, <2>6
    <2> HIDE DEF call, i, c
    <2>8. /\ c \in Stages /\ c.events = s.events /\ c.text = s.text
          /\ c.failed = s.failed /\ c.completed = s.completed
          /\ Same(s, c)
      BY <2>1, <2>2, <2>3, <2>7 DEF Stages, Same
    <2>9. Telling(c) BY <2>8 DEF Good, Telling
    <2>10. TellsAll(c) BY <1>5, <2>8 DEF Good, TellsAll
    <2> QED BY <2>8, <2>9, <2>10 DEF Good, c
  <1> QED BY <1>1, <1>2, <1>3, <1>4, <1>5, FrameKinds

\* and so do the lines of a chunk,
LEMMA GoodConsume ==
    ASSUME NEW s, Good(s), NEW lines \in Seq(Frames)
    PROVE  Good(Consume(s, lines)) /\ Same(s, Consume(s, lines))
  <1> DEFINE P == {t \in Stages : Good(t) /\ Same(s, t)}
  <1>1. s \in P BY DEF Good, Same
  <1>2. \A t \in P, line \in Frames : ConsumeLine(t, line) \in P
    <2> SUFFICES ASSUME NEW t \in P, NEW line \in Frames
                 PROVE  ConsumeLine(t, line) \in P
      OBVIOUS
    <2>1. Good(ConsumeLine(t, line)) /\ Same(t, ConsumeLine(t, line))
      BY GoodLine
    <2> HIDE DEF P
    <2>2. Good(t) /\ Same(s, t) BY DEF P
    <2>3. ConsumeLine(t, line) \in Stages BY <2>1 DEF Good
    <2>4. Same(s, ConsumeLine(t, line)) BY <2>1, <2>2 DEF Same
    <2> QED BY <2>1, <2>3, <2>4 DEF P
  <1>3. \A t \in P : Good(t) /\ Same(s, t) OBVIOUS
  <1> HIDE DEF P
  <1>4. \E h \in [0 .. Len(lines) -> P] :
            /\ h[0] = s /\ h[Len(lines)] = Consume(s, lines)
            /\ \A k \in 1 .. Len(lines) : h[k] = ConsumeLine(h[k - 1], lines[k])
    BY <1>1, <1>2, ConsumeRuns
  <1>5. Len(lines) \in 0 .. Len(lines)
    <2>1. Len(lines) \in Nat BY LenProperties
    <2> QED BY <2>1
  <1>6. Consume(s, lines) \in P BY <1>4, <1>5
  <1> QED BY <1>3, <1>6

\* and the end of the body, behind which the assembler is at its end.
LEMMA GoodFinished ==
    ASSUME NEW s, Good(s)
    PROVE  /\ Good(Finished(s)) /\ Same(s, Finished(s))
           /\ Finished(s).failed \/ Finished(s).completed
  <1>1. CASE s.failed \/ s.completed BY <1>1 DEF Finished, Same
  <1>2. CASE ~s.failed /\ ~s.completed
    <2>1. Finished(s) = Fail(s) BY <1>2 DEF Finished
    <2>2. s \in Stages BY DEF Good
    <2>3. Good(Fail(s)) /\ Same(s, Fail(s)) /\ Fail(s).failed
      BY <1>2, <2>2, FailIs, GoodFail DEF Like, Same
    <2> QED BY <2>1, <2>3
  <1> QED BY <1>1, <1>2

\* The stage a read begins with.
LEMMA GoodAssembling ==
    ASSUME asm \in Assemblies, ~asm.failed, ~asm.completed, NEW b \in Nat
    PROVE  LET s == [Assembling EXCEPT !.bytes = b]
           IN  /\ Good(Assembling) /\ Good(s)
               /\ s.bytes = b /\ s.plain = asm.plain
               /\ Same(asm, Assembling) /\ ~Assembling.failed /\ ~Assembling.completed
  <1> DEFINE s == [Assembling EXCEPT !.bytes = b]  a == Assembling
  <1>1. /\ a \in Stages
        /\ a.events = << >> /\ a.text = << >> /\ ~a.failed /\ ~a.completed
        /\ Same(asm, a)
    BY AssemblingIs DEF Same
  <1> HIDE DEF a
  <1>2. /\ s \in Stages
        /\ s.events = << >> /\ s.text = << >> /\ ~s.failed /\ ~s.completed
        /\ s.bytes = b /\ s.plain = asm.plain
    BY <1>1 DEF Stages, Same, a
  <1> HIDE DEF s
  <1>3. ASSUME NEW t \in Stages, t.events = << >>, t.text = << >>, ~t.failed,
               ~t.completed
        PROVE  Good(t)
    <2>1. Len(<< >>) = 0 /\ << >> \in Seq(Chars) BY EmptySeq
    <2>2. << >> \o << >> = << >> BY TextsConcat
    <2>3. (\A x : ~Has(t.events, x)) /\ ~HasCall(t.events)
      BY <1>3, <2>1 DEF Has, HasCall
    <2>4. TextOf(t.events) = << >> /\ t.text = TextOf(t.events) \o << >>
      BY <1>3, <2>2, TextOfEmpty
    <2>5. \A i \in 1 .. Len(t.events) : t.events[i] # Completed
      BY <2>3 DEF Has
    <2>6. Telling(t) BY <1>3, <2>1, <2>3, <2>4, <2>5 DEF Telling
    <2>7. TellsAll(t) BY <1>3, <2>3 DEF TellsAll
    <2> QED BY <1>3, <2>6, <2>7 DEF Good
  <1>4. Good(a) /\ Good(s) BY <1>1, <1>2, <1>3
  <1> QED BY <1>1, <1>2, <1>4 DEF a, s

\* A body that is not streamed.
LEMMA BodyFacts ==
    ASSUME NEW body \in Bodies
    PROVE  /\ body \in Seq(Incoming) /\ BodyText(body) = TextOf(body)
           /\ BodyText(body) \in Seq(Chars)
           /\ \A i \in 1 .. Len(body) : body[i] # Cancelled
           /\ \A i \in 1 .. Len(body) : body[i] = Completed => i = Len(body)
           /\ Has(body, Failed) => body = <<Failed>>
           /\ Has(body, Completed) <=> body # <<Failed>>
           /\ Len(body) \in Nat \ {0}
  <1>1. /\ Failed \in Incoming /\ Completed \in Incoming /\ Failed \in Events
        /\ Completed \in Events
        /\ Completed.kind = "completed" /\ Failed.kind = "failed"
        /\ Cancelled.kind = "cancelled"
        /\ Said(Failed) = << >> /\ Said(Completed) = << >>
    BY IncomingEvents, SaidType DEF Failed, Completed
  <1>2. \A d \in Deltas :
            /\ d.s \in Seq(Chars) /\ d.s \in Texts /\ d \in Incoming
            /\ d \in Events /\ d.kind = "text" /\ Said(d) = d.s
    BY SecretFacts, IncomingEvents DEF Said
  <1>3. \A i \in Indexes : /\ Call(i) \in Incoming /\ Call(i) \in Events
                           /\ Call(i).kind = "call" /\ Said(Call(i)) = << >>
    BY IncomingEvents, SaidType
  <1>4. CASE body = <<Failed>>
    <2>1. body \in Seq(Incoming) /\ Len(body) = 1 /\ body[1] = Failed
      BY <1>1, <1>4
    <2>2. BodyText(body) = << >> /\ TextOf(body) = << >> /\ << >> \in Seq(Chars)
      BY <1>1, <1>4, EmptySeq, TextOfAppend, TextOfEmpty DEF BodyText
    <2>3. \A i \in 1 .. Len(body) : i = 1 BY <2>1
    <2> QED BY <1>1, <1>4, <2>1, <2>2, <2>3 DEF Has
  <1>5. ASSUME NEW d \in Deltas, body = <<d, Completed>>
        PROVE  /\ body \in Seq(Incoming) /\ BodyText(body) = TextOf(body)
               /\ BodyText(body) \in Seq(Chars)
               /\ \A i \in 1 .. Len(body) : body[i] # Cancelled /\ body[i] # Failed
               /\ \A i \in 1 .. Len(body) : body[i] = Completed => i = Len(body)
               /\ Len(body) \in Nat \ {0} /\ body # <<Failed>>
               /\ Has(body, Completed)
    <2>1. /\ body \in Seq(Incoming) /\ Len(body) = 2 /\ body[1] = d
          /\ body[2] = Completed
      BY <1>1, <1>2, <1>5
    <2>2. body # <<Failed>> BY <2>1
    <2>3. BodyText(body) = d.s BY <1>2, <2>1, <2>2 DEF BodyText
    <2>4. TextOf(body) = d.s
      <3>1. <<d>> \in Seq(Events) /\ body = Append(<<d>>, Completed)
        BY <1>2, <1>5
      <3>2. TextOf(body) = TextOf(<<d>>) \o << >>
        BY <1>1, <3>1, TextOfAppend
      <3>3. TextOf(<<d>>) = d.s BY <1>2, <3>1, TextOfAppend
      <3> QED BY <1>2, <3>2, <3>3, TextsConcat
    <2>5. \A i \in 1 .. Len(body) : i = 1 \/ i = 2 BY <2>1
    <2>6. \A i \in 1 .. Len(body) : body[i] # Cancelled /\ body[i] # Failed
      BY <1>1, <1>2, <2>1, <2>5
    <2>7. \A i \in 1 .. Len(body) : body[i] = Completed => i = Len(body)
      BY <1>1, <1>2, <2>1, <2>5
    <2>8. 2 \in 1 .. Len(body) BY <2>1
    <2> QED BY <1>2, <2>1, <2>2, <2>3, <2>4, <2>6, <2>7, <2>8 DEF Has
  <1>6. ASSUME NEW d \in Deltas, NEW j \in Indexes,
               body = <<d, Call(j), Completed>>
        PROVE  /\ body \in Seq(Incoming) /\ BodyText(body) = TextOf(body)
               /\ BodyText(body) \in Seq(Chars)
               /\ \A i \in 1 .. Len(body) : body[i] # Cancelled /\ body[i] # Failed
               /\ \A i \in 1 .. Len(body) : body[i] = Completed => i = Len(body)
               /\ Len(body) \in Nat \ {0} /\ body # <<Failed>>
               /\ Has(body, Completed)
    <2>1. /\ body \in Seq(Incoming) /\ Len(body) = 3 /\ body[1] = d
          /\ body[2] = Call(j) /\ body[3] = Completed
      BY <1>1, <1>2, <1>3, <1>6
    <2>2. body # <<Failed>> BY <2>1
    <2>3. BodyText(body) = d.s BY <1>2, <2>1, <2>2 DEF BodyText
    <2>4. TextOf(body) = d.s
      <3>1. /\ <<d>> \in Seq(Events) /\ <<d, Call(j)>> \in Seq(Events)
            /\ <<d, Call(j)>> = Append(<<d>>, Call(j))
            /\ body = Append(<<d, Call(j)>>, Completed)
        BY <1>2, <1>3, <1>6
      <3>2. TextOf(<<d>>) = d.s BY <1>2, <3>1, TextOfAppend
      <3>3. TextOf(<<d, Call(j)>>) = d.s \o << >>
        BY <1>3, <3>1, <3>2, TextOfAppend
      <3>4. TextOf(body) = (d.s \o << >>) \o << >>
        BY <1>1, <3>1, <3>3, TextOfAppend
      <3> QED BY <1>2, <3>4, TextsConcat
    <2>5. \A i \in 1 .. Len(body) : i = 1 \/ i = 2 \/ i = 3 BY <2>1
    <2>6. \A i \in 1 .. Len(body) : body[i] # Cancelled /\ body[i] # Failed
      BY <1>1, <1>2, <1>3, <2>1, <2>5
    <2>7. \A i \in 1 .. Len(body) : body[i] = Completed => i = Len(body)
      BY <1>1, <1>2, <1>3, <2>1, <2>5
    <2>8. 3 \in 1 .. Len(body) BY <2>1
    <2> QED BY <1>2, <2>1, <2>2, <2>3, <2>4, <2>6, <2>7, <2>8 DEF Has
  <1>7. \/ body = <<Failed>>
        \/ \E d \in Deltas : body = <<d, Completed>>
        \/ \E d \in Deltas, j \in Indexes : body = <<d, Call(j), Completed>>
    BY DEF Bodies
  <1>8. CASE body # <<Failed>>
    <2>1. /\ body \in Seq(Incoming) /\ BodyText(body) = TextOf(body)
          /\ BodyText(body) \in Seq(Chars)
          /\ \A i \in 1 .. Len(body) : body[i] # Cancelled /\ body[i] # Failed
          /\ \A i \in 1 .. Len(body) : body[i] = Completed => i = Len(body)
          /\ Len(body) \in Nat \ {0} /\ body # <<Failed>>
          /\ Has(body, Completed)
      BY <1>5, <1>6, <1>7, <1>8
    <2> QED BY <2>1 DEF Has
  <1> QED BY <1>4, <1>8

----------------------------------------------------------------------------
(* What a read queues. *)

\* The event of a mask.
Mask == Text("answer", <<Marker>>)

\* The mask is a text event, and none of the others.
LEMMA MaskIs ==
    /\ <<Marker>> \in Texts /\ Mask \in Events /\ Mask.kind = "text"
    /\ Said(Mask) = <<Marker>>
    /\ Mask \notin {Completed, Failed, Cancelled}
    /\ \A i \in Indexes : Call(i) # Mask
  <1>1. <<Marker>> \in Texts /\ "answer" \in Channels BY MarkerText DEF Channels
  <1>2. /\ Mask \in Events /\ Mask.kind = "text" /\ Mask.s = <<Marker>>
    BY <1>1, IncomingEvents DEF Mask
  <1>3. Said(Mask) = <<Marker>> BY <1>2 DEF Said
  <1>4. Mask \notin {Completed, Failed, Cancelled}
    BY <1>2, IncomingEvents
  <1>5. \A i \in Indexes : Call(i) # Mask BY <1>2, IncomingEvents
  <1> QED BY <1>1, <1>2, <1>3, <1>4, <1>5

\* The completion, if there is one, is the last event.
CompletedLast(q) == \A i \in 1 .. Len(q) : q[i] = Completed => i = Len(q)

\* Two sequences of events with the same calls and ends, in their order.
LikeQueue(q, r) ==
    /\ \A x \in {Completed, Failed, Cancelled} : Has(q, x) <=> Has(r, x)
    /\ \A i \in Indexes : Has(q, Call(i)) <=> Has(r, Call(i))
    /\ HasCall(q) <=> HasCall(r)
    /\ Ordered(q) => Ordered(r)

\* What the redactor leaves of the order of the events.
LEMMA AlikeQueue ==
    ASSUME NEW q \in Seq(Events), NEW E \in Seq(Incoming), Alike(q, E)
    PROVE  LikeQueue(E, q) /\ (CompletedLast(E) => CompletedLast(q))
  <1>1. /\ Len(q) = Len(E)
        /\ \A i \in 1 .. Len(E) : /\ q[i].kind = E[i].kind
                                  /\ E[i].kind # "text" => q[i] = E[i]
    BY DEF Alike
  <1>2. \A x \in Events, i \in 1 .. Len(E) :
            x.kind # "text" => (q[i] = x <=> E[i] = x)
    BY <1>1
  <1>3. /\ {Completed, Failed, Cancelled} \subseteq Events
        /\ \A i \in Indexes : Call(i) \in Events /\ Call(i).kind = "call"
        /\ Completed.kind = "completed" /\ Failed.kind = "failed"
        /\ Cancelled.kind = "cancelled"
    BY IncomingEvents
  <1>4. \A x \in Events : x.kind # "text" => (Has(E, x) <=> Has(q, x))
    BY <1>1, <1>2 DEF Has
  <1>5. /\ \A x \in {Completed, Failed, Cancelled} : Has(E, x) <=> Has(q, x)
        /\ \A i \in Indexes : Has(E, Call(i)) <=> Has(q, Call(i))
    BY <1>3, <1>4
  <1>6. HasCall(E) <=> HasCall(q) BY <1>1 DEF HasCall
  <1>7. Ordered(E) => Ordered(q)
    <2> SUFFICES ASSUME Ordered(E), NEW i \in 1 .. Len(q), NEW j \in 1 .. Len(q),
                        q[i].kind = "call", q[j].kind = "call", i < j
                 PROVE  q[i].index < q[j].index
      BY DEF Ordered
    <2>1. /\ i \in 1 .. Len(E) /\ j \in 1 .. Len(E)
          /\ E[i].kind = "call" /\ E[j].kind = "call" /\ q[i] = E[i] /\ q[j] = E[j]
      BY <1>1
    <2> QED BY <2>1 DEF Ordered
  <1>8. CompletedLast(E) => CompletedLast(q)
    BY <1>1, <1>2, <1>3 DEF CompletedLast
  <1> QED BY <1>5, <1>6, <1>7, <1>8 DEF LikeQueue

\* Two changes of that sort are one.
LEMMA LikeQueueTrans ==
    ASSUME NEW q, NEW r, NEW t, LikeQueue(q, r), LikeQueue(r, t)
    PROVE  LikeQueue(q, t)
  BY DEF LikeQueue

\* The calls before the last event are in their order too.
LEMMA OrderedFront ==
    ASSUME NEW q \in Seq(Events), NEW e \in Events, Ordered(Append(q, e))
    PROVE  Ordered(q)
  <1>1. /\ Len(Append(q, e)) = Len(q) + 1 /\ Len(q) \in Nat
        /\ \A i \in 1 .. Len(q) : Append(q, e)[i] = q[i]
    BY AppendProperties, LenProperties
  <1> DEFINE a == Append(q, e)
  <1>2. /\ \A i \in 1 .. Len(q) : i \in 1 .. Len(a) /\ a[i] = q[i]
        /\ Ordered(a)
    BY <1>1
  <1> HIDE DEF a
  <1> QED BY <1>2 DEF Ordered

\* q is r with a mask as its last event, or before the completion that is.
Masking(r, q) ==
    \/ q = Append(r, Mask)
    \/ \E front \in Seq(Events) :
          r = Append(front, Completed) /\ q = Append(Append(front, Mask), Completed)

\* The mask changes nothing but the text.
LEMMA MaskingQueue ==
    ASSUME NEW r \in Seq(Events), NEW q, Masking(r, q)
    PROVE  q \in Seq(Events) /\ LikeQueue(r, q)
  <1>0. Mask \in Events /\ Completed \in Events BY MaskIs, IncomingEvents
  <1>1. ASSUME NEW p \in Seq(Events)
        PROVE  /\ Append(p, Mask) \in Seq(Events)
               /\ LikeQueue(p, Append(p, Mask))
               /\ Ordered(p) <=> Ordered(Append(p, Mask))
    <2> DEFINE a == Append(p, Mask)
    <2>1. a \in Seq(Events) BY <1>0, AppendProperties
    <2>2. \A x : Has(a, x) <=> Has(p, x) \/ x = Mask BY <1>0, HasAppend
    <2>3. HasCall(a) <=> HasCall(p) BY <1>0, MaskIs, HasAppend
    <2>4. Ordered(p) => Ordered(a) BY <1>0, MaskIs, OrderedAppend
    <2>5. Ordered(a) => Ordered(p) BY <1>0, OrderedFront
    <2> HIDE DEF a
    <2>6. LikeQueue(p, a) BY <2>2, <2>3, <2>4, MaskIs DEF LikeQueue
    <2> QED BY <2>1, <2>4, <2>5, <2>6 DEF a
  <1>2. CASE q = Append(r, Mask) BY <1>1, <1>2
  <1>3. ASSUME NEW front \in Seq(Events), r = Append(front, Completed),
               q = Append(Append(front, Mask), Completed)
        PROVE  q \in Seq(Events) /\ LikeQueue(r, q)
    <2> DEFINE m == Append(front, Mask)
    <2>1. m \in Seq(Events) /\ LikeQueue(front, m) /\ (Ordered(front) <=> Ordered(m))
      BY <1>1
    <2>2. q = Append(m, Completed) BY <1>3
    <2> HIDE DEF m
    <2>3. q \in Seq(Events) BY <1>0, <2>1, <2>2, AppendProperties
    <2>4. Completed.kind = "completed" BY IncomingEvents
    <2>5. /\ \A x : Has(r, x) <=> Has(front, x) \/ x = Completed
          /\ HasCall(r) <=> HasCall(front)
      BY <1>0, <1>3, <2>4, HasAppend
    <2>6. /\ \A x : Has(q, x) <=> Has(m, x) \/ x = Completed
          /\ HasCall(q) <=> HasCall(m)
      BY <1>0, <2>1, <2>2, <2>4, HasAppend
    <2>7. Ordered(r) => Ordered(front) BY <1>0, <1>3, OrderedFront
    <2>8. Ordered(m) => Ordered(q) BY <1>0, <2>1, <2>2, <2>4, OrderedAppend
    <2> QED BY <2>1, <2>3, <2>5, <2>6, <2>7, <2>8 DEF LikeQueue
  <1> QED BY <1>2, <1>3 DEF Masking

\* No failure and no cancellation is among the first k events.
Quiet(q, k) == \A i \in 1 .. k : q[i] \notin {Failed, Cancelled}

\* What the first k events say with the mask is what as many of them said
\* without it, or all of it and the mask, which no failure comes before.
LEMMA MaskingText ==
    ASSUME NEW r \in Seq(Events), NEW q, Masking(r, q)
    PROVE  /\ TextOf(q) = TextOf(r) \o <<Marker>>
           /\ \A k \in 0 .. Len(q) :
                 \/ \E j \in 0 .. Len(r) : TextTo(q, k) = TextTo(r, j)
                 \/ TextTo(q, k) = TextOf(q) /\ (Has(r, Failed) => ~Quiet(q, k))
  <1>0. /\ Mask \in Events /\ Completed \in Events /\ Said(Mask) = <<Marker>>
        /\ <<Marker>> \in Texts /\ Said(Completed) = << >> /\ Completed # Failed
    BY MaskIs, IncomingEvents, SaidType DEF Completed, Failed
  <1>1. CASE q = Append(r, Mask)
    <2>1. /\ Len(q) = Len(r) + 1 /\ Len(r) \in Nat
          /\ \A i \in 1 .. Len(r) : q[i] = r[i]
      BY <1>0, <1>1, AppendProperties, LenProperties
    <2>2. /\ \A k \in 0 .. Len(r) : TextTo(q, k) = TextTo(r, k)
          /\ TextTo(q, Len(r) + 1) = TextOf(r) \o <<Marker>>
      BY <1>0, <1>1, TextToAppend
    <2>3. TextOf(q) = TextOf(r) \o <<Marker>> BY <1>0, <1>1, TextOfAppend
    <2>4. ASSUME Has(r, Failed) PROVE ~Quiet(q, Len(r) + 1)
      <3>1. PICK f \in 1 .. Len(r) : r[f] = Failed BY <2>4 DEF Has
      <3>2. f \in 1 .. Len(r) + 1 /\ q[f] = Failed BY <2>1, <3>1
      <3> QED BY <3>2 DEF Quiet
    <2>5. \A k \in 0 .. Len(q) : k \in 0 .. Len(r) \/ k = Len(r) + 1 BY <2>1
    <2> QED BY <2>2, <2>3, <2>4, <2>5
  <1>2. ASSUME NEW front \in Seq(Events), r = Append(front, Completed),
               q = Append(Append(front, Mask), Completed)
        PROVE  /\ TextOf(q) = TextOf(r) \o <<Marker>>
               /\ \A k \in 0 .. Len(q) :
                     \/ \E j \in 0 .. Len(r) : TextTo(q, k) = TextTo(r, j)
                     \/ TextTo(q, k) = TextOf(q) /\ (Has(r, Failed) => ~Quiet(q, k))
    <2> DEFINE m == Append(front, Mask)  n == Len(front)
    <2>1. m \in Seq(Events) /\ q = Append(m, Completed) /\ q \in Seq(Events)
      BY <1>0, <1>2, AppendProperties
    <2>2. /\ Len(m) = n + 1 /\ n \in Nat /\ Len(r) = n + 1 /\ Len(q) = Len(m) + 1
          /\ \A i \in 1 .. n : m[i] = front[i]
          /\ \A i \in 1 .. Len(m) : q[i] = m[i]
          /\ \A i \in 1 .. n : r[i] = front[i]
          /\ r[n + 1] = Completed
      BY <1>0, <1>2, <2>1, AppendProperties, LenProperties
    <2>3. /\ \A k \in 0 .. n : TextTo(m, k) = TextTo(front, k)
          /\ TextTo(m, n + 1) = TextOf(front) \o <<Marker>>
          /\ TextOf(m) = TextOf(front) \o <<Marker>>
      BY <1>0, TextToAppend, TextOfAppend
    <2>4. /\ \A k \in 0 .. n : TextTo(r, k) = TextTo(front, k)
          /\ TextOf(r) = TextOf(front) \o << >>
      BY <1>0, <1>2, TextToAppend, TextOfAppend
    <2> HIDE DEF m, n
    <2>5. /\ \A k \in 0 .. Len(m) : TextTo(q, k) = TextTo(m, k)
          /\ TextTo(q, Len(m) + 1) = TextOf(m) \o << >>
          /\ TextOf(q) = TextOf(m) \o << >>
      <3>1. TextOf(q) = TextOf(m) \o << >> BY <1>0, <2>1, TextOfAppend
      <3>2. /\ \A k \in 0 .. Len(m) : TextTo(Append(m, Completed), k) = TextTo(m, k)
            /\ TextTo(Append(m, Completed), Len(m) + 1) = TextOf(m) \o << >>
        <4>1. m \in Seq(Events) /\ Completed \in Events BY <1>0, <2>1
        <4>2. /\ \A k \in 0 .. Len(m) : TextTo(Append(m, Completed), k) = TextTo(m, k)
              /\ TextTo(Append(m, Completed), Len(m) + 1) = TextOf(m) \o Said(Completed)
          BY <4>1, TextToAppend
        <4> QED BY <1>0, <4>2
      <3> QED BY <2>1, <3>1, <3>2
    <2>6. /\ TextOf(front) \in Texts /\ TextOf(m) \in Texts
      BY <2>1, TextOfType
    <2>7. TextOf(r) = TextOf(front) /\ TextOf(q) = TextOf(m)
      BY <2>4, <2>5, <2>6, TextsConcat
    <2>8. TextOf(q) = TextOf(r) \o <<Marker>> BY <2>3, <2>7
    <2>9. \A k \in 0 .. n : k \in 0 .. Len(r) /\ TextTo(q, k) = TextTo(r, k)
      BY <2>2, <2>3, <2>4, <2>5
    <2>10. TextTo(q, n + 1) = TextOf(q) /\ TextTo(q, n + 2) = TextOf(q)
      <3>1. n + 1 \in 0 .. Len(m) /\ n + 1 = Len(m) /\ n + 2 = Len(m) + 1
        BY <2>2
      <3> QED BY <2>3, <2>5, <2>7, <3>1
    <2>11. ASSUME Has(r, Failed) PROVE ~Quiet(q, n + 1) /\ ~Quiet(q, n + 2)
      <3>1. PICK f \in 1 .. Len(r) : r[f] = Failed BY <2>11 DEF Has
      <3>2. f \in 1 .. n BY <1>0, <2>2, <3>1
      <3>3. /\ f \in 1 .. n + 1 /\ f \in 1 .. n + 2 /\ q[f] = Failed
        BY <2>2, <3>1, <3>2
      <3> QED BY <3>3 DEF Quiet
    <2>12. \A k \in 0 .. Len(q) : k \in 0 .. n \/ k = n + 1 \/ k = n + 2
      BY <2>2
    <2> QED BY <2>8, <2>9, <2>10, <2>11, <2>12
  <1> QED BY <1>1, <1>2 DEF Masking

\* What the end of a stream does to the queue.
LEMMA FlushIs ==
    ASSUME NEW r \in Redactions, CompletedLast(r.queue), NEW x, x = Flush(r)
    PROVE  /\ r.held = << >> => x = r
           /\ r.held # << >> =>
                 x.held = << >> /\ Masking(r.queue, x.queue) /\ CompletedLast(x.queue)
  <1> DEFINE q == r.queue  n == Len(q)
             at == SelectLastInSeq(q, LAMBDA e : e = Completed)
             I == {i \in 1 .. n : q[i] = Completed}
  <1>1. q \in Seq(Events) /\ n \in Nat /\ Mask \in Events /\ Completed \in Events
        /\ Mask # Completed
    BY MaskIs, IncomingEvents, LenProperties DEF Redactions
  <1>2. at = IF I # {} THEN Max(I) ELSE 0 BY DEF SelectLastInSeq
  <1>3. CASE r.held = << >> BY <1>3 DEF Flush
  <1>4. CASE r.held # << >>
    <2>1. x = [held |-> << >>,
               queue |-> IF at = 0 THEN Append(q, Mask) ELSE InsertAt(q, at, Mask)]
      BY <1>4 DEF Flush, Mask
    <2>2. ASSUME I = {}
          PROVE  Masking(q, x.queue) /\ CompletedLast(x.queue) /\ x.held = << >>
      <3>1. x.queue = Append(q, Mask) /\ x.held = << >>
        <4>1. at = 0 BY <1>2, <2>2
        <4> HIDE DEF at, q
        <4> QED BY <2>1, <4>1
      <3> HIDE DEF q, n, at
      <3>2. Masking(q, x.queue) BY <3>1 DEF Masking
      <3>3. /\ Len(x.queue) = n + 1 /\ x.queue[n + 1] = Mask
            /\ \A i \in 1 .. n : x.queue[i] = q[i] /\ q[i] # Completed
        BY <1>1, <2>2, <3>1, AppendProperties DEF n
      <3>4. \A i \in 1 .. n + 1 : i \in 1 .. n \/ i = n + 1 BY <1>1
      <3>5. CompletedLast(x.queue) BY <1>1, <3>3, <3>4 DEF CompletedLast
      <3> QED BY <3>1, <3>2, <3>5
    <2>3. ASSUME I # {}
          PROVE  Masking(q, x.queue) /\ CompletedLast(x.queue) /\ x.held = << >>
      <3>1. n \in 1 .. n /\ q[n] = Completed /\ Max(I) = n
        <4>1. Max(I) \in I /\ I \subseteq 1 .. n BY <1>1, <2>3, Greatest
        <4>2. \A i \in I : i = n BY DEF CompletedLast
        <4> HIDE DEF I
        <4>3. Max(I) = n /\ n \in I BY <4>1, <4>2
        <4> QED BY <4>1, <4>3 DEF I
      <3>2. at = n BY <1>2, <2>3, <3>1
      <3> DEFINE front == SubSeq(q, 1, n - 1)
      <3>3. /\ front \in Seq(Events) /\ Len(front) = n - 1 /\ n - 1 \in Nat
            /\ \A i \in 1 .. n - 1 : front[i] = q[i]
        <4>1. n - 1 \in 0 .. n /\ n - 1 \in Nat BY <1>1, <3>1
        <4> HIDE DEF n
        <4>2. n = Len(q) BY DEF n
        <4> HIDE DEF q
        <4> QED BY <1>1, <4>1, <4>2, FirstOnes
      <3>4. SubSeq(q, n, n) = <<Completed>>
        <4>1. n \in 1 .. Len(q) + 1 /\ n \in n - 1 .. Len(q) /\ n - n + 1 = 1
              /\ n + 1 - 1 = n
          BY <1>1, <3>1
        <4> DEFINE y == SubSeq(q, n, n)
        <4> HIDE DEF n, q
        <4>2. /\ y \in Seq(Events) /\ Len(y) = n - n + 1
              /\ \A k \in 1 .. n - n + 1 : y[k] = q[n + k - 1]
          BY <1>1, <4>1, Part
        <4>3. Len(y) = 1 /\ y[1] = Completed BY <3>1, <4>1, <4>2
        <4> HIDE DEF y
        <4>4. y = <<Completed>>
          <5>1. /\ <<Completed>> \in Seq(Events) /\ Len(<<Completed>>) = 1
                /\ <<Completed>>[1] = Completed
            BY <1>1
          <5>2. \A k \in 1 .. 1 : k = 1 OBVIOUS
          <5>3. \A k \in 1 .. Len(y) : y[k] = <<Completed>>[k]
            BY <4>3, <5>1, <5>2
          <5> QED BY <4>2, <4>3, <5>1, <5>3, SeqEqual
        <4> QED BY <4>4 DEF y
      <3>5. InsertAt(q, at, Mask) = (front \o <<Mask>>) \o <<Completed>>
        BY <3>2, <3>4 DEF InsertAt
      <3>6. x.queue = (front \o <<Mask>>) \o <<Completed>> /\ x.held = << >>
        <4>1. at # 0 BY <3>1, <3>2
        <4> HIDE DEF at, front
        <4> QED BY <2>1, <3>5, <4>1
      <3> HIDE DEF front, n, q, at, I
      <3>7. /\ front \o <<Mask>> = Append(front, Mask)
            /\ Append(front, Mask) \in Seq(Events)
            /\ Len(Append(front, Mask)) = n
            /\ \A i \in 1 .. n - 1 : Append(front, Mask)[i] = front[i]
            /\ Append(front, Mask)[n] = Mask
        BY <1>1, <3>3, AppendIsConcat, AppendProperties
      <3>8. /\ x.queue = Append(Append(front, Mask), Completed)
            /\ Len(x.queue) = n + 1
            /\ \A i \in 1 .. n : x.queue[i] = Append(front, Mask)[i]
        BY <1>1, <3>6, <3>7, AppendIsConcat, AppendProperties
      <3>9. q = Append(front, Completed)
        <4>1. /\ Append(front, Completed) \in Seq(Events)
              /\ Len(Append(front, Completed)) = n
              /\ \A i \in 1 .. n - 1 : Append(front, Completed)[i] = front[i]
              /\ Append(front, Completed)[n] = Completed
          BY <1>1, <3>3, AppendProperties
        <4>2. n = Len(q) BY DEF n
        <4>3. \A i \in 1 .. n : i \in 1 .. n - 1 \/ i = n BY <1>1
        <4>4. \A i \in 1 .. n : Append(front, Completed)[i] = q[i]
          BY <3>1, <3>3, <4>1, <4>3
        <4> QED BY <1>1, <4>1, <4>2, <4>4, SeqEqual
      <3>10. Masking(q, x.queue) BY <3>3, <3>8, <3>9 DEF Masking
      <3>11. \A i \in 1 .. n : x.queue[i] # Completed
        <4>1. \A i \in 1 .. n - 1 : q[i] # Completed
          <5>1. \A i \in 1 .. n : q[i] = Completed => i = n
            BY DEF CompletedLast, n, q
          <5> QED BY <1>1, <5>1
        <4>2. \A i \in 1 .. n : i \in 1 .. n - 1 \/ i = n BY <1>1
        <4> QED BY <1>1, <3>3, <3>7, <3>8, <4>1, <4>2
      <3>12. \A i \in 1 .. n + 1 : i \in 1 .. n \/ i = n + 1 BY <1>1
      <3>13. CompletedLast(x.queue) BY <3>8, <3>11, <3>12 DEF CompletedLast
      <3> QED BY <3>6, <3>10, <3>13
    <2> QED BY <1>4, <2>2, <2>3
  <1> QED BY <1>3, <1>4

----------------------------------------------------------------------------
(* What a queue shows. *)

\* d is r with a marker in the place of a beginning of the credential.
Marked(d, r) ==
    \E k \in Beginnings(r) : d = SubSeq(r, 1, Len(r) - k) \o <<Marker>>

\* The text d and the held suffix h account for the redacted u.
AccountsFor(d, h, u) ==
    \E r \in Maskings(u) : d \o h = r \/ (h = << >> /\ Marked(d, r))

\* d is on the way to u redacted, and without the credential.
Fits(d, h, u) ==
    /\ Ends(d) = {}
    /\ \E r \in Maskings(u) : IsPrefix(d, r) \/ (h = << >> /\ Marked(d, r))

\* A text begins every text that continues it.
LEMMA PrefixOf ==
    ASSUME NEW a \in Texts, NEW z \in Texts
    PROVE  IsPrefix(a, a \o z)
  <1> DEFINE b == a \o z  n == Len(a)
  <1>1. /\ b \in Texts /\ n \in Nat /\ n <= Len(b) /\ Len(b) \in Nat
        /\ \A i \in 1 .. n : b[i] = a[i]
    BY ConcatProperties, LenProperties DEF Texts
  <1>2. SubSeq(b, 1, n) = SubSeq(a, 1, n)
    <2>1. n \in 0 .. Len(a) /\ n <= Len(b) BY <1>1
    <2>2. \A i \in 1 .. n : a[i] = b[i] BY <1>1
    <2>3. a \in Seq(Chars \cup {Marker}) /\ b \in Seq(Chars \cup {Marker})
      BY <1>1 DEF Texts
    <2> HIDE DEF b, n
    <2> QED BY <2>1, <2>2, <2>3, SameFirstOnes
  <1> HIDE DEF b
  <1> QED BY <1>1, <1>2 DEF IsPrefix, b

\* What is redacted and not masked accounts for the text.
LEMMA Unmasked ==
    ASSUME NEW u, NEW d, NEW h, Redacted(u, d, h)
    PROVE  AccountsFor(d, h, u) /\ Fits(d, h, u)
  <1>1. /\ << >> \in Seq(Chars) /\ u \in Texts /\ d \in Texts /\ h \in Texts
        /\ Ends(d) = {}
    BY EmptySeq, RedactedFacts
  <1>2. d \o (h \o << >>) \in Maskings(u \o << >>) BY <1>1, RedactedMore
  <1>3. d \o h \in Maskings(u) BY <1>1, <1>2, TextsConcat
  <1>4. IsPrefix(d, d \o h) BY <1>1, PrefixOf
  <1> QED BY <1>1, <1>3, <1>4 DEF AccountsFor, Fits

\* The mask takes the place of what is held.
LEMMA MaskedHeld ==
    ASSUME NEW u, NEW d, NEW h, Redacted(u, d, h), h # << >>
    PROVE  /\ AccountsFor(d \o <<Marker>>, << >>, u)
           /\ Fits(d \o <<Marker>>, << >>, u)
  <1> DEFINE t == d \o h  k == Len(h)  x == d \o <<Marker>>
  <1>1. /\ << >> \in Seq(Chars) /\ u \in Texts /\ d \in Texts /\ h \in Texts
        /\ t \in Texts /\ k = Hold(t) /\ Ends(d) = {}
    BY EmptySeq, RedactedFacts
  <1>2. t \in Maskings(u)
    <2>1. d \o (h \o << >>) \in Maskings(u \o << >>) BY <1>1, RedactedMore
    <2> QED BY <1>1, <2>1, TextsConcat
  <1>3. k \in Nat /\ k # 0
    <2>1. k \in Nat BY <1>1, TextsConcat
    <2>2. h \in Seq(Chars) BY DEF Redacted
    <2>3. Len(h) # 0 BY <2>2, EmptySeq
    <2> QED BY <2>1, <2>3
  <1>4. k \in Beginnings(t)
    <2> HIDE DEF t, k
    <2> QED BY <1>1, <1>3, HoldFacts
  <1>5. SubSeq(t, 1, Len(t) - k) = d
    <2>1. /\ Len(t) = Len(d) + k /\ Len(d) \in Nat /\ Len(t) \in Nat
      BY <1>1, TextsConcat
    <2>2. Len(t) - k = Len(d) BY <1>3, <2>1
    <2>3. \A i \in 1 .. Len(d) : t[i] = d[i]
      BY <1>1, ConcatProperties DEF Texts
    <2> HIDE DEF t
    <2>4. SubSeq(t, 1, Len(d)) \in Texts /\ Len(SubSeq(t, 1, Len(d))) = Len(d)
          /\ \A i \in 1 .. Len(d) : SubSeq(t, 1, Len(d))[i] = t[i]
      <3>1. Len(d) \in 0 .. Len(t) BY <1>3, <2>1
      <3>2. t \in Seq(Chars \cup {Marker}) BY <1>1 DEF Texts
      <3> HIDE DEF k
      <3> QED BY <3>1, <3>2, FirstOnes DEF Texts
    <2>5. SubSeq(t, 1, Len(d)) = d
      BY <1>1, <2>3, <2>4, SeqEqual DEF Texts
    <2> QED BY <2>2, <2>5
  <1>6. Ends(x) = {}
    <2>1. << >> \in Texts /\ Ends(<< >>) = {}
      <3>1. << >> \in Texts /\ Len(<< >>) = 0 BY TextsConcat
      <3> QED BY <3>1, SecretFacts, ShortHasNoEnd
    <2>2. Ends((d \o <<Marker>>) \o << >>) = {} BY <1>1, <2>1, EndsMarked
    <2>3. x \in Texts BY <1>1, MarkerText, TextsConcat
    <2>4. x \o << >> = x
      <3> HIDE DEF x
      <3> QED BY <2>3, TextsConcat
    <2> QED BY <2>2, <2>4
  <1>7. Marked(x, t)
    <2> HIDE DEF t, k
    <2> QED BY <1>4, <1>5 DEF Marked
  <1> HIDE DEF t, k, x
  <1>8. AccountsFor(x, << >>, u) /\ Fits(x, << >>, u)
    BY <1>2, <1>6, <1>7 DEF AccountsFor, Fits
  <1> QED BY <1>8 DEF x

\* The first events and the others.
LEMMA TextToRest ==
    ASSUME NEW E \in Seq(Incoming), NEW j \in 0 .. Len(E)
    PROVE  /\ TextTo(E, j) \in Seq(Chars)
           /\ \E w \in Seq(Chars) : TextOf(E) = TextTo(E, j) \o w
  <1> DEFINE a == SubSeq(E, 1, j)  b == SubSeq(E, j + 1, Len(E))
  <1>1. Len(E) \in Nat BY LenProperties
  <1>2. a \in Seq(Incoming) /\ Len(a) = j /\ \A i \in 1 .. j : a[i] = E[i]
    BY FirstOnes
  <1>3. /\ b \in Seq(Incoming) /\ Len(b) = Len(E) - j
        /\ \A i \in 1 .. Len(E) - j : b[i] = E[j + i]
    <2>1. /\ j + 1 \in 1 .. Len(E) + 1 /\ Len(E) \in (j + 1) - 1 .. Len(E)
          /\ Len(E) - (j + 1) + 1 = Len(E) - j
          /\ \A i \in 1 .. Len(E) - j : (j + 1) + i - 1 = j + i
      BY <1>1
    <2>2. /\ b \in Seq(Incoming) /\ Len(b) = Len(E) - (j + 1) + 1
          /\ \A i \in 1 .. Len(E) - (j + 1) + 1 : b[i] = E[(j + 1) + i - 1]
      <3> DEFINE n == Len(E)  m == j + 1
      <3>1. m \in 1 .. Len(E) + 1 /\ n \in m - 1 .. Len(E) BY <2>1
      <3> HIDE DEF n, m
      <3>2. /\ SubSeq(E, m, n) \in Seq(Incoming) /\ Len(SubSeq(E, m, n)) = n - m + 1
            /\ \A i \in 1 .. n - m + 1 : SubSeq(E, m, n)[i] = E[m + i - 1]
        BY <3>1, Part
      <3> QED BY <3>2 DEF n, m
    <2> HIDE DEF b
    <2> QED BY <2>1, <2>2
  <1> HIDE DEF a, b
  <1>4. E = a \o b
    <2>1. /\ a \o b \in Seq(Incoming) /\ Len(a \o b) = Len(a) + Len(b)
          /\ \A i \in 1 .. Len(a) : (a \o b)[i] = a[i]
          /\ \A i \in Len(a) + 1 .. Len(a) + Len(b) : (a \o b)[i] = b[i - Len(a)]
      BY <1>2, <1>3, ConcatProperties
    <2>2. Len(a \o b) = Len(E) BY <1>1, <1>2, <1>3, <2>1
    <2>3. \A i \in 1 .. Len(E) : (a \o b)[i] = E[i]
      <3> SUFFICES ASSUME NEW i \in 1 .. Len(E) PROVE (a \o b)[i] = E[i]
        OBVIOUS
      <3>1. CASE i <= j
        <4>1. i \in 1 .. j /\ i \in 1 .. Len(a) BY <1>2, <3>1
        <4> QED BY <1>2, <2>1, <4>1
      <3>2. CASE i > j
        <4>1. PICK m \in 1 .. Len(E) - j : i = j + m
          <5>1. i - j \in 1 .. Len(E) - j /\ i = j + (i - j) BY <1>1, <3>2
          <5> QED BY <5>1
        <4>2. i \in Len(a) + 1 .. Len(a) + Len(b) /\ i - Len(a) = m
          BY <1>1, <1>2, <1>3, <4>1
        <4> QED BY <1>3, <2>1, <4>1, <4>2
      <3>3. i <= j \/ i > j BY <1>1
      <3> QED BY <3>1, <3>2, <3>3
    <2> QED BY <2>1, <2>2, <2>3, SeqEqual
  <1>5. /\ a \in Seq(Events) /\ b \in Seq(Events)
        /\ TextOf(a) \in Seq(Chars) /\ TextOf(b) \in Seq(Chars)
    BY <1>2, <1>3, TextOfIncoming
  <1>6. TextOf(E) = TextOf(a) \o TextOf(b) BY <1>4, <1>5, TextOfConcat
  <1>7. TextTo(E, j) = TextOf(a) BY DEF TextTo, a
  <1> QED BY <1>5, <1>6, <1>7

\* What a read makes of the events of its chunk: what is queued is on the way
\* to the redacted text, and all of it and what is held is there.
LEMMA ReadTexts ==
    ASSUME NEW u, NEW d, NEW h, Redacted(u, d, h), NEW E \in Seq(Incoming),
           NEW r, r = Redacting([held |-> h, queue |-> << >>], E),
           NEW x, NEW y \in Seq(Chars), x = TextOf(E) \o y
    PROVE  /\ r \in Redactions /\ Alike(r.queue, E)
           /\ Redacted(u \o TextOf(E), d \o TextOf(r.queue), r.held)
           /\ \A g : \A k \in 0 .. Len(r.queue) : Fits(d \o TextTo(r.queue, k), g, u \o x)
  <1>1. RedactedTo(u, d, E, r, Len(E)) BY RedactedAll
  <1>2. E \in Seq(Events) /\ TextOf(E) \in Seq(Chars) /\ Len(E) \in Nat
    BY TextOfIncoming, LenProperties
  <1>3. SubSeq(E, 1, Len(E)) = E
    <2>1. Len(E) \in 0 .. Len(E) BY <1>2
    <2> DEFINE n == Len(E)
    <2>2. /\ SubSeq(E, 1, n) \in Seq(Incoming) /\ Len(SubSeq(E, 1, n)) = n
          /\ \A i \in 1 .. n : SubSeq(E, 1, n)[i] = E[i]
      <3> HIDE DEF n
      <3>1. n \in 0 .. Len(E) BY <2>1 DEF n
      <3> QED BY <3>1, FirstOnes
    <2> QED BY <2>2, SeqEqual
  <1>4. r \in Redactions /\ Alike(r.queue, E) /\ r.queue \in Seq(Events)
    BY <1>1, <1>3 DEF RedactedTo, Redactions
  <1>5. Len(r.queue) = Len(E) BY <1>4 DEF Alike
  <1>6. TextTo(E, Len(E)) = TextOf(E) /\ TextTo(r.queue, Len(E)) = TextOf(r.queue)
    BY <1>2, <1>4, <1>5, TextToFacts
  <1>7. Redacted(u \o TextOf(E), d \o TextOf(r.queue), r.held)
    BY <1>1, <1>6 DEF RedactedTo
  <1>8. ASSUME NEW k \in 0 .. Len(E)
        PROVE  /\ Ends(d \o TextTo(r.queue, k)) = {}
               /\ \E m \in Maskings(u \o x) : IsPrefix(d \o TextTo(r.queue, k), m)
    <2>1. PICK g : Redacted(u \o TextTo(E, k), d \o TextTo(r.queue, k), g)
      BY <1>1 DEF RedactedTo
    <2>2. TextTo(E, k) \in Seq(Chars) BY TextToRest
    <2>3. PICK w \in Seq(Chars) : TextOf(E) = TextTo(E, k) \o w BY TextToRest
    <2> DEFINE v == w \o y  D == d \o TextTo(r.queue, k)  t == TextTo(E, k)
               U == u \o t
    <2>4. v \in Seq(Chars) BY <2>3, ConcatProperties
    <2>5. u \in Texts /\ t \in Texts /\ w \in Texts /\ y \in Texts
      BY <2>2, SecretFacts DEF Redacted
    <2>6. u \o x = U \o v
      <3> HIDE DEF t
      <3>1. v \in Texts BY <2>4, SecretFacts
      <3>2. (t \o w) \o y = t \o v BY <2>5, TextsConcat
      <3>3. x = t \o v BY <2>3, <3>2 DEF t
      <3> HIDE DEF v
      <3>4. u \o (t \o v) = (u \o t) \o v BY <2>5, <3>1, TextsConcat
      <3> QED BY <3>3, <3>4
    <2>7. Redacted(U, D, g) BY <2>1
    <2> HIDE DEF v, D, t, U
    <2>8. D \o (g \o v) \in Maskings(U \o v) BY <2>4, <2>7, RedactedMore
    <2>9. D \in Texts /\ g \o v \in Texts /\ Ends(D) = {}
      BY <2>4, <2>7, RedactedFacts
    <2>10. IsPrefix(D, D \o (g \o v)) BY <2>9, PrefixOf
    <2> QED BY <2>6, <2>8, <2>9, <2>10 DEF D
  <1> QED BY <1>4, <1>5, <1>7, <1>8 DEF Fits

\* q, and g, are what is queued and held after a read that made E of its
\* chunk, in a stream that goes on or has been flushed.
After(E, h, q, g) ==
    \E r : /\ r = Redacting([held |-> h, queue |-> << >>], E)
           /\ \/ q = r.queue /\ g = r.held
              \/ r.held # << >> /\ Masking(r.queue, q) /\ g = << >>

\* What a read queues fits the text of the read, as far as it is told.
LEMMA QueueTexts ==
    ASSUME NEW u, NEW d, NEW h, Redacted(u, d, h), NEW E \in Seq(Incoming),
           NEW q, NEW g, After(E, h, q, g),
           NEW x, NEW y \in Seq(Chars), x = TextOf(E) \o y,
           Has(E, Failed) \/ x = TextOf(E)
    PROVE  /\ q \in Seq(Events) /\ g \in Seq(Chars) /\ LikeQueue(E, q)
           /\ \A k \in 0 .. Len(q) : Quiet(q, k) => Fits(d \o TextTo(q, k), g, u \o x)
           /\ x = TextOf(E) => AccountsFor(d \o TextOf(q), g, u \o x)
  <1>1. PICK r : /\ r = Redacting([held |-> h, queue |-> << >>], E)
                 /\ \/ q = r.queue /\ g = r.held
                    \/ r.held # << >> /\ Masking(r.queue, q) /\ g = << >>
    BY DEF After
  <1>2. /\ r \in Redactions /\ Alike(r.queue, E)
        /\ Redacted(u \o TextOf(E), d \o TextOf(r.queue), r.held)
        /\ \A f : \A k \in 0 .. Len(r.queue) : Fits(d \o TextTo(r.queue, k), f, u \o x)
    BY <1>1, ReadTexts
  <1>3. r.queue \in Seq(Events) /\ r.held \in Seq(Chars) BY <1>2 DEF Redactions
  <1>4. LikeQueue(E, r.queue) BY <1>2, <1>3, AlikeQueue
  <1>5. CASE q = r.queue /\ g = r.held
    <2>1. x = TextOf(E) => AccountsFor(d \o TextOf(q), g, u \o x)
      BY <1>2, <1>5, Unmasked
    <2> QED BY <1>2, <1>3, <1>4, <1>5, <2>1
  <1>6. CASE r.held # << >> /\ Masking(r.queue, q) /\ g = << >>
    <2>1. q \in Seq(Events) /\ LikeQueue(r.queue, q)
      BY <1>3, <1>6, MaskingQueue
    <2>2. LikeQueue(E, q) BY <1>4, <2>1, LikeQueueTrans
    <2>3. g \in Seq(Chars) BY <1>6, EmptySeq
    <2>4. /\ TextOf(q) = TextOf(r.queue) \o <<Marker>>
          /\ \A k \in 0 .. Len(q) :
                \/ \E j \in 0 .. Len(r.queue) : TextTo(q, k) = TextTo(r.queue, j)
                \/ /\ TextTo(q, k) = TextOf(q)
                   /\ Has(r.queue, Failed) => ~Quiet(q, k)
      BY <1>3, <1>6, MaskingText
    <2>5. ASSUME x = TextOf(E)
          PROVE  /\ AccountsFor(d \o TextOf(q), g, u \o x)
                 /\ Fits(d \o TextOf(q), g, u \o x)
      <3>1. /\ AccountsFor((d \o TextOf(r.queue)) \o <<Marker>>, << >>,
                           u \o TextOf(E))
            /\ Fits((d \o TextOf(r.queue)) \o <<Marker>>, << >>, u \o TextOf(E))
        BY <1>2, <1>6, MaskedHeld
      <3>2. d \in Texts /\ TextOf(r.queue) \in Texts /\ <<Marker>> \in Texts
        BY <1>3, TextOfType, MaskIs DEF Redacted
      <3>3. d \o TextOf(q) = (d \o TextOf(r.queue)) \o <<Marker>>
        BY <2>4, <3>2, TextsConcat
      <3> QED BY <1>6, <2>5, <3>1, <3>3
    <2>6. ASSUME NEW k \in 0 .. Len(q), Quiet(q, k)
          PROVE  Fits(d \o TextTo(q, k), g, u \o x)
      <3>1. CASE \E j \in 0 .. Len(r.queue) : TextTo(q, k) = TextTo(r.queue, j)
        BY <1>2, <3>1
      <3>2. CASE TextTo(q, k) = TextOf(q) /\ ~Has(r.queue, Failed)
        <4>1. ~Has(E, Failed) BY <1>4, <3>2 DEF LikeQueue
        <4> QED BY <2>5, <3>2, <4>1
      <3> QED BY <2>4, <2>6, <3>1, <3>2
    <2> QED BY <2>1, <2>2, <2>3, <2>5, <2>6
  <1> QED BY <1>1, <1>5, <1>6

----------------------------------------------------------------------------
(* The inductive invariant, in parts. *)

\* The variables have their types.
StreamType ==
    /\ signal \in BOOLEAN /\ cancelled \in BOOLEAN /\ cut \in BOOLEAN
    /\ state \in {"calling", "reading", "draining", "buffered", "done"}
    /\ asm \in Assemblies /\ held \in Seq(Chars) /\ queue \in Seq(Events)
    /\ store \in {"none", "evidence", "replayable"}
    /\ last \in {"unavailable", "recorded"}
    /\ outcome \in {"none", "Completed", "Failed", "Cancelled", "Refused",
                    "Stopped", "Unfinished"}
    /\ received \in Seq(Chars) /\ shown \in Texts /\ calls \in Seq(Indexes)

\* While the turn is open: only text is queued, and unless the collector has
\* stopped, it and what is held are the redacted text.
OpenInv ==
    /\ state \in {"calling", "reading"} =>
          /\ ~asm.failed /\ ~asm.completed
          /\ outcome \in {"none", "Refused", "Stopped"}
          /\ store = "none" /\ last = "unavailable" /\ calls = << >>
          /\ \A i \in 1 .. Len(queue) : queue[i].kind = "text"
          /\ \E r \in Maskings(received) : IsPrefix(shown, r)
          /\ outcome = "none" => Redacted(received, shown \o TextOf(queue), held)
    /\ state = "calling" =>
          asm.bytes = 0 /\ queue = << >> /\ held = << >> /\ outcome = "none"

\* What has been shown, and what the collector will show as far as it will
\* take the queue, is on the way to the redacted text.
TextInv ==
    /\ Fits(shown, held, received)
    /\ outcome = "none" =>
          \A k \in 0 .. Len(queue) :
              Quiet(queue, k) => Fits(shown \o TextTo(queue, k), held, received)
    /\ ~asm.failed /\ Pulling =>
          AccountsFor(shown \o TextOf(queue), held, received)

\* After the reads nothing is held, but in a stream that ended by itself.
HeldInv ==
    state \notin {"calling", "reading"} /\ Pulling =>
        held = << >> \/ asm.failed \/ asm.completed

\* In a stream the completion is the end of the queue, and no failure is
\* before it.
OrderInv ==
    asm.bytes > 0 \/ asm.failed \/ asm.completed =>
        /\ CompletedLast(queue)
        /\ Has(queue, Completed) => ~Has(queue, Failed) /\ ~Has(queue, Cancelled)
        /\ outcome = "Completed" => queue = << >>

\* The record is made before what it is about is queued.
RecordInv ==
    /\ outcome = "Completed" \/ Has(queue, Completed) => store # "none"
    /\ asm.failed =>
          store = "evidence" /\ outcome # "Completed" /\ ~Has(queue, Completed)
    /\ outcome \in {"Failed", "Unfinished"} \/ Has(queue, Failed) =>
          store = "evidence"
    /\ last = "recorded" => store = "replayable"
    /\ store = "replayable" /\ asm.completed => last = "recorded"
    /\ state \in {"draining", "buffered"} /\ outcome = "none" =>
          store = "evidence" \/ Has(queue, Completed) \/ Has(queue, Cancelled)

\* A stream that has completed is on its way to the collector, or there,
\* unless the collector has stopped.
CompletedInv ==
    asm.completed /\ ~asm.failed =>
        \/ /\ outcome = "none" /\ state = "draining" /\ Has(queue, Completed)
           /\ ~Has(queue, Failed) /\ ~Has(queue, Cancelled)
        \/ outcome = "Completed" /\ queue = << >>
        \/ outcome = "Stopped"
        \/ outcome = "Refused" /\ state = "draining"

\* Until then none of its calls is.
UntoldInv ==
    ~asm.plain /\ asm.bytes > 0 /\ ~asm.completed => calls = << >> /\ ~HasCall(queue)

\* When it has, its calls have been taken or are queued, in their order.
CallsInv ==
    asm.completed /\ ~asm.failed /\ Pulling =>
        /\ \A i, j \in 1 .. Len(calls) : i < j => calls[i] < calls[j]
        /\ Ordered(queue)
        /\ \A i \in 1 .. Len(calls), j \in 1 .. Len(queue) :
              queue[j].kind = "call" => calls[i] < queue[j].index
        /\ \A x \in Indexes :
              x \in Used(asm) <=> \/ \E i \in 1 .. Len(calls) : calls[i] = x
                                  \/ Has(queue, Call(x))

\* The inductive invariant.
IInv ==
    /\ StreamType /\ OpenInv /\ TextInv /\ HeldInv /\ OrderInv /\ RecordInv
    /\ CompletedInv /\ UntoldInv /\ CallsInv

\* The queue of a turn that is open, which is empty when more is read.
LEMMA OpenFacts ==
    ASSUME StreamType, OpenInv, queue = << >>, outcome = "none",
           state \in {"calling", "reading"}
    PROVE  /\ Redacted(received, shown, held)
           /\ ~asm.failed /\ ~asm.completed
           /\ store = "none" /\ last = "unavailable" /\ calls = << >>
           /\ shown \in Texts /\ received \in Seq(Chars)
  <1>1. shown \in Texts /\ received \in Seq(Chars) BY DEF StreamType
  <1>2. Redacted(received, shown \o TextOf(queue), held) BY DEF OpenInv
  <1>3. shown \o TextOf(queue) = shown BY <1>1, TextOfEmpty, TextsConcat
  <1> QED BY <1>1, <1>2, <1>3 DEF OpenInv

\* What has been shown of a text that is redacted is the beginning of it.
LEMMA ShownFirst ==
    ASSUME NEW u, NEW d \in Texts, NEW q \in Texts, NEW h, Redacted(u, d \o q, h)
    PROVE  \E r \in Maskings(u) : IsPrefix(d, r)
  <1>1. << >> \in Seq(Chars) /\ u \in Texts /\ h \in Texts
    BY EmptySeq, RedactedFacts
  <1>2. (d \o q) \o (h \o << >>) \in Maskings(u \o << >>) BY <1>1, RedactedMore
  <1>3. (d \o q) \o h \in Maskings(u) BY <1>1, <1>2, TextsConcat
  <1>4. (d \o q) \o h = d \o (q \o h) /\ q \o h \in Texts
    BY <1>1, TextsAssoc, TextsConcat
  <1>5. IsPrefix(d, d \o (q \o h)) BY <1>4, PrefixOf
  <1> QED BY <1>3, <1>4, <1>5

\* What has been read is queued.
LEMMA Arrives ==
    ASSUME StreamType, OpenInv, queue = << >>, outcome = "none",
           state \in {"calling", "reading"}, NEW E \in Seq(Incoming), After(E, held, queue', held'),
           NEW x, NEW y \in Seq(Chars), x = TextOf(E) \o y,
           Has(E, Failed) \/ x = TextOf(E),
           x = TextOf(E) \/ asm'.failed,
           received' = received \o x, shown' = shown
    PROVE  /\ queue' \in Seq(Events) /\ held' \in Seq(Chars)
           /\ received' \in Seq(Chars) /\ LikeQueue(E, queue') /\ TextInv'
  <1>1. /\ Redacted(received, shown, held) /\ shown \in Texts
        /\ received \in Seq(Chars)
    BY OpenFacts
  <1>2. /\ queue' \in Seq(Events) /\ held' \in Seq(Chars) /\ LikeQueue(E, queue')
        /\ \A k \in 0 .. Len(queue') :
              Quiet(queue', k) =>
                  Fits(shown \o TextTo(queue', k), held', received \o x)
        /\ x = TextOf(E) =>
              AccountsFor(shown \o TextOf(queue'), held', received \o x)
    BY <1>1, QueueTexts
  <1>3. received' \in Seq(Chars)
    <2>1. TextOf(E) \in Seq(Chars) BY TextOfIncoming
    <2>2. x \in Seq(Chars) BY <2>1, ConcatProperties
    <2> QED BY <1>1, <2>2, ConcatProperties
  <1>4. Fits(shown', held', received')
    <2>1. 0 \in 0 .. Len(queue') /\ Quiet(queue', 0)
      <3>1. Len(queue') \in Nat BY <1>2, LenProperties
      <3> QED BY <3>1 DEF Quiet
    <2>2. TextTo(queue', 0) = << >> BY <1>2, TextToFacts
    <2>3. shown \o << >> = shown BY <1>1, TextsConcat
    <2> QED BY <1>2, <2>1, <2>2, <2>3
  <1>5. TextInv' BY <1>2, <1>4 DEF TextInv
  <1> QED BY <1>2, <1>3, <1>5

\* What the end of a turn does to its record.
LEMMA RecordOnceIs ==
    ASSUME NEW f, NEW c, RecordOnce(f, c)
    PROVE  /\ store' \in {"evidence", "replayable"}
           /\ last' \in {"unavailable", "recorded"}
           /\ f => store' = "evidence"
           /\ last' = "recorded" <=> store' = "replayable"
  BY DEF RecordOnce, RecordEvidence, RecordReplayable

\* Every read of a stream: s is what the assembler makes of it.
LEMMA StreamStep ==
    ASSUME IInv, state = "reading", queue = << >>, outcome = "none",
           NEW s, Good(s),
           Assembled(s), After(s.events, held, queue', held'),
           CompletedLast(queue'),
           \/ (s.failed \/ s.completed) /\ state' = "draining"
              /\ RecordOnce(s.failed, s.completed)
           \/ /\ ~s.failed /\ ~s.completed /\ state' = "reading"
              /\ UNCHANGED <<store, last>>
              /\ Redacted(received', shown \o TextOf(queue'), held'),
           cut' \in BOOLEAN, UNCHANGED <<signal, cancelled, outcome, shown, calls>>
    PROVE  IInv'
  <1>1. /\ StreamType /\ OpenInv BY DEF IInv
  <1>2. /\ ~asm.failed /\ ~asm.completed
        /\ store = "none" /\ last = "unavailable" /\ calls = << >>
    BY <1>1, OpenFacts
  <1>3. /\ s \in Stages /\ s.events \in Seq(Incoming) /\ Telling(s) /\ TellsAll(s)
    BY DEF Good, Stages
  <1>4. /\ asm' \in Assemblies
        /\ asm'.bytes = s.bytes /\ asm'.failed = s.failed
        /\ asm'.completed = s.completed /\ asm'.plain = s.plain
        /\ asm'.calls = s.calls
    <2>1. asm \in Assemblies BY <1>1 DEF StreamType
    <2>2. /\ asm' \in Assemblies
          /\ asm' = [bytes |-> s.bytes, count |-> s.count, failed |-> s.failed,
                     completed |-> s.completed, plain |-> s.plain, calls |-> s.calls]
      BY <1>3, <2>1, AssembledIs DEF Assembled
    <2> QED BY <2>2
  <1>5. Used(asm') = Used(s) BY <1>4 DEF Used
  <1>6. /\ queue' \in Seq(Events) /\ held' \in Seq(Chars)
        /\ received' \in Seq(Chars) /\ LikeQueue(s.events, queue') /\ TextInv'
    <2> DEFINE x == s.text
    <2>1. received' = received \o x BY DEF Assembled
    <2>2. Has(s.events, Failed) \/ x = TextOf(s.events) BY <1>3 DEF Telling
    <2>3. x = TextOf(s.events) \/ asm'.failed BY <1>3, <1>4 DEF Telling
    <2>4. PICK y \in Seq(Chars) : x = TextOf(s.events) \o y BY <1>3 DEF Telling
    <2> HIDE DEF x
    <2> QED BY <1>1, <1>3, <2>1, <2>2, <2>3, <2>4, Arrives
  <1>7. /\ Has(queue', Completed) <=> s.completed /\ ~s.failed
        /\ HasCall(queue') => s.completed /\ ~s.failed
        /\ Has(queue', Failed) => s.failed
        /\ ~Has(queue', Cancelled)
        /\ s.completed /\ ~s.failed =>
              /\ Ordered(queue')
              /\ \A x \in Indexes : x \in Used(s) <=> Has(queue', Call(x))
    BY <1>3, <1>6 DEF LikeQueue, Telling, TellsAll
  <1>8. s.failed \in BOOLEAN /\ s.completed \in BOOLEAN BY <1>3 DEF Stages
  <1>9. /\ store' \in {"none", "evidence", "replayable"}
        /\ last' \in {"unavailable", "recorded"}
        /\ s.failed \/ s.completed => store' # "none" /\ state' = "draining"
        /\ s.failed => store' = "evidence"
        /\ last' = "recorded" <=> store' = "replayable"
        /\ state' \in {"reading", "draining"}
        /\ ~(s.failed \/ s.completed) => store' = "none" /\ last' = "unavailable"
    BY <1>2, RecordOnceIs
  <1>10. StreamType' BY <1>1, <1>4, <1>6, <1>9 DEF StreamType
  <1>11. OpenInv'
    <2>1. ASSUME state' = "reading"
          PROVE  /\ ~s.failed /\ ~s.completed
                 /\ Redacted(received', shown' \o TextOf(queue'), held')
                 /\ \E r \in Maskings(received') : IsPrefix(shown', r)
      <3>1. /\ ~s.failed /\ ~s.completed
            /\ Redacted(received', shown' \o TextOf(queue'), held')
        BY <2>1
      <3>2. shown' \in Texts /\ TextOf(queue') \in Texts
        BY <1>6, <1>10, TextOfType DEF StreamType
      <3> QED BY <3>1, <3>2, ShownFirst
    <2>2. ASSUME state' = "reading", NEW i \in 1 .. Len(queue')
          PROVE  queue'[i].kind = "text"
      <3>1. queue'[i] \in Events BY <1>6, ElementOfSeq
      <3>2. /\ ~Has(queue', Completed) /\ ~HasCall(queue') /\ ~Has(queue', Failed)
            /\ ~Has(queue', Cancelled)
        BY <1>7, <2>1, <2>2
      <3>3. /\ queue'[i] # Completed /\ queue'[i] # Failed /\ queue'[i] # Cancelled
            /\ queue'[i].kind # "call"
        BY <3>2 DEF Has, HasCall
      <3> QED BY <3>1, <3>3, EventKinds
    <2> QED BY <1>2, <1>4, <1>9, <2>1, <2>2 DEF OpenInv
  <1>12. OrderInv' BY <1>2, <1>4, <1>7 DEF OrderInv
  <1>13. RecordInv' BY <1>2, <1>4, <1>7, <1>9 DEF RecordInv
  <1>14. CompletedInv' BY <1>2, <1>4, <1>7, <1>9 DEF CompletedInv
  <1>15. UntoldInv' BY <1>2, <1>4, <1>7 DEF UntoldInv
  <1>16. CallsInv'
    <2>1. Len(calls') = 0 BY <1>2, EmptySeq
    <2>2. \A i \in 1 .. Len(calls') : FALSE BY <2>1
    <2> QED BY <1>4, <1>5, <1>7, <2>2 DEF CallsInv
  <1>17. HeldInv' BY <1>4, <1>9 DEF HeldInv
  <1> QED BY <1>6, <1>10, <1>11, <1>12, <1>13, <1>14, <1>15, <1>16, <1>17 DEF IInv

\* Every other step but those of the collector takes its events from a body,
\* or is a failure or a cancellation of its own.
LEMMA BodyStep ==
    ASSUME IInv, state \in {"calling", "reading"}, queue = << >>,
           outcome = "none", held' = << >>, NEW E \in Seq(Incoming), After(E, held, queue', held'),
           received' = received \o TextOf(E),
           asm' = asm, asm.bytes > 0 => asm.plain /\ CompletedLast(queue'),
           state' \in {"draining", "buffered"},
           Has(E, Completed) => ~Has(E, Failed) /\ ~Has(E, Cancelled) /\ store' # "none",
           store' \in {"none", "evidence", "replayable"},
           last' \in {"unavailable", "recorded"},
           Has(E, Failed) => store' = "evidence",
           last' = "recorded" => store' = "replayable",
           store' = "evidence" \/ Has(E, Completed) \/ Has(E, Cancelled),
           UNCHANGED <<signal, cancelled, cut, outcome, shown, calls>>
    PROVE  IInv'
  <1>1. /\ StreamType /\ OpenInv BY DEF IInv
  <1>2. /\ ~asm.failed /\ ~asm.completed
        /\ store = "none" /\ last = "unavailable" /\ calls = << >>
    BY <1>1, OpenFacts
  <1>3. /\ queue' \in Seq(Events) /\ held' \in Seq(Chars)
        /\ received' \in Seq(Chars) /\ LikeQueue(E, queue') /\ TextInv'
    <2> DEFINE x == TextOf(E)
    <2>1. << >> \in Seq(Chars) /\ x = TextOf(E) \o << >>
      <3>1. TextOf(E) \in Texts BY TextOfIncoming, SecretFacts
      <3> QED BY <3>1, EmptySeq, TextsConcat
    <2>2. received' = received \o x /\ x = TextOf(E) OBVIOUS
    <2> HIDE DEF x
    <2> QED BY <1>1, <2>1, <2>2, Arrives
  <1>4. \A x \in {Completed, Failed, Cancelled} : Has(E, x) <=> Has(queue', x)
    BY <1>3 DEF LikeQueue
  <1>5. StreamType' BY <1>1, <1>3 DEF StreamType
  <1>6. OpenInv' BY DEF OpenInv
  <1>7. asm.bytes \in Nat BY <1>1 DEF StreamType, Assemblies
  <1>8. OrderInv' BY <1>2, <1>4 DEF OrderInv
  <1>9. RecordInv' BY <1>2, <1>4 DEF RecordInv
  <1>10. CompletedInv' BY <1>2 DEF CompletedInv
  <1>11. UntoldInv' BY DEF UntoldInv
  <1>12. CallsInv' BY <1>2 DEF CallsInv
  <1>13. HeldInv' BY DEF HeldInv
  <1> QED BY <1>3, <1>5, <1>6, <1>8, <1>9, <1>10, <1>11, <1>12, <1>13 DEF IInv

----------------------------------------------------------------------------
(* The beginning, and the call. *)

\* The redactor takes the events one by one.
LEMMA RedactsBy ==
    ASSUME NEW b \in Redactions, NEW E \in Seq(Incoming)
    PROVE  \E g \in [0 .. Len(E) -> Redactions] :
               /\ g[0] = b /\ g[Len(E)] = Redacting(b, E)
               /\ \A k \in 1 .. Len(E) : g[k] = RedactEvent(g[k - 1], E[k])
  <1>1. \A x \in Redactions, e \in Incoming : RedactEvent(x, e) \in Redactions
    BY RedactOne
  <1> QED BY <1>1, RedactRuns

\* One event goes through it once.
LEMMA OneRun ==
    ASSUME NEW b \in Redactions, NEW E \in Seq(Incoming), Len(E) = 1
    PROVE  Redacting(b, E) = RedactEvent(b, E[1])
  <1>2. PICK g \in [0 .. Len(E) -> Redactions] :
            /\ g[0] = b /\ g[Len(E)] = Redacting(b, E)
            /\ \A k \in 1 .. Len(E) : g[k] = RedactEvent(g[k - 1], E[k])
    BY RedactsBy
  <1>3. 1 \in 1 .. Len(E) /\ 1 - 1 = 0 OBVIOUS
  <1> QED BY <1>2, <1>3

\* An end goes through the redactor as it is.
LEMMA OneEvent ==
    ASSUME NEW h \in Seq(Chars), NEW e \in {Failed, Cancelled}
    PROVE  /\ After(<<e>>, h, <<e>>, h) /\ <<e>> \in Seq(Incoming)
           /\ TextOf(<<e>>) = << >> /\ \A x : Has(<<e>>, x) <=> x = e
  <1> DEFINE b == [held |-> h, queue |-> << >>]
  <1>1. /\ e \in Incoming /\ e \in Events /\ e.kind # "text" /\ Said(e) = << >>
    BY IncomingEvents, SaidType
  <1>2. <<e>> \in Seq(Incoming) /\ Len(<<e>>) = 1 /\ <<e>>[1] = e BY <1>1
  <1>3. /\ b \in Redactions /\ b.held = h /\ b.queue = << >>
    BY EmptySeq DEF Redactions
  <1> HIDE DEF b
  <1> DEFINE E == <<e>>
  <1>4. E \in Seq(Incoming) /\ Len(E) = 1 /\ E[1] = e BY <1>2
  <1> HIDE DEF E
  <1>8. Redacting(b, E) = RedactEvent(b, e) BY <1>3, <1>4, OneRun
  <1>9. Redacting(b, E) = [held |-> h, queue |-> Append(<< >>, e)]
    BY <1>1, <1>3, <1>8, RedactOne
  <1>10. Append(<< >>, e) = <<e>> OBVIOUS
  <1>11. After(E, h, <<e>>, h)
    BY <1>9, <1>10 DEF After, b
  <1>12. \A x : Has(<<e>>, x) <=> x = e
    <2>1. 1 \in 1 .. Len(<<e>>) /\ \A i \in 1 .. Len(<<e>>) : i = 1 BY <1>2
    <2> QED BY <1>2, <2>1 DEF Has
  <1>13. TextOf(<<e>>) = << >>
    <2>1. TextOf(<<e>>) = Said(e) BY <1>1, EmptySeq, TextOfAppend
    <2> QED BY <1>1, <2>1
  <1> QED BY <1>2, <1>11, <1>12, <1>13 DEF E

\* Before any text there is nothing to redact and nothing to hold.
LEMMA RedactedNothing == Redacted(<< >>, << >>, << >>)
  <1>1. << >> \in Seq(Chars) /\ << >> \in Texts /\ Len(<< >>) = 0
    BY EmptySeq, TextsConcat
  <1>2. << >> \o << >> = << >> BY TextsConcat
  <1>3. Hold(<< >>) = 0
    <2>1. Hold(<< >>) \in Nat /\ Hold(<< >>) <= Len(<< >>)
      BY <1>1, HoldFacts
    <2> QED BY <1>1, <2>1
  <1>4. Ends(<< >>) = {} BY <1>1, SecretFacts, ShortHasNoEnd
  <1>5. << >> \in Maskings(<< >>) BY <1>1, MaskingsHave
  <1> QED BY <1>1, <1>2, <1>3, <1>4, <1>5 DEF Redacted

\* A turn begins in the invariant.
LEMMA InitStep ==
    ASSUME Init PROVE IInv
  <1>1. /\ << >> \in Seq(Chars) /\ << >> \in Seq(Events) /\ << >> \in Texts
        /\ << >> \in Seq(Indexes) /\ Len(<< >>) = 0
    BY EmptySeq, TextsConcat
  <1>2. asm \in Assemblies /\ asm.bytes = 0 /\ ~asm.failed /\ ~asm.completed
    BY DEF Init, Assemblies, NoCall
  <1>3. StreamType BY <1>1, <1>2 DEF Init, StreamType
  <1>4. Redacted(<< >>, << >>, << >>) BY RedactedNothing
  <1>5. << >> \o TextOf(<< >>) = << >> BY TextOfEmpty, TextsConcat
  <1>6. AccountsFor(<< >>, << >>, << >>) /\ Fits(<< >>, << >>, << >>)
    BY <1>4, Unmasked
  <1>7. OpenInv
    <2>1. TextOf(<< >>) \in Texts BY <1>1, TextOfEmpty
    <2>2. \E r \in Maskings(<< >>) : IsPrefix(<< >>, r)
      BY <1>1, <1>4, <1>5, <2>1, ShownFirst
    <2> QED BY <1>1, <1>2, <1>4, <1>5, <2>2 DEF Init, OpenInv
  <1>8. TextInv
    <2>1. \A k \in 0 .. Len(queue) : k = 0 BY <1>1 DEF Init
    <2>2. TextTo(<< >>, 0) = << >> BY <1>1, TextToFacts
    <2>3. << >> \o << >> = << >> BY TextsConcat
    <2> QED BY <1>5, <1>6, <2>1, <2>2, <2>3 DEF Init, TextInv
  <1>9. \A x : ~Has(queue, x) BY <1>1 DEF Init, Has
  <1>10. OrderInv /\ CompletedInv /\ UntoldInv /\ CallsInv /\ HeldInv
    BY <1>2 DEF Init, OrderInv, CompletedInv, UntoldInv, CallsInv, HeldInv
  <1>11. RecordInv BY <1>2, <1>9 DEF Init, RecordInv
  <1> QED BY <1>3, <1>7, <1>8, <1>10, <1>11 DEF IInv

\* A call that is cancelled or fails queues one event.
LEMMA CallEndsStep ==
    ASSUME IInv, CallCancelled \/ CallFails PROVE IInv'
  <1>1. /\ StreamType /\ OpenInv /\ state = "calling" /\ queue = << >>
        /\ outcome = "none" /\ held = << >>
    BY DEF IInv, OpenInv, CallCancelled, CallFails
  <1>2. /\ store = "none" /\ last = "unavailable" /\ asm.bytes = 0
        /\ held \in Seq(Chars) /\ received \in Seq(Chars)
    BY <1>1, OpenFacts DEF OpenInv, StreamType
  <1>3. received \o << >> = received
    <2>1. received \in Texts BY <1>2, SecretFacts
    <2> QED BY <2>1, TextsConcat
  <1>4. Failed # Completed /\ Cancelled # Completed /\ Cancelled # Failed
    BY IncomingEvents
  <1>5. CASE CallCancelled
    <2> DEFINE E == <<Cancelled>>
    <2>1. /\ After(E, held, queue', held') /\ E \in Seq(Incoming)
          /\ TextOf(E) = << >> /\ \A x : Has(E, x) <=> x = Cancelled
      BY <1>2, <1>5, OneEvent DEF CallCancelled
    <2>2. ~Has(E, Completed) /\ ~Has(E, Failed) BY <1>4, <2>1
    <2> HIDE DEF E
    <2>3. /\ received' = received \o TextOf(E) /\ asm' = asm
          /\ state' = "buffered" /\ store' = "none" /\ last' = "unavailable"
          /\ UNCHANGED <<signal, cancelled, cut, held, outcome, shown, calls>>
      BY <1>2, <1>3, <1>5, <2>1 DEF CallCancelled, sent, accepted
    <2>4. ~(asm.bytes > 0) BY <1>2
    <2> QED BY <1>1, <2>1, <2>2, <2>3, <2>4, BodyStep
  <1>6. CASE CallFails
    <2> DEFINE E == <<Failed>>
    <2>1. /\ After(E, held, queue', held') /\ E \in Seq(Incoming)
          /\ TextOf(E) = << >> /\ \A x : Has(E, x) <=> x = Failed
      BY <1>2, <1>6, OneEvent DEF CallFails
    <2>2. ~Has(E, Completed) BY <1>4, <2>1
    <2> HIDE DEF E
    <2>3. /\ received' = received \o TextOf(E) /\ asm' = asm
          /\ state' = "buffered" /\ store' = "evidence" /\ last' = "unavailable"
          /\ UNCHANGED <<signal, cancelled, cut, held, outcome, shown, calls>>
      BY <1>3, <1>6, <2>1 DEF CallFails, RecordEvidence, sent, accepted
    <2>4. ~(asm.bytes > 0) BY <1>2
    <2> QED BY <1>1, <2>1, <2>2, <2>3, <2>4, BodyStep
  <1> QED BY <1>5, <1>6

\* A body that is read at once is redacted at once.
LEMMA CallBufferedStep ==
    ASSUME IInv, CallBuffered PROVE IInv'
  <1>1. /\ StreamType /\ OpenInv /\ state = "calling" /\ queue = << >>
        /\ outcome = "none"
    BY DEF IInv, OpenInv, CallBuffered
  <1>2. asm.bytes = 0 /\ Redacted(received, shown, held)
    BY <1>1, OpenFacts DEF OpenInv
  <1>3. PICK body \in Bodies :
            LET r == RedactEvents(queue, body)
                tail == IF r.held = << >> THEN << >>
                        ELSE <<Text("answer", <<Marker>>)>>
            IN  /\ Answer([held |-> << >>, queue |-> r.queue \o tail], "buffered")
                /\ received' = received \o BodyText(body)
                /\ RecordOnce(body = <<Failed>>, TRUE)
    BY DEF CallBuffered, BodySent
  <1>4. asm' = asm /\ UNCHANGED <<signal, cancelled, cut, outcome, shown, calls>>
    BY DEF CallBuffered, accepted
  <1>5. /\ body \in Seq(Incoming) /\ BodyText(body) = TextOf(body)
        /\ \A i \in 1 .. Len(body) : body[i] # Cancelled
        /\ Has(body, Failed) => body = <<Failed>>
        /\ Has(body, Completed) <=> body # <<Failed>>
    BY BodyFacts
  <1>6. After(body, held, queue', held')
    <2> DEFINE r == RedactEvents(queue, body)
               tail == IF r.held = << >> THEN << >>
                       ELSE <<Text("answer", <<Marker>>)>>
    <2>1. held' = << >> /\ queue' = r.queue \o tail BY <1>3 DEF Answer
    <2>2. r = Redacting([held |-> held, queue |-> << >>], body)
      BY <1>1 DEF RedactEvents, Redacting
    <2>3. r \in Redactions
      <3> HIDE DEF r
      <3>1. RedactedTo(received, shown, body, r, Len(body))
        BY <1>2, <1>5, <2>2, RedactedAll
      <3> QED BY <3>1 DEF RedactedTo
    <2>4. CASE r.held = << >>
      <3>1. tail = << >> BY <2>4
      <3>2. r.queue \o << >> = r.queue
        <4>1. r.queue \in Seq(Events) BY <2>3 DEF Redactions
        <4> HIDE DEF r
        <4> QED BY <4>1, ConcatEmptySeq
      <3> HIDE DEF r, tail
      <3> QED BY <2>1, <2>2, <2>4, <3>1, <3>2 DEF After
    <2>5. CASE r.held # << >>
      <3>1. tail = <<Mask>> BY <2>5 DEF Mask
      <3>2. r.queue \o <<Mask>> = Append(r.queue, Mask)
        <4>1. r.queue \in Seq(Events) /\ Mask \in Events
          BY <2>3, MaskIs DEF Redactions
        <4> HIDE DEF r
        <4> QED BY <4>1, AppendIsConcat
      <3> HIDE DEF r, tail
      <3> QED BY <2>1, <2>2, <2>5, <3>1, <3>2 DEF After, Masking
    <2> QED BY <2>4, <2>5
  <1>7. received' = received \o TextOf(body) /\ state' = "buffered" /\ held' = << >>
    BY <1>3, <1>5 DEF Answer
  <1>8. /\ store' \in {"evidence", "replayable"}
        /\ last' \in {"unavailable", "recorded"}
        /\ body = <<Failed>> => store' = "evidence"
        /\ last' = "recorded" => store' = "replayable"
    <2>1. RecordOnce(body = <<Failed>>, TRUE) BY <1>3
    <2> QED BY <2>1, RecordOnceIs
  <1>9. ~Has(body, Cancelled) BY <1>5 DEF Has
  <1>10. ~(asm.bytes > 0) BY <1>2
  <1> QED BY <1>1, <1>4, <1>5, <1>6, <1>7, <1>8, <1>9, <1>10, BodyStep

----------------------------------------------------------------------------
(* The reads. *)

\* What a chunk is.
LEMMA ChunkFacts ==
    ASSUME NEW c \in Chunks
    PROVE  c.lines \in Seq(Frames) /\ c.more \in BOOLEAN /\ Count(c) \in Nat
  <1>1. c \in [lines : BoundedSeq(Frames, MaxChunk), more : BOOLEAN] BY DEF Chunks
  <1>2. c.lines \in BoundedSeq(Frames, MaxChunk) /\ c.more \in BOOLEAN BY <1>1
  <1>3. PICK n \in 0 .. MaxChunk : c.lines \in [1 .. n -> Frames]
    BY <1>2 DEF BoundedSeq, SeqOf
  <1>4. n \in Nat BY StreamAssumption, <1>3
  <1>5. c.lines \in Seq(Frames) BY <1>3, <1>4, IsASeq
  <1>6. Len(c.lines) \in Nat BY <1>5, LenProperties
  <1>7. Count(c) \in Nat
    <2>1. (IF c.more THEN 1 ELSE 0) \in Nat OBVIOUS
    <2> DEFINE m == IF c.more THEN 1 ELSE 0
    <2> HIDE DEF m
    <2>2. m \in Nat BY <2>1 DEF m
    <2>3. Len(c.lines) + m \in Nat BY <1>6, <2>2
    <2> QED BY <2>3 DEF Count, m
  <1> QED BY <1>2, <1>5, <1>7

\* The events of a read, when the redactor has not been flushed.
LEMMA RedactStep ==
    ASSUME StreamType, OpenInv, queue = << >>, outcome = "none",
           state \in {"calling", "reading"},
           NEW E \in Seq(Incoming), CompletedLast(E),
           NEW r, r = RedactEvents(queue, E)
    PROVE  /\ r \in Redactions /\ After(E, held, r.queue, r.held)
           /\ CompletedLast(r.queue)
           /\ Redacted(received \o TextOf(E), shown \o TextOf(r.queue), r.held)
           /\ r.held # << >> =>
                 \A q : Masking(r.queue, q) => After(E, held, q, << >>)
  <1>1. Redacted(received, shown, held) BY OpenFacts
  <1>2. r = Redacting([held |-> held, queue |-> << >>], E)
    BY DEF RedactEvents, Redacting
  <1>3. << >> \in Seq(Chars) /\ TextOf(E) \o << >> = TextOf(E)
    <2>1. TextOf(E) \in Texts BY TextOfIncoming, SecretFacts
    <2> QED BY <2>1, EmptySeq, TextsConcat
  <1>4. /\ r \in Redactions /\ Alike(r.queue, E)
        /\ Redacted(received \o TextOf(E), shown \o TextOf(r.queue), r.held)
    <2> DEFINE x == TextOf(E)
    <2>1. x = TextOf(E) \o << >> BY <1>3
    <2> HIDE DEF x
    <2> QED BY <1>1, <1>2, <1>3, <2>1, ReadTexts
  <1>5. r.queue \in Seq(Events) BY <1>4 DEF Redactions
  <1>6. CompletedLast(r.queue) BY <1>4, <1>5, AlikeQueue
  <1> QED BY <1>2, <1>4, <1>6 DEF After

\* A read begins with an empty queue, for a collector that has concluded
\* nothing.
LEMMA ReadsFacts ==
    ASSUME IInv, Reads
    PROVE  state = "reading" /\ queue = << >> /\ outcome = "none"
  BY DEF IInv, OpenInv, Reads, InNext, Pulling

\* The events of a stream that goes on, or ends by itself.
LEMMA QueueStep ==
    ASSUME IInv, state = "reading", queue = << >>, outcome = "none",
           NEW s, Good(s),
           Assembled(s), Queue(s), cut' \in BOOLEAN,
           UNCHANGED <<signal, cancelled, outcome, shown, calls>>
    PROVE  IInv'
  <1> DEFINE r == RedactEvents(queue, s.events)
  <1>1. StreamType /\ OpenInv BY DEF IInv
  <1>2. /\ s \in Stages /\ s.events \in Seq(Incoming) /\ Telling(s)
    BY DEF Good, Stages
  <1>3. CompletedLast(s.events) BY <1>2 DEF Telling, CompletedLast
  <1>4. held' = r.held /\ queue' = r.queue BY DEF Queue, Answer
  <1>5. /\ After(s.events, held, r.queue, r.held) /\ CompletedLast(r.queue)
        /\ Redacted(received \o TextOf(s.events), shown \o TextOf(r.queue), r.held)
    <2> HIDE DEF r
    <2>1. r = RedactEvents(queue, s.events) BY DEF r
    <2> QED BY <1>1, <1>2, <1>3, <2>1, RedactStep
  <1>6. \/ (s.failed \/ s.completed) /\ state' = "draining"
           /\ RecordOnce(s.failed, s.completed)
        \/ ~s.failed /\ ~s.completed /\ state' = "reading" /\ UNCHANGED <<store, last>>
    BY DEF Queue, Answer
  <1> HIDE DEF r
  <1>7. ~s.failed => Redacted(received', shown \o TextOf(queue'), held')
    <2>1. ~s.failed => s.text = TextOf(s.events) BY <1>2 DEF Telling
    <2> QED BY <1>4, <1>5, <2>1 DEF Assembled
  <1> QED BY <1>4, <1>5, <1>6, <1>7, StreamStep

\* A chunk: its lines are consumed, redacted, queued and recorded.
LEMMA ReadLinesStep ==
    ASSUME IInv, ReadLines PROVE IInv'
  <1>1. state = "reading" /\ queue = << >> /\ outcome = "none"
    BY ReadsFacts DEF ReadLines
  <1>2. StreamType /\ OpenInv BY DEF IInv
  <1>3. asm \in Assemblies /\ ~asm.failed /\ ~asm.completed
    BY <1>1, <1>2, OpenFacts DEF StreamType
  <1>4. PICK c \in Chunks :
            LET s == [Assembling EXCEPT !.bytes = @ + Count(c)]
                t == Consume(s, c.lines)
            IN  /\ s.bytes <= MaxBytes
                /\ cut' = c.more
                /\ Assembled(t) /\ Queue(t)
    BY DEF ReadLines
  <1> DEFINE b == Assembling.bytes + Count(c)
             s == [Assembling EXCEPT !.bytes = b]
             t == Consume(s, c.lines)
  <1>5. cut' = c.more /\ Assembled(t) /\ Queue(t) BY <1>4
  <1>6. c.lines \in Seq(Frames) /\ c.more \in BOOLEAN /\ Count(c) \in Nat
    BY ChunkFacts
  <1>7. b \in Nat
    <2>1. Assembling.bytes \in Nat BY <1>3, AssemblingIs DEF Stages
    <2> QED BY <1>6, <2>1
  <1> HIDE DEF b
  <1>8. Good(s) BY <1>3, <1>7, GoodAssembling
  <1> HIDE DEF s
  <1>9. Good(t) BY <1>6, <1>8, GoodConsume
  <1> HIDE DEF t
  <1>10. UNCHANGED <<signal, cancelled, outcome, shown, calls>>
    BY DEF ReadLines, accepted
  <1>11. cut' \in BOOLEAN BY <1>5, <1>6
  <1> QED BY <1>1, <1>5, <1>9, <1>10, <1>11, QueueStep

\* A body past its bound is a failure.
LEMMA ReadTooMuchStep ==
    ASSUME IInv, ReadTooMuch PROVE IInv'
  <1> DEFINE a == Assembling  s == Fail(a)
  <1>1. state = "reading" /\ queue = << >> /\ outcome = "none"
    BY ReadsFacts DEF ReadTooMuch
  <1>2. StreamType /\ OpenInv BY DEF IInv
  <1>3. asm \in Assemblies /\ ~asm.failed /\ ~asm.completed
    BY <1>1, <1>2, OpenFacts DEF StreamType
  <1>4. Good(a) /\ ~a.failed /\ ~a.completed
    <2>1. 0 \in Nat OBVIOUS
    <2> QED BY <1>3, <2>1, GoodAssembling
  <1>5. Assembled(s) /\ Queue(s) BY DEF ReadTooMuch
  <1> HIDE DEF a
  <1>6. a \in Stages BY <1>4 DEF Good
  <1>7. Like(a, s) /\ s.failed /\ s.events = Append(a.events, Failed)
    BY <1>6, FailIs
  <1> HIDE DEF s
  <1>8. Good(s) BY <1>4, <1>7, GoodFail
  <1>9. cut' \in BOOLEAN /\ UNCHANGED <<signal, cancelled, outcome, shown, calls>>
    BY <1>2 DEF ReadTooMuch, StreamType, accepted
  <1> QED BY <1>1, <1>5, <1>8, <1>9, QueueStep

\* The events of a stream that is at its end.
LEMMA FlushStep ==
    ASSUME StreamType, OpenInv, queue = << >>, outcome = "none",
           state \in {"calling", "reading"},
           NEW E \in Seq(Incoming), CompletedLast(E),
           Answer(Flush(RedactEvents(queue, E)), "draining")
    PROVE  /\ After(E, held, queue', held') /\ CompletedLast(queue')
           /\ state' = "draining" /\ held' = << >>
  <1> DEFINE r == RedactEvents(queue, E)  x == Flush(r)
  <1>1. /\ r \in Redactions /\ After(E, held, r.queue, r.held)
        /\ CompletedLast(r.queue)
        /\ r.held # << >> => \A q : Masking(r.queue, q) => After(E, held, q, << >>)
    <2> HIDE DEF r
    <2>1. r = RedactEvents(queue, E) BY DEF r
    <2> QED BY <2>1, RedactStep
  <1>2. held' = x.held /\ queue' = x.queue /\ state' = "draining" BY DEF Answer
  <1> HIDE DEF r
  <1>3. x = Flush(r) OBVIOUS
  <1> HIDE DEF x
  <1>4. /\ r.held = << >> => x = r
        /\ r.held # << >> =>
              x.held = << >> /\ Masking(r.queue, x.queue) /\ CompletedLast(x.queue)
    BY <1>1, <1>3, FlushIs
  <1> QED BY <1>1, <1>2, <1>4

\* The end of the body: what is held is masked before the completion.
LEMMA ReadEndStep ==
    ASSUME IInv, ReadEnd PROVE IInv'
  <1>1. state = "reading" /\ queue = << >> /\ outcome = "none"
    BY ReadsFacts DEF ReadEnd
  <1>2. StreamType /\ OpenInv BY DEF IInv
  <1>3. asm \in Assemblies /\ ~asm.failed /\ ~asm.completed
    BY <1>1, <1>2, OpenFacts DEF StreamType
  <1>4. cut' \in BOOLEAN /\ UNCHANGED <<signal, cancelled, cut, outcome, shown, calls>>
    BY <1>2 DEF ReadEnd, StreamType, accepted
  <1>5. ASSUME NEW lines \in Seq(Frames), NEW s,
               s = Finished(Consume(Assembling, lines)),
               Assembled(s),
               Answer(Flush(RedactEvents(queue, s.events)), "draining"),
               RecordOnce(s.failed, s.completed)
        PROVE  IInv'
    <2>1. Good(Assembling)
      <3>1. 0 \in Nat OBVIOUS
      <3> QED BY <1>3, <3>1, GoodAssembling
    <2>2. Good(Consume(Assembling, lines)) BY <2>1, GoodConsume
    <2>3. Good(s) /\ (s.failed \/ s.completed) BY <1>5, <2>2, GoodFinished
    <2>4. s.events \in Seq(Incoming) /\ CompletedLast(s.events)
      BY <2>3 DEF Good, Stages, Telling, CompletedLast
    <2>5. /\ After(s.events, held, queue', held') /\ CompletedLast(queue')
          /\ state' = "draining"
      BY <1>1, <1>2, <1>5, <2>4, FlushStep
    <2> QED BY <1>1, <1>4, <1>5, <2>3, <2>5, StreamStep
  <1>6. ASSUME asm.plain, asm' = asm, NEW body \in Bodies,
               Answer(Flush(RedactEvents(queue, body)), "draining"),
               received' = received \o BodyText(body),
               RecordOnce(body = <<Failed>>, TRUE)
        PROVE  IInv'
    <2>1. /\ body \in Seq(Incoming) /\ BodyText(body) = TextOf(body)
          /\ \A i \in 1 .. Len(body) : body[i] # Cancelled
          /\ \A i \in 1 .. Len(body) : body[i] = Completed => i = Len(body)
          /\ Has(body, Failed) => body = <<Failed>>
          /\ Has(body, Completed) <=> body # <<Failed>>
      BY BodyFacts
    <2>2. CompletedLast(body) /\ ~Has(body, Cancelled)
      BY <2>1 DEF CompletedLast, Has
    <2>3. /\ After(body, held, queue', held') /\ CompletedLast(queue')
          /\ state' = "draining" /\ held' = << >>
      BY <1>1, <1>2, <1>6, <2>1, <2>2, FlushStep
    <2>4. /\ store' \in {"evidence", "replayable"}
          /\ last' \in {"unavailable", "recorded"}
          /\ body = <<Failed>> => store' = "evidence"
          /\ last' = "recorded" => store' = "replayable"
      BY <1>6, RecordOnceIs
    <2>5. received' = received \o TextOf(body) BY <1>6, <2>1
    <2> QED BY <1>1, <1>4, <1>6, <2>1, <2>2, <2>3, <2>4, <2>5, BodyStep
  <1>7. CASE ~asm.plain
    <2>1. PICK lines \in IF cut THEN [1 .. 1 -> Frames] ELSE {<< >>} :
              LET s == Finished(Consume(Assembling, lines))
              IN  /\ Assembled(s)
                  /\ Answer(Flush(RedactEvents(queue, s.events)), "draining")
                  /\ RecordOnce(s.failed, s.completed)
      BY <1>7 DEF ReadEnd
    <2>2. lines \in Seq(Frames)
      <3>1. CASE cut
        <4> DEFINE n == 1
        <4>1. lines \in [1 .. n -> Frames] /\ n \in Nat BY <2>1, <3>1
        <4> HIDE DEF n
        <4> QED BY <4>1, IsASeq
      <3>2. CASE ~cut BY <2>1, <3>2, EmptySeq
      <3> QED BY <3>1, <3>2
    <2> DEFINE s == Finished(Consume(Assembling, lines))
    <2>3. /\ Assembled(s)
          /\ Answer(Flush(RedactEvents(queue, s.events)), "draining")
          /\ RecordOnce(s.failed, s.completed)
      BY <2>1
    <2>4. s = Finished(Consume(Assembling, lines)) OBVIOUS
    <2> HIDE DEF s
    <2> QED BY <1>5, <2>2, <2>3, <2>4
  <1>8. CASE asm.plain
    <2>1. PICK body \in Bodies :
              /\ Answer(Flush(RedactEvents(queue, body)), "draining")
              /\ received' = received \o BodyText(body)
              /\ RecordOnce(body = <<Failed>>, TRUE)
      BY <1>8 DEF ReadEnd, BodySent
    <2>2. asm' = asm BY <1>8 DEF ReadEnd
    <2> QED BY <1>6, <1>8, <2>1, <2>2
  <1> QED BY <1>7, <1>8

----------------------------------------------------------------------------
(* The other steps. *)

\* A step that leaves the queue and the texts alone.
LEMMA QuietText ==
    ASSUME IInv, UNCHANGED <<held, queue, received, shown>>,
           asm'.failed = asm.failed, outcome' = "none" => outcome = "none",
           Pulling' => Pulling
    PROVE  TextInv'
  BY DEF IInv, TextInv

\* A stream begins with nothing read.
LEMMA CallStreamsStep ==
    ASSUME IInv, CallStreams PROVE IInv'
  <1> USE DEF CallStreams, sent, accepted, Pulling
  <1>1. TextInv' BY QuietText
  <1>2. StreamType' BY DEF IInv, StreamType
  <1>3. OpenInv' BY DEF IInv, OpenInv
  <1>4. OrderInv' BY DEF IInv, OrderInv
  <1>5. RecordInv' BY DEF IInv, RecordInv
  <1>6. CompletedInv' BY DEF IInv, OpenInv, CompletedInv
  <1>7. UntoldInv' BY DEF IInv, UntoldInv
  <1>8. CallsInv' BY DEF IInv, CallsInv
  <1>9. HeldInv' BY DEF IInv, HeldInv
  <1> QED BY <1>1, <1>2, <1>3, <1>4, <1>5, <1>6, <1>7, <1>8, <1>9 DEF IInv

\* A step that changes nothing but a signal, or where the collector is.
LEMMA QuietStep ==
    ASSUME IInv, signal' \in BOOLEAN, cancelled' \in BOOLEAN,
           UNCHANGED <<state, asm, cut, held, queue, store, last, outcome, received,
                       shown, calls>>
    PROVE  IInv'
  <1>1. TextInv' BY QuietText DEF Pulling
  <1>2. StreamType' BY DEF IInv, StreamType
  <1>3. OpenInv' BY DEF IInv, OpenInv
  <1>4. OrderInv' BY DEF IInv, OrderInv
  <1>5. RecordInv' BY DEF IInv, RecordInv
  <1>6. CompletedInv' BY DEF IInv, CompletedInv
  <1>7. UntoldInv' BY DEF IInv, UntoldInv
  <1>8. CallsInv' BY DEF IInv, CallsInv, Pulling
  <1>9. HeldInv' BY DEF IInv, HeldInv, Pulling
  <1> QED BY <1>1, <1>2, <1>3, <1>4, <1>5, <1>6, <1>7, <1>8, <1>9 DEF IInv

\* A cancellation that nobody has seen yet changes nothing, and neither does
\* a step of somebody else.
LEMMA StutterStep ==
    ASSUME IInv, Cancel \/ UNCHANGED vars PROVE IInv'
  <1>1. signal \in BOOLEAN /\ cancelled \in BOOLEAN BY DEF IInv, StreamType
  <1> QED BY <1>1, QuietStep DEF Cancel, vars, sent, accepted

\* The last pull finds an empty queue: either all was told, or the record
\* says that it was not.
LEMMA NextEndsStep ==
    ASSUME IInv, NextEnds PROVE IInv'
  <1> USE DEF NextEnds, sent, accepted
  <1>0. Len(queue) = 0 /\ (\A x : ~Has(queue, x))
    <2>1. Len(queue) = 0 BY EmptySeq
    <2> QED BY <2>1 DEF Has
  <1>a. /\ outcome \in {"none", "Completed"}
        /\ outcome' \in {"Completed", "Unfinished", "Stopped"}
        /\ outcome' = "Completed" => outcome = "Completed"
        /\ outcome' = "Unfinished" => outcome = "none"
    BY DEF InNext, Pulling, Concludes
  <1>1. TextInv' BY <1>a, QuietText DEF Pulling
  <1>2. StreamType' BY <1>a DEF IInv, StreamType
  <1>3. OpenInv' BY DEF OpenInv
  <1>4. OrderInv' BY <1>a DEF IInv, OrderInv
  <1>5. RecordInv'
    <2>1. outcome' = "Unfinished" => store = "evidence"
      BY <1>0, <1>a DEF IInv, RecordInv
    <2> QED BY <1>0, <1>a, <2>1 DEF IInv, RecordInv
  <1>6. CompletedInv' BY <1>0, <1>a DEF IInv, CompletedInv
  <1>7. UntoldInv' BY DEF IInv, UntoldInv
  <1>8. CallsInv' BY <1>a DEF IInv, CallsInv, Pulling
  <1>9. HeldInv' BY <1>a DEF IInv, HeldInv, Pulling
  <1> QED BY <1>1, <1>2, <1>3, <1>4, <1>5, <1>6, <1>7, <1>8, <1>9 DEF IInv

\* A plain body is only collected.
LEMMA ReadPlainStep ==
    ASSUME IInv, ReadPlain PROVE IInv'
  <1> USE DEF ReadPlain, sent, accepted
  <1>0. /\ state = "reading" /\ queue = << >> /\ StreamType /\ OpenInv
        /\ asm \in Assemblies /\ outcome = "none"
    BY ReadsFacts DEF IInv, StreamType
  <1>a. ~asm.failed /\ ~asm.completed /\ store = "none" /\ last = "unavailable"
    BY <1>0, OpenFacts
  <1>b. /\ asm' \in Assemblies /\ asm'.plain /\ asm'.failed = asm.failed
        /\ asm'.completed = asm.completed
    <2>1. asm.bytes + 1 \in Nat BY <1>0 DEF Assemblies
    <2> QED BY <1>0, <2>1 DEF Assemblies
  <1>c. Len(queue) = 0 /\ \A x : ~Has(queue, x)
    <2>1. Len(queue) = 0 BY <1>0, EmptySeq
    <2> QED BY <2>1 DEF Has
  <1>1. TextInv' BY <1>b, QuietText DEF Pulling
  <1>2. StreamType' BY <1>b DEF IInv, StreamType
  <1>3. OpenInv' BY <1>0, <1>b DEF IInv, OpenInv
  <1>4. OrderInv'
    <2>1. CompletedLast(queue) BY <1>c DEF CompletedLast
    <2> QED BY <1>0, <1>a, <1>c, <2>1 DEF OrderInv
  <1>5. RecordInv' BY <1>0, <1>a, <1>b, <1>c DEF RecordInv
  <1>6. CompletedInv' BY <1>a, <1>b DEF CompletedInv
  <1>7. UntoldInv' BY <1>b DEF UntoldInv
  <1>8. CallsInv' BY <1>a, <1>b DEF CallsInv
  <1>9. HeldInv' BY <1>0 DEF HeldInv
  <1> QED BY <1>1, <1>2, <1>3, <1>4, <1>5, <1>6, <1>7, <1>8, <1>9 DEF IInv

\* A read that fails ends the turn, and the record says so.
LEMMA ReadFailsStep ==
    ASSUME IInv, ReadFails PROVE IInv'
  <1> USE DEF ReadFails, RecordEvidence, sent, accepted
  <1>0. /\ state = "reading" /\ queue = << >> /\ outcome = "none"
        /\ StreamType /\ OpenInv
    BY ReadsFacts DEF IInv
  <1>a. ~asm.failed /\ ~asm.completed BY <1>0, OpenFacts
  <1>c. Len(queue) = 0 /\ \A x : ~Has(queue, x)
    <2>1. Len(queue) = 0 BY <1>0, EmptySeq
    <2> QED BY <2>1 DEF Has
  <1>1. TextInv' BY QuietText DEF Pulling
  <1>2. StreamType' BY DEF IInv, StreamType
  <1>3. OpenInv' BY DEF OpenInv
  <1>4. OrderInv'
    <2>1. CompletedLast(queue) BY <1>c DEF CompletedLast
    <2> QED BY <1>c, <2>1 DEF OrderInv
  <1>5. RecordInv' BY <1>a, <1>c DEF RecordInv
  <1>6. CompletedInv' BY <1>a DEF CompletedInv
  <1>7. UntoldInv' BY DEF IInv, UntoldInv
  <1>8. CallsInv' BY <1>a DEF CallsInv
  <1>9. HeldInv' BY DEF HeldInv, Pulling
  <1> QED BY <1>1, <1>2, <1>3, <1>4, <1>5, <1>6, <1>7, <1>8, <1>9 DEF IInv

\* A cancelled turn drops its queue, unless the stream has completed.
LEMMA NextCancelledStep ==
    ASSUME IInv, NextCancelled PROVE IInv'
  <1> USE DEF NextCancelled, sent, accepted, Pulling
  <1>0. ~asm.completed BY DEF Cancels
  <1>c. /\ Len(queue') = 0 /\ (\A x : ~Has(queue', x)) /\ ~HasCall(queue')
        /\ queue' \in Seq(Events)
    <2>1. Len(queue') = 0 /\ queue' \in Seq(Events) BY EmptySeq
    <2> QED BY <2>1 DEF Has, HasCall
  <1>1. TextInv' BY DEF IInv, TextInv
  <1>2. StreamType' BY <1>c DEF IInv, StreamType
  <1>3. OpenInv' BY DEF OpenInv
  <1>4. OrderInv'
    <2>1. CompletedLast(queue') BY <1>c DEF CompletedLast
    <2> QED BY <1>c, <2>1 DEF OrderInv
  <1>5. RecordInv' BY <1>0, <1>c DEF IInv, RecordInv
  <1>6. CompletedInv' BY <1>0 DEF CompletedInv
  <1>7. UntoldInv' BY <1>c DEF IInv, UntoldInv
  <1>8. CallsInv' BY <1>0 DEF CallsInv
  <1>9. HeldInv' BY DEF HeldInv
  <1> QED BY <1>1, <1>2, <1>3, <1>4, <1>5, <1>6, <1>7, <1>8, <1>9 DEF IInv

----------------------------------------------------------------------------
(* The collector, and the invariant. *)

\* The first event of a queue, and the others.
LEMMA TailFacts ==
    ASSUME NEW q \in Seq(Events), q # << >>, NEW e, e = Head(q),
           NEW t, t = Tail(q), NEW n, n = Len(q)
    PROVE  /\ e \in Events /\ t \in Seq(Events) /\ e = q[1]
           /\ n \in Nat /\ n > 0 /\ Len(t) = n - 1
           /\ \A i \in 1 .. n - 1 : t[i] = q[i + 1]
           /\ \A k \in 0 .. n - 1 : TextTo(q, k + 1) = Said(e) \o TextTo(t, k)
           /\ TextOf(q) = Said(e) \o TextOf(t)
           /\ 1 \in 1 .. n /\ n - 1 \in Nat
           /\ \A i \in 1 .. n - 1 : i + 1 \in 1 .. n
           /\ \A i \in 1 .. n : i = 1 \/ \E j \in 1 .. n - 1 : i = j + 1
           /\ \A x : Has(q, x) <=> x = e \/ Has(t, x)
           /\ HasCall(q) <=> e.kind = "call" \/ HasCall(t)
  <1>4. /\ e \in Events /\ t \in Seq(Events) /\ e = q[1]
        /\ n \in Nat /\ n > 0 /\ Len(t) = n - 1
        /\ \A i \in 1 .. n - 1 : t[i] = q[i + 1]
        /\ \A k \in 0 .. n - 1 : TextTo(q, k + 1) = Said(e) \o TextTo(t, k)
        /\ TextOf(q) = Said(e) \o TextOf(t)
    BY TextToTail
  <1>7. /\ 1 \in 1 .. n /\ n - 1 \in Nat
        /\ \A i \in 1 .. n - 1 : i + 1 \in 1 .. n
        /\ \A i \in 1 .. n : i = 1 \/ \E j \in 1 .. n - 1 : i = j + 1
    <2>1. 1 \in 1 .. n /\ n - 1 \in Nat /\ \A i \in 1 .. n - 1 : i + 1 \in 1 .. n
      BY <1>4
    <2>2. ASSUME NEW i \in 1 .. n, i # 1 PROVE \E j \in 1 .. n - 1 : i = j + 1
      <3>1. i - 1 \in 1 .. n - 1 /\ i = (i - 1) + 1 BY <1>4, <2>2
      <3> QED BY <3>1
    <2> QED BY <2>1, <2>2
  <1>8. /\ \A x : Has(q, x) <=> x = e \/ Has(t, x)
        /\ HasCall(q) <=> e.kind = "call" \/ HasCall(t)
    <2>0. /\ \A i \in 1 .. Len(t) : \E j \in 1 .. n : t[i] = q[j]
          /\ \A i \in 1 .. n : q[i] = e \/ \E j \in 1 .. Len(t) : q[i] = t[j]
      <3>1. \A i \in 1 .. n - 1 : i + 1 \in 1 .. n /\ t[i] = q[i + 1]
        BY <1>4, <1>7
      <3>2. \A i \in 1 .. n : i = 1 \/ \E j \in 1 .. n - 1 : i = j + 1
        BY <1>7
      <3>3. 1 .. Len(t) = 1 .. n - 1 /\ q[1] = e BY <1>4
      <3> QED BY <3>1, <3>2, <3>3
    <2>1. \A x : Has(q, x) <=> x = e \/ Has(t, x)
      <3>1. 1 \in 1 .. n /\ q[1] = e BY <1>4, <1>7
      <3> QED BY <2>0, <3>1 DEF Has
    <2>2. HasCall(q) <=> e.kind = "call" \/ HasCall(t)
      <3>1. 1 \in 1 .. n /\ q[1] = e BY <1>4, <1>7
      <3> QED BY <2>0, <3>1 DEF HasCall
    <2> QED BY <2>1, <2>2
  <1> QED BY <1>4, <1>7, <1>8

\* The completion that is last is last of the others too, or the only event.
LEMMA TailCompletedLast ==
    ASSUME NEW q \in Seq(Events), q # << >>, CompletedLast(q)
    PROVE  CompletedLast(Tail(q)) /\ (Head(q) = Completed => Tail(q) = << >>)
  <1> DEFINE e == Head(q)  t == Tail(q)  n == Len(q)
  <1> HIDE DEF e, t, n
  <1>0. e = Head(q) /\ t = Tail(q) /\ n = Len(q) BY DEF e, t, n
  <1>1. /\ t \in Seq(Events) /\ e = q[1] /\ n \in Nat /\ Len(t) = n - 1
        /\ \A i \in 1 .. n - 1 : t[i] = q[i + 1]
        /\ 1 \in 1 .. n /\ \A i \in 1 .. n - 1 : i + 1 \in 1 .. n
    BY <1>0, TailFacts
  <1>2. \A i \in 1 .. n : q[i] = Completed => i = n BY <1>0 DEF CompletedLast
  <1>3. CompletedLast(t)
    <2> SUFFICES ASSUME NEW i \in 1 .. Len(t), t[i] = Completed
                 PROVE  i = Len(t)
      BY DEF CompletedLast
    <2>1. i \in 1 .. n - 1 /\ i + 1 \in 1 .. n /\ q[i + 1] = Completed BY <1>1
    <2>2. i + 1 = n BY <1>2, <2>1
    <2> QED BY <1>1, <2>1, <2>2
  <1>4. ASSUME e = Completed PROVE t = << >>
    <2>1. 1 = n BY <1>1, <1>2, <1>4
    <2>2. Len(t) = 0 BY <1>1, <2>1
    <2> QED BY <1>1, <2>2, EmptySeq
  <1> QED BY <1>3, <1>4 DEF e, t

\* What is left of a queue was in it.
LEMMA TailHas ==
    ASSUME NEW q \in Seq(Events), q # << >>, NEW t, t = Tail(q)
    PROVE  /\ t \in Seq(Events) /\ (\A x : Has(t, x) => Has(q, x))
           /\ HasCall(t) => HasCall(q)
           /\ \A i \in 1 .. Len(t) : \E j \in 1 .. Len(q) : t[i] = q[j]
  <1> DEFINE e == Head(q)  n == Len(q)
  <1> HIDE DEF e, n
  <1>0. e = Head(q) /\ n = Len(q) BY DEF e, n
  <1>1. /\ t \in Seq(Events) /\ Len(t) = n - 1
        /\ \A i \in 1 .. n - 1 : t[i] = q[i + 1]
        /\ \A i \in 1 .. n - 1 : i + 1 \in 1 .. n
    BY <1>0, TailFacts
  <1>2. (\A x : Has(q, x) <=> x = e \/ Has(t, x))
        /\ (HasCall(q) <=> e.kind = "call" \/ HasCall(t))
    BY <1>0, TailFacts
  <1> QED BY <1>1, <1>2 DEF n

\* The collector stops: what it has been told is all it will be.
LEMMA StopStep ==
    ASSUME IInv,
           UNCHANGED <<signal, cancelled, state, asm, cut, held, store, last, received,
                       shown, calls>>,
           state # "calling",
           queue' = queue \/ (queue # << >> /\ queue' = Tail(queue)),
           outcome' \in {"Failed", "Cancelled", "Refused", "Stopped"},
           state = "reading" => outcome' \in {"Refused", "Stopped"},
           outcome' = "Failed" => store = "evidence",
           asm.completed /\ ~asm.failed =>
               outcome' = "Stopped" \/ (outcome' = "Refused" /\ state = "draining")
    PROVE  IInv'
  <1>1. /\ StreamType /\ OpenInv /\ TextInv /\ OrderInv /\ RecordInv /\ UntoldInv
        /\ queue \in Seq(Events)
    BY DEF IInv, StreamType
  <1>0. queue \in Seq(Events) BY <1>1
  <1>2. /\ queue' \in Seq(Events) /\ (\A x : Has(queue', x) => Has(queue, x))
        /\ HasCall(queue') => HasCall(queue)
        /\ CompletedLast(queue) => CompletedLast(queue')
        /\ \A i \in 1 .. Len(queue') : \E j \in 1 .. Len(queue) : queue'[i] = queue[j]
    <2>1. CASE queue' = queue
      <3>1. \A i \in 1 .. Len(queue') :
                i \in 1 .. Len(queue) /\ queue'[i] = queue[i]
        BY <2>1
      <3>2. queue' \in Seq(Events) /\ (\A x : Has(queue', x) => Has(queue, x))
            /\ (HasCall(queue') => HasCall(queue))
            /\ (CompletedLast(queue) => CompletedLast(queue'))
        BY <1>1, <2>1
      <3> QED BY <3>1, <3>2
    <2>2. CASE queue # << >> /\ queue' = Tail(queue)
      <3>1. /\ queue' \in Seq(Events) /\ (\A x : Has(queue', x) => Has(queue, x))
            /\ HasCall(queue') => HasCall(queue)
            /\ \A i \in 1 .. Len(queue') :
                  \E j \in 1 .. Len(queue) : queue'[i] = queue[j]
        <4> DEFINE t == queue'
        <4>1. t = Tail(queue) /\ queue # << >> BY <2>2
        <4> HIDE DEF t
        <4>2. t \in Seq(Events) /\ (HasCall(t) => HasCall(queue))
          BY ONLY <1>0, <4>1, TailHas
        <4>3. \A x : Has(t, x) => Has(queue, x)
          BY ONLY <1>0, <4>1, TailHas
        <4>4. \A i \in 1 .. Len(t) : \E j \in 1 .. Len(queue) : t[i] = queue[j]
          BY ONLY <1>0, <4>1, TailHas
        <4> QED BY <4>2, <4>3, <4>4 DEF t
      <3>2. ASSUME CompletedLast(queue) PROVE CompletedLast(queue')
        BY <1>0, <2>2, <3>2, TailCompletedLast
      <3> QED BY <3>1, <3>2
    <2> QED BY <2>1, <2>2
  <1>3. outcome' # "none" /\ ~Pulling' BY DEF Pulling
  <1>4. TextInv' BY <1>1, <1>3 DEF TextInv
  <1>5. StreamType' BY <1>1, <1>2 DEF StreamType
  <1>6. OpenInv' BY <1>1, <1>2, <1>3 DEF OpenInv
  <1>7. OrderInv' BY <1>1, <1>2 DEF OrderInv
  <1>8. RecordInv' BY <1>1, <1>2, <1>3 DEF RecordInv
  <1>9. CompletedInv' BY DEF CompletedInv
  <1>10. UntoldInv' BY <1>1, <1>2 DEF UntoldInv
  <1>11. CallsInv' /\ HeldInv' BY <1>3 DEF CallsInv, HeldInv
  <1> QED BY <1>4, <1>5, <1>6, <1>7, <1>8, <1>9, <1>10, <1>11 DEF IInv

\* The collector looks at its token.
LEMMA LookStep ==
    ASSUME IInv, Look PROVE IInv'
  <1>1. /\ state # "calling" /\ queue' = queue
        /\ UNCHANGED <<signal, cancelled, state, asm, cut, held, store, last, received,
                       shown, calls>>
    BY DEF Look, sent, accepted
  <1>2. signal \in BOOLEAN /\ cancelled \in BOOLEAN BY DEF IInv, StreamType
  <1>3. CASE cancelled
    <2>1. outcome' = "Stopped" BY <1>3 DEF Look
    <2> QED BY <1>1, <2>1, StopStep
  <1>4. CASE ~cancelled
    <2>1. outcome' = outcome BY <1>4 DEF Look
    <2> QED BY <1>1, <1>2, <2>1, QuietStep
  <1> QED BY <1>3, <1>4

\* What the collector is about to take.
LEMMA TakingFacts ==
    ASSUME IInv, Taking
    PROVE  /\ outcome \in {"none", "Completed"} /\ queue # << >>
           /\ queue' = Tail(queue) /\ queue \in Seq(Events) /\ state # "calling"
           /\ Has(queue, Head(queue)) /\ Head(queue) \in Events
           /\ state = "reading" => Head(queue).kind = "text" /\ outcome = "none"
           /\ asm.completed /\ ~asm.failed =>
                 /\ state = "draining" /\ outcome = "none"
                 /\ ~Has(queue, Failed) /\ ~Has(queue, Cancelled)
  <1> DEFINE e == Head(queue)  t == Tail(queue)  n == Len(queue)
  <1>1. /\ outcome \in {"none", "Completed"} /\ queue # << >> /\ queue' = t
    BY DEF Taking, InNext, Pulling
  <1>2. queue \in Seq(Events) /\ OpenInv /\ CompletedInv BY DEF IInv, StreamType
  <1> HIDE DEF e, t, n
  <1>3. e = Head(queue) /\ t = Tail(queue) /\ n = Len(queue) BY DEF e, t, n
  <1>4. /\ e \in Events /\ e = queue[1] /\ 1 \in 1 .. n /\ Has(queue, e)
    BY <1>1, <1>2, <1>3, TailFacts
  <1>5. state # "calling" BY <1>1, <1>2 DEF OpenInv
  <1>6. state = "reading" => e.kind = "text" /\ outcome = "none"
    BY <1>1, <1>2, <1>3, <1>4 DEF OpenInv
  <1>7. asm.completed /\ ~asm.failed =>
           /\ state = "draining" /\ outcome = "none"
           /\ ~Has(queue, Failed) /\ ~Has(queue, Cancelled)
    BY <1>1, <1>2 DEF CompletedInv
  <1> QED BY <1>1, <1>2, <1>4, <1>5, <1>6, <1>7 DEF e, t

\* The collector takes an end, or what it refuses.
LEMMA NextTerminalStep ==
    ASSUME IInv, NextTerminal \/ NextRefused PROVE IInv'
  <1> DEFINE e == Head(queue)
  <1>1. Taking BY DEF NextTerminal, NextRefused
  <1>2. /\ outcome \in {"none", "Completed"} /\ queue # << >>
        /\ queue' = Tail(queue) /\ state # "calling" /\ Has(queue, e)
        /\ state = "reading" => e.kind = "text" /\ outcome = "none"
        /\ asm.completed /\ ~asm.failed =>
              /\ state = "draining" /\ outcome = "none"
              /\ ~Has(queue, Failed) /\ ~Has(queue, Cancelled)
    BY <1>1, TakingFacts
  <1>3. \/ e = Failed /\ outcome' = "Failed"
        \/ e = Cancelled /\ outcome' = "Cancelled"
        \/ outcome = "Completed" /\ outcome' \in {"Refused", "Stopped"}
        \/ outcome = "none" /\ outcome' \in {"Refused", "Stopped"}
    BY DEF NextTerminal, NextRefused, Concludes
  <1>4. UNCHANGED <<signal, cancelled, state, asm, cut, held, store, last, received,
                    shown, calls>>
    BY DEF NextTerminal, NextRefused, sent, accepted
  <1>5. Failed.kind # "text" /\ Cancelled.kind # "text" BY DEF Failed, Cancelled
  <1> HIDE DEF e
  <1>6. outcome' = "Failed" => store = "evidence"
    <2>1. RecordInv BY DEF IInv
    <2>2. outcome' = "Failed" => Has(queue, Failed) BY <1>2, <1>3
    <2> QED BY <2>1, <2>2 DEF RecordInv
  <1>7. state = "reading" => outcome' \in {"Refused", "Stopped"}
    BY <1>2, <1>3, <1>5
  <1>8. asm.completed /\ ~asm.failed =>
           outcome' = "Stopped" \/ (outcome' = "Refused" /\ state = "draining")
    BY <1>2, <1>3
  <1>9. outcome' \in {"Failed", "Cancelled", "Refused", "Stopped"} BY <1>3
  <1> QED BY <1>2, <1>4, <1>6, <1>7, <1>8, <1>9, StopStep

\* The collector takes an event: what moves from the queue to what is shown.
LEMMA NextQueuedStep ==
    ASSUME IInv, NextQueued PROVE IInv'
  <1> DEFINE e == Head(queue)  t == Tail(queue)  n == Len(queue)
  <1>1. /\ StreamType /\ OpenInv /\ TextInv /\ OrderInv /\ RecordInv
        /\ CompletedInv /\ UntoldInv /\ CallsInv /\ HeldInv
    BY DEF IInv
  <1>2. /\ queue # << >> /\ outcome = "none" /\ queue' = t
        /\ e \notin {Failed, Cancelled}
        /\ outcome' = IF e = Completed THEN "Completed" ELSE "none"
        /\ shown' = shown \o Said(e)
        /\ calls' = IF e.kind = "call" THEN Append(calls, e.index) ELSE calls
        /\ UNCHANGED <<signal, cancelled, state, asm, cut, held, store, last, received>>
    BY DEF NextQueued, Taking, sent
  <1>3. queue \in Seq(Events) /\ shown \in Texts /\ calls \in Seq(Indexes)
    BY <1>1 DEF StreamType
  <1> HIDE DEF e, t, n
  <1>a. e = Head(queue) /\ t = Tail(queue) /\ n = Len(queue) BY DEF e, t, n
  <1>4. /\ e \in Events /\ t \in Seq(Events) /\ e = queue[1]
        /\ n \in Nat /\ n > 0 /\ Len(t) = n - 1
        /\ \A i \in 1 .. n - 1 : t[i] = queue[i + 1]
        /\ \A k \in 0 .. n - 1 : TextTo(queue, k + 1) = Said(e) \o TextTo(t, k)
        /\ TextOf(queue) = Said(e) \o TextOf(t)
    BY <1>2, <1>3, TextToTail DEF e, t, n
  <1>5. /\ e.kind \in {"text", "call", "completed", "failed", "cancelled"}
        /\ e.kind = "call" => e.index \in Indexes /\ e = Call(e.index)
        /\ e.kind = "completed" <=> e = Completed
        /\ Said(e) \in Texts
    BY <1>4, EventKinds, SaidType
  <1>6. /\ outcome' = "none" <=> e # Completed
        /\ outcome' = "Completed" <=> e = Completed
        /\ outcome' \in {"none", "Completed"}
    BY <1>2
  <1>7. /\ 1 \in 1 .. n /\ n = Len(queue) /\ n - 1 \in Nat
        /\ \A i \in 1 .. n - 1 : i + 1 \in 1 .. n
        /\ \A i \in 1 .. n : i = 1 \/ \E j \in 1 .. n - 1 : i = j + 1
    BY <1>2, <1>3, <1>a, TailFacts
  <1>8. /\ \A x : Has(queue, x) <=> x = e \/ Has(t, x)
        /\ HasCall(queue) <=> e.kind = "call" \/ HasCall(t)
    BY <1>2, <1>3, <1>a, TailFacts
  <1>9. shown' \in Texts BY <1>2, <1>3, <1>5, TextsConcat
  <1>10. calls' \in Seq(Indexes)
    <2>1. e.kind = "call" => Append(calls, e.index) \in Seq(Indexes)
      BY <1>3, <1>5, AppendProperties
    <2> QED BY <1>2, <1>3, <2>1
  <1>11. StreamType' BY <1>1, <1>2, <1>4, <1>6, <1>9, <1>10 DEF StreamType
  <1>12. TextOf(t) \in Texts /\ \A k \in 0 .. n - 1 : TextTo(t, k) \in Texts
    BY <1>4, TextOfType, TextToFacts
  <1>13. /\ shown' \o TextOf(t) = shown \o TextOf(queue)
         /\ \A k \in 0 .. n - 1 : shown' \o TextTo(t, k) = shown \o TextTo(queue, k + 1)
    <2>1. /\ (shown \o Said(e)) \o TextOf(t) = shown \o (Said(e) \o TextOf(t))
          /\ \A k \in 0 .. n - 1 :
                (shown \o Said(e)) \o TextTo(t, k) = shown \o (Said(e) \o TextTo(t, k))
      <3>1. \A y \in Texts : (shown \o Said(e)) \o y = shown \o (Said(e) \o y)
        BY <1>3, <1>5, TextsConcat
      <3> QED BY <1>12, <3>1
    <2> QED BY <1>2, <1>4, <2>1
  <1>14. OpenInv'
    <2>1. state # "calling" BY <1>1, <1>2 DEF OpenInv
    <2>2. ASSUME state = "reading"
          PROVE  /\ outcome' = "none" /\ calls' = << >>
                 /\ \A i \in 1 .. Len(t) : t[i].kind = "text"
                 /\ Redacted(received', shown' \o TextOf(t), held')
                 /\ \E r \in Maskings(received') : IsPrefix(shown', r)
      <3>1. /\ calls = << >>
            /\ \A i \in 1 .. n : queue[i].kind = "text"
            /\ Redacted(received, shown \o TextOf(queue), held)
        BY <1>1, <1>2, <1>7, <2>2 DEF OpenInv
      <3>2. e.kind = "text" BY <1>4, <1>7, <3>1
      <3>3. outcome' = "none" /\ calls' = << >>
        BY <1>2, <1>5, <1>6, <3>1, <3>2
      <3>4. \A i \in 1 .. Len(t) : t[i].kind = "text"
        <4>1. \A i \in 1 .. n - 1 : t[i] = queue[i + 1] /\ i + 1 \in 1 .. n
          BY <1>4, <1>7
        <4>2. 1 .. Len(t) = 1 .. n - 1 BY <1>4
        <4> QED BY <3>1, <4>1, <4>2
      <3>5. Redacted(received', shown' \o TextOf(t), held')
        BY <1>2, <1>13, <3>1
      <3>6. \E r \in Maskings(received') : IsPrefix(shown', r)
        BY <1>9, <1>12, <3>5, ShownFirst
      <3> QED BY <3>3, <3>4, <3>5, <3>6
    <2>3. /\ state = "reading" => ~asm.failed /\ ~asm.completed
                                  /\ store = "none" /\ last = "unavailable"
      BY <1>1 DEF OpenInv
    <2> QED BY <1>2, <2>1, <2>2, <2>3 DEF OpenInv
  <1>15. ASSUME NEW k \in 0 .. n - 1, Quiet(t, k)
         PROVE  Fits(shown' \o TextTo(t, k), held, received)
    <2>1. k + 1 \in 0 .. n BY <1>4
    <2>2. Quiet(queue, k + 1)
      <3> SUFFICES ASSUME NEW i \in 1 .. k + 1
                   PROVE  queue[i] \notin {Failed, Cancelled}
        BY DEF Quiet
      <3>1. CASE i = 1 BY <1>2, <1>4, <3>1
      <3>2. CASE i # 1
        <4>1. PICK j \in 1 .. k : i = j + 1 /\ j \in 1 .. n - 1
          <5>1. i - 1 \in 1 .. k /\ i = (i - 1) + 1 /\ i - 1 \in 1 .. n - 1
            BY <1>4, <3>2
          <5> QED BY <5>1
        <4>2. t[j] = queue[i] BY <1>4, <4>1
        <4> QED BY <1>15, <4>1, <4>2 DEF Quiet
      <3> QED BY <3>1, <3>2
    <2>3. Fits(shown \o TextTo(queue, k + 1), held, received)
      BY <1>1, <1>2, <1>7, <2>1, <2>2 DEF TextInv
    <2> QED BY <1>13, <2>3
  <1>16. Fits(shown', held, received)
    <2>1. 0 \in 0 .. n - 1 /\ Quiet(t, 0) BY <1>7 DEF Quiet
    <2>2. TextTo(t, 0) = << >> BY <1>4, TextToFacts
    <2>3. shown' \o << >> = shown' BY <1>9, TextsConcat
    <2> QED BY <1>15, <2>1, <2>2, <2>3
  <1>17. TextInv'
    <2>1. \A k \in 0 .. Len(t) :
             Quiet(t, k) => Fits(shown' \o TextTo(t, k), held, received)
      BY <1>4, <1>15
    <2>2. ~asm.failed => AccountsFor(shown' \o TextOf(t), held, received)
      BY <1>1, <1>2, <1>13 DEF TextInv, Pulling
    <2> QED BY <1>2, <1>16, <2>1, <2>2 DEF TextInv
  <1>18. ASSUME asm.bytes > 0 \/ asm.failed \/ asm.completed
         PROVE  /\ CompletedLast(t) /\ (e = Completed => t = << >>)
                /\ Has(t, Completed) => ~Has(t, Failed) /\ ~Has(t, Cancelled)
    <2>1. CompletedLast(queue) BY <1>1, <1>18 DEF OrderInv
    <2>2. CompletedLast(t) /\ (e = Completed => t = << >>)
      BY <1>2, <1>3, <2>1, TailCompletedLast DEF e, t
    <2>3. Has(queue, Completed) => ~Has(queue, Failed) /\ ~Has(queue, Cancelled)
      BY <1>1, <1>18 DEF OrderInv
    <2> QED BY <1>8, <2>2, <2>3
  <1>19. OrderInv' BY <1>2, <1>6, <1>18 DEF OrderInv
  <1>20. RecordInv'
    <2>1. outcome' = "Completed" \/ Has(t, Completed) => Has(queue, Completed)
      BY <1>6, <1>8
    <2>2. outcome' \in {"Failed", "Unfinished"} \/ Has(t, Failed) =>
             Has(queue, Failed)
      BY <1>6, <1>8
    <2>3. asm.failed => outcome' # "Completed" /\ ~Has(t, Completed)
      BY <1>1, <1>6, <1>8 DEF RecordInv
    <2>4. state \in {"draining", "buffered"} /\ outcome' = "none" =>
             store = "evidence" \/ Has(t, Completed) \/ Has(t, Cancelled)
      BY <1>1, <1>2, <1>6, <1>8 DEF RecordInv
    <2> QED BY <1>1, <1>2, <2>1, <2>2, <2>3, <2>4 DEF RecordInv
  <1>21. CompletedInv'
    <2> SUFFICES ASSUME asm.completed, ~asm.failed
                 PROVE  \/ /\ outcome' = "none" /\ state = "draining"
                           /\ Has(t, Completed) /\ ~Has(t, Failed)
                           /\ ~Has(t, Cancelled)
                        \/ outcome' = "Completed" /\ t = << >>
      BY <1>2 DEF CompletedInv
    <2>1. /\ state = "draining" /\ Has(queue, Completed)
          /\ ~Has(queue, Failed) /\ ~Has(queue, Cancelled)
      BY <1>1, <1>2 DEF CompletedInv
    <2>2. CASE e = Completed BY <1>6, <1>18, <2>1, <2>2
    <2>3. CASE e # Completed BY <1>6, <1>8, <2>1, <2>3
    <2> QED BY <2>2, <2>3
  <1>22. UntoldInv' BY <1>1, <1>2, <1>8 DEF UntoldInv
  <1>23. CallsInv'
    <2> SUFFICES ASSUME asm.completed, ~asm.failed
                 PROVE  /\ \A i, j \in 1 .. Len(calls') : i < j => calls'[i] < calls'[j]
                        /\ Ordered(t)
                        /\ \A i \in 1 .. Len(calls'), j \in 1 .. Len(t) :
                              t[j].kind = "call" => calls'[i] < t[j].index
                        /\ \A x \in Indexes :
                              x \in Used(asm) <=>
                                  \/ \E i \in 1 .. Len(calls') : calls'[i] = x
                                  \/ Has(t, Call(x))
      BY <1>2 DEF CallsInv
    <2>1. /\ \A i, j \in 1 .. Len(calls) : i < j => calls[i] < calls[j]
          /\ \A i, j \in 1 .. n :
                queue[i].kind = "call" /\ queue[j].kind = "call" /\ i < j =>
                    queue[i].index < queue[j].index
          /\ \A i \in 1 .. Len(calls), j \in 1 .. n :
                queue[j].kind = "call" => calls[i] < queue[j].index
          /\ \A x \in Indexes :
                x \in Used(asm) <=> \/ \E i \in 1 .. Len(calls) : calls[i] = x
                                    \/ Has(queue, Call(x))
      BY <1>1, <1>2, <1>7 DEF CallsInv, Ordered, Pulling
    <2>3. Ordered(t)
      <3> SUFFICES ASSUME NEW i \in 1 .. Len(t), NEW j \in 1 .. Len(t),
                          t[i].kind = "call", t[j].kind = "call", i < j
                   PROVE  t[i].index < t[j].index
        BY DEF Ordered
      <3>1. /\ i \in 1 .. n - 1 /\ j \in 1 .. n - 1 /\ i + 1 \in 1 .. n
            /\ j + 1 \in 1 .. n /\ i + 1 < j + 1
        BY <1>4
      <3>2. t[i] = queue[i + 1] /\ t[j] = queue[j + 1] BY <1>4, <3>1
      <3> QED BY <2>1, <3>1, <3>2
    <2>4. CASE e.kind # "call"
      <3>1. calls' = calls BY <1>2, <2>4
      <3>2. \A x \in Indexes : Has(queue, Call(x)) <=> Has(t, Call(x))
        <4>1. \A x \in Indexes : Call(x) # e BY <2>4, IncomingEvents
        <4> QED BY <1>8, <4>1
      <3>3. \A i \in 1 .. Len(calls), j \in 1 .. Len(t) :
                t[j].kind = "call" => calls[i] < t[j].index
        BY <1>4, <1>7, <2>1
      <3> QED BY <2>1, <2>3, <3>1, <3>2, <3>3
    <2>5. CASE e.kind = "call"
      <3> DEFINE m == Len(calls)
      <3>1. calls' = Append(calls, e.index) BY <1>2, <2>5
      <3>2. /\ Len(calls') = m + 1 /\ m \in Nat
            /\ \A i \in 1 .. m : calls'[i] = calls[i]
            /\ calls'[m + 1] = e.index
        BY <1>3, <1>5, <2>5, <3>1, AppendProperties, LenProperties
      <3>3. \A i \in 1 .. m : calls[i] < e.index
        BY <1>4, <1>7, <2>1, <2>5
      <3>4. \A j \in 1 .. Len(t) : t[j].kind = "call" => e.index < t[j].index
        <4> SUFFICES ASSUME NEW j \in 1 .. Len(t), t[j].kind = "call"
                     PROVE  e.index < t[j].index
          OBVIOUS
        <4>1. j \in 1 .. n - 1 /\ j + 1 \in 1 .. n /\ 1 < j + 1 BY <1>4
        <4>2. t[j] = queue[j + 1] /\ e = queue[1] BY <1>4, <4>1
        <4> QED BY <1>7, <2>1, <2>5, <4>1, <4>2
      <3>5. \A i \in 1 .. m, j \in 1 .. Len(t) :
                t[j].kind = "call" => calls[i] < t[j].index
        BY <1>4, <1>7, <2>1
      <3>6. \A i : i \in 1 .. m + 1 <=> i \in 1 .. m \/ i = m + 1 BY <3>2
      <3>7. /\ \A i \in 1 .. m, j \in 1 .. m : i < j => calls[i] < calls[j]
            /\ \A x \in Indexes :
                  x \in Used(asm) <=> \/ \E i \in 1 .. m : calls[i] = x
                                      \/ Has(queue, Call(x))
        BY <2>1
      <3> HIDE DEF m
      <3>8. \A i, j \in 1 .. Len(calls') : i < j => calls'[i] < calls'[j]
        <4> SUFFICES ASSUME NEW i \in 1 .. Len(calls'), NEW j \in 1 .. Len(calls'), i < j
                     PROVE  calls'[i] < calls'[j]
          OBVIOUS
        <4>1. i \in 1 .. m BY <3>2
        <4>2. j \in 1 .. m \/ j = m + 1 BY <3>2
        <4> QED BY <3>2, <3>3, <3>7, <4>1, <4>2
      <3>9. \A i \in 1 .. Len(calls'), j \in 1 .. Len(t) :
                t[j].kind = "call" => calls'[i] < t[j].index
        BY <3>2, <3>4, <3>5, <3>6
      <3>10. ASSUME NEW x \in Indexes
             PROVE  x \in Used(asm) <=> \/ \E i \in 1 .. Len(calls') : calls'[i] = x
                                        \/ Has(t, Call(x))
        <4>1. (\E i \in 1 .. Len(calls') : calls'[i] = x) <=>
                 (\E i \in 1 .. m : calls[i] = x) \/ x = e.index
          BY <3>2, <3>6
        <4>2. Call(x) = e <=> x = e.index
          BY <1>5, <2>5, IncomingEvents
        <4>3. Has(queue, Call(x)) <=> x = e.index \/ Has(t, Call(x))
          BY <1>8, <4>2
        <4> QED BY <3>7, <4>1, <4>3
      <3> QED BY <2>3, <3>8, <3>9, <3>10
    <2> QED BY <2>4, <2>5
  <1>24. HeldInv' BY <1>1, <1>2 DEF HeldInv, Pulling
  <1> QED BY <1>11, <1>14, <1>17, <1>19, <1>20, <1>21, <1>22, <1>23, <1>24 DEF IInv

\* Every step keeps the invariant.
LEMMA NextStep ==
    ASSUME IInv, [Next]_vars PROVE IInv'
  <1>1. CASE CallCancelled BY <1>1, CallEndsStep
  <1>2. CASE CallFails BY <1>2, CallEndsStep
  <1>3. CASE CallBuffered BY <1>3, CallBufferedStep
  <1>4. CASE CallStreams BY <1>4, CallStreamsStep
  <1>5. CASE NextCancelled BY <1>5, NextCancelledStep
  <1>6. CASE NextQueued BY <1>6, NextQueuedStep
  <1>7. CASE NextEnds BY <1>7, NextEndsStep
  <1>8. CASE ReadLines BY <1>8, ReadLinesStep
  <1>9. CASE ReadPlain BY <1>9, ReadPlainStep
  <1>10. CASE ReadTooMuch BY <1>10, ReadTooMuchStep
  <1>11. CASE ReadEnd BY <1>11, ReadEndStep
  <1>12. CASE ReadFails BY <1>12, ReadFailsStep
  <1>13. CASE Cancel \/ UNCHANGED vars BY <1>13, StutterStep
  <1>14. CASE Look BY <1>14, LookStep
  <1>15. CASE NextTerminal \/ NextRefused BY <1>15, NextTerminalStep
  <1> QED BY <1>1, <1>2, <1>3, <1>4, <1>5, <1>6, <1>7, <1>8, <1>9, <1>10, <1>11,
             <1>12, <1>13, <1>14, <1>15 DEF Next, Calling, Taken, Reading

\* The invariant holds of every turn: however the provider cuts its text,
\* whenever the host cancels, and whichever way the call or a read ends.
THEOREM StreamInvariance == Spec => []IInv
  <1>1. Init => IInv BY InitStep
  <1>2. IInv /\ [Next]_vars => IInv' BY NextStep
  <1> QED BY <1>1, <1>2, PTL DEF Spec

\* What the collector has been shown of a turn is the provider's text with
\* occurrences of the credential masked, up to a beginning of it that is
\* held, masked or, when the stream completed in the middle of it, dropped:
\* no cut of a text into frames and chunks loses or doubles any of it.
THEOREM ShownIsAlwaysRedacted == Spec => []ShownIsRedacted
  <1>1. IInv => ShownIsRedacted
    <2> SUFFICES ASSUME IInv PROVE ShownIsRedacted
      OBVIOUS
    <2> DEFINE open == state \in {"calling", "reading"}
               d == shown \o TextOf(queue)
    <2>1. /\ shown \in Texts /\ TextOf(queue) \in Texts /\ d \in Texts
          /\ d \o << >> = d
      <3>1. shown \in Texts /\ TextOf(queue) \in Texts
        BY TextOfType DEF IInv, StreamType
      <3>2. d \in Texts BY <3>1, TextsConcat
      <3> HIDE DEF d
      <3> QED BY <3>1, <3>2, TextsConcat
    <2>2. \E r \in Maskings(received) : IsPrefix(shown, r) \/ Accounts(shown, r)
      <3>1. CASE open BY <3>1 DEF IInv, OpenInv
      <3>2. CASE ~open
        <4>1. PICK r \in Maskings(received) :
                  IsPrefix(shown, r) \/ (held = << >> /\ Marked(shown, r))
          BY DEF IInv, TextInv, Fits
        <4> QED BY <3>2, <4>1 DEF Accounts, Marked
      <3> QED BY <3>1, <3>2
    <2>3. ASSUME ~asm.failed, Pulling
          PROVE  \E r \in Maskings(received) : Accounts(d, r)
      <3>1. CASE open
        <4>1. Redacted(received, d, held)
          BY <2>3, <3>1 DEF IInv, OpenInv, Pulling
        <4>2. << >> \in Seq(Chars) /\ received \in Texts /\ held \in Texts
          BY <4>1, EmptySeq, RedactedFacts
        <4> HIDE DEF d
        <4>3. d \o (held \o << >>) \in Maskings(received \o << >>)
          BY <4>1, <4>2, RedactedMore
        <4>4. d \o held \in Maskings(received) BY <4>2, <4>3, TextsConcat
        <4> QED BY <2>1, <3>1, <4>4 DEF Accounts
      <3>2. CASE ~open
        <4>1. AccountsFor(d, held, received) BY <2>3 DEF IInv, TextInv
        <4>2. PICK r \in Maskings(received) :
                  d \o held = r \/ (held = << >> /\ Marked(d, r))
          BY <4>1 DEF AccountsFor
        <4>3. held = << >> \/ asm.completed BY <2>3, <3>2 DEF IInv, HeldInv
        <4> HIDE DEF d
        <4>4. Accounts(d, r) BY <2>1, <3>2, <4>2, <4>3 DEF Accounts, Marked
        <4> QED BY <4>4
      <3> QED BY <3>1, <3>2
    <2> QED BY <2>2, <2>3 DEF ShownIsRedacted
  <1> QED BY <1>1, StreamInvariance, PTL

\* The credential never reaches the collector, however the provider's text,
\* the frames and the chunks cut it, whether or not it overlaps itself, and
\* whatever cancels or fails the turn.
THEOREM CredentialIsAlwaysHidden == Spec => []CredentialIsHidden
  <1>1. IInv => CredentialIsHidden
    BY DEF IInv, TextInv, Fits, CredentialIsHidden
  <1> QED BY <1>1, StreamInvariance, PTL

\* A stream shows its tool calls when it has completed, all of them and in
\* their order, or none.
THEOREM CallsAreAllOrNothing == Spec => []AllOrNothing
  <1>1. IInv => AllOrNothing
    <2> SUFFICES ASSUME IInv PROVE AllOrNothing
      OBVIOUS
    <2>1. calls # << >> /\ asm.bytes > 0 /\ ~asm.plain => asm.completed
      BY DEF IInv, UntoldInv
    <2>2. ASSUME outcome = "Completed", asm.completed
          PROVE  /\ ToSet(calls) = Used(asm)
                 /\ \A i, j \in DOMAIN calls : i < j => calls[i] < calls[j]
      <3>1. ~asm.failed BY <2>2 DEF IInv, RecordInv, StreamType, Assemblies
      <3>2. queue = << >> BY <2>2 DEF IInv, OrderInv
      <3>3. calls \in Seq(Indexes) BY DEF IInv, StreamType
      <3>4. DOMAIN calls = 1 .. Len(calls) BY <3>3, LenProperties
      <3>5. \A x : ~Has(queue, x)
        <4>1. Len(queue) = 0 BY <3>2, EmptySeq
        <4> QED BY <4>1 DEF Has
      <3>6. /\ \A i, j \in 1 .. Len(calls) : i < j => calls[i] < calls[j]
            /\ \A x \in Indexes :
                  x \in Used(asm) <=> \E i \in 1 .. Len(calls) : calls[i] = x
        BY <2>2, <3>1, <3>5 DEF IInv, CallsInv, Pulling
      <3>7. ToSet(calls) = Used(asm)
        <4>1. Used(asm) \subseteq Indexes BY DEF Used
        <4>2. \A i \in 1 .. Len(calls) : calls[i] \in Indexes
          BY <3>3, ElementOfSeq
        <4> QED BY <3>4, <3>6, <4>1, <4>2 DEF ToSet
      <3> QED BY <3>4, <3>6, <3>7
    <2> QED BY <2>1, <2>2 DEF AllOrNothing
  <1> QED BY <1>1, StreamInvariance, PTL

\* The record for replay says how the response ended: a failure is evidence,
\* and only the collector may still reject what is recorded as complete.
THEOREM RecordIsAlwaysTrue == Spec => []RecordIsTrue
  <1>1. IInv => RecordIsTrue
    <2> SUFFICES ASSUME IInv PROVE RecordIsTrue
      OBVIOUS
    <2>1. /\ outcome = "Completed" => store # "none"
          /\ outcome \in {"Failed", "Unfinished"} => store = "evidence"
          /\ last = "recorded" => store = "replayable"
      BY DEF IInv, RecordInv
    <2>2. ASSUME store = "replayable", asm.completed
          PROVE  /\ last = "recorded"
                 /\ outcome \in {"none", "Completed", "Refused", "Stopped"}
                 /\ state = "done" => outcome \in {"Completed", "Stopped"}
      <3>1. ~asm.failed /\ last = "recorded" BY <2>2 DEF IInv, RecordInv
      <3> QED BY <2>2, <3>1 DEF IInv, CompletedInv
    <2> QED BY <2>1, <2>2 DEF RecordIsTrue
  <1> QED BY <1>1, StreamInvariance, PTL

----------------------------------------------------------------------------
(* The redactor alone. *)

\* StreamingSecretRedactor over any sequence of events: what it passes on and
\* what it holds is, put together, the text with occurrences of the credential
\* masked and none left, and what it holds is just what may begin another.
THEOREM RedactorMasksEveryCut ==
    ASSUME NEW E \in Seq(Incoming),
           NEW r, r = Redacting([held |-> << >>, queue |-> << >>], E)
    PROVE  /\ TextOf(r.queue) \o r.held \in Maskings(TextOf(E))
           /\ Ends(TextOf(r.queue) \o r.held) = {}
           /\ Len(r.held) = Hold(TextOf(r.queue) \o r.held)
  <1>1. RedactedTo(<< >>, << >>, E, r, Len(E)) BY RedactedNothing, RedactedAll
  <1>2. /\ TextTo(E, Len(E)) = TextOf(E) /\ TextOf(E) \in Seq(Chars)
        /\ TextOf(E) \in Texts
    <2>1. E \in Seq(Events) /\ TextOf(E) \in Seq(Chars) BY TextOfIncoming
    <2> QED BY <2>1, TextToFacts, SecretFacts
  <1>3. r.queue \in Seq(Events) /\ Len(r.queue) = Len(E)
    <2>1. r \in Redactions /\ Alike(r.queue, SubSeq(E, 1, Len(E)))
      BY <1>1 DEF RedactedTo
    <2>2. SubSeq(E, 1, Len(E)) = E BY SubSeqFull
    <2> QED BY <2>1, <2>2 DEF Redactions, Alike
  <1>4. TextTo(r.queue, Len(E)) = TextOf(r.queue) /\ TextOf(r.queue) \in Texts
    <2>1. TextTo(r.queue, Len(r.queue)) = TextOf(r.queue) BY <1>3, TextToFacts
    <2>2. TextOf(r.queue) \in Texts BY <1>3, TextOfType
    <2> QED BY <1>3, <2>1, <2>2
  <1>5. Redacted(<< >> \o TextOf(E), << >> \o TextOf(r.queue), r.held)
    BY <1>1, <1>2, <1>4 DEF RedactedTo
  <1> DEFINE u == TextOf(E)  d == TextOf(r.queue)  h == r.held
  <1>6. Redacted(u, d, h) BY <1>2, <1>4, <1>5, TextsConcat
  <1> HIDE DEF u, d, h
  <1>7. << >> \in Seq(Chars) /\ u \in Texts /\ h \in Texts
    BY <1>6, EmptySeq, RedactedFacts
  <1>8. d \o (h \o << >>) \in Maskings(u \o << >>) BY <1>6, <1>7, RedactedMore
  <1>9. d \o h \in Maskings(u) BY <1>7, <1>8, TextsConcat
  <1>10. Ends(d \o h) = {} /\ Len(h) = Hold(d \o h) BY <1>6 DEF Redacted
  <1> QED BY <1>9, <1>10 DEF u, d, h
=============================================================================
