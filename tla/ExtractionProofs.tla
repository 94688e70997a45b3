---- MODULE ExtractionProofs ----
(* Proofs about Extraction, for any documents, limits, budget and bounds.     *)
EXTENDS Extraction, FiniteSetTheorems, WellFoundedInduction, TLAPS

-----------------------------------------------------------------------------
(* The converters *)

Less == {p \in Nat \X Nat : p[1] < p[2]}

\* A set of naturals has a least element.
LEMMA LeastOfNaturals ==
  ASSUME NEW S \in SUBSET Nat, S # {}
  PROVE  \E m \in S : \A n \in S : m <= n
<1>1. IsWellFoundedOn(Less, Nat)
  BY NatLessThanWellFounded DEF OpToRel, Less
<1>2. PICK m \in S : \A n \in S : <<n, m>> \notin Less
  BY <1>1, WFMin
<1>3. ASSUME NEW n \in S PROVE m <= n
  <2>1. <<n, m>> \notin Less
    BY <1>2
  <2>2. <<n, m>> \in Nat \X Nat /\ <<n, m>>[1] = n /\ <<n, m>>[2] = m
    OBVIOUS
  <2>3. ~(n < m)
    BY <2>1, <2>2 DEF Less
  <2>4. QED
    BY <2>3
<1>4. QED
  BY <1>3

\* What holds of no element before and passes from n - 1 to n holds up to N: a
\* set of the first naturals without a least missing one is all of them.
LEMMA UpTo ==
  ASSUME NEW N \in Nat, NEW S, 0 \in S, \A n \in 1..N : n - 1 \in S => n \in S
  PROVE  0..N \subseteq S
<1> DEFINE missing == {n \in Nat : n <= N /\ n \notin S}
<1>1. SUFFICES ASSUME missing # {} PROVE FALSE
  OBVIOUS
<1>2. PICK m \in missing : \A n \in missing : m <= n
  BY <1>1, LeastOfNaturals
<1>3. m \in 1..N
  BY <1>2
<1>4. m - 1 \in S
  BY <1>2, <1>3
<1>5. QED
  BY <1>2, <1>3, <1>4

\* A pass over 1..N from a first value: a function of the value so far for each
\* element, and the values that it goes through.
Steps(step, N, V) == step \in [1..N -> [V -> V]]
Course(f, step, N, V, v0) ==
  f \in [0..N -> V] /\ f[0] = v0 /\ \A n \in 1..N : f[n] = step[n][f[n - 1]]

LEMMA PassExists ==
  ASSUME NEW N \in Nat, NEW V, NEW v0 \in V, NEW step, Steps(step, N, V)
  PROVE  \E f : Course(f, step, N, V, v0)
<1> DEFINE S == {k \in 0..N : \E f : Course(f, step, k, V, v0)}
<1>1. 0 \in S
  <2> DEFINE g == [n \in 0..0 |-> v0]
  <2>1. Course(g, step, 0, V, v0)
    BY DEF Course
  <2> HIDE DEF g
  <2>2. QED
    BY <2>1
<1>2. ASSUME NEW k \in 1..N, k - 1 \in S PROVE k \in S
  <2>1. PICK f : Course(f, step, k - 1, V, v0)
    BY <1>2
  <2> DEFINE g == [n \in 0..k |-> IF n = k THEN step[k][f[k - 1]] ELSE f[n]]
  <2>2. /\ f \in [0..k - 1 -> V] /\ f[0] = v0 /\ \A n \in 1..k - 1 : f[n] = step[n][f[n - 1]]
        /\ step[k] \in [V -> V] /\ f[k - 1] \in V
    BY <2>1 DEF Course, Steps
  <2>3. g \in [0..k -> V]
    <3>1. ASSUME NEW n \in 0..k PROVE g[n] \in V
      BY <2>2
    <3>2. QED
      BY <3>1
  <2>4. g[0] = v0
    BY <2>2
  <2>5. ASSUME NEW n \in 1..k PROVE g[n] = step[n][g[n - 1]]
    <3>1. n - 1 \in 0..k /\ n - 1 # k /\ n \in 0..k
      OBVIOUS
    <3>2. g[n - 1] = f[n - 1]
      BY <3>1
    <3>3. CASE n = k
      BY <3>1, <3>2, <3>3
    <3>4. CASE n # k
      BY <2>2, <3>1, <3>2, <3>4
    <3>5. QED
      BY <3>3, <3>4
  <2> HIDE DEF g
  <2>6. Course(g, step, k, V, v0)
    BY <2>3, <2>4, <2>5 DEF Course
  <2>7. QED
    BY <2>6
<1> HIDE DEF S
<1>3. 0..N \subseteq S
  BY <1>1, <1>2, UpTo
<1>4. QED
  BY <1>3 DEF S

LEMMA ElementOf ==
  ASSUME NEW S, NEW s \in Seq(S), NEW i \in DOMAIN s
  PROVE  s[i] \in S
OBVIOUS

\* TotalBytes is the pass its definition describes.
LEMMA TotalBytesCourse ==
  ASSUME NEW members \in Seq(Members)
  PROVE  /\ TotalBytes(members) \in [0..Len(members) -> Nat]
         /\ TotalBytes(members)[0] = 0
         /\ \A n \in 1..Len(members) :
              TotalBytes(members)[n] =
                TotalBytes(members)[n - 1]
                  + (IF Skipped(members, n) THEN 0 ELSE members[n].size)
<1> DEFINE N == Len(members)
           Next1(n, b) == IF Unsafe(members[n], b) THEN b ELSE b + members[n].size
           step == [n \in 1..N |-> [b \in Nat |-> Next1(n, b)]]
           Unfold(f) == [n \in 0..N |-> IF n = 0 THEN 0
                          ELSE LET before == f[n - 1] IN
                                 IF Unsafe(members[n], before) THEN before
                                 ELSE before + members[n].size]
<1>1. N \in Nat /\ \A n \in 1..N : members[n].size \in Nat
  <2>1. N \in Nat /\ \A n \in 1..N : members[n] \in Members
    BY ElementOf
  <2>2. QED
    BY <2>1 DEF Members
<1>2. step \in [1..N -> [Nat -> Nat]]
  BY <1>1
<1>3. PICK f : Course(f, step, N, Nat, 0)
  <2>1. Steps(step, N, Nat)
    BY <1>2 DEF Steps
  <2> HIDE DEF step, N
  <2>2. QED
    BY <1>1, <2>1, PassExists
<1>4. f = Unfold(f)
  <2>1. ASSUME NEW n \in 0..N PROVE f[n] = Unfold(f)[n]
    <3>1. CASE n = 0
      BY <1>3, <3>1 DEF Course
    <3>2. CASE n # 0
      <4>1. n \in 1..N /\ n - 1 \in 0..N
        BY <1>1, <3>2
      <4>2. f[n] = Next1(n, f[n - 1])
        BY <1>3, <4>1 DEF Course
      <4>3. QED
        BY <3>2, <4>2
    <3>3. QED
      BY <3>1, <3>2
  <2>2. QED
    BY <1>3, <2>1 DEF Course
<1>5. TotalBytes(members) = CHOOSE g : g = Unfold(g)
  BY Zenon DEF TotalBytes
<1>6. TotalBytes(members) = Unfold(TotalBytes(members))
  <2> HIDE DEF Unfold
  <2>1. QED
    BY <1>4, <1>5
<1> DEFINE t == TotalBytes(members)
<1>7. \A n \in 0..N : t[n] = IF n = 0 THEN 0 ELSE Next1(n, t[n - 1])
  <2> HIDE DEF t
  <2>1. t = Unfold(t)
    BY <1>6 DEF t
  <2>2. QED
    BY <2>1
<1>8. t \in [0..N -> Nat]
  <2>1. DOMAIN t = 0..N /\ t = [n \in 0..N |-> t[n]]
    <3> HIDE DEF t
    <3>1. t = Unfold(t)
      BY <1>6 DEF t
    <3>2. QED
      BY <3>1
  <2> DEFINE S == {n \in 0..N : t[n] \in Nat}
  <2>2. 0 \in S
    BY <1>1, <1>7
  <2>3. \A n \in 1..N : n - 1 \in S => n \in S
    BY <1>1, <1>7
  <2> HIDE DEF S
  <2>4. 0..N \subseteq S
    BY <1>1, <2>2, <2>3, UpTo
  <2>5. QED
    BY <2>1, <2>4 DEF S
<1>9. \A n \in 1..N : t[n] = t[n - 1] + (IF Skipped(members, n) THEN 0 ELSE members[n].size)
  <2>1. ASSUME NEW n \in 1..N
        PROVE t[n] = t[n - 1] + (IF Skipped(members, n) THEN 0 ELSE members[n].size)
    <3>1. n \in 0..N /\ n # 0 /\ n - 1 \in 0..N
      BY <1>1
    <3>2. t[n] = Next1(n, t[n - 1]) /\ t[n - 1] \in Nat
      BY <1>7, <1>8, <3>1
    <3>3. Skipped(members, n) <=> Unsafe(members[n], t[n - 1])
      BY DEF Skipped
    <3>4. QED
      BY <3>2, <3>3
  <2>2. QED
    BY <2>1
<1>10. t[0] = 0
  BY <1>1, <1>7
<1>11. QED
  BY <1>8, <1>9, <1>10
\* What a token does to the depth.
After(token, depth) ==
  IF token = "open" THEN depth + 1
  ELSE IF token = "close" /\ depth > 0 THEN depth - 1 ELSE depth

\* SkipDepth is the pass its definition describes.
LEMMA SkipDepthCourse ==
  ASSUME NEW tokens \in Seq(Tokens)
  PROVE  /\ SkipDepth(tokens) \in [0..Len(tokens) -> Nat]
         /\ SkipDepth(tokens)[0] = 0
         /\ \A n \in 1..Len(tokens) :
              SkipDepth(tokens)[n] = After(tokens[n], SkipDepth(tokens)[n - 1])
<1> DEFINE N == Len(tokens)
           Next1(n, b) == After(tokens[n], b)
           step == [n \in 1..N |-> [b \in Nat |-> Next1(n, b)]]
           Unfold(f) == [n \in 0..N |-> IF n = 0 THEN 0
                          ELSE LET before == f[n - 1] IN
                                 IF tokens[n] = "open" THEN before + 1
                                 ELSE IF tokens[n] = "close" /\ before > 0 THEN before - 1
                                 ELSE before]
<1>1. N \in Nat
  OBVIOUS
<1>2. step \in [1..N -> [Nat -> Nat]]
  BY <1>1 DEF After
<1>3. PICK f : Course(f, step, N, Nat, 0)
  <2>1. Steps(step, N, Nat)
    BY <1>2 DEF Steps
  <2> HIDE DEF step, N
  <2>2. QED
    BY <1>1, <2>1, PassExists
<1>4. f = Unfold(f)
  <2>1. ASSUME NEW n \in 0..N PROVE f[n] = Unfold(f)[n]
    <3>1. CASE n = 0
      BY <1>3, <3>1 DEF Course
    <3>2. CASE n # 0
      <4>1. n \in 1..N /\ n - 1 \in 0..N
        BY <1>1, <3>2
      <4>2. f[n] = Next1(n, f[n - 1])
        BY <1>3, <4>1 DEF Course
      <4>3. QED
        BY <3>2, <4>2 DEF After
    <3>3. QED
      BY <3>1, <3>2
  <2>2. QED
    BY <1>3, <2>1 DEF Course
<1>5. SkipDepth(tokens) = CHOOSE g : g = Unfold(g)
  BY Zenon DEF SkipDepth
<1>6. SkipDepth(tokens) = Unfold(SkipDepth(tokens))
  <2> HIDE DEF Unfold
  <2>1. QED
    BY <1>4, <1>5
<1> DEFINE t == SkipDepth(tokens)
<1>7. \A n \in 0..N : t[n] = IF n = 0 THEN 0 ELSE Next1(n, t[n - 1])
  <2> HIDE DEF t
  <2>1. t = Unfold(t)
    BY <1>6 DEF t
  <2>2. QED
    BY <2>1 DEF After
<1>8. t \in [0..N -> Nat]
  <2>1. DOMAIN t = 0..N /\ t = [n \in 0..N |-> t[n]]
    <3> HIDE DEF t
    <3>1. t = Unfold(t)
      BY <1>6 DEF t
    <3>2. QED
      BY <3>1
  <2> DEFINE S == {n \in 0..N : t[n] \in Nat}
  <2>2. 0 \in S
    BY <1>1, <1>7
  <2>3. \A n \in 1..N : n - 1 \in S => n \in S
    BY <1>1, <1>7 DEF After
  <2> HIDE DEF S
  <2>4. 0..N \subseteq S
    BY <1>1, <2>2, <2>3, UpTo
  <2>5. QED
    BY <2>1, <2>4 DEF S
<1>9. \A n \in 1..N : t[n] = After(tokens[n], t[n - 1])
  BY <1>1, <1>7
<1>10. t[0] = 0
  BY <1>1, <1>7
<1>11. QED
  BY <1>8, <1>9, <1>10
\* SizesOf is the pass its definition describes.
LEMMA SizesOfCourse ==
  ASSUME NEW members \in Seq(Members), NEW chosen
  PROVE  /\ SizesOf(members, chosen) \in [0..Len(members) -> Nat]
         /\ SizesOf(members, chosen)[0] = 0
         /\ \A n \in 1..Len(members) :
              SizesOf(members, chosen)[n] =
                SizesOf(members, chosen)[n - 1]
                  + (IF n \in chosen THEN members[n].size ELSE 0)
<1> DEFINE N == Len(members)
           Next1(n, b) == b + (IF n \in chosen THEN members[n].size ELSE 0)
           step == [n \in 1..N |-> [b \in Nat |-> Next1(n, b)]]
           Unfold(f) == [n \in 0..N |-> IF n = 0 THEN 0
                          ELSE f[n - 1] + (IF n \in chosen THEN members[n].size ELSE 0)]
<1>1. N \in Nat /\ \A n \in 1..N : members[n].size \in Nat
  <2>1. N \in Nat /\ \A n \in 1..N : members[n] \in Members
    BY ElementOf
  <2>2. QED
    BY <2>1 DEF Members
<1>2. step \in [1..N -> [Nat -> Nat]]
  BY <1>1
<1>3. PICK f : Course(f, step, N, Nat, 0)
  <2>1. Steps(step, N, Nat)
    BY <1>2 DEF Steps
  <2> HIDE DEF step, N
  <2>2. QED
    BY <1>1, <2>1, PassExists
<1>4. f = Unfold(f)
  <2>1. ASSUME NEW n \in 0..N PROVE f[n] = Unfold(f)[n]
    <3>1. CASE n = 0
      BY <1>3, <3>1 DEF Course
    <3>2. CASE n # 0
      <4>1. n \in 1..N /\ n - 1 \in 0..N
        BY <1>1, <3>2
      <4>2. f[n] = Next1(n, f[n - 1])
        BY <1>3, <4>1 DEF Course
      <4>3. QED
        BY <3>2, <4>2
    <3>3. QED
      BY <3>1, <3>2
  <2>2. QED
    BY <1>3, <2>1 DEF Course
<1>5. SizesOf(members, chosen) = CHOOSE g : g = Unfold(g)
  BY Zenon DEF SizesOf
<1>6. SizesOf(members, chosen) = Unfold(SizesOf(members, chosen))
  <2> HIDE DEF Unfold
  <2>1. QED
    BY <1>4, <1>5
<1> DEFINE t == SizesOf(members, chosen)
<1>7. \A n \in 0..N : t[n] = IF n = 0 THEN 0 ELSE Next1(n, t[n - 1])
  <2> HIDE DEF t
  <2>1. t = Unfold(t)
    BY <1>6 DEF t
  <2>2. QED
    BY <2>1
<1>8. t \in [0..N -> Nat]
  <2>1. DOMAIN t = 0..N /\ t = [n \in 0..N |-> t[n]]
    <3> HIDE DEF t
    <3>1. t = Unfold(t)
      BY <1>6 DEF t
    <3>2. QED
      BY <3>1
  <2> DEFINE S == {n \in 0..N : t[n] \in Nat}
  <2>2. 0 \in S
    BY <1>1, <1>7
  <2>3. \A n \in 1..N : n - 1 \in S => n \in S
    BY <1>1, <1>7
  <2> HIDE DEF S
  <2>4. 0..N \subseteq S
    BY <1>1, <2>2, <2>3, UpTo
  <2>5. QED
    BY <2>1, <2>4 DEF S
<1>9. \A n \in 1..N : t[n] = t[n - 1] + (IF n \in chosen THEN members[n].size ELSE 0)
  BY <1>1, <1>7
<1>10. t[0] = 0
  BY <1>1, <1>7
<1>11. QED
  BY <1>8, <1>9, <1>10

\* The members that are not skipped: none is too big or expands too much, and
\* together they stay within the total, whichever of them are read in the end.
LEMMA UnpackedSafely ==
  ASSUME NEW members \in Seq(Members),
         NEW chosen \in SUBSET {i \in DOMAIN members : ~Skipped(members, i)}
  PROVE  /\ SizesOf(members, chosen)[Len(members)] <= MaxTotal
         /\ \A k \in chosen : /\ members[k].size <= MaxMember
                              /\ members[k].size <= MaxRatio * members[k].packed
                                   \/ members[k].packed = 0
<1> DEFINE N == Len(members)
           total == TotalBytes(members)
           sum == SizesOf(members, chosen)
           S == {n \in 0..N : sum[n] <= total[n] /\ total[n] <= MaxTotal}
<1>1. /\ N \in Nat /\ DOMAIN members = 1..N /\ MaxTotal \in Nat
      /\ \A n \in 1..N : members[n].size \in Nat /\ members[n].packed \in Nat
  <2>1. N \in Nat /\ DOMAIN members = 1..N /\ \A n \in 1..N : members[n] \in Members
    BY ElementOf
  <2>2. QED
    BY <2>1, ReadersAssumption DEF Members
<1>2. \A n \in 1..N : ~Skipped(members, n) => ~Unsafe(members[n], total[n - 1])
  BY DEF Skipped
<1>3. /\ total \in [0..N -> Nat] /\ sum \in [0..N -> Nat] /\ total[0] = 0 /\ sum[0] = 0
      /\ \A n \in 1..N :
           /\ total[n] = total[n - 1] + (IF Skipped(members, n) THEN 0 ELSE members[n].size)
           /\ sum[n] = sum[n - 1] + (IF n \in chosen THEN members[n].size ELSE 0)
  BY TotalBytesCourse, SizesOfCourse
<1> HIDE DEF total, sum
<1>4. 0 \in S
  BY <1>1, <1>3
<1>5. ASSUME NEW n \in 1..N, n - 1 \in S PROVE n \in S
  <2>1. /\ total[n] = total[n - 1] + (IF Skipped(members, n) THEN 0 ELSE members[n].size)
        /\ sum[n] = sum[n - 1] + (IF n \in chosen THEN members[n].size ELSE 0)
        /\ total[n - 1] \in Nat /\ sum[n - 1] \in Nat
        /\ sum[n - 1] <= total[n - 1] /\ total[n - 1] <= MaxTotal
    <3>1. n - 1 \in 0..N
      BY <1>1
    <3>2. total[n - 1] \in Nat /\ sum[n - 1] \in Nat
      BY <1>3, <3>1
    <3>3. sum[n - 1] <= total[n - 1] /\ total[n - 1] <= MaxTotal
      BY <1>5
    <3>4. QED
      BY <1>3, <3>2, <3>3
  <2>2. n \in 0..N /\ n \in DOMAIN members /\ members[n].size \in Nat
    BY <1>1
  <2>3. CASE Skipped(members, n)
    BY <2>1, <2>2, <2>3
  <2>4. CASE ~Skipped(members, n)
    <3>1. total[n - 1] + members[n].size <= MaxTotal
      BY <1>1, <1>2, <2>1, <2>2, <2>4 DEF Unsafe
    <3>2. QED
      BY <2>1, <2>2, <2>4, <3>1
  <2>5. QED
    BY <2>3, <2>4
<1> HIDE DEF S
<1>6. 0..N \subseteq S
  BY <1>1, <1>4, <1>5, UpTo
<1>7. sum[N] <= MaxTotal
  <2>1. N \in S
    BY <1>1, <1>6
  <2>2. sum[N] \in Nat /\ total[N] \in Nat
    BY <1>1, <1>3
  <2>3. QED
    BY <1>1, <2>1, <2>2 DEF S
<1>8. ASSUME NEW k \in chosen
      PROVE  /\ members[k].size <= MaxMember
             /\ members[k].size <= MaxRatio * members[k].packed \/ members[k].packed = 0
  <2>1. k \in 1..N /\ ~Unsafe(members[k], total[k - 1])
    BY <1>1, <1>2
  <2>2. members[k].size \in Nat /\ members[k].packed \in Nat /\ MaxMember \in Nat
        /\ MaxRatio * members[k].packed \in Nat
    BY <1>1, <2>1, ReadersAssumption
  <2>3. QED
    BY <2>1, <2>2 DEF Unsafe
<1>9. QED
  BY <1>7, <1>8 DEF sum

\* Something is open after these tokens.
Open(tokens, n) ==
  \E j \in 1..n : tokens[j] = "open" /\ \A l \in j + 1..n : tokens[l] # "close"

\* The depth is one inside script or style, which do not nest, and zero outside,
\* whatever stray ends the document has.
LEMMA DepthIsOpen ==
  ASSUME NEW c \in Contents, NEW n \in 0..Len(c.tokens)
  PROVE  SkipDepth(c.tokens)[n] = IF Open(c.tokens, n) THEN 1 ELSE 0
<1> DEFINE t == c.tokens
           N == Len(t)
           depth == SkipDepth(t)
           S == {k \in 0..N : depth[k] = IF Open(t, k) THEN 1 ELSE 0}
<1>1. t \in Seq(Tokens) /\ N \in Nat /\ DOMAIN t = 1..N
  BY ReadersAssumption
<1>2. /\ depth[0] = 0
      /\ \A k \in 1..N : depth[k] = After(t[k], depth[k - 1])
  BY <1>1, SkipDepthCourse
<1>3. 0 \in S
  BY <1>1, <1>2 DEF Open
<1>4. ASSUME NEW k \in 1..N, k - 1 \in S PROVE k \in S
  <2>1. /\ depth[k] = After(t[k], depth[k - 1])
        /\ depth[k - 1] = IF Open(t, k - 1) THEN 1 ELSE 0
    BY <1>2, <1>4
  <2>2. CASE t[k] = "open"
    <3>1. ~Open(t, k - 1)
      <4>1. SUFFICES ASSUME NEW j \in 1..k - 1, t[j] = "open",
                            \A l \in j + 1..k - 1 : t[l] # "close"
            PROVE FALSE
        BY DEF Open
      <4>2. j \in DOMAIN t /\ k \in DOMAIN t /\ j < k
        BY <1>1
      <4>3. QED
        BY <2>2, <4>1, <4>2, TokensAssumption
    <3>2. Open(t, k)
      BY <1>1, <2>2 DEF Open
    <3>3. QED
      BY <1>1, <2>1, <2>2, <3>1, <3>2 DEF After
  <2>3. CASE t[k] = "close"
    <3>1. ~Open(t, k)
      BY <1>1, <2>3 DEF Open
    <3>2. QED
      BY <1>1, <2>1, <2>3, <3>1 DEF After
  <2>4. CASE t[k] # "open" /\ t[k] # "close"
    <3>1. Open(t, k) <=> Open(t, k - 1)
      <4>1. ASSUME Open(t, k) PROVE Open(t, k - 1)
        <5>1. PICK j \in 1..k : t[j] = "open" /\ \A l \in j + 1..k : t[l] # "close"
          BY <4>1 DEF Open
        <5>2. j \in 1..k - 1
          BY <2>4, <5>1
        <5>3. QED
          BY <5>1, <5>2 DEF Open
      <4>2. ASSUME Open(t, k - 1) PROVE Open(t, k)
        <5>1. PICK j \in 1..k - 1 : t[j] = "open" /\ \A l \in j + 1..k - 1 : t[l] # "close"
          BY <4>2 DEF Open
        <5>2. \A l \in j + 1..k : t[l] # "close"
          BY <2>4, <5>1
        <5>3. QED
          BY <5>1, <5>2 DEF Open
      <4>3. QED
        BY <4>1, <4>2
    <3>2. QED
      BY <2>1, <2>4, <3>1 DEF After
  <2>5. QED
    BY <2>2, <2>3, <2>4
<1> HIDE DEF S
<1>5. 0..N \subseteq S
  BY <1>1, <1>3, <1>4, UpTo
<1>6. QED
  BY <1>5 DEF S

LEMMA VisibleIsShown ==
  ASSUME NEW c \in Contents
  PROVE  Visible(c.tokens) =
           {k \in DOMAIN c.tokens : c.tokens[k] \in {"alt", "data"} /\ ~Open(c.tokens, k - 1)}
<1> DEFINE t == c.tokens
<1>1. t \in Seq(Tokens) /\ Len(t) \in Nat /\ DOMAIN t = 1..Len(t)
  BY ReadersAssumption
<1>2. ASSUME NEW k \in DOMAIN t, t[k] \in {"alt", "data"}
      PROVE  SkipDepth(t)[k] = 0 <=> ~Open(t, k - 1)
  <2>1. k \in 1..Len(t) /\ k - 1 \in 0..Len(t)
    BY <1>1
  <2>2. SkipDepth(t)[k] = After(t[k], SkipDepth(t)[k - 1])
    BY <1>1, <2>1, SkipDepthCourse
  <2>3. SkipDepth(t)[k - 1] = IF Open(t, k - 1) THEN 1 ELSE 0
    BY <2>1, DepthIsOpen
  <2>4. QED
    BY <1>2, <2>2, <2>3 DEF After
<1>3. QED
  BY <1>2 DEF Visible

\* The pages with at most so many characters.
AtMost(pages, m) == {i \in DOMAIN pages : pages[i].chars <= m}

\* What is not among these indices is the rest of them.
LEMMA RestOfIndices ==
  ASSUME NEW n \in Nat, NEW A \in SUBSET (1..n)
  PROVE  /\ IsFiniteSet(A) /\ Cardinality(A) \in Nat /\ Cardinality((1..n) \ A) \in Nat
         /\ Cardinality((1..n) \ A) + Cardinality(A) = n
<1>1. IsFiniteSet(1..n) /\ Cardinality(1..n) = n
  BY FS_Interval
<1>2. IsFiniteSet(A) /\ IsFiniteSet((1..n) \ A)
  BY <1>1, FS_Subset
<1>3. Cardinality(A) \in Nat /\ Cardinality((1..n) \ A) \in Nat
  BY <1>2, FS_CardinalityType
<1>4. A \cup ((1..n) \ A) = 1..n /\ A \cap ((1..n) \ A) = {}
  OBVIOUS
<1>5. Cardinality(1..n)
        = Cardinality(A) + Cardinality((1..n) \ A) - Cardinality(A \cap ((1..n) \ A))
  BY <1>2, <1>4, FS_Union
<1>6. Cardinality(A \cap ((1..n) \ A)) = 0
  BY <1>4, FS_EmptySet
<1>7. QED
  BY <1>1, <1>2, <1>3, <1>5, <1>6

\* There is a k-th number of characters.
LEMMA RankedIsRank ==
  ASSUME NEW pages \in Seq(Pages), NEW k \in 1..Len(pages)
  PROVE  LET m == Ranked(pages, k) IN
         /\ m \in Nat
         /\ Cardinality({i \in DOMAIN pages : pages[i].chars < m}) < k
         /\ Cardinality(AtMost(pages, m)) >= k
<1> DEFINE n == Len(pages)
           Below(m) == {i \in DOMAIN pages : pages[i].chars < m}
           Fits(m) == Cardinality(Below(m)) < k /\ Cardinality(AtMost(pages, m)) >= k
           good == {m \in Nat : Cardinality(AtMost(pages, m)) >= k}
<1>1. n \in Nat /\ DOMAIN pages = 1..n /\ \A i \in 1..n : pages[i].chars \in Nat
  <2>1. n \in Nat /\ DOMAIN pages = 1..n /\ \A i \in 1..n : pages[i] \in Pages
    BY ElementOf
  <2>2. QED
    BY <2>1 DEF Pages
<1>2. PICK b \in Nat : \A i \in 1..n : pages[i].chars <= b
  <2> DEFINE S == {j \in 0..n : \E b \in Nat : \A i \in 1..j : pages[i].chars <= b}
  <2>1. 0 \in S
    BY <1>1
  <2>2. ASSUME NEW j \in 1..n, j - 1 \in S PROVE j \in S
    <3>1. PICK b \in Nat : \A i \in 1..j - 1 : pages[i].chars <= b
      BY <2>2
    <3> DEFINE more == b + pages[j].chars
    <3>2. more \in Nat /\ \A i \in 1..j : pages[i].chars <= more
      BY <1>1, <3>1
    <3> HIDE DEF more
    <3>3. \E d \in Nat : \A i \in 1..j : pages[i].chars <= d
      BY <3>2
    <3>4. j \in 0..n
      BY <1>1
    <3>5. QED
      BY <3>3, <3>4
  <2> HIDE DEF S
  <2>3. 0..n \subseteq S
    BY <1>1, <2>1, <2>2, UpTo
  <2>4. QED
    <3>1. n \in S
      BY <1>1, <2>3
    <3>2. QED
      BY <3>1 DEF S
<1>3. b \in good
  <2>1. AtMost(pages, b) = 1..n
    BY <1>1, <1>2 DEF AtMost
  <2>2. Cardinality(1..n) = n
    BY <1>1, FS_Interval
  <2>3. QED
    BY <1>1, <2>1, <2>2
<1>4. PICK m \in good : \A o \in good : m <= o
  BY <1>3, LeastOfNaturals
<1>5. Cardinality(Below(m)) < k
  <2>1. CASE m = 0
    <3>1. Below(m) = {}
      BY <1>1, <2>1
    <3>2. Cardinality(Below(m)) = 0
      BY <3>1, FS_EmptySet
    <3>3. QED
      BY <1>1, <3>2
  <2>2. CASE m # 0
    <3>1. m - 1 \in Nat /\ m - 1 \notin good
      BY <1>4, <2>2
    <3>2. Below(m) = AtMost(pages, m - 1)
      BY <1>1, <1>4 DEF AtMost
    <3>3. Cardinality(AtMost(pages, m - 1)) \in Nat
      BY <1>1, RestOfIndices DEF AtMost
    <3>4. Cardinality(Below(m)) = Cardinality(AtMost(pages, m - 1))
      BY <3>2
    <3> HIDE DEF Below
    <3>5. QED
      BY <1>1, <3>1, <3>3, <3>4
  <2>3. QED
    BY <2>1, <2>2
<1>6. Fits(m)
  BY <1>4, <1>5
<1>7. m \in {pages[i].chars : i \in DOMAIN pages}
  <2>1. SUFFICES ASSUME \A i \in DOMAIN pages : pages[i].chars # m PROVE FALSE
    OBVIOUS
  <2>2. Below(m) = AtMost(pages, m)
    BY <1>1, <1>4, <2>1 DEF AtMost
  <2>3. Cardinality(Below(m)) \in Nat
    BY <1>1, RestOfIndices
  <2>4. Cardinality(Below(m)) = Cardinality(AtMost(pages, m))
    BY <2>2
  <2> HIDE DEF Below
  <2>5. QED
    BY <1>1, <1>6, <2>3, <2>4
<1>8. Ranked(pages, k) = CHOOSE x \in {pages[i].chars : i \in DOMAIN pages} : Fits(x)
  BY DEF Ranked, AtMost
<1> HIDE DEF Fits
<1>9. Ranked(pages, k) \in {pages[i].chars : i \in DOMAIN pages} /\ Fits(Ranked(pages, k))
  BY <1>6, <1>7, <1>8
<1>10. QED
  BY <1>1, <1>9 DEF Fits

\* The median page has enough text exactly when half of the pages have.
LEMMA SufficientIsMajority ==
  ASSUME NEW pages \in Seq(Pages), pages # <<>>
  PROVE  Sufficient(pages) <=>
           2 * Cardinality({k \in DOMAIN pages : pages[k].chars >= MinChars}) >= Len(pages)
<1> DEFINE n == Len(pages)
           k == n \div 2 + 1
           m == Ranked(pages, k)
           below == {i \in DOMAIN pages : pages[i].chars < m}
           poor == {i \in DOMAIN pages : pages[i].chars < MinChars}
           typed == {i \in DOMAIN pages : pages[i].chars >= MinChars}
<1>1. /\ n \in Nat \ {0} /\ DOMAIN pages = 1..n /\ MinChars \in Nat
      /\ \A i \in 1..n : pages[i].chars \in Nat
  <2>1. n \in Nat \ {0} /\ DOMAIN pages = 1..n /\ \A i \in 1..n : pages[i] \in Pages
    BY ElementOf
  <2>2. QED
    BY <2>1, ReadersAssumption DEF Pages
<1>2. k \in 1..n /\ 2 * k >= n + 1 /\ 2 * k <= n + 2
  BY <1>1
<1>3. m \in Nat /\ Cardinality(below) < k /\ Cardinality(AtMost(pages, m)) >= k
  <2> HIDE DEF k
  <2>1. QED
    BY <1>2, RankedIsRank
<1>4. /\ Cardinality(poor) \in Nat /\ Cardinality(typed) \in Nat
      /\ Cardinality(typed) + Cardinality(poor) = n /\ IsFiniteSet(poor)
  <2>1. poor \in SUBSET (1..n) /\ typed = (1..n) \ poor
    BY <1>1
  <2>2. QED
    BY <1>1, <2>1, RestOfIndices
<1>5. Sufficient(pages) <=> m >= MinChars
  BY DEF Sufficient
<1>6. CASE m >= MinChars
  <2>1. poor \subseteq below
    BY <1>1, <1>3, <1>6
  <2>2. IsFiniteSet(below) /\ Cardinality(below) \in Nat
    BY <1>1, RestOfIndices
  <2>3. Cardinality(poor) <= Cardinality(below)
    BY <2>1, <2>2, FS_Subset
  <2> HIDE DEF k, m, below, poor, typed
  <2>4. 2 * Cardinality(typed) >= n
    BY <1>1, <1>2, <1>3, <1>4, <2>2, <2>3
  <2>5. QED
    BY <1>5, <1>6, <2>4 DEF typed
<1>7. CASE ~(m >= MinChars)
  <2>1. AtMost(pages, m) \subseteq poor
    BY <1>1, <1>3, <1>7 DEF AtMost
  <2>2. Cardinality(AtMost(pages, m)) <= Cardinality(poor)
    BY <1>4, <2>1, FS_Subset
  <2>3. Cardinality(AtMost(pages, m)) \in Nat
    BY <1>1, RestOfIndices DEF AtMost
  <2> HIDE DEF k, m, below, poor, typed
  <2>4. ~(2 * Cardinality(typed) >= n)
    BY <1>1, <1>2, <1>3, <1>4, <2>2, <2>3
  <2>5. QED
    BY <1>5, <1>7, <2>4 DEF typed
<1>8. QED
  BY <1>6, <1>7

-----------------------------------------------------------------------------
(* The scaled page *)

\* Of larger factors, a larger product.
LEMMA ProductsGrow ==
  ASSUME NEW a \in Nat, NEW b \in Nat, NEW c \in Nat, NEW d \in Nat, b <= a, d <= c
  PROVE  b * d <= a * c
<1>1. b * d <= a * d
  OBVIOUS
<1>2. a * d <= a * c
  OBVIOUS
<1>3. QED
  BY <1>1, <1>2

\* A square is no smaller for a larger side.
LEMMA SquaresGrow ==
  ASSUME NEW p \in Nat, NEW l \in Nat, NEW f \in Nat \ {0}, l * l * f <= p * p * f
  PROVE  l <= p
<1>1. SUFFICES ASSUME p < l PROVE FALSE
  OBVIOUS
<1>2. p * p < l * l
  <2>1. p * p <= p * l /\ p * l < l * l
    BY <1>1
  <2>2. p * p \in Nat /\ p * l \in Nat /\ l * l \in Nat
    OBVIOUS
  <2>3. QED
    BY <2>1, <2>2
<1>3. p * p \in Nat /\ l * l \in Nat
  OBVIOUS
<1> DEFINE x == p * p
           y == l * l
<1>4. x * f < y * f
  <2> HIDE DEF x, y
  <2>1. QED
    BY <1>2, <1>3
<1>5. QED
  BY <1>4

\* What the side of a scaled bitmap is: the least that is long enough. There is
\* one, since the side of the page itself is.
LEMMA SideIsLeast ==
  ASSUME NEW side \in Nat \ {0}, NEW other \in Nat \ {0}, MaxRenderPixels < side * other
  PROVE  LET k == RenderedSide(side, other) IN
           /\ k \in 0..side /\ k * k * other >= MaxRenderPixels * side
           /\ \A j \in 0..k - 1 : j * j * other < MaxRenderPixels * side
<1> DEFINE Enough(k) == k * k * other >= MaxRenderPixels * side
           S == {k \in 0..side : Enough(k)}
<1>1. MaxRenderPixels \in Nat
  BY ReadersAssumption
<1>2. side \in S
  <2>1. side * other * side >= MaxRenderPixels * side
    <3>1. side * other \in Nat
      OBVIOUS
    <3> DEFINE a == side * other
    <3>2. a * side >= MaxRenderPixels * side
      <4> HIDE DEF a
      <4>1. MaxRenderPixels <= a /\ a \in Nat
        BY <1>1, <3>1 DEF a
      <4>2. QED
        BY <1>1, <4>1
    <3>3. QED
      BY <3>2
  <2>2. side * other * side = side * side * other
    OBVIOUS
  <2>3. QED
    BY <2>1, <2>2
<1>3. PICK k \in S : \A j \in S : k <= j
  <2>1. S \in SUBSET Nat /\ S # {}
    BY <1>2
  <2> HIDE DEF S
  <2>2. QED
    BY <2>1, LeastOfNaturals
<1>4. /\ k \in 0..side /\ k * k * other >= MaxRenderPixels * side
      /\ \A j \in 0..k - 1 : j * j * other < MaxRenderPixels * side
  <2>1. k \in 0..side /\ Enough(k)
    BY <1>3
  <2>2. ASSUME NEW j \in 0..k - 1 PROVE j \in 0..side /\ j \notin S
    BY <1>3, <2>1
  <2>3. \A j \in 0..k - 1 : ~Enough(j)
    BY <2>2
  <2>4. ASSUME NEW j \in 0..k - 1 PROVE j * j * other < MaxRenderPixels * side
    <3>1. j * j * other \in Int /\ MaxRenderPixels * side \in Int
      BY <1>1
    <3>2. QED
      BY <2>3, <3>1
  <2>5. QED
    BY <2>1, <2>4
<1>5. ~(side * other <= MaxRenderPixels)
  <2>1. side * other \in Nat
    OBVIOUS
  <2>2. QED
    BY <1>1, <2>1
<1>6. QED
  BY <1>4, <1>5 DEF RenderedSide

\* A page over the limit is never rendered with fewer pixels than the limit.
LEMMA RenderedReachesLimit ==
  ASSUME NEW page \in Pages, page.width > 0, page.height > 0,
         MaxRenderPixels < page.width * page.height
  PROVE  Rendered(page) \in Nat /\ MaxRenderPixels <= Rendered(page)
<1> DEFINE w == page.width
           h == page.height
           k == RenderedSide(w, h)
           j == RenderedSide(h, w)
           l == MaxRenderPixels
<1>1. w \in Nat \ {0} /\ h \in Nat \ {0} /\ l \in Nat /\ l < w * h /\ l < h * w
  BY ReadersAssumption DEF Pages
<1> HIDE DEF w, h
<1>2. k \in Nat /\ j \in Nat /\ k * k * h >= l * w /\ j * j * w >= l * h
  BY <1>1, SideIsLeast
<1> HIDE DEF k, j, l
<1>3. (l * w) * (l * h) <= (k * k * h) * (j * j * w)
  <2>1. k * k * h \in Nat /\ j * j * w \in Nat /\ l * w \in Nat /\ l * h \in Nat
    BY <1>1, <1>2
  <2>2. QED
    BY <1>2, <2>1, ProductsGrow
<1>4. l * l * (w * h) <= (k * j) * (k * j) * (w * h)
  BY <1>1, <1>2, <1>3
<1>5. k * j \in Nat /\ w * h \in Nat \ {0}
  BY <1>1, <1>2
<1>6. l <= k * j
  BY <1>1, <1>4, <1>5, SquaresGrow
<1>7. QED
  BY <1>5, <1>6 DEF Rendered, k, j, l, w, h

\* Whatever the limit, unless it is a square number: every square page over it
\* is scaled down to a bitmap that is still over it, and refused. (The code has
\* 50,000,000 for both limits, which is not a square.)
THEOREM SquarePagesRefused ==
  ASSUME NEW page \in Pages, page.width = page.height,
         MaxRenderPixels < page.width * page.height,
         \A n \in Nat : n * n # MaxRenderPixels, MaxImagePixels = MaxRenderPixels
  PROVE  TooManyPixels(Rendered(page))
<1>1. page.width \in Nat /\ MaxRenderPixels \in Nat
  BY ReadersAssumption DEF Pages
<1>2. page.width > 0
  BY <1>1
<1>3. Rendered(page) \in Nat /\ MaxRenderPixels <= Rendered(page)
  BY <1>2, RenderedReachesLimit
<1>4. Rendered(page) # MaxRenderPixels
  <2>1. RenderedSide(page.width, page.width) \in Nat
    BY <1>1, <1>2, SideIsLeast
  <2>2. QED
    BY <2>1 DEF Rendered
<1>5. QED
  BY <1>1, <1>3, <1>4 DEF TooManyPixels

-----------------------------------------------------------------------------
(* The inductive invariant *)

\* The version in hand was pending, and nothing happens to it but the attempt.
ItemPending ==
  pc \in {"convert", "page", "insert"} => cur \in DOMAIN versions \ todo /\ Pending(cur)

TodoPending ==
  /\ pc = "idle" => todo = {}
  /\ \A v \in todo : Pending(v)

\* What is recognised page by page, without a gap, is a scan.
ScanInHand ==
  pc = "page" =>
    /\ By(cur) = "pdf_hybrid" /\ at \in 1..Len(Content(cur).pages) + 1
    /\ HasOcr /\ ~Sufficient(Content(cur).pages)

\* A successful row says of this content what its converter makes of it.
AsRead(row, c) ==
  /\ Selected(c) = "pdf_hybrid" => (row.ocr <=> HasOcr /\ ~Sufficient(c.pages))
  /\ Selected(c) = "html_text" => row.read = Visible(c.tokens)
  /\ Selected(c) = "pptx" => row.read = SlidesRead(c.parts)
  /\ row.unpacked = Unpacked(c, Selected(c))
  /\ \/ row.images = NoImages
     \/ /\ Selected(c) \in {"docx", "pptx"} /\ HasOcr
        /\ \E broken \in SUBSET DOMAIN c.media : row.images = Embedded(c.media, broken)

Sound(row, c) == Whole(row, c) /\ AsRead(row, c)

\* What is about to be inserted is complete and right, if it is a success.
RowReady ==
  pc = "insert" => out \in Rows /\ (out.status = "done" => Sound(out, Content(cur)))

RowsSound ==
  \A v \in DOMAIN rows : \A i \in DOMAIN rows[v] :
    rows[v][i].status = "done" => Sound(rows[v][i], Content(v))

IInv ==
  /\ TypeOK /\ ItemPending /\ TodoPending /\ ScanInHand /\ RowReady
  /\ RowsSound /\ AttemptsEnd

-----------------------------------------------------------------------------
(* Rows *)

\* What the converters say about a document has the right type.
LEMMA ReadersTyped ==
  ASSUME NEW c \in Contents
  PROVE  /\ Len(c.pages) \in Nat /\ DOMAIN c.pages = 1..Len(c.pages)
         /\ Visible(c.tokens) \in SUBSET Nat
         /\ SlidesRead(c.parts) \in SUBSET Nat
         /\ Considered(c.media) \in Nat
<1>1. /\ c.tokens \in Seq(Tokens) /\ c.pages \in Seq(Pages)
      /\ c.parts \in Seq(Members) /\ c.media \in Seq(Members)
      /\ MaxImages \in Nat
  BY ReadersAssumption
<1>2. DOMAIN c.tokens \subseteq Nat /\ DOMAIN c.parts \subseteq Nat
  BY <1>1
<1>3. QED
  BY <1>1, <1>2 DEF Visible, SlidesRead, Considered

\* What is unpacked are members of the container, and those that a guarded pass
\* unpacks are not skipped by it.
LEMMA UnpackedTyped ==
  ASSUME NEW c \in Contents, NEW by
  PROVE  /\ Unpacked(c, by) \in [library: SUBSET Nat, slides: SUBSET Nat, images: SUBSET Nat]
         /\ Unpacked(c, by).slides \in SUBSET {i \in DOMAIN c.parts : ~Skipped(c.parts, i)}
         /\ Unpacked(c, by).images \in SUBSET {i \in DOMAIN c.media : ~Skipped(c.media, i)}
<1>1. /\ c.parts \in Seq(Members) /\ c.media \in Seq(Members)
      /\ Considered(c.media) \in Nat /\ MaxImages \in Nat
  BY ReadersTyped, ReadersAssumption
<1>2. DOMAIN c.parts \subseteq Nat /\ 1..Considered(c.media) \subseteq DOMAIN c.media
  BY <1>1 DEF Considered
<1>3. DOMAIN c.media \subseteq Nat
  BY <1>1
<1>4. QED
  BY <1>2, <1>3 DEF Unpacked

LEMMA FailedIsRow ==
  ASSUME NEW reason \in Reasons
  PROVE  Failed(reason) \in Rows /\ Failed(reason).status = "failed"
BY DEF Failed, Rows, NoImages, Images, NoPasses, Passes

LEMMA DoneIsRow ==
  ASSUME Content(cur) \in Contents,
         NEW parts \in SUBSET Nat, NEW ocr \in BOOLEAN, NEW images \in Images
  PROVE  /\ Done(parts, ocr, images) \in Rows
         /\ Done(parts, ocr, images).read = parts
         /\ Done(parts, ocr, images).ocr = ocr
         /\ Done(parts, ocr, images).images = images
         /\ Done(parts, ocr, images).unpacked = Unpacked(Content(cur), Selected(Content(cur)))
<1>1. Unpacked(Content(cur), By(cur)) \in Passes
  BY UnpackedTyped DEF Passes
<1>2. QED
  BY <1>1 DEF Done, Rows, Reasons, By

LEMMA NoImagesTyped == NoImages \in Images
BY DEF NoImages, Images

\* The record of the embedded images speaks of each of those considered.
LEMMA EmbeddedTyped ==
  ASSUME NEW c \in Contents, NEW broken
  PROVE  /\ Embedded(c.media, broken) \in Images
         /\ Len(Embedded(c.media, broken).statuses) = Considered(c.media)
         /\ Embedded(c.media, broken).truncated <=> Len(c.media) > Considered(c.media)
<1> DEFINE s == Embedded(c.media, broken).statuses
           n == Considered(c.media)
<1>1. n \in Nat /\ c.media \in Seq(Members) /\ MaxImages \in Nat
  BY ReadersTyped, ReadersAssumption
<1>2. s \in [1..n -> {"skipped", "failed", "done"}]
  BY DEF Embedded
<1>3. s \in Seq({"skipped", "failed", "done"}) /\ Len(s) = n
  BY <1>1, <1>2
<1>4. Embedded(c.media, broken).truncated = (Len(c.media) > MaxImages)
  BY DEF Embedded
<1>5. Len(c.media) > MaxImages <=> Len(c.media) > n
  BY <1>1 DEF Considered
<1>6. Embedded(c.media, broken) = [statuses |-> s, truncated |-> Len(c.media) > MaxImages]
  BY DEF Embedded
<1>7. Embedded(c.media, broken) \in Images
  <2>1. (Len(c.media) > MaxImages) \in BOOLEAN
    BY <1>1
  <2> HIDE DEF s
  <2>2. QED
    BY <1>3, <1>6, <2>1 DEF Images
<1>8. QED
  BY <1>3, <1>4, <1>5, <1>7

-----------------------------------------------------------------------------
(* Attempts *)

LEMMA OneMoreElement ==
  ASSUME NEW F, IsFiniteSet(F), NEW x, NEW G, G \subseteq F \cup {x}
  PROVE  /\ Cardinality(F) \in Nat /\ Cardinality(G) \in Nat
         /\ Cardinality(G) <= Cardinality(F) + 1
<1>1. IsFiniteSet(F \cup {x}) /\ Cardinality(F) \in Nat
  BY FS_AddElement, FS_CardinalityType
<1>2. Cardinality(F \cup {x}) = Cardinality(F) \/ Cardinality(F \cup {x}) = Cardinality(F) + 1
  BY FS_AddElement
<1>3. IsFiniteSet(G) /\ Cardinality(G) <= Cardinality(F \cup {x})
  BY <1>1, FS_Subset
<1>4. Cardinality(G) \in Nat
  BY <1>3, FS_CardinalityType
<1>5. QED
  BY <1>1, <1>2, <1>3, <1>4

FailedIn(s) == {i \in DOMAIN s : s[i].status = "failed"}

\* One more row is one more failure at most.
LEMMA FailuresOfAppend ==
  ASSUME NEW s \in Seq(Rows), NEW r
  PROVE  /\ Cardinality(FailedIn(s)) \in Nat /\ Cardinality(FailedIn(Append(s, r))) \in Nat
         /\ Cardinality(FailedIn(Append(s, r))) <= Cardinality(FailedIn(s)) + 1
<1>1. /\ DOMAIN s = 1..Len(s) /\ DOMAIN Append(s, r) = 1..Len(s) + 1 /\ Len(s) \in Nat
      /\ \A i \in 1..Len(s) : Append(s, r)[i] = s[i]
  OBVIOUS
<1>2. IsFiniteSet(FailedIn(s))
  <2>1. IsFiniteSet(1..Len(s))
    BY <1>1, FS_Interval
  <2>2. QED
    BY <1>1, <2>1, FS_Subset DEF FailedIn
<1>3. FailedIn(Append(s, r)) \subseteq FailedIn(s) \cup {Len(s) + 1}
  BY <1>1 DEF FailedIn
<1>4. QED
  BY <1>2, <1>3, OneMoreElement

\* Versions and rows as they were: everything about them is as it was.
LEMMA SameRows ==
  ASSUME UNCHANGED <<versions, rows>>
  PROVE  /\ \A v : (Pending(v))' <=> Pending(v)
         /\ \A v : (Content(v))' = Content(v)
         /\ \A v : (By(v))' = By(v)
         /\ RowsSound' <=> RowsSound
         /\ AttemptsEnd' <=> AttemptsEnd
BY DEF Pending, Current, Settled, Failures, Content, By, RowsSound, AttemptsEnd

\* The end of a run leaves nothing in hand.
LEMMA RunOverKeeps ==
  ASSUME IInv, RunOver, UNCHANGED <<versions, rows>>, stops' \in Nat
  PROVE  IInv'
<1>1. TypeOK'
  <2>1. 0 \in 0..MaxItems
    BY ExtractionAssumption
  <2>2. QED
    BY <2>1 DEF IInv, TypeOK, RunOver
<1>2. ItemPending' /\ TodoPending' /\ ScanInHand' /\ RowReady'
  BY DEF RunOver, ItemPending, TodoPending, ScanInHand, RowReady
<1>3. QED
  BY <1>1, <1>2, SameRows DEF IInv

\* An attempt that ends with a typed and complete row keeps the invariant.
LEMMA AttemptedKeeps ==
  ASSUME IInv, pc \in {"convert", "page", "insert"},
         NEW row \in Rows, row.status = "done" => Sound(row, Content(cur)),
         Attempted(row), UNCHANGED <<versions, rows, stopping, stops>>, at' \in Nat
  PROVE  IInv'
<1>1. TypeOK'
  BY DEF IInv, TypeOK, Attempted
<1>2. ItemPending'
  BY SameRows DEF IInv, ItemPending, Attempted
<1>3. TodoPending'
  BY SameRows DEF IInv, TodoPending, Attempted
<1>4. ScanInHand'
  BY DEF ScanInHand, Attempted
<1>5. RowReady'
  BY SameRows DEF RowReady, Attempted
<1>6. QED
  BY <1>1, <1>2, <1>3, <1>4, <1>5, SameRows DEF IInv

\* A failed attempt, whatever the reason.
LEMMA FailedKeeps ==
  ASSUME IInv, pc \in {"convert", "page", "insert"}, NEW reason \in Reasons,
         Attempted(Failed(reason)), UNCHANGED <<versions, rows, stopping, stops>>, at' \in Nat
  PROVE  IInv'
<1>1. Failed(reason) \in Rows /\ Failed(reason).status = "failed"
  BY FailedIsRow
<1>2. QED
  BY <1>1, AttemptedKeeps

\* The content in hand is one of the documents.
LEMMA ContentInHand ==
  ASSUME TypeOK, NEW v \in DOMAIN versions
  PROVE  Content(v) \in Contents
<1>1. versions \in Seq([doc: Docs, content: Contents])
  BY DEF TypeOK
<1>2. versions[v] \in [doc: Docs, content: Contents]
  BY <1>1, ElementOf
<1>3. QED
  BY <1>2 DEF Content
-----------------------------------------------------------------------------
(* Every step *)

LEMMA InitInv == Init => IInv
<1>1. SUFFICES ASSUME Init PROVE IInv
  OBVIOUS
<1>2. versions = <<>> /\ rows = <<>> /\ DOMAIN versions = {} /\ DOMAIN rows = {}
  BY <1>1 DEF Init
<1>3. TypeOK
  <2>1. rows \in Seq(Seq(Rows)) /\ Len(rows) = 0
    BY <1>2
  <2>2. rows \in [DOMAIN versions -> Seq(Rows)]
    BY <1>2, <2>1
  <2>3. versions \in Seq([doc: Docs, content: Contents]) /\ 0 \in 0..MaxItems
    BY <1>2, ExtractionAssumption
  <2>4. QED
    BY <1>1, <2>2, <2>3 DEF Init, TypeOK
<1>4. QED
  BY <1>1, <1>2, <1>3
     DEF Init, IInv, ItemPending, TodoPending, ScanInHand, RowReady, RowsSound, AttemptsEnd

LEMMA ArriveKeeps ==
  ASSUME IInv, NEW d \in Docs, NEW c \in Contents, Arrive(d, c)
  PROVE  IInv'
<1> DEFINE n == Len(versions)
           v0 == [doc |-> d, content |-> c]
<1>1. /\ versions \in Seq([doc: Docs, content: Contents]) /\ v0 \in [doc: Docs, content: Contents]
      /\ n \in Nat /\ DOMAIN versions = 1..n
      /\ rows \in Seq(Seq(Rows)) /\ Len(rows) = n /\ DOMAIN rows = 1..n
      /\ rows \in [1..n -> Seq(Rows)]
  <2>1. versions \in Seq([doc: Docs, content: Contents]) /\ rows \in [DOMAIN versions -> Seq(Rows)]
    BY DEF IInv, TypeOK
  <2>2. n \in Nat /\ DOMAIN versions = 1..n
    BY <2>1
  <2>3. QED
    BY <2>1, <2>2
<1>2. /\ versions' = Append(versions, v0) /\ rows' = Append(rows, <<>>)
      /\ pc = "idle" /\ todo = {} /\ UNCHANGED <<pc, run, stopping, stops>>
  BY DEF Arrive, IInv, TodoPending
<1> HIDE DEF v0
<1>3. /\ versions' \in Seq([doc: Docs, content: Contents])
      /\ DOMAIN versions' = 1..n + 1 /\ DOMAIN rows' = 1..n + 1
      /\ \A v \in 1..n : versions'[v] = versions[v] /\ rows'[v] = rows[v]
      /\ rows'[n + 1] = <<>>
      /\ rows' \in Seq(Seq(Rows)) /\ Len(rows') = n + 1
  BY <1>1, <1>2
<1>4. TypeOK'
  <2>1. rows' \in [DOMAIN versions' -> Seq(Rows)]
    BY <1>1, <1>3
  <2>2. cur' \in DOMAIN versions' \cup {Null} /\ todo' \subseteq DOMAIN versions'
    BY <1>1, <1>2, <1>3 DEF IInv, TypeOK, run
  <2>3. QED
    BY <1>2, <1>3, <2>1, <2>2 DEF IInv, TypeOK, run
<1>5. ItemPending' /\ TodoPending' /\ ScanInHand' /\ RowReady'
  BY <1>2 DEF ItemPending, TodoPending, ScanInHand, RowReady, run
<1>6. RowsSound'
  <2>1. SUFFICES ASSUME NEW v \in DOMAIN rows', NEW i \in DOMAIN rows'[v],
                        rows'[v][i].status = "done"
        PROVE Sound(rows'[v][i], versions'[v].content)
    BY DEF RowsSound, Content, Sound, Whole, AsRead
  <2>2. v \in 1..n
    BY <1>1, <1>3
  <2>3. v \in DOMAIN rows /\ rows'[v] = rows[v] /\ versions'[v] = versions[v]
    BY <1>1, <1>3, <2>2
  <2>4. QED
    BY <2>1, <2>3 DEF IInv, RowsSound, Content
<1>7. AttemptsEnd'
  <2>1. SUFFICES ASSUME NEW v \in 1..n + 1
        PROVE /\ (Failures(v))' <= MaxFailed
              /\ \A i \in DOMAIN rows'[v] :
                   rows'[v][i].status = "done" \/ rows'[v][i].reason = "unsupported"
                     => i = Len(rows'[v])
    BY <1>3 DEF AttemptsEnd
  <2>2. CASE v \in 1..n
    <3>1. v \in DOMAIN rows /\ rows'[v] = rows[v]
      BY <1>1, <1>3, <2>2
    <3>2. QED
      BY <3>1 DEF IInv, AttemptsEnd, Failures
  <2>3. CASE v = n + 1
    <3>1. rows'[v] = <<>> /\ DOMAIN rows'[v] = {}
      BY <1>3, <2>3
    <3>2. (Failures(v))' = 0
      BY <3>1, FS_EmptySet DEF Failures
    <3>3. QED
      BY <3>1, <3>2, ExtractionAssumption
  <2>4. QED
    BY <1>1, <2>1, <2>2, <2>3
<1>8. QED
  BY <1>4, <1>5, <1>6, <1>7 DEF IInv

LEMMA InsertKeeps ==
  ASSUME IInv, Insert
  PROVE  IInv'
<1>1. /\ pc = "insert" /\ cur \in DOMAIN versions /\ cur \notin todo /\ Pending(cur)
      /\ out \in Rows /\ (out.status = "done" => Sound(out, Content(cur)))
      /\ rows \in [DOMAIN versions -> Seq(Rows)] /\ rows[cur] \in Seq(Rows)
  BY DEF Insert, IInv, TypeOK, ItemPending, RowReady
<1> DEFINE n == Len(rows[cur])
<1>2. /\ rows' \in [DOMAIN versions -> Seq(Rows)]
      /\ rows'[cur] = Append(rows[cur], out)
      /\ \A v \in DOMAIN versions \ {cur} : rows'[v] = rows[v]
  <2>1. Append(rows[cur], out) \in Seq(Rows)
    BY <1>1
  <2>2. QED
    BY <1>1, <2>1 DEF Insert
<1>3. /\ n \in Nat /\ DOMAIN rows[cur] = 1..n /\ DOMAIN rows'[cur] = 1..n + 1
      /\ rows'[cur][n + 1] = out /\ Len(rows'[cur]) = n + 1
      /\ \A i \in 1..n : rows'[cur][i] = rows[cur][i]
  BY <1>1, <1>2
<1>4. TypeOK'
  BY <1>1, <1>2 DEF IInv, TypeOK, Insert
<1>5. ItemPending' /\ ScanInHand' /\ RowReady'
  BY DEF Insert, ItemPending, ScanInHand, RowReady
<1>6. TodoPending'
  <2>1. SUFFICES ASSUME NEW v \in todo PROVE (Pending(v))'
    BY DEF Insert, TodoPending
  <2>2. Pending(v) /\ v \in DOMAIN versions /\ v # cur
    BY <1>1 DEF IInv, TodoPending, TypeOK
  <2>3. QED
    BY <1>2, <2>2 DEF Pending, Current, Settled, Failures, Insert
<1>7. RowsSound'
  <2>1. SUFFICES ASSUME NEW v \in DOMAIN rows', NEW i \in DOMAIN rows'[v],
                        rows'[v][i].status = "done"
        PROVE Sound(rows'[v][i], Content(v))
    BY DEF RowsSound, Insert, Content, Sound, Whole, AsRead
  <2>2. CASE v = cur /\ i = n + 1
    BY <1>1, <1>3, <2>1, <2>2
  <2>3. CASE ~(v = cur /\ i = n + 1)
    <3>1. DOMAIN rows = DOMAIN versions /\ DOMAIN rows' = DOMAIN versions
      BY <1>1, <1>2
    <3>2. v \in DOMAIN rows /\ i \in DOMAIN rows[v] /\ rows'[v][i] = rows[v][i]
      <4>1. CASE v = cur
        BY <1>1, <1>3, <2>3, <3>1, <4>1
      <4>2. CASE v # cur
        BY <1>2, <3>1, <4>2
      <4>3. QED
        BY <4>1, <4>2
    <3>3. QED
      BY <2>1, <3>2 DEF IInv, RowsSound
  <2>4. QED
    BY <2>2, <2>3
<1>8. AttemptsEnd'
  <2>1. SUFFICES ASSUME NEW v \in DOMAIN versions
        PROVE /\ (Failures(v))' <= MaxFailed
              /\ \A i \in DOMAIN rows'[v] :
                   rows'[v][i].status = "done" \/ rows'[v][i].reason = "unsupported"
                     => i = Len(rows'[v])
    BY <1>2 DEF AttemptsEnd
  <2>2. CASE v # cur
    BY <1>1, <1>2, <2>2 DEF IInv, AttemptsEnd, Failures
  <2>3. CASE v = cur
    <3>1. /\ Failures(cur) = Cardinality(FailedIn(rows[cur]))
          /\ (Failures(v))' = Cardinality(FailedIn(Append(rows[cur], out)))
      BY <1>2, <2>3 DEF Failures, FailedIn
    <3>2. /\ Failures(cur) \in Nat /\ (Failures(v))' \in Nat
          /\ (Failures(v))' <= Failures(cur) + 1
      BY <1>1, <3>1, FailuresOfAppend
    <3>3. Failures(cur) < MaxFailed
      BY <1>1 DEF Pending
    <3>5. (Failures(v))' <= MaxFailed
      BY <3>2, <3>3, ExtractionAssumption
    <3>6. \A i \in 1..n : ~(rows[cur][i].status = "done" \/ rows[cur][i].reason = "unsupported")
      BY <1>1, <1>3 DEF Pending, Settled
    <3>7. QED
      BY <1>3, <2>3, <3>5, <3>6
  <2>4. QED
    BY <2>2, <2>3
<1>9. QED
  BY <1>4, <1>5, <1>6, <1>7, <1>8 DEF IInv

\* The text and the pictures of a document, as one step reads them.
LEMMA ReadKeeps ==
  ASSUME IInv, ReadText \/ ReadHtml \/ ReadSheet \/ ReadNative \/ ReadOffice \/ ReadPicture
  PROVE  IInv'
<1>1. /\ pc = "convert" /\ cur \in DOMAIN versions /\ at' \in Nat
      /\ UNCHANGED <<versions, rows, at, stopping, stops>>
  BY DEF IInv, TypeOK, ItemPending, Parsed,
         ReadText, ReadHtml, ReadSheet, ReadNative, ReadOffice, ReadPicture
<1> DEFINE c == Content(cur)
<1>2. c \in Contents
  BY <1>1, ContentInHand DEF IInv
<1>3. /\ Visible(c.tokens) \in SUBSET Nat /\ SlidesRead(c.parts) \in SUBSET Nat
      /\ DOMAIN c.pages \in SUBSET Nat /\ {1} \in SUBSET Nat /\ {} \in SUBSET Nat
  BY <1>2, ReadersTyped
<1>4. ASSUME NEW parts \in SUBSET Nat, NEW ocr \in BOOLEAN, Attempted(Done(parts, ocr, NoImages)),
             By(cur) = "pdf_hybrid" => parts = DOMAIN c.pages \/ (parts = {} /\ ~ocr /\ ~HasOcr),
             By(cur) = "pdf_hybrid" => (ocr <=> HasOcr /\ ~Sufficient(c.pages)),
             By(cur) = "html_text" => parts = Visible(c.tokens),
             ~(By(cur) \in {"docx", "pptx"} /\ HasOcr), By(cur) # "pptx"
      PROVE  IInv'
  <2>1. /\ Done(parts, ocr, NoImages) \in Rows
        /\ Done(parts, ocr, NoImages).read = parts /\ Done(parts, ocr, NoImages).ocr = ocr
        /\ Done(parts, ocr, NoImages).images = NoImages
        /\ Done(parts, ocr, NoImages).unpacked = Unpacked(c, Selected(c))
    <3>1. NoImages \in Images
      BY NoImagesTyped
    <3> HIDE DEF c
    <3>2. Content(cur) \in Contents /\ c = Content(cur)
      BY <1>2 DEF c
    <3>3. QED
      BY <1>4, <3>1, <3>2, DoneIsRow
  <2>2. Sound(Done(parts, ocr, NoImages), Content(cur))
    BY <1>4, <2>1 DEF Sound, Whole, AsRead, By
  <2>3. QED
    BY <1>1, <1>4, <2>1, <2>2, AttemptedKeeps
<1>5. CASE ReadText \/ ReadSheet
  BY <1>3, <1>4, <1>5 DEF ReadText, ReadSheet
<1>6. CASE ReadHtml
  BY <1>3, <1>4, <1>6 DEF ReadHtml
<1>7. CASE ReadNative
  <2> DEFINE parts == IF Sufficient(c.pages) THEN DOMAIN c.pages ELSE {}
  <2>1. /\ Attempted(Done(parts, FALSE, NoImages)) /\ By(cur) = "pdf_hybrid"
        /\ Sufficient(c.pages) \/ ~HasOcr
    BY <1>7 DEF ReadNative
  <2>2. /\ parts \in SUBSET Nat
        /\ parts = DOMAIN c.pages \/ (parts = {} /\ ~HasOcr)
    BY <1>3, <2>1
  <2> HIDE DEF parts
  <2>3. QED
    BY <1>4, <2>1, <2>2
<1>8. CASE ReadOffice
  <2>1. PICK broken \in SUBSET DOMAIN c.media :
          Attempted(Done(IF By(cur) = "pptx" THEN SlidesRead(c.parts) ELSE {1}, FALSE,
                         IF HasOcr THEN Embedded(c.media, broken) ELSE NoImages))
    BY <1>8 DEF ReadOffice
  <2> DEFINE parts == IF By(cur) = "pptx" THEN SlidesRead(c.parts) ELSE {1}
             images == IF HasOcr THEN Embedded(c.media, broken) ELSE NoImages
             row == Done(parts, FALSE, images)
  <2>2. parts \in SUBSET Nat /\ images \in Images
    BY <1>2, <1>3, EmbeddedTyped, NoImagesTyped
  <2>3. By(cur) \in {"docx", "pptx"}
    BY <1>8 DEF ReadOffice
  <2>4. /\ HasOcr => /\ Len(images.statuses) = Considered(c.media)
                     /\ images.truncated <=> Len(c.media) > Considered(c.media)
    BY <1>2, EmbeddedTyped
  <2>5. Attempted(row)
    BY <2>1
  <2> HIDE DEF parts, images
  <2>6. /\ row \in Rows /\ row.images = images /\ row.read = parts
        /\ row.unpacked = Unpacked(c, Selected(c))
    BY <1>2, <2>2, DoneIsRow
  <2>7. Sound(row, Content(cur))
    <3>1. Whole(row, Content(cur))
      BY <2>3, <2>4, <2>6 DEF Whole, By
    <3>2. AsRead(row, Content(cur))
      BY <2>3, <2>6 DEF AsRead, By, parts, images
    <3>3. QED
      BY <3>1, <3>2 DEF Sound
  <2>8. QED
    BY <1>1, <2>5, <2>6, <2>7, AttemptedKeeps
<1>9. CASE ReadPicture
  <2>1. \/ Attempted(Failed("pixels")) \/ Attempted(Failed("engine"))
        \/ Attempted(Done({1}, TRUE, NoImages))
    BY <1>9 DEF ReadPicture
  <2>2. By(cur) = "image_ocr"
    BY <1>9 DEF ReadPicture
  <2>3. "pixels" \in Reasons /\ "engine" \in Reasons
    BY DEF Reasons
  <2>4. CASE Attempted(Failed("pixels"))
    BY <1>1, <2>3, <2>4, FailedKeeps
  <2>5. CASE Attempted(Failed("engine"))
    BY <1>1, <2>3, <2>5, FailedKeeps
  <2>6. CASE Attempted(Done({1}, TRUE, NoImages))
    BY <1>3, <1>4, <2>2, <2>6
  <2>7. QED
    BY <2>1, <2>4, <2>5, <2>6
<1>10. QED
  BY <1>5, <1>6, <1>7, <1>8, <1>9

LEMMA FailureKeeps ==
  ASSUME IInv, StorageFails \/ Unsupported \/ Unparsable \/ PageRefused \/ EngineFails \/ Unstorable
  PROVE  IInv'
<1>1. /\ pc \in {"convert", "page", "insert"} /\ at' \in Nat
      /\ UNCHANGED <<versions, rows, stopping, stops>>
  BY DEF IInv, TypeOK, OnPage,
         StorageFails, Unsupported, Unparsable, PageRefused, EngineFails, Unstorable
<1>2. \E reason \in Reasons : Attempted(Failed(reason))
  BY DEF Reasons, StorageFails, Unsupported, Unparsable, PageRefused, EngineFails, Unstorable
<1>3. QED
  BY <1>1, <1>2, FailedKeeps

\* Page by page, and the whole book at the end.
LEMMA PageKeeps ==
  ASSUME IInv, BeginOcr \/ Recognise \/ PagesOver
  PROVE  IInv'
<1>1. cur \in DOMAIN versions /\ at \in Nat /\ UNCHANGED <<versions, rows, stopping, stops>>
  BY DEF IInv, TypeOK, ItemPending, Parsed, OnPage, BeginOcr, Recognise, PagesOver
<1> DEFINE n == Len(Content(cur).pages)
<1>2. n \in Nat /\ DOMAIN Content(cur).pages = 1..n
  BY <1>1, ContentInHand, ReadersTyped DEF IInv
<1>3. CASE BeginOcr \/ Recognise
  <2>1. /\ pc \in {"convert", "page"} /\ pc' = "page" /\ UNCHANGED <<todo, done, cur, out>>
        /\ By(cur) = "pdf_hybrid" /\ at' \in 1..n + 1 /\ HasOcr /\ ~Sufficient(Content(cur).pages)
    BY <1>1, <1>2, <1>3 DEF BeginOcr, Recognise, Parsed, OnPage, IInv, ScanInHand
  <2>2. TypeOK'
    BY <1>1, <1>2, <2>1 DEF IInv, TypeOK
  <2>3. ItemPending' /\ TodoPending' /\ RowReady'
    BY <1>1, <2>1, SameRows DEF IInv, ItemPending, TodoPending, RowReady
  <2>4. ScanInHand'
    BY <1>1, <2>1 DEF ScanInHand, By, Content
  <2>5. QED
    BY <1>1, <2>2, <2>3, <2>4, SameRows DEF IInv
<1>4. CASE PagesOver
  <2> DEFINE row == Done(1..at - 1, TRUE, NoImages)
  <2>1. pc = "page" /\ at = n + 1 /\ By(cur) = "pdf_hybrid" /\ Attempted(row) /\ at' \in Nat
    <3>1. pc = "page" /\ at > n /\ Attempted(row) /\ at' = 0
      BY <1>4 DEF PagesOver
    <3>2. By(cur) = "pdf_hybrid" /\ at \in 1..n + 1
      BY <3>1 DEF IInv, ScanInHand
    <3> HIDE DEF n, row
    <3>3. QED
      BY <1>2, <3>1, <3>2
  <2>2. 1..at - 1 = DOMAIN Content(cur).pages
    BY <1>2, <2>1
  <2>3. 1..at - 1 \in SUBSET Nat
    BY <1>1
  <2>4. /\ row \in Rows /\ row.read = 1..at - 1 /\ row.ocr = TRUE /\ row.images = NoImages
        /\ row.unpacked = Unpacked(Content(cur), Selected(Content(cur)))
    <3>1. Content(cur) \in Contents
      BY <1>1, ContentInHand DEF IInv
    <3> DEFINE parts == 1..at - 1
    <3>2. parts \in SUBSET Nat
      BY <2>3
    <3> HIDE DEF parts
    <3>3. /\ Done(parts, TRUE, NoImages) \in Rows
          /\ Done(parts, TRUE, NoImages).read = parts
          /\ Done(parts, TRUE, NoImages).ocr = TRUE
          /\ Done(parts, TRUE, NoImages).images = NoImages
          /\ Done(parts, TRUE, NoImages).unpacked = Unpacked(Content(cur), Selected(Content(cur)))
      BY <3>1, <3>2, NoImagesTyped, DoneIsRow
    <3>4. QED
      BY <3>3 DEF parts
  <2>5. Sound(row, Content(cur))
    BY <2>1, <2>2, <2>4 DEF Sound, Whole, AsRead, By, IInv, ScanInHand
  <2>6. QED
    BY <1>1, <2>1, <2>4, <2>5, AttemptedKeeps
<1>5. QED
  BY <1>3, <1>4

\* The run itself: its beginning, the choice of a version, the stop, its end.
LEMMA RunKeeps ==
  ASSUME IInv, BeginRun \/ (\E v \in DOMAIN versions : Take(v)) \/ Stop
               \/ PageInterrupted \/ EndRun \/ Cut
  PROVE  IInv'
<1>1. UNCHANGED <<versions, rows>>
  BY DEF BeginRun, Take, Stop, PageInterrupted, EndRun, Cut
<1>2. CASE BeginRun
  <2>1. TypeOK'
    BY <1>1, <1>2 DEF IInv, TypeOK, BeginRun
  <2>2. ItemPending' /\ ScanInHand' /\ RowReady'
    BY <1>2 DEF BeginRun, ItemPending, ScanInHand, RowReady
  <2>3. TodoPending'
    BY <1>1, <1>2, SameRows DEF BeginRun, TodoPending
  <2>4. QED
    BY <1>1, <2>1, <2>2, <2>3, SameRows DEF IInv
<1>3. CASE \E v \in DOMAIN versions : Take(v)
  <2>1. PICK v \in DOMAIN versions : Take(v)
    BY <1>3
  <2>2. done' \in 0..MaxItems
    BY <2>1, ExtractionAssumption DEF Take, WithinBudget, IInv, TypeOK
  <2>3. TypeOK'
    BY <1>1, <2>1, <2>2 DEF IInv, TypeOK, Take
  <2>4. ItemPending' /\ TodoPending'
    BY <1>1, <2>1, SameRows DEF IInv, Take, ItemPending, TodoPending
  <2>5. ScanInHand' /\ RowReady'
    BY <2>1 DEF Take, ScanInHand, RowReady
  <2>6. QED
    BY <1>1, <2>3, <2>4, <2>5, SameRows DEF IInv
<1>4. CASE Stop
  <2>1. TypeOK'
    BY <1>4 DEF IInv, TypeOK, Stop, run
  <2>2. ItemPending' /\ TodoPending' /\ ScanInHand' /\ RowReady'
    BY <1>1, <1>4, SameRows
       DEF Stop, run, IInv, ItemPending, TodoPending, ScanInHand, RowReady, By, Content
  <2>3. QED
    BY <1>1, <2>1, <2>2, SameRows DEF IInv
<1>5. CASE PageInterrupted \/ EndRun \/ Cut
  <2>1. RunOver /\ stops' \in Nat
    BY <1>5 DEF PageInterrupted, EndRun, Cut, IInv, TypeOK
  <2>2. QED
    BY <1>1, <2>1, RunOverKeeps
<1>6. QED
  BY <1>2, <1>3, <1>4, <1>5

LEMMA StutterKeeps ==
  ASSUME IInv, UNCHANGED vars
  PROVE  IInv'
<1>1. TypeOK'
  BY DEF IInv, TypeOK, vars, run
<1>2. ItemPending' /\ TodoPending' /\ ScanInHand' /\ RowReady'
  BY SameRows DEF vars, run, IInv, ItemPending, TodoPending, ScanInHand, RowReady, By, Content
<1>3. QED
  BY <1>1, <1>2, SameRows DEF IInv, vars

LEMMA StepInv == IInv /\ [Next]_vars => IInv'
<1>1. SUFFICES ASSUME IInv, [Next]_vars PROVE IInv'
  OBVIOUS
<1>2. CASE UNCHANGED vars
  BY <1>1, <1>2, StutterKeeps
<1>3. CASE \E d \in Docs, c \in Contents : Arrive(d, c)
  BY <1>1, <1>3, ArriveKeeps
<1>4. CASE Convert
  BY <1>1, <1>4, ReadKeeps, FailureKeeps, PageKeeps, RunKeeps DEF Convert
<1>5. CASE Insert
  BY <1>1, <1>5, InsertKeeps
<1>6. CASE Unstorable
  BY <1>1, <1>6, FailureKeeps
<1>7. CASE BeginRun \/ (\E v \in DOMAIN versions : Take(v)) \/ Stop \/ EndRun \/ Cut
  BY <1>1, <1>7, RunKeeps
<1>8. QED
  BY <1>1, <1>2, <1>3, <1>4, <1>5, <1>6, <1>7 DEF Next, Job

\* Every reachable state satisfies the invariant.
LEMMA Invariance == Spec => []IInv
<1>1. Init => IInv
  BY InitInv
<1>2. IInv /\ [Next]_vars => IInv'
  BY StepInv
<1>3. QED
  BY <1>1, <1>2, PTL DEF Spec

-----------------------------------------------------------------------------
(* The properties *)

\* Every variable stays in its set, and no run goes over its budget.
THEOREM ExtractionTypeCorrect == Spec => []TypeOK
<1>1. IInv => TypeOK
  BY DEF IInv
<1>2. QED
  BY <1>1, Invariance, PTL

\* A document that counts as read is whole: a stop or a crash in the middle of
\* a book leaves nothing that looks like the book.
THEOREM DoneIsWholeHolds == Spec => []DoneIsWhole
<1>1. IInv => DoneIsWhole
  BY DEF IInv, RowsSound, Sound, DoneIsWhole
<1>2. QED
  BY <1>1, Invariance, PTL

\* The attempts at a version are bounded, and over once one succeeded or found
\* it unsupported.
THEOREM AttemptsEndHolds == Spec => []AttemptsEnd
<1>1. IInv => AttemptsEnd
  BY DEF IInv
<1>2. QED
  BY <1>1, Invariance, PTL

\* Rows are only ever added, one at a time and at versions that need them.
THEOREM AuditTrailHolds == Spec => AuditTrail
<1> DEFINE Grows == \A v \in DOMAIN rows :
      rows'[v] = rows[v] \/ (Current(v) /\ ~Settled(v) /\ rows'[v] = Append(rows[v], out))
<1>1. IInv /\ [Next]_vars => [Grows]_vars
  <2>1. SUFFICES ASSUME IInv, Next PROVE Grows
    OBVIOUS
  <2>2. CASE UNCHANGED rows
    BY <2>2
  <2>3. CASE \E d \in Docs, c \in Contents : Arrive(d, c)
    <3>1. rows' = Append(rows, <<>>)
      BY <2>3 DEF Arrive
    <3>2. rows \in Seq(Seq(Rows))
      BY <2>1 DEF IInv, TypeOK
    <3>3. QED
      BY <3>1, <3>2
  <2>4. CASE Insert
    <3>1. Current(cur) /\ ~Settled(cur)
      BY <2>1, <2>4 DEF IInv, ItemPending, Pending, Insert
    <3>2. QED
      BY <2>4, <3>1 DEF Insert
  <2>5. QED
    BY <2>1, <2>2, <2>3, <2>4
       DEF Next, Job, Convert, BeginRun, Take, Stop, Cut, EndRun, PageInterrupted, Unstorable,
           StorageFails, Unsupported, Unparsable, ReadText, ReadHtml, ReadSheet, ReadNative,
           ReadOffice, ReadPicture, BeginOcr, Recognise, PageRefused, EngineFails, PagesOver
<1>2. QED
  BY <1>1, Invariance, PTL DEF Spec, AuditTrail

\* A row of a document in the invariant, with its content.
LEMMA RowInHand ==
  ASSUME IInv, NEW v \in DOMAIN rows, NEW i \in DOMAIN rows[v], rows[v][i].status = "done"
  PROVE  Content(v) \in Contents /\ AsRead(rows[v][i], Content(v)) /\ rows[v][i] \in Rows
<1>1. v \in DOMAIN versions /\ rows[v] \in Seq(Rows)
  BY DEF IInv, TypeOK
<1>2. QED
  BY <1>1, ContentInHand, ElementOf DEF IInv, RowsSound, Sound

\* For any PDF and any threshold, recognition is for the documents of which less
\* than half of the pages have a text of their own, and for all of those.
THEOREM ScansRecognisedHolds == Spec => []ScansRecognised
<1>1. IInv => ScansRecognised
  <2>1. SUFFICES ASSUME IInv, NEW v \in DOMAIN rows, NEW i \in DOMAIN rows[v],
                        rows[v][i].status = "done", By(v) = "pdf_hybrid",
                        Content(v).pages # <<>>
        PROVE rows[v][i].ocr <=>
                HasOcr /\ 2 * Cardinality({k \in DOMAIN Content(v).pages :
                                             Content(v).pages[k].chars >= MinChars})
                            < Len(Content(v).pages)
    BY DEF ScansRecognised
  <2> DEFINE pages == Content(v).pages
             typed == {k \in DOMAIN pages : pages[k].chars >= MinChars}
  <2>2. Content(v) \in Contents /\ (rows[v][i].ocr <=> HasOcr /\ ~Sufficient(pages))
    BY <2>1, RowInHand DEF AsRead, By
  <2>3. pages \in Seq(Pages) /\ Len(pages) \in Nat /\ DOMAIN pages = 1..Len(pages)
    BY <2>2, ReadersAssumption
  <2>4. Sufficient(pages) <=> 2 * Cardinality(typed) >= Len(pages)
    BY <2>1, <2>3, SufficientIsMajority
  <2>5. Cardinality(typed) \in Nat
    BY <2>3, RestOfIndices
  <2> HIDE DEF typed
  <2>6. Sufficient(pages) <=> ~(2 * Cardinality(typed) < Len(pages))
    BY <2>3, <2>4, <2>5
  <2>7. QED
    BY <2>2, <2>6 DEF typed
<1>2. QED
  BY <1>1, Invariance, PTL

\* The text of any page is what a browser shows of it, however its scripts and
\* styles and their stray ends are placed.
THEOREM VisibleTextOnlyHolds == Spec => []VisibleTextOnly
<1>1. IInv => VisibleTextOnly
  <2>1. SUFFICES ASSUME IInv, NEW v \in DOMAIN rows, NEW i \in DOMAIN rows[v],
                        rows[v][i].status = "done", By(v) = "html_text"
        PROVE rows[v][i].read =
                {k \in DOMAIN Content(v).tokens :
                   /\ Content(v).tokens[k] \in {"alt", "data"}
                   /\ ~Open(Content(v).tokens, k - 1)}
    BY DEF VisibleTextOnly, Open
  <2>2. Content(v) \in Contents /\ rows[v][i].read = Visible(Content(v).tokens)
    BY <2>1, RowInHand DEF AsRead, By
  <2>3. QED
    BY <2>2, VisibleIsShown
<1>2. QED
  BY <1>1, Invariance, PTL

\* However many members a document declares, and of whatever sizes, each of the
\* guarded passes keeps to the limits, and reads nothing else. What they unpack
\* together, or what a library unpacks, no theorem bounds: the code does not.
THEOREM PassesBoundedHolds == Spec => []PassesBounded
<1> DEFINE Bounded(members, chosen) ==
             /\ SizesOf(members, chosen)[Len(members)] <= MaxTotal
             /\ \A k \in chosen : /\ members[k].size <= MaxMember
                                  /\ members[k].size <= MaxRatio * members[k].packed
                                       \/ members[k].packed = 0
           Looked(row) == {k \in DOMAIN row.images.statuses : row.images.statuses[k] # "skipped"}
<1>1. IInv => PassesBounded
  <2>1. SUFFICES ASSUME IInv, NEW v \in DOMAIN rows, NEW i \in DOMAIN rows[v],
                        rows[v][i].status = "done"
        PROVE /\ Bounded(Content(v).parts, rows[v][i].unpacked.slides)
              /\ Bounded(Content(v).media, rows[v][i].unpacked.images)
              /\ By(v) = "pptx" => rows[v][i].read \subseteq rows[v][i].unpacked.slides
              /\ Looked(rows[v][i]) \subseteq rows[v][i].unpacked.images
    BY DEF PassesBounded
  <2> DEFINE c == Content(v)
             row == rows[v][i]
             by == Selected(c)
  <2>2. c \in Contents /\ AsRead(row, c)
    BY <2>1, RowInHand
  <2>3. /\ c.parts \in Seq(Members) /\ c.media \in Seq(Members)
        /\ row.unpacked = Unpacked(c, by)
    BY <2>2, ReadersAssumption DEF AsRead
  <2>4. Bounded(c.parts, row.unpacked.slides)
    BY <2>2, <2>3, UnpackedTyped, UnpackedSafely
  <2>5. Bounded(c.media, row.unpacked.images)
    BY <2>2, <2>3, UnpackedTyped, UnpackedSafely
  <2>6. By(v) = "pptx" => row.read \subseteq row.unpacked.slides
    BY <2>2, <2>3 DEF AsRead, By, SlidesRead, Unpacked
  <2>7. Looked(row) \subseteq row.unpacked.images
    <3>1. CASE row.images = NoImages
      BY <3>1 DEF NoImages
    <3>2. ASSUME NEW broken \in SUBSET DOMAIN c.media, row.images = Embedded(c.media, broken),
                 by \in {"docx", "pptx"}, HasOcr
          PROVE  Looked(row) \subseteq row.unpacked.images
      <4>1. \A k \in Looked(row) : k \in 1..Considered(c.media) /\ ~Skipped(c.media, k)
        BY <3>2 DEF Embedded
      <4>2. QED
        BY <2>3, <3>2, <4>1 DEF Unpacked
    <3>3. QED
      BY <2>2, <3>1, <3>2 DEF AsRead
  <2>8. QED
    BY <2>4, <2>5, <2>6, <2>7
<1>2. QED
  BY <1>1, Invariance, PTL

\* A run never goes round in circles: every step of it takes one more version
\* or brings the one in hand nearer to its row, and there are only so many of
\* either.
THEOREM RunAdvancesHolds == Spec => RunAdvances
<1> DEFINE Advances ==
      pc # "idle" /\ pc' # "idle" /\ stopping' = stopping =>
        done' > done \/ (done' = done /\ 0 <= Left' /\ Left' < Left)
<1>1. IInv /\ [Next]_vars => [Advances]_vars
  <2>1. SUFFICES ASSUME IInv, Next, pc # "idle", pc' # "idle", stopping' = stopping,
                        ~(done' > done)
        PROVE done' = done /\ 0 <= Left' /\ Left' < Left
    OBVIOUS
  <2> DEFINE n == Len(Content(cur).pages)
  <2>2. cur \in DOMAIN versions => n \in Nat
    BY <2>1, ContentInHand, ReadersTyped DEF IInv
  <2>3. /\ pc = "convert" => Left = n + 4
        /\ pc = "page" => Left = n + 4 - at /\ at \in 1..n + 1
        /\ pc = "insert" => Left = IF out.status = "done" THEN 2 ELSE 1
        /\ pc \in {"convert", "page", "insert"} => cur \in DOMAIN versions
    BY <2>1 DEF Left, IInv, ItemPending, ScanInHand
  <2>4. \A row : Attempted(row) => /\ Left' = IF row.status = "done" THEN 2 ELSE 1
                                   /\ done' = done
    BY DEF Attempted, Left
  <2> HIDE DEF n
  <2>5. ASSUME pc \in {"convert", "page"}, NEW row, Attempted(row)
        PROVE  done' = done /\ 0 <= Left' /\ Left' < Left
    BY <2>2, <2>3, <2>4, <2>5
  <2>6. CASE \E v \in DOMAIN versions : Take(v)
    <3>1. done' = done + 1 /\ done \in Nat
      BY <2>1, <2>6, ExtractionAssumption DEF Take, IInv, TypeOK
    <3>2. QED
      BY <2>1, <3>1
  <2>7. CASE \/ StorageFails \/ Unsupported \/ Unparsable \/ PageRefused \/ EngineFails
             \/ ReadText \/ ReadHtml \/ ReadSheet \/ ReadNative \/ ReadOffice \/ ReadPicture
             \/ PagesOver
    <3>1. pc \in {"convert", "page"}
      BY <2>7 DEF OnPage, Parsed, StorageFails, Unsupported, Unparsable, PageRefused, EngineFails,
             ReadText, ReadHtml, ReadSheet, ReadNative, ReadOffice, ReadPicture, PagesOver
    <3>2. \E row : Attempted(row)
      BY <2>7 DEF StorageFails, Unsupported, Unparsable, PageRefused, EngineFails,
             ReadText, ReadHtml, ReadSheet, ReadNative, ReadOffice, ReadPicture, PagesOver
    <3>3. QED
      BY <2>5, <3>1, <3>2
  <2>8. CASE BeginOcr
    <3>1. pc = "convert" /\ pc' = "page" /\ at' = 1 /\ UNCHANGED <<versions, done, cur>>
      BY <2>8 DEF BeginOcr, Parsed
    <3>2. Left' = n + 4 - 1
      BY <3>1 DEF Left, Content, n
    <3>3. QED
      BY <2>2, <2>3, <3>1, <3>2
  <2>9. CASE Recognise
    <3>1. pc = "page" /\ pc' = "page" /\ at' = at + 1 /\ UNCHANGED <<versions, done, cur>>
          /\ at <= n
      BY <2>9 DEF Recognise, OnPage, n
    <3>2. Left' = n + 4 - (at + 1)
      BY <3>1 DEF Left, Content, n
    <3>3. QED
      BY <2>2, <2>3, <3>1, <3>2
  <2>10. CASE Unstorable
    <3>1. pc = "insert" /\ Attempted(Failed("unstorable"))
      BY <2>10 DEF Unstorable
    <3>2. out \in Rows /\ out.status # "failed"
      BY <2>1, <2>10, <3>1 DEF Unstorable, Storable, IInv, RowReady
    <3>3. out.status = "done" /\ Failed("unstorable").status # "done"
      BY <3>2, FailedIsRow DEF Rows, Failed
    <3>4. QED
      BY <2>3, <2>4, <3>1, <3>3
  <2>11. CASE Insert
    <3>1. pc = "insert" /\ pc' = "next" /\ UNCHANGED done
      BY <2>11 DEF Insert
    <3>2. Left' = 0
      BY <3>1 DEF Left
    <3>3. QED
      BY <2>3, <3>1, <3>2
  <2>12. ~(\E d \in Docs, c \in Contents : Arrive(d, c)) /\ ~BeginRun /\ ~EndRun /\ ~Cut /\ ~Stop
         /\ ~PageInterrupted
    BY <2>1 DEF Arrive, BeginRun, EndRun, Cut, PageInterrupted, RunOver, Stop
  <2>13. QED
    BY <2>1, <2>6, <2>7, <2>8, <2>9, <2>10, <2>11, <2>12 DEF Next, Job, Convert
<1>2. QED
  BY <1>1, Invariance, PTL DEF Spec, RunAdvances

\* The order in which versions are taken always has a first one: a run never
\* stands still before work that its budget allows.
THEOREM SomeVersionIsNext ==
  Spec => [](todo # {} => \E v \in todo : \A w \in todo : ~Precedes(w, v))
<1>1. IInv => (todo # {} => \E v \in todo : \A w \in todo : ~Precedes(w, v))
  <2>1. SUFFICES ASSUME IInv, todo # {} PROVE \E v \in todo : \A w \in todo : ~Precedes(w, v)
    OBVIOUS
  <2>2. todo \in SUBSET Nat /\ \A v \in todo : Failures(v) \in Nat
    <3>1. todo \subseteq DOMAIN versions /\ DOMAIN versions \subseteq Nat
      BY <2>1 DEF IInv, TypeOK
    <3>2. \A v \in todo : rows[v] \in Seq(Rows)
      BY <2>1, <3>1 DEF IInv, TypeOK
    <3>3. \A v \in todo : Failures(v) \in Nat
      BY <3>2, FailuresOfAppend DEF Failures, FailedIn
    <3>4. QED
      BY <3>1, <3>3
  <2>3. PICK least \in {Failures(v) : v \in todo} : \A n \in {Failures(v) : v \in todo} : least <= n
    <3>1. {Failures(v) : v \in todo} \in SUBSET Nat /\ {Failures(v) : v \in todo} # {}
      BY <2>1, <2>2
    <3>2. QED
      BY <3>1, LeastOfNaturals
  <2>4. PICK v \in {w \in todo : Failures(w) = least} :
          \A n \in {w \in todo : Failures(w) = least} : v <= n
    <3>1. {w \in todo : Failures(w) = least} \in SUBSET Nat /\ {w \in todo : Failures(w) = least} # {}
      BY <2>2, <2>3
    <3>2. QED
      BY <3>1, LeastOfNaturals
  <2>5. ASSUME NEW w \in todo PROVE ~Precedes(w, v)
    <3>1. /\ least <= Failures(w) /\ Failures(v) = least /\ least \in Nat
          /\ v \in Nat /\ w \in Nat /\ Failures(w) \in Nat
      BY <2>2, <2>3, <2>4
    <3>2. Failures(w) = least => v <= w
      BY <2>4
    <3> HIDE DEF Failures
    <3>3. ~(Failures(w) < Failures(v)) /\ ~(Failures(w) = Failures(v) /\ w < v)
      BY <3>1, <3>2
    <3>4. QED
      BY <3>3 DEF Precedes
  <2>6. QED
    BY <2>4, <2>5
<1>2. QED
  BY <1>1, Invariance, PTL
====
